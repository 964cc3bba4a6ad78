SPECIFICATION FairSpec
CONSTANTS
    Conns = {c1, c2}
    NoConn = NoConn
    Messages = {"STREAM_ON", "KEEP_ALIVE", "IMAGE"}
    MaxInbox = 1
CHECK_DEADLOCK FALSE
INVARIANTS
    StreamingNeedsClient
    ConnectionHeard
    ConnectionWatched
    NoLeakedConnection
    AcceptorArmed
PROPERTIES
    ImplementsService
    NewConnectionAccepted
