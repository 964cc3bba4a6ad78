SPECIFICATION FairSpec
CONSTANTS
    Conns = {c1, c2}
    NoConn = NoConn
    Messages = {"KEEP_ALIVE"}
    MaxInbox = 1
CHECK_DEADLOCK FALSE
PROPERTIES
    DeadPeerDropped
