SPECIFICATION FairStreamSpec
CONSTANTS
    Conns = {c1, c2}
    NoConn = NoConn
    Messages = {"STREAM_ON"}
    MaxInbox = 1
    MaxPosts = 1
    MaxTasks = 1
    MaxChains = 1
CONSTRAINT Undisturbed
CHECK_DEADLOCK FALSE
PROPERTIES
    NewConnectionAccepted
