SPECIFICATION Spec
CONSTANTS
    Conns = {c1, c2}
    NoConn = NoConn
    Messages = {"STREAM_ON"}
    MaxInbox = 1
CHECK_DEADLOCK FALSE
PROPERTIES
    KickSparesNewcomer
