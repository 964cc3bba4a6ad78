SPECIFICATION Spec
CONSTANTS
    Conns = {c1}
    NoConn = NoConn
    Messages = {"KEEP_ALIVE"}
    MaxInbox = 2
CHECK_DEADLOCK FALSE
INVARIANTS
    SocketAssertHolds
