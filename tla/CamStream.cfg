SPECIFICATION FairStreamSpec
CONSTANTS
    Conns = {c1}
    NoConn = NoConn
    Messages = {"STREAM_ON", "STREAM_OFF", "KEEP_ALIVE"}
    MaxInbox = 1
    MaxPosts = 1
    MaxTasks = 1
    MaxChains = 2
CHECK_DEADLOCK FALSE
INVARIANTS
    StreamTypeOK
    CameraToldLast
    ChainsMatchStreaming
PROPERTIES
    CameraObeys
    FramesCease
    DisconnectNoticed
    DeadPeerDropped
