SPECIFICATION FairSpec
CONSTANTS
    MaxInbox = 1
    MaxBacklog = 2
    MaxPort = 2
INVARIANTS
    ClientTypeOK
    StatusTrue
    ClientHears
    KeepsAlive
    StatusTold
PROPERTIES
    ServerLossNoticed
