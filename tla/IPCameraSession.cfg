SPECIFICATION FairSpec
CONSTANTS
    MaxSubs = 3
CHECK_DEADLOCK FALSE
INVARIANTS
    TypeOK
PROPERTIES
    ServerToldOfEnd
    NoSessionWithoutSinks
    SetupLeadsToPlay
