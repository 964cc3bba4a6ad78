SPECIFICATION FairSpec
CONSTANTS
    Options <- MCOptions
    Settings <- MCSettings
    Junk <- MCJunk
    Mixed <- MCMixed
    StackRoom <- MCStackRoom
    MaxUpdates = 2
    MaxTasks = 3
CHECK_DEADLOCK FALSE
INVARIANTS
    DaqTypeOK
    LastSettingsApplied
    
    
PROPERTIES
    CommandsUnderstood
    ScansGoOn
