SPECIFICATION FairSpec
CONSTANTS
    Options <- MCOptions
    Settings = {}
    Junk <- MCJunk
    Mixed = {}
    StackRoom <- MCStackRoom
    MaxUpdates = 0
    MaxTasks = 3
CHECK_DEADLOCK FALSE
PROPERTIES
    DestructorReturns
