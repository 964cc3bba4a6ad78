SPECIFICATION Spec
CONSTANTS
    MaxSubs = 1
CHECK_DEADLOCK FALSE
PROPERTIES
    PlayedSessionGoesOn
