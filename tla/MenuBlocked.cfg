SPECIFICATION FairSpec
CONSTANTS
    MaxCommands = 4
    MaxPushes = 2
PROPERTY MenuReached
CHECK_DEADLOCK FALSE
