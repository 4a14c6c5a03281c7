SPECIFICATION FairSpec
CONSTANTS
    MaxCommands = 4
    MaxPushes = 2
INVARIANT TypeOK
PROPERTY ImplementsRole
PROPERTY ExitEnds
PROPERTY LostServerExits
CHECK_DEADLOCK FALSE
