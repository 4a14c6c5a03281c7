\* A key without and a key with a delimiter, a value and the empty one.
SPECIFICATION FairSpec
CONSTANTS
    Threads = {t1, t2}
    NoThread = NoThread
    Fields = {"", "a", "b", "x"}
    Empty = ""
    KeyOrder <- MCKeyOrder
    NewKeys <- MCNewKeys
    NewValues <- MCNewValues
    MaxCalls = 6
INVARIANTS
    TypeOK
    FileIsSnapshot
    EntriesAreGenuine
PROPERTIES
    CallsEnd
CHECK_DEADLOCK FALSE
