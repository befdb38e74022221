\* Three tasks share a writer of either kind.
CONSTANTS
    a = a
    b = b
    c = c
    Users <- ThreeUsers
    Adapters = {"jsonl", "sqlite"}
    BufferSize = 2
    MaxRecords = 3
    MaxOps = 4
SPECIFICATION FairSpec
CHECK_DEADLOCK FALSE
INVARIANTS Journal NothingLost
PROPERTIES ReturnMeansPersisted MethodsEnd
