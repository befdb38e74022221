\* Documented: close makes the writer immutable.
CONSTANTS
    a = a
    b = b
    c = c
    Users <- TwoUsers
    Adapters = {"jsonl"}
    BufferSize = 2
    MaxRecords = 2
    MaxOps = 4
SPECIFICATION Spec
SYMMETRY UserSymmetry
CHECK_DEADLOCK FALSE
PROPERTIES ClosedIsImmutable
