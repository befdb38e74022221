\* A run with two writers, one, or none.
CONSTANTS
    r = r
    Runner = r
    Producers <- Task
    Stoppers <- Task
    MaxQueueSize = 1
    BatchSize = 2
    MaxPuts = 5
    MaxStarts = 1
    MaxFlushes = 0
    MaxCalls = 6
    WriterCount = 2
SPECIFICATION StreamFairSpec
CHECK_DEADLOCK FALSE
INVARIANTS ReportIsReliable WritersAgree MissingIsExplained CleansUp
PROPERTIES RunEnds
