\* Two producers, two stoppers, two restarts, a flush, on a queue of one.
CONSTANTS
    a = a
    b = b
    s = s
    t = t
    Producers <- TwoProducers
    Stoppers <- TwoStoppers
    MaxQueueSize = 1
    BatchSize = 2
    MaxPuts = 3
    MaxStarts = 3
    MaxFlushes = 1
    MaxCalls = 4
SPECIFICATION FairSpec
CHECK_DEADLOCK FALSE
INVARIANTS OneConsumer InOrder EachItemOnce NoPutForgotten
PROPERTIES StopHandlesEarlierItems StopEnds FlushEnds
