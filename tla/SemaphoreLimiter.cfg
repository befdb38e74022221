\* Four tasks, a change of the limit at any time.
CONSTANTS
    a = a
    b = b
    c = c
    d = d
    Tasks <- FourTasks
    Limits = {1, 3}
    MaxConcurrent = 2
    MaxEntries = 6
    MaxResizes = 1
SPECIFICATION FairSpec
CHECK_DEADLOCK FALSE
INVARIANTS ActiveBound NobodyWaitsInVain
PROPERTIES WaitEnds
