\* Two calls share an engine of two workers.
CONSTANTS
    a = a
    b = b
    Calls <- TwoCalls
    Tasks <- CallWorkers
    MaxConcurrent = 2
    UrlCount = 2
    Limits = {}
    MaxResizes = 0
    MaxEntries = 4
SPECIFICATION EngineSpec
SYMMETRY CallSymmetry
CHECK_DEADLOCK FALSE
INVARIANTS UnfinishedIsExact ReturnedIsComplete RequestsBounded
