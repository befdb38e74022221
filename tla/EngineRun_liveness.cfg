\* Streams, runs and close end; nobody waits for each other, also when the result
\* queue of one is full.
CONSTANTS
    a = a
    b = b
    Calls <- TwoCalls
    Tasks <- CallWorkers
    MaxConcurrent = 1
    UrlCount = 2
    Limits = {}
    MaxResizes = 0
    MaxEntries = 4
SPECIFICATION EngineFairSpec
CHECK_DEADLOCK FALSE
INVARIANTS NoCallIsStuck
PROPERTIES CallsEnd
