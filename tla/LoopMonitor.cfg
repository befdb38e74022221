\* Two users start and stop a monitor.
CONSTANTS
    a = a
    b = b
    Users <- TwoUsers
    Latencies = {1, 2, 3, 5}
    Warning = 2
    Critical = 4
    MaxHistory = 2
    MaxStarts = 3
    MaxSamples = 3
    MaxLoops = 1
SPECIFICATION FairSpec
CHECK_DEADLOCK FALSE
INVARIANTS  RunningIsMonitored HistoryIsRecent AlertsOncePerEpisode
PROPERTIES StoppedEnds
