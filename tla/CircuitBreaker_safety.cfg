\* Three callers, on an event loop that may be blocked for a clock unit during
\* the 1 ms wait.  One failure in three outcomes reaches the error rate, but not
\* the failure count.
CONSTANTS
    a = a
    b = b
    c = c
    Callers <- ThreeCallers
    FailureThreshold = 2
    RateNum = 1
    RateDen = 3
    RateMinimum = 3
    HalfOpenMaxCalls = 2
    OpenStateDuration = 1
    ProbeCount = 1
    WindowDuration = 1
    LoopMayBlock = TRUE
    MaxTime = 3
    MaxOps = 7
SPECIFICATION Spec
SYMMETRY CallerSymmetry
CHECK_DEADLOCK FALSE
INVARIANTS NoProbeLeak WindowIsRecentLog
PROPERTIES OpensExactlyOnRecentFailures KeepsContract
