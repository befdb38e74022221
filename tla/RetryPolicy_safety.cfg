\* Retry loops around a shared breaker.
CONSTANTS
    a = a
    b = b
    Callers <- TwoCallers
    FailureThreshold = 2
    RateNum = 1
    RateDen = 2
    RateMinimum = 3
    HalfOpenMaxCalls = 2
    OpenStateDuration = 1
    ProbeCount = 1
    WindowDuration = 2
    LoopMayBlock = FALSE
    MaxTime = 3
    MaxOps = 9
    MaxAttempts = 2
    RetryBudget = 1
    BudgetWindow = 2
    MaxCalls = 4
SPECIFICATION RetrySpec
SYMMETRY CallerSymmetry
CHECK_DEADLOCK FALSE
INVARIANTS AttemptsAreRequests ProbeBound TwoBudgetsPerSpan
PROPERTIES StuckOpenWithoutRetries
