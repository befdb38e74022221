\* Documented: requests are rejected for open_state_duration.
CONSTANTS
    a = a
    b = b
    Callers <- TwoCallers
    FailureThreshold = 1
    RateNum = 1
    RateDen = 2
    RateMinimum = 3
    HalfOpenMaxCalls = 1
    OpenStateDuration = 1
    ProbeCount = 1
    WindowDuration = 2
    LoopMayBlock = FALSE
    MaxTime = 2
    MaxOps = 4
    MaxAttempts = 2
    RetryBudget = 1
    BudgetWindow = 2
    MaxCalls = 3
SPECIFICATION RetrySpec
SYMMETRY CallerSymmetry
CHECK_DEADLOCK FALSE
PROPERTIES RefusedOnlyWhileCooling
