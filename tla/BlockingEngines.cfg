\* Two threads run and close one engine.
CONSTANTS
    a = a
    b = b
    Callers <- TwoCallers
    MaxWorkers = 2
    UrlCount = 2
    Codes = {200, 304, 503}
    Faults = {}
    Times = {1}
    MaxRuns = 2
    MaxCloses = 2
SPECIFICATION Spec
SYMMETRY CallerSymmetry
CHECK_DEADLOCK FALSE
INVARIANTS NoSessionForgotten TracingFollowsRuns ReportAddsUp
