CONSTANTS
    NumSteps = 2
    MaxRetries = 2
    Compensable = {1, 2}
    TimedSteps = {}
    HasTimeout = TRUE
    Requests = {"stepRetry", "recover", "stuck", "comp1", "comp2", "retry"}
    MaxCrashes = 1
SPECIFICATION MCSpec
INVARIANTS EffectAtMostOnce CompletedIsReal UndoneInReverse CompensatedIsClean
CHECK_DEADLOCK FALSE
