CONSTANTS
    NumSteps = 2
    MaxRetries = 1
    Compensable = {1, 2}
    TimedSteps = {1}
    HasTimeout = FALSE
    Requests = {"cancel", "comp1", "recover", "force"}
    MaxCrashes = 0
    None = None
    e1 = e1
    e2 = e2
    c1 = c1
    c2 = c2
    Events = {e1, e2}
    Consumers = {c1, c2}
    RetryLimit <- MCRetries
    FailureLimit = 1
    BatchSize = 2
    MaxAdmin = 1
    MaxRestarts = 1
SPECIFICATION RowsSpec
CHECK_DEADLOCK FALSE
INVARIANTS DeliveredIsReal BatchesDoNotOverlap
PROPERTIES Settles KeepsPromise
