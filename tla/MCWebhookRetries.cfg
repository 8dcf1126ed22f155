CONSTANTS
    None = None
    e1 = e1
    e2 = e2
    c1 = c1
    Events = {e1, e2}
    Consumers = {c1}
    RetryLimit <- MCRetries
    FailureLimit = 1
    BatchSize = 2
    MaxAdmin = 1
    MaxRestarts = 0
    MaxStarts = 1
    MaxTimers = 1
    MaxLost = 1
SPECIFICATION MCSpec
CHECK_DEADLOCK FALSE
PROPERTIES RetriesAreLimited
