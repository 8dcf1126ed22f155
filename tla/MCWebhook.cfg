CONSTANTS
    None = None
    e1 = e1
    e2 = e2
    c1 = c1
    Events = {e1, e2}
    Consumers = {c1}
    RetryLimit <- MCRetries
    FailureLimit = 2
    BatchSize = 2
    MaxAdmin = 2
    MaxRestarts = 0
    MaxStarts = 2
    MaxTimers = 2
    MaxLost = 2
SPECIFICATION MCSpec
CHECK_DEADLOCK FALSE
PROPERTIES OwedWhileServed FeedReturns
