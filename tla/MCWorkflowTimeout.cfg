CONSTANTS
    NumSteps = 2
    MaxRetries = 2
    Compensable = {1, 2}
    TimedSteps = {2}
    HasTimeout = FALSE
    Requests = {}
    MaxCrashes = 0
SPECIFICATION FairSpec
PROPERTIES TimeoutCompensates
CHECK_DEADLOCK FALSE
