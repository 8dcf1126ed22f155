CONSTANTS
    None = None
    Unread = Unread
    Loggers = {"c1", "c2"}
    Ids = {1, 2, 3, 4}
    Legacy <- MCLegacy
    Retention = 1
    MaxTime = 3
    MaxCrashes = 1
    Calls = {c1, c2}
    MonthLimit = 1
    CustomLimits = {2}
    SessionLimit = 1
    MinuteLimit = 1
    MaxMinute = 0
    Callers = {s1, s2, s3}
    Free = Free
    MaxExpiries = 2
    MaxStops = 2
SPECIFICATION MCSpec
CHECK_DEADLOCK FALSE
INVARIANTS ChainVerifies NothingLost ExecutedOnce
PROPERTIES MoveCompleted SessionReopens EveryCallAnswered
