CONSTANTS
    None = None
    Readers = {r1, r2}
    Cleaners = {w1}
    Ids = {1, 2, 3}
    Operators = {1, 2}
    Attempts = 2
    RequeueLimit = 2
    MaxCrashes = 2
    Handlers = {1, 2}
    Streams = {11}
    MaxSessions = 2
    MaxEvents = 3
    MaxPerUser = 3
    Calls = {c1, c2}
    MonthLimit = 1
    CustomLimits = {2}
    SessionLimit = 1
    MinuteLimit = 1
    MaxMinute = 1
SPECIFICATION MCSpec
CHECK_DEADLOCK FALSE
INVARIANTS StaleNeedsARace DeadIsDead NothingDiscarded SessionReused AnswersEnd OverrunBounded
PROPERTIES SilentAfterInterrupt
