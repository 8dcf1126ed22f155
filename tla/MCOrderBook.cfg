CONSTANTS
    Users = {"alice"}
    Pairs = {"XLMUSD", "XLMEUR"}
    Prices = {0, 1, 2}
    Amounts = {0, 1, 2}
    FirstPair = "XLMUSD"
    MaxOrders = 3
    MaxTime = 1
SPECIFICATION MCSpec
INVARIANTS BookSound NeverCrossed FokCovered
PROPERTIES MatchingEnds PriorityKept
CHECK_DEADLOCK FALSE
