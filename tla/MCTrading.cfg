CONSTANTS
    Users = {"alice", "bob"}
    ExtraRoles = {}
    GrantablePerms = {"audit"}
    MaxDepth = 10
    NoRole = NoRole
    Hashes = {"h1", "h2"}
    ProofTtl = 0
    PausableFns = {"trade"}
    CbConfigs <- MCCbConfigs
    Batches <- MCBatches
    MaxBatchSize = 2
    DefaultRateLimit <- MCDefaultRateLimit
    RateLimits <- MCRateLimits
    Pairs = {"XLMUSD"}
    Prices = {0, 1}
    Amounts = {0, 1}
    MaxOrders = 2
    MaxTrades = 4
    MaxPrivate = 2
    MaxAudits = 1
    MaxTime = 3
SPECIFICATION MCSpec
INVARIANTS RateCountersAgree BreakerTrips CallsWithinRate BalanceFollowsTrades
CHECK_DEADLOCK FALSE
