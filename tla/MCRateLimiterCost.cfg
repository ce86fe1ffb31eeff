\* Violated: the sorted set gets one entry whatever the cost.
SPECIFICATION Spec
CONSTANTS
    Workers = {w1}
    Checks = {c1, c2, c3}
    Kinds = {"search", "create"}
    CostOf <- TwoCosts
    OperationLimits <- NoOperationLimit
    Strategies = {"sliding"}
    Limits = {3}
    DefaultLimit = 3
    HighestLimit = 3
    Burst = 1
    Window = 2
    Ttl = 3
    MaxTime = 3
    MaxDelay = 1
    MaxAtOnce = 1
    MaxAdmin = 0
SYMMETRY RateLimiterSymmetry
INVARIANT
    CostsCount
