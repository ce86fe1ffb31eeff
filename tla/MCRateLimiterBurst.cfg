\* Violated: the bucket is read and written back in two commands.
SPECIFICATION Spec
CONSTANTS
    Workers = {w1}
    Checks = {c1, c2, c3}
    Kinds = {"search"}
    CostOf <- UnitCost
    OperationLimits <- NoOperationLimit
    Strategies = {"token"}
    Limits = {1}
    DefaultLimit = 1
    HighestLimit = 1
    Burst = 1
    Window = 2
    Ttl = 3
    MaxTime = 3
    MaxDelay = 1
    MaxAtOnce = 2
    MaxAdmin = 0
SYMMETRY RateLimiterSymmetry
INVARIANT
    BurstWithinCapacity
