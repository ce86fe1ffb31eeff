\* Windows and buckets: two operations, one with a limit of its own, an update or a reset.
SPECIFICATION Spec
CONSTANTS
    Workers = {w1}
    Checks = {c1, c2, c3}
    Kinds = {"search", "create"}
    CostOf <- TwoCosts
    OperationLimits <- CreateLimit
    Strategies = {"fixed", "token"}
    Limits = {2, 3}
    DefaultLimit = 2
    HighestLimit = 3
    Burst = 2
    Window = 2
    Ttl = 3
    MaxTime = 2
    MaxDelay = 1
    MaxAtOnce = 2
    MaxAdmin = 1
SYMMETRY RateLimiterSymmetry
INVARIANTS
    TypeOK
    OperationLimitExact
    UsageCovers
    TokenBucketExact
PROPERTIES
    ImplementsQuota
