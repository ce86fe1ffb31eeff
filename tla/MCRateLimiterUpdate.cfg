\* Violated: an update reaches one worker.
SPECIFICATION Spec
CONSTANTS
    Workers = {w1, w2}
    Checks = {c1, c2}
    Kinds = {"search"}
    CostOf <- UnitCost
    OperationLimits <- NoOperationLimit
    Strategies = {"sliding"}
    Limits = {1, 2}
    DefaultLimit = 1
    HighestLimit = 2
    Burst = 1
    Window = 2
    Ttl = 3
    MaxTime = 2
    MaxDelay = 1
    MaxAtOnce = 1
    MaxAdmin = 1
SYMMETRY RateLimiterSymmetry
PROPERTY
    UpdateRules
