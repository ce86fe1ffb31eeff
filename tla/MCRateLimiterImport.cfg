\* Violated: an import costs more than imports are allowed in a minute.
SPECIFICATION Spec
CONSTANTS
    Workers = {w1}
    Checks = {c1, c2}
    Kinds = {"search", "import"}
    CostOf <- RealCosts
    OperationLimits <- RealLimits
    Strategies = {"sliding"}
    Limits = {1000}
    DefaultLimit = 1000
    HighestLimit = 1000
    Burst = 100
    Window = 2
    Ttl = 3
    MaxTime = 2
    MaxDelay = 1
    MaxAtOnce = 1
    MaxAdmin = 0
SYMMETRY RateLimiterSymmetry
PROPERTY
    OperationLimitIsReachable
