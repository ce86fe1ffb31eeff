\* Sliding window, the strategy of the code: unit costs, two checks at once.
SPECIFICATION Spec
CONSTANTS
    Workers = {w1}
    Checks = {c1, c2, c3, c4, c5}
    Kinds = {"search"}
    CostOf <- UnitCost
    OperationLimits <- NoOperationLimit
    Strategies = {"sliding"}
    Limits = {2}
    DefaultLimit = 2
    HighestLimit = 2
    Burst = 1
    Window = 2
    Ttl = 3
    MaxTime = 3
    MaxDelay = 1
    MaxAtOnce = 2
    MaxAdmin = 0
SYMMETRY RateLimiterSymmetry
INVARIANTS
    SlidingBounded
    LapseNeedsFailure
PROPERTIES
    RefusedOnlyWhenFull
