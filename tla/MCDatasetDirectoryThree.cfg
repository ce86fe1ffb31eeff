\* One worker, three requests in progress, three generations: run by hand.
SPECIFICATION Spec
CONSTANTS
    Workers = {w1}
    Tasks = {t1, t2, t3}
    NoTask = NoTask
    LoadAttempts = 2
    MaxGen = 3
SYMMETRY TaskSymmetry
INVARIANTS
    TypeOK
    HandleFresh
    NoLostInsert
PROPERTIES
    CleanupSparesOthers
