\* One worker, two requests in progress, three generations, and the code's
\* three load attempts: no symmetry, for the liveness property.
SPECIFICATION FairSpec
CONSTANTS
    Workers = {w1}
    Tasks = {t1, t2}
    NoTask = NoTask
    LoadAttempts = 3
    MaxGen = 3
INVARIANTS
    TypeOK
    HandleFresh
    NoLostInsert
PROPERTIES
    CleanupSparesOthers
    EveryRequestEnds
