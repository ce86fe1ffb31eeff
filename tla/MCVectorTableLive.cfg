\* Liveness: no symmetry, the five commit attempts of the code.
SPECIFICATION FairSpec
CONSTANTS
    Ids = {a}
    Tasks = {t1, t2}
    NoTask = NoTask
    Batches <- Singles
    Modes = {"skip"}
    CommitAttempts = 5
    MaxRows = 1
    MaxUpdates = 1
PROPERTIES
    EveryRequestEnds
