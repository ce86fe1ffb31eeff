\* A delete during the scan of skip_existing: the id is inserted twice.
SPECIFICATION Spec
CONSTANTS
    Ids = {a, b}
    Tasks = {t1, t2}
    NoTask = NoTask
    Batches <- Singles
    Modes = {"skip"}
    CommitAttempts = 1
    MaxRows = 3
    MaxUpdates = 0
SYMMETRY TableSymmetry
INVARIANTS
    SkipExistingAlwaysUnique
