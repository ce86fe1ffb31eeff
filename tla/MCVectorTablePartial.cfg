\* A commit between the pops of a delete.
SPECIFICATION Spec
CONSTANTS
    Ids = {a, b}
    Tasks = {t1, t2}
    NoTask = NoTask
    Batches <- Singles
    Modes = {"insert"}
    CommitAttempts = 1
    MaxRows = 2
    MaxUpdates = 0
SYMMETRY TableSymmetry
INVARIANTS
    SavedAligned
