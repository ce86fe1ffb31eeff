\* An insert that asks to overwrite leaves the old row.
SPECIFICATION Spec
CONSTANTS
    Ids = {a, b}
    Tasks = {t1, t2}
    NoTask = NoTask
    Batches <- Singles
    Modes = {"overwrite"}
    CommitAttempts = 1
    MaxRows = 2
    MaxUpdates = 0
SYMMETRY TableSymmetry
PROPERTIES
    OverwriteReplaces
