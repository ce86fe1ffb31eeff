\* Every operation, two requests in progress, batches of one or two vectors.
SPECIFICATION Spec
CONSTANTS
    Ids = {a, b}
    Tasks = {t1, t2}
    NoTask = NoTask
    Batches <- Pairs
    Modes = {"insert", "skip"}
    CommitAttempts = 2
    MaxRows = 2
    MaxUpdates = 1
CONSTRAINT StillAsked
SYMMETRY TableSymmetry
INVARIANTS
    TypeOK
    RightRow
    ColumnsAligned
    AckedDurable
    SkipExistingUnique
