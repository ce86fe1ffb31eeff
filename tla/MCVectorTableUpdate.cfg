\* UpdatesAreWhole: a commit of another request between the fields of an update.
SPECIFICATION Spec
CONSTANTS
    Ids = {a, b}
    Tasks = {t1, t2}
    NoTask = NoTask
    Batches <- Singles
    Modes = {"insert"}
    CommitAttempts = 1
    MaxRows = 2
    MaxUpdates = 2
INVARIANTS
    UpdatesAreWhole
