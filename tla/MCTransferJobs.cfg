\* One import of every file and batch size, one export, any time a restart.
SPECIFICATION Spec
CONSTANTS
    Imports = {i1}
    Exports = {e1}
    Files <- SmallFiles
    BatchSizes = {1, 2, 3}
    Counts = {0, 2}
    Limits = {0, 1}
INVARIANTS
    TypeOK
    RowsAccounted
PROPERTIES
    JobsEnd
CHECK_DEADLOCK FALSE
