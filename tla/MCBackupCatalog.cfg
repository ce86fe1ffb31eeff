\* Two processes over one directory, two backups, failures at every step.
SPECIFICATION Spec
CONSTANTS
    Procs = {p1, p2}
    Backups = {b1, b2}
SYMMETRY BackupSymmetry
INVARIANTS
    TypeOK
    ListedIsRestorable
    FailedIsNotListed
    CompletedIsKept
