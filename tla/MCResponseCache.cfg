\* Two requests at once, every handler, failures of redis and of workers.
SPECIFICATION Spec
CONSTANTS
    Tasks = {r1, r2}
    MaxBorn = 2
    MaxWrites = 2
    MaxSize = 2
SYMMETRY TaskSymmetry
INVARIANTS
    TypeOK
    InfoFresh
    VectorFresh
