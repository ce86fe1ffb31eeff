\* Two workers, requests one after the other: a handle outlives its dataset.
SPECIFICATION Spec
CONSTANTS
    Workers = {w1, w2}
    Tasks = {t1, t2}
    NoTask = NoTask
    LoadAttempts = 1
    MaxGen = 2
SYMMETRY TaskSymmetry
INVARIANTS
    HandleFresh
