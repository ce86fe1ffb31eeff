\* Two creates of one name: the second removes what the first made.
SPECIFICATION Spec
CONSTANTS
    Workers = {w1}
    Tasks = {t1, t2}
    NoTask = NoTask
    LoadAttempts = 1
    MaxGen = 2
SYMMETRY TaskSymmetry
PROPERTIES
    CreateNeverDestroys
