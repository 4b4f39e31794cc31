SPECIFICATION Spec
CONSTANTS
    Workers = {w1, w2}
    Assets = {a1, a2}
    Models = {m1, m2}
    NoImage = NoImage
SYMMETRY Symmetry
INVARIANTS OneAvailable LinkedHasBytes
PROPERTY RetainedStay
CHECK_DEADLOCK FALSE
