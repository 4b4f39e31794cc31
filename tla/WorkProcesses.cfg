SPECIFICATION Spec
CONSTANTS
    Workers = {w1, w2}
    Processes = {p1, p2, p3}
    Sections = {s1}
    Booths = {b1}
    Lines = {l1}
    Nothing = Nothing
    MaxHops = 3
SYMMETRY Symmetry
INVARIANT Forest
PROPERTY DropsDetach
CHECK_DEADLOCK FALSE
