SPECIFICATION MCSpec
CONSTANTS
    Workers = {w1, w2}
    Subjects = {s1, s2}
    Lines = {l1, l2}
    Assignments = {a1, a2}
    Bundles = {"admin", "operator"}
    Third = u3
    Roles = {"OWNER", "ADMIN"}
    MaxRequests = 4
SYMMETRY Symmetry
INVARIANTS AdminRemains OneRole OneLine OwnerRemains SharersBelong
CHECK_DEADLOCK FALSE
