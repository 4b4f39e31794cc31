SPECIFICATION Spec
CONSTANTS
    Workers = {w1, w2}
    Scopes = {k1}
    Bodies = {b1, b2}
    ClaimIds = {i1, i2, i3, i4}
    Faults = {"ACK_LOST"}
INVARIANT WorkCommitsOnce
