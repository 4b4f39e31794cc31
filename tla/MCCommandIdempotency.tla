----------------------- MODULE MCCommandIdempotency -------------------------
(* Small instances of CommandIdempotency for TLC. *)
EXTENDS CommandIdempotency, TLC

Symmetry == Permutations(Workers) \cup Permutations(Scopes)
            \cup Permutations(Bodies)
            \cup Permutations(ClaimIds)
=============================================================================
