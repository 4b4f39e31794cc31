----------------------------- MODULE MCPrintDesk -----------------------------
(* Small instances of PrintDesk for TLC. *)
EXTENDS PrintDesk, TLC

Symmetry == Permutations(Packs) \cup Permutations(Jobs)
=============================================================================
