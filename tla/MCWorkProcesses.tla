--------------------------- MODULE MCWorkProcesses ---------------------------
(* Symmetry of the instances of WorkProcesses that TLC checks.             *)
EXTENDS WorkProcesses, TLC

Symmetry == Permutations(Workers) \cup Permutations(Processes)
=============================================================================
