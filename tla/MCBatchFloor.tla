---------------------------- MODULE MCBatchFloor -----------------------------
(***************************************************************************)
(* Two small instances of the floor for TLC, and a behaviour is one of the *)
(* two: transactions that run one at a time, over a route of two steps, or *)
(* that interleave, over its last step.                                    *)
(***************************************************************************)
EXTENDS FloorReads, TLC

CONSTANTS
    Pair,        \* the workers whose transactions interleave
    Interleaved  \* the commands they send

VARIABLE raced   \* whether those have overlapped

MCOrigin == [stage |-> "STG-PROJECTS", sub |-> "none"]
Molding == [stage |-> "STG-MOLDING", sub |-> "none"]
Assembly == [stage |-> "STG-ASSEMBLY", sub |-> "none"]
MCStations == {MCOrigin, Molding, Assembly}
MCRoute == <<Molding, Assembly>>

Overlap == INSTANCE BatchFloor
    WITH Workers <- Pair, Commands <- Interleaved,
         Stations <- {MCOrigin, Assembly}, Route <- <<Assembly>>,
         MaxInspections <- 1, MaxViolations <- 1, lapped <- raced

(* Transactions of a single worker never overlap, so lapped tells the two  *)
(* instances apart: what is promised until then is promised of the first.  *)
MCInit ==
    \/ Init /\ raced = FALSE
    \/ Overlap!Init /\ lapped = TRUE
MCNext ==
    \/ ~lapped /\ Next /\ UNCHANGED raced
    \/ lapped /\ Overlap!Next /\ UNCHANGED lapped
MCSpec == MCInit /\ [][MCNext]_<<vars, raced>>

Symmetry == Permutations(Pair)
=============================================================================
