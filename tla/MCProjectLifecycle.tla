------------------------- MODULE MCProjectLifecycle -------------------------
(***************************************************************************)
(* Two small instances of the planning of a project for TLC, and a         *)
(* behaviour is one of the two: transactions that run one at a time, over  *)
(* two products of one model each, or that interleave, over one model of   *)
(* two parts.                                                              *)
(***************************************************************************)
EXTENDS ProjectLifecycle, TLC

CONSTANTS
    gundam, zaku, rx, ms, frame, shield, molding,
    Pair    \* the workers whose transactions interleave

VARIABLE raced   \* whether those have overlapped

MCProductOf == rx :> gundam @@ ms :> zaku
MCModelOf == frame :> rx @@ shield :> ms
(* The catalog neither routes nor times the shield. *)
MCRoute == frame :> {molding} @@ shield :> {}
MCTimed == frame :> {molding} @@ shield :> {}

Overlap == INSTANCE ProjectLifecycle
    WITH Workers <- Pair, Products <- {gundam}, Models <- {rx},
         ProductOf <- rx :> gundam, ModelOf <- frame :> rx @@ shield :> rx,
         CatalogRoute <- frame :> {molding} @@ shield :> {molding},
         Quantities <- {1, 2}, PackSizes <- {1}, lapped <- raced

(* Transactions of a single worker never overlap, so lapped tells the two  *)
(* instances apart: what is promised until then is promised of the first.  *)
MCInit ==
    \/ Init /\ raced = FALSE
    \/ Overlap!Init /\ lapped = TRUE
MCNext ==
    \/ ~lapped /\ Next /\ UNCHANGED raced
    \/ lapped /\ Overlap!Next /\ UNCHANGED lapped
MCSpec == MCInit /\ [][MCNext]_<<vars, raced>>

Symmetry == Permutations(Pair)
=============================================================================
