---------------------------- MODULE ProjectLife -----------------------------
(***************************************************************************)
(* What the life of a project promises to its planners and to the floor:   *)
(* a plan is edited while the project is a draft, stands once it is        *)
(* released, and disappears only with a draft.                             *)
(***************************************************************************)
VARIABLES
    status,   \* "NONE" before the project was created
    plan      \* everything that was planned

Init == status = "NONE" /\ plan = "NONE"

Create == status = "NONE" /\ status' = "DRAFT"

Edit == status = "DRAFT" /\ UNCHANGED status

Release == status = "DRAFT" /\ status' = "RELEASED" /\ UNCHANGED plan

Complete == status = "RELEASED" /\ status' = "COMPLETED" /\ UNCHANGED plan

Delete == status = "DRAFT" /\ status' = "DELETED"

Next == Create \/ Edit \/ Release \/ Complete \/ Delete

Spec == Init /\ [][Next]_<<status, plan>>
=============================================================================
