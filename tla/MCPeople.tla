------------------------------ MODULE MCPeople ------------------------------
(***************************************************************************)
(* Small instances, for TLC, of the two ways people come to be in charge   *)
(* of something, which share no row: as subjects of the plant (Staffing)   *)
(* or as members of a legacy workspace (Membership).  A behaviour is one   *)
(* of one of them ("part"):                                                *)
(*                                                                         *)
(*   roles       changes of subjects that overlap, with no line            *)
(*   lines       the lines, with subjects disabled and enabled while no    *)
(*               other request goes on, as long as there is an operator    *)
(*               whom no two requests went for at once                     *)
(*   members     a legacy workspace                                        *)
(***************************************************************************)
EXTENDS Staffing, TLC

CONSTANTS Third, Roles, MaxRequests

VARIABLES part, members, sharers, founded, call, requests, disturbed

memberVars == <<members, sharers, founded, call, requests, disturbed>>

Workspace == INSTANCE Membership
    WITH Users <- Subjects \cup {Third}, Jobs <- Workers, job <- call

ASSUME RolesAssumption ==
    /\ {"OWNER", "ADMIN"} \subseteq Roles /\ "none" \notin Roles
    /\ MaxRequests \in Nat

MCInit == part \in {"roles", "lines", "members"} /\ Init /\ Workspace!Init
MCNext ==
    /\ UNCHANGED part
    /\ IF part = "members" THEN Workspace!Next /\ UNCHANGED vars
       ELSE Next /\ UNCHANGED memberVars
    /\ part = "roles" => UNCHANGED line
    /\ part = "lines" =>
         /\ \A v, w \in Workers :
              (Patches(v) /\ job[w] # Idle)' => v = w /\ job'[v].to \notin Bundles
         /\ {"line"} \X Subjects # raced'
MCSpec == MCInit /\ [][MCNext]_<<part, vars, memberVars>>

Symmetry ==
    Permutations(Workers) \cup Permutations(Subjects)
    \cup Permutations(Lines) \cup Permutations(Assignments)
-----------------------------------------------------------------------------
(* A workspace that was founded keeps an owner, whoever is demoted or      *)
(* removed by whom (Membership).                                           *)
OwnerRemains == Workspace!OwnerRemains

(* Who is in a project is in its workspace (Membership).                   *)
SharersBelong == Workspace!SharersBelong
=============================================================================
