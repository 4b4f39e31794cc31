----------------------------- MODULE Membership -----------------------------
(***************************************************************************)
(* The legacy workspace services: who belongs to a workspace and to a      *)
(* project of it (workspace, workspaceMember and projectMember routers,    *)
(* controllers and repositories, and the role check before them).  They    *)
(* write to MongoDB without transactions: every call is a step of its own, *)
(* and requests may interleave and stop between any two.                   *)
(*                                                                         *)
(* One workspace and one project of it.  Rows are never deleted, only      *)
(* marked, and at most one exists per user.  Project roles are left out.   *)
(***************************************************************************)
EXTENDS FiniteSets, Integers

CONSTANTS
    Users,
    Roles,          \* WorkspaceRole, or those of them an instance uses
    Jobs,           \* requests in flight at once
    MaxRequests     \* requests in an instance

VARIABLES
    members,      \* members[u]: the WorkspaceMember row of u
    sharers,      \* sharers[u]: the ProjectMember row of u
    founded,      \* whether the workspace is there
    job,          \* job[j]: a request between two of its calls
    requests,     \* how many there have been
    disturbed     \* whether two overlapped or one stopped halfway

vars == <<members, sharers, founded, job, requests, disturbed>>

NoRow == [role |-> "none", gone |-> FALSE]
MemberRow == {NoRow} \cup [role: Roles, gone: BOOLEAN]
Active(u) == members[u] # NoRow /\ ~members[u].gone
Owners == {u \in Users : Active(u) /\ members[u].role = "OWNER"}

Idle == [kind |-> "none"]
Kinds == {"create", "add", "role", "remove", "share", "unshare"}
Places == {"start", "check", "count", "find", "write", "settle", "cascade"}
Job == {Idle} \cup [kind: Kinds, at: Places, by: Users, of: Users, role: Roles,
                    caller: Roles]

TypeOK ==
    /\ members \in [Users -> MemberRow]
    /\ sharers \in [Users -> {"none", "active", "gone"}]
    /\ founded \in BOOLEAN
    /\ job \in [Jobs -> Job]
    /\ requests \in 0..MaxRequests
    /\ disturbed \in BOOLEAN

Init ==
    /\ members = [u \in Users |-> NoRow]
    /\ sharers = [u \in Users |-> "none"]
    /\ founded = FALSE
    /\ job = [j \in Jobs |-> Idle]
    /\ requests = 0
    /\ disturbed = FALSE
-----------------------------------------------------------------------------
(* The roles a route admits.                                               *)
Admitted(kind) ==
    CASE kind \in {"add", "role", "remove"} -> {"OWNER", "ADMIN"}
      [] kind = "share" -> {"OWNER", "ADMIN", "MEMBER"}
      [] kind = "unshare" -> {"OWNER", "ADMIN"}
      [] OTHER -> {}

(* Only an owner makes owners.                                             *)
MayGrant(caller, role) == role = "OWNER" => caller = "OWNER"

(* A request of the user its token names.                                  *)
Arrive(j, request) ==
    /\ requests < MaxRequests
    /\ job[j] = Idle
    /\ requests' = requests + 1
    /\ job' = [job EXCEPT ![j] = request]
    /\ disturbed' = (disturbed \/ \E i \in Jobs : job[i] # Idle)
    /\ UNCHANGED <<members, sharers, founded>>

(* A request passes the role check, which reads the caller's row; one that *)
(* does not changes nothing.                                               *)
Begin(j, kind, by, of, role) ==
    /\ Active(by) /\ members[by].role \in Admitted(kind)
    /\ Arrive(j, [kind |-> kind, at |-> "check", by |-> by, of |-> of, role |-> role,
                  caller |-> members[by].role])
BeginCreate(j, by) ==
    /\ ~founded /\ \A i \in Jobs : job[i] = Idle
    /\ Arrive(j, [kind |-> "create", at |-> "start", by |-> by, of |-> by,
                  role |-> "OWNER", caller |-> "OWNER"])

At(j, kind, place) == job[j] # Idle /\ job[j].kind = kind /\ job[j].at = place
Goto(j, place) == job' = [job EXCEPT ![j].at = place]
Finish(j) == job' = [job EXCEPT ![j] = Idle]
(* Goes on if the condition holds and is answered with an error otherwise. *)
Unless(j, ok, place) == IF ok THEN Goto(j, place) ELSE Finish(j)
-----------------------------------------------------------------------------
(* POST /workspace: the workspace, then its creator as its owner.          *)
Create(j) ==
    /\ At(j, "create", "start")
    /\ founded' = TRUE
    /\ Goto(j, "settle")
    /\ UNCHANGED <<members, sharers, requests, disturbed>>
Settle(j) ==
    /\ At(j, "create", "settle")
    /\ members' = [members EXCEPT ![job[j].by] = [role |-> "OWNER", gone |-> FALSE]]
    /\ Finish(j)
    /\ UNCHANGED <<sharers, founded, requests, disturbed>>

Reads == UNCHANGED <<members, sharers, founded, requests, disturbed>>

(* POST /workspace-member                                                  *)
AddCheck(j) ==
    /\ At(j, "add", "check")
    /\ Unless(j, MayGrant(job[j].caller, job[j].role) /\ ~Active(job[j].of), "write")
    /\ Reads
(* A row that was marked still occupies its user's place.                  *)
AddWrite(j) ==
    /\ At(j, "add", "write")
    /\ members' = IF members[job[j].of] = NoRow
                  THEN [members EXCEPT ![job[j].of] = [role |-> job[j].role, gone |-> FALSE]]
                  ELSE members
    /\ Finish(j)
    /\ UNCHANGED <<sharers, founded, requests, disturbed>>

(* Mutation: removing an owner does not count as losing one.               *)
LosesOwnerByRole(j) ==
    members[job[j].of].role = "OWNER" /\ job[j].kind = "role" /\ job[j].role # "OWNER"
(* The request would take away an owner, so owners are counted first.      *)
LosesOwner(j) ==
    /\ members[job[j].of].role = "OWNER"
    /\ job[j].kind = "role" => job[j].role # "OWNER"

(* PATCH /workspace-member/:id/role: the row is read, the owners counted   *)
(* if it is one's, the row read again and written.                         *)
RoleCheck(j) ==
    /\ At(j, "role", "check")
    /\ Unless(j, /\ MayGrant(job[j].caller, job[j].role)
                 /\ Active(job[j].of) /\ job[j].of # job[j].by,
              IF LosesOwner(j) THEN "count" ELSE "find")
    /\ Reads
(* DELETE /workspace-member/:id starts the same way.                       *)
RemoveCheck(j) ==
    /\ At(j, "remove", "check")
    /\ Unless(j, Active(job[j].of), IF LosesOwner(j) THEN "count" ELSE "find")
    /\ Reads
Count(j) ==
    /\ \E kind \in {"role", "remove"} : At(j, kind, "count")
    /\ Unless(j, Cardinality(Owners) > 1, "find")
    /\ Reads
Find(j) ==
    /\ \E kind \in {"role", "remove"} : At(j, kind, "find")
    /\ Unless(j, Active(job[j].of), "write")
    /\ Reads
RoleWrite(j) ==
    /\ At(j, "role", "write")
    /\ members' = [members EXCEPT ![job[j].of].role = job[j].role]
    /\ Finish(j)
    /\ UNCHANGED <<sharers, founded, requests, disturbed>>
RemoveWrite(j) ==
    /\ At(j, "remove", "write")
    /\ members' = [members EXCEPT ![job[j].of].gone = TRUE]
    /\ Goto(j, "cascade")
    /\ UNCHANGED <<sharers, founded, requests, disturbed>>
(* Mutation: the projects are left to their own removal.                   *)
CascadeNothing(j) ==
    /\ At(j, "remove", "cascade")
    /\ Finish(j)
    /\ UNCHANGED <<members, sharers, founded, requests, disturbed>>
(* The last call of a removal takes the user out of the projects.          *)
Cascade(j) ==
    /\ At(j, "remove", "cascade")
    /\ sharers' = IF sharers[job[j].of] = "active"
                  THEN [sharers EXCEPT ![job[j].of] = "gone"] ELSE sharers
    /\ Finish(j)
    /\ UNCHANGED <<members, founded, requests, disturbed>>

(* POST /project-member: a member of the workspace who is not in it yet.   *)
ShareCheck(j) ==
    /\ At(j, "share", "check")
    /\ Unless(j, Active(job[j].of), "find")
    /\ Reads
ShareFind(j) ==
    /\ At(j, "share", "find")
    /\ Unless(j, sharers[job[j].of] # "active", "write")
    /\ Reads
ShareWrite(j) ==
    /\ At(j, "share", "write")
    /\ sharers' = IF sharers[job[j].of] = "none"
                  THEN [sharers EXCEPT ![job[j].of] = "active"] ELSE sharers
    /\ Finish(j)
    /\ UNCHANGED <<members, founded, requests, disturbed>>
(* DELETE /project-member/:id                                              *)
UnshareCheck(j) ==
    /\ At(j, "unshare", "check")
    /\ Unless(j, sharers[job[j].of] = "active", "write")
    /\ Reads
UnshareWrite(j) ==
    /\ At(j, "unshare", "write")
    /\ sharers' = [sharers EXCEPT ![job[j].of] = "gone"]
    /\ Finish(j)
    /\ UNCHANGED <<members, founded, requests, disturbed>>

(* A call fails or the process stops: what was written stays.              *)
Abort(j) ==
    /\ job[j] # Idle
    /\ Finish(j)
    /\ disturbed' = TRUE
    /\ UNCHANGED <<members, sharers, founded, requests>>

Workspaces(j) == Create(j) \/ Settle(j)
Members(j) ==
    \/ AddCheck(j) \/ AddWrite(j)
    \/ RoleCheck(j) \/ RemoveCheck(j) \/ Count(j) \/ Find(j)
    \/ RoleWrite(j) \/ RemoveWrite(j) \/ Cascade(j)
Sharers(j) ==
    ShareCheck(j) \/ ShareFind(j) \/ ShareWrite(j) \/ UnshareCheck(j) \/ UnshareWrite(j)
Requests(j) ==
    \/ \E by \in Users : BeginCreate(j, by)
    \/ \E kind \in Kinds, by \in Users, of \in Users, role \in Roles :
          Begin(j, kind, by, of, role)
Next == \E j \in Jobs : Requests(j) \/ Workspaces(j) \/ Members(j) \/ Sharers(j) \/ Abort(j)
Spec == Init /\ [][Next]_vars
-----------------------------------------------------------------------------
(* A workspace that was founded keeps an owner, whoever is demoted or      *)
(* removed by whom, unless requests overlap or its founding broke off.     *)
OwnerRemains ==
    founded /\ ~disturbed => Owners # {} \/ \E j \in Jobs : At(j, "create", "settle")

(* Who is in a project is in its workspace, or is being taken out of both. *)
SharersBelong ==
    ~disturbed =>
        \A u \in Users : sharers[u] = "active" =>
            Active(u) \/ \E j \in Jobs : At(j, "remove", "cascade") /\ job[j].of = u

=============================================================================
