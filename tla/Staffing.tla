------------------------------ MODULE Staffing ------------------------------
(***************************************************************************)
(* Who may do what, and who works where: subjects and their role bundles   *)
(* (app/pats/subject-admin.ts), the identity and capability gate of every  *)
(* request (app/canonical/router.ts, app/identity), lines with a leader,   *)
(* and the assignment of operators to lines (app/pats/command-router.ts    *)
(* 2295-2464).                                                             *)
(*                                                                         *)
(* A request passes the gate and reads, which is one step here, and then   *)
(* commits.  The gate's answer is not asked for again.  A line has an      *)
(* assigned and an active leader, who may do the same; here it has one.    *)
(* Names, passwords, tokens (the gate reads the subject again at every     *)
(* request) and row versions are left out; of a name it matters that a     *)
(* request changes one.                                                    *)
(***************************************************************************)
EXTENDS FiniteSets, Naturals

CONSTANTS
    Workers,      \* requests the server may be working on at one time
    Subjects,     \* ids of subjects
    Lines,        \* ids of lines
    Assignments,  \* ids of operator assignments
    Bundles       \* the role bundles in use

ASSUME BundlesAssumption == "admin" \in Bundles /\ Bundles \subseteq {"admin", "operator", "qi"}

(* What a caller with these active bundles may do.                         *)
Manages(bundles) == "admin" \in bundles            \* operations.manage
Executes(bundles) == bundles \cap {"admin", "operator"} # {} \* execution.write

VARIABLES
    subject,      \* subject[s]: "none", "ACTIVE" or "DISABLED"
    role,         \* role[s]: the ACTIVE role bundles of s
    line,         \* the Line rows
    assignment,   \* the LineOperatorAssignment rows
    job,          \* job[w]: the request worker w is working on
    raced,        \* whose role, or line, two requests went for at once (history)
    crossed       \* requests to demote two subjects have overlapped (history)

vars == <<subject, role, line, assignment, job, raced, crossed>>

NoRow == [row |-> "none"]
LineRow == [leader: Subjects, isEnabled: BOOLEAN]
AssignmentRow == [line: Lines, operator: Subjects, status: {"ACTIVE", "ENDED"}]

Idle == [pc |-> "idle"]
Job ==
    {Idle}
    \cup [pc: {"patch"}, subject: Subjects, to: {"ACTIVE", "DISABLED"} \cup Bundles,
          locks: BOOLEAN]
    \cup [pc: {"begun"}, subject: Subjects, to: Bundles, locks: BOOLEAN]
    \cup [pc: {"revoked"}, subject: Subjects, to: Bundles, locks: BOOLEAN,
          revoked: SUBSET Bundles]
    \cup [pc: {"edit"}, line: Lines, to: LineRow]
    \cup [pc: {"disable", "remove"}, line: Lines]
    \cup [pc: {"assign"}, line: Lines, operator: Subjects]
    \cup [pc: {"end"}, assignment: Assignments]

TypeOK ==
    /\ subject \in [Subjects -> {"none", "ACTIVE", "DISABLED"}]
    /\ role \in [Subjects -> SUBSET Bundles]
    /\ line \in [Lines -> {NoRow} \cup LineRow]
    /\ assignment \in [Assignments -> {NoRow} \cup AssignmentRow]
    /\ job \in [Workers -> Job]
    /\ raced \in SUBSET ({"role", "line"} \X Subjects)
    /\ crossed \in BOOLEAN

Rows == {a \in Assignments : assignment[a] # NoRow}
ActiveOn(l) == {a \in Rows : assignment[a].line = l /\ assignment[a].status = "ACTIVE"}
ActiveOf(s) == {a \in Rows : assignment[a].operator = s /\ assignment[a].status = "ACTIVE"}

Begin(w, request) == job[w] = Idle /\ job' = [job EXCEPT ![w] = request]
Continue(w, request) == job' = [job EXCEPT ![w] = request]
Finish(w) == job' = [job EXCEPT ![w] = Idle]
Race(what, s, overlaps) == raced' = IF overlaps THEN raced \cup {<<what, s>>} ELSE raced

(* The gate: the caller is an active subject.                              *)
Admits(caller) == subject[caller] = "ACTIVE"
AdmitsManager(caller) == Admits(caller) /\ Manages(role[caller])
(* The caller may staff line l: as its leader, or as one who manages.      *)
AdmitsLeader(caller, l) ==
    /\ Admits(caller) /\ Executes(role[caller])
    /\ Manages(role[caller]) \/ line[l].leader = caller

(* A database in use: one subject, an admin, who creates the others.       *)
Init ==
    /\ \E admin \in Subjects :
         /\ subject = [s \in Subjects |-> IF s = admin THEN "ACTIVE" ELSE "none"]
         /\ role = [s \in Subjects |-> IF s = admin THEN {"admin"} ELSE {}]
    /\ line = [l \in Lines |-> NoRow]
    /\ assignment = [a \in Assignments |-> NoRow]
    /\ job = [w \in Workers |-> Idle]
    /\ raced = {}
    /\ crossed = FALSE
-----------------------------------------------------------------------------
(* POST /subjects *)
CreateSubject(caller, s, bundle) ==
    /\ AdmitsManager(caller)
    /\ subject[s] = "none"
    /\ subject' = [subject EXCEPT ![s] = "ACTIVE"]
    /\ role' = [role EXCEPT ![s] = {bundle}]
    /\ UNCHANGED <<line, assignment, job, raced, crossed>>

(* What may make an active admin none.                                     *)
Demotes(to) == to \notin {"ACTIVE", "admin"}
Patches(w) == job[w].pc \in {"patch", "begun", "revoked"}
Crosses(s, to) ==
    \E v \in Workers : Patches(v) /\ Demotes(job[v].to) /\ Demotes(to) /\ job[v].subject # s

(* Mutation: nothing keeps the caller from its own account.                *)
PatchLoadAnyone(w, caller, s, to, locks) ==
    /\ AdmitsManager(caller)
    /\ subject[s] # "none"
    /\ to \notin Bundles => locks
    /\ Begin(w, [pc |-> "patch", subject |-> s, to |-> to, locks |-> locks])
    /\ crossed' = (crossed \/ Crosses(s, to))
    /\ UNCHANGED <<subject, role, line, assignment, raced>>
(* PATCH /subjects/:subjectId with a status or a role bundle.  The subject *)
(* is written, and its row locked, when the request has a field of the     *)
(* subject itself: a status, a name or an address.                         *)
PatchLoad(w, caller, s, to, locks) ==
    /\ AdmitsManager(caller)
    /\ subject[s] # "none"
    /\ caller = s => to = "ACTIVE"
    /\ to \notin Bundles => locks
    /\ Begin(w, [pc |-> "patch", subject |-> s, to |-> to, locks |-> locks])
    /\ crossed' = (crossed \/ Crosses(s, to))
    /\ UNCHANGED <<subject, role, line, assignment, raced>>

(* The transactions that change the roles of s, and whether one has s locked. *)
Changing(s) == {v \in Workers : job[v].pc \in {"begun", "revoked"} /\ job[v].subject = s}
Locked(s) == \E v \in Changing(s) : job[v].locks
(* Two changes of one role go on at once, unless both lock the subject.    *)
RaceForRole(w, s) == Race("role", s, \E v \in Changing(s) : ~(job[v].locks /\ job[w].locks))

(* Mutation: nobody waits for the lock.                                    *)
PatchLockNothing(w) ==
    LET s == job[w].subject IN
    /\ job[w].pc = "patch" /\ job[w].to \in Bundles
    /\ Continue(w, [job[w] EXCEPT !.pc = "begun"])
    /\ RaceForRole(w, s)
    /\ UNCHANGED <<subject, role, line, assignment, crossed>>
(* The transaction begins with an update of the subject, which waits while *)
(* another has it locked, and keeps the lock until the end; a change of    *)
(* the role alone has nothing to update, and neither waits nor locks.      *)
PatchLock(w) ==
    LET s == job[w].subject IN
    /\ job[w].pc = "patch" /\ job[w].to \in Bundles
    /\ ~(job[w].locks /\ Locked(s))
    /\ Continue(w, [job[w] EXCEPT !.pc = "begun"])
    /\ RaceForRole(w, s)
    /\ UNCHANGED <<subject, role, line, assignment, crossed>>
(* The active bundles are looked up and revoked.  One that another request *)
(* activates meanwhile is not among them.                                  *)
PatchRevoke(w) ==
    LET s == job[w].subject IN
    /\ job[w].pc = "begun"
    /\ Continue(w, [pc |-> "revoked", subject |-> s, to |-> job[w].to,
                    locks |-> job[w].locks, revoked |-> role[s]])
    /\ UNCHANGED <<subject, role, line, assignment, raced, crossed>>
PatchRoleCommit(w) ==
    LET s == job[w].subject IN
    /\ job[w].pc = "revoked"
    /\ role' = [role EXCEPT ![s] = (@ \ job[w].revoked) \cup {job[w].to}]
    /\ Finish(w)
    /\ UNCHANGED <<subject, line, assignment, raced, crossed>>
PatchStatusCommit(w) ==
    LET s == job[w].subject IN
    /\ job[w].pc = "patch" /\ job[w].to \notin Bundles
    /\ ~Locked(s)
    /\ subject' = [subject EXCEPT ![s] = job[w].to]
    /\ Finish(w)
    /\ UNCHANGED <<role, line, assignment, raced, crossed>>
-----------------------------------------------------------------------------
(* POST /lines, of which WorkProcesses has the tree.                       *)
CreateLine(caller, l, leader) ==
    /\ AdmitsManager(caller)
    /\ line[l] = NoRow
    /\ subject[leader] = "ACTIVE"
    /\ line' = [line EXCEPT ![l] = [leader |-> leader, isEnabled |-> TRUE]]
    /\ UNCHANGED <<subject, role, assignment, job, raced, crossed>>

(* PATCH /lines/:lineId.  Fields that were not sent keep their value; here *)
(* a request sends one that changes.  Operators stay when it disables.     *)
EditLoad(w, caller, l, to) ==
    /\ AdmitsManager(caller)
    /\ line[l] # NoRow
    /\ \/ to.isEnabled = line[l].isEnabled /\ subject[to.leader] = "ACTIVE"
       \/ to.leader = line[l].leader
    /\ to # line[l]
    /\ Begin(w, [pc |-> "edit", line |-> l, to |-> to])
    /\ UNCHANGED <<subject, role, line, assignment, raced, crossed>>
EditCommit(w) ==
    /\ job[w].pc = "edit"
    /\ line[job[w].line] # NoRow
    /\ line' = [line EXCEPT ![job[w].line] = job[w].to]
    /\ Finish(w)
    /\ UNCHANGED <<subject, role, assignment, raced, crossed>>

(* DELETE /lines/:lineId disables it and ends its assignments.             *)
DisableLoad(w, caller, l) ==
    /\ AdmitsManager(caller)
    /\ line[l] # NoRow
    /\ Begin(w, [pc |-> "disable", line |-> l])
    /\ UNCHANGED <<subject, role, line, assignment, raced, crossed>>
DisableCommit(w) ==
    LET l == job[w].line IN
    /\ job[w].pc = "disable"
    /\ line[l] # NoRow
    /\ line' = [line EXCEPT ![l].isEnabled = FALSE]
    /\ assignment' = [a \in Assignments |->
                        IF a \in ActiveOn(l)
                        THEN [assignment[a] EXCEPT !.status = "ENDED"]
                        ELSE assignment[a]]
    /\ Finish(w)
    /\ UNCHANGED <<subject, role, raced, crossed>>

(* DELETE /lines/:lineId/permanent *)
RemoveLoad(w, caller, l) ==
    /\ AdmitsManager(caller)
    /\ line[l] # NoRow
    /\ ActiveOn(l) = {}
    /\ ~line[l].isEnabled
    /\ Begin(w, [pc |-> "remove", line |-> l])
    /\ UNCHANGED <<subject, role, line, assignment, raced, crossed>>
RemoveCommit(w) ==
    LET l == job[w].line IN
    /\ job[w].pc = "remove"
    /\ line[l] # NoRow
    /\ line' = [line EXCEPT ![l] = NoRow]
    /\ assignment' = [a \in Assignments |->
                        IF a \in Rows /\ assignment[a].line = l
                        THEN NoRow ELSE assignment[a]]
    /\ Finish(w)
    /\ UNCHANGED <<subject, role, raced, crossed>>
-----------------------------------------------------------------------------
RaceForOperator(s) ==
    Race("line", s, \E v \in Workers : job[v].pc = "assign" /\ job[v].operator = s)

(* Mutation: only the line in question is searched for the operator.       *)
AssignLoadHere(w, caller, l, s) ==
    /\ line[l] # NoRow /\ line[l].isEnabled
    /\ AdmitsLeader(caller, l)
    /\ subject[s] = "ACTIVE"
    /\ ActiveOf(s) \cap ActiveOn(l) = {}
    /\ Begin(w, [pc |-> "assign", line |-> l, operator |-> s])
    /\ RaceForOperator(s)
    /\ UNCHANGED <<subject, role, line, assignment, crossed>>
(* POST /operator-assignments *)
AssignLoad(w, caller, l, s) ==
    /\ line[l] # NoRow /\ line[l].isEnabled
    /\ AdmitsLeader(caller, l)
    /\ subject[s] = "ACTIVE"
    /\ ActiveOf(s) = {}
    /\ Begin(w, [pc |-> "assign", line |-> l, operator |-> s])
    /\ RaceForOperator(s)
    /\ UNCHANGED <<subject, role, line, assignment, crossed>>
AssignCommit(w) ==
    /\ job[w].pc = "assign"
    /\ line[job[w].line] # NoRow
    /\ \E a \in Assignments \ Rows :
         assignment' = [assignment EXCEPT ![a] =
                          [line |-> job[w].line, operator |-> job[w].operator,
                           status |-> "ACTIVE"]]
    /\ Finish(w)
    /\ UNCHANGED <<subject, role, line, raced, crossed>>

(* DELETE /operator-assignments/:assignmentId *)
EndLoad(w, caller, a) ==
    /\ a \in Rows /\ assignment[a].status = "ACTIVE"
    /\ AdmitsLeader(caller, assignment[a].line)
    /\ Begin(w, [pc |-> "end", assignment |-> a])
    /\ UNCHANGED <<subject, role, line, assignment, raced, crossed>>
EndCommit(w) ==
    /\ job[w].pc = "end"
    /\ job[w].assignment \in Rows
    /\ assignment' = [assignment EXCEPT ![job[w].assignment].status = "ENDED"]
    /\ Finish(w)
    /\ UNCHANGED <<subject, role, line, raced, crossed>>

(* Refused, rolled back, timed out, or the process stopped.                *)
Abort(w) ==
    /\ job[w] # Idle
    /\ Finish(w)
    /\ UNCHANGED <<subject, role, line, assignment, raced, crossed>>
-----------------------------------------------------------------------------
Administer(caller) ==
    \E s \in Subjects :
        \/ \E bundle \in Bundles : CreateSubject(caller, s, bundle)
        \/ \E w \in Workers, to \in {"ACTIVE", "DISABLED"} \cup Bundles, locks \in BOOLEAN :
             PatchLoad(w, caller, s, to, locks)
ManageLine(caller) ==
    \E l \in Lines :
        \/ \E leader \in Subjects : CreateLine(caller, l, leader)
        \/ \E w \in Workers :
             \/ \E to \in LineRow : EditLoad(w, caller, l, to)
             \/ DisableLoad(w, caller, l) \/ RemoveLoad(w, caller, l)
Staff(caller) ==
    \E w \in Workers :
        \/ \E l \in Lines, s \in Subjects : AssignLoad(w, caller, l, s)
        \/ \E a \in Assignments : EndLoad(w, caller, a)
Proceed(w) ==
    \/ PatchLock(w) \/ PatchRevoke(w) \/ PatchRoleCommit(w) \/ PatchStatusCommit(w)
    \/ EditCommit(w) \/ DisableCommit(w) \/ RemoveCommit(w)
    \/ AssignCommit(w) \/ EndCommit(w)

Next ==
    \/ \E caller \in Subjects : Administer(caller) \/ ManageLine(caller) \/ Staff(caller)
    \/ \E w \in Workers : Proceed(w) \/ Abort(w)
Spec == Init /\ [][Next]_vars
-----------------------------------------------------------------------------
(* Somebody can administer, unless requests to demote two subjects have    *)
(* overlapped: the caller of a change is an active admin, and changes of   *)
(* itself are refused, but two admins may disable each other at once.      *)
AdminRemains ==
    ~crossed => \E s \in Subjects : subject[s] = "ACTIVE" /\ Manages(role[s])

(* A subject has one role bundle, also when two changes of it overlap that *)
(* both write the subject.                                                 *)
OneRole ==
    \A s \in Subjects :
        <<"role", s>> \notin raced =>
            Cardinality(role[s]) = IF subject[s] = "none" THEN 0 ELSE 1

(* An operator works on one line at a time, whatever else goes on, unless  *)
(* two assignments of that operator have overlapped.                       *)
OneLine ==
    \A s \in Subjects : <<"line", s>> \notin raced => Cardinality(ActiveOf(s)) <= 1

=============================================================================
