----------------------------- MODULE PeopleProofs ----------------------------
(***************************************************************************)
(* Roles, administrators and operators of lines, for any number of         *)
(* requests, subjects, lines and assignments; and the members of a legacy  *)
(* workspace, for any number of requests and users.                        *)
(***************************************************************************)
EXTENDS MCPeople, FiniteSetTheorems, TLAPS

-----------------------------------------------------------------------------
(* The strengthening, of roles: of two changes of one subject's role that  *)
(* go on at once and do not race, neither is there; what was found to be   *)
(* revoked is still all there is.                                          *)
Changes(w) == job[w].pc \in {"begun", "revoked"}
RoleRaced(s) == <<"role", s>> \in raced
LineRaced(s) == <<"line", s>> \in raced

ChangesExclude ==
    /\ \A v, w \in Workers :
         Changes(v) /\ Changes(w) /\ v # w /\ job[v].subject = job[w].subject
           => RoleRaced(job[w].subject)
    /\ \A w \in Workers : Patches(w) => subject[job[w].subject] # "none"
    /\ \A w \in Workers :
         job[w].pc = "revoked" =>
           job[w].revoked = role[job[w].subject] \/ RoleRaced(job[w].subject)

OneBundle ==
    \A s \in Subjects :
        /\ subject[s] = "none" => role[s] = {}
        /\ subject[s] # "none" => RoleRaced(s) \/ \E b \in Bundles : role[s] = {b}

(* Of administrators: requests to demote are about one subject at a time,  *)
(* and there is an admin besides, who asked for it.                        *)
Administers(s) == subject[s] = "ACTIVE" /\ Manages(role[s])
Harms(w) == Patches(w) /\ Demotes(job[w].to)

OneVictim ==
    ~crossed => \A v, w \in Workers :
                  Harms(v) /\ Harms(w) => job[v].subject = job[w].subject

AnotherAdmin ==
    ~crossed => \A w \in Workers : Harms(w) =>
                  \E c \in Subjects : c # job[w].subject /\ Administers(c)

(* Of operators: one who is being assigned works nowhere, and nobody else  *)
(* assigns that operator, unless the two race.                             *)
Works(a, s) == a \in Rows /\ assignment[a].operator = s /\ assignment[a].status = "ACTIVE"
Assigns(w, s) == job[w].pc = "assign" /\ job[w].operator = s

OneWork ==
    \A a, b \in Assignments, s \in Subjects :
        Works(a, s) /\ Works(b, s) => a = b \/ LineRaced(s)

Unassigned ==
    \A w \in Workers, s \in Subjects : Assigns(w, s) =>
        \/ LineRaced(s)
        \/ /\ \A a \in Assignments : ~Works(a, s)
           /\ \A v \in Workers : Assigns(v, s) => v = w

IInv ==
    /\ TypeOK
    /\ ChangesExclude
    /\ OneBundle
    /\ AdminRemains
    /\ OneVictim
    /\ AnotherAdmin
    /\ OneWork
    /\ Unassigned

-----------------------------------------------------------------------------
(* The requests by their program counter. *)
LEMMA JobShapes ==
    ASSUME TypeOK, NEW w \in Workers
    PROVE  /\ job[w].pc = "patch" =>
                /\ job[w].subject \in Subjects /\ job[w].locks \in BOOLEAN
                /\ job[w].to \in {"ACTIVE", "DISABLED"} \cup Bundles
                /\ job[w] = [pc |-> "patch", subject |-> job[w].subject,
                             to |-> job[w].to, locks |-> job[w].locks]
           /\ job[w].pc = "begun" =>
                /\ job[w].subject \in Subjects /\ job[w].to \in Bundles
                /\ job[w].locks \in BOOLEAN
           /\ job[w].pc = "revoked" =>
                /\ job[w].subject \in Subjects /\ job[w].to \in Bundles
                /\ job[w].locks \in BOOLEAN
                /\ job[w].revoked \subseteq Bundles
           /\ job[w].pc = "edit" => job[w].line \in Lines /\ job[w].to \in LineRow
           /\ job[w].pc \in {"disable", "remove"} => job[w].line \in Lines
           /\ job[w].pc = "assign" => job[w].line \in Lines /\ job[w].operator \in Subjects
           /\ job[w].pc = "end" => job[w].assignment \in Assignments
  <1>1. job[w] \in Job
    BY DEF TypeOK
  <1>2. QED
    BY <1>1 DEF Job, Idle

(* What a request is worked on by: it alone moves. *)
LEMMA Moves ==
    ASSUME TypeOK, NEW w \in Workers, NEW request \in Job,
           Begin(w, request) \/ Continue(w, request)
    PROVE  /\ job' \in [Workers -> Job]
           /\ job'[w] = request
           /\ \A v \in Workers \ {w} : job'[v] = job[v]
  BY DEF TypeOK, Begin, Continue

(* The history only grows. *)
LEMMA Races ==
    ASSUME TypeOK, NEW what \in {"role", "line"}, NEW s \in Subjects, NEW overlaps,
           Race(what, s, overlaps)
    PROVE  /\ raced' \in SUBSET ({"role", "line"} \X Subjects)
           /\ raced \subseteq raced' /\ raced' \subseteq raced \cup {<<what, s>>}
           /\ overlaps => <<what, s>> \in raced'
  BY DEF TypeOK, Race

LEMMA TypePreserved ==
    ASSUME TypeOK, [Next]_vars
    PROVE  TypeOK'
  <1>1. ASSUME NEW caller \in Subjects, NEW s \in Subjects, NEW b \in Bundles,
               CreateSubject(caller, s, b)
        PROVE  TypeOK'
    BY <1>1 DEF CreateSubject, TypeOK
  <1>2. ASSUME NEW caller \in Subjects, NEW s \in Subjects, NEW w \in Workers,
               NEW to \in {"ACTIVE", "DISABLED"} \cup Bundles, NEW locks \in BOOLEAN,
               PatchLoad(w, caller, s, to, locks)
        PROVE  TypeOK'
    <2>1. [pc |-> "patch", subject |-> s, to |-> to, locks |-> locks] \in Job
      BY DEF Job
    <2>2. job' \in [Workers -> Job]
      BY <1>2, <2>1, Moves DEF PatchLoad
    <2>3. crossed' \in BOOLEAN
      BY <1>2 DEF PatchLoad, Crosses, TypeOK
    <2>4. QED
      BY <1>2, <2>2, <2>3 DEF PatchLoad, TypeOK
  <1>3. ASSUME NEW w \in Workers, PatchLock(w)
        PROVE  TypeOK'
    <2>1. /\ job[w].subject \in Subjects /\ job[w].to \in Bundles /\ job[w].locks \in BOOLEAN
          /\ job[w] = [pc |-> "patch", subject |-> job[w].subject, to |-> job[w].to,
                       locks |-> job[w].locks]
      BY <1>3, JobShapes DEF PatchLock
    <2>2. [job[w] EXCEPT !.pc = "begun"] \in Job
      BY <2>1 DEF Job
    <2>3. job' \in [Workers -> Job]
      BY <1>3, <2>2, Moves DEF PatchLock
    <2>4. raced' \in SUBSET ({"role", "line"} \X Subjects)
      BY <1>3, <2>1, Races DEF PatchLock, RaceForRole
    <2>5. QED
      BY <1>3, <2>3, <2>4 DEF PatchLock, TypeOK
  <1>4. ASSUME NEW w \in Workers, PatchRevoke(w)
        PROVE  TypeOK'
    <2>1. job[w].subject \in Subjects /\ job[w].to \in Bundles /\ job[w].locks \in BOOLEAN
      BY <1>4, JobShapes DEF PatchRevoke
    <2>2. role[job[w].subject] \in SUBSET Bundles
      BY <2>1 DEF TypeOK
    <2>3. [pc |-> "revoked", subject |-> job[w].subject, to |-> job[w].to,
           locks |-> job[w].locks, revoked |-> role[job[w].subject]] \in Job
      BY <2>1, <2>2 DEF Job
    <2>4. QED
      BY <1>4, <2>3, Moves DEF PatchRevoke, TypeOK
  <1>5. ASSUME NEW w \in Workers, PatchRoleCommit(w)
        PROVE  TypeOK'
    <2>1. job[w].subject \in Subjects /\ job[w].to \in Bundles
      BY <1>5, JobShapes DEF PatchRoleCommit
    <2>2. QED
      BY <1>5, <2>1 DEF PatchRoleCommit, Finish, TypeOK, Job
  <1>6. ASSUME NEW w \in Workers, PatchStatusCommit(w)
        PROVE  TypeOK'
    <2>1. job[w].subject \in Subjects /\ job[w].to \in {"ACTIVE", "DISABLED"}
      BY <1>6, JobShapes DEF PatchStatusCommit
    <2>2. QED
      BY <1>6, <2>1 DEF PatchStatusCommit, Finish, TypeOK, Job
  <1>7. ASSUME NEW caller \in Subjects, NEW l \in Lines, NEW leader \in Subjects,
               CreateLine(caller, l, leader)
        PROVE  TypeOK'
    BY <1>7 DEF CreateLine, TypeOK, LineRow
  <1>8. ASSUME NEW caller \in Subjects, NEW w \in Workers, NEW l \in Lines,
               NEW to \in LineRow, EditLoad(w, caller, l, to)
        PROVE  TypeOK'
    <2>1. [pc |-> "edit", line |-> l, to |-> to] \in Job
      BY DEF Job
    <2>2. QED
      BY <1>8, <2>1, Moves DEF EditLoad, TypeOK
  <1>9. ASSUME NEW w \in Workers, EditCommit(w)
        PROVE  TypeOK'
    <2>1. job[w].line \in Lines /\ job[w].to \in LineRow
      BY <1>9, JobShapes DEF EditCommit
    <2>2. QED
      BY <1>9, <2>1 DEF EditCommit, Finish, TypeOK, Job
  <1>10. ASSUME NEW caller \in Subjects, NEW w \in Workers, NEW l \in Lines,
                DisableLoad(w, caller, l) \/ RemoveLoad(w, caller, l)
         PROVE  TypeOK'
    <2>1. /\ [pc |-> "disable", line |-> l] \in Job
          /\ [pc |-> "remove", line |-> l] \in Job
      BY DEF Job
    <2>2. CASE DisableLoad(w, caller, l)
      BY <2>1, <2>2, Moves DEF DisableLoad, TypeOK
    <2>3. CASE RemoveLoad(w, caller, l)
      BY <2>1, <2>3, Moves DEF RemoveLoad, TypeOK
    <2>4. QED
      BY <1>10, <2>2, <2>3
  <1>11. ASSUME NEW w \in Workers, DisableCommit(w)
         PROVE  TypeOK'
    <2>1. job[w].line \in Lines /\ line[job[w].line] \in LineRow
      BY <1>11, JobShapes DEF DisableCommit, TypeOK
    <2>2. [line[job[w].line] EXCEPT !.isEnabled = FALSE] \in LineRow
      BY <2>1 DEF LineRow
    <2>3. \A a \in Rows : [assignment[a] EXCEPT !.status = "ENDED"] \in AssignmentRow
      BY DEF Rows, TypeOK, AssignmentRow
    <2>4. line' \in [Lines -> {NoRow} \cup LineRow]
      BY <1>11, <2>1, <2>2 DEF DisableCommit, TypeOK
    <2>5. assignment' \in [Assignments -> {NoRow} \cup AssignmentRow]
      <3>1. ActiveOn(job[w].line) \subseteq Rows
        BY DEF ActiveOn
      <3>2. QED
        BY <1>11, <2>3, <3>1 DEF DisableCommit, TypeOK
    <2>6. job' \in [Workers -> Job]
      BY <1>11 DEF DisableCommit, Finish, TypeOK, Job
    <2>7. QED
      BY <1>11, <2>4, <2>5, <2>6 DEF DisableCommit, Finish, TypeOK
  <1>12. ASSUME NEW w \in Workers, RemoveCommit(w)
         PROVE  TypeOK'
    BY <1>12 DEF RemoveCommit, Finish, TypeOK, Job
  <1>13. ASSUME NEW caller \in Subjects, NEW w \in Workers, NEW l \in Lines,
                NEW s \in Subjects, AssignLoad(w, caller, l, s)
         PROVE  TypeOK'
    <2>1. [pc |-> "assign", line |-> l, operator |-> s] \in Job
      BY DEF Job
    <2>2. job' \in [Workers -> Job]
      BY <1>13, <2>1, Moves DEF AssignLoad
    <2>3. raced' \in SUBSET ({"role", "line"} \X Subjects)
      BY <1>13, Races DEF AssignLoad, RaceForOperator
    <2>4. QED
      BY <1>13, <2>2, <2>3 DEF AssignLoad, TypeOK
  <1>14. ASSUME NEW w \in Workers, AssignCommit(w)
         PROVE  TypeOK'
    <2>1. [line |-> job[w].line, operator |-> job[w].operator, status |-> "ACTIVE"]
            \in AssignmentRow
      BY <1>14, JobShapes DEF AssignCommit, AssignmentRow
    <2>2. QED
      BY <1>14, <2>1 DEF AssignCommit, Finish, TypeOK, Job
  <1>15. ASSUME NEW caller \in Subjects, NEW w \in Workers, NEW a \in Assignments,
                EndLoad(w, caller, a)
         PROVE  TypeOK'
    <2>1. [pc |-> "end", assignment |-> a] \in Job
      BY DEF Job
    <2>2. QED
      BY <1>15, <2>1, Moves DEF EndLoad, TypeOK
  <1>16. ASSUME NEW w \in Workers, EndCommit(w)
         PROVE  TypeOK'
    <2>1. [assignment[job[w].assignment] EXCEPT !.status = "ENDED"] \in AssignmentRow
      BY <1>16 DEF EndCommit, Rows, TypeOK, AssignmentRow
    <2>2. QED
      BY <1>16, <2>1 DEF EndCommit, Finish, TypeOK, Job
  <1>17. ASSUME NEW w \in Workers, Abort(w)
         PROVE  TypeOK'
    BY <1>17 DEF Abort, Finish, TypeOK, Job
  <1>18. CASE UNCHANGED vars
    BY <1>18 DEF vars, TypeOK
  <1>19. QED
    BY <1>1, <1>2, <1>3, <1>4, <1>5, <1>6, <1>7, <1>8, <1>9, <1>10, <1>11, <1>12,
       <1>13, <1>14, <1>15, <1>16, <1>17, <1>18
       DEF Next, Administer, ManageLine, Staff, Proceed

-----------------------------------------------------------------------------
(* What was a race stays one. *)
LEMMA HistoryGrows ==
    ASSUME TypeOK, [Next]_vars
    PROVE  raced \subseteq raced' /\ (crossed => crossed')
  <1>1. CASE UNCHANGED <<raced, crossed>>
    BY <1>1
  <1>2. ASSUME NEW w \in Workers, NEW caller \in Subjects, NEW s \in Subjects,
               NEW to, NEW locks, PatchLoad(w, caller, s, to, locks)
        PROVE  raced \subseteq raced' /\ (crossed => crossed')
    <2>1. UNCHANGED raced /\ crossed' = (crossed \/ Crosses(s, to))
      BY <1>2, Zenon DEF PatchLoad
    <2>2. QED
      BY <2>1, Zenon
  <1>3. ASSUME NEW what, NEW s, NEW overlaps, Race(what, s, overlaps), UNCHANGED crossed
        PROVE  raced \subseteq raced' /\ (crossed => crossed')
    BY <1>3 DEF Race
  <1>4. ASSUME NEW w \in Workers, PatchLock(w)
        PROVE  raced \subseteq raced' /\ (crossed => crossed')
    BY <1>3, <1>4 DEF PatchLock, RaceForRole
  <1>5. ASSUME NEW w \in Workers, NEW caller \in Subjects, NEW l \in Lines, NEW s \in Subjects,
               AssignLoad(w, caller, l, s)
        PROVE  raced \subseteq raced' /\ (crossed => crossed')
    BY <1>3, <1>5 DEF AssignLoad, RaceForOperator
  <1>6. ASSUME NEW caller \in Subjects, Administer(caller) \/ ManageLine(caller) \/ Staff(caller)
        PROVE  raced \subseteq raced' /\ (crossed => crossed')
    BY <1>1, <1>2, <1>5, <1>6 DEF Administer, CreateSubject, ManageLine, CreateLine, EditLoad,
       DisableLoad, RemoveLoad, Staff, EndLoad
  <1>7. ASSUME NEW w \in Workers, Proceed(w) \/ Abort(w)
        PROVE  raced \subseteq raced' /\ (crossed => crossed')
    BY <1>1, <1>4, <1>7 DEF Proceed, PatchRevoke, PatchRoleCommit, PatchStatusCommit,
       EditCommit, DisableCommit, RemoveCommit, AssignCommit, EndCommit, Abort
  <1>8. CASE UNCHANGED vars
    BY <1>1, <1>8 DEF vars
  <1>9. QED
    BY <1>6, <1>7, <1>8 DEF Next

-----------------------------------------------------------------------------
RolesInv ==
    ChangesExclude /\ OneBundle /\ AdminRemains /\ OneVictim /\ AnotherAdmin

(* A step that leaves subjects and roles alone, and after which every      *)
(* change of a subject is one that was there before.                       *)
LEMMA AdminsQuiet ==
    ASSUME IInv, UNCHANGED <<subject, role>>, raced \subseteq raced', crossed => crossed',
           \A v \in Workers : (Patches(v))' =>
              Patches(v) /\ job'[v].subject = job[v].subject /\ job'[v].to = job[v].to
    PROVE  OneBundle' /\ AdminRemains' /\ OneVictim' /\ AnotherAdmin'
  <1>1. \A v \in Workers : (Harms(v))' => Harms(v) /\ job'[v].subject = job[v].subject
    BY DEF Harms
  <1>2. OneBundle' /\ AdminRemains'
    BY DEF IInv, OneBundle, AdminRemains, RoleRaced
  <1>3. OneVictim'
    BY <1>1 DEF IInv, OneVictim
  <1>4. AnotherAdmin'
    BY <1>1 DEF IInv, AnotherAdmin, Administers
  <1>5. QED
    BY <1>2, <1>3, <1>4

LEMMA RolesQuiet ==
    ASSUME IInv, UNCHANGED <<subject, role>>, raced \subseteq raced', crossed => crossed',
           \A v \in Workers : (Patches(v))' => job'[v] = job[v]
    PROVE  RolesInv'
  <1>1. \A v \in Workers : /\ (Patches(v))' => Patches(v) /\ job'[v] = job[v]
                           /\ (Changes(v))' => Changes(v) /\ job'[v] = job[v]
    BY DEF Patches, Changes
  <1>2. \A v \in Workers : job'[v].pc = "revoked" => job'[v] = job[v]
    BY DEF Patches
  <1>3. ChangesExclude'
    BY <1>1, <1>2 DEF IInv, ChangesExclude, RoleRaced
  <1>4. QED
    BY <1>1, <1>3, AdminsQuiet DEF RolesInv

(* A new subject has one role, and nobody patches it yet. *)
LEMMA CreateRoles ==
    ASSUME IInv, NEW caller \in Subjects, NEW s \in Subjects, NEW b \in Bundles,
           CreateSubject(caller, s, b)
    PROVE  RolesInv'
  <1>1. /\ subject[s] = "none"
        /\ subject' = [subject EXCEPT ![s] = "ACTIVE"]
        /\ role' = [role EXCEPT ![s] = {b}]
        /\ UNCHANGED <<job, raced, crossed>>
    BY DEF CreateSubject
  <1>2. /\ subject'[s] = "ACTIVE" /\ role'[s] = {b}
        /\ \A c \in Subjects \ {s} : subject'[c] = subject[c] /\ role'[c] = role[c]
    BY <1>1 DEF IInv, TypeOK
  <1>3. \A w \in Workers : Patches(w) =>
          job[w].subject \in Subjects /\ job[w].subject # s
    BY <1>1, JobShapes DEF IInv, ChangesExclude, Patches
  <1>4. ChangesExclude'
    <2>1. \A w \in Workers : job[w].pc = "revoked" => Patches(w)
      BY DEF Patches
    <2>2. QED
      BY <1>1, <1>2, <1>3, <2>1 DEF IInv, ChangesExclude, Patches, Changes, RoleRaced
  <1>5. OneBundle'
    BY <1>1, <1>2 DEF IInv, OneBundle, RoleRaced
  <1>6. \A c \in Subjects : Administers(c) => (Administers(c))'
    BY <1>1, <1>2 DEF Administers
  <1>7. \A w \in Workers : (Harms(w))' <=> Harms(w)
    BY <1>1 DEF Harms, Patches
  <1>8. AdminRemains'
    BY <1>1, <1>6 DEF IInv, AdminRemains, Administers
  <1>9. OneVictim' /\ AnotherAdmin'
    BY <1>1, <1>6, <1>7 DEF IInv, OneVictim, AnotherAdmin
  <1>10. QED
    BY <1>4, <1>5, <1>8, <1>9 DEF RolesInv

(* The caller of a change is an active admin, and another than its subject *)
(* unless the change does the subject no harm.                             *)
LEMMA PatchLoadRoles ==
    ASSUME IInv, NEW caller \in Subjects, NEW s \in Subjects, NEW w \in Workers,
           NEW to \in {"ACTIVE", "DISABLED"} \cup Bundles, NEW locks \in BOOLEAN,
           PatchLoad(w, caller, s, to, locks)
    PROVE  RolesInv'
  <1> DEFINE request == [pc |-> "patch", subject |-> s, to |-> to, locks |-> locks]
  <1>1. /\ Administers(caller)
        /\ subject[s] # "none"
        /\ caller = s => to = "ACTIVE"
        /\ Begin(w, request)
        /\ crossed' = (crossed \/ Crosses(s, to))
        /\ UNCHANGED <<subject, role, raced>>
    BY DEF PatchLoad, AdmitsManager, Admits, Administers
  <1>2. request \in Job
    BY DEF Job
  <1>3. request.pc = "patch" /\ request.subject = s /\ request.to = to
    OBVIOUS
  <1> HIDE DEF request
  <1>4. /\ job'[w] = request
        /\ \A v \in Workers \ {w} : job'[v] = job[v]
    BY <1>1, <1>2, Moves DEF IInv
  <1>5. ChangesExclude'
    <2>1. ~(Changes(w))' /\ job'[w].pc # "revoked" /\ job'[w].subject = s
      BY <1>3, <1>4 DEF Changes
    <2>2. \A v \in Workers \ {w} : /\ (Changes(v))' <=> Changes(v)
                                   /\ (Patches(v))' <=> Patches(v)
      BY <1>4 DEF Changes, Patches
    <2>3. QED
      BY <1>1, <1>4, <2>1, <2>2 DEF IInv, ChangesExclude, RoleRaced
  <1>6. OneBundle' /\ AdminRemains'
    BY <1>1 DEF IInv, OneBundle, AdminRemains, RoleRaced
  <1>7. \A v \in Workers : (Harms(v))' =>
          IF v = w THEN Demotes(to) /\ job'[v].subject = s
          ELSE Harms(v) /\ job'[v].subject = job[v].subject
    BY <1>3, <1>4 DEF Harms, Patches
  <1>8. ~crossed' /\ Demotes(to) => \A v \in Workers : Harms(v) => job[v].subject = s
    BY <1>1 DEF Crosses, Harms
  <1>9. OneVictim'
    BY <1>1, <1>7, <1>8 DEF IInv, OneVictim
  <1>10. AnotherAdmin'
    <2> SUFFICES ASSUME ~crossed', NEW v \in Workers, (Harms(v))'
                 PROVE  \E c \in Subjects : c # job'[v].subject /\ (Administers(c))'
      BY DEF AnotherAdmin
    <2>1. CASE v = w
      <3>1. caller # s /\ job'[v].subject = s
        BY <2>1, <1>1, <1>7 DEF Demotes
      <3>2. QED
        BY <3>1, <1>1 DEF Administers
    <2>2. CASE v # w
      BY <2>2, <1>1, <1>7 DEF IInv, AnotherAdmin, Administers
    <2>3. QED
      BY <2>1, <2>2
  <1>11. QED
    BY <1>5, <1>6, <1>9, <1>10 DEF RolesInv

(* Two changes of one role that both lock the subject do not go on at once. *)
LEMMA PatchLockRoles ==
    ASSUME IInv, NEW w \in Workers, PatchLock(w)
    PROVE  RolesInv'
  <1> DEFINE s == job[w].subject
  <1>1. /\ job[w].pc = "patch"
        /\ ~(job[w].locks /\ Locked(s))
        /\ Continue(w, [job[w] EXCEPT !.pc = "begun"])
        /\ Race("role", s, \E v \in Changing(s) : ~(job[v].locks /\ job[w].locks))
        /\ UNCHANGED <<subject, role, crossed>>
    BY DEF PatchLock, RaceForRole
  <1>2. /\ job[w] = [pc |-> "patch", subject |-> s, to |-> job[w].to, locks |-> job[w].locks]
        /\ s \in Subjects
    BY <1>1, JobShapes DEF IInv
  <1>3. /\ job'[w] = [pc |-> "begun", subject |-> s, to |-> job[w].to, locks |-> job[w].locks]
        /\ \A v \in Workers \ {w} : job'[v] = job[v]
    BY <1>1, <1>2 DEF Continue, IInv, TypeOK
  <1>4. job'[w].pc = "begun" /\ job'[w].subject = s /\ job'[w].to = job[w].to
    BY <1>3
  <1>5. Patches(w)
    BY <1>1 DEF Patches
  <1>6. \A v \in Workers : /\ (Patches(v))' <=> Patches(v)
                           /\ v # w => ((Changes(v))' <=> Changes(v))
                           /\ job'[v].subject = job[v].subject /\ job'[v].to = job[v].to
    BY <1>3, <1>4, <1>5 DEF Patches, Changes
  <1>7. /\ raced \subseteq raced'
        /\ (\E v \in Changing(s) : ~(job[v].locks /\ job[w].locks)) => (RoleRaced(s))'
    <2> DEFINE overlaps == \E v \in Changing(s) : ~(job[v].locks /\ job[w].locks)
    <2>1. Race("role", s, overlaps)
      BY <1>1
    <2> HIDE DEF overlaps
    <2>2. raced \subseteq raced' /\ (overlaps => <<"role", s>> \in raced')
      BY <1>2, <2>1, Races DEF IInv
    <2>3. overlaps => (RoleRaced(s))'
      BY <2>2, <1>4 DEF RoleRaced
    <2>4. QED
      BY <2>2, <2>3 DEF overlaps
  <1>8. \A v \in Workers : Changes(v) /\ job[v].subject = s => (RoleRaced(s))'
    <2> SUFFICES ASSUME NEW v \in Workers, Changes(v), job[v].subject = s
                 PROVE  (RoleRaced(s))'
      OBVIOUS
    <2>1. v \in Changing(s)
      BY DEF Changing, Changes
    <2>2. ~(job[v].locks /\ job[w].locks)
      BY <1>1, <2>1 DEF Locked
    <2>3. QED
      BY <1>7, <2>1, <2>2
  <1>9. ChangesExclude'
    <2>1. ASSUME NEW v \in Workers, NEW x \in Workers, (Changes(v))', (Changes(x))', v # x,
                 job'[v].subject = job'[x].subject
          PROVE  (RoleRaced(job[x].subject))'
      <3>1. CASE v = w \/ x = w
        <4>1. PICK y \in {v, x} : y # w /\ Changes(y) /\ job[y].subject = s
          BY <2>1, <3>1, <1>6
        <4>2. (RoleRaced(s))'
          BY <4>1, <1>8
        <4>3. job'[x].subject = s /\ (s)' = s
          BY <2>1, <3>1, <1>6
        <4>4. QED
          BY <4>2, <4>3 DEF RoleRaced
      <3>2. CASE v # w /\ x # w
        BY <2>1, <3>2, <1>6, <1>7 DEF IInv, ChangesExclude, RoleRaced
      <3>3. QED
        BY <3>1, <3>2
    <2>2. \A v \in Workers : (Patches(v))' => subject'[job'[v].subject] # "none"
      BY <1>1, <1>6 DEF IInv, ChangesExclude
    <2>3. \A v \in Workers : job'[v].pc = "revoked" =>
            job'[v].revoked = role'[job'[v].subject] \/ (RoleRaced(job[v].subject))'
      BY <1>1, <1>3, <1>4, <1>7 DEF IInv, ChangesExclude, RoleRaced
    <2>4. QED
      BY <2>1, <2>2, <2>3 DEF ChangesExclude
  <1>10. QED
    BY <1>1, <1>6, <1>7, <1>9, AdminsQuiet DEF RolesInv

(* What is found to be revoked is all the subject has. *)
LEMMA PatchRevokeRoles ==
    ASSUME IInv, NEW w \in Workers, PatchRevoke(w)
    PROVE  RolesInv'
  <1> DEFINE request == [pc |-> "revoked", subject |-> job[w].subject, to |-> job[w].to,
                         locks |-> job[w].locks, revoked |-> role[job[w].subject]]
  <1>1. /\ job[w].pc = "begun"
        /\ job' = [job EXCEPT ![w] = request]
        /\ UNCHANGED <<subject, role, raced, crossed>>
    BY DEF PatchRevoke, Continue
  <1>2. /\ job'[w] = request
        /\ \A v \in Workers \ {w} : job'[v] = job[v]
    BY <1>1 DEF IInv, TypeOK
  <1>3. /\ job'[w].pc = "revoked" /\ job'[w].subject = job[w].subject
        /\ job'[w].to = job[w].to /\ job'[w].revoked = role[job[w].subject]
    BY <1>2
  <1>4. Patches(w) /\ Changes(w)
    BY <1>1 DEF Patches, Changes
  <1>5. \A v \in Workers : /\ (Patches(v))' <=> Patches(v)
                           /\ (Changes(v))' <=> Changes(v)
                           /\ job'[v].subject = job[v].subject
                           /\ job'[v].to = job[v].to
    BY <1>2, <1>3, <1>4 DEF Patches, Changes
  <1> HIDE DEF request
  <1>6. ChangesExclude'
    BY <1>1, <1>2, <1>3, <1>5 DEF IInv, ChangesExclude, RoleRaced
  <1>7. QED
    BY <1>1, <1>5, <1>6, AdminsQuiet DEF RolesInv

(* After a change there is an admin: the one who is there besides.         *)
LEMMA CommitAdmins ==
    ASSUME IInv, NEW w \in Workers, Patches(w), UNCHANGED crossed,
           \A v \in Workers : (Patches(v))' => v # w /\ Patches(v) /\ job'[v] = job[v],
           \A c \in Subjects : /\ Administers(c)
                               /\ c # job[w].subject \/ ~Demotes(job[w].to)
                               => (Administers(c))'
    PROVE  AdminRemains' /\ OneVictim' /\ AnotherAdmin'
  <1>1. \A v \in Workers : (Harms(v))' => Harms(v) /\ job'[v].subject = job[v].subject
    BY DEF Harms
  <1>2. OneVictim'
    BY <1>1 DEF IInv, OneVictim
  <1>3. CASE crossed
    BY <1>2, <1>3 DEF AdminRemains, AnotherAdmin
  <1>4. CASE ~crossed /\ ~Demotes(job[w].to)
    BY <1>1, <1>2, <1>4 DEF IInv, AdminRemains, AnotherAdmin, Administers
  <1>5. CASE ~crossed /\ Demotes(job[w].to)
    <2>1. Harms(w)
      BY <1>5 DEF Harms
    <2>2. \E c \in Subjects : c # job[w].subject /\ (Administers(c))'
      BY <1>5, <2>1 DEF IInv, AnotherAdmin
    <2>3. AdminRemains'
      BY <2>2 DEF AdminRemains, Administers
    <2>4. \A v \in Workers : (Harms(v))' => job'[v].subject = job[w].subject
      BY <1>1, <1>5, <2>1 DEF IInv, OneVictim
    <2>5. AnotherAdmin'
      BY <2>2, <2>4 DEF AnotherAdmin
    <2>6. QED
      BY <1>2, <2>3, <2>5
  <1>6. QED
    BY <1>3, <1>4, <1>5

(* The subject is left with the new role, and an admin there was besides.  *)
LEMMA PatchRoleCommitRoles ==
    ASSUME IInv, NEW w \in Workers, PatchRoleCommit(w)
    PROVE  RolesInv'
  <1> DEFINE s == job[w].subject
  <1>1. /\ job[w].pc = "revoked"
        /\ role' = [role EXCEPT ![s] = (role[s] \ job[w].revoked) \cup {job[w].to}]
        /\ job' = [job EXCEPT ![w] = Idle]
        /\ UNCHANGED <<subject, raced, crossed>>
    BY DEF PatchRoleCommit, Finish
  <1>2. s \in Subjects /\ job[w].to \in Bundles
    BY <1>1, JobShapes DEF IInv
  <1>3. /\ job[w].revoked = role[s] \/ RoleRaced(s)
        /\ subject[s] # "none" /\ Patches(w) /\ Changes(w)
    BY <1>1 DEF IInv, ChangesExclude, Patches, Changes
  <1>4. /\ job'[w] = Idle
        /\ \A v \in Workers \ {w} : job'[v] = job[v]
    BY <1>1 DEF IInv, TypeOK
  <1>5. /\ role'[s] = (role[s] \ job[w].revoked) \cup {job[w].to}
        /\ \A c \in Subjects \ {s} : role'[c] = role[c]
    BY <1>1, <1>2 DEF IInv, TypeOK
  <1>6. \A v \in Workers :
          /\ (Patches(v))' => v # w /\ Patches(v) /\ job'[v] = job[v]
          /\ (Changes(v))' => v # w /\ Changes(v) /\ job'[v] = job[v]
    BY <1>4 DEF Patches, Changes, Idle
  <1>7. ChangesExclude'
    <2>1. ASSUME NEW v \in Workers, job'[v].pc = "revoked"
          PROVE  job'[v].revoked = role'[job'[v].subject] \/ (RoleRaced(job[v].subject))'
      <3>1. v # w /\ job'[v] = job[v] /\ Changes(v)
        BY <2>1, <1>6 DEF Changes
      <3>2. job[v].subject = s => RoleRaced(job[v].subject)
        BY <3>1, <1>3 DEF IInv, ChangesExclude
      <3>3. job[v].subject \in Subjects
        BY <2>1, <3>1, JobShapes DEF IInv
      <3>4. job[v].revoked = role[job[v].subject] \/ RoleRaced(job[v].subject)
        BY <2>1, <3>1 DEF IInv, ChangesExclude
      <3>5. QED
        BY <3>1, <3>2, <3>3, <3>4, <1>1, <1>5 DEF RoleRaced
    <2>2. \A v \in Workers : (Patches(v))' => subject'[job'[v].subject] # "none"
      BY <1>1, <1>6 DEF IInv, ChangesExclude
    <2>3. \A v, x \in Workers :
            (Changes(v))' /\ (Changes(x))' /\ v # x /\ job'[v].subject = job'[x].subject
              => (RoleRaced(job[x].subject))'
      BY <1>1, <1>6 DEF IInv, ChangesExclude, RoleRaced
    <2>4. QED
      BY <2>1, <2>2, <2>3 DEF ChangesExclude
  <1>8. OneBundle'
    <2>1. RoleRaced(s) \/ role'[s] = {job[w].to}
      BY <1>3, <1>5
    <2>2. QED
      BY <1>1, <1>2, <1>3, <1>5, <2>1 DEF IInv, OneBundle, RoleRaced
  <1>9. AdminRemains' /\ OneVictim' /\ AnotherAdmin'
    <2>1. ASSUME NEW c \in Subjects, Administers(c), c # s \/ ~Demotes(job[w].to)
          PROVE  (Administers(c))'
      <3>1. CASE c # s
        BY <2>1, <3>1, <1>1, <1>5 DEF Administers
      <3>2. CASE c = s
        <4>1. job[w].to = "admin"
          BY <2>1, <3>2, <1>2, BundlesAssumption DEF Demotes
        <4>2. QED
          BY <2>1, <3>2, <4>1, <1>1, <1>5 DEF Administers, Manages
      <3>3. QED
        BY <3>1, <3>2
    <2>2. QED
      BY <2>1, <1>1, <1>3, <1>6, CommitAdmins
  <1>10. QED
    BY <1>7, <1>8, <1>9 DEF RolesInv

(* An account that is disabled is not the last admin's. *)
LEMMA PatchStatusCommitRoles ==
    ASSUME IInv, NEW w \in Workers, PatchStatusCommit(w)
    PROVE  RolesInv'
  <1> DEFINE s == job[w].subject
  <1>1. /\ job[w].pc = "patch" /\ job[w].to \notin Bundles
        /\ subject' = [subject EXCEPT ![s] = job[w].to]
        /\ job' = [job EXCEPT ![w] = Idle]
        /\ UNCHANGED <<role, raced, crossed>>
    BY DEF PatchStatusCommit, Finish
  <1>2. s \in Subjects /\ job[w].to \in {"ACTIVE", "DISABLED"}
    BY <1>1, JobShapes DEF IInv
  <1>3. subject[s] # "none" /\ Patches(w)
    BY <1>1 DEF IInv, ChangesExclude, Patches
  <1>4. /\ job'[w] = Idle
        /\ \A v \in Workers \ {w} : job'[v] = job[v]
    BY <1>1 DEF IInv, TypeOK
  <1>5. /\ subject'[s] = job[w].to
        /\ \A c \in Subjects \ {s} : subject'[c] = subject[c]
    BY <1>1, <1>2 DEF IInv, TypeOK
  <1>6. \A v \in Workers :
          /\ (Patches(v))' => v # w /\ Patches(v) /\ job'[v] = job[v]
          /\ (Changes(v))' => v # w /\ Changes(v) /\ job'[v] = job[v]
    BY <1>4 DEF Patches, Changes, Idle
  <1>7. ChangesExclude'
    <2>1. ASSUME NEW v \in Workers, (Patches(v))'
          PROVE  subject'[job'[v].subject] # "none"
      <3>1. Patches(v) /\ job'[v] = job[v]
        BY <2>1, <1>6
      <3>2. job[v].subject \in Subjects /\ subject[job[v].subject] # "none"
        BY <3>1, JobShapes DEF IInv, ChangesExclude, Patches
      <3>3. QED
        BY <3>1, <3>2, <1>2, <1>5
    <2>2. \A v, x \in Workers :
            (Changes(v))' /\ (Changes(x))' /\ v # x /\ job'[v].subject = job'[x].subject
              => (RoleRaced(job[x].subject))'
      BY <1>1, <1>6 DEF IInv, ChangesExclude, RoleRaced
    <2>3. \A v \in Workers : job'[v].pc = "revoked" =>
            job'[v].revoked = role'[job'[v].subject] \/ (RoleRaced(job[v].subject))'
      BY <1>1, <1>6 DEF IInv, ChangesExclude, Changes, RoleRaced
    <2>4. QED
      BY <2>1, <2>2, <2>3 DEF ChangesExclude
  <1>8. OneBundle'
    BY <1>1, <1>2, <1>3, <1>5 DEF IInv, OneBundle, RoleRaced
  <1>9. AdminRemains' /\ OneVictim' /\ AnotherAdmin'
    <2>1. ASSUME NEW c \in Subjects, Administers(c), c # s \/ ~Demotes(job[w].to)
          PROVE  (Administers(c))'
      <3>1. CASE c # s
        BY <2>1, <3>1, <1>1, <1>5 DEF Administers
      <3>2. CASE c = s
        BY <2>1, <3>2, <1>1, <1>2, <1>5 DEF Administers, Demotes
      <3>3. QED
        BY <3>1, <3>2
    <2>2. QED
      BY <2>1, <1>1, <1>3, <1>6, CommitAdmins
  <1>10. QED
    BY <1>7, <1>8, <1>9 DEF RolesInv

(* Requests about lines and assignments leave the roles alone. *)
LEMMA RolesKept ==
    ASSUME IInv, [Next]_vars
    PROVE  RolesInv'
  <1>1. raced \subseteq raced' /\ (crossed => crossed')
    BY HistoryGrows DEF IInv
  <1>2. ASSUME NEW caller \in Subjects, Administer(caller)
        PROVE  RolesInv'
    BY <1>2, CreateRoles, PatchLoadRoles DEF Administer
  <1>3. ASSUME NEW w \in Workers,
               PatchLock(w) \/ PatchRevoke(w) \/ PatchRoleCommit(w) \/ PatchStatusCommit(w)
        PROVE  RolesInv'
    BY <1>3, PatchLockRoles, PatchRevokeRoles, PatchRoleCommitRoles, PatchStatusCommitRoles
  <1>4. ASSUME NEW caller \in Subjects, ManageLine(caller) \/ Staff(caller)
        PROVE  RolesInv'
    <2>1. UNCHANGED <<subject, role>>
      BY <1>4 DEF ManageLine, Staff, CreateLine, EditLoad, DisableLoad, RemoveLoad,
                  AssignLoad, EndLoad
    <2>2. \/ UNCHANGED job
          \/ \E w \in Workers, l \in Lines :
               \/ job' = [job EXCEPT ![w] = [pc |-> "disable", line |-> l]]
               \/ job' = [job EXCEPT ![w] = [pc |-> "remove", line |-> l]]
          \/ \E w \in Workers, l \in Lines, s \in Subjects :
               job' = [job EXCEPT ![w] = [pc |-> "assign", line |-> l, operator |-> s]]
          \/ \E w \in Workers, a \in Assignments :
               job' = [job EXCEPT ![w] = [pc |-> "end", assignment |-> a]]
          \/ \E w \in Workers, l \in Lines, to \in LineRow :
               job' = [job EXCEPT ![w] = [pc |-> "edit", line |-> l, to |-> to]]
      BY <1>4 DEF ManageLine, Staff, CreateLine, EditLoad, DisableLoad, RemoveLoad,
                  AssignLoad, EndLoad, Begin
    <2>3. \A v \in Workers : (Patches(v))' => job'[v] = job[v]
      BY <2>2 DEF Patches, IInv, TypeOK
    <2>4. QED
      BY <1>1, <2>1, <2>3, RolesQuiet
  <1>5. ASSUME NEW w \in Workers,
               \/ EditCommit(w) \/ DisableCommit(w) \/ RemoveCommit(w)
               \/ AssignCommit(w) \/ EndCommit(w) \/ Abort(w)
        PROVE  RolesInv'
    <2>1. UNCHANGED <<subject, role>> /\ job' = [job EXCEPT ![w] = Idle]
      BY <1>5 DEF EditCommit, DisableCommit, RemoveCommit, AssignCommit, EndCommit,
                  Abort, Finish
    <2>2. \A v \in Workers : (Patches(v))' => job'[v] = job[v]
      BY <2>1 DEF Patches, IInv, TypeOK, Idle
    <2>3. QED
      BY <1>1, <2>1, <2>2, RolesQuiet
  <1>6. CASE UNCHANGED vars
    BY <1>6, <1>1, RolesQuiet DEF vars
  <1>7. QED
    BY <1>2, <1>3, <1>4, <1>5, <1>6 DEF Next, Proceed

-----------------------------------------------------------------------------
(* A step after which no assignment is active that was not before, and     *)
(* nobody is being assigned who was not.                                   *)
LEMMA WorkQuiet ==
    ASSUME IInv, raced \subseteq raced',
           \A a \in Assignments, s \in Subjects : (Works(a, s))' => Works(a, s),
           \A v \in Workers : job'[v].pc = "assign" => job'[v] = job[v]
    PROVE  OneWork' /\ Unassigned'
  <1>1. \A s \in Subjects : LineRaced(s) => (LineRaced(s))'
    BY DEF LineRaced
  <1>2. OneWork'
    BY <1>1 DEF IInv, OneWork
  <1>3. \A v \in Workers, s \in Subjects : (Assigns(v, s))' => Assigns(v, s)
    BY DEF Assigns
  <1>4. Unassigned'
    BY <1>1, <1>3 DEF IInv, Unassigned
  <1>5. QED
    BY <1>2, <1>4

(* The operator is looked for on every line. *)
LEMMA AssignLoadWork ==
    ASSUME IInv, NEW caller \in Subjects, NEW w \in Workers, NEW l \in Lines,
           NEW s \in Subjects, AssignLoad(w, caller, l, s)
    PROVE  OneWork' /\ Unassigned'
  <1> DEFINE request == [pc |-> "assign", line |-> l, operator |-> s]
  <1> DEFINE overlaps == \E v \in Workers : job[v].pc = "assign" /\ job[v].operator = s
  <1>1. /\ ActiveOf(s) = {}
        /\ Begin(w, request)
        /\ Race("line", s, overlaps)
        /\ UNCHANGED assignment
    BY DEF AssignLoad, RaceForOperator
  <1>2. request \in Job
    BY DEF Job
  <1>3. request.operator = s
    OBVIOUS
  <1> HIDE DEF request, overlaps
  <1>4. /\ job'[w] = request
        /\ \A v \in Workers \ {w} : job'[v] = job[v]
    BY <1>1, <1>2, Moves DEF IInv
  <1>5. \A a \in Assignments, o \in Subjects : (Works(a, o))' <=> Works(a, o)
    BY <1>1 DEF Works, Rows
  <1>6. \A a \in Assignments : ~Works(a, s)
    BY <1>1 DEF Works, ActiveOf
  <1>7. /\ \A o \in Subjects : LineRaced(o) => (LineRaced(o))'
        /\ overlaps => (LineRaced(s))'
    BY <1>1, Races DEF IInv, LineRaced
  <1>8. OneWork'
    BY <1>5, <1>7 DEF IInv, OneWork
  <1>9. \A v \in Workers \ {w}, o \in Subjects : (Assigns(v, o))' <=> Assigns(v, o)
    BY <1>4 DEF Assigns
  <1>10. \A v \in Workers : Assigns(v, s) => (LineRaced(s))'
    BY <1>7 DEF Assigns, overlaps
  <1>11. \A o \in Subjects : (Assigns(w, o))' => o = s
    BY <1>3, <1>4 DEF Assigns
  <1>12. Unassigned'
    <2> SUFFICES ASSUME NEW v \in Workers, NEW o \in Subjects, (Assigns(v, o))',
                        ~(LineRaced(o))'
                 PROVE  /\ \A a \in Assignments : ~(Works(a, o))'
                        /\ \A x \in Workers : (Assigns(x, o))' => x = v
      BY DEF Unassigned
    <2>1. CASE o = s
      <3>1. \A x \in Workers : (Assigns(x, o))' => x = w
        BY <2>1, <1>9, <1>10
      <3>2. QED
        BY <2>1, <3>1, <1>5, <1>6
    <2>2. CASE o # s
      <3>1. \A x \in Workers : (Assigns(x, o))' => x # w /\ Assigns(x, o)
        BY <2>2, <1>9, <1>11
      <3>2. QED
        BY <3>1, <1>5, <1>7 DEF IInv, Unassigned
    <2>3. QED
      BY <2>1, <2>2
  <1>13. QED
    BY <1>8, <1>12

(* The operator still works nowhere: nobody else was there to assign it.   *)
LEMMA AssignCommitWork ==
    ASSUME IInv, NEW w \in Workers, AssignCommit(w)
    PROVE  OneWork' /\ Unassigned'
  <1>1. PICK n \in Assignments \ Rows :
          assignment' = [assignment EXCEPT ![n] =
            [line |-> job[w].line, operator |-> job[w].operator, status |-> "ACTIVE"]]
    BY DEF AssignCommit
  <1>2. job[w].pc = "assign" /\ job' = [job EXCEPT ![w] = Idle] /\ UNCHANGED raced
    BY DEF AssignCommit, Finish
  <1>3. \A v \in Workers, s \in Subjects : (Assigns(v, s))' => v # w /\ Assigns(v, s)
    BY <1>2 DEF IInv, TypeOK, Assigns, Idle
  <1>4. /\ assignment'[n].operator = job[w].operator
        /\ \A a \in Assignments \ {n} : assignment'[a] = assignment[a]
    BY <1>1 DEF IInv, TypeOK
  <1>5. \A a \in Assignments, s \in Subjects : (Works(a, s))' =>
          IF a = n THEN s = job[w].operator ELSE Works(a, s)
    BY <1>4 DEF Works, Rows
  <1>6. PICK o \in Subjects : o = job[w].operator /\ Assigns(w, o)
    BY <1>2, JobShapes DEF IInv, Assigns
  <1>7. LineRaced(o) \/ /\ \A a \in Assignments : ~Works(a, o)
                        /\ \A v \in Workers : Assigns(v, o) => v = w
    BY <1>6 DEF IInv, Unassigned
  <1>8. \A s \in Subjects : (LineRaced(s))' <=> LineRaced(s)
    BY <1>2 DEF LineRaced
  <1>9. OneWork'
    BY <1>5, <1>6, <1>7, <1>8 DEF IInv, OneWork
  <1>10. Unassigned'
    <2> SUFFICES ASSUME NEW v \in Workers, NEW s \in Subjects, (Assigns(v, s))',
                        ~LineRaced(s)
                 PROVE  /\ \A a \in Assignments : ~(Works(a, s))'
                        /\ \A x \in Workers : (Assigns(x, s))' => x = v
      BY <1>8 DEF Unassigned
    <2>1. v # w /\ Assigns(v, s)
      BY <1>3
    <2>2. s # o
      BY <1>7, <2>1
    <2>3. QED
      BY <1>3, <1>5, <1>6, <2>1, <2>2 DEF IInv, Unassigned
  <1>11. QED
    BY <1>9, <1>10

(* What else happens ends assignments or deletes them. *)
LEMMA WorkKept ==
    ASSUME IInv, TypeOK', [Next]_vars
    PROVE  OneWork' /\ Unassigned'
  <1>1. raced \subseteq raced' /\ (crossed => crossed')
    BY HistoryGrows DEF IInv
  <1>2. ASSUME UNCHANGED assignment
        PROVE  \A a \in Assignments, s \in Subjects : (Works(a, s))' => Works(a, s)
    BY <1>2 DEF Works, Rows
  <1>3. ASSUME NEW caller \in Subjects, Administer(caller) \/ ManageLine(caller)
        PROVE  OneWork' /\ Unassigned'
    <2>1. UNCHANGED assignment
      BY <1>3 DEF Administer, ManageLine, CreateSubject, PatchLoad, CreateLine,
                  EditLoad, DisableLoad, RemoveLoad
    <2>2. \/ UNCHANGED job
          \/ \E w \in Workers, s \in Subjects, to \in {"ACTIVE", "DISABLED"} \cup Bundles,
                locks \in BOOLEAN :
               job' = [job EXCEPT ![w] = [pc |-> "patch", subject |-> s, to |-> to,
                                          locks |-> locks]]
          \/ \E w \in Workers, l \in Lines, to \in LineRow :
               job' = [job EXCEPT ![w] = [pc |-> "edit", line |-> l, to |-> to]]
          \/ \E w \in Workers, l \in Lines :
               \/ job' = [job EXCEPT ![w] = [pc |-> "disable", line |-> l]]
               \/ job' = [job EXCEPT ![w] = [pc |-> "remove", line |-> l]]
      BY <1>3 DEF Administer, ManageLine, CreateSubject, PatchLoad, CreateLine,
                  EditLoad, DisableLoad, RemoveLoad, Begin
    <2>3. \A v \in Workers : job'[v].pc = "assign" => job'[v] = job[v]
      BY <2>2 DEF IInv, TypeOK
    <2>4. QED
      BY <1>1, <1>2, <2>1, <2>3, WorkQuiet
  <1>4. ASSUME NEW caller \in Subjects, Staff(caller)
        PROVE  OneWork' /\ Unassigned'
    <2>1. ASSUME NEW w \in Workers, NEW a \in Assignments, EndLoad(w, caller, a)
          PROVE  OneWork' /\ Unassigned'
      <3>1. \A v \in Workers : job'[v].pc = "assign" => job'[v] = job[v]
        BY <2>1 DEF EndLoad, Begin, IInv, TypeOK
      <3>2. UNCHANGED assignment
        BY <2>1 DEF EndLoad
      <3>3. QED
        BY <1>1, <1>2, <3>1, <3>2, WorkQuiet
    <2>2. QED
      BY <1>4, <2>1, AssignLoadWork DEF Staff
  <1>5. ASSUME NEW w \in Workers,
               \/ PatchLock(w) \/ PatchRevoke(w) \/ PatchRoleCommit(w)
               \/ PatchStatusCommit(w) \/ EditCommit(w) \/ Abort(w)
        PROVE  OneWork' /\ Unassigned'
    <2>1. UNCHANGED assignment
      BY <1>5 DEF PatchLock, PatchRevoke, PatchRoleCommit, PatchStatusCommit,
                  EditCommit, Abort
    <2>2. \A v \in Workers : job'[v].pc = "assign" => job'[v] = job[v]
      <3>1. CASE PatchLock(w)
        <4>1. job[w] = [pc |-> "patch", subject |-> job[w].subject, to |-> job[w].to,
                        locks |-> job[w].locks]
          BY <3>1, JobShapes DEF PatchLock, IInv
        <4>2. job' = [job EXCEPT ![w] = [job[w] EXCEPT !.pc = "begun"]]
          BY <3>1 DEF PatchLock, Continue
        <4>3. job'[w].pc = "begun" /\ \A v \in Workers \ {w} : job'[v] = job[v]
          BY <4>1, <4>2 DEF IInv, TypeOK
        <4>4. QED
          BY <4>3
      <3>2. CASE PatchRevoke(w)
        BY <3>2 DEF PatchRevoke, Continue, IInv, TypeOK
      <3>3. CASE \/ PatchRoleCommit(w) \/ PatchStatusCommit(w)
                 \/ EditCommit(w) \/ Abort(w)
        BY <3>3 DEF PatchRoleCommit, PatchStatusCommit, EditCommit, Abort, Finish,
                    IInv, TypeOK, Idle
      <3>4. QED
        BY <1>5, <3>1, <3>2, <3>3
    <2>3. QED
      BY <1>1, <1>2, <2>1, <2>2, WorkQuiet
  <1>6. ASSUME NEW w \in Workers, DisableCommit(w) \/ RemoveCommit(w) \/ EndCommit(w)
        PROVE  OneWork' /\ Unassigned'
    <2>1. \A v \in Workers : job'[v].pc = "assign" => job'[v] = job[v]
      BY <1>6 DEF DisableCommit, RemoveCommit, EndCommit, Finish, IInv, TypeOK, Idle
    <2>2. ASSUME NEW a \in Assignments
          PROVE  \/ assignment'[a] = assignment[a]
                 \/ assignment'[a] = NoRow
                 \/ a \in Rows /\ assignment'[a] = [assignment[a] EXCEPT !.status = "ENDED"]
      <3>1. CASE DisableCommit(w)
        BY <3>1 DEF DisableCommit, ActiveOn
      <3>2. CASE RemoveCommit(w)
        BY <3>2 DEF RemoveCommit
      <3>3. CASE EndCommit(w)
        BY <3>3 DEF EndCommit, IInv, TypeOK
      <3>4. QED
        BY <1>6, <3>1, <3>2, <3>3
    <2>3. ASSUME NEW a \in Assignments, NEW s \in Subjects, (Works(a, s))'
          PROVE  Works(a, s)
      <3>1. assignment'[a] # NoRow /\ assignment'[a].status = "ACTIVE"
        BY <2>3 DEF Works, Rows
      <3>2. CASE a \in Rows /\ assignment'[a] = [assignment[a] EXCEPT !.status = "ENDED"]
        <4>1. assignment[a] \in AssignmentRow
          BY <3>2 DEF Rows, IInv, TypeOK
        <4>2. assignment'[a].status = "ENDED"
          BY <3>2, <4>1 DEF AssignmentRow
        <4>3. QED
          BY <3>1, <4>2
      <3>3. CASE assignment'[a] = assignment[a]
        BY <2>3, <3>3 DEF Works, Rows
      <3>4. QED
        BY <2>2, <3>1, <3>2, <3>3
    <2>4. QED
      BY <1>1, <2>1, <2>3, WorkQuiet
  <1>7. CASE UNCHANGED vars
    BY <1>7, <1>1, <1>2, WorkQuiet DEF vars
  <1>8. QED
    BY <1>3, <1>4, <1>5, <1>6, <1>7, AssignCommitWork DEF Next, Proceed

-----------------------------------------------------------------------------
(* The inductive invariant: what a request relies on is still true when it *)
(* writes.                                                                 *)
THEOREM Inductive == Spec => []IInv
  <1>1. Init => IInv
    <2> SUFFICES ASSUME Init
                 PROVE  IInv
      OBVIOUS
    <2>1. PICK admin \in Subjects :
            /\ subject = [s \in Subjects |-> IF s = admin THEN "ACTIVE" ELSE "none"]
            /\ role = [s \in Subjects |-> IF s = admin THEN {"admin"} ELSE {}]
      BY DEF Init
    <2>2. /\ job = [w \in Workers |-> Idle]
          /\ \A w \in Workers : job[w].pc = "idle"
          /\ Rows = {}
      BY DEF Init, Idle, Rows
    <2>3. TypeOK
      BY <2>1, BundlesAssumption DEF Init, TypeOK, Job
    <2>4. ChangesExclude /\ AnotherAdmin /\ OneVictim
      BY <2>2 DEF ChangesExclude, AnotherAdmin, OneVictim, Harms, Patches, Changes
    <2>5. OneBundle /\ AdminRemains
      BY <2>1, BundlesAssumption DEF OneBundle, AdminRemains, Manages
    <2>6. OneWork /\ Unassigned
      BY <2>2 DEF OneWork, Unassigned, Works, Assigns
    <2>7. QED
      BY <2>3, <2>4, <2>5, <2>6 DEF IInv
  <1>2. IInv /\ [Next]_vars => IInv'
    <2> SUFFICES ASSUME IInv, [Next]_vars
                 PROVE  IInv'
      OBVIOUS
    <2>1. TypeOK'
      BY TypePreserved DEF IInv
    <2>2. QED
      BY <2>1, RolesKept, WorkKept DEF IInv, RolesInv
  <1>3. QED
    BY <1>1, <1>2, PTL DEF Spec

(* A subject has one role bundle, and one that does not exist has none,    *)
(* unless two changes of its role have overlapped of which one had nothing *)
(* to write to the subject.                                                *)
THEOREM RolesAreOne == Spec => []OneRole
  <1>1. IInv => OneRole
    <2> SUFFICES ASSUME IInv, NEW s \in Subjects, ~RoleRaced(s)
                 PROVE  Cardinality(role[s]) = IF subject[s] = "none" THEN 0 ELSE 1
      BY DEF OneRole, RoleRaced
    <2>1. CASE subject[s] = "none"
      BY <2>1, FS_EmptySet DEF IInv, OneBundle
    <2>2. CASE subject[s] # "none"
      BY <2>2, FS_Singleton DEF IInv, OneBundle
    <2>3. QED
      BY <2>1, <2>2
  <1>2. QED
    BY <1>1, Inductive, PTL

(* Somebody can administer the plant, until requests to demote two         *)
(* subjects overlap.                                                       *)
THEOREM SomebodyAdministers == Spec => []AdminRemains
  BY Inductive, PTL DEF IInv

(* An operator works on one line at a time, whatever requests overlap, as  *)
(* long as no two of them assign that operator.                            *)
THEOREM OperatorsWorkOnce == Spec => []OneLine
  <1>1. IInv => OneLine
    <2> SUFFICES ASSUME IInv, NEW s \in Subjects, ~LineRaced(s)
                 PROVE  Cardinality(ActiveOf(s)) <= 1
      BY DEF OneLine, LineRaced
    <2>1. \A a, b \in ActiveOf(s) : a = b
      <3>1. \A a \in ActiveOf(s) : a \in Assignments /\ Works(a, s)
        BY DEF ActiveOf, Rows, Works
      <3>2. QED
        BY <3>1 DEF IInv, OneWork
    <2>2. CASE ActiveOf(s) = {}
      <3>1. Cardinality(ActiveOf(s)) = 0
        BY <2>2, FS_EmptySet
      <3>2. QED
        BY <3>1
    <2>3. CASE ActiveOf(s) # {}
      <3>1. PICK a : ActiveOf(s) = {a}
        BY <2>1, <2>3
      <3>2. Cardinality(ActiveOf(s)) = 1
        BY <3>1, FS_Singleton
      <3>3. QED
        BY <3>2
    <2>4. QED
      BY <2>2, <2>3
  <1>2. QED
    BY <1>1, Inductive, PTL
-----------------------------------------------------------------------------
(* The members of a legacy workspace (Membership).                         *)
-----------------------------------------------------------------------------
People == Subjects \cup {Third}
Busy(j) == call[j] # Workspace!Idle
Asks(j, kinds, places) == Busy(j) /\ call[j].kind \in kinds /\ call[j].at \in places

(* Whom a request demotes or removes has a row: rows are only marked.      *)
RowsStay ==
    \A j \in Workers :
        Asks(j, {"role", "remove"}, {"count", "find", "write", "cascade"})
          => members[call[j].of] # Workspace!NoRow
MemberInv == Workspace!TypeOK /\ RowsStay

(* Of requests that do not overlap: what one has found still holds.        *)
OneCall == \A i, j \in Workers : Busy(i) /\ Busy(j) => i = j
Found(j) ==
    /\ Asks(j, {"role", "remove"}, {"count", "find", "write"})
         => Workspace!Active(call[j].of)
    /\ Asks(j, {"role", "remove"}, {"find", "write"}) /\ Workspace!LosesOwner(j)
         => \E c \in Workspace!Owners : c # call[j].of
    /\ Asks(j, {"share"}, {"find", "write"}) => Workspace!Active(call[j].of)

MemberSerial ==
    /\ ~disturbed => OneCall /\ \A j \in Workers : Found(j)
    /\ OwnerRemains
    /\ SharersBelong

LEMMA MemberInit == Workspace!Init => MemberInv /\ MemberSerial
<1> SUFFICES ASSUME Workspace!Init
             PROVE  MemberInv /\ MemberSerial
  OBVIOUS
<1>1. \A j \in Workers : ~Busy(j)
  BY DEF Workspace!Init, Busy
<1>2. Workspace!TypeOK
  <2>1. requests \in 0..MaxRequests
    BY RolesAssumption DEF Workspace!Init
  <2>2. members \in [People -> Workspace!MemberRow]
    BY DEF Workspace!Init, Workspace!MemberRow, People
  <2>3. call \in [Workers -> Workspace!Job]
    BY DEF Workspace!Init, Workspace!Job
  <2>4. sharers \in [People -> {"none", "active", "gone"}] /\ founded \in BOOLEAN
        /\ disturbed \in BOOLEAN
    BY DEF Workspace!Init, People
  <2> QED BY <2>1, <2>2, <2>3, <2>4 DEF Workspace!TypeOK, People
<1>3. RowsStay
  BY <1>1 DEF RowsStay, Asks
<1>4. OneCall /\ \A j \in Workers : Found(j)
  BY <1>1 DEF OneCall, Found, Asks
<1>5. OwnerRemains /\ SharersBelong
  BY DEF Workspace!Init, OwnerRemains, SharersBelong, Workspace!OwnerRemains,
         Workspace!SharersBelong
<1> QED
  BY <1>2, <1>3, <1>4, <1>5 DEF MemberInv, MemberSerial

(* A request goes on to its next call.                                     *)
LEMMA GoesOn ==
  ASSUME Workspace!TypeOK, NEW j \in Workers, Busy(j), NEW place \in Workspace!Places,
         Workspace!Goto(j, place)
  PROVE  /\ call' \in [Workers -> Workspace!Job]
         /\ \A i \in Workers \ {j} : call'[i] = call[i]
         /\ Busy(j)' /\ call'[j].at = place
         /\ call'[j].kind = call[j].kind /\ call'[j].by = call[j].by
         /\ call'[j].of = call[j].of /\ call'[j].role = call[j].role
<1> DEFINE J == [kind: Workspace!Kinds, at: Workspace!Places, by: People, of: People,
                 role: Roles, caller: Roles]
           new == [call[j] EXCEPT !.at = place]
<1>1. call[j] \in J
  BY DEF Busy, Workspace!TypeOK, Workspace!Job, People
<1>2. new \in J /\ new.at = place /\ new.kind = call[j].kind /\ new.by = call[j].by
      /\ new.of = call[j].of /\ new.role = call[j].role
  BY <1>1
<1>3. call' = [call EXCEPT ![j] = new]
  BY DEF Workspace!Goto
<1>4. J \subseteq Workspace!Job
  BY DEF Workspace!Job, People
<1>5. new.kind # "none"
  BY <1>2 DEF Workspace!Kinds
<1> HIDE DEF J, new
<1>6. call' \in [Workers -> Workspace!Job] /\ call'[j] = new
      /\ \A i \in Workers \ {j} : call'[i] = call[i]
  BY <1>2, <1>3, <1>4 DEF Workspace!TypeOK
<1>7. new # Workspace!Idle
  BY <1>5 DEF Workspace!Idle
<1> QED
  BY <1>2, <1>6, <1>7 DEF Busy

(* A request is over.                                                      *)
LEMMA IsOver ==
  ASSUME Workspace!TypeOK, NEW j \in Workers, Workspace!Finish(j)
  PROVE  /\ call' \in [Workers -> Workspace!Job]
         /\ \A i \in Workers \ {j} : call'[i] = call[i]
         /\ ~Busy(j)'
  BY DEF Workspace!TypeOK, Workspace!Finish, Busy, Workspace!Job

(* Rows stay while other requests go on.                                   *)
LEMMA RowsThere ==
  ASSUME RowsStay, Workspace!TypeOK, NEW j \in Workers,
         \A i \in Workers \ {j} : call'[i] = call[i],
         \A u \in People : members[u] # Workspace!NoRow => members'[u] # Workspace!NoRow,
         (Asks(j, {"role", "remove"}, {"count", "find", "write", "cascade"})
            => members[call[j].of] # Workspace!NoRow)'
  PROVE  RowsStay'
<1>1. ASSUME NEW i \in Workers \ {j}, Asks(i, {"role", "remove"},
                                           {"count", "find", "write", "cascade"})'
      PROVE  members'[call'[i].of] # Workspace!NoRow
  <2>1. call'[i] = call[i]
    BY <1>1
  <2>2. Asks(i, {"role", "remove"}, {"count", "find", "write", "cascade"})
    BY <1>1, <2>1 DEF Asks, Busy
  <2>3. call[i].of \in People
    BY <2>2 DEF Asks, Busy, Workspace!TypeOK, Workspace!Job, People
  <2>4. members[call[i].of] # Workspace!NoRow
    BY <1>1, <2>2 DEF RowsStay
  <2> QED BY <2>1, <2>3, <2>4
<1>2. \A i \in Workers : i = j \/ i \in Workers \ {j}
  OBVIOUS
<1> QED
  BY <1>1, <1>2 DEF RowsStay, Workspace!NoRow

(* A call that only reads, and goes on where its row was found or not.     *)
LEMMA ReadTyped ==
  ASSUME MemberInv, NEW j \in Workers, Busy(j), Workspace!Reads,
         NEW place \in Workspace!Places,
         Workspace!Finish(j) \/ Workspace!Goto(j, place),
         \/ call[j].kind \notin {"role", "remove"}
         \/ members[call[j].of] # Workspace!NoRow
  PROVE  MemberInv'
<1>1. /\ call' \in [Workers -> Workspace!Job]
      /\ \A i \in Workers \ {j} : call'[i] = call[i]
      /\ \/ ~Busy(j)'
         \/ call'[j].kind = call[j].kind /\ call'[j].of = call[j].of
  BY GoesOn, IsOver DEF MemberInv
<1>2. members' = members
  BY DEF Workspace!Reads
<1>3. RowsStay'
  <2>1. (Asks(j, {"role", "remove"}, {"count", "find", "write", "cascade"})
           => members[call[j].of] # Workspace!NoRow)'
    BY <1>1, <1>2 DEF Asks, Workspace!NoRow
  <2> QED BY <1>1, <1>2, <2>1, RowsThere DEF MemberInv
<1>4. Workspace!TypeOK'
  BY <1>1 DEF MemberInv, Workspace!TypeOK, Workspace!Reads
<1> QED
  BY <1>3, <1>4 DEF MemberInv

LEMMA ArriveMember ==
  ASSUME MemberInv, NEW j \in Workers, NEW request \in Workspace!Job \ {Workspace!Idle},
         request.at \in {"start", "check"}, Workspace!Arrive(j, request)
  PROVE  MemberInv'
<1>1. /\ call' \in [Workers -> Workspace!Job] /\ call'[j] = request
      /\ \A i \in Workers \ {j} : call'[i] = call[i]
  BY DEF Workspace!Arrive, MemberInv, Workspace!TypeOK
<1>2. requests' \in 0..MaxRequests
  BY RolesAssumption DEF Workspace!Arrive, MemberInv, Workspace!TypeOK
<1>3. disturbed' \in BOOLEAN
  BY DEF Workspace!Arrive, MemberInv, Workspace!TypeOK
<1>4. Workspace!TypeOK'
  BY <1>1, <1>2, <1>3 DEF Workspace!Arrive, MemberInv, Workspace!TypeOK
<1>5. ~Asks(j, {"role", "remove"}, {"count", "find", "write", "cascade"})'
  BY <1>1 DEF Asks
<1>6. RowsStay'
  BY <1>1, <1>5, RowsThere DEF MemberInv, Workspace!Arrive
<1> QED
  BY <1>4, <1>6 DEF MemberInv

(* A request that writes: what it writes is a row, and no row is lost.     *)
LEMMA WriteTyped ==
  ASSUME MemberInv, NEW j \in Workers, Busy(j),
         UNCHANGED requests, founded' \in BOOLEAN, disturbed' \in BOOLEAN,
         members' \in [People -> Workspace!MemberRow],
         sharers' \in [People -> {"none", "active", "gone"}],
         \A u \in People : members[u] # Workspace!NoRow => members'[u] # Workspace!NoRow,
         NEW place \in {"settle", "cascade"},
         \/ Workspace!Finish(j)
         \/ /\ Workspace!Goto(j, place)
            /\ call[j].kind = "create" \/ members[call[j].of] # Workspace!NoRow
  PROVE  MemberInv'
<1>1. place \in Workspace!Places
  BY DEF Workspace!Places
<1>2. /\ call' \in [Workers -> Workspace!Job]
      /\ \A i \in Workers \ {j} : call'[i] = call[i]
      /\ \/ ~Busy(j)'
         \/ /\ call'[j].kind = call[j].kind /\ call'[j].of = call[j].of
            /\ call[j].kind = "create" \/ members[call[j].of] # Workspace!NoRow
  BY <1>1, GoesOn, IsOver DEF MemberInv
<1>3. call[j].of \in People
  BY DEF Busy, MemberInv, Workspace!TypeOK, Workspace!Job, People
<1>4. RowsStay'
  <2>1. (Asks(j, {"role", "remove"}, {"count", "find", "write", "cascade"})
           => members[call[j].of] # Workspace!NoRow)'
    BY <1>2, <1>3 DEF Asks, Workspace!NoRow
  <2> QED BY <1>2, <2>1, RowsThere DEF MemberInv
<1>5. Workspace!TypeOK'
  BY <1>2 DEF MemberInv, Workspace!TypeOK, People
<1> QED
  BY <1>4, <1>5 DEF MemberInv

LEMMA CallType ==
  ASSUME MemberInv, NEW j \in Workers, Busy(j)
  PROVE  /\ call[j].kind \in Workspace!Kinds /\ call[j].by \in People
         /\ call[j].of \in People /\ call[j].role \in Roles
         /\ call[j].role # "none"
  BY RolesAssumption DEF Busy, MemberInv, Workspace!TypeOK, Workspace!Job, People

(* Reading steps, and the row a request reads of whom it concerns.         *)
LEMMA ReadsStep ==
  ASSUME MemberInv, NEW j \in Workers,
         \/ Workspace!AddCheck(j) \/ Workspace!RoleCheck(j) \/ Workspace!RemoveCheck(j)
         \/ Workspace!Count(j) \/ Workspace!Find(j) \/ Workspace!ShareCheck(j)
         \/ Workspace!ShareFind(j) \/ Workspace!UnshareCheck(j)
  PROVE  /\ Busy(j) /\ Workspace!Reads
         /\ \/ Workspace!Finish(j)
            \/ \E place \in {"write", "count", "find"} : Workspace!Goto(j, place)
         /\ \/ call[j].kind \notin {"role", "remove"}
            \/ Workspace!Finish(j)
            \/ members[call[j].of] # Workspace!NoRow
<1>1. CASE Workspace!AddCheck(j)
  BY <1>1 DEF Workspace!AddCheck, Workspace!At, Workspace!Unless, Busy
<1>2. CASE Workspace!ShareCheck(j) \/ Workspace!ShareFind(j) \/ Workspace!UnshareCheck(j)
  BY <1>2 DEF Workspace!ShareCheck, Workspace!ShareFind, Workspace!UnshareCheck,
              Workspace!At, Workspace!Unless, Busy
<1>3. CASE Workspace!RoleCheck(j)
  BY <1>3 DEF Workspace!RoleCheck, Workspace!At, Workspace!Unless, Busy, Workspace!Active
<1>4. CASE Workspace!RemoveCheck(j)
  BY <1>4 DEF Workspace!RemoveCheck, Workspace!At, Workspace!Unless, Busy, Workspace!Active
<1>5. CASE Workspace!Count(j)
  <2>1. Asks(j, {"role", "remove"}, {"count", "find", "write", "cascade"})
    BY <1>5 DEF Workspace!Count, Workspace!At, Asks, Busy
  <2>2. members[call[j].of] # Workspace!NoRow
    BY <2>1 DEF MemberInv, RowsStay
  <2> QED BY <1>5, <2>1, <2>2 DEF Workspace!Count, Workspace!Unless, Asks
<1>6. CASE Workspace!Find(j)
  BY <1>6 DEF Workspace!Find, Workspace!At, Workspace!Unless, Busy, Workspace!Active
<1> QED
  BY <1>1, <1>2, <1>3, <1>4, <1>5, <1>6

LEMMA MemberTyped == MemberInv /\ [Workspace!Next]_(Workspace!vars) => MemberInv'
<1> SUFFICES ASSUME MemberInv, [Workspace!Next]_(Workspace!vars)
             PROVE  MemberInv'
  OBVIOUS
<1>0. /\ members \in [People -> Workspace!MemberRow]
      /\ sharers \in [People -> {"none", "active", "gone"}]
      /\ founded \in BOOLEAN /\ disturbed \in BOOLEAN
  BY DEF MemberInv, Workspace!TypeOK, People
<1>1. CASE UNCHANGED Workspace!vars
  BY <1>1 DEF Workspace!vars, MemberInv, Workspace!TypeOK, RowsStay, Asks, Busy,
              Workspace!NoRow
<1>2. ASSUME NEW j \in Workers, Workspace!Requests(j)
      PROVE  MemberInv'
  <2>1. ASSUME NEW by \in People, Workspace!BeginCreate(j, by)
        PROVE  MemberInv'
    <3> DEFINE request == [kind |-> "create", at |-> "start", by |-> by, of |-> by,
                           role |-> "OWNER", caller |-> "OWNER"]
    <3>1. request \in Workspace!Job \ {Workspace!Idle} /\ request.at = "start"
      BY RolesAssumption DEF Workspace!Job, Workspace!Kinds, Workspace!Places,
                             Workspace!Idle, People
    <3>2. Workspace!Arrive(j, request)
      BY <2>1 DEF Workspace!BeginCreate
    <3> HIDE DEF request
    <3> QED BY <3>1, <3>2, ArriveMember
  <2>2. ASSUME NEW kind \in Workspace!Kinds, NEW by \in People, NEW of \in People,
               NEW rank \in Roles, Workspace!Begin(j, kind, by, of, rank)
        PROVE  MemberInv'
    <3>1. members[by].role \in Roles
      BY <1>0, <2>2 DEF Workspace!Begin, Workspace!Active, Workspace!MemberRow
    <3>2. PICK caller \in Roles : caller = members[by].role
      BY <3>1
    <3> DEFINE request == [kind |-> kind, at |-> "check", by |-> by, of |-> of,
                           role |-> rank, caller |-> caller]
    <3>3. request \in Workspace!Job \ {Workspace!Idle} /\ request.at = "check"
      BY DEF Workspace!Job, Workspace!Places, Workspace!Idle, People
    <3>4. Workspace!Arrive(j, request)
      BY <2>2, <3>2 DEF Workspace!Begin
    <3> HIDE DEF request
    <3> QED BY <3>3, <3>4, ArriveMember
  <2> QED BY <1>2, <2>1, <2>2 DEF Workspace!Requests, People
<1>3. ASSUME NEW j \in Workers,
             \/ Workspace!AddCheck(j) \/ Workspace!RoleCheck(j)
             \/ Workspace!RemoveCheck(j) \/ Workspace!Count(j) \/ Workspace!Find(j)
             \/ Workspace!ShareCheck(j) \/ Workspace!ShareFind(j)
             \/ Workspace!UnshareCheck(j)
      PROVE  MemberInv'
  <2>1. Busy(j) /\ Workspace!Reads
    BY <1>3, ReadsStep
  <2>2. CASE Workspace!Finish(j)
    <3>1. "write" \in Workspace!Places
      BY DEF Workspace!Places
    <3>2. /\ call' \in [Workers -> Workspace!Job] /\ ~Busy(j)'
          /\ \A i \in Workers \ {j} : call'[i] = call[i]
      BY <2>2, IsOver DEF MemberInv
    <3>3. RowsStay'
      BY <2>1, <3>2, RowsThere DEF MemberInv, Workspace!Reads, Asks
    <3> QED BY <2>1, <3>2, <3>3 DEF MemberInv, Workspace!TypeOK, Workspace!Reads
  <2>3. ASSUME NEW place \in {"write", "count", "find"}, Workspace!Goto(j, place),
               ~Workspace!Finish(j)
        PROVE  MemberInv'
    <3>1. place \in Workspace!Places
      BY DEF Workspace!Places
    <3>2. \/ call[j].kind \notin {"role", "remove"}
          \/ members[call[j].of] # Workspace!NoRow
      BY <1>3, <2>3, ReadsStep
    <3> QED BY <2>1, <2>3, <3>1, <3>2, ReadTyped
  <2> QED BY <1>3, <2>2, <2>3, ReadsStep
<1>4. ASSUME NEW j \in Workers, Workspace!Create(j)
      PROVE  MemberInv'
  BY <1>0, <1>4, WriteTyped DEF Workspace!Create, Workspace!At, Busy
<1>5. ASSUME NEW j \in Workers, Workspace!Settle(j) \/ Workspace!AddWrite(j)
      PROVE  MemberInv'
  <2>1. Busy(j)
    BY <1>5 DEF Workspace!Settle, Workspace!AddWrite, Workspace!At, Busy
  <2>2. /\ members' \in [People -> Workspace!MemberRow]
        /\ \A u \in People : members[u] # Workspace!NoRow => members'[u] # Workspace!NoRow
    <3> DEFINE owner == [role |-> "OWNER", gone |-> FALSE]
               row == [role |-> call[j].role, gone |-> FALSE]
    <3>1. owner \in Workspace!MemberRow /\ row \in Workspace!MemberRow
      BY <2>1, CallType, RolesAssumption DEF Workspace!MemberRow
    <3>2. owner # Workspace!NoRow /\ row # Workspace!NoRow
      BY <2>1, CallType DEF Workspace!NoRow
    <3>3. \/ members' = [members EXCEPT ![call[j].by] = owner]
          \/ members' = [members EXCEPT ![call[j].of] = row]
          \/ members' = members
      BY <1>5 DEF Workspace!Settle, Workspace!AddWrite
    <3> HIDE DEF owner, row
    <3> QED BY <1>0, <3>1, <3>2, <3>3
  <2> QED BY <1>0, <1>5, <2>1, <2>2, WriteTyped DEF Workspace!Settle, Workspace!AddWrite
<1>6. ASSUME NEW j \in Workers, Workspace!RoleWrite(j) \/ Workspace!RemoveWrite(j)
      PROVE  MemberInv'
  <2>1. Asks(j, {"role", "remove"}, {"count", "find", "write", "cascade"})
    BY <1>6 DEF Workspace!RoleWrite, Workspace!RemoveWrite, Workspace!At, Asks, Busy
  <2>2. Busy(j) /\ members[call[j].of] # Workspace!NoRow /\ call[j].of \in People
    BY <2>1, CallType DEF Asks, MemberInv, RowsStay
  <2>3. members[call[j].of] \in [role: Roles, gone: BOOLEAN]
    BY <1>0, <2>2 DEF Workspace!MemberRow
  <2>4. /\ members' \in [People -> Workspace!MemberRow]
        /\ \A u \in People : members[u] # Workspace!NoRow => members'[u] # Workspace!NoRow
    <3> DEFINE row == IF Workspace!RoleWrite(j)
                      THEN [members[call[j].of] EXCEPT !.role = call[j].role]
                      ELSE [members[call[j].of] EXCEPT !.gone = TRUE]
    <3>1. row \in [role: Roles, gone: BOOLEAN]
      BY <2>2, <2>3, CallType
    <3>2. row # Workspace!NoRow
      <4>1. row.role # "none"
        BY <3>1, RolesAssumption
      <4> QED BY <4>1 DEF Workspace!NoRow
    <3>3. members' = [members EXCEPT ![call[j].of] = row]
      BY <1>6 DEF Workspace!RoleWrite, Workspace!RemoveWrite
    <3> HIDE DEF row
    <3> QED BY <1>0, <3>1, <3>2, <3>3 DEF Workspace!MemberRow
  <2> QED BY <1>0, <1>6, <2>2, <2>4, WriteTyped
          DEF Workspace!RoleWrite, Workspace!RemoveWrite
<1>7. ASSUME NEW j \in Workers,
             Workspace!Cascade(j) \/ Workspace!ShareWrite(j) \/ Workspace!UnshareWrite(j)
      PROVE  MemberInv'
  <2>1. Busy(j)
    BY <1>7 DEF Workspace!Cascade, Workspace!ShareWrite, Workspace!UnshareWrite,
                Workspace!At, Busy
  <2>2. sharers' \in [People -> {"none", "active", "gone"}]
    BY <1>0, <1>7 DEF Workspace!Cascade, Workspace!ShareWrite, Workspace!UnshareWrite
  <2> QED BY <1>0, <1>7, <2>1, <2>2, WriteTyped
          DEF Workspace!Cascade, Workspace!ShareWrite, Workspace!UnshareWrite
<1>8. ASSUME NEW j \in Workers, Workspace!Abort(j)
      PROVE  MemberInv'
  BY <1>0, <1>8, WriteTyped DEF Workspace!Abort, Busy
<1>9. ASSUME Workspace!Next
      PROVE  \E j \in Workers :
               \/ Workspace!Requests(j) \/ Workspace!Create(j) \/ Workspace!Settle(j)
               \/ Workspace!AddCheck(j) \/ Workspace!RoleCheck(j)
               \/ Workspace!RemoveCheck(j) \/ Workspace!Count(j) \/ Workspace!Find(j)
               \/ Workspace!ShareCheck(j) \/ Workspace!ShareFind(j)
               \/ Workspace!UnshareCheck(j) \/ Workspace!AddWrite(j)
               \/ Workspace!RoleWrite(j) \/ Workspace!RemoveWrite(j)
               \/ Workspace!Cascade(j) \/ Workspace!ShareWrite(j)
               \/ Workspace!UnshareWrite(j) \/ Workspace!Abort(j)
  BY <1>9 DEF Workspace!Next, Workspace!Workspaces, Workspace!Members, Workspace!Sharers
<1> QED
  BY <1>1, <1>2, <1>3, <1>4, <1>5, <1>6, <1>7, <1>8, <1>9

(* Between requests a workspace has an owner, and its sharers belong.      *)
Kept ==
    /\ founded => Workspace!Owners # {}
    /\ \A u \in People : sharers[u] = "active" => Workspace!Active(u)

LEMMA KeptSuffices ==
  ASSUME Kept
  PROVE  OwnerRemains /\ SharersBelong
  BY DEF Kept, OwnerRemains, SharersBelong, Workspace!OwnerRemains,
         Workspace!SharersBelong, People

(* While the only request is neither founding nor removing, they hold.     *)
LEMMA KeptMeanwhile ==
  ASSUME ~disturbed, OwnerRemains, SharersBelong,
         \A j \in Workers : ~Workspace!At(j, "create", "settle")
                            /\ ~Workspace!At(j, "remove", "cascade")
  PROVE  Kept
  BY DEF Kept, OwnerRemains, SharersBelong, Workspace!OwnerRemains,
         Workspace!SharersBelong, People

LEMMA OthersRest ==
  ASSUME OneCall, NEW j \in Workers, Busy(j), NEW i \in Workers \ {j}
  PROVE  ~Busy(i)
  BY DEF OneCall

LEMMA OnlyCall ==
  ASSUME NEW j \in Workers, \A i \in Workers \ {j} : ~Busy(i)', Found(j)'
  PROVE  OneCall' /\ (\A i \in Workers : Found(i))'
  BY DEF OneCall, Found, Asks

(* A count of owners above one finds another owner.                        *)
LEMMA AnotherOwner ==
  ASSUME Cardinality(Workspace!Owners) > 1, NEW u
  PROVE  \E c \in Workspace!Owners : c # u
<1> SUFFICES ASSUME Workspace!Owners \subseteq {u}
             PROVE  FALSE
  OBVIOUS
<1>1. IsFiniteSet({u}) /\ Cardinality({u}) = 1
  BY FS_Singleton
<1>2. Cardinality(Workspace!Owners) <= 1 /\ Cardinality(Workspace!Owners) \in Nat
  <2>1. IsFiniteSet(Workspace!Owners)
    BY <1>1, FS_Subset
  <2>2. Cardinality(Workspace!Owners) <= Cardinality({u})
    BY <1>1, FS_Subset
  <2> QED BY <1>1, <2>1, <2>2, FS_CardinalityType
<1> QED
  BY <1>2

LEMMA ArriveFound ==
  ASSUME MemberInv, MemberSerial, NEW j \in Workers, NEW request,
         request.at \in {"start", "check"}, Workspace!Arrive(j, request), ~disturbed'
  PROVE  MemberSerial'
<1>1. ~disturbed /\ \A i \in Workers : ~Busy(i)
  BY DEF Workspace!Arrive, Busy
<1>2. call'[j] = request /\ \A i \in Workers \ {j} : ~Busy(i)'
  BY <1>1 DEF Workspace!Arrive, MemberInv, Workspace!TypeOK, Busy, Workspace!Idle
<1>3. Found(j)'
  BY <1>2 DEF Found, Asks
<1>4. Kept
  BY <1>1, KeptMeanwhile DEF MemberSerial, Workspace!At, Busy
<1>5. Kept'
  BY <1>4 DEF Kept, Workspace!Arrive, Workspace!Owners, Workspace!Active, Workspace!NoRow
<1>6. OwnerRemains' /\ SharersBelong'
  BY <1>5 DEF Kept, OwnerRemains, SharersBelong, Workspace!OwnerRemains,
              Workspace!SharersBelong, People
<1>7. OneCall' /\ (\A i \in Workers : Found(i))'
  BY <1>2, <1>3, OnlyCall
<1> QED
  BY <1>6, <1>7 DEF MemberSerial

(* What a reading step finds, it goes on with.                             *)
LEMMA ReadFound ==
  ASSUME MemberInv, NEW j \in Workers, Found(j),
         \/ Workspace!AddCheck(j) \/ Workspace!RoleCheck(j) \/ Workspace!RemoveCheck(j)
         \/ Workspace!Count(j) \/ Workspace!Find(j) \/ Workspace!ShareCheck(j)
         \/ Workspace!ShareFind(j) \/ Workspace!UnshareCheck(j)
  PROVE  Found(j)'
<1>1. Busy(j) /\ UNCHANGED <<members, sharers>>
  BY ReadsStep DEF Workspace!Reads
<1>2. CASE Workspace!Finish(j)
  <2>1. ~Busy(j)'
    BY <1>2, IsOver DEF MemberInv
  <2> QED BY <2>1 DEF Found, Asks
<1>3. CASE ~Workspace!Finish(j)
  <2>1. PICK place \in {"write", "count", "find"} : Workspace!Goto(j, place)
    BY <1>3, ReadsStep
  <2>2. /\ Busy(j)' /\ call'[j].at = place /\ call'[j].kind = call[j].kind
        /\ call'[j].of = call[j].of /\ call'[j].role = call[j].role
    BY <1>1, <2>1, GoesOn DEF MemberInv, Workspace!Places
  <2>3. Workspace!Active(call[j].of)' = Workspace!Active(call[j].of)
        /\ Workspace!LosesOwner(j)' = Workspace!LosesOwner(j)
        /\ Workspace!Owners' = Workspace!Owners
    BY <1>1, <2>2 DEF Workspace!Active, Workspace!LosesOwner, Workspace!Owners,
                      Workspace!NoRow
  <2> DEFINE Losing == \E c \in Workspace!Owners : c # call[j].of
  <2>4. Losing' = Losing
    BY <2>2, <2>3
  <2>5. /\ call[j].kind \in {"role", "remove"} =>
             /\ Workspace!Active(call[j].of)
             /\ place \in {"find", "write"} /\ Workspace!LosesOwner(j) => Losing
        /\ call[j].kind = "share" => Workspace!Active(call[j].of)
    <3>1. CASE Workspace!AddCheck(j)
      BY <3>1 DEF Workspace!AddCheck, Workspace!At
    <3>2. CASE Workspace!UnshareCheck(j)
      BY <3>2 DEF Workspace!UnshareCheck, Workspace!At
    <3>3. CASE Workspace!ShareCheck(j)
      BY <1>3, <3>3 DEF Workspace!ShareCheck, Workspace!At, Workspace!Unless
    <3>4. CASE Workspace!ShareFind(j)
      BY <3>4 DEF Workspace!ShareFind, Workspace!At, Found, Asks, Busy
    <3>5. CASE Workspace!RoleCheck(j) \/ Workspace!RemoveCheck(j)
      <4>1. /\ call[j].kind \in {"role", "remove"} /\ Workspace!Active(call[j].of)
            /\ Workspace!Goto(j, IF Workspace!LosesOwner(j) THEN "count" ELSE "find")
        BY <1>3, <3>5 DEF Workspace!RoleCheck, Workspace!RemoveCheck, Workspace!At,
                          Workspace!Unless
      <4>2. Workspace!LosesOwner(j) => place = "count"
        <5> SUFFICES ASSUME Workspace!LosesOwner(j)
                     PROVE  place = "count"
          OBVIOUS
        <5>1. Workspace!Goto(j, "count") /\ "count" \in Workspace!Places
          BY <4>1 DEF Workspace!Places
        <5>2. call'[j].at = "count"
          BY <1>1, <5>1, GoesOn DEF MemberInv
        <5> QED BY <2>2, <5>2
      <4> QED BY <4>1, <4>2
    <3>6. CASE Workspace!Count(j)
      <4>0. Asks(j, {"role", "remove"}, {"count", "find", "write"})
        BY <3>6 DEF Workspace!Count, Workspace!At, Asks, Busy
      <4>1. Cardinality(Workspace!Owners) > 1
        <5>1. Workspace!Cardinality(Workspace!Owners) = Cardinality(Workspace!Owners)
          BY DEF Workspace!Cardinality, Cardinality
        <5>2. Workspace!Unless(j, Workspace!Cardinality(Workspace!Owners) > 1, "find")
          BY <3>6 DEF Workspace!Count
        <5> QED BY <1>3, <5>1, <5>2, Zenon DEF Workspace!Unless
      <4>2. Workspace!Active(call[j].of)
        BY <4>0 DEF Found
      <4>3. Losing
        BY <4>1, AnotherOwner
      <4> QED BY <4>0, <4>2, <4>3 DEF Asks
    <3>7. CASE Workspace!Find(j)
      <4>1. Asks(j, {"role", "remove"}, {"find", "write"})
            /\ Asks(j, {"role", "remove"}, {"count", "find", "write"})
        BY <3>7 DEF Workspace!Find, Workspace!At, Asks, Busy
      <4>2. Workspace!Active(call[j].of) /\ (Workspace!LosesOwner(j) => Losing)
        BY <4>1 DEF Found
      <4> QED BY <4>1, <4>2 DEF Asks
    <3> QED BY <3>1, <3>2, <3>3, <3>4, <3>5, <3>6, <3>7
  <2>6. Losing' <=> (\E c \in Workspace!Owners : c # call[j].of)'
    OBVIOUS
  <2> HIDE DEF Losing
  <2> QED BY <2>2, <2>3, <2>4, <2>5, <2>6 DEF Found, Asks
<1> QED
  BY <1>2, <1>3

(* What the only request leaves behind holds if owners and sharers do, or  *)
(* it is itself about to restore them.                                     *)
LEMMA WriteSerial ==
  ASSUME NEW j \in Workers, \A i \in Workers \ {j} : ~Busy(i)', Found(j)',
         OwnerRemains', SharersBelong'
  PROVE  MemberSerial'
<1>1. OneCall' /\ (\A i \in Workers : Found(i))'
  BY OnlyCall
<1> QED
  BY <1>1 DEF MemberSerial

LEMMA KeptAfter ==
  ASSUME NEW j \in Workers, \A i \in Workers \ {j} : ~Busy(i)', Found(j)', Kept'
  PROVE  MemberSerial'
<1>1. OwnerRemains' /\ SharersBelong'
  BY DEF Kept, OwnerRemains, SharersBelong, Workspace!OwnerRemains,
         Workspace!SharersBelong, People
<1> QED
  BY <1>1, WriteSerial

LEMMA FinishFound ==
  ASSUME MemberInv, NEW j \in Workers, Workspace!Finish(j)
  PROVE  Found(j)' /\ ~Busy(j)'
  BY IsOver DEF MemberInv, Found, Asks

(* The steps of founding a workspace.                                      *)
LEMMA FoundingSerial ==
  ASSUME MemberInv, MemberSerial, ~disturbed, NEW j \in Workers,
         \A i \in Workers \ {j} : ~Busy(i) /\ ~Busy(i)',
         Workspace!Create(j) \/ Workspace!Settle(j)
  PROVE  MemberSerial'
<1>1. Busy(j) /\ call[j].kind = "create"
  BY DEF Workspace!Create, Workspace!Settle, Workspace!At, Busy
<1>2. \A u \in People : sharers[u] = "active" => Workspace!Active(u)
  BY <1>1 DEF MemberSerial, SharersBelong, Workspace!SharersBelong, Workspace!At,
              Busy, People
<1>3. CASE Workspace!Create(j)
  <2>1. Busy(j)' /\ call'[j].kind = "create" /\ call'[j].at = "settle"
    BY <1>1, <1>3, GoesOn DEF Workspace!Create, MemberInv, Workspace!Places
  <2>2. Found(j)'
    BY <2>1 DEF Found, Asks
  <2>3. OwnerRemains'
    BY <2>1 DEF OwnerRemains, Workspace!OwnerRemains, Workspace!At, Busy
  <2>4. SharersBelong'
    BY <1>2, <1>3 DEF Workspace!Create, SharersBelong, Workspace!SharersBelong,
                      Workspace!Active, Workspace!NoRow, People
  <2> QED BY <2>2, <2>3, <2>4, WriteSerial
<1>4. CASE Workspace!Settle(j)
  <2>1. Found(j)'
    BY <1>4, FinishFound DEF Workspace!Settle
  <2> DEFINE owner == [role |-> "OWNER", gone |-> FALSE]
  <2>2. owner # Workspace!NoRow /\ owner.role = "OWNER" /\ ~owner.gone
    BY DEF Workspace!NoRow
  <2>3. members' = [members EXCEPT ![call[j].by] = owner]
    BY <1>4 DEF Workspace!Settle
  <2> HIDE DEF owner
  <2>4. call[j].by \in People /\ members \in [People -> Workspace!MemberRow]
    BY <1>1, CallType DEF MemberInv, Workspace!TypeOK, People
  <2>5. /\ members'[call[j].by] = owner
        /\ \A u \in People : members'[u] = members[u] \/ members'[u] = owner
    BY <2>3, <2>4
  <2>6. \A u \in People : members'[u] = owner => Workspace!Active(u)'
    BY <2>2 DEF Workspace!Active, Workspace!NoRow
  <2>7. call[j].by \in Workspace!Owners'
    BY <2>2, <2>4, <2>5, <2>6 DEF Workspace!Owners, People
  <2>8. ASSUME NEW u \in People, sharers'[u] = "active"
        PROVE  Workspace!Active(u)'
    <3>1. Workspace!Active(u)
      BY <1>2, <1>4, <2>8 DEF Workspace!Settle
    <3> QED BY <2>5, <2>6, <3>1 DEF Workspace!Active, Workspace!NoRow
  <2>9. Kept'
    BY <2>7, <2>8 DEF Kept, Workspace!NoRow
  <2> QED BY <2>1, <2>9, KeptAfter
<1> QED
  BY <1>3, <1>4

(* Additions take nothing away.                                            *)
LEMMA AddSerial ==
  ASSUME MemberInv, Kept, NEW j \in Workers, \A i \in Workers \ {j} : ~Busy(i)',
         Workspace!AddWrite(j)
  PROVE  MemberSerial'
<1>1. Found(j)'
  BY FinishFound DEF Workspace!AddWrite
<1>2. \A u \in People : members[u] # Workspace!NoRow => members'[u] = members[u]
  BY DEF Workspace!AddWrite, MemberInv, Workspace!TypeOK, People
<1>3. \A u \in People : Workspace!Active(u) => Workspace!Active(u)'
  BY <1>2 DEF Workspace!Active, Workspace!NoRow
<1>4. \A u \in People : u \in Workspace!Owners => u \in Workspace!Owners'
  BY <1>2, <1>3 DEF Workspace!Owners, Workspace!Active
<1>5. Workspace!Owners \subseteq People
  BY DEF Workspace!Owners, People
<1>6. Kept'
  BY <1>3, <1>4, <1>5 DEF Kept, Workspace!AddWrite
<1> QED
  BY <1>1, <1>6, KeptAfter

(* Another owner was counted before one is demoted or removed.             *)
LEMMA ChangeSerial ==
  ASSUME MemberInv, Kept, NEW j \in Workers, Found(j),
         \A i \in Workers \ {j} : ~Busy(i)',
         Workspace!RoleWrite(j) \/ Workspace!RemoveWrite(j)
  PROVE  MemberSerial'
<1>1. /\ Asks(j, {"role", "remove"}, {"count", "find", "write"})
      /\ Asks(j, {"role", "remove"}, {"find", "write"}) /\ Busy(j)
  BY DEF Workspace!RoleWrite, Workspace!RemoveWrite, Workspace!At, Asks, Busy
<1>2. PICK u \in People : u = call[j].of
  BY <1>1, CallType
<1>3. Workspace!Active(u) /\ (Workspace!LosesOwner(j) => \E c \in Workspace!Owners : c # u)
  BY <1>1, <1>2 DEF Found
<1>4. call[j].role \in Roles /\ call[j].role # "none"
      /\ members \in [People -> Workspace!MemberRow]
  BY <1>1, CallType DEF MemberInv, Workspace!TypeOK, People
<1>5. members[u] \in [role: Roles, gone: BOOLEAN] /\ ~members[u].gone
  BY <1>3, <1>4 DEF Workspace!Active, Workspace!MemberRow
<1>6. /\ \A v \in People \ {u} : members'[v] = members[v]
      /\ \/ Workspace!RoleWrite(j) /\ members'[u] = [members[u] EXCEPT !.role = call[j].role]
         \/ Workspace!RemoveWrite(j) /\ members'[u] = [members[u] EXCEPT !.gone = TRUE]
  BY <1>2, <1>4 DEF Workspace!RoleWrite, Workspace!RemoveWrite
<1>7. \A v \in People \ {u} :
        /\ Workspace!Active(v) => Workspace!Active(v)'
        /\ v \in Workspace!Owners => v \in Workspace!Owners'
  BY <1>6 DEF Workspace!Active, Workspace!Owners, Workspace!NoRow
<1>8. Workspace!Owners \subseteq People
  BY DEF Workspace!Owners, People
<1>9. (\E c \in Workspace!Owners : c # u) => Workspace!Owners' # {}
  BY <1>7, <1>8
<1>10. sharers' = sharers /\ founded' = founded
  BY DEF Workspace!RoleWrite, Workspace!RemoveWrite
<1>11. CASE Workspace!RoleWrite(j)
  <2>1. Found(j)'
    BY <1>11, FinishFound DEF Workspace!RoleWrite
  <2>2. members'[u] = [members[u] EXCEPT !.role = call[j].role]
    BY <1>11, <1>2, <1>4 DEF Workspace!RoleWrite
  <2>3. members'[u].role = call[j].role /\ ~members'[u].gone
    BY <2>2, <1>5
  <2>4. Workspace!Active(u)'
    BY <2>3, <1>4 DEF Workspace!Active, Workspace!NoRow
  <2>5. founded => Workspace!Owners' # {}
    <3>1. CASE Workspace!LosesOwner(j)
      BY <3>1, <1>3, <1>9
    <3>2. CASE members[u].role = "OWNER" /\ call[j].role = "OWNER"
      <4>1. u \in Workspace!Owners'
        BY <3>2, <2>3, <2>4 DEF Workspace!Owners, People
      <4> QED BY <4>1
    <3>3. CASE members[u].role # "OWNER"
      <4>1. u \notin Workspace!Owners
        BY <3>3 DEF Workspace!Owners
      <4> QED BY <4>1, <1>9 DEF Kept
    <3> QED BY <3>1, <3>2, <3>3, <1>2 DEF Workspace!LosesOwner
  <2>6. Kept'
    BY <2>4, <2>5, <1>7, <1>10 DEF Kept
  <2> QED BY <2>1, <2>6, KeptAfter
<1>12. CASE Workspace!RemoveWrite(j)
  <2>1. call[j].kind = "remove" /\ Workspace!Goto(j, "cascade")
    BY <1>12 DEF Workspace!RemoveWrite, Workspace!At
  <2>2. /\ Busy(j)' /\ call'[j].at = "cascade" /\ call'[j].kind = "remove"
        /\ call'[j].of = u
    BY <2>1, <1>1, <1>2, GoesOn DEF MemberInv, Workspace!Places
  <2>3. Found(j)'
    BY <2>2 DEF Found, Asks
  <2>4. founded => Workspace!Owners' # {}
    <3>1. CASE members[u].role = "OWNER"
      BY <3>1, <2>1, <1>2, <1>3, <1>9 DEF Workspace!LosesOwner
    <3>2. CASE members[u].role # "OWNER"
      <4>1. u \notin Workspace!Owners
        BY <3>2 DEF Workspace!Owners
      <4> QED BY <4>1, <1>9 DEF Kept
    <3> QED BY <3>1, <3>2
  <2>5. OwnerRemains'
    BY <2>4, <1>10 DEF OwnerRemains, Workspace!OwnerRemains
  <2>6. (Workspace!At(j, "remove", "cascade") /\ call[j].of = u)'
    BY <2>2 DEF Workspace!At, Busy
  <2>7. SharersBelong'
    <3> SUFFICES ASSUME NEW v \in People, sharers[v] = "active"
                 PROVE  Workspace!Active(v)' \/ v = u
      BY <2>6, <1>10 DEF SharersBelong, Workspace!SharersBelong, People
    <3> QED BY <1>7 DEF Kept
  <2> QED BY <2>3, <2>5, <2>7, WriteSerial
<1> QED
  BY <1>11, <1>12

(* Who is taken into a project is a member, who was removed leaves it.     *)
LEMMA ShareSerial ==
  ASSUME MemberInv, MemberSerial, ~disturbed, NEW j \in Workers,
         \A i \in Workers \ {j} : ~Busy(i) /\ ~Busy(i)',
         Workspace!Cascade(j) \/ Workspace!ShareWrite(j) \/ Workspace!UnshareWrite(j)
  PROVE  MemberSerial'
<1>1. Busy(j) /\ Workspace!Finish(j) /\ UNCHANGED <<members, founded>>
  BY DEF Workspace!Cascade, Workspace!ShareWrite, Workspace!UnshareWrite, Workspace!At,
         Busy
<1>2. Found(j)'
  BY <1>1, FinishFound
<1>3. PICK u \in People : u = call[j].of
  BY <1>1, CallType
<1>4. sharers \in [People -> {"none", "active", "gone"}]
  BY DEF MemberInv, Workspace!TypeOK, People
<1>5. Workspace!Owners' = Workspace!Owners /\ \A v : Workspace!Active(v)' = Workspace!Active(v)
  BY <1>1 DEF Workspace!Owners, Workspace!Active, Workspace!NoRow
<1>6. call[j].kind # "create"
  BY DEF Workspace!Cascade, Workspace!ShareWrite, Workspace!UnshareWrite, Workspace!At
<1>7. founded => Workspace!Owners # {}
  BY <1>6 DEF MemberSerial, OwnerRemains, Workspace!OwnerRemains, Workspace!At, Busy
<1>8. CASE Workspace!Cascade(j)
  <2>1. \A v \in People \ {u} : sharers[v] = "active" => Workspace!Active(v)
    BY <1>3 DEF MemberSerial, SharersBelong, Workspace!SharersBelong, Workspace!At,
                Busy, People
  <2>2. sharers'[u] # "active" /\ \A v \in People \ {u} : sharers'[v] = sharers[v]
    BY <1>3, <1>4, <1>8 DEF Workspace!Cascade
  <2>3. Kept'
    BY <2>1, <2>2, <1>1, <1>5, <1>7 DEF Kept
  <2> QED BY <2>3, <1>2, KeptAfter
<1>9. CASE Workspace!ShareWrite(j) \/ Workspace!UnshareWrite(j)
  <2>1. call[j].kind # "remove"
    BY <1>9 DEF Workspace!ShareWrite, Workspace!UnshareWrite, Workspace!At
  <2>2. \A v \in People : sharers[v] = "active" => Workspace!Active(v)
    BY <2>1 DEF MemberSerial, SharersBelong, Workspace!SharersBelong, Workspace!At,
                Busy, People
  <2>3. \/ sharers'[u] # "active"
        \/ Workspace!Active(u)
    <3>1. CASE Workspace!ShareWrite(j)
      BY <3>1, <1>3 DEF Workspace!ShareWrite, Workspace!At, MemberSerial, Found, Asks,
                        Busy
    <3>2. CASE Workspace!UnshareWrite(j)
      BY <3>2, <1>3, <1>4 DEF Workspace!UnshareWrite
    <3> QED BY <1>9, <3>1, <3>2
  <2>4. \A v \in People \ {u} : sharers'[v] = sharers[v]
    BY <1>3, <1>4, <1>9 DEF Workspace!ShareWrite, Workspace!UnshareWrite
  <2>5. Kept'
    BY <2>2, <2>3, <2>4, <1>1, <1>5, <1>7 DEF Kept
  <2> QED BY <2>5, <1>2, KeptAfter
<1> QED
  BY <1>8, <1>9

LEMMA MemberSerialStep ==
  MemberInv /\ MemberSerial /\ [Workspace!Next]_(Workspace!vars) => MemberSerial'
<1> SUFFICES ASSUME MemberInv, MemberSerial, [Workspace!Next]_(Workspace!vars)
             PROVE  MemberSerial'
  OBVIOUS
<1>1. CASE UNCHANGED Workspace!vars
  <2>1. /\ Workspace!Owners' = Workspace!Owners
        /\ \A v : Workspace!Active(v)' = Workspace!Active(v)
        /\ \A i \in Workers : Busy(i)' = Busy(i)
        /\ UNCHANGED <<members, sharers, founded, call, disturbed>>
    BY <1>1 DEF Workspace!vars, Workspace!Owners, Workspace!Active, Workspace!NoRow, Busy,
                Workspace!Idle
  <2>2. OneCall' = OneCall /\ \A i \in Workers : Found(i)' = Found(i)
    BY <2>1 DEF OneCall, Found, Asks, Workspace!LosesOwner
  <2>3. OwnerRemains' = OwnerRemains /\ SharersBelong' = SharersBelong
    BY <2>1 DEF OwnerRemains, SharersBelong, Workspace!OwnerRemains,
                Workspace!SharersBelong, Workspace!At, Workspace!Idle
  <2> QED BY <2>1, <2>2, <2>3 DEF MemberSerial
<1>2. ASSUME NEW j \in Workers, Workspace!Abort(j)
      PROVE  MemberSerial'
  BY <1>2 DEF Workspace!Abort, MemberSerial, OwnerRemains, SharersBelong,
              Workspace!OwnerRemains, Workspace!SharersBelong
<1>3. ASSUME NEW j \in Workers, Workspace!Requests(j)
      PROVE  MemberSerial'
  <2> SUFFICES ASSUME ~disturbed'
               PROVE  MemberSerial'
    BY DEF MemberSerial, OwnerRemains, SharersBelong, Workspace!OwnerRemains,
           Workspace!SharersBelong
  <2>1. ASSUME NEW by \in People, Workspace!BeginCreate(j, by)
        PROVE  MemberSerial'
    <3> DEFINE request == [kind |-> "create", at |-> "start", by |-> by, of |-> by,
                           role |-> "OWNER", caller |-> "OWNER"]
    <3>1. request.at = "start" /\ Workspace!Arrive(j, request)
      BY <2>1 DEF Workspace!BeginCreate
    <3> HIDE DEF request
    <3> QED BY <3>1, ArriveFound
  <2>2. ASSUME NEW kind \in Workspace!Kinds, NEW by \in People, NEW of \in People,
               NEW rank \in Roles, Workspace!Begin(j, kind, by, of, rank)
        PROVE  MemberSerial'
    <3>1. PICK caller : caller = members[by].role
      OBVIOUS
    <3> DEFINE request == [kind |-> kind, at |-> "check", by |-> by, of |-> of,
                           role |-> rank, caller |-> caller]
    <3>2. request.at = "check" /\ Workspace!Arrive(j, request)
      BY <2>2, <3>1 DEF Workspace!Begin
    <3> HIDE DEF request
    <3> QED BY <3>2, ArriveFound
  <2> QED BY <1>3, <2>1, <2>2 DEF Workspace!Requests, People
<1>4. ASSUME NEW j \in Workers,
             \/ Workspace!Workspaces(j) \/ Workspace!Members(j) \/ Workspace!Sharers(j)
      PROVE  MemberSerial'
  <2>1. UNCHANGED disturbed /\ Busy(j) /\ \A i \in Workers \ {j} : call'[i] = call[i]
    <3>1. /\ UNCHANGED disturbed /\ Busy(j)
          /\ \/ Workspace!Finish(j)
             \/ \E place \in Workspace!Places : Workspace!Goto(j, place)
      <4>1. CASE Workspace!Workspaces(j)
        BY <4>1 DEF Workspace!Workspaces, Workspace!Create, Workspace!Settle,
                    Workspace!At, Busy, Workspace!Places
      <4>2. CASE \/ Workspace!AddWrite(j) \/ Workspace!RoleWrite(j)
                 \/ Workspace!Cascade(j) \/ Workspace!ShareWrite(j)
                 \/ Workspace!UnshareWrite(j)
        BY <4>2 DEF Workspace!AddWrite, Workspace!RoleWrite, Workspace!Cascade,
                    Workspace!ShareWrite, Workspace!UnshareWrite, Workspace!At, Busy
      <4>3. CASE Workspace!RemoveWrite(j)
        BY <4>3 DEF Workspace!RemoveWrite, Workspace!At, Busy, Workspace!Places
      <4>4. CASE \/ Workspace!AddCheck(j) \/ Workspace!RoleCheck(j)
                 \/ Workspace!RemoveCheck(j) \/ Workspace!Count(j) \/ Workspace!Find(j)
                 \/ Workspace!ShareCheck(j) \/ Workspace!ShareFind(j)
                 \/ Workspace!UnshareCheck(j)
        BY <4>4, ReadsStep DEF Workspace!Reads, Workspace!Places
      <4> QED BY <1>4, <4>1, <4>2, <4>3, <4>4 DEF Workspace!Members, Workspace!Sharers
    <3> QED BY <3>1, GoesOn, IsOver DEF MemberInv
  <2> SUFFICES ASSUME ~disturbed
               PROVE  MemberSerial'
    BY <2>1 DEF MemberSerial, OwnerRemains, SharersBelong, Workspace!OwnerRemains,
                Workspace!SharersBelong
  <2>2. OneCall /\ Found(j)
    BY DEF MemberSerial
  <2>3. \A i \in Workers \ {j} : ~Busy(i) /\ ~Busy(i)'
    BY <2>1, <2>2, OthersRest DEF Busy, Workspace!Idle
  <2>4. CASE Workspace!Workspaces(j)
    BY <2>3, <2>4, FoundingSerial DEF Workspace!Workspaces
  <2>5. CASE Workspace!Cascade(j) \/ Workspace!ShareWrite(j) \/ Workspace!UnshareWrite(j)
    BY <2>3, <2>5, ShareSerial
  <2>6. ASSUME ~Workspace!At(j, "create", "settle"), ~Workspace!At(j, "remove", "cascade")
        PROVE  Kept
    BY <2>3, <2>6, KeptMeanwhile DEF MemberSerial, Workspace!At, Busy
  <2>7. CASE Workspace!AddWrite(j)
    <3>1. Kept
      BY <2>6, <2>7 DEF Workspace!AddWrite, Workspace!At
    <3> QED BY <3>1, <2>3, <2>7, AddSerial
  <2>8. CASE Workspace!RoleWrite(j) \/ Workspace!RemoveWrite(j)
    <3>1. Kept
      BY <2>6, <2>8 DEF Workspace!RoleWrite, Workspace!RemoveWrite, Workspace!At
    <3> QED BY <3>1, <2>2, <2>3, <2>8, ChangeSerial
  <2>9. CASE \/ Workspace!AddCheck(j) \/ Workspace!RoleCheck(j)
             \/ Workspace!RemoveCheck(j) \/ Workspace!Count(j) \/ Workspace!Find(j)
             \/ Workspace!ShareCheck(j) \/ Workspace!ShareFind(j)
             \/ Workspace!UnshareCheck(j)
    <3>1. Kept
      BY <2>6, <2>9 DEF Workspace!AddCheck, Workspace!RoleCheck, Workspace!RemoveCheck,
                        Workspace!Count, Workspace!Find, Workspace!ShareCheck,
                        Workspace!ShareFind, Workspace!UnshareCheck, Workspace!At
    <3>2. UNCHANGED <<members, sharers, founded>>
      BY <2>9, ReadsStep DEF Workspace!Reads
    <3>3. Kept'
      BY <3>1, <3>2 DEF Kept, Workspace!Owners, Workspace!Active, Workspace!NoRow
    <3>4. Found(j)'
      BY <2>2, <2>9, ReadFound
    <3> QED BY <2>3, <3>3, <3>4, KeptAfter
  <2> QED BY <1>4, <2>4, <2>5, <2>7, <2>8, <2>9 DEF Workspace!Members, Workspace!Sharers
<1> QED
  BY <1>1, <1>2, <1>3, <1>4 DEF Workspace!Next

(* Members, sharers and requests of a workspace keep their types, and no   *)
(* row is lost, however requests overlap.                                  *)
THEOREM MembersTyped == Workspace!Spec => []MemberInv
<1> QED
  BY MemberInit, MemberTyped, PTL DEF Workspace!Spec

LEMMA MembersSerial == Workspace!Spec => []MemberSerial
<1> QED
  BY MemberInit, MemberTyped, MemberSerialStep, PTL DEF Workspace!Spec

(* A workspace that was founded keeps an owner, unless requests overlap or *)
(* its founding breaks off: whoever demotes or removes an owner has        *)
(* counted another, also where that is the caller itself (workspaceMember  *)
(* controller).                                                            *)
THEOREM OwnersKept == Workspace!Spec => []OwnerRemains
<1>1. MemberSerial => OwnerRemains
  BY DEF MemberSerial
<1> QED
  BY <1>1, MembersSerial, PTL

(* Who is in a project is in its workspace, or is being taken out of both, *)
(* unless requests overlap or one breaks off.                              *)
THEOREM SharersKept == Workspace!Spec => []SharersBelong
<1>1. MemberSerial => SharersBelong
  BY DEF MemberSerial
<1> QED
  BY <1>1, MembersSerial, PTL
=============================================================================
