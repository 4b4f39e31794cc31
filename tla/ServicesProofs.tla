---------------------------- MODULE ServicesProofs ----------------------------
(***************************************************************************)
(* What the services of MCServices promise for any number of requests,     *)
(* clients, rows, files and keys: the claims of commands, the runs of an   *)
(* upload, the caches of the legacy services, the versions of rows, the    *)
(* walks through lists and the seed script.  Each is about the module of   *)
(* one service; no two of them share a step.                               *)
(***************************************************************************)
EXTENDS MCServices, Integers, Sequences, TLAPS

-----------------------------------------------------------------------------
(* COMMANDS (CommandIdempotency), as long as no commit acknowledgement is  *)
(* lost.                                                                   *)

(* The strengthening: rows are unique by primary key and by scope, claims  *)
(* are held by one request each, and a held claim has committed nothing;   *)
(* its row, while it exists, is still the PENDING row of that request.     *)
RowsUnique ==
    /\ \A q, r \in rows : q.id = r.id => q = r
    /\ \A q, r \in rows : q.scope = r.scope => q = r

ClaimsExclusive ==
    \A v, w \in Workers :
        Holding(v) /\ Holding(w) /\ job[v].claim = job[w].claim => v = w

HeldClaimIsPending ==
    \A w \in Workers : Holding(w) =>
        /\ \A r \in rows : r.id = job[w].claim =>
             r = [id |-> job[w].claim, scope |-> job[w].scope,
                  hash |-> job[w].hash, status |-> "PENDING"]
        /\ \A c \in committed : c.claim # job[w].claim

IInv ==
    /\ TypeOK
    /\ RowsUnique
    /\ ClaimsExclusive
    /\ HeldClaimIsPending
    /\ CommittedStaysRecorded
    /\ CompletedIsCommitted
    /\ AnswersAreCommitted

-----------------------------------------------------------------------------
(* The jobs of the two halves of executeCommand, by their program counter. *)
LEMMA JobShapes ==
    ASSUME TypeOK, NEW w \in Workers
    PROVE  /\ job[w].pc \in {"idle", "missed", "claimed", "failed"}
           /\ job[w].pc = "missed" => job[w].scope \in Scopes /\ job[w].hash \in Bodies
           /\ Holding(w) => /\ job[w].scope \in Scopes /\ job[w].hash \in Bodies
                            /\ job[w].claim \in ClaimIds
                            /\ job[w] = [pc |-> job[w].pc, scope |-> job[w].scope,
                                         hash |-> job[w].hash, claim |-> job[w].claim]
  BY DEF TypeOK, Job, Idle, Holding

(* Every step of executeCommand and of its environment keeps the rows, the *)
(* jobs, the executions and the answers well formed.                       *)
LEMMA TypePreserved ==
    ASSUME TypeOK, [Next]_vars
    PROVE  TypeOK'
  <1> USE DEF TypeOK, Row, Job, Execution, Idle, RowsOf
  <1>1. ASSUME NEW w \in Workers, NEW s \in Scopes, NEW b \in Bodies,
               LookupMiss(w, s, b)
        PROVE  TypeOK'
    BY <1>1 DEF LookupMiss
  <1>2. ASSUME NEW w \in Workers, NEW s \in Scopes, NEW b \in Bodies,
               LookupReplay(w, s, b)
        PROVE  TypeOK'
    BY <1>2 DEF LookupReplay
  <1>3. ASSUME NEW w \in Workers, Claim(w)
        PROVE  TypeOK'
    <2>1. job[w].scope \in Scopes /\ job[w].hash \in Bodies
      BY <1>3, JobShapes DEF Claim
    <2>2. QED
      BY <1>3, <2>1 DEF Claim, FreshIds
  <1>4. ASSUME NEW w \in Workers, ClaimRefused(w)
        PROVE  TypeOK'
    BY <1>4 DEF ClaimRefused
  <1>5. ASSUME NEW w \in Workers, Commit(w) \/ CommitUnacknowledged(w)
        PROVE  TypeOK'
    <2>1. /\ CommitWork(w)
          /\ Holding(w)
      BY <1>5 DEF Commit, CommitUnacknowledged, CommitWork, Holding
    <2>2. [scope |-> job[w].scope, hash |-> job[w].hash, claim |-> job[w].claim]
            \in Execution
      BY <2>1, JobShapes
    <2>3. rows' \subseteq Row /\ committed' \subseteq Execution
      BY <2>1, <2>2 DEF CommitWork
    <2>4. answers' \subseteq Execution
      BY <1>5, <2>2 DEF Commit, CommitUnacknowledged
    <2>5. job' \in [Workers -> Job]
      <3>1. [job[w] EXCEPT !.pc = "failed"] \in Job
        BY <2>1, JobShapes
      <3>2. QED
        BY <1>5, <3>1 DEF Commit, CommitUnacknowledged
    <2>6. QED
      BY <2>3, <2>4, <2>5
  <1>6. ASSUME NEW w \in Workers, WorkFails(w)
        PROVE  TypeOK'
    <2>1. [job[w] EXCEPT !.pc = "failed"] \in Job
      BY <1>6, JobShapes DEF WorkFails, Holding
    <2>2. QED
      BY <1>6, <2>1 DEF WorkFails
  <1>7. ASSUME NEW w \in Workers, Release(w) \/ ReleaseLost(w) \/ Crash(w)
        PROVE  TypeOK'
    BY <1>7 DEF Release, ReleaseLost, Crash
  <1>8. ASSUME NEW s \in Scopes, OperatorExpires(s)
        PROVE  TypeOK'
    BY <1>8 DEF OperatorExpires
  <1>9. CASE UNCHANGED vars
    BY <1>9 DEF vars
  <1>10. QED
    BY <1>1, <1>2, <1>3, <1>4, <1>5, <1>6, <1>7, <1>8, <1>9 DEF Next, Step

-----------------------------------------------------------------------------
(* A step that touches neither the table nor the executions, and after     *)
(* which no request holds a claim it did not hold before, keeps IInv.      *)
LEMMA JobOnlyStep ==
    ASSUME IInv, TypeOK', UNCHANGED <<rows, committed>>, answers' \subseteq committed,
           \A w \in Workers : Holding(w)' =>
               /\ Holding(w)
               /\ job'[w].scope = job[w].scope
               /\ job'[w].hash = job[w].hash
               /\ job'[w].claim = job[w].claim
    PROVE  IInv'
  BY DEF IInv, RowsUnique, ClaimsExclusive, HeldClaimIsPending,
         CommittedStaysRecorded, CompletedIsCommitted, AnswersAreCommitted

(* Claiming a scope with a fresh primary key. *)
LEMMA ClaimStep ==
    ASSUME IInv, TypeOK', NEW w \in Workers, Claim(w)
    PROVE  IInv'
  <1> DEFINE s == job[w].scope
             b == job[w].hash
  <1>1. PICK id \in FreshIds :
           /\ rows' = rows \cup {[id |-> id, scope |-> s, hash |-> b,
                                  status |-> "PENDING"]}
           /\ job' = [job EXCEPT ![w] = [pc |-> "claimed", scope |-> s,
                                         hash |-> b, claim |-> id]]
    BY DEF Claim
  <1>2. /\ id \in ClaimIds
        /\ \A r \in rows : r.id # id
        /\ \A c \in committed : c.claim # id
        /\ \A v \in Workers : Holding(v) => job[v].claim # id
    BY DEF FreshIds
  <1>3. \A r \in rows : r.scope # s
    BY DEF Claim, RowsOf
  <1>4. UNCHANGED <<committed, answers>>
    BY DEF Claim
  <1>5. \A v \in Workers :
           /\ v # w => job'[v] = job[v]
           /\ v = w => job'[v] = [pc |-> "claimed", scope |-> s, hash |-> b,
                                  claim |-> id]
    BY <1>1 DEF IInv, TypeOK
  <1> HIDE DEF s, b
  <1>6. RowsUnique'
    BY <1>1, <1>2, <1>3 DEF IInv, RowsUnique
  <1>7. ClaimsExclusive'
    BY <1>2, <1>5 DEF IInv, ClaimsExclusive, Holding
  <1>8. HeldClaimIsPending'
    <2> SUFFICES ASSUME NEW v \in Workers, Holding(v)'
                 PROVE  /\ \A r \in rows' : r.id = job'[v].claim =>
                             r = [id |-> job'[v].claim, scope |-> job'[v].scope,
                                  hash |-> job'[v].hash, status |-> "PENDING"]
                        /\ \A c \in committed' : c.claim # job'[v].claim
      BY DEF HeldClaimIsPending
    <2>1. CASE v = w
      BY <2>1, <1>1, <1>2, <1>4, <1>5
    <2>2. CASE v # w
      <3>1. Holding(v) /\ job'[v] = job[v]
        BY <2>2, <1>5 DEF Holding
      <3>2. QED
        BY <3>1, <1>1, <1>2, <1>4 DEF IInv, HeldClaimIsPending
    <2>3. QED
      BY <2>1, <2>2
  <1>9. CommittedStaysRecorded'
    BY <1>1, <1>4 DEF IInv, CommittedStaysRecorded
  <1>10. CompletedIsCommitted'
    BY <1>1, <1>4 DEF IInv, CompletedIsCommitted
  <1>11. AnswersAreCommitted'
    BY <1>4 DEF IInv, AnswersAreCommitted
  <1>12. QED
    BY <1>6, <1>7, <1>8, <1>9, <1>10, <1>11 DEF IInv

(* Completing the claimed row together with the work. *)
LEMMA CommitStep ==
    ASSUME IInv, TypeOK', NEW w \in Workers, Commit(w)
    PROVE  IInv'
  <1> DEFINE e == [scope |-> job[w].scope, hash |-> job[w].hash,
                   claim |-> job[w].claim]
             p == [id |-> job[w].claim, scope |-> job[w].scope,
                   hash |-> job[w].hash, status |-> "PENDING"]
             q == [id |-> job[w].claim, scope |-> job[w].scope,
                   hash |-> job[w].hash, status |-> "COMPLETED"]
  <1>1. Holding(w)
    BY DEF Commit, CommitWork, Holding
  <1>2. PICK r \in rows : /\ r.id = job[w].claim
                          /\ rows' = (rows \ {r}) \cup
                                       {[r EXCEPT !.status = "COMPLETED"]}
    BY DEF Commit, CommitWork
  <1>3. r = p
    BY <1>1, <1>2 DEF IInv, HeldClaimIsPending
  <1>4. /\ p \in rows
        /\ rows' = (rows \ {p}) \cup {q}
    BY <1>2, <1>3
  <1>5. /\ committed' = committed \cup {e}
        /\ answers' = answers \cup {e}
    BY DEF Commit, CommitWork
  <1>6. \A v \in Workers :
           /\ v # w => job'[v] = job[v]
           /\ v = w => job'[v] = Idle
    BY DEF Commit, IInv, TypeOK
  <1>7. /\ \A x \in rows : x.id = p.id => x = p
        /\ \A x \in rows : x.scope = p.scope => x = p
    BY <1>4 DEF IInv, RowsUnique
  <1>8. RowsUnique'
    BY <1>4, <1>7 DEF IInv, RowsUnique
  <1>9. ClaimsExclusive'
    BY <1>6 DEF IInv, ClaimsExclusive, Holding, Idle
  <1>10. HeldClaimIsPending'
    <2> SUFFICES ASSUME NEW v \in Workers, Holding(v)'
                 PROVE  /\ \A x \in rows' : x.id = job'[v].claim =>
                             x = [id |-> job'[v].claim, scope |-> job'[v].scope,
                                  hash |-> job'[v].hash, status |-> "PENDING"]
                        /\ \A c \in committed' : c.claim # job'[v].claim
      BY DEF HeldClaimIsPending
    <2>1. v # w /\ Holding(v) /\ job'[v] = job[v]
      BY <1>6 DEF Holding, Idle
    <2>2. job[v].claim # job[w].claim
      BY <2>1, <1>1 DEF IInv, ClaimsExclusive
    <2>3. QED
      BY <2>1, <2>2, <1>4, <1>5 DEF IInv, HeldClaimIsPending
  <1>11. CommittedStaysRecorded'
    <2> SUFFICES ASSUME NEW c \in committed'
                 PROVE  [id |-> c.claim, scope |-> c.scope, hash |-> c.hash,
                         status |-> "COMPLETED"] \in rows'
      BY DEF CommittedStaysRecorded
    <2>1. CASE c = e
      BY <2>1, <1>4
    <2>2. CASE c \in committed
      <3>1. [id |-> c.claim, scope |-> c.scope, hash |-> c.hash,
             status |-> "COMPLETED"] \in rows
        BY <2>2 DEF IInv, CommittedStaysRecorded
      <3>2. QED
        BY <3>1, <1>4
    <2>3. QED
      BY <2>1, <2>2, <1>5
  <1>12. CompletedIsCommitted'
    BY <1>4, <1>5 DEF IInv, CompletedIsCommitted
  <1>13. AnswersAreCommitted'
    BY <1>5 DEF IInv, AnswersAreCommitted
  <1>14. QED
    BY <1>8, <1>9, <1>10, <1>11, <1>12, <1>13 DEF IInv

(* Deleting rows that are not completed. *)
LEMMA DeleteStep ==
    ASSUME IInv, TypeOK', rows' \subseteq rows,
           \A r \in rows \ rows' : r.status # "COMPLETED",
           UNCHANGED <<committed, answers>>,
           \A v \in Workers : Holding(v)' => Holding(v) /\ job'[v] = job[v]
    PROVE  IInv'
  <1>1. RowsUnique' /\ ClaimsExclusive' /\ HeldClaimIsPending'
    BY DEF IInv, RowsUnique, ClaimsExclusive, HeldClaimIsPending
  <1>2. CommittedStaysRecorded'
    <2> SUFFICES ASSUME NEW c \in committed
                 PROVE  [id |-> c.claim, scope |-> c.scope, hash |-> c.hash,
                         status |-> "COMPLETED"] \in rows'
      BY DEF CommittedStaysRecorded
    <2> DEFINE q == [id |-> c.claim, scope |-> c.scope, hash |-> c.hash,
                     status |-> "COMPLETED"]
    <2>1. q \in rows /\ q.status = "COMPLETED"
      BY DEF IInv, CommittedStaysRecorded
    <2>2. QED
      BY <2>1
  <1>3. CompletedIsCommitted' /\ AnswersAreCommitted'
    BY DEF IInv, CompletedIsCommitted, AnswersAreCommitted
  <1>4. QED
    BY <1>1, <1>2, <1>3 DEF IInv

-----------------------------------------------------------------------------
(* No request, crash, lost release or expiry breaks the invariant. *)
LEMMA IInvPreserved ==
    ASSUME "ACK_LOST" \notin Faults, IInv, [Next]_vars
    PROVE  IInv'
  <1>1. TypeOK'
    BY TypePreserved DEF IInv
  <1>2. job \in [Workers -> Job]
    BY DEF IInv, TypeOK
  <1>3. ASSUME NEW w \in Workers, NEW s \in Scopes, NEW b \in Bodies,
               LookupMiss(w, s, b)
        PROVE  IInv'
    BY <1>1, <1>2, <1>3, JobOnlyStep
       DEF LookupMiss, Holding, IInv, AnswersAreCommitted
  <1>4. ASSUME NEW w \in Workers, NEW s \in Scopes, NEW b \in Bodies,
               LookupReplay(w, s, b)
        PROVE  IInv'
    <2>1. answers' \subseteq committed
      BY <1>4 DEF LookupReplay, RowsOf, IInv, CompletedIsCommitted,
                  AnswersAreCommitted
    <2>2. QED
      BY <1>1, <1>4, <2>1, JobOnlyStep DEF LookupReplay, Holding
  <1>5. ASSUME NEW w \in Workers, Claim(w)
        PROVE  IInv'
    BY <1>1, <1>5, ClaimStep
  <1>6. ASSUME NEW w \in Workers, Commit(w)
        PROVE  IInv'
    BY <1>1, <1>6, CommitStep
  <1>7. ASSUME NEW w \in Workers,
               ClaimRefused(w) \/ WorkFails(w) \/ ReleaseLost(w) \/ Crash(w)
        PROVE  IInv'
    <2>1. /\ UNCHANGED <<rows, committed, answers>>
          /\ answers' \subseteq committed
      BY <1>7 DEF ClaimRefused, WorkFails, ReleaseLost, Crash, IInv,
                  AnswersAreCommitted
    <2>2. \A v \in Workers : Holding(v)' =>
             /\ Holding(v)
             /\ job'[v].scope = job[v].scope
             /\ job'[v].hash = job[v].hash
             /\ job'[v].claim = job[v].claim
      <3>1. CASE WorkFails(w)
        <4>1. /\ Holding(w)
              /\ job' = [job EXCEPT ![w].pc = "failed"]
          BY <3>1 DEF WorkFails, Holding
        <4>2. job[w] = [pc |-> job[w].pc, scope |-> job[w].scope,
                        hash |-> job[w].hash, claim |-> job[w].claim]
          BY <4>1, JobShapes DEF IInv
        <4>3. job'[w] = [pc |-> "failed", scope |-> job[w].scope,
                         hash |-> job[w].hash, claim |-> job[w].claim]
          BY <4>1, <4>2, <1>2
        <4>4. \A v \in Workers \ {w} : job'[v] = job[v]
          BY <4>1, <1>2
        <4>5. QED
          BY <4>1, <4>3, <4>4 DEF Holding
      <3>2. CASE ClaimRefused(w) \/ ReleaseLost(w) \/ Crash(w)
        <4>1. job' = [job EXCEPT ![w] = Idle]
          BY <3>2 DEF ClaimRefused, ReleaseLost, Crash
        <4>2. QED
          BY <4>1, <1>2 DEF Holding, Idle
      <3>3. QED
        BY <1>7, <3>1, <3>2
    <2>3. QED
      BY <1>1, <2>1, <2>2, JobOnlyStep
  <1>8. ASSUME NEW w \in Workers, Release(w)
        PROVE  IInv'
    <2>1. \A r \in rows \ rows' : r.status # "COMPLETED"
      BY <1>8 DEF Release, IInv, HeldClaimIsPending, Holding
    <2>2. \A v \in Workers : Holding(v)' => Holding(v) /\ job'[v] = job[v]
      BY <1>8, <1>2 DEF Release, Holding, Idle
    <2>3. QED
      BY <1>1, <1>8, <2>1, <2>2, DeleteStep DEF Release
  <1>9. ASSUME NEW s \in Scopes, OperatorExpires(s)
        PROVE  IInv'
    BY <1>1, <1>9, DeleteStep DEF OperatorExpires, Holding
  <1>10. CASE UNCHANGED vars
    BY <1>1, <1>10, JobOnlyStep DEF vars, Holding, IInv, AnswersAreCommitted
  <1>11. QED
    BY <1>3, <1>4, <1>5, <1>6, <1>7, <1>8, <1>9, <1>10
       DEF Next, Step, CommitUnacknowledged

(* The state of executeCommand stays well formed. *)
THEOREM TypeCorrect == Spec => []TypeOK
  <1>1. Init => TypeOK
    BY DEF Init, TypeOK, Job
  <1>2. TypeOK /\ [Next]_vars => TypeOK'
    BY TypePreserved
  <1>3. QED
    BY <1>1, <1>2, PTL DEF Spec

(* The inductive invariant holds in every reachable state. *)
LEMMA Inductive ==
    ASSUME "ACK_LOST" \notin Faults
    PROVE  Spec => []IInv
  <1>1. Init => IInv
    BY DEF Init, IInv, TypeOK, Job, RowsUnique, ClaimsExclusive, Holding, Idle,
           HeldClaimIsPending, CommittedStaysRecorded, CompletedIsCommitted,
           AnswersAreCommitted
  <1>2. IInv /\ [Next]_vars => IInv'
    BY IInvPreserved
  <1>3. QED
    BY <1>1, <1>2, PTL DEF Spec

(* No business row is duplicated by a retry: the work of a scope commits   *)
(* at most once, however many requests race, crash or are expired.         *)
THEOREM CommitsOnce ==
    ASSUME "ACK_LOST" \notin Faults
    PROVE  Spec => []WorkCommitsOnce
  <1>1. IInv => WorkCommitsOnce
    <2> SUFFICES ASSUME IInv, NEW c \in committed, NEW d \in committed,
                        c.scope = d.scope
                 PROVE  c = d
      BY DEF WorkCommitsOnce
    <2> DEFINE q(e) == [id |-> e.claim, scope |-> e.scope, hash |-> e.hash,
                        status |-> "COMPLETED"]
    <2>1. q(c) \in rows /\ q(d) \in rows
      BY DEF IInv, CommittedStaysRecorded
    <2>2. q(c).scope = q(d).scope
      OBVIOUS
    <2>3. q(c) = q(d)
      BY <2>1, <2>2 DEF IInv, RowsUnique
    <2>4. q(c).id = q(d).id /\ q(c).hash = q(d).hash
      BY <2>3
    <2>5. c \in Execution /\ d \in Execution
      BY DEF IInv, TypeOK
    <2>6. QED
      BY <2>4, <2>5 DEF Execution
  <1>2. QED
    BY <1>1, Inductive, PTL

(* A committed write and its completed row are never parted, and a client  *)
(* is only ever told of committed work.                                    *)
THEOREM RecordsAreFaithful ==
    ASSUME "ACK_LOST" \notin Faults
    PROVE  Spec => [](CommittedStaysRecorded /\ CompletedIsCommitted
                       /\ AnswersAreCommitted)
  <1>1. IInv => CommittedStaysRecorded /\ CompletedIsCommitted /\ AnswersAreCommitted
    BY DEF IInv
  <1>2. QED
    BY <1>1, Inductive, PTL

-----------------------------------------------------------------------------
(* The refinement mapping of KeepsPromise. *)
doneBar == {<<c.scope, c.hash>> : c \in committed}
answeredBar == {<<a.scope, a.hash>> : a \in answers}

(* A commit is the abstract Execute, told or untold to its caller. *)
LEMMA CommitExecutes ==
    ASSUME IInv, NEW w \in Workers, Commit(w)
    PROVE  \E s \in Scopes, b \in Bodies : Promise!Execute(s, b)
  <1> DEFINE s == job[w].scope
             b == job[w].hash
             e == [scope |-> s, hash |-> b, claim |-> job[w].claim]
  <1>1. /\ committed' = committed \cup {e}
        /\ answers' = answers \cup {e}
    BY DEF Commit, CommitWork
  <1>2. Holding(w) /\ s \in Scopes /\ b \in Bodies
    BY JobShapes DEF Commit, CommitWork, Holding, IInv
  <1>3. PICK r \in rows : r.id = job[w].claim
    BY DEF Commit, CommitWork
  <1>4. r.scope = s /\ r.status = "PENDING"
    BY <1>2, <1>3 DEF IInv, HeldClaimIsPending
  <1>5. \A c \in committed : c.scope # s
    <2> SUFFICES ASSUME NEW c \in committed, c.scope = s
                 PROVE  FALSE
      OBVIOUS
    <2> DEFINE q == [id |-> c.claim, scope |-> c.scope, hash |-> c.hash,
                     status |-> "COMPLETED"]
    <2>1. q \in rows /\ q.scope = r.scope /\ q.status = "COMPLETED"
      BY <1>4 DEF IInv, CommittedStaysRecorded
    <2>2. q = r
      BY <2>1 DEF IInv, RowsUnique
    <2>3. QED
      BY <2>1, <2>2, <1>4
  <1>6. e.scope = s /\ e.hash = b
    OBVIOUS
  <1> HIDE DEF s, b, e
  <1>7. \A d \in doneBar : d[1] # s
    BY <1>5 DEF doneBar
  <1>8. doneBar' = doneBar \cup {<<s, b>>}
    BY <1>1, <1>6 DEF doneBar
  <1>9. answeredBar' = answeredBar \cup {<<s, b>>}
    BY <1>1, <1>6 DEF answeredBar
  <1>10. Promise!Execute(s, b)
    BY <1>7, <1>8, <1>9 DEF Promise!Execute, doneBar, answeredBar
  <1>11. QED
    BY <1>2, <1>10 DEF Promise!Execute

(* executeCommand implements the promise of an idempotency key: every step *)
(* is the one execution of a scope, the replay of its outcome, or nothing  *)
(* a client or the business tables can see.                                *)
THEOREM ImplementsPromise ==
    ASSUME "ACK_LOST" \notin Faults
    PROVE  Spec => KeepsPromise
  <1>1. Init => Promise!Init
    BY DEF Init, Promise!Init
  <1>2. IInv /\ [Next]_vars => [Promise!Next]_(Promise!vars)
    <2> SUFFICES ASSUME IInv, [Next]_vars
                 PROVE  [Promise!Next]_(Promise!vars)
      OBVIOUS
    <2>1. ASSUME NEW w \in Workers, Commit(w)
          PROVE  Promise!Next
      BY <2>1, CommitExecutes DEF Promise!Next
    <2>2. ASSUME NEW w \in Workers, NEW s \in Scopes, NEW b \in Bodies,
                 LookupReplay(w, s, b)
          PROVE  Promise!Next
      <3>1. PICK r \in rows :
               /\ r.scope = s /\ r.hash = b /\ r.status = "COMPLETED"
               /\ answers' = answers \cup {[scope |-> s, hash |-> b, claim |-> r.id]}
        BY <2>2 DEF LookupReplay, RowsOf
      <3>2. [scope |-> s, hash |-> b, claim |-> r.id] \in committed
        BY <3>1 DEF IInv, CompletedIsCommitted
      <3>3. /\ <<s, b>> \in doneBar
            /\ answeredBar' = answeredBar \cup {<<s, b>>}
            /\ doneBar' = doneBar
        BY <3>1, <3>2, <2>2 DEF doneBar, answeredBar, LookupReplay
      <3>4. Promise!Answer(s, b)
        BY <3>3 DEF Promise!Answer, doneBar, answeredBar
      <3>5. QED
        BY <3>4 DEF Promise!Next
    <2>3. CASE UNCHANGED <<committed, answers>>
      BY <2>3 DEF Promise!vars
    <2>4. QED
      BY <2>1, <2>2, <2>3 DEF Next, Step, vars, LookupMiss, Claim, ClaimRefused,
         CommitUnacknowledged, WorkFails, Release, ReleaseLost, Crash,
         OperatorExpires
  <1>3. QED
    BY <1>1, <1>2, Inductive, PTL DEF Spec, KeepsPromise, Promise!Spec

-----------------------------------------------------------------------------
(* UPLOADS (SourceIntake).                                                 *)

(* While the files of an upload are stored, the artifacts are those of the *)
(* first of them, with the statuses the process remembers; once a call has *)
(* failed, that is on record.                                              *)
IntakeTyped ==
    /\ upload \in Seq(Intake!File)
    /\ stored \in Seq([name: Names, status: {"COMPLETED", "PARTIAL", "FAILED"}])
    /\ statuses \in Seq({"COMPLETED", "PARTIAL", "FAILED"})
    /\ failures \in Nat

(* The artifacts are those of the files, in their order.                   *)
StoredInOrder ==
    /\ Len(stored) = Len(statuses)
    /\ Len(stored) <= Len(upload)
    /\ \A k \in 1..Len(stored) :
         stored[k].name = upload[k].name /\ stored[k].status = statuses[k]

(* While the run is open its statuses are its artifacts'.                  *)
IntakeInv ==
    /\ IntakeTyped
    /\ at \in {"upload", "files"} => StoredInOrder
    /\ at \in {"upload", "files"} => run \in {"ABSENT", "RUNNING"}
    /\ at = "catch" => failures > 0
    /\ StatusTellsArtifacts

(* An upload that has not begun.                                           *)
LEMMA IntakeInitHolds == ASSUME Intake!Init PROVE IntakeInv
<1>1. PICK n \in 0..MaxArtifacts + 1 : upload \in [1..n -> Intake!File]
  BY DEF Intake!Init
<1>2. upload \in Seq(Intake!File)
  BY <1>1
<1> QED
  BY <1>2 DEF Intake!Init, IntakeInv, IntakeTyped, StoredInOrder,
     StatusTellsArtifacts, Intake!StatusTellsArtifacts

(* The file whose turn it is, and what its analysis can come to.           *)
LEMMA NextIsFile ==
    ASSUME IntakeTyped, Intake!Left, NEW outcome \in Intake!Outcomes(Intake!NextFile.type)
    PROVE  /\ outcome \in {"COMPLETED", "PARTIAL", "FAILED"}
           /\ Intake!WithArtifact(outcome)
                \in Seq([name: Names, status: {"COMPLETED", "PARTIAL", "FAILED"}])
<1>1. Len(statuses) + 1 \in 1..Len(upload)
  BY DEF IntakeTyped, Intake!Left
<1>2. Intake!NextFile \in Intake!File
  BY <1>1 DEF IntakeTyped, Intake!NextFile
<1>3. Intake!NextFile.name \in Names /\ Intake!NextFile.type \in {"WORKBOOK", "PDF", "OTHER"}
  BY <1>2 DEF Intake!File, Intake!Types
<1>4. outcome \in {"COMPLETED", "PARTIAL", "FAILED"}
  BY <1>3 DEF Intake!Outcomes
<1> QED
  BY <1>3, <1>4 DEF IntakeTyped, Intake!WithArtifact

(* Storing the artifact of a file.                                         *)
LEMMA StoresNext ==
    ASSUME IntakeTyped, StoredInOrder, Intake!Left,
           NEW outcome \in {"COMPLETED", "PARTIAL", "FAILED"},
           stored' = Intake!WithArtifact(outcome), upload' = upload,
           statuses' = Append(statuses, outcome)
    PROVE  StoredInOrder'
  BY DEF IntakeTyped, StoredInOrder, Intake!Left, Intake!WithArtifact, Intake!NextFile,
     Intake!File

(* What the statuses add up to tells the artifacts.                        *)
LEMMA StatusAddsUp ==
    ASSUME IntakeTyped, StoredInOrder, ~Intake!Left,
           run' = Intake!RunStatus, UNCHANGED <<upload, stored>>
    PROVE  StatusTellsArtifacts'
<1>1. Intake!Whole'
  BY DEF IntakeTyped, StoredInOrder, Intake!Left, Intake!Whole
<1>2. \A k \in 1..Len(stored) : stored'[k].status = statuses[k]
  BY DEF StoredInOrder
<1>3. \A k \in 1..Len(stored) : statuses[k] \in {"COMPLETED", "PARTIAL", "FAILED"}
  BY DEF StoredInOrder, IntakeTyped
<1>4. Len(statuses) = Len(stored') /\ Len(stored) = Len(stored')
  BY DEF StoredInOrder
<1>5. CASE Intake!Each("FAILED")
  <2>1. run' = "FAILED"
    BY <1>5 DEF Intake!RunStatus
  <2> QED BY <2>1, <1>1, <1>2, <1>4, <1>5 DEF Intake!Each, StatusTellsArtifacts,
          Intake!StatusTellsArtifacts, Intake!Some
<1>6. CASE ~Intake!Each("FAILED") /\ Intake!Each("COMPLETED")
  <2>1. run' = "COMPLETED"
    BY <1>6 DEF Intake!RunStatus
  <2> QED BY <2>1, <1>1, <1>2, <1>4, <1>6 DEF Intake!Each, StatusTellsArtifacts,
          Intake!StatusTellsArtifacts, Intake!Some
<1>7. CASE ~Intake!Each("FAILED") /\ ~Intake!Each("COMPLETED")
  <2>1. run' = "PARTIAL"
    BY <1>7 DEF Intake!RunStatus
  <2> QED BY <2>1, <1>1, <1>2, <1>3, <1>4, <1>7 DEF Intake!Each, StatusTellsArtifacts,
          Intake!StatusTellsArtifacts, Intake!Some
<1> QED
  BY <1>5, <1>6, <1>7

(* Every step of the upload keeps them.                                    *)
LEMMA IntakeStep ==
    ASSUME IntakeInv, [Intake!Next]_intakeVars
    PROVE  IntakeInv'
<1> USE DEF Intake!Goto
<1>1. ASSUME Intake!Refuse PROVE IntakeInv'
  BY <1>1 DEF Intake!Refuse, IntakeInv, IntakeTyped, StatusTellsArtifacts,
     Intake!StatusTellsArtifacts, Intake!Whole, Intake!Some
<1>2. ASSUME Intake!Create PROVE IntakeInv'
  BY <1>2 DEF Intake!Create, IntakeInv, IntakeTyped, StoredInOrder, StatusTellsArtifacts,
     Intake!StatusTellsArtifacts
<1>3. ASSUME Intake!CreateFails PROVE IntakeInv'
  BY <1>3 DEF Intake!CreateFails, Intake!Fails, IntakeInv, IntakeTyped, StoredInOrder,
     StatusTellsArtifacts, Intake!StatusTellsArtifacts
<1>4. ASSUME Intake!Store PROVE IntakeInv'
  <2>1. PICK outcome \in Intake!Outcomes(Intake!NextFile.type) :
           stored' = Intake!WithArtifact(outcome) /\ statuses' = Append(statuses, outcome)
    BY <1>4 DEF Intake!Store
  <2>2. outcome \in {"COMPLETED", "PARTIAL", "FAILED"}
    BY <1>4, NextIsFile DEF Intake!Store, IntakeInv
  <2>3. IntakeTyped'
    <3>1. Intake!WithArtifact(outcome)
            \in Seq([name: Names, status: {"COMPLETED", "PARTIAL", "FAILED"}])
      BY <1>4, NextIsFile DEF Intake!Store, IntakeInv
    <3> QED BY <1>4, <2>1, <2>2, <3>1 DEF IntakeInv, IntakeTyped, Intake!Store
  <2>4. StoredInOrder'
    BY <1>4, <2>1, <2>2, StoresNext DEF IntakeInv, Intake!Store
  <2> QED BY <1>4, <2>3, <2>4 DEF Intake!Store, IntakeInv, StatusTellsArtifacts,
          Intake!StatusTellsArtifacts
<1>5. ASSUME Intake!StoreFails PROVE IntakeInv'
  <2>1. stored' \in Seq([name: Names, status: {"COMPLETED", "PARTIAL", "FAILED"}])
    <3>1. CASE UNCHANGED stored
      BY <3>1 DEF IntakeInv, IntakeTyped
    <3>2. ASSUME NEW outcome \in Intake!Outcomes(Intake!NextFile.type),
                 stored' = Intake!WithArtifact(outcome)
          PROVE  stored' \in Seq([name: Names, status: {"COMPLETED", "PARTIAL", "FAILED"}])
      BY <1>5, <3>2, NextIsFile DEF Intake!StoreFails, IntakeInv
    <3> QED BY <1>5, <3>1, <3>2 DEF Intake!StoreFails
  <2> QED BY <1>5, <2>1 DEF Intake!StoreFails, Intake!Fails, IntakeInv, IntakeTyped,
          StatusTellsArtifacts, Intake!StatusTellsArtifacts
<1>6. ASSUME Intake!Complete \/ Intake!CompleteFails PROVE IntakeInv'
  <2>1. /\ run' \in {run, Intake!RunStatus} /\ ~Intake!Left
        /\ UNCHANGED <<upload, stored, statuses>>
        /\ at = "files" /\ at' \in {"answered", "catch"}
        /\ failures' \in {failures, failures + 1}
        /\ at' = "catch" => failures' > 0
        /\ run' = run => at' = "catch" \/ run = Intake!RunStatus
    BY <1>6 DEF Intake!Complete, Intake!CompleteFails, Intake!Fails, IntakeInv, IntakeTyped
  <2>2. IntakeTyped'
    BY <2>1 DEF IntakeInv, IntakeTyped
  <2>3. StatusTellsArtifacts'
    <3>1. CASE run' = Intake!RunStatus
      BY <2>1, <3>1, StatusAddsUp DEF IntakeInv
    <3>2. CASE run' = run
      BY <2>1, <3>2 DEF IntakeInv, StatusTellsArtifacts, Intake!StatusTellsArtifacts
    <3> QED BY <2>1, <3>1, <3>2
  <2> QED BY <2>1, <2>2, <2>3 DEF IntakeInv
<1>7. ASSUME Intake!Catch \/ Intake!CatchFails PROVE IntakeInv'
  <2>1. /\ run' \in {run, "FAILED"} /\ UNCHANGED <<upload, stored, statuses>>
        /\ at = "catch" /\ at' = "error" /\ failures' \in {failures, failures + 1}
    BY <1>7 DEF Intake!Catch, Intake!CatchFails, Intake!Fails
  <2> QED BY <2>1 DEF IntakeInv, IntakeTyped, StatusTellsArtifacts,
          Intake!StatusTellsArtifacts, Intake!Whole, Intake!Some
<1>8. ASSUME Intake!Stop \/ UNCHANGED intakeVars PROVE IntakeInv'
  BY <1>8 DEF Intake!Stop, intakeVars, IntakeInv, IntakeTyped, StoredInOrder,
     StatusTellsArtifacts, Intake!StatusTellsArtifacts, Intake!Whole, Intake!Some
<1> QED
  BY <1>1, <1>2, <1>3, <1>4, <1>5, <1>6, <1>7, <1>8 DEF Intake!Next, Intake!Work

(* For any upload: the status of a run tells what its artifacts are,       *)
(* whichever calls fail, lose their answer or are the last.                *)
THEOREM RunsTellArtifacts == Intake!Spec => []StatusTellsArtifacts
<1>1. intakeVars = Intake!vars
  BY DEF intakeVars, Intake!vars
<1>2. IntakeInv => StatusTellsArtifacts
  BY DEF IntakeInv
<1>3. Intake!Init => IntakeInv
  BY IntakeInitHolds
<1>4. IntakeInv /\ [Intake!Next]_(Intake!vars) => IntakeInv'
  BY IntakeStep DEF intakeVars, Intake!vars
<1> QED
  BY <1>2, <1>3, <1>4, PTL DEF Intake!Spec

-----------------------------------------------------------------------------
(* CACHES (EntityCache).                                                   *)

(* A request is running; it reads, or it writes.                           *)
Busy(j) == call[j] # Cached!Idle
Fetching(j) == Busy(j) /\ call[j].op \in {"get", "list"}
Writing(j) == Busy(j) /\ call[j].op \in {"create", "update", "remove"}

CacheTyped ==
    /\ entity \in [Kinds -> Nat] /\ entities \in [Kinds -> Nat]
    /\ cache \in [Cached!Keys -> {Cached!NoEntry} \cup Cached!Entry]
    /\ connected \in BOOLEAN
    /\ call \in [Pair -> {Cached!Idle} \cup Cached!Reading \cup Cached!Writing]
    /\ unsteady \in BOOLEAN

Wrapped(key, n) == cache[key] # Cached!NoEntry => cache[key].wraps = n
(* What a request caches has the envelopes of its key, but for workspaces. *)
WrapsFit ==
    /\ \A kind \in Kinds :
         /\ Wrapped(Cached!ListKey(kind), 1)
         /\ Wrapped(<<kind, "byId:full">>, 0)
         /\ kind # "workspace" => Wrapped(Cached!AnswerKey(kind), 1)
    /\ \A j \in Pair : Fetching(j) =>
         call[j].wraps = 0 \/ (call[j].kind = "workspace" /\ call[j].op = "get"
                               /\ call[j].at = "answer")

(* The part that needs no peace.                                           *)
CacheInv == CacheTyped /\ WrapsFit

(* Requests that have not overlapped: one at most is running.              *)
OneAtATime == \A i, j \in Pair : Busy(i) /\ Busy(j) => i = j

(* What the request that runs has yet to sweep.                            *)
Owes(j, key) ==
    /\ Writing(j) /\ call[j].at # "write"
    /\ call[j].op = "create" => key = Cached!ListKey(call[j].kind)
    /\ call[j].at = "sweepRow" => key # Cached!ListKey(call[j].kind)
(* What no request has yet to sweep is current.                            *)
OwedOrCurrent ==
    \A kind \in Kinds : \A key \in Cached!Swept(kind) :
       Cached!Current(key) \/ \E j \in Pair : Owes(j, key) /\ call[j].kind = kind

(* What a request that reads has read is so.                               *)
FetchedIsCurrent ==
    \A j \in Pair : Fetching(j) =>
       /\ call[j].caching = connected
       /\ call[j].op = "get" /\ call[j].at \in {"fill", "answer"} =>
            call[j].of = entity[call[j].kind]
       /\ call[j].op = "list" /\ call[j].at = "answer" =>
            call[j].of = entities[call[j].kind]

(* The key a workspace shares: the row is only there until the answer is.  *)
SharedKeyFits ==
    "workspace" \in Kinds =>
       LET key == Cached!AnswerKey("workspace") IN
       /\ \A j \in Pair : Fetching(j) /\ call[j].kind = "workspace" /\ call[j].op = "get" =>
            /\ call[j].wraps = 0
            /\ call[j].at \in {"row", "fetch", "fill"} => ~Cached!Hit(key)
            /\ call[j].at = "fill" => call[j].of # Cached!Gone
       /\ \/ Wrapped(key, 1)
          \/ \E j \in Pair :
               /\ Fetching(j) /\ call[j].kind = "workspace" /\ call[j].op = "get"
               /\ call[j].at = "answer" /\ call[j].of # Cached!Gone /\ call[j].caching

(* The part that holds while no two requests overlap.                      *)
CacheSerial ==
    ~unsteady => OneAtATime /\ OwedOrCurrent /\ FetchedIsCurrent /\ SharedKeyFits

(* The keys, one by one.                                                   *)
TheKeys ==
    Cached!Keys = {<<k, what>> : k \in Kinds, what \in {"list", "byId", "byId:full"}}
LEMMA KeysAre == TheKeys
  BY DEF TheKeys, Cached!Keys, Cached!ListKey, Cached!AnswerKey

(* What a sweep covers are keys, and of one kind.                          *)
LEMMA KeyFacts ==
    ASSUME NEW kind \in Kinds
    PROVE  /\ Cached!ListKey(kind) \in Cached!Keys /\ Cached!AnswerKey(kind) \in Cached!Keys
           /\ <<kind, "byId:full">> \in Cached!Keys /\ Cached!RowKey(kind) \in Cached!Keys
           /\ Cached!Swept(kind) \subseteq Cached!Keys
           /\ Cached!RowKey(kind) \in Cached!Swept(kind)
           /\ Cached!VersionOf(Cached!ListKey(kind)) = entities[kind]
           /\ Cached!VersionOf(Cached!RowKey(kind)) = entity[kind]
           /\ Cached!VersionOf(Cached!AnswerKey(kind)) = entity[kind]
           /\ Cached!VersionOf(<<kind, "byId:full">>) = entity[kind]
           /\ Cached!ListKey(kind) \in Cached!Swept(kind)
  BY DEF Cached!Keys, Cached!ListKey, Cached!AnswerKey, Cached!RowKey, Cached!Swept,
     Cached!VersionOf

(* The keys of a kind differ from one another.                             *)
LEMMA KeysDiffer ==
    ASSUME NEW k \in Kinds, NEW q \in Kinds
    PROVE  /\ Cached!ListKey(k) # Cached!AnswerKey(q) /\ Cached!ListKey(k) # <<q, "byId:full">>
           /\ Cached!AnswerKey(k) # <<q, "byId:full">>
           /\ Cached!ListKey(k) = Cached!ListKey(q) => k = q
           /\ Cached!AnswerKey(k) = Cached!AnswerKey(q) => k = q
           /\ <<k, "byId:full">> = <<q, "byId:full">> => k = q
           /\ Cached!RowKey(k) = IF k = "workspace" THEN Cached!AnswerKey(k)
                                 ELSE <<k, "byId:full">>
  BY DEF Cached!ListKey, Cached!AnswerKey, Cached!RowKey

(* The fields of a request.                                                *)
LEMMA CallFacts ==
    ASSUME CacheTyped, NEW j \in Pair, Busy(j)
    PROVE  /\ call[j].kind \in Kinds
           /\ call[j].op \in {"get", "list"} =>
                /\ call[j] \in Cached!Reading /\ Fetching(j) /\ ~Writing(j)
                /\ call[j].at \in {"row", "fetch", "fill", "answer"}
                /\ call[j].caching \in BOOLEAN /\ call[j].wraps \in Nat /\ call[j].of \in Nat
           /\ call[j].op \in {"create", "update", "remove"} =>
                /\ call[j] \in Cached!Writing /\ Writing(j) /\ ~Fetching(j)
                /\ call[j].at \in {"write", "sweepList", "sweepRow"}
           /\ call[j].op \in {"get", "list", "create", "update", "remove"}
<1>1. call[j] \in Cached!Reading \cup Cached!Writing
  BY DEF CacheTyped, Busy
<1>2. CASE call[j] \in Cached!Reading
  BY <1>2 DEF Cached!Reading, Fetching, Writing, Busy
<1>3. CASE call[j] \in Cached!Writing
  BY <1>3 DEF Cached!Writing, Fetching, Writing, Busy
<1> QED
  BY <1>1, <1>2, <1>3

(* Empty caches, idle requests.                                            *)
LEMMA CacheInit == ASSUME Cached!Init PROVE CacheInv /\ CacheSerial
<1>1. CacheTyped
  BY DEF Cached!Init, CacheTyped
<1>2. \A key \in Cached!Keys : cache[key] = Cached!NoEntry
  BY DEF Cached!Init
<1>3. \A j \in Pair : ~Busy(j)
  BY DEF Cached!Init, Busy
<1>4. WrapsFit
  BY <1>2, <1>3, KeyFacts DEF WrapsFit, Wrapped, Fetching
<1>5. OwedOrCurrent
  BY <1>2, KeyFacts DEF OwedOrCurrent, Cached!Current
<1> QED
  BY <1>1, <1>2, <1>3, <1>4, <1>5, KeyFacts DEF CacheInv, CacheSerial, OneAtATime,
     FetchedIsCurrent, SharedKeyFits, Fetching, Wrapped

(* Caching a value at a key, and dropping what keys hold.                  *)
LEMMA PutFits ==
    ASSUME CacheTyped, NEW key \in Cached!Keys, NEW n \in Nat, NEW of \in Nat
    PROVE  /\ Cached!Put(key, n, of) \in [Cached!Keys -> {Cached!NoEntry} \cup Cached!Entry]
           /\ \A k \in Cached!Keys \ {key} : Cached!Put(key, n, of)[k] = cache[k]
           /\ connected => Cached!Put(key, n, of)[key] = [wraps |-> n, of |-> of, expires |-> TRUE]
           /\ ~connected => Cached!Put(key, n, of) = cache
  BY DEF Cached!Put, Cached!Entry, CacheTyped
(* A Set writes its key.                                                   *)
LEMMA PutsOnly ==
    ASSUME CacheTyped, NEW key \in Cached!Keys, NEW n \in Nat, NEW of \in Nat,
           cache' = Cached!Put(key, n, of)
    PROVE  /\ \A k \in Cached!Keys \ {key} : cache'[k] = cache[k]
           /\ \/ cache'[key] = cache[key]
              \/ cache'[key].wraps = n /\ cache'[key].of = of
           /\ connected => cache'[key].wraps = n /\ cache'[key].of = of
           /\ ~connected => cache' = cache
<1>1. CASE connected
  <2>1. cache' = [cache EXCEPT ![key] = [wraps |-> n, of |-> of, expires |-> TRUE]]
    BY <1>1 DEF Cached!Put
  <2> QED BY <1>1, <2>1 DEF CacheTyped
<1>2. CASE ~connected
  BY <1>2 DEF Cached!Put
<1> QED
  BY <1>1, <1>2
(* A Del empties keys.                                                     *)
LEMMA DeleteFits ==
    ASSUME CacheTyped, NEW keys
    PROVE  /\ Cached!Delete(keys) \in [Cached!Keys -> {Cached!NoEntry} \cup Cached!Entry]
           /\ \A k \in Cached!Keys : Cached!Delete(keys)[k] \in {cache[k], Cached!NoEntry}
           /\ connected => \A k \in Cached!Keys :
                Cached!Delete(keys)[k] = IF k \in keys THEN Cached!NoEntry ELSE cache[k]
           /\ ~connected => Cached!Delete(keys) = cache
  BY DEF Cached!Delete, Cached!Entry, CacheTyped

(* What a request is when it arrives.                                      *)
Came(asked, j, kind) ==
    /\ Cached!Arrive(j, asked) /\ asked # Cached!Idle /\ asked.kind = kind
    /\ UNCHANGED <<entity, entities, cache, connected>>
    /\ \/ /\ asked.op \in {"get", "list"} /\ asked.wraps = 0
          /\ asked.caching = connected /\ asked.at \in {"row", "fetch"}
          /\ asked.op = "get" => ~Cached!Hit(Cached!AnswerKey(kind))
          /\ asked.op = "list" => asked.at = "fetch"
       \/ asked.op \in {"create", "update", "remove"} /\ asked.at = "write"
(* A request that arrives has read nothing and written nothing.            *)
LEMMA Arrives ==
    ASSUME CacheTyped, NEW j \in Pair, NEW kind \in Kinds,
           Cached!Routes(j, kind) \/ Cached!Remove(j, kind)
    PROVE  \E asked \in Cached!Reading \cup Cached!Writing : Came(asked, j, kind)
<1> DEFINE Goal == \E asked \in Cached!Reading \cup Cached!Writing : Came(asked, j, kind)
<1>1. ASSUME Cached!Get(j, kind) PROVE Goal
  <2> DEFINE got == [op |-> "get", kind |-> kind,
                     at |-> IF Cached!KeepsRow(kind) THEN "row" ELSE "fetch",
                     caching |-> connected, wraps |-> 0, of |-> Cached!Gone]
  <2>1. got \in Cached!Reading
    BY DEF Cached!Reading, Cached!Gone, CacheTyped
  <2>2. Cached!Arrive(j, got) /\ ~Cached!Hit(Cached!AnswerKey(kind))
        /\ UNCHANGED <<entity, entities, cache, connected>>
    BY <1>1 DEF Cached!Get
  <2>3. got # Cached!Idle /\ got.kind = kind /\ got.op = "get" /\ got.wraps = 0
        /\ got.caching = connected /\ got.at \in {"row", "fetch"}
    BY DEF Cached!Idle
  <2> HIDE DEF got
  <2> QED BY <2>1, <2>2, <2>3 DEF Came
<1>2. ASSUME Cached!List(j, kind) PROVE Goal
  <2> DEFINE got == [op |-> "list", kind |-> kind, at |-> "fetch",
                     caching |-> connected, wraps |-> 0, of |-> Cached!Gone]
  <2>1. got \in Cached!Reading
    BY DEF Cached!Reading, Cached!Gone, CacheTyped
  <2>2. Cached!Arrive(j, got) /\ UNCHANGED <<entity, entities, cache, connected>>
    BY <1>2 DEF Cached!List
  <2>3. got # Cached!Idle /\ got.kind = kind /\ got.op = "list" /\ got.wraps = 0
        /\ got.caching = connected /\ got.at = "fetch"
    BY DEF Cached!Idle
  <2> HIDE DEF got
  <2> QED BY <2>1, <2>2, <2>3 DEF Came
<1>3. ASSUME NEW op \in {"create", "update", "remove"}, Cached!Change(j, op, kind) PROVE Goal
  <2> DEFINE change == [op |-> op, kind |-> kind, at |-> "write"]
  <2>1. change \in Cached!Writing
    BY DEF Cached!Writing
  <2>2. Cached!Arrive(j, change) /\ UNCHANGED <<entity, entities, cache, connected>>
    BY <1>3 DEF Cached!Change
  <2>3. change # Cached!Idle /\ change.kind = kind /\ change.op = op /\ change.at = "write"
    BY DEF Cached!Idle
  <2> HIDE DEF change
  <2> QED BY <2>1, <2>2, <2>3 DEF Came
<1> QED
  BY <1>1, <1>2, <1>3 DEF Cached!Routes, Cached!Create, Cached!Update, Cached!Remove

(* Every step keeps the types.                                             *)
LEMMA CacheTypedStep ==
    ASSUME CacheTyped, [Cached!Next]_cacheVars
    PROVE  CacheTyped'
<1>1. ASSUME NEW j \in Pair, NEW kind \in Kinds, Cached!Routes(j, kind) \/ Cached!Remove(j, kind)
      PROVE  CacheTyped'
  <2>1. PICK asked \in Cached!Reading \cup Cached!Writing : Came(asked, j, kind)
    BY <1>1, Arrives
  <2> QED BY <2>1 DEF Came, Cached!Arrive, CacheTyped
<1>2. ASSUME NEW j \in Pair, Cached!LookForRow(j) PROVE CacheTyped'
  <2>1. Busy(j) /\ call[j].op = "get"
    BY <1>2 DEF Cached!LookForRow, Cached!At, Busy
  <2>2. call[j] \in Cached!Reading /\ call[j].kind \in Kinds
    BY <2>1, CallFacts
  <2>3. Cached!Hit(Cached!RowKey(call[j].kind)) =>
           cache[Cached!RowKey(call[j].kind)] \in Cached!Entry
    BY <2>2, KeyFacts DEF CacheTyped, Cached!Hit
  <2> QED BY <1>2, <2>2, <2>3 DEF Cached!LookForRow, CacheTyped, Cached!Reading, Cached!Entry
<1>3. ASSUME NEW j \in Pair, Cached!Fetch(j) \/ Cached!FetchList(j) PROVE CacheTyped'
  <2>1. Busy(j) /\ call[j].op \in {"get", "list"}
    BY <1>3 DEF Cached!Fetch, Cached!FetchList, Cached!At, Busy
  <2>2. call[j] \in Cached!Reading /\ call[j].kind \in Kinds
    BY <2>1, CallFacts
  <2> QED BY <1>3, <2>2 DEF Cached!Fetch, Cached!FetchList, CacheTyped, Cached!Reading
<1>4. ASSUME NEW j \in Pair, Cached!Fill(j) PROVE CacheTyped'
  <2>1. Busy(j) /\ call[j].op = "get"
    BY <1>4 DEF Cached!Fill, Cached!At, Busy
  <2>2. call[j] \in Cached!Reading /\ call[j].kind \in Kinds
    BY <2>1, CallFacts
  <2>3. call[j].wraps \in Nat /\ call[j].of \in Nat
    BY <2>1, CallFacts
  <2>4. cache' \in [Cached!Keys -> {Cached!NoEntry} \cup Cached!Entry]
    BY <1>4, <2>2, <2>3, PutFits, KeyFacts DEF Cached!Fill
  <2> QED BY <1>4, <2>2, <2>4 DEF Cached!Fill, CacheTyped, Cached!Reading
<1>5. ASSUME NEW j \in Pair, Cached!Answer(j) PROVE CacheTyped'
  <2>1. Busy(j) /\ call[j].op \in {"get", "list"}
    BY <1>5 DEF Cached!Answer, Cached!At, Busy
  <2>2. call[j].wraps + 1 \in Nat /\ call[j].of \in Nat /\ call[j].kind \in Kinds
    BY <2>1, CallFacts
  <2>4. cache' \in [Cached!Keys -> {Cached!NoEntry} \cup Cached!Entry]
    BY <1>5, <2>2, PutFits, KeyFacts DEF Cached!Answer, CacheTyped
  <2> QED BY <1>5, <2>4 DEF Cached!Answer, Cached!Finish, CacheTyped
<1>6. ASSUME NEW j \in Pair,
             Cached!InsertRow(j) \/ Cached!UpdateRow(j) \/ Cached!MarkRow(j)
      PROVE  CacheTyped'
  <2>1. Busy(j) /\ call[j].op \in {"create", "update", "remove"}
    BY <1>6 DEF Cached!InsertRow, Cached!UpdateRow, Cached!MarkRow, Cached!At, Busy
  <2>2. call[j] \in Cached!Writing /\ call[j].kind \in Kinds
    BY <2>1, CallFacts
  <2>3. entity' \in [Kinds -> Nat] /\ entities' \in [Kinds -> Nat]
    BY <1>6, <2>2 DEF Cached!InsertRow, Cached!UpdateRow, Cached!MarkRow, Cached!Written,
       CacheTyped, Cached!Gone
  <2>4. call' \in [Pair -> {Cached!Idle} \cup Cached!Reading \cup Cached!Writing]
    BY <1>6, <2>2 DEF Cached!InsertRow, Cached!UpdateRow, Cached!MarkRow, Cached!Written,
       CacheTyped, Cached!Writing
  <2> QED BY <1>6, <2>3, <2>4 DEF Cached!InsertRow, Cached!UpdateRow, Cached!MarkRow,
          Cached!Written, CacheTyped
<1>7. ASSUME NEW j \in Pair, Cached!SweepList(j) \/ Cached!SweepRow(j) PROVE CacheTyped'
  <2>1. Busy(j) /\ call[j].op \in {"create", "update", "remove"}
    BY <1>7 DEF Cached!SweepList, Cached!SweepRow, Cached!At, Busy
  <2>2. call[j] \in Cached!Writing /\ call[j].kind \in Kinds
    BY <2>1, CallFacts
  <2>3. cache' \in [Cached!Keys -> {Cached!NoEntry} \cup Cached!Entry]
    BY <1>7, DeleteFits DEF Cached!SweepList, Cached!SweepRow
  <2>4. call' \in [Pair -> {Cached!Idle} \cup Cached!Reading \cup Cached!Writing]
    BY <1>7, <2>2 DEF Cached!SweepList, Cached!SweepRow, Cached!Finish, CacheTyped,
       Cached!Writing
  <2> QED BY <1>7, <2>3, <2>4 DEF Cached!SweepList, Cached!SweepRow, CacheTyped
<1>8. ASSUME NEW j \in Pair, Cached!Abort(j) PROVE CacheTyped'
  BY <1>8 DEF Cached!Abort, Cached!Finish, CacheTyped
<1>9. ASSUME Cached!Redis \/ UNCHANGED cacheVars PROVE CacheTyped'
  BY <1>9 DEF Cached!Redis, Cached!Connect, Cached!Disconnect, Cached!Expire, cacheVars,
     CacheTyped
<1> QED
  BY <1>1, <1>2, <1>3, <1>4, <1>5, <1>6, <1>7, <1>8, <1>9 DEF Cached!Next, Cached!Requests,
     Cached!EmployeeRoutes, Cached!ProductRoutes, Cached!WorkspaceRoutes, Cached!Reads,
     Cached!Writes

(* Where a job stands still or is done, only the cache matters.            *)
LEMMA EmptiedFits ==
    ASSUME CacheInv, NEW key \in Cached!Keys, cache'[key] \in {cache[key], Cached!NoEntry},
           NEW n, Wrapped(key, n)
    PROVE  Wrapped(key, n)'
  BY DEF Wrapped

(* Every step keeps the envelopes.                                         *)
LEMMA WrapsStep ==
    ASSUME CacheInv, [Cached!Next]_cacheVars
    PROVE  WrapsFit'
<1> USE DEF CacheInv
<1>a. ASSUME \A key \in Cached!Keys : cache'[key] \in {cache[key], Cached!NoEntry},
             \A j \in Pair : Fetching(j)' =>
               call'[j].wraps = 0 \/ (call'[j].kind = "workspace" /\ call'[j].op = "get"
                                      /\ call'[j].at = "answer")
      PROVE  WrapsFit'
  BY <1>a, EmptiedFits, KeyFacts DEF WrapsFit
<1>b. ASSUME NEW j \in Pair, \A i \in Pair \ {j} : call'[i] = call[i],
             Fetching(j)' =>
               call'[j].wraps = 0 \/ (call'[j].kind = "workspace" /\ call'[j].op = "get"
                                      /\ call'[j].at = "answer")
      PROVE  \A i \in Pair : Fetching(i)' =>
               call'[i].wraps = 0 \/ (call'[i].kind = "workspace" /\ call'[i].op = "get"
                                      /\ call'[i].at = "answer")
  BY <1>b DEF WrapsFit, Fetching, Busy
<1>1. ASSUME NEW j \in Pair, NEW kind \in Kinds, Cached!Routes(j, kind) \/ Cached!Remove(j, kind)
      PROVE  WrapsFit'
  <2>1. PICK asked \in Cached!Reading \cup Cached!Writing : Came(asked, j, kind)
    BY <1>1, Arrives
  <2>2. call' = [call EXCEPT ![j] = asked] /\ cache' = cache
    BY <2>1 DEF Came, Cached!Arrive
  <2>3. Fetching(j)' => call'[j].wraps = 0
    BY <2>1, <2>2 DEF Came, Fetching, Busy, CacheTyped
  <2> QED BY <2>2, <2>3, <1>a, <1>b DEF CacheTyped
<1>2. ASSUME NEW j \in Pair, Cached!LookForRow(j) PROVE WrapsFit'
  <2>1. Busy(j) /\ call[j].op = "get" /\ call[j].at = "row"
    BY <1>2 DEF Cached!LookForRow, Cached!At, Busy
  <2>2. call[j] \in Cached!Reading /\ call[j].kind \in Kinds /\ Fetching(j)
    BY <2>1, CallFacts
  <2>3. call[j].wraps = 0
    BY <2>1, <2>2 DEF WrapsFit
  <2>4. Cached!Hit(Cached!RowKey(call[j].kind)) /\ call[j].kind # "workspace" =>
           cache[Cached!RowKey(call[j].kind)].wraps = 0
    BY <2>2 DEF WrapsFit, Wrapped, Cached!Hit, Cached!RowKey
  <2>5. call'[j].wraps = 0 \/ (call'[j].kind = "workspace" /\ call'[j].op = "get"
                              /\ call'[j].at = "answer")
    BY <1>2, <2>1, <2>2, <2>3, <2>4 DEF Cached!LookForRow, CacheTyped, Cached!Reading
  <2>6. cache' = cache /\ \A i \in Pair \ {j} : call'[i] = call[i]
    BY <1>2 DEF Cached!LookForRow, CacheTyped
  <2> QED BY <2>5, <2>6, <1>a, <1>b
<1>3. ASSUME NEW j \in Pair, Cached!Fetch(j) \/ Cached!FetchList(j) PROVE WrapsFit'
  <2>1. Busy(j) /\ call[j].op \in {"get", "list"} /\ call[j].at = "fetch"
    BY <1>3 DEF Cached!Fetch, Cached!FetchList, Cached!At, Busy
  <2>2. call[j] \in Cached!Reading /\ call[j].kind \in Kinds /\ Fetching(j)
    BY <2>1, CallFacts
  <2>3. call[j].wraps = 0
    BY <2>1, <2>2 DEF WrapsFit
  <2>4. call'[j].wraps = 0
    BY <1>3, <2>2, <2>3 DEF Cached!Fetch, Cached!FetchList, CacheTyped, Cached!Reading
  <2>6. cache' = cache /\ \A i \in Pair \ {j} : call'[i] = call[i]
    BY <1>3 DEF Cached!Fetch, Cached!FetchList, CacheTyped
  <2> QED BY <2>4, <2>6, <1>a, <1>b
<1>4. ASSUME NEW j \in Pair, Cached!Fill(j) PROVE WrapsFit'
  <2>1. Busy(j) /\ call[j].op = "get" /\ call[j].at = "fill"
    BY <1>4 DEF Cached!Fill, Cached!At, Busy
  <2>2. call[j] \in Cached!Reading /\ call[j].kind \in Kinds /\ Fetching(j) /\ call[j].of \in Nat
    BY <2>1, CallFacts
  <2>3. call[j].wraps = 0
    BY <2>1, <2>2 DEF WrapsFit
  <2>4. cache' = Cached!Put(Cached!RowKey(call[j].kind), 0, call[j].of)
    BY <1>4, <2>3 DEF Cached!Fill
  <2>a. PICK at0 \in Cached!Keys, of \in Nat :
           at0 = Cached!RowKey(call[j].kind) /\ of = call[j].of
    BY <2>2, KeyFacts
  <2>b. cache' = Cached!Put(at0, 0, of)
    BY <2>4, <2>a
  <2>5. /\ \A key \in Cached!Keys \ {at0} : cache'[key] = cache[key]
        /\ cache'[at0] = cache[at0] \/ cache'[at0].wraps = 0
    BY <2>b, PutsOnly DEF CacheInv
  <2>c. PICK of0 \in Kinds : of0 = call[j].kind
    BY <2>2
  <2>d. at0 = Cached!RowKey(of0)
    BY <2>a, <2>c
  <2>6. call'[j].wraps = 0 /\ \A i \in Pair \ {j} : call'[i] = call[i]
    BY <1>4, <2>2, <2>3 DEF Cached!Fill, CacheTyped, Cached!Reading
  <2>7. \A i \in Pair : Fetching(i)' =>
           call'[i].wraps = 0 \/ (call'[i].kind = "workspace" /\ call'[i].op = "get"
                                  /\ call'[i].at = "answer")
    BY <2>6, <1>b
  <2>8. \A kind \in Kinds :
           /\ Wrapped(Cached!ListKey(kind), 1)'
           /\ Wrapped(<<kind, "byId:full">>, 0)'
           /\ kind # "workspace" => Wrapped(Cached!AnswerKey(kind), 1)'
    <3> SUFFICES ASSUME NEW kind \in Kinds
                 PROVE  /\ Wrapped(Cached!ListKey(kind), 1)'
                        /\ Wrapped(<<kind, "byId:full">>, 0)'
                        /\ kind # "workspace" => Wrapped(Cached!AnswerKey(kind), 1)'
      OBVIOUS
    <3>1. Cached!ListKey(kind) # at0 /\ (kind # "workspace" => Cached!AnswerKey(kind) # at0)
      BY <2>d, KeysDiffer
    <3>2. /\ Wrapped(Cached!ListKey(kind), 1) /\ Wrapped(<<kind, "byId:full">>, 0)
          /\ kind # "workspace" => Wrapped(Cached!AnswerKey(kind), 1)
      BY DEF WrapsFit
    <3>3. /\ Cached!ListKey(kind) \in Cached!Keys /\ Cached!AnswerKey(kind) \in Cached!Keys
          /\ <<kind, "byId:full">> \in Cached!Keys
      BY KeyFacts
    <3> QED BY <2>5, <3>1, <3>2, <3>3 DEF Wrapped
  <2> QED BY <2>7, <2>8 DEF WrapsFit
<1>5. ASSUME NEW j \in Pair, Cached!Answer(j) PROVE WrapsFit'
  <2>1. Busy(j) /\ call[j].op \in {"get", "list"} /\ call[j].at = "answer"
    BY <1>5 DEF Cached!Answer, Cached!At, Busy
  <2>2. call[j].wraps + 1 \in Nat /\ call[j].of \in Nat /\ call[j].kind \in Kinds /\ Fetching(j)
    BY <2>1, CallFacts
  <2>3. PICK kind \in Kinds, n \in Nat, of \in Nat, key \in Cached!Keys :
           /\ kind = call[j].kind /\ n = call[j].wraps + 1 /\ of = call[j].of
           /\ key = IF call[j].op = "list" THEN Cached!ListKey(kind) ELSE Cached!AnswerKey(kind)
    BY <2>2, KeyFacts
  <2>a. n = 1 \/ (key = Cached!AnswerKey(kind) /\ kind = "workspace")
    BY <2>1, <2>2, <2>3 DEF WrapsFit
  <2>b. cache' = cache \/ cache' = Cached!Put(key, n, of)
    BY <1>5, <2>3 DEF Cached!Answer
  <2>4. /\ \A k \in Cached!Keys \ {key} : cache'[k] = cache[k]
        /\ cache'[key] = cache[key] \/ cache'[key].wraps = n
    BY <2>b, PutsOnly DEF CacheInv
  <2>c. key \in {Cached!ListKey(kind), Cached!AnswerKey(kind)}
    BY <2>3
  <2>5. \A q \in Kinds :
           /\ Wrapped(Cached!ListKey(q), 1)'
           /\ Wrapped(<<q, "byId:full">>, 0)'
           /\ q # "workspace" => Wrapped(Cached!AnswerKey(q), 1)'
    <3> SUFFICES ASSUME NEW q \in Kinds
                 PROVE  /\ Wrapped(Cached!ListKey(q), 1)'
                        /\ Wrapped(<<q, "byId:full">>, 0)'
                        /\ q # "workspace" => Wrapped(Cached!AnswerKey(q), 1)'
      OBVIOUS
    <3>1. /\ <<q, "byId:full">> # key
          /\ Cached!ListKey(q) = key => n = 1
          /\ q # "workspace" /\ Cached!AnswerKey(q) = key => n = 1
      BY <2>a, <2>c, KeysDiffer
    <3>2. /\ Wrapped(Cached!ListKey(q), 1) /\ Wrapped(<<q, "byId:full">>, 0)
          /\ q # "workspace" => Wrapped(Cached!AnswerKey(q), 1)
      BY DEF WrapsFit
    <3>3. /\ Cached!ListKey(q) \in Cached!Keys /\ Cached!AnswerKey(q) \in Cached!Keys
          /\ <<q, "byId:full">> \in Cached!Keys
      BY KeyFacts
    <3> QED BY <2>4, <3>1, <3>2, <3>3 DEF Wrapped
  <2>6. call' = [call EXCEPT ![j] = Cached!Idle]
    BY <1>5 DEF Cached!Answer, Cached!Finish
  <2>7. ~Fetching(j)' /\ \A i \in Pair \ {j} : call'[i] = call[i]
    BY <2>6 DEF CacheTyped, Fetching, Busy
  <2> QED BY <2>5, <2>7, <1>b DEF WrapsFit
<1>6. ASSUME NEW j \in Pair,
             Cached!InsertRow(j) \/ Cached!UpdateRow(j) \/ Cached!MarkRow(j)
      PROVE  WrapsFit'
  <2>1. Busy(j) /\ call[j].op \in {"create", "update", "remove"}
    BY <1>6 DEF Cached!InsertRow, Cached!UpdateRow, Cached!MarkRow, Cached!At, Busy
  <2>2. call[j] \in Cached!Writing
    BY <2>1, CallFacts
  <2>3. call'[j].op = call[j].op /\ cache' = cache /\ \A i \in Pair \ {j} : call'[i] = call[i]
    BY <1>6, <2>2 DEF Cached!InsertRow, Cached!UpdateRow, Cached!MarkRow, Cached!Written,
       CacheTyped, Cached!Writing
  <2>4. ~Fetching(j)'
    BY <2>1, <2>3 DEF Fetching
  <2> QED BY <2>3, <2>4, <1>a, <1>b
<1>7. ASSUME NEW j \in Pair, Cached!SweepList(j) \/ Cached!SweepRow(j) PROVE WrapsFit'
  <2>1. Busy(j) /\ call[j].op \in {"create", "update", "remove"}
    BY <1>7 DEF Cached!SweepList, Cached!SweepRow, Cached!At, Busy
  <2>2. call[j] \in Cached!Writing
    BY <2>1, CallFacts
  <2>3. \A k \in Cached!Keys : cache'[k] \in {cache[k], Cached!NoEntry}
    BY <1>7, DeleteFits DEF Cached!SweepList, Cached!SweepRow
  <2>4. /\ call'[j] = Cached!Idle \/ call'[j].op = call[j].op
        /\ \A i \in Pair \ {j} : call'[i] = call[i]
    BY <1>7, <2>2 DEF Cached!SweepList, Cached!SweepRow, Cached!Finish, CacheTyped,
       Cached!Writing
  <2>5. ~Fetching(j)'
    BY <2>1, <2>4 DEF Fetching, Busy
  <2> QED BY <2>3, <2>4, <2>5, <1>a, <1>b
<1>8. ASSUME NEW j \in Pair, Cached!Abort(j) PROVE WrapsFit'
  <2>1. /\ cache' = cache /\ call'[j] = Cached!Idle
        /\ \A i \in Pair \ {j} : call'[i] = call[i]
    BY <1>8 DEF Cached!Abort, Cached!Finish, CacheTyped
  <2>2. ~Fetching(j)'
    BY <2>1 DEF Fetching, Busy
  <2> QED BY <2>1, <2>2, <1>a, <1>b
<1>9. ASSUME Cached!Redis \/ UNCHANGED cacheVars PROVE WrapsFit'
  <2>1. call' = call /\ \A k \in Cached!Keys : cache'[k] \in {cache[k], Cached!NoEntry}
    BY <1>9 DEF Cached!Redis, Cached!Connect, Cached!Disconnect, Cached!Expire, cacheVars,
       CacheTyped
  <2> QED BY <2>1, <1>a DEF WrapsFit, Fetching, Busy
<1> QED
  BY <1>1, <1>2, <1>3, <1>4, <1>5, <1>6, <1>7, <1>8, <1>9 DEF Cached!Next, Cached!Requests,
     Cached!EmployeeRoutes, Cached!ProductRoutes, Cached!WorkspaceRoutes, Cached!Reads,
     Cached!Writes

-----------------------------------------------------------------------------
(* Requests that have not overlapped. *)
LEMMA SweptFields ==
    ASSUME NEW kind \in Kinds, NEW key \in Cached!Swept(kind)
    PROVE  /\ key \in Cached!Keys /\ key[1] = kind
           /\ key[2] = "list" <=> key = Cached!ListKey(kind)
  BY DEF Cached!Keys, Cached!Swept, Cached!ListKey, Cached!AnswerKey

(* What a key holds, when it holds something, is what is there now.        *)
CurrentAt(key) == cache[key] = Cached!NoEntry \/ cache[key].of =
    IF key[2] = "list" THEN entities[key[1]] ELSE entity[key[1]]
LEMMA CurrentIs == \A key : Cached!Current(key) <=> CurrentAt(key)
  BY DEF Cached!Current, Cached!VersionOf, CurrentAt
(* Nothing anywhere has yet to be swept.                                   *)
AllCurrent == \A kind \in Kinds : \A key \in Cached!Swept(kind) : CurrentAt(key)

(* A read that runs alone finds every key current.                         *)
LEMMA AloneFetching ==
    ASSUME OneAtATime, OwedOrCurrent, NEW j \in Pair, Fetching(j)
    PROVE  AllCurrent /\ \A i \in Pair \ {j} : ~Busy(i)
  BY CurrentIs DEF OneAtATime, OwedOrCurrent, AllCurrent, Owes, Fetching, Writing, Busy

(* A write that runs alone is the only one that owes a sweep.              *)
LEMMA AloneWriting ==
    ASSUME CacheTyped, OneAtATime, OwedOrCurrent, SharedKeyFits, NEW j \in Pair, Writing(j)
    PROVE  /\ \A i \in Pair \ {j} : ~Busy(i)
           /\ \A kind \in Kinds : \A key \in Cached!Swept(kind) :
                CurrentAt(key) \/ (Owes(j, key) /\ call[j].kind = kind)
           /\ "workspace" \in Kinds => Wrapped(Cached!AnswerKey("workspace"), 1)
<1>1. \A i \in Pair \ {j} : ~Busy(i)
  BY DEF OneAtATime, Writing
<1>2. \A i \in Pair : ~Fetching(i)
  BY <1>1 DEF Writing, Fetching
<1>3. \A key : \A i \in Pair : Owes(i, key) => i = j
  BY <1>1 DEF Owes, Writing
<1> QED
  BY <1>1, <1>2, <1>3, CurrentIs DEF OwedOrCurrent, SharedKeyFits

(* With nobody running, every key is current.                              *)
LEMMA NobodyBusy ==
    ASSUME OwedOrCurrent, SharedKeyFits, \A i \in Pair : ~Busy(i)
    PROVE  AllCurrent /\ ("workspace" \in Kinds => Wrapped(Cached!AnswerKey("workspace"), 1))
  BY CurrentIs DEF OwedOrCurrent, SharedKeyFits, AllCurrent, Owes, Fetching, Writing, Busy

(* What holds when no writer is running any more, or not yet.              *)
LEMMA CurrentOwesNothing == ASSUME AllCurrent' PROVE OwedOrCurrent'
  BY DEF AllCurrent, OwedOrCurrent, CurrentAt, Cached!Current, Cached!VersionOf
(* Steps that change neither a row nor a key leave it current.             *)
LEMMA CurrentStays ==
    ASSUME AllCurrent, UNCHANGED <<entity, entities>>,
           \A key \in Cached!Keys : cache'[key] \in {cache[key], Cached!NoEntry}
    PROVE  AllCurrent'
  BY SweptFields DEF AllCurrent, CurrentAt

(* What peace gives, without the proviso.                                  *)
CacheNow == OneAtATime /\ OwedOrCurrent /\ FetchedIsCurrent /\ SharedKeyFits

(* A request arrives. *)
LEMMA ArrivesAlone ==
    ASSUME CacheInv, CacheNow, NEW j \in Pair, NEW kind \in Kinds,
           NEW asked \in Cached!Reading \cup Cached!Writing, Came(asked, j, kind), ~unsteady'
    PROVE  CacheNow'
<1>1. \A i \in Pair : ~Busy(i)
  BY DEF Came, Cached!Arrive, Busy
<1>2. AllCurrent /\ ("workspace" \in Kinds => Wrapped(Cached!AnswerKey("workspace"), 1))
  BY <1>1, NobodyBusy DEF CacheNow
<1>3. /\ UNCHANGED <<entity, entities, cache, connected>> /\ call'[j] = asked
      /\ \A i \in Pair \ {j} : ~Busy(i)'
  BY <1>1 DEF Came, Cached!Arrive, Busy, CacheInv, CacheTyped
<1>4. OneAtATime'
  BY <1>3 DEF OneAtATime
<1>5. OwedOrCurrent'
  BY <1>2, <1>3, CurrentStays, CurrentOwesNothing
<1>6. FetchedIsCurrent'
  BY <1>3 DEF FetchedIsCurrent, Fetching, Came
<1>7. SharedKeyFits'
  <2> SUFFICES ASSUME "workspace" \in Kinds PROVE SharedKeyFits'
    BY DEF SharedKeyFits
  <2>1. Wrapped(Cached!AnswerKey("workspace"), 1)'
    BY <1>2, <1>3 DEF Wrapped
  <2> QED BY <2>1, <1>3 DEF SharedKeyFits, Fetching, Came, Cached!Hit
<1> QED
  BY <1>4, <1>5, <1>6, <1>7 DEF CacheNow

(* The request that reads goes on. *)
LEMMA ReadsAlone ==
    ASSUME CacheInv, CacheNow, NEW j \in Pair, Cached!Reads(j)
    PROVE  CacheNow'
<1>1. /\ Fetching(j) /\ call[j] \in Cached!Reading /\ call[j].kind \in Kinds
      /\ call[j].op \in {"get", "list"} /\ call[j].of \in Nat /\ call[j].wraps \in Nat
      /\ call[j].caching \in BOOLEAN
  <2>1. Busy(j) /\ call[j].op \in {"get", "list"}
    BY DEF Cached!Reads, Cached!LookForRow, Cached!Fetch, Cached!FetchList, Cached!Fill,
       Cached!Answer, Cached!At, Busy
  <2> QED BY <2>1, CallFacts DEF CacheInv
<1>2. PICK kind \in Kinds : kind = call[j].kind
  BY <1>1
<1>3. AllCurrent /\ \A i \in Pair \ {j} : ~Busy(i)
  BY <1>1, AloneFetching DEF CacheNow
<1>4. /\ UNCHANGED <<entity, entities, connected>>
      /\ \A i \in Pair \ {j} : ~Busy(i)'
  BY <1>3 DEF Cached!Reads, Cached!LookForRow, Cached!Fetch, Cached!FetchList, Cached!Fill,
     Cached!Answer, Cached!Finish, Busy, CacheInv, CacheTyped
<1>5. OneAtATime'
  BY <1>4 DEF OneAtATime
<1>6. call[j].caching = connected
  BY <1>1 DEF CacheNow, FetchedIsCurrent
<1>7. ASSUME AllCurrent',
             Busy(j)' =>
               /\ call'[j] \in Cached!Reading /\ call'[j].kind = kind
               /\ call'[j].op = call[j].op /\ call'[j].caching = connected
               /\ call'[j].op = "get" /\ call'[j].at \in {"fill", "answer"} =>
                    call'[j].of = entity[kind]
               /\ call'[j].op = "list" /\ call'[j].at = "answer" =>
                    call'[j].of = entities[kind],
             SharedKeyFits'
      PROVE  CacheNow'
  <2>1. OwedOrCurrent'
    BY <1>7, CurrentOwesNothing
  <2>2. FetchedIsCurrent'
    BY <1>4, <1>7 DEF FetchedIsCurrent, Fetching
  <2> QED BY <1>5, <1>7, <2>1, <2>2 DEF CacheNow
<1>8. ASSUME "workspace" \in Kinds, kind # "workspace" \/ call[j].op # "get",
             Wrapped(Cached!AnswerKey("workspace"), 1) =>
                Wrapped(Cached!AnswerKey("workspace"), 1)',
             Busy(j)' => call'[j].kind = kind /\ call'[j].op = call[j].op
      PROVE  SharedKeyFits'
  <2>1. Wrapped(Cached!AnswerKey("workspace"), 1)
    BY <1>2, <1>3, <1>8 DEF CacheNow, SharedKeyFits, Fetching
  <2> QED BY <1>2, <1>4, <1>8, <2>1 DEF SharedKeyFits, Fetching
<1>9. CASE Cached!LookForRow(j)
  <2>1. PICK key \in Cached!Keys : key = Cached!RowKey(kind)
    BY KeyFacts
  <2>2. key \in Cached!Swept(kind) /\ key[1] = kind /\ key[2] # "list"
    BY <2>1, KeyFacts DEF Cached!RowKey, Cached!AnswerKey
  <2>3. CurrentAt(key)
    BY <1>3, <2>2 DEF AllCurrent
  <2>4. /\ call[j].op = "get" /\ call[j].at = "row" /\ cache' = cache
        /\ call' = IF Cached!Hit(key)
                   THEN [call EXCEPT ![j].at = "answer", ![j].wraps = cache[key].wraps,
                                     ![j].of = cache[key].of]
                   ELSE [call EXCEPT ![j].at = "fetch"]
    BY <1>9, <1>2, <2>1 DEF Cached!LookForRow, Cached!At
  <2>5. Cached!Hit(key) => cache[key].of = entity[kind] /\ cache[key] \in Cached!Entry
    BY <2>2, <2>3 DEF CurrentAt, Cached!Hit, CacheInv, CacheTyped
  <2>6. /\ call'[j] \in Cached!Reading /\ call'[j].kind = kind
        /\ call'[j].op = "get" /\ call'[j].caching = connected
        /\ call'[j].at = "fetch" \/ (call'[j].at = "answer" /\ call'[j].of = entity[kind])
        /\ ~Cached!Hit(key) => call'[j].at = "fetch" /\ call'[j].wraps = call[j].wraps
    BY <1>1, <1>2, <1>6, <2>4, <2>5 DEF CacheInv, CacheTyped, Cached!Reading, Cached!Entry
  <2>7. AllCurrent'
    BY <1>3, <1>4, <2>4, CurrentStays
  <2>8. SharedKeyFits'
    <3> SUFFICES ASSUME "workspace" \in Kinds PROVE SharedKeyFits'
      BY DEF SharedKeyFits
    <3>1. CASE kind # "workspace"
      BY <1>8, <2>4, <2>6, <3>1 DEF Wrapped
    <3>2. CASE kind = "workspace"
      <4>1. key = Cached!AnswerKey("workspace")
        BY <2>1, <3>2 DEF Cached!RowKey
      <4>2. ~Cached!Hit(key) /\ call[j].wraps = 0 /\ Wrapped(key, 1)
        BY <1>1, <1>2, <1>3, <2>4, <3>2, <4>1 DEF CacheNow, SharedKeyFits, Fetching
      <4>3. Wrapped(key, 1)' /\ ~Cached!Hit(key)'
        BY <1>4, <2>4, <4>2 DEF Wrapped, Cached!Hit
      <4> QED BY <1>4, <2>6, <4>1, <4>2, <4>3 DEF SharedKeyFits, Fetching
    <3> QED BY <3>1, <3>2
  <2> QED BY <1>7, <2>4, <2>6, <2>7, <2>8
<1>10. CASE Cached!Fetch(j) \/ Cached!FetchList(j)
  <2>1. /\ cache' = cache /\ call[j].at = "fetch"
        /\ call'[j] \in Cached!Reading /\ call'[j].kind = kind
        /\ call'[j].op = call[j].op /\ call'[j].caching = connected
        /\ call'[j].wraps = call[j].wraps /\ call'[j].at \in {"fill", "answer"}
        /\ call'[j].at = "fill" => call'[j].of # Cached!Gone
        /\ call'[j].op = "get" => call'[j].of = entity[kind]
        /\ call'[j].op = "list" => call'[j].of = entities[kind]
    BY <1>1, <1>2, <1>6, <1>10 DEF Cached!Fetch, Cached!FetchList, Cached!At, CacheInv, CacheTyped,
       Cached!Reading
  <2>2. AllCurrent'
    BY <1>3, <1>4, <2>1, CurrentStays
  <2>3. SharedKeyFits'
    <3> SUFFICES ASSUME "workspace" \in Kinds PROVE SharedKeyFits'
      BY DEF SharedKeyFits
    <3>1. CASE kind # "workspace" \/ call[j].op # "get"
      BY <1>8, <2>1, <3>1 DEF Wrapped
    <3>2. CASE kind = "workspace" /\ call[j].op = "get"
      <4> DEFINE key == Cached!AnswerKey("workspace")
      <4>1. ~Cached!Hit(key) /\ call[j].wraps = 0 /\ Wrapped(key, 1)
        BY <1>1, <1>2, <1>3, <2>1, <3>2 DEF CacheNow, SharedKeyFits, Fetching
      <4>2. Wrapped(key, 1)' /\ ~Cached!Hit(key)'
        BY <1>4, <2>1, <4>1 DEF Wrapped, Cached!Hit
      <4> QED BY <1>4, <2>1, <4>1, <4>2 DEF SharedKeyFits, Fetching
    <3> QED BY <3>1, <3>2
  <2> QED BY <1>7, <2>1, <2>2, <2>3
<1>11. CASE Cached!Fill(j)
  <2>1. PICK key \in Cached!Keys, n \in Nat, of \in Nat :
           key = Cached!RowKey(kind) /\ n = call[j].wraps /\ of = call[j].of
    BY <1>1, KeyFacts
  <2>2. /\ call[j].op = "get" /\ call[j].at = "fill" /\ cache' = Cached!Put(key, n, of)
    BY <1>11, <1>2, <2>1 DEF Cached!Fill, Cached!At
  <2>3. of = entity[kind]
    BY <1>1, <1>2, <2>1, <2>2 DEF CacheNow, FetchedIsCurrent
  <2>4. /\ \A k \in Cached!Keys \ {key} : cache'[k] = cache[k]
        /\ cache'[key] = cache[key] \/ cache'[key].of = of
        /\ ~connected => cache' = cache
    BY <2>2, PutsOnly DEF CacheInv
  <2>5. key[1] = kind /\ key[2] # "list"
    BY <2>1 DEF Cached!RowKey, Cached!AnswerKey
  <2>6. AllCurrent'
    BY <1>3, <1>4, <2>3, <2>4, <2>5, SweptFields DEF AllCurrent, CurrentAt
  <2>7. /\ call'[j] \in Cached!Reading /\ call'[j].kind = kind /\ call'[j].op = "get"
        /\ call'[j].caching = connected /\ call'[j].at = "answer"
        /\ call'[j].of = of /\ call'[j].wraps = call[j].wraps
    BY <1>1, <1>2, <1>6, <1>11, <2>1, <2>2 DEF Cached!Fill, CacheInv, CacheTyped,
       Cached!Reading
  <2>8. SharedKeyFits'
    <3> SUFFICES ASSUME "workspace" \in Kinds PROVE SharedKeyFits'
      BY DEF SharedKeyFits
    <3>1. CASE kind # "workspace"
      <4>1. Cached!AnswerKey("workspace") # key
        BY <2>1, <3>1, KeysDiffer
      <4>2. cache'[Cached!AnswerKey("workspace")] = cache[Cached!AnswerKey("workspace")]
        BY <2>4, <4>1, KeyFacts
      <4> QED BY <1>8, <2>2, <2>7, <3>1, <4>2 DEF Wrapped
    <3>2. CASE kind = "workspace"
      <4>1. call[j].wraps = 0 /\ Wrapped(Cached!AnswerKey("workspace"), 1) /\ of # Cached!Gone
        BY <1>1, <1>2, <1>3, <2>1, <2>2, <3>2 DEF CacheNow, SharedKeyFits, Fetching
      <4>2. connected \/ Wrapped(Cached!AnswerKey("workspace"), 1)'
        BY <2>4, <4>1 DEF Wrapped
      <4>3. Fetching(j)'
        BY <2>7 DEF Fetching, Busy, Cached!Reading, Cached!Idle
      <4> QED BY <1>4, <2>7, <3>2, <4>1, <4>2, <4>3 DEF SharedKeyFits, Fetching
    <3> QED BY <3>1, <3>2
  <2> QED BY <1>7, <2>2, <2>3, <2>6, <2>7, <2>8
<1>12. CASE Cached!Answer(j)
  <2>a. PICK n \in Nat, of \in Nat : n = call[j].wraps + 1 /\ of = call[j].of
    <3>1. call[j].wraps + 1 \in Nat /\ call[j].of \in Nat
      BY <1>1
    <3> QED BY <3>1
  <2>b. PICK key \in Cached!Keys :
           key = IF call[j].op = "list" THEN Cached!ListKey(kind) ELSE Cached!AnswerKey(kind)
    <3>1. Cached!ListKey(kind) \in Cached!Keys /\ Cached!AnswerKey(kind) \in Cached!Keys
      BY KeyFacts
    <3> QED BY <3>1
  <2>1. /\ n = call[j].wraps + 1 /\ of = call[j].of
        /\ key = IF call[j].op = "list" THEN Cached!ListKey(kind) ELSE Cached!AnswerKey(kind)
    BY <2>a, <2>b
  <2>2. /\ call[j].at = "answer"
        /\ cache' = IF call[j].caching /\ of # Cached!Gone THEN Cached!Put(key, n, of) ELSE cache
        /\ call' = [call EXCEPT ![j] = Cached!Idle]
    BY <1>12, <1>2, <2>1 DEF Cached!Answer, Cached!At, Cached!Finish
  <2>3. /\ \A k \in Cached!Keys \ {key} : cache'[k] = cache[k]
        /\ cache'[key] = cache[key] \/ (cache'[key].of = of /\ cache'[key].wraps = n)
        /\ connected /\ of # Cached!Gone => cache'[key].wraps = n
    BY <1>6, <2>2, PutsOnly DEF CacheInv
  <2>4. ~Busy(j)'
    BY <2>2 DEF Busy, CacheInv, CacheTyped
  <2>5. of = IF key[2] = "list" THEN entities[kind] ELSE entity[kind]
    BY <1>1, <1>2, <2>1, <2>2 DEF CacheNow, FetchedIsCurrent, Cached!ListKey, Cached!AnswerKey
  <2>6. key[1] = kind
    BY <2>1 DEF Cached!ListKey, Cached!AnswerKey
  <2>7. AllCurrent'
    BY <1>3, <1>4, <2>3, <2>5, <2>6, SweptFields DEF AllCurrent, CurrentAt
  <2>8. SharedKeyFits'
    <3> SUFFICES ASSUME "workspace" \in Kinds PROVE SharedKeyFits'
      BY DEF SharedKeyFits
    <3>1. CASE kind # "workspace" \/ call[j].op # "get"
      <4>1. Cached!AnswerKey("workspace") # key
        BY <1>1, <2>1, <3>1, KeysDiffer
      <4>2. cache'[Cached!AnswerKey("workspace")] = cache[Cached!AnswerKey("workspace")]
        BY <2>3, <4>1, KeyFacts
      <4> QED BY <1>8, <2>4, <3>1, <4>2 DEF Wrapped
    <3>2. CASE kind = "workspace" /\ call[j].op = "get"
      <4>1. key = Cached!AnswerKey("workspace")
        BY <2>1, <3>2
      <4>a. call[j].wraps = 0
        BY <1>1, <1>2, <2>2, <3>2 DEF CacheNow, SharedKeyFits
      <4>b. Wrapped(key, 1) \/ \E i \in Pair : Fetching(i) /\ call[i].of # Cached!Gone
                                                /\ call[i].caching
        BY <3>2, <4>1 DEF CacheNow, SharedKeyFits
      <4>c. Wrapped(key, 1) \/ (of # Cached!Gone /\ connected)
        BY <1>3, <1>6, <2>1, <4>b DEF Fetching
      <4>2. n = 1 /\ (Wrapped(key, 1) \/ (of # Cached!Gone /\ connected))
        BY <2>1, <4>a, <4>c
      <4>3. Wrapped(key, 1)'
        BY <2>3, <4>2 DEF Wrapped
      <4> QED BY <1>4, <2>4, <4>1, <4>3 DEF SharedKeyFits, Fetching
    <3> QED BY <3>1, <3>2
  <2> QED BY <1>7, <2>4, <2>7, <2>8
<1> QED
  BY <1>9, <1>10, <1>11, <1>12 DEF Cached!Reads

(* The request that writes goes on. *)
LEMMA WritesAlone ==
    ASSUME CacheInv, CacheNow, NEW j \in Pair, Cached!Writes(j), ~unsteady'
    PROVE  CacheNow'
<1>1. /\ Writing(j) /\ call[j] \in Cached!Writing /\ call[j].kind \in Kinds
      /\ call[j].op \in {"create", "update", "remove"}
  <2>1. Busy(j) /\ call[j].op \in {"create", "update", "remove"}
    BY DEF Cached!Writes, Cached!InsertRow, Cached!UpdateRow, Cached!MarkRow,
       Cached!SweepList, Cached!SweepRow, Cached!At, Busy
  <2> QED BY <2>1, CallFacts DEF CacheInv
<1>2. PICK kind \in Kinds : kind = call[j].kind
  BY <1>1
<1>3. /\ \A i \in Pair \ {j} : ~Busy(i)
      /\ \A q \in Kinds : \A key \in Cached!Swept(q) :
           CurrentAt(key) \/ (Owes(j, key) /\ kind = q)
      /\ "workspace" \in Kinds => Wrapped(Cached!AnswerKey("workspace"), 1)
  BY <1>1, <1>2, AloneWriting DEF CacheNow, CacheInv
<1>4. /\ connected' = connected
      /\ \A i \in Pair \ {j} : ~Busy(i)'
      /\ call'[j] = Cached!Idle \/ (call'[j] \in Cached!Writing /\ call'[j].op = call[j].op
                                    /\ call'[j].kind = kind)
      /\ \A key \in Cached!Keys : cache'[key] \in {cache[key], Cached!NoEntry}
  BY <1>1, <1>2, <1>3, DeleteFits DEF Cached!Writes, Cached!InsertRow, Cached!UpdateRow,
     Cached!MarkRow, Cached!Written, Cached!SweepList, Cached!SweepRow, Cached!Finish, Busy,
     CacheInv, CacheTyped, Cached!Writing
<1>5. OneAtATime' /\ FetchedIsCurrent'
  BY <1>1, <1>4 DEF OneAtATime, FetchedIsCurrent, Fetching, Busy
<1>6. SharedKeyFits'
  <2> SUFFICES ASSUME "workspace" \in Kinds PROVE SharedKeyFits'
    BY DEF SharedKeyFits
  <2>1. Wrapped(Cached!AnswerKey("workspace"), 1)'
    BY <1>3, <1>4, KeyFacts DEF Wrapped
  <2> QED BY <1>1, <1>4, <2>1 DEF SharedKeyFits, Fetching, Busy
<1>7. OwedOrCurrent'
  <2>1. ASSUME \A q \in Kinds : \A key \in Cached!Swept(q) :
                 CurrentAt(key)' \/ (Owes(j, key)' /\ call'[j].kind = q)
        PROVE  OwedOrCurrent'
    BY <2>1 DEF OwedOrCurrent, CurrentAt, Cached!Current, Cached!VersionOf
  <2> SUFFICES ASSUME NEW q \in Kinds, NEW key \in Cached!Swept(q)
               PROVE  CurrentAt(key)' \/ (Owes(j, key)' /\ call'[j].kind = q)
    BY <2>1
  <2>2. /\ key \in Cached!Keys /\ key[1] = q
        /\ key[2] = "list" <=> key = Cached!ListKey(q)
    BY SweptFields
  <2>3. CurrentAt(key) \/ (Owes(j, key) /\ kind = q)
    BY <1>3
  <2>4. CASE Cached!InsertRow(j) \/ Cached!UpdateRow(j) \/ Cached!MarkRow(j)
    <3>1. /\ call[j].at = "write" /\ cache' = cache
          /\ call'[j] \in Cached!Writing /\ call'[j].at = "sweepList"
          /\ call'[j].op = call[j].op /\ call'[j].kind = kind
      BY <1>1, <1>2, <2>4 DEF Cached!InsertRow, Cached!UpdateRow, Cached!MarkRow,
         Cached!Written, Cached!At, CacheInv, CacheTyped, Cached!Writing
    <3>2. Writing(j)'
      BY <1>1, <3>1 DEF Writing, Busy, Cached!Writing, Cached!Idle
    <3>3. /\ \A k \in Kinds \ {kind} : entity'[k] = entity[k] /\ entities'[k] = entities[k]
          /\ call[j].op = "create" => entity' = entity
      BY <1>2, <2>4 DEF Cached!InsertRow, Cached!UpdateRow, Cached!MarkRow, Cached!Written,
         Cached!At, CacheInv, CacheTyped
    <3>4. CurrentAt(key)
      BY <2>3, <3>1 DEF Owes
    <3>5. CASE q = kind /\ (call[j].op # "create" \/ key = Cached!ListKey(kind))
      BY <3>1, <3>2, <3>5 DEF Owes
    <3>6. CASE q # kind \/ (call[j].op = "create" /\ key # Cached!ListKey(kind))
      BY <2>2, <3>1, <3>3, <3>4, <3>6 DEF CurrentAt
    <3> QED BY <3>5, <3>6
  <2>5. CASE Cached!SweepList(j) \/ Cached!SweepRow(j)
    <3>1. UNCHANGED <<entity, entities>> /\ connected
      BY <2>5 DEF Cached!SweepList, Cached!SweepRow, CacheInv, CacheTyped
    <3>2. CurrentAt(key) => CurrentAt(key)'
      BY <1>4, <2>2, <3>1 DEF CurrentAt
    <3>3. CASE ~CurrentAt(key)
      <4>1. Owes(j, key) /\ kind = q
        BY <2>3, <3>3
      <4>2. CASE Cached!SweepList(j) /\ key = Cached!ListKey(kind)
        <5>1. cache' = Cached!Delete({Cached!ListKey(kind)})
          BY <1>2, <4>2 DEF Cached!SweepList
        <5> QED BY <2>2, <3>1, <4>2, <5>1, DeleteFits DEF CurrentAt, CacheInv
      <4>3. CASE Cached!SweepList(j) /\ key # Cached!ListKey(kind)
        <5>1. call[j].op # "create"
          BY <1>2, <4>1, <4>3 DEF Owes
        <5>2. call' = [call EXCEPT ![j].at = "sweepRow"]
          BY <4>3, <5>1 DEF Cached!SweepList
        <5>3. /\ call'[j] \in Cached!Writing /\ call'[j].at = "sweepRow"
              /\ call'[j].op = call[j].op /\ call'[j].kind = kind
          BY <1>1, <1>2, <5>2 DEF CacheInv, CacheTyped, Cached!Writing
        <5>4. Writing(j)'
          BY <1>1, <5>3 DEF Writing, Busy, Cached!Writing, Cached!Idle
        <5> QED BY <4>1, <4>3, <5>1, <5>3, <5>4 DEF Owes
      <4>4. CASE Cached!SweepRow(j)
        <5>1. cache' = Cached!Delete(Cached!Swept(kind))
          BY <1>2, <4>4 DEF Cached!SweepRow
        <5> QED BY <2>2, <3>1, <4>1, <5>1, DeleteFits DEF CurrentAt, CacheInv
      <4> QED BY <2>5, <4>2, <4>3, <4>4
    <3> QED BY <3>2, <3>3
  <2> QED BY <2>4, <2>5 DEF Cached!Writes
<1> QED
  BY <1>5, <1>6, <1>7 DEF CacheNow

(* Redis connects, disconnects and expires.                                *)
LEMMA RedisAlone ==
    ASSUME CacheInv, CacheNow, Cached!Redis \/ UNCHANGED cacheVars, ~unsteady'
    PROVE  CacheNow'
<1>1. /\ UNCHANGED <<entity, entities, call>>
      /\ \A key \in Cached!Keys : cache'[key] \in {cache[key], Cached!NoEntry}
      /\ connected' = connected \/ \A i \in Pair : ~Busy(i)
  BY DEF Cached!Redis, Cached!Connect, Cached!Disconnect, Cached!Expire, cacheVars,
     CacheInv, CacheTyped, Busy
<1>2. OneAtATime'
  BY <1>1 DEF CacheNow, OneAtATime, Busy
<1>3. OwedOrCurrent'
  BY <1>1, SweptFields DEF CacheNow, OwedOrCurrent, Cached!Current, Cached!VersionOf, Owes,
     Writing, Busy
<1>4. FetchedIsCurrent'
  BY <1>1 DEF CacheNow, FetchedIsCurrent, Fetching, Busy
<1>5. SharedKeyFits'
  <2> SUFFICES ASSUME "workspace" \in Kinds PROVE SharedKeyFits'
    BY DEF SharedKeyFits
  <2> DEFINE key == Cached!AnswerKey("workspace")
  <2>1. cache'[key] \in {cache[key], Cached!NoEntry}
    BY <1>1, KeyFacts
  <2> HIDE DEF key
  <2>2. SharedKeyFits => /\ \A j \in Pair : Fetching(j) /\ call[j].kind = "workspace"
                                              /\ call[j].op = "get" =>
                              /\ call[j].wraps = 0
                              /\ call[j].at \in {"row", "fetch", "fill"} => ~Cached!Hit(key)
                              /\ call[j].at = "fill" => call[j].of # Cached!Gone
                         /\ \/ Wrapped(key, 1)
                            \/ \E j \in Pair :
                                 /\ Fetching(j) /\ call[j].kind = "workspace"
                                 /\ call[j].op = "get" /\ call[j].at = "answer"
                                 /\ call[j].of # Cached!Gone /\ call[j].caching
    BY DEF SharedKeyFits, key
  <2> QED BY <1>1, <2>1, <2>2 DEF CacheNow, SharedKeyFits, Fetching, Busy, Wrapped, Cached!Hit,
          key
<1> QED
  BY <1>2, <1>3, <1>4, <1>5 DEF CacheNow

(* Every step keeps both parts.                                            *)
LEMMA CacheStep ==
    ASSUME CacheInv, CacheSerial, [Cached!Next]_cacheVars
    PROVE  CacheInv' /\ CacheSerial'
<1>1. CacheInv'
  BY CacheTypedStep, WrapsStep DEF CacheInv
<1>2. unsteady \in BOOLEAN /\ unsteady' \in BOOLEAN
  BY <1>1 DEF CacheInv, CacheTyped
<1>3. ASSUME ~unsteady' PROVE CacheNow'
  <2>1. ASSUME CacheNow, NEW j \in Pair, NEW kind \in Kinds,
               Cached!Routes(j, kind) \/ Cached!Remove(j, kind)
        PROVE  CacheNow'
    <3>1. PICK asked \in Cached!Reading \cup Cached!Writing : Came(asked, j, kind)
      BY <2>1, Arrives DEF CacheInv
    <3> QED BY <1>3, <2>1, <3>1, ArrivesAlone
  <2>2. ASSUME NEW j \in Pair, Cached!Abort(j) PROVE FALSE
    BY <1>3, <2>2 DEF Cached!Abort
  <2>3. ~unsteady
    <3>1. ASSUME NEW j \in Pair, NEW kind \in Kinds,
                 Cached!Routes(j, kind) \/ Cached!Remove(j, kind)
          PROVE  ~unsteady
      BY <1>2, <1>3, <3>1 DEF Cached!Routes, Cached!Get, Cached!List, Cached!Create,
         Cached!Update, Cached!Remove, Cached!Change, Cached!Arrive
    <3>2. ASSUME NEW j \in Pair, Cached!Reads(j) \/ Cached!Writes(j) PROVE ~unsteady
      BY <1>2, <1>3, <3>2 DEF Cached!Reads, Cached!Writes, Cached!LookForRow, Cached!Fetch,
         Cached!FetchList, Cached!Fill, Cached!Answer, Cached!InsertRow, Cached!UpdateRow,
         Cached!MarkRow, Cached!Written, Cached!SweepList, Cached!SweepRow
    <3>3. ASSUME Cached!Redis \/ UNCHANGED cacheVars PROVE ~unsteady
      BY <1>2, <1>3, <3>3 DEF Cached!Redis, Cached!Connect, Cached!Disconnect,
         Cached!Expire, cacheVars
    <3> QED BY <2>2, <3>1, <3>2, <3>3 DEF Cached!Next, Cached!Requests,
            Cached!EmployeeRoutes, Cached!ProductRoutes, Cached!WorkspaceRoutes
  <2>4. CacheNow
    BY <2>3 DEF CacheSerial, CacheNow
  <2> QED BY <1>3, <2>1, <2>2, <2>4, ReadsAlone, WritesAlone, RedisAlone DEF Cached!Next,
          Cached!Requests, Cached!EmployeeRoutes, Cached!ProductRoutes,
          Cached!WorkspaceRoutes
<1> QED
  BY <1>1, <1>3 DEF CacheSerial, CacheNow

(* The invariant of the caches.                                            *)
LEMMA CacheInductive == Cached!Spec => [](CacheInv /\ CacheSerial)
<1>1. Cached!Init => CacheInv /\ CacheSerial
  BY CacheInit
<1>2. (CacheInv /\ CacheSerial) /\ [Cached!Next]_(Cached!vars) => (CacheInv /\ CacheSerial)'
  BY CacheStep DEF cacheVars, Cached!vars
<1> QED
  BY <1>1, <1>2, PTL DEF Cached!Spec

(* For any kinds and requests: what a write has swept is as the database   *)
(* has it, until requests overlap, one breaks off or Redis goes away.      *)
THEOREM SweptStaysCurrent == Cached!Spec => []SweptIsCurrent
<1>1. CacheInv /\ CacheSerial => SweptIsCurrent
  <2> SUFFICES ASSUME CacheSerial, ~unsteady, NEW kind \in Kinds \ Cached!Writers,
                      NEW key \in Cached!Swept(kind)
               PROVE  Cached!Current(key)
    BY DEF SweptIsCurrent, Cached!SweptIsCurrent
  <2>1. Cached!Current(key) \/ \E j \in Pair : Owes(j, key) /\ call[j].kind = kind
    BY DEF CacheSerial, OwedOrCurrent
  <2>2. ASSUME NEW j \in Pair, Owes(j, key), call[j].kind = kind PROVE FALSE
    BY <2>2 DEF Owes, Writing, Busy, Cached!Writers
  <2> QED BY <2>1, <2>2
<1> QED
  BY <1>1, CacheInductive, PTL

(* For any kinds and requests, however they overlap: where answers are     *)
(* cached there are answers and where rows are rows; of workspaces, which  *)
(* have one key for both, while requests neither overlap nor break off and *)
(* Redis stays.                                                            *)
THEOREM AnswersWrappedOnce == Cached!Spec => []WrappedOnce
<1>1. CacheInv /\ CacheSerial => WrappedOnce
  <2> SUFFICES ASSUME CacheInv, CacheSerial, NEW key \in Cached!Keys,
                      cache[key] # Cached!NoEntry,
                      ~(key[1] = "workspace" /\ (unsteady \/ call # [j \in Pair |-> Cached!Idle]))
               PROVE  \/ key[2] = "byId:full" /\ cache[key].wraps = 0
                      \/ key[2] # "byId:full" /\ cache[key].wraps = 1
    BY DEF WrappedOnce, Cached!WrappedOnce
  <2>1. PICK kind \in Kinds : \/ key = Cached!ListKey(kind)
                             \/ key = Cached!AnswerKey(kind)
                             \/ key = <<kind, "byId:full">>
    BY DEF Cached!Keys
  <2>2. CASE key = Cached!ListKey(kind)
    <3>1. key[2] # "byId:full"
      BY <2>2 DEF Cached!ListKey
    <3> QED BY <2>2, <3>1 DEF CacheInv, WrapsFit, Wrapped
  <2>3. CASE key = <<kind, "byId:full">>
    BY <2>3 DEF CacheInv, WrapsFit, Wrapped
  <2>4. CASE key = Cached!AnswerKey(kind)
    <3>1. key[2] # "byId:full" /\ key[1] = kind
      BY <2>4 DEF Cached!AnswerKey
    <3>2. CASE kind # "workspace"
      BY <2>4, <3>1, <3>2 DEF CacheInv, WrapsFit, Wrapped
    <3>3. CASE kind = "workspace"
      <4>1. ~unsteady /\ \A j \in Pair : ~Fetching(j)
        BY <3>1, <3>3 DEF Fetching, Busy
      <4>2. Wrapped(key, 1)
        BY <2>4, <3>3, <4>1 DEF CacheSerial, SharedKeyFits
      <4> QED BY <3>1, <4>2 DEF Wrapped
    <3> QED BY <3>2, <3>3
  <2> QED BY <2>1, <2>2, <2>3, <2>4
<1> QED
  BY <1>1, CacheInductive, PTL

-----------------------------------------------------------------------------
(* ROWS (RowVersions).                                                     *)

(* The kinds of rows, and a client whose request is running.               *)
Sheet(r) == r \in Versions!In(Versions!Sheets)
Machine(r) == r \in Versions!In({"machine"})
Asked(c) == edit[c] # Versions!Idle

RowTyped ==
    /\ table \in [Rows -> Versions!Tables]
    /\ row \in [Rows -> {Versions!NoRow} \cup Versions!Version]
    /\ writes \in [Rows -> Nat]
    /\ shown \in [Clients -> {Versions!NoTag} \cup Versions!ETag]
    /\ edit \in [Clients -> Versions!Job]
    /\ tags \in [Rows -> SUBSET Versions!Version]
    /\ lapped \in BOOLEAN

(* Rows that are dropped were made here, and a part has its model.         *)
Made ==
    /\ \A r \in Versions!Present : Machine(r) \/ r \in draft => writes[r] > 0
    /\ \A r \in Versions!Present : Versions!Owners(r) \subseteq Versions!Present
    /\ \A c \in Clients : Asked(c) /\ edit[c].pc = "drop" =>
         Machine(edit[c].row) \/ (edit[c].row \in Versions!In({"modelPart"})
                                  /\ edit[c].row \in draft)
    /\ \A c \in Clients : Asked(c) /\ edit[c].pc = "new" => Sheet(edit[c].row)

(* What a row was last is the newest of what it has been.                  *)
NewestIsRow ==
    \A r \in Rows :
       /\ row[r] # Versions!NoRow => row[r] \in tags[r]
       /\ row[r] = Versions!NoRow /\ (Sheet(r) \/ writes[r] = 0) => tags[r] = {}
       /\ (Sheet(r) => ~lapped)
          => /\ \A v, w \in tags[r] : v.version = w.version => v.content = w.content
             /\ row[r] # Versions!NoRow =>
                  \A v \in tags[r] : v.version <= row[r].version

(* A tag that was given out is one the row has had; only of a model is it  *)
(* given without the content.                                              *)
Genuine(tag) ==
    /\ [version |-> tag.version, content |-> tag.content] \in tags[tag.row]
    /\ tag.read \/ tag.row \in Versions!In({"model"})
ShownIsTagged == \A c \in Clients : shown[c] # Versions!NoTag => Genuine(shown[c])
(* One request at most, and it has read what is there.                     *)
AskedAlone ==
    ~lapped =>
      /\ \A c, d \in Clients : Asked(c) /\ Asked(d) => c = d
      /\ \A c \in Clients : Asked(c) /\ edit[c].pc \in {"edit", "drop"} =>
           /\ edit[c].row \in Versions!Present
           /\ Versions!Matches(c, edit[c].row)
           /\ Sheet(edit[c].row) \/ Machine(edit[c].row) \/ edit[c].row \in draft
           /\ edit[c].pc = "edit" => edit[c].read = row[edit[c].row]

RowInv == RowTyped /\ Made /\ NewestIsRow /\ ShownIsTagged /\ AskedAlone

(* A row is of one table.                                                  *)
LEMMA TablesDiffer ==
    ASSUME RowTyped, NEW r \in Rows
    PROVE  /\ Sheet(r) <=> table[r] \in {"dailySheet", "stationBoard"}
           /\ Machine(r) <=> table[r] = "machine"
           /\ r \in Versions!In({"modelPart"}) <=> table[r] = "modelPart"
           /\ r \in Versions!In({"model"}) <=> table[r] = "model"
           /\ r \in Versions!In(Versions!Catalog) <=>
                table[r] \in {"product", "model", "modelPart"}
           /\ r \in Versions!In(Versions!Catalog) \/ Sheet(r) \/ Machine(r)
           /\ \A q \in Versions!Owners(r) :
                q \in Rows /\ table[r] = "modelPart" /\ table[q] = "model"
           /\ r \in Versions!Present <=> row[r] # Versions!NoRow
           /\ row[r] # Versions!NoRow => row[r] \in Versions!Version
  BY DEF Sheet, Machine, Versions!In, Versions!Sheets, Versions!Catalog, Versions!Owners,
     RowTyped, Versions!Tables, Versions!Present

(* The fields of a request that is running.                                *)
LEMMA EditFacts ==
    ASSUME RowTyped, NEW c \in Clients, Asked(c)
    PROVE  /\ edit[c].pc \in {"edit", "new", "drop", "cite"} /\ edit[c].row \in Rows
           /\ edit[c].pc = "edit" => edit[c].read \in Versions!Version
<1>1. edit[c] \in Versions!Job \ {Versions!Idle}
  BY DEF RowTyped, Asked
<1>2. CASE edit[c] \in [pc: {"edit"}, row: Rows, read: Versions!Version]
  BY <1>2
<1>3. CASE edit[c] \in [pc: {"new", "drop", "cite"}, row: Rows]
  BY <1>3
<1> QED
  BY <1>1, <1>2, <1>3 DEF Versions!Job

(* What a tag is made of.                                                  *)
LEMMA TagFacts ==
    ASSUME NEW r \in Rows, NEW v \in Versions!Version
    PROVE  /\ v = [version |-> v.version, content |-> v.content]
           /\ Versions!Tag(r, v) \in Versions!ETag /\ Versions!Unread(r, v) \in Versions!ETag
           /\ \A tag \in {Versions!Tag(r, v), Versions!Unread(r, v)} :
                tag.row = r /\ tag.version = v.version /\ tag.content = v.content
           /\ Versions!Tag(r, v).read
<1>1. v.version \in Nat /\ v.content \in Nat /\ v = [version |-> v.version, content |-> v.content]
  BY DEF Versions!Version
<1>2. PICK n, m \in Nat : n = v.version /\ m = v.content
  BY <1>1
<1>3. Versions!Tag(r, v) = [row |-> r, version |-> n, content |-> m, read |-> TRUE]
  BY <1>2 DEF Versions!Tag
<1>4. Versions!Unread(r, v) = [row |-> r, version |-> n, content |-> m, read |-> FALSE]
  BY <1>2 DEF Versions!Unread
<1> QED
  BY <1>1, <1>2, <1>3, <1>4 DEF Versions!ETag

(* A tag stays what it is while the row gains versions.                    *)
LEMMA TagStays ==
    ASSUME RowInv, NEW d \in Clients, shown[d] # Versions!NoTag, UNCHANGED table,
           \A q \in Rows : tags[q] \subseteq tags'[q]
    PROVE  /\ [version |-> shown[d].version, content |-> shown[d].content] \in tags'[shown[d].row]
           /\ shown[d].read \/ shown[d].row \in Versions!In({"model"})'
<1>1. shown[d].row \in Rows
  BY DEF RowInv, RowTyped, Versions!ETag
<1>2. Genuine(shown[d])
  BY DEF RowInv, ShownIsTagged
<1> QED
  BY <1>1, <1>2 DEF Genuine, Versions!In

(* A database as it is found.                                              *)
LEMMA RowInit == ASSUME Versions!Init PROVE RowInv
<1>1. RowTyped
  <2>1. table \in [Rows -> Versions!Tables]
    BY ServicesAssumption DEF Versions!Init
  <2>2. [version |-> 1, content |-> 0] \in Versions!Version
    BY DEF Versions!Version
  <2>3. row \in [Rows -> {Versions!NoRow} \cup Versions!Version]
    BY <2>2 DEF Versions!Init
  <2>4. tags \in [Rows -> SUBSET Versions!Version]
    BY <2>3 DEF Versions!Init
  <2>5. edit \in [Clients -> Versions!Job]
    BY DEF Versions!Init, Versions!Job
  <2>6. /\ writes \in [Rows -> Nat] /\ lapped \in BOOLEAN
        /\ shown \in [Clients -> {Versions!NoTag} \cup Versions!ETag]
    BY DEF Versions!Init
  <2> QED BY <2>1, <2>3, <2>4, <2>5, <2>6 DEF RowTyped
<1>2. /\ \A c \in Clients : ~Asked(c) /\ shown[c] = Versions!NoTag
      /\ lapped = FALSE
  BY DEF Versions!Init, Asked
<1>3. \A r \in Rows : /\ row[r] = IF r \in Versions!In(Versions!Catalog) \ draft
                                  THEN [version |-> 1, content |-> 0] ELSE Versions!NoRow
                      /\ tags[r] = IF row[r] = Versions!NoRow THEN {} ELSE {row[r]}
  BY DEF Versions!Init
<1>4. \A r \in Rows : r \in Versions!Present => r \in Versions!In(Versions!Catalog) \ draft
  BY <1>3 DEF Versions!Present
<1>5. \A r \in Rows : r \in Versions!In(Versions!Catalog) \ draft => r \in Versions!Present
  <2>1. [version |-> 1, content |-> 0] # [row |-> "none"]
    <3>1. "version" \in DOMAIN [version |-> 1, content |-> 0]
      OBVIOUS
    <3>2. "version" \notin DOMAIN [row |-> "none"]
      OBVIOUS
    <3> QED BY <3>1, <3>2
  <2> QED BY <1>3, <2>1 DEF Versions!Present, Versions!NoRow
<1>6. Made
  <2>1. ASSUME NEW r \in Versions!Present PROVE ~Machine(r) /\ r \notin draft
    BY <1>1, <1>4, <2>1, TablesDiffer DEF Versions!Present
  <2>2. ASSUME NEW r \in Versions!Present PROVE Versions!Owners(r) \subseteq Versions!Present
    <3>1. r \in Rows /\ r \in Versions!In(Versions!Catalog) \ draft
      BY <1>4, <2>2 DEF Versions!Present
    <3>2. Versions!Owners(r) \cap draft = {}
      BY <3>1 DEF Versions!Init
    <3>3. \A q \in Versions!Owners(r) : q \in Rows /\ q \in Versions!In(Versions!Catalog)
      <4> SUFFICES ASSUME NEW q \in Versions!Owners(r)
                   PROVE  q \in Rows /\ q \in Versions!In(Versions!Catalog)
        OBVIOUS
      <4>1. q \in Rows /\ table[q] = "model"
        BY <1>1, <3>1, TablesDiffer
      <4> QED BY <1>1, <4>1, TablesDiffer
    <3> QED BY <1>5, <3>2, <3>3
  <2> QED BY <1>2, <2>1, <2>2 DEF Made
<1>7. NewestIsRow
  <2>1. \A r \in Rows : row[r] # Versions!NoRow => row[r].version <= row[r].version
    BY <1>1, TablesDiffer DEF Versions!Version
  <2>2. \A r \in Rows : /\ row[r] # Versions!NoRow => row[r] \in tags[r]
                        /\ row[r] = Versions!NoRow => tags[r] = {}
                        /\ \A v, w \in tags[r] : v = w
                        /\ row[r] # Versions!NoRow => \A v \in tags[r] : v = row[r]
    BY <1>3
  <2> QED BY <2>1, <2>2 DEF NewestIsRow
<1> QED
  BY <1>1, <1>2, <1>6, <1>7 DEF RowInv, ShownIsTagged, AskedAlone

-----------------------------------------------------------------------------
(* The steps of the handlers: those that leave the rows alone, those that  *)
(* write one, and the deletion.                                            *)
Reads(c) ==
    \/ \E r \in Rows : \/ Versions!Show(c, r)
                       \/ Versions!PatchProduct(c, r) \/ Versions!PatchModel(c, r)
                       \/ Versions!PatchModelPart(c, r) \/ Versions!PatchMachine(c, r)
                       \/ Versions!PutExisting(c, r) \/ Versions!PutNew(c, r)
                       \/ Versions!DropMachine(c, r) \/ Versions!DropPart(c, r)
                       \/ Versions!CiteLoad(c, r)
    \/ Versions!CiteCommit(c) \/ Versions!Abort(c)
(* A request begins after its checks.                                      *)
Begins(c) ==
    \E r \in Rows : \E asked \in Versions!Job \ {Versions!Idle} :
       /\ Versions!Begin(c, asked) /\ asked.row = r
       /\ UNCHANGED shown
       /\ asked.pc \in {"edit", "drop"} =>
            /\ r \in Versions!Present /\ Versions!Matches(c, r)
            /\ Sheet(r) \/ Machine(r) \/ r \in draft
       /\ asked.pc = "edit" => asked.read = row[r]
       /\ asked.pc = "drop" => Machine(r) \/ (r \in Versions!In({"modelPart"}) /\ r \in draft)
       /\ asked.pc = "new" => Sheet(r)
Ends(c) == Asked(c) /\ Versions!Finish(c) /\ UNCHANGED shown
Shows(c) ==
    \E r \in Versions!Present :
       /\ ~Asked(c) /\ UNCHANGED <<edit, lapped>>
       /\ shown' = [shown EXCEPT ![c] = Versions!Tag(r, row[r])]

(* A request that reads writes no row.                                     *)
LEMMA ReadsAre ==
    ASSUME RowTyped, NEW c \in Clients, Reads(c)
    PROVE  /\ UNCHANGED <<table, draft, row, writes, tags>>
           /\ Begins(c) \/ Ends(c) \/ Shows(c)
<1>1. ASSUME NEW r \in Rows, Versions!Show(c, r)
      PROVE  UNCHANGED <<table, draft, row, writes, tags>> /\ Shows(c)
  BY <1>1 DEF Versions!Show, Shows, Asked
<1>2. ASSUME NEW r \in Rows, Versions!EditLoad(c, r), Sheet(r) \/ Machine(r) \/ r \in draft
      PROVE  UNCHANGED <<table, draft, row, writes, tags>> /\ Begins(c)
  <2> DEFINE asked == [pc |-> "edit", row |-> r, read |-> row[r]]
  <2>1. row[r] \in Versions!Version /\ r \in Versions!Present
    BY <1>2, TablesDiffer DEF Versions!EditLoad
  <2>2. asked \in Versions!Job \ {Versions!Idle}
    BY <2>1 DEF Versions!Job, Versions!Idle
  <2>3. Versions!Begin(c, asked) /\ Versions!Matches(c, r)
        /\ UNCHANGED <<table, draft, row, writes, tags, shown>>
    BY <1>2 DEF Versions!EditLoad
  <2>4. asked.pc = "edit" /\ asked.row = r /\ asked.read = row[r]
    OBVIOUS
  <2> HIDE DEF asked
  <2> QED BY <1>2, <2>1, <2>2, <2>3, <2>4 DEF Begins
<1>3. ASSUME NEW r \in Rows, NEW pc \in {"new", "drop", "cite"},
             Versions!Begin(c, [pc |-> pc, row |-> r]),
             UNCHANGED <<table, draft, row, writes, tags, shown>>,
             pc = "drop" => /\ r \in Versions!Present /\ Versions!Matches(c, r)
                            /\ Machine(r) \/ (r \in Versions!In({"modelPart"}) /\ r \in draft),
             pc = "new" => Sheet(r)
      PROVE  Begins(c)
  <2> DEFINE asked == [pc |-> pc, row |-> r]
  <2>1. asked \in Versions!Job \ {Versions!Idle}
    BY DEF Versions!Job, Versions!Idle
  <2>2. asked.pc = pc /\ asked.row = r
    OBVIOUS
  <2>3. Versions!Begin(c, asked)
    BY <1>3
  <2> HIDE DEF asked
  <2> QED BY <1>3, <2>1, <2>2, <2>3 DEF Begins
<1>4. ASSUME NEW r \in Rows,
             \/ Versions!PatchProduct(c, r) \/ Versions!PatchModel(c, r)
             \/ Versions!PatchModelPart(c, r) \/ Versions!PatchMachine(c, r)
             \/ Versions!PutExisting(c, r)
      PROVE  UNCHANGED <<table, draft, row, writes, tags>> /\ Begins(c)
  BY <1>2, <1>4 DEF Versions!PatchProduct, Versions!PatchModel, Versions!PatchModelPart,
     Versions!PatchMachine, Versions!PutExisting, Sheet, Machine
<1>5. ASSUME NEW r \in Rows, Versions!PutNew(c, r)
      PROVE  UNCHANGED <<table, draft, row, writes, tags>> /\ Begins(c)
  BY <1>3, <1>5 DEF Versions!PutNew, Sheet
<1>6. ASSUME NEW r \in Rows, Versions!DropMachine(c, r) \/ Versions!DropPart(c, r)
      PROVE  UNCHANGED <<table, draft, row, writes, tags>> /\ Begins(c)
  BY <1>3, <1>6 DEF Versions!DropMachine, Versions!DropPart, Machine
<1>7. ASSUME NEW r \in Rows, Versions!CiteLoad(c, r)
      PROVE  UNCHANGED <<table, draft, row, writes, tags>> /\ Begins(c)
  BY <1>3, <1>7 DEF Versions!CiteLoad
<1>8. ASSUME Versions!CiteCommit(c) \/ Versions!Abort(c)
      PROVE  UNCHANGED <<table, draft, row, writes, tags>> /\ Ends(c)
  BY <1>8 DEF Versions!CiteCommit, Versions!Abort, Ends, Asked, Versions!Idle
<1> QED
  BY <1>1, <1>4, <1>5, <1>6, <1>7, <1>8 DEF Reads

(* The requests that are running after a step.                             *)
LEMMA EditsAfter ==
    ASSUME RowTyped, NEW c \in Clients, Begins(c) \/ Ends(c) \/ Shows(c)
    PROVE  /\ edit' \in [Clients -> Versions!Job] /\ lapped' \in BOOLEAN
           /\ \A d \in Clients \ {c} : edit'[d] = edit[d] /\ shown'[d] = shown[d]
           /\ ~lapped' => ~lapped
           /\ shown' \in [Clients -> {Versions!NoTag} \cup Versions!ETag]
<1>1. CASE Begins(c)
  BY <1>1 DEF Begins, Versions!Begin, Versions!Overlap, RowTyped
<1>2. CASE Ends(c)
  BY <1>2 DEF Ends, Versions!Finish, RowTyped, Versions!Job
<1>3. CASE Shows(c)
  <2>1. PICK r \in Versions!Present : shown' = [shown EXCEPT ![c] = Versions!Tag(r, row[r])]
    BY <1>3 DEF Shows
  <2>2. r \in Rows /\ row[r] \in Versions!Version
    BY <2>1, TablesDiffer DEF Versions!Present
  <2>3. Versions!Tag(r, row[r]) \in Versions!ETag
    BY <2>2 DEF Versions!Tag, Versions!ETag, Versions!Version
  <2> QED BY <1>3, <2>1, <2>3 DEF Shows, RowTyped
<1> QED
  BY <1>1, <1>2, <1>3

(* A step that writes no row keeps the invariant.                          *)
LEMMA ReadsKeep ==
    ASSUME RowInv, NEW c \in Clients, Reads(c)
    PROVE  RowInv'
<1>1. /\ UNCHANGED <<table, draft, row, writes, tags>>
      /\ Begins(c) \/ Ends(c) \/ Shows(c)
  BY ReadsAre DEF RowInv
<1>2. /\ edit' \in [Clients -> Versions!Job] /\ lapped' \in BOOLEAN
      /\ \A d \in Clients \ {c} : edit'[d] = edit[d] /\ shown'[d] = shown[d]
      /\ ~lapped' => ~lapped
      /\ shown' \in [Clients -> {Versions!NoTag} \cup Versions!ETag]
  BY <1>1, EditsAfter DEF RowInv
<1>3. RowTyped'
  BY <1>1, <1>2 DEF RowInv, RowTyped
<1>4. NewestIsRow'
  BY <1>1, <1>2 DEF RowInv, NewestIsRow, Sheet, Versions!In
<1>6. \A d \in Clients \ {c} : Asked(d)' <=> Asked(d)
  BY <1>2 DEF Asked
<1>7. CASE Begins(c)
  <2>1. PICK r \in Rows, asked \in Versions!Job \ {Versions!Idle} :
       /\ Versions!Begin(c, asked) /\ asked.row = r
       /\ UNCHANGED shown
       /\ asked.pc \in {"edit", "drop"} =>
            /\ r \in Versions!Present /\ Versions!Matches(c, r)
            /\ Sheet(r) \/ Machine(r) \/ r \in draft
       /\ asked.pc = "edit" => asked.read = row[r]
       /\ asked.pc = "drop" => Machine(r) \/ (r \in Versions!In({"modelPart"}) /\ r \in draft)
       /\ asked.pc = "new" => Sheet(r)
    BY <1>7 DEF Begins
  <2>2. edit'[c] = asked /\ ~Asked(c)
    BY <2>1 DEF Versions!Begin, RowInv, RowTyped, Asked
  <2>3. ~lapped' => \A d \in Clients : ~Asked(d)
    BY <2>1 DEF Versions!Begin, Versions!Overlap, Asked
  <2>4. Made'
    BY <1>1, <1>2, <1>6, <2>1, <2>2 DEF RowInv, Made, Sheet, Machine, Versions!In, Versions!Present,
       Versions!Owners
  <2>5. ShownIsTagged'
    BY <1>1, <2>1 DEF RowInv, ShownIsTagged, Genuine, Versions!In
  <2>6. AskedAlone'
    BY <1>1, <1>2, <1>6, <2>1, <2>2, <2>3 DEF AskedAlone, Versions!Matches, Sheet, Machine, Versions!In, Versions!Present,
       Versions!Owners
  <2> QED BY <1>3, <1>4, <2>4, <2>5, <2>6 DEF RowInv
<1>8. CASE Ends(c)
  <2>1. ~Asked(c)' /\ Asked(c)
    BY <1>8 DEF Ends, Versions!Finish, Asked, RowInv, RowTyped
  <2>2. shown' = shown
    BY <1>8 DEF Ends
  <2>3. Made'
    BY <1>1, <1>2, <1>6, <2>1 DEF RowInv, Made, Sheet, Machine, Versions!In, Versions!Present,
       Versions!Owners
  <2>5. ShownIsTagged'
    BY <1>1, <2>2 DEF RowInv, ShownIsTagged, Genuine, Versions!In
  <2>6. AskedAlone'
    BY <1>2, <1>6, <2>1 DEF RowInv, AskedAlone
  <2> QED BY <1>3, <1>4, <2>3, <2>5, <2>6 DEF RowInv
<1>9. CASE Shows(c)
  <2>1. PICK r \in Versions!Present :
          /\ ~Asked(c) /\ UNCHANGED <<edit, lapped>>
          /\ shown' = [shown EXCEPT ![c] = Versions!Tag(r, row[r])]
    BY <1>9 DEF Shows
  <2>2. \A d \in Clients : Asked(d)' <=> Asked(d)
    BY <2>1 DEF Asked
  <2>3. Made'
    BY <1>1, <2>1, <2>2 DEF RowInv, Made, Sheet, Machine, Versions!In, Versions!Present,
       Versions!Owners
  <2>4. row[r] \in tags[r] /\ row[r] \in Versions!Version /\ r \in Rows
    BY <2>1, TablesDiffer DEF RowInv, NewestIsRow, Versions!Present
  <2>5. row[r] = [version |-> row[r].version, content |-> row[r].content]
    BY <2>4 DEF Versions!Version
  <2>6. ShownIsTagged'
    <3> SUFFICES ASSUME NEW d \in Clients, shown'[d] # Versions!NoTag
                 PROVE  /\ [version |-> shown'[d].version, content |-> shown'[d].content]
                             \in tags'[shown'[d].row]
                        /\ shown'[d].read \/ shown'[d].row \in Versions!In({"model"})'
      BY DEF ShownIsTagged, Genuine
    <3>1. CASE d = c
      <4>1. shown'[d] = Versions!Tag(r, row[r])
        BY <2>1, <3>1 DEF RowInv, RowTyped
      <4> QED BY <1>1, <2>4, <4>1, TagFacts
    <3>2. CASE d # c
      BY <1>1, <1>2, <3>2, TagStays
    <3> QED BY <3>1, <3>2
  <2>7. AskedAlone'
    BY <1>1, <1>2, <2>1, <2>2 DEF RowInv, AskedAlone, Versions!Matches, Sheet, Machine, Versions!In, Versions!Present,
       Versions!Owners
  <2> QED BY <1>3, <1>4, <2>3, <2>6, <2>7 DEF RowInv
<1> QED
  BY <1>1, <1>7, <1>8, <1>9

(* A write of a row: a version that is new to it.                          *)
LEMMA WriteKeeps ==
    ASSUME RowInv, NEW c \in Clients, NEW r \in Rows, NEW version \in Nat,
           Versions!Write(c, r, version), UNCHANGED <<table, draft>>,
           row[r] = Versions!NoRow => Sheet(r) \/ writes[r] = 0,
           row[r] # Versions!NoRow /\ (Sheet(r) => ~lapped') => version > row[r].version,
           ~lapped' => ~lapped
    PROVE  /\ row' \in [Rows -> {Versions!NoRow} \cup Versions!Version]
           /\ writes' \in [Rows -> Nat] /\ writes'[r] > 0
           /\ \A q \in Rows \ {r} : row'[q] = row[q] /\ writes'[q] = writes[q]
           /\ row'[r] # Versions!NoRow
           /\ tags' \in [Rows -> SUBSET Versions!Version]
           /\ shown' \in [Clients -> {Versions!NoTag} \cup Versions!ETag]
           /\ NewestIsRow' /\ ShownIsTagged'
<1>1. PICK content \in Nat : content = writes[r] + 1
  BY DEF RowInv, RowTyped
<1> DEFINE v == [version |-> version, content |-> content]
<1>2. v \in Versions!Version /\ v # Versions!NoRow
  <2>1. v \in Versions!Version
    BY DEF Versions!Version
  <2>2. "version" \in DOMAIN v /\ "version" \notin DOMAIN [row |-> "none"]
    OBVIOUS
  <2> QED BY <2>1, <2>2 DEF Versions!NoRow
<1>3. /\ writes' = [writes EXCEPT ![r] = @ + 1] /\ row' = [row EXCEPT ![r] = v]
      /\ tags' = [tags EXCEPT ![r] = @ \cup {v}]
      /\ shown' = [shown EXCEPT ![c] = Versions!Tag(r, v)]
  BY <1>1 DEF Versions!Write
<1>4. v.version = version /\ v.content = content
  OBVIOUS
<1> HIDE DEF v
<1>5. Versions!Tag(r, v) \in Versions!ETag
  BY <1>2, TagFacts
<1>7. /\ row' \in [Rows -> {Versions!NoRow} \cup Versions!Version]
      /\ tags' \in [Rows -> SUBSET Versions!Version]
      /\ writes' \in [Rows -> Nat] /\ writes'[r] > 0
      /\ \A q \in Rows \ {r} : row'[q] = row[q] /\ writes'[q] = writes[q] /\ tags'[q] = tags[q]
      /\ row'[r] = v /\ tags'[r] = tags[r] \cup {v}
      /\ shown' \in [Clients -> {Versions!NoTag} \cup Versions!ETag]
  BY <1>2, <1>3, <1>5 DEF RowInv, RowTyped
<1>8. NewestIsRow'
  <2>1. \A q : Sheet(q)' <=> Sheet(q)
    BY DEF Sheet, Versions!In
  <2>2. ASSUME NEW q \in Rows
        PROVE  /\ row'[q] # Versions!NoRow => row'[q] \in tags'[q]
               /\ row'[q] = Versions!NoRow /\ (Sheet(q)' \/ writes'[q] = 0) => tags'[q] = {}
               /\ (Sheet(q)' => ~lapped')
                  => /\ \A x, y \in tags'[q] : x.version = y.version => x.content = y.content
                     /\ row'[q] # Versions!NoRow =>
                          \A x \in tags'[q] : x.version <= row'[q].version
    <3>1. CASE q # r
      BY <1>7, <2>1, <3>1 DEF RowInv, NewestIsRow
    <3>2. CASE q = r
      <4>1. row'[r] # Versions!NoRow /\ row'[r] \in tags'[r]
        BY <1>2, <1>7
      <4>2. ASSUME Sheet(r) => ~lapped'
            PROVE  \A x \in tags[r] : x.version < version /\ x.version \in Nat
        <5>1. CASE row[r] = Versions!NoRow
          BY <5>1 DEF RowInv, NewestIsRow
        <5>2. CASE row[r] # Versions!NoRow
          <6>1. row[r] \in Versions!Version /\ version > row[r].version
            BY <4>2, <5>2 DEF RowInv, RowTyped
          <6>2. \A x \in tags[r] : x.version <= row[r].version /\ x \in Versions!Version
            BY <4>2, <5>2 DEF RowInv, NewestIsRow, RowTyped
          <6> QED BY <6>1, <6>2 DEF Versions!Version
        <5> QED BY <5>1, <5>2
      <4>3. (Sheet(r) => ~lapped') =>
               \A x, y \in tags[r] : x.version = y.version => x.content = y.content
        BY DEF RowInv, NewestIsRow
      <4> QED BY <1>4, <1>7, <2>1, <3>2, <4>1, <4>2, <4>3
    <3> QED BY <3>1, <3>2
  <2> QED BY <2>2 DEF NewestIsRow
<1>9. ShownIsTagged'
  <2> SUFFICES ASSUME NEW d \in Clients, shown'[d] # Versions!NoTag
               PROVE  /\ [version |-> shown'[d].version, content |-> shown'[d].content]
                           \in tags'[shown'[d].row]
                      /\ shown'[d].read \/ shown'[d].row \in Versions!In({"model"})'
    BY DEF ShownIsTagged, Genuine
  <2>1. CASE d = c
    <3>1. shown'[d] = Versions!Tag(r, v)
      BY <1>3, <2>1 DEF RowInv, RowTyped
    <3> QED BY <1>2, <1>7, <3>1, TagFacts
  <2>2. CASE d # c
    <3>1. shown'[d] = shown[d]
      BY <1>3, <2>2 DEF RowInv, RowTyped
    <3>2. \A q \in Rows : tags[q] \subseteq tags'[q]
      BY <1>7
    <3> QED BY <3>1, <3>2, TagStays
  <2> QED BY <2>1, <2>2
<1> QED
  BY <1>2, <1>7, <1>8, <1>9

(* So does a new row.                                                      *)
LEMMA CreateKeeps ==
    ASSUME RowInv, NEW c \in Clients, NEW r \in Rows, Versions!Create(c, r)
    PROVE  RowInv'
<1>1. /\ r \notin Versions!Present /\ Versions!Owners(r) \subseteq Versions!Present
      /\ writes[r] = 0 /\ Versions!Write(c, r, 1) /\ UNCHANGED <<table, draft, edit>>
      /\ Versions!Overlap
  BY DEF Versions!Create
<1>2. row[r] = Versions!NoRow
  BY <1>1 DEF Versions!Present
<1>3. /\ lapped' \in BOOLEAN
      /\ ~lapped' => ~lapped
      /\ ~lapped' => \A d \in Clients : ~Asked(d)'
  BY <1>1 DEF Versions!Overlap, Asked, RowInv, RowTyped
<1>4. /\ row' \in [Rows -> {Versions!NoRow} \cup Versions!Version]
      /\ writes' \in [Rows -> Nat] /\ writes'[r] > 0
      /\ \A q \in Rows \ {r} : row'[q] = row[q] /\ writes'[q] = writes[q]
      /\ row'[r] # Versions!NoRow
      /\ tags' \in [Rows -> SUBSET Versions!Version]
      /\ shown' \in [Clients -> {Versions!NoTag} \cup Versions!ETag]
      /\ NewestIsRow' /\ ShownIsTagged'
  BY <1>1, <1>2, <1>3, WriteKeeps
<1>5. RowTyped'
  BY <1>1, <1>3, <1>4 DEF RowInv, RowTyped
<1>6. Made'
  BY <1>1, <1>4 DEF RowInv, Made, Asked, Machine, Sheet, Versions!In, Versions!Present,
     Versions!Owners
<1>7. AskedAlone'
  BY <1>3 DEF AskedAlone
<1> QED
  BY <1>4, <1>5, <1>6, <1>7 DEF RowInv

(* A request that ends leaves fewer running.                               *)
LEMMA FinishKeeps ==
    ASSUME RowInv, NEW c \in Clients, Asked(c), Versions!Finish(c)
    PROVE  /\ edit' \in [Clients -> Versions!Job] /\ lapped' = lapped
           /\ ~Asked(c)' /\ \A d \in Clients \ {c} : edit'[d] = edit[d]
           /\ AskedAlone'
<1>1. /\ edit' \in [Clients -> Versions!Job] /\ lapped' = lapped
      /\ edit'[c] = Versions!Idle /\ \A d \in Clients \ {c} : edit'[d] = edit[d]
  BY DEF Versions!Finish, RowInv, RowTyped, Versions!Job
<1>2. ~lapped' => \A d \in Clients : ~Asked(d)'
  BY <1>1 DEF RowInv, AskedAlone, Asked
<1> QED
  BY <1>1, <1>2 DEF AskedAlone, Asked

(* A commit of an edit or of a new sheet keeps the invariant.              *)
LEMMA CommitKeeps ==
    ASSUME RowInv, NEW c \in Clients, Versions!EditCommit(c) \/ Versions!NewCommit(c)
    PROVE  RowInv'
<1>1. /\ Asked(c) /\ edit[c].pc \in {"edit", "new"} /\ Versions!Finish(c)
      /\ UNCHANGED <<table, draft, cited>>
  BY DEF Versions!EditCommit, Versions!NewCommit, Asked, Versions!Idle
<1>2. PICK r \in Rows : r = edit[c].row
  BY <1>1, EditFacts DEF RowInv
<1>3. /\ edit' \in [Clients -> Versions!Job] /\ lapped' = lapped /\ ~Asked(c)'
      /\ \A d \in Clients \ {c} : edit'[d] = edit[d]
      /\ AskedAlone'
  BY <1>1, FinishKeeps
<1>4. PICK version \in Nat :
         /\ Versions!Write(c, r, version)
         /\ row[r] = Versions!NoRow => Sheet(r)
         /\ row[r] # Versions!NoRow /\ (Sheet(r) => ~lapped') => version > row[r].version
  <2>1. CASE Versions!EditCommit(c)
    <3>1. /\ edit[c].pc = "edit" /\ r \in Versions!Present
          /\ Versions!Write(c, r, Versions!NextVersion(r, edit[c].read))
      BY <1>2, <2>1 DEF Versions!EditCommit
    <3>2. /\ edit[c].read.version \in Nat /\ row[r].version \in Nat /\ row[r] # Versions!NoRow
      BY <1>1, <1>2, <3>1, EditFacts, TablesDiffer DEF RowInv, Versions!Version
    <3>3. Sheet(r) /\ ~lapped' => edit[c].read = row[r]
      BY <1>1, <1>2, <1>3, <3>1 DEF RowInv, AskedAlone
    <3>4. PICK version \in Nat : version = Versions!NextVersion(r, edit[c].read)
      BY <3>2 DEF Versions!NextVersion
    <3>5. (Sheet(r) => ~lapped') => version > row[r].version
      BY <3>2, <3>3, <3>4 DEF Versions!NextVersion, Sheet
    <3> QED BY <3>1, <3>2, <3>4, <3>5
  <2>2. CASE Versions!NewCommit(c)
    BY <1>1, <1>2, <2>2 DEF Versions!NewCommit, RowInv, Made
  <2> QED BY <2>1, <2>2
<1>5. /\ row' \in [Rows -> {Versions!NoRow} \cup Versions!Version]
      /\ writes' \in [Rows -> Nat] /\ writes'[r] > 0
      /\ \A q \in Rows \ {r} : row'[q] = row[q] /\ writes'[q] = writes[q]
      /\ row'[r] # Versions!NoRow
      /\ tags' \in [Rows -> SUBSET Versions!Version]
      /\ shown' \in [Clients -> {Versions!NoTag} \cup Versions!ETag]
      /\ NewestIsRow' /\ ShownIsTagged'
  BY <1>1, <1>3, <1>4, WriteKeeps
<1>6. RowTyped'
  BY <1>1, <1>3, <1>5 DEF RowInv, RowTyped
<1>7. Versions!Owners(r) \subseteq Versions!Present
  <2>1. CASE r \in Versions!Present
    BY <2>1 DEF RowInv, Made
  <2>2. CASE r \notin Versions!Present
    <3>1. Sheet(r)
      BY <1>4, <2>2, TablesDiffer DEF RowInv
    <3> QED BY <3>1, TablesDiffer DEF RowInv
  <2> QED BY <2>1, <2>2
<1>8. Made'
  BY <1>1, <1>3, <1>5, <1>7 DEF RowInv, Made, Asked, Machine, Sheet, Versions!In,
     Versions!Present, Versions!Owners
<1> QED
  BY <1>3, <1>5, <1>6, <1>8 DEF RowInv

(* A deletion takes its row and gives the model of a part a new version,   *)
(* with the content it has.                                                *)
LEMMA DropKeeps ==
    ASSUME RowInv, NEW c \in Clients, Versions!DropCommit(c)
    PROVE  RowInv'
<1>1. /\ Asked(c) /\ edit[c].pc = "drop" /\ Versions!Finish(c) /\ edit[c].row \in Versions!Present
      /\ UNCHANGED <<table, draft, writes>>
  BY DEF Versions!DropCommit, Asked, Versions!Idle
<1>2. PICK r \in Rows : r = edit[c].row
  BY <1>1, EditFacts DEF RowInv
<1>3. /\ edit' \in [Clients -> Versions!Job] /\ lapped' = lapped /\ ~Asked(c)'
      /\ \A d \in Clients \ {c} : edit'[d] = edit[d]
      /\ AskedAlone'
  BY <1>1, FinishKeeps
<1>4. /\ r \in Versions!Present /\ (Machine(r) \/ (table[r] = "modelPart" /\ r \in draft))
      /\ writes[r] > 0 /\ ~Sheet(r)
  BY <1>1, <1>2, TablesDiffer DEF RowInv, Made
<1>5. \A q \in Versions!Owners(r) : q \in Rows /\ table[q] = "model" /\ row[q] \in Versions!Version
                                    /\ q # r
  <2> SUFFICES ASSUME NEW q \in Versions!Owners(r)
               PROVE  q \in Rows /\ table[q] = "model" /\ row[q] \in Versions!Version /\ q # r
    OBVIOUS
  <2>1. q \in Versions!Present
    BY <1>4 DEF RowInv, Made
  <2>2. q \in Rows /\ table[q] = "model" /\ table[r] = "modelPart"
    BY TablesDiffer DEF RowInv
  <2> QED BY <2>1, <2>2, TablesDiffer DEF RowInv
<1> DEFINE bumped(q) == [row[q] EXCEPT !.version = @ + 1]
<1>6. \A q \in Versions!Owners(r) :
         /\ bumped(q) \in Versions!Version /\ bumped(q).version = row[q].version + 1
         /\ bumped(q).content = row[q].content /\ row[q].version \in Nat
         /\ bumped(q) # Versions!NoRow
  <2> SUFFICES ASSUME NEW q \in Versions!Owners(r)
               PROVE  /\ bumped(q) \in Versions!Version /\ bumped(q).version = row[q].version + 1
                      /\ bumped(q).content = row[q].content /\ row[q].version \in Nat
                      /\ bumped(q) # Versions!NoRow
    OBVIOUS
  <2>1. row[q] \in Versions!Version
    BY <1>5
  <2>2. /\ bumped(q) \in Versions!Version /\ bumped(q).version = row[q].version + 1
        /\ bumped(q).content = row[q].content /\ row[q].version \in Nat
    BY <2>1 DEF Versions!Version
  <2>3. \A v \in Versions!Version : v # Versions!NoRow
    <3>1. ASSUME NEW v \in Versions!Version PROVE "version" \in DOMAIN v
      BY <3>1 DEF Versions!Version
    <3>2. "version" \notin DOMAIN [row |-> "none"]
      OBVIOUS
    <3> QED BY <3>1, <3>2 DEF Versions!NoRow
  <2> QED BY <2>2, <2>3
<1>7. /\ row' = [q \in Rows |-> IF q = r THEN Versions!NoRow
                                ELSE IF q \in Versions!Owners(r) THEN bumped(q) ELSE row[q]]
      /\ tags' = [q \in Rows |-> IF q \in Versions!Owners(r) THEN tags[q] \cup {bumped(q)}
                                 ELSE tags[q]]
      /\ \/ UNCHANGED shown
         \/ \E m \in Versions!Owners(r) :
              shown' = [shown EXCEPT ![c] = Versions!Unread(m, bumped(m))]
  BY <1>2 DEF Versions!DropCommit
<1> HIDE DEF bumped
<1>8. /\ row'[r] = Versions!NoRow /\ tags'[r] = tags[r]
      /\ \A q \in Versions!Owners(r) : row'[q] = bumped(q) /\ tags'[q] = tags[q] \cup {bumped(q)}
      /\ \A q \in Rows \ ({r} \cup Versions!Owners(r)) : row'[q] = row[q] /\ tags'[q] = tags[q]
  BY <1>5, <1>7
<1>9. RowTyped'
  <2>1. row' \in [Rows -> {Versions!NoRow} \cup Versions!Version]
    BY <1>6, <1>7 DEF RowInv, RowTyped
  <2>2. tags' \in [Rows -> SUBSET Versions!Version]
    BY <1>6, <1>7 DEF RowInv, RowTyped
  <2>3. shown' \in [Clients -> {Versions!NoTag} \cup Versions!ETag]
    BY <1>5, <1>6, <1>7, TagFacts DEF RowInv, RowTyped
  <2> QED BY <1>1, <1>3, <2>1, <2>2, <2>3 DEF RowInv, RowTyped
<1>10. Versions!Present' = Versions!Present \ {r}
  <2>1. \A q \in Rows : row'[q] # Versions!NoRow <=> (row[q] # Versions!NoRow /\ q # r)
    <3> SUFFICES ASSUME NEW q \in Rows
                 PROVE  row'[q] # Versions!NoRow <=> (row[q] # Versions!NoRow /\ q # r)
      OBVIOUS
    <3>1. CASE q \in Versions!Owners(r)
      <4>1. q \in Versions!Present
        BY <1>4, <3>1 DEF RowInv, Made
      <4> QED BY <1>5, <1>6, <1>8, <3>1, <4>1 DEF Versions!Present
    <3>2. CASE q \notin Versions!Owners(r)
      BY <1>8, <3>2
    <3> QED BY <3>1, <3>2
  <2> QED BY <2>1 DEF Versions!Present
<1>11. Made'
  <2>1. \A q \in Rows : r \notin Versions!Owners(q)
    BY <1>4, TablesDiffer DEF RowInv
  <2>2. \A q \in Rows : Versions!Owners(q)' = Versions!Owners(q)
    BY <1>1 DEF Versions!Owners, Versions!In
  <2>3. \A q \in Versions!Present' : Versions!Owners(q)' \subseteq Versions!Present'
    <3> SUFFICES ASSUME NEW q \in Versions!Present \ {r}
                 PROVE  Versions!Owners(q)' \subseteq Versions!Present \ {r}
      BY <1>10
    <3>1. q \in Rows /\ Versions!Owners(q) \subseteq Versions!Present
      BY DEF RowInv, Made, Versions!Present
    <3> QED BY <2>1, <2>2, <3>1
  <2>4. \A q \in Versions!Present' : Machine(q)' \/ q \in draft' => writes'[q] > 0
    BY <1>1, <1>10 DEF RowInv, Made, Machine, Versions!In
  <2>5. /\ \A d \in Clients : Asked(d)' /\ edit'[d].pc = "drop" =>
             Machine(edit[d].row)' \/ (edit'[d].row \in Versions!In({"modelPart"})'
                                       /\ edit'[d].row \in draft')
        /\ \A d \in Clients : Asked(d)' /\ edit'[d].pc = "new" => Sheet(edit[d].row)'
    BY <1>1, <1>3 DEF RowInv, Made, Asked, Machine, Sheet, Versions!In
  <2> QED BY <2>3, <2>4, <2>5 DEF Made
<1>12. NewestIsRow'
  <2>1. \A q : Sheet(q)' <=> Sheet(q)
    BY <1>1 DEF Sheet, Versions!In
  <2>2. ASSUME NEW q \in Rows
        PROVE  /\ row'[q] # Versions!NoRow => row'[q] \in tags'[q]
               /\ row'[q] = Versions!NoRow /\ (Sheet(q)' \/ writes'[q] = 0) => tags'[q] = {}
               /\ (Sheet(q)' => ~lapped')
                  => /\ \A x, y \in tags'[q] : x.version = y.version => x.content = y.content
                     /\ row'[q] # Versions!NoRow =>
                          \A x \in tags'[q] : x.version <= row'[q].version
    <3>1. CASE q = r
      BY <1>1, <1>3, <1>4, <1>8, <2>1, <3>1 DEF RowInv, NewestIsRow
    <3>2. CASE q \in Versions!Owners(r)
      <4>1. q # r /\ row[q] # Versions!NoRow /\ ~Sheet(q)
        <5>1. q \in Versions!Present
          BY <1>4, <3>2 DEF RowInv, Made
        <5> QED BY <1>5, <3>2, <5>1, TablesDiffer DEF RowInv, Versions!Present
      <4>2. /\ row[q] \in tags[q]
            /\ \A x, y \in tags[q] : x.version = y.version => x.content = y.content
            /\ \A x \in tags[q] : x.version <= row[q].version
        BY <4>1 DEF RowInv, NewestIsRow
      <4>3. \A x \in tags[q] : x.version \in Nat
        BY DEF RowInv, RowTyped, Versions!Version
      <4> QED BY <1>6, <1>8, <3>2, <4>2, <4>3
    <3>3. CASE q \notin {r} \cup Versions!Owners(r)
      BY <1>1, <1>3, <1>8, <2>1, <3>3 DEF RowInv, NewestIsRow
    <3> QED BY <3>1, <3>2, <3>3
  <2> QED BY <2>2 DEF NewestIsRow
<1>13. ShownIsTagged'
  <2> SUFFICES ASSUME NEW d \in Clients, shown'[d] # Versions!NoTag
               PROVE  /\ [version |-> shown'[d].version, content |-> shown'[d].content]
                           \in tags'[shown'[d].row]
                      /\ shown'[d].read \/ shown'[d].row \in Versions!In({"model"})'
    BY DEF ShownIsTagged, Genuine
  <2>1. \A q \in Rows : tags[q] \subseteq tags'[q]
    BY <1>8
  <2>2. CASE shown'[d] = shown[d]
    BY <1>1, <2>1, <2>2, TagStays
  <2>3. CASE shown'[d] # shown[d]
    <3>1. PICK m \in Versions!Owners(r) : shown'[d] = Versions!Unread(m, bumped(m))
      BY <1>7, <2>3 DEF RowInv, RowTyped
    <3>2. m \in Rows /\ bumped(m) \in Versions!Version /\ bumped(m) \in tags'[m]
      BY <1>5, <1>6, <1>8
    <3>3. m \in Versions!In({"model"})'
      BY <1>1, <1>5, <3>2 DEF Versions!In
    <3> QED BY <3>1, <3>2, <3>3, TagFacts
  <2> QED BY <2>2, <2>3
<1> QED
  BY <1>3, <1>9, <1>11, <1>12, <1>13 DEF RowInv

(* The steps of a client: those that read, and those that write.           *)
LEMMA RowSteps ==
    ASSUME Versions!Next
    PROVE  \E c \in Clients :
             \/ Reads(c) \/ Versions!EditCommit(c) \/ Versions!NewCommit(c)
             \/ Versions!DropCommit(c) \/ \E r \in Rows : Versions!Create(c, r)
  BY DEF Versions!Next, Versions!Proceed, Versions!CatalogRequest, Versions!FloorRequest,
     Reads

(* Every step keeps the invariant.                                         *)
LEMMA RowStep ==
    ASSUME RowInv, [Versions!Next]_versionVars
    PROVE  RowInv'
<1>1. CASE Versions!Next
  BY <1>1, RowSteps, ReadsKeep, CreateKeeps, CommitKeeps, DropKeeps
<1>2. CASE UNCHANGED versionVars
  BY <1>2 DEF versionVars, RowInv, RowTyped, Made, NewestIsRow, ShownIsTagged, AskedAlone,
     Genuine, Asked, Sheet, Machine, Versions!In, Versions!Present, Versions!Owners,
     Versions!Matches
<1> QED
  BY <1>1, <1>2

(* The inductive invariant of rows that are edited under their versions.   *)
LEMMA RowInductive == Versions!Spec => []RowInv
<1>1. Versions!Init => RowInv
  BY RowInit
<1>2. RowInv /\ [Versions!Next]_(Versions!vars) => RowInv'
  BY RowStep DEF versionVars, Versions!vars
<1> QED
  BY <1>1, <1>2, PTL DEF Versions!Spec

(* For any rows, tables and editors: a version of a row names one content, *)
(* always where the database counts it, until two requests overlap where   *)
(* the handler does.                                                       *)
THEOREM VersionsNameContent == Versions!Spec => []VersionNamesContent
<1>1. RowInv => VersionNamesContent
  BY DEF RowInv, NewestIsRow, Sheet, VersionNamesContent, Versions!VersionNamesContent
<1> QED
  BY <1>1, RowInductive, PTL

(* Whoever ends the request that ran alone has a tag of what it writes     *)
(* over.                                                                   *)
LEMMA EndsSighted ==
    ASSUME RowInv, ~lapped, NEW c \in Clients, Asked(c), edit[c].pc \in {"edit", "drop"},
           NEW r \in Rows, r = edit[c].row
    PROVE  /\ r \in Versions!In(Versions!Catalog) => r \in draft
           /\ shown[c] # Versions!NoTag /\ shown[c].row = r
           /\ shown[c].content = row[r].content
           /\ shown[c].read \/ r \in Versions!In({"model"})
<1>1. /\ r \in Versions!Present /\ shown[c] # Versions!NoTag /\ shown[c].row = r
      /\ shown[c].version = row[r].version
      /\ Sheet(r) \/ Machine(r) \/ r \in draft
  BY DEF RowInv, AskedAlone, Versions!Matches
<1>2. /\ [version |-> shown[c].version, content |-> shown[c].content] \in tags[r]
      /\ shown[c].read \/ r \in Versions!In({"model"})
      /\ row[r] \in tags[r] /\ row[r] \in Versions!Version
  BY <1>1, TablesDiffer DEF RowInv, RowTyped, ShownIsTagged, Genuine, NewestIsRow
<1>3. shown[c].content = row[r].content
  <2>1. PICK v \in tags[r] : v.version = shown[c].version /\ v.content = shown[c].content
    BY <1>2
  <2>2. \A x, y \in tags[r] : x.version = y.version => x.content = y.content
    BY DEF RowInv, NewestIsRow
  <2> QED BY <1>1, <1>2, <2>1, <2>2
<1>4. r \in Versions!In(Versions!Catalog) => r \in draft
  BY <1>1, TablesDiffer DEF RowInv
<1> QED
  BY <1>1, <1>2, <1>3, <1>4

(* For any rows and editors: until two requests overlap, nobody writes     *)
(* over what has changed since it was given its tag, it was shown what it  *)
(* writes over unless that is a model, and published rows stay.            *)
THEOREM EditsAreSighted == Versions!Spec => NoLostUpdate
<1> DEFINE Sighted ==
      \A r \in Versions!Present :
        row'[r] # row[r] =>
           \/ /\ row'[r] # Versions!NoRow
              /\ row'[r].content = row[r].content
           \/ /\ r \in Versions!In(Versions!Catalog) => r \in draft
              /\ \E c \in Clients :
                    /\ edit[c] # Versions!Idle /\ edit'[c] = Versions!Idle
                    /\ shown[c] # Versions!NoTag /\ shown[c].row = r
                    /\ shown[c].content = row[r].content
                    /\ shown[c].read \/ r \in Versions!In({"model"})
<1>1. RowInv /\ [Versions!Next]_(Versions!vars) => [~lapped' => Sighted]_(Versions!vars)
  <2> SUFFICES ASSUME RowInv, Versions!Next, ~lapped' PROVE Sighted
    OBVIOUS
  <2>1. PICK c \in Clients :
           \/ Reads(c) \/ Versions!EditCommit(c) \/ Versions!NewCommit(c)
           \/ Versions!DropCommit(c) \/ \E r \in Rows : Versions!Create(c, r)
    BY RowSteps
  <2>2. CASE Reads(c)
    <3>1. row' = row
      BY <2>2, ReadsAre DEF RowInv
    <3> QED BY <3>1
  <2>3. CASE (\E r \in Rows : Versions!Create(c, r)) \/ Versions!NewCommit(c)
    <3>1. PICK r \in Rows : r \notin Versions!Present /\ \E v : row' = [row EXCEPT ![r] = v]
      <4>1. CASE \E r \in Rows : Versions!Create(c, r)
        BY <4>1 DEF Versions!Create, Versions!Write
      <4>2. CASE Versions!NewCommit(c)
        <5>1. Asked(c)
          BY <4>2 DEF Versions!NewCommit, Asked, Versions!Idle
        <5>2. edit[c].row \in Rows
          BY <5>1, EditFacts DEF RowInv
        <5> QED BY <4>2, <5>2 DEF Versions!NewCommit, Versions!Write, Versions!Present
      <4> QED BY <2>3, <4>1, <4>2
    <3>2. \A q \in Versions!Present : row'[q] = row[q]
      BY <3>1 DEF Versions!Present, RowInv, RowTyped
    <3> QED BY <3>2
  <2>4. CASE Versions!EditCommit(c) \/ Versions!DropCommit(c)
    <3>1. /\ Asked(c) /\ edit[c].pc \in {"edit", "drop"} /\ Versions!Finish(c)
      BY <2>4 DEF Versions!EditCommit, Versions!DropCommit, Asked, Versions!Idle
    <3>2. PICK r \in Rows : r = edit[c].row
      BY <3>1, EditFacts DEF RowInv
    <3>3. ~lapped /\ edit'[c] = Versions!Idle
      BY <3>1 DEF Versions!Finish, RowInv, RowTyped
    <3>4. /\ r \in Versions!In(Versions!Catalog) => r \in draft
          /\ shown[c] # Versions!NoTag /\ shown[c].row = r
          /\ shown[c].content = row[r].content
          /\ shown[c].read \/ r \in Versions!In({"model"})
      BY <3>1, <3>2, <3>3, EndsSighted
    <3>5. ASSUME NEW q \in Versions!Present, q # r, row'[q] # row[q]
          PROVE  row'[q] # Versions!NoRow /\ row'[q].content = row[q].content
      <4>1. q \in Rows /\ row[q] \in Versions!Version
        BY <3>5, TablesDiffer DEF RowInv, Versions!Present
      <4>2. ~Versions!EditCommit(c)
        BY <3>2, <3>5, <4>1 DEF Versions!EditCommit, Versions!Write, RowInv, RowTyped
      <4>3. row'[q] = [row[q] EXCEPT !.version = @ + 1]
        BY <2>4, <3>2, <3>5, <4>1, <4>2 DEF Versions!DropCommit
      <4>4. row'[q].content = row[q].content /\ "version" \in DOMAIN row'[q]
        BY <4>1, <4>3 DEF Versions!Version
      <4>5. "version" \notin DOMAIN Versions!NoRow
        BY DEF Versions!NoRow
      <4> QED BY <4>4, <4>5
    <3> QED BY <3>1, <3>3, <3>4, <3>5 DEF Asked
  <2> QED BY <2>1, <2>2, <2>3, <2>4
<1>2. Versions!Spec => [][~lapped' => Sighted]_(Versions!vars)
  BY <1>1, RowInductive, PTL DEF Versions!Spec
<1> QED
  BY <1>2 DEF NoLostUpdate, Versions!NoLostUpdate

-----------------------------------------------------------------------------
(* LISTS (Collections).                                                    *)

(* How often a page fits into so many rows.                                *)
LEMMA PageBounds ==
    ASSUME NEW p \in Nat \ {0}, NEW n \in Nat, NEW size \in Nat \ {0}
    PROVE  /\ (p - 1) * size \in Nat
           /\ p * size = (p - 1) * size + size
           /\ p < (n + size - 1) \div size <=> p * size < n
<1>1. (p - 1) * size \in Nat /\ p * size = (p - 1) * size + size
  OBVIOUS
<1>2. PICK q \in Nat, r \in 0..size - 1 : n + size - 1 = q * size + r /\ q = (n + size - 1) \div size
  OBVIOUS
<1>3. ASSUME p < q PROVE p * size < n
  <2>1. (p + 1) * size <= q * size
    BY <1>3
  <2>2. (p + 1) * size = p * size + size
    OBVIOUS
  <2> QED BY <1>2, <2>1, <2>2
<1>4. ASSUME q <= p PROVE n <= p * size
  <2>1. q * size <= p * size
    BY <1>4
  <2> QED BY <1>2, <2>1
<1> QED BY <1>1, <1>2, <1>3, <1>4

(* Parts of a sequence.                                                    *)
LEMMA Halves ==
    ASSUME NEW s \in Seq(Nat), NEW m \in 0..Len(s), NEW n \in m..Len(s)
    PROVE  /\ SubSeq(s, m + 1, n) \in Seq(Nat)
           /\ Len(SubSeq(s, m + 1, n)) = n - m
           /\ \A k \in 1..n - m : SubSeq(s, m + 1, n)[k] = s[m + k]
           /\ SubSeq(s, 1, m) \o SubSeq(s, m + 1, n) = SubSeq(s, 1, n)
           /\ SubSeq(s, 1, Len(s)) = s
  OBVIOUS

(* The elements of two sequences put together.                             *)
LEMMA Join ==
    ASSUME NEW s \in Seq(Nat), NEW t \in Seq(Nat)
    PROVE  /\ s \o t \in Seq(Nat) /\ Len(s \o t) = Len(s) + Len(t)
           /\ \A i \in 1..Len(s) : (s \o t)[i] = s[i]
           /\ \A i \in 1..Len(t) : (s \o t)[Len(s) + i] = t[i]
  OBVIOUS

(* A sequence without its k-th element.                                    *)
LEMMA Removed ==
    ASSUME NEW s \in Seq(Nat), NEW k \in 1..Len(s), NEW t, t = Listing!RemoveAt(s, k)
    PROVE  /\ t \in Seq(Nat) /\ Len(t) = Len(s) - 1
           /\ \A i \in 1..k - 1 : t[i] = s[i]
           /\ \A i \in k + 1..Len(s) : t[i - 1] = s[i]
<1>1. PICK b : b = SubSeq(s, 1, k - 1)
  OBVIOUS
<1>2. PICK a : a = SubSeq(s, k + 1, Len(s))
  OBVIOUS
<1>3. b \in Seq(Nat) /\ Len(b) = k - 1 /\ \A i \in 1..k - 1 : b[i] = s[i]
  BY <1>1
<1>4. a \in Seq(Nat) /\ Len(a) = Len(s) - k /\ \A i \in 1..Len(s) - k : a[i] = s[k + i]
  BY <1>2
<1>5. t = b \o a
  BY <1>1, <1>2, Zenon DEF Listing!RemoveAt
<1>6. /\ t \in Seq(Nat) /\ Len(t) = Len(b) + Len(a)
      /\ \A i \in 1..Len(b) : t[i] = b[i]
      /\ \A i \in 1..Len(a) : t[Len(b) + i] = a[i]
  <2>1. /\ b \o a \in Seq(Nat) /\ Len(b \o a) = Len(b) + Len(a)
        /\ \A i \in 1..Len(b) : (b \o a)[i] = b[i]
        /\ \A i \in 1..Len(a) : (b \o a)[Len(b) + i] = a[i]
    BY <1>3, <1>4, Join, Zenon
  <2> QED BY <1>5, <2>1, Zenon
<1>7. Len(t) = Len(s) - 1 /\ \A i \in 1..k - 1 : t[i] = s[i]
  BY <1>3, <1>4, <1>6
<1>8. \A i \in k + 1..Len(s) : t[i - 1] = s[i]
  <2> SUFFICES ASSUME NEW i \in k + 1..Len(s) PROVE t[i - 1] = s[i]
    OBVIOUS
  <2>1. PICK j \in 1..Len(s) - k : i = k + j /\ i - 1 = Len(b) + j
    <3>1. i - k \in 1..Len(s) - k
      OBVIOUS
    <3> QED BY <1>3, <3>1
  <2> QED BY <1>4, <1>6, <2>1
<1> QED BY <1>6, <1>7, <1>8

(* A sequence with an element put in at the k-th place.                    *)
LEMMA Inserted ==
    ASSUME NEW s \in Seq(Nat), NEW k \in 1..Len(s) + 1, NEW e \in Nat,
           NEW t, t = Listing!InsertAt(s, k, e)
    PROVE  /\ t \in Seq(Nat) /\ Len(t) = Len(s) + 1
           /\ \A i \in 1..k - 1 : t[i] = s[i]
           /\ \A i \in k..Len(s) : t[i + 1] = s[i]
<1>1. PICK b : b = SubSeq(s, 1, k - 1)
  OBVIOUS
<1>2. PICK a : a = SubSeq(s, k, Len(s))
  OBVIOUS
<1>3. b \in Seq(Nat) /\ Len(b) = k - 1 /\ \A i \in 1..k - 1 : b[i] = s[i]
  BY <1>1
<1>4. /\ a \in Seq(Nat) /\ Len(a) = Len(s) - k + 1
      /\ \A i \in 1..Len(s) - k + 1 : a[i] = s[k - 1 + i]
  BY <1>2
<1>a. PICK x : x = <<e>>
  OBVIOUS
<1>b. x \in Seq(Nat) /\ Len(x) = 1
  BY <1>a
<1>c. PICK f : f = b \o x
  OBVIOUS
<1>d. f \in Seq(Nat) /\ Len(f) = Len(b) + Len(x) /\ \A i \in 1..Len(b) : f[i] = b[i]
  <2>1. /\ b \o x \in Seq(Nat) /\ Len(b \o x) = Len(b) + Len(x)
        /\ \A i \in 1..Len(b) : (b \o x)[i] = b[i]
        /\ \A i \in 1..Len(x) : (b \o x)[Len(b) + i] = x[i]
    BY <1>3, <1>b, Join, Zenon
  <2> QED BY <1>c, <2>1, Zenon
<1>5. t = f \o a
  BY <1>1, <1>2, <1>a, <1>c, Zenon DEF Listing!InsertAt
<1>6. /\ t \in Seq(Nat) /\ Len(t) = Len(f) + Len(a)
      /\ \A i \in 1..Len(f) : t[i] = f[i]
      /\ \A i \in 1..Len(a) : t[Len(f) + i] = a[i]
  <2>1. /\ f \o a \in Seq(Nat) /\ Len(f \o a) = Len(f) + Len(a)
        /\ \A i \in 1..Len(f) : (f \o a)[i] = f[i]
        /\ \A i \in 1..Len(a) : (f \o a)[Len(f) + i] = a[i]
    BY <1>d, <1>4, Join, Zenon
  <2> QED BY <1>5, <2>1, Zenon
<1>7. Len(f) = k /\ Len(t) = Len(s) + 1 /\ \A i \in 1..k - 1 : t[i] = s[i]
  <2>1. Len(s) \in Nat /\ k \in 1..Len(s) + 1
    OBVIOUS
  <2>2. Len(f) = k
    BY <1>3, <1>b, <1>d, <2>1
  <2>3. Len(t) = Len(s) + 1
    BY <1>4, <1>6, <2>1, <2>2
  <2>4. ASSUME NEW i \in 1..k - 1 PROVE t[i] = s[i]
    <3>1. i \in 1..Len(b) /\ i \in 1..Len(f)
      BY <1>3, <2>1, <2>2
    <3>2. t[i] = f[i] /\ f[i] = b[i] /\ b[i] = s[i]
      BY <1>3, <1>6, <1>d, <3>1, Zenon
    <3> QED BY <3>2
  <2> QED BY <2>2, <2>3, <2>4
<1>8. \A i \in k..Len(s) : t[i + 1] = s[i]
  <2> SUFFICES ASSUME NEW i \in k..Len(s) PROVE t[i + 1] = s[i]
    OBVIOUS
  <2>1. PICK j \in 1..Len(s) - k + 1 : i = k - 1 + j /\ i + 1 = Len(f) + j
    <3>1. i - k + 1 \in 1..Len(s) - k + 1
      OBVIOUS
    <3> QED BY <1>7, <3>1
  <2> QED BY <1>4, <1>6, <2>1
<1> QED BY <1>6, <1>7, <1>8

(* What is in a sequence, and in two put together.                         *)
LEMMA Elements ==
    ASSUME NEW s \in Seq(Nat), NEW x
    PROVE  x \in Listing!ToSet(s) <=> \E k \in 1..Len(s) : s[k] = x
  BY DEF Listing!ToSet

LEMMA JoinedElements ==
    ASSUME NEW s \in Seq(Nat), NEW t \in Seq(Nat), NEW q, q = s \o t, NEW x
    PROVE  x \in Listing!ToSet(q) <=> x \in Listing!ToSet(s) \/ x \in Listing!ToSet(t)
<1>2. /\ q \in Seq(Nat) /\ Len(q) = Len(s) + Len(t)
      /\ \A i \in 1..Len(s) : q[i] = s[i]
      /\ \A i \in 1..Len(t) : q[Len(s) + i] = t[i]
  <2>1. /\ s \o t \in Seq(Nat) /\ Len(s \o t) = Len(s) + Len(t)
        /\ \A i \in 1..Len(s) : (s \o t)[i] = s[i]
        /\ \A i \in 1..Len(t) : (s \o t)[Len(s) + i] = t[i]
    BY Join, Zenon
  <2> QED BY <2>1, Zenon
<1>3. ASSUME NEW k \in 1..Len(q), q[k] = x
      PROVE  (\E i \in 1..Len(s) : s[i] = x) \/ (\E i \in 1..Len(t) : t[i] = x)
  <2>1. CASE k \in 1..Len(s)
    BY <1>2, <1>3, <2>1, Zenon
  <2>2. CASE k \notin 1..Len(s)
    <3>1. PICK j \in 1..Len(t) : k = Len(s) + j
      <4>1. k - Len(s) \in 1..Len(t) /\ k = Len(s) + (k - Len(s))
        <5>1. Len(s) \in Nat /\ Len(t) \in Nat /\ k \in 1..Len(s) + Len(t)
          BY <1>2
        <5> QED BY <5>1, <2>2
      <4> QED BY <4>1
    <3> QED BY <1>2, <1>3, <3>1, Zenon
  <2> QED BY <2>1, <2>2
<1>4. ASSUME NEW k \in 1..Len(s), s[k] = x PROVE \E i \in 1..Len(q) : q[i] = x
  <2>1. k \in 1..Len(q)
    <3>1. Len(s) \in Nat /\ Len(t) \in Nat
      OBVIOUS
    <3> QED BY <1>2, <3>1
  <2> QED BY <1>2, <1>4, <2>1, Zenon
<1>5. ASSUME NEW k \in 1..Len(t), t[k] = x PROVE \E i \in 1..Len(q) : q[i] = x
  <2>1. Len(s) + k \in 1..Len(q)
    <3>1. Len(s) \in Nat /\ Len(t) \in Nat
      OBVIOUS
    <3> QED BY <1>2, <3>1
  <2> QED BY <1>2, <1>5, <2>1, Zenon
<1>6. /\ x \in Listing!ToSet(q) <=> \E k \in 1..Len(q) : q[k] = x
      /\ x \in Listing!ToSet(s) <=> \E k \in 1..Len(s) : s[k] = x
      /\ x \in Listing!ToSet(t) <=> \E k \in 1..Len(t) : t[k] = x
  BY <1>2, Elements, Zenon
<1> QED BY <1>3, <1>4, <1>5, <1>6, Zenon

-----------------------------------------------------------------------------
(* Where a row is when it is still to come.                                *)
Ahead(id, n) == \E k \in n + 1..Len(listed) : listed[k] = id
PageEnd ==
    IF list.paged /\ Listing!Skip + Limit < Len(listed) THEN Listing!Skip + Limit
    ELSE Len(listed)

(* The types; a list without pages has one.                                *)
ListTyped ==
    /\ list \in Listing!Lists
    /\ listed \in Seq(Nat) /\ page \in Nat
    /\ counted \in Nat \cup {Listing!Unread}
    /\ list.total => walked \in Seq(Nat) /\ (Listing!Found => found \in Seq(Nat))
    /\ ~list.paged /\ page # 0 => page = 1
    /\ disturbed \in BOOLEAN /\ torn \in BOOLEAN

(* While nothing changes, the client has seen what is before its page.     *)
SeenSoFar ==
    ~disturbed /\ list.total =>
        /\ Listing!Counted => counted = Len(listed)
        /\ page = 0 => walked = listed
        /\ page # 0 =>
             /\ Listing!Skip <= Len(listed) /\ walked = SubSeq(listed, 1, Listing!Skip)
             /\ Listing!Found => found = SubSeq(listed, Listing!Skip + 1, PageEnd)

(* Where rows appear and are touched, what lasts is seen or still to come; *)
(* and the count of an answer does not end the walk before it.             *)
SeenOrAhead ==
    ~torn /\ list.changes \subseteq {"appear", "touch"} =>
        /\ page = 0 => lasting \subseteq Listing!ToSet(walked)
        /\ page # 0 =>
             /\ \A id \in lasting : id \in Listing!ToSet(walked) \/ Ahead(id, Listing!Skip)
             /\ Listing!Counted /\ ~Listing!Found => counted = Len(listed)
             /\ Listing!Found =>
                  \A id \in lasting :
                     \/ id \in Listing!ToSet(walked) \cup Listing!ToSet(found)
                     \/ /\ list.paged /\ Ahead(id, Listing!Skip + Limit)
                        /\ Listing!Counted => Listing!Skip + Limit < counted

ListInv == ListTyped /\ SeenSoFar /\ SeenOrAhead

(* The kinds of lists.                                                     *)
LEMMA ListsAre ==
    ASSUME NEW l \in Listing!Lists
    PROVE  /\ l.total \in BOOLEAN /\ l.paged \in BOOLEAN
           /\ l.changes \subseteq {"appear", "touch"} => l.total
<1>1. \A k \in {Listing!Log, Listing!Filtered, Listing!Arranged,
                [Listing!Log EXCEPT !.changes = {"appear", "touch"}]} :
         /\ k.total = TRUE /\ k.paged = TRUE
         /\ Listing!WholeOf(k).total = TRUE /\ Listing!WholeOf(k).paged = FALSE
  BY DEF Listing!Log, Listing!Filtered, Listing!Arranged, Listing!WholeOf
<1>2. /\ Listing!Legacy.total = FALSE /\ Listing!Legacy.paged = TRUE
      /\ "go" \in Listing!Legacy.changes
  BY DEF Listing!Legacy, Listing!Log, Listing!Arranged
<1>3. \/ l \in {Listing!Log, Listing!Filtered, Listing!Arranged,
                [Listing!Log EXCEPT !.changes = {"appear", "touch"}]}
      \/ \E k \in {Listing!Log, Listing!Filtered, Listing!Arranged,
                   [Listing!Log EXCEPT !.changes = {"appear", "touch"}]} :
            l = Listing!WholeOf(k)
      \/ l = Listing!Legacy
  BY DEF Listing!Lists, Listing!PrintJobs, Listing!StageEvents, Listing!InventoryTransactions,
     Listing!DefectAnalyses, Listing!BatchRows, Listing!BatchPositions, Listing!Projects,
     Listing!QualityInspections, Listing!Sections, Listing!ProductionLines, Listing!Machines,
     Listing!WorkProcesses, Listing!Lines, Listing!Subjects, Listing!CatalogProducts,
     Listing!StationSteps, Listing!Booths, Listing!Stages, Listing!MonitoringRows,
     Listing!WorkInstructions, Listing!RoutingViolations, Listing!Employees,
     Listing!Products, Listing!Workspaces, Listing!WorkspaceMembers, Listing!ProjectMembers
<1>4. CASE l = Listing!Legacy
  BY <1>2, <1>4
<1>5. CASE l # Listing!Legacy
  <2>1. l.total = TRUE /\ l.paged \in {TRUE, FALSE}
    BY <1>1, <1>3, <1>5
  <2> QED BY <2>1
<1> QED BY <1>4, <1>5

(* Where a page begins.                                                    *)
LEMMA SkipIs ==
    ASSUME ListTyped, page # 0
    PROVE  Listing!Skip \in Nat /\ page \in Nat \ {0} /\ (~list.paged => Listing!Skip = 0)
<1>1. page \in Nat \ {0} /\ Limit \in Nat \ {0}
  BY ServicesAssumption DEF ListTyped
<1>2. (page - 1) * Limit \in Nat
  BY <1>1, PageBounds
<1>3. page = 1 => (page - 1) * Limit = 0
  BY <1>1
<1> QED BY <1>1, <1>2, <1>3 DEF Listing!Skip, ListTyped

(* A walk that has not begun.                                              *)
LEMMA ListInit == ASSUME Listing!Init PROVE ListInv
<1>1. PICK id \in Nat \ {0} : listed = [k \in 1..id - 1 |-> k]
  BY ServicesAssumption DEF Listing!Init
<1>2. listed \in Seq(Nat)
  BY <1>1
<1>3. /\ list \in Listing!Lists /\ lasting = Listing!ToSet(listed) /\ page = 1
      /\ counted = Listing!Unread /\ found = <<Listing!Unread>> /\ walked = <<>>
      /\ disturbed = FALSE /\ torn = FALSE
  BY DEF Listing!Init
<1>4. ~Listing!Counted /\ ~Listing!Found
  BY <1>3 DEF Listing!Counted, Listing!Found
<1>5. ListTyped
  <2>0. <<>> \in Seq(Nat)
    OBVIOUS
  <2>1. walked \in Seq(Nat) /\ disturbed \in BOOLEAN /\ torn \in BOOLEAN
    BY <1>3, <2>0, Zenon
  <2>2. page \in Nat /\ (~list.paged /\ page # 0 => page = 1)
    BY <1>3
  <2> QED BY <1>2, <1>3, <1>4, <2>1, <2>2 DEF ListTyped
<1>6. Listing!Skip = 0
  <2>1. Limit \in Nat
    BY ServicesAssumption
  <2>2. (1 - 1) * Limit = 0
    BY <2>1
  <2> QED BY <1>3, <2>2 DEF Listing!Skip
<1>7. SubSeq(listed, 1, 0) = <<>>
  BY <1>2
<1>8. SeenSoFar
  <2>1. Listing!Skip <= Len(listed) /\ walked = SubSeq(listed, 1, Listing!Skip)
    BY <1>2, <1>3, <1>6, <1>7
  <2> QED BY <1>3, <1>4, <2>1 DEF SeenSoFar
<1>9. \A x \in lasting : Ahead(x, Listing!Skip)
  <2> SUFFICES ASSUME NEW x \in lasting PROVE Ahead(x, Listing!Skip)
    OBVIOUS
  <2>1. PICK k \in 1..Len(listed) : listed[k] = x
    BY <1>2, <1>3, Elements
  <2> QED BY <1>6, <2>1 DEF Ahead
<1> QED BY <1>3, <1>4, <1>5, <1>8, <1>9 DEF ListInv, SeenOrAhead

(* A change whose rows move back, or not at all.                           *)
LEMMA ChangeStep ==
    ASSUME ListInv, NEW kind \in {"appear", "go", "touch", "arrange"},
           NEW moving \in Seq(Nat), NEW moved, Listing!Change(kind, moving, moved),
           kind \in {"appear", "touch"} =>
             \A k \in 1..Len(listed) : listed[k] \notin moved =>
                \E j \in k..Len(moving) : moving[j] = listed[k]
    PROVE  ListInv'
<1>1. /\ page # 0 /\ kind \in list.changes /\ listed' = moving /\ lasting' = lasting \ moved
      /\ disturbed' = TRUE /\ torn' = (torn \/ (Listing!Counted /\ ~Listing!Found))
      /\ UNCHANGED <<list, page, counted, found, walked>>
  BY DEF Listing!Change, Listing!Asked
<1>2. /\ Listing!Counted' <=> Listing!Counted
      /\ Listing!Found' <=> Listing!Found
      /\ Listing!Skip' = Listing!Skip
  BY <1>1 DEF Listing!Counted, Listing!Found, Listing!Skip
<1>3. Listing!Skip \in Nat /\ Limit \in Nat
  BY <1>1, SkipIs, ServicesAssumption DEF ListInv
<1>4. ListTyped'
  <2>1. torn' \in BOOLEAN
    BY <1>1 DEF Listing!Counted, Listing!Found
  <2>2. listed' \in Seq(Nat) /\ disturbed' \in BOOLEAN
    BY <1>1
  <2> QED BY <1>1, <1>2, <2>1, <2>2 DEF ListInv, ListTyped
<1>5. SeenSoFar'
  BY <1>1 DEF SeenSoFar
<1>6. ASSUME ~torn', list.changes \subseteq {"appear", "touch"}
      PROVE  /\ ~torn /\ ~(Listing!Counted /\ ~Listing!Found)
             /\ \A id \in lasting', n \in Nat : Ahead(id, n) => Ahead(id, n)'
  <2>1. ~torn /\ ~(Listing!Counted /\ ~Listing!Found)
    BY <1>1, <1>6 DEF ListInv, ListTyped
  <2>2. ASSUME NEW id \in lasting', NEW n \in Nat, Ahead(id, n) PROVE Ahead(id, n)'
    <3>1. PICK k \in n + 1..Len(listed) : listed[k] = id
      BY <2>2 DEF Ahead
    <3>2. k \in 1..Len(listed) /\ id \notin moved
      BY <1>1, <3>1
    <3>3. PICK j \in k..Len(moving) : moving[j] = id
      BY <1>1, <1>6, <3>1, <3>2
    <3>4. j \in n + 1..Len(moving)
      BY <3>1, <3>3
    <3> QED BY <1>1, <3>3, <3>4 DEF Ahead
  <2> QED BY <2>1, <2>2
<1>7. SeenOrAhead'
  <2> SUFFICES ASSUME ~torn', list.changes \subseteq {"appear", "touch"} PROVE SeenOrAhead'
    BY <1>1 DEF SeenOrAhead
  <2>1. /\ \A id \in lasting : id \in Listing!ToSet(walked) \/ Ahead(id, Listing!Skip)
        /\ Listing!Found =>
             \A id \in lasting :
                \/ id \in Listing!ToSet(walked) \cup Listing!ToSet(found)
                \/ /\ list.paged /\ Ahead(id, Listing!Skip + Limit)
                   /\ Listing!Counted => Listing!Skip + Limit < counted
    BY <1>1, <1>6 DEF ListInv, SeenOrAhead
  <2>2. Listing!Skip + Limit \in Nat /\ lasting' \subseteq lasting
    BY <1>1, <1>3
  <2>3. \A id \in lasting' : /\ Ahead(id, Listing!Skip) => Ahead(id, Listing!Skip)'
                             /\ Ahead(id, Listing!Skip + Limit) =>
                                  Ahead(id, Listing!Skip + Limit)'
    <3> SUFFICES ASSUME NEW id \in lasting'
                 PROVE  /\ Ahead(id, Listing!Skip) => Ahead(id, Listing!Skip)'
                        /\ Ahead(id, Listing!Skip + Limit) => Ahead(id, Listing!Skip + Limit)'
      OBVIOUS
    <3>1. PICK n \in Nat, m \in Nat : n = Listing!Skip /\ m = Listing!Skip + Limit
      BY <1>3, <2>2
    <3>2. (Ahead(id, n) => Ahead(id, n)') /\ (Ahead(id, m) => Ahead(id, m)')
      BY <1>6
    <3> QED BY <1>2, <3>1, <3>2 DEF Ahead
  <2> QED BY <1>1, <1>2, <1>6, <2>1, <2>2, <2>3 DEF SeenOrAhead
<1> QED BY <1>4, <1>5, <1>7 DEF ListInv

(* Rows appear, go, are touched and arranged.                              *)
LEMMA CommandsStep == ASSUME ListInv, Listing!Commands PROVE ListInv'
<1>0. listed \in Seq(Nat)
  BY DEF ListInv, ListTyped
<1>1. ASSUME NEW id \in Ids, NEW k \in 1..Len(listed) + 1, Listing!Appear(id, k)
      PROVE  ListInv'
  <2>1. PICK t : t = Listing!InsertAt(listed, k, id)
    OBVIOUS
  <2>2. /\ t \in Seq(Nat) /\ Len(t) = Len(listed) + 1
        /\ \A i \in 1..k - 1 : t[i] = listed[i]
        /\ \A i \in k..Len(listed) : t[i + 1] = listed[i]
    <3>1. id \in Nat
      BY ServicesAssumption
    <3> QED BY <1>0, <2>1, <3>1, Inserted
  <2>3. ASSUME NEW i \in 1..Len(listed) PROVE \E j \in i..Len(t) : t[j] = listed[i]
    <3>1. CASE i < k
      <4>1. Len(listed) \in Nat /\ Len(t) = Len(listed) + 1
        BY <1>0, <2>2
      <4>2. i \in 1..k - 1 /\ i \in i..Len(t)
        BY <3>1, <4>1
      <4>3. t[i] = listed[i]
        BY <2>2, <4>2, Zenon
      <4> QED BY <4>2, <4>3
    <3>2. CASE i >= k
      <4>1. Len(listed) \in Nat /\ Len(t) = Len(listed) + 1
        BY <1>0, <2>2
      <4>2. i \in k..Len(listed) /\ i + 1 \in i..Len(t)
        BY <3>2, <4>1
      <4>3. t[i + 1] = listed[i]
        BY <2>2, <4>2, Zenon
      <4> QED BY <4>2, <4>3
    <3> QED BY <3>1, <3>2
  <2>4. Listing!Change("appear", t, {id})
    BY <1>1, <2>1 DEF Listing!Appear
  <2> QED BY <2>2, <2>3, <2>4, ChangeStep
<1>2. ASSUME NEW k \in 1..Len(listed), Listing!Go(k) PROVE ListInv'
  <2>1. PICK t : t = Listing!RemoveAt(listed, k)
    OBVIOUS
  <2>2. t \in Seq(Nat)
    BY <1>0, <2>1, Removed
  <2>3. Listing!Change("go", t, {listed[k]})
    BY <1>2, <2>1 DEF Listing!Go
  <2> QED BY <2>2, <2>3, ChangeStep
<1>3. ASSUME NEW k \in 1..Len(listed), Listing!Touch(k) PROVE ListInv'
  <2>1. PICK r : r = Listing!RemoveAt(listed, k)
    OBVIOUS
  <2>2. /\ r \in Seq(Nat) /\ Len(r) = Len(listed) - 1
        /\ \A i \in 1..k - 1 : r[i] = listed[i]
        /\ \A i \in k + 1..Len(listed) : r[i - 1] = listed[i]
    BY <1>0, <2>1, Removed
  <2>3. PICK x : x = <<listed[k]>>
    OBVIOUS
  <2>4. x \in Seq(Nat) /\ Len(x) = 1
    BY <1>0, <2>3
  <2>5. PICK t : t = x \o r
    OBVIOUS
  <2>6. /\ t \in Seq(Nat) /\ Len(t) = Len(x) + Len(r)
        /\ \A i \in 1..Len(r) : t[Len(x) + i] = r[i]
    <3>1. /\ x \o r \in Seq(Nat) /\ Len(x \o r) = Len(x) + Len(r)
          /\ \A i \in 1..Len(r) : (x \o r)[Len(x) + i] = r[i]
      BY <2>2, <2>4, Join, Zenon
    <3> QED BY <2>5, <3>1, Zenon
  <2>7. Len(t) = Len(listed) /\ \A i \in 1..Len(listed) - 1 : t[1 + i] = r[i]
    BY <1>0, <2>2, <2>4, <2>6
  <2>8. ASSUME NEW i \in 1..Len(listed), listed[i] \notin {listed[k]}
        PROVE  \E j \in i..Len(t) : t[j] = listed[i]
    <3>1. CASE i < k
      <4>1. i \in 1..k - 1 /\ i \in 1..Len(listed) - 1 /\ 1 + i \in i..Len(t)
        BY <1>0, <2>7, <3>1
      <4>2. t[1 + i] = listed[i]
        BY <2>2, <2>7, <4>1
      <4> QED BY <4>1, <4>2
    <3>2. CASE i > k
      <4>1. /\ i \in k + 1..Len(listed) /\ i - 1 \in 1..Len(listed) - 1
            /\ 1 + (i - 1) = i /\ i \in i..Len(t)
        BY <1>0, <2>7, <3>2
      <4>2. t[1 + (i - 1)] = r[i - 1] /\ r[i - 1] = listed[i]
        BY <2>2, <2>7, <4>1
      <4> QED BY <4>1, <4>2
    <3> QED BY <2>8, <3>1, <3>2
  <2>9. Listing!Change("touch", t, {listed[k]})
    BY <1>3, <2>1, <2>3, <2>5, Zenon DEF Listing!Touch
  <2> QED BY <2>6, <2>8, <2>9, ChangeStep
<1>4. ASSUME NEW k \in 1..Len(listed), NEW to \in 1..Len(listed), Listing!Arrange(k, to)
      PROVE  ListInv'
  <2>1. PICK r : r = Listing!RemoveAt(listed, k)
    OBVIOUS
  <2>2. r \in Seq(Nat) /\ Len(r) = Len(listed) - 1
    BY <1>0, <2>1, Removed
  <2>3. PICK t : t = Listing!InsertAt(r, to, listed[k])
    OBVIOUS
  <2>4. listed[k] \in Nat /\ to \in 1..Len(r) + 1
    BY <1>0, <2>2
  <2>5. t \in Seq(Nat)
    BY <2>2, <2>3, <2>4, Inserted
  <2>6. Listing!Change("arrange", t, {listed[k]})
    BY <1>4, <2>1, <2>3 DEF Listing!Arrange
  <2> QED BY <2>5, <2>6, ChangeStep
<1> QED BY <1>1, <1>2, <1>3, <1>4 DEF Listing!Commands

(* The two queries of an answer, in either order.                          *)
LEMMA QueriesStep ==
    ASSUME ListInv, Listing!Count \/ Listing!FindMany \/ Listing!FindAll
    PROVE  ListInv'
<1>1. /\ page # 0
      /\ UNCHANGED <<list, listed, page, walked, lasting, disturbed, torn>>
  BY DEF Listing!Count, Listing!FindMany, Listing!FindAll, Listing!Asked
<1>2. /\ Listing!Skip' = Listing!Skip /\ PageEnd' = PageEnd
      /\ \A id, n : Ahead(id, n)' <=> Ahead(id, n)
  BY <1>1 DEF Listing!Skip, PageEnd, Ahead
<1>3. /\ Listing!Skip \in Nat /\ Limit \in Nat \ {0} /\ (~list.paged => Listing!Skip = 0)
      /\ listed \in Seq(Nat) /\ Len(listed) \in Nat
  BY <1>1, SkipIs, ServicesAssumption DEF ListInv, ListTyped
<1>4. list.total \in BOOLEAN /\ list.paged \in BOOLEAN
      /\ (list.changes \subseteq {"appear", "touch"} => list.total)
  BY ListsAre DEF ListInv, ListTyped
<1>5. CASE Listing!Count
  <2>1. /\ ~Listing!Counted /\ counted' = Len(listed) /\ found' = found /\ list.paged
        /\ Listing!Counted' /\ (Listing!Found' <=> Listing!Found)
    <3>1. ~Listing!Counted /\ counted' = Len(listed) /\ found' = found /\ list.paged
      BY <1>5 DEF Listing!Count
    <3>2. Len(listed) # -1
      BY <1>3
    <3> QED BY <3>1, <3>2 DEF Listing!Counted, Listing!Found, Listing!Unread
  <2>2. ListTyped'
    BY <1>1, <1>3, <2>1 DEF ListInv, ListTyped
  <2>3. SeenSoFar'
    BY <1>1, <1>2, <2>1 DEF ListInv, SeenSoFar
  <2>4. ASSUME NEW id, Ahead(id, Listing!Skip + Limit)
        PROVE  Listing!Skip + Limit < Len(listed)
    BY <1>3, <2>4 DEF Ahead
  <2>5. SeenOrAhead'
    BY <1>1, <1>2, <2>1, <2>4 DEF ListInv, SeenOrAhead
  <2> QED BY <2>2, <2>3, <2>5 DEF ListInv
<1>6. CASE Listing!FindMany \/ Listing!FindAll
  <2>1. ~Listing!Found
    BY <1>6 DEF Listing!FindMany, Listing!FindAll
  <2>2. /\ list.total => found' = SubSeq(listed, Listing!Skip + 1, PageEnd)
        /\ list.paged => counted' = counted
        /\ ~list.paged => counted' = Len(listed)
    <3>1. CASE Listing!FindMany
      <4>1. list.paged /\ counted' = counted
        BY <3>1 DEF Listing!FindMany
      <4>2. ASSUME list.total PROVE found' = SubSeq(listed, Listing!Skip + 1, PageEnd)
        BY <3>1, <4>1, <4>2 DEF Listing!FindMany, Listing!Shown, PageEnd
      <4> QED BY <4>1, <4>2
    <3>2. CASE Listing!FindAll
      <4>1. ~list.paged /\ counted' = Len(listed) /\ found' = listed
        BY <3>2 DEF Listing!FindAll
      <4>2. SubSeq(listed, 1, Len(listed)) = listed
        BY <1>3
      <4> QED BY <1>3, <4>1, <4>2 DEF PageEnd
    <3> QED BY <1>6, <3>1, <3>2
  <2>3. PageEnd \in Nat /\ PageEnd <= Len(listed)
    BY <1>3, <1>4 DEF PageEnd
  <2>4. SubSeq(listed, Listing!Skip + 1, PageEnd) \in Seq(Nat)
    BY <1>3, <2>3
  <2>5. ListTyped'
    BY <1>1, <1>3, <1>4, <2>2, <2>4 DEF ListInv, ListTyped
  <2>6. /\ list.paged => (Listing!Counted' <=> Listing!Counted)
        /\ ~list.paged => Listing!Counted'
    <3>1. Len(listed) # -1
      BY <1>3
    <3> QED BY <2>2, <3>1 DEF Listing!Counted, Listing!Unread
  <2>7. SeenSoFar'
    BY <1>1, <1>2, <1>4, <2>2, <2>6 DEF ListInv, SeenSoFar
  <2>8. ASSUME ~torn, list.changes \subseteq {"appear", "touch"}
        PROVE  \A id \in lasting :
                  \/ id \in Listing!ToSet(walked) \cup Listing!ToSet(found')
                  \/ /\ list.paged /\ Ahead(id, Listing!Skip + Limit)
                     /\ Listing!Counted' => Listing!Skip + Limit < counted'
    <3> SUFFICES ASSUME NEW id \in lasting, id \notin Listing!ToSet(walked)
                 PROVE  \/ id \in Listing!ToSet(found')
                        \/ /\ list.paged /\ Ahead(id, Listing!Skip + Limit)
                           /\ Listing!Counted' => Listing!Skip + Limit < counted'
      OBVIOUS
    <3>1. PICK k \in Listing!Skip + 1..Len(listed) : listed[k] = id
      BY <1>1, <2>8 DEF ListInv, SeenOrAhead, Ahead
    <3>2. CASE k <= PageEnd
      <4>1. PICK f : f = SubSeq(listed, Listing!Skip + 1, PageEnd)
        OBVIOUS
      <4>2. k - Listing!Skip \in 1..Len(f) /\ f[k - Listing!Skip] = id /\ f \in Seq(Nat)
        BY <1>3, <2>3, <3>1, <3>2, <4>1
      <4>3. id \in Listing!ToSet(f)
        BY <4>2, Elements
      <4> QED BY <1>4, <2>2, <2>8, <4>1, <4>3
    <3>3. CASE k > PageEnd
      <4>1. list.paged /\ k \in Listing!Skip + Limit + 1..Len(listed)
        BY <1>3, <3>1, <3>3 DEF PageEnd
      <4>2. Ahead(id, Listing!Skip + Limit)
        BY <3>1, <4>1 DEF Ahead
      <4>3. ASSUME Listing!Counted' PROVE Listing!Skip + Limit < counted'
        <5>1. counted' = Len(listed)
          BY <1>1, <2>1, <2>2, <2>6, <2>8, <4>1, <4>3 DEF ListInv, SeenOrAhead
        <5> QED BY <1>3, <4>1, <5>1
      <4> QED BY <4>1, <4>2, <4>3
    <3> QED BY <1>3, <2>3, <3>1, <3>2, <3>3
  <2>9. SeenOrAhead'
    <3> SUFFICES ASSUME ~torn, list.changes \subseteq {"appear", "touch"} PROVE SeenOrAhead'
      BY <1>1 DEF SeenOrAhead
    <3>1. Listing!Counted' /\ ~Listing!Found' => counted' = Len(listed)
      BY <1>1, <1>3, <1>4, <2>1, <2>2, <2>6 DEF ListInv, SeenOrAhead
    <3>2. \A id \in lasting : id \in Listing!ToSet(walked) \/ Ahead(id, Listing!Skip)
      BY <1>1 DEF ListInv, SeenOrAhead
    <3> QED BY <1>1, <1>2, <2>8, <3>1, <3>2 DEF SeenOrAhead
  <2> QED BY <2>5, <2>7, <2>9 DEF ListInv
<1> QED BY <1>5, <1>6

(* An answer that does not come.                                           *)
LEMMA FailStep == ASSUME ListInv, Listing!Fail PROVE ListInv'
<1>1. /\ page # 0 /\ counted' = Listing!Unread /\ ~Listing!Counted' /\ ~Listing!Found'
      /\ UNCHANGED <<list, listed, page, walked, lasting, disturbed, torn>>
  BY DEF Listing!Fail, Listing!Asked, Listing!Counted, Listing!Found
<1>2. Listing!Skip' = Listing!Skip /\ \A id, n : Ahead(id, n)' <=> Ahead(id, n)
  BY <1>1 DEF Listing!Skip, Ahead
<1>3. ListTyped'
  BY <1>1 DEF ListInv, ListTyped
<1> QED BY <1>1, <1>2, <1>3 DEF ListInv, SeenSoFar, SeenOrAhead

(* The answer is given: its page is seen, and the walk goes on unless the  *)
(* count says there is no more.                                            *)
LEMMA AnswerStep == ASSUME ListInv, Listing!Answer PROVE ListInv'
<1>1. /\ page # 0 /\ Listing!Counted /\ Listing!Found /\ walked' = walked \o found
      /\ page' = IF list.paged /\ page < Listing!TotalPages THEN page + 1 ELSE 0
      /\ counted' = Listing!Unread /\ ~Listing!Counted' /\ ~Listing!Found'
      /\ UNCHANGED <<list, listed, lasting, disturbed, torn>>
  BY DEF Listing!Answer, Listing!Asked, Listing!Counted, Listing!Found
<1>2. /\ Listing!Skip \in Nat /\ Limit \in Nat \ {0} /\ (~list.paged => Listing!Skip = 0)
      /\ page \in Nat \ {0}
  BY <1>1, SkipIs, ServicesAssumption DEF ListInv
<1>3. /\ listed \in Seq(Nat) /\ Len(listed) \in Nat /\ counted \in Nat
      /\ list.total \in BOOLEAN /\ list.paged \in BOOLEAN
      /\ (list.changes \subseteq {"appear", "touch"} => list.total)
      /\ list.total => walked \in Seq(Nat) /\ found \in Seq(Nat)
  BY <1>1, ListsAre DEF ListInv, ListTyped, Listing!Counted
<1>4. /\ page * Limit = Listing!Skip + Limit
      /\ page < Listing!TotalPages <=> Listing!Skip + Limit < counted
  <2>1. /\ page * Limit = (page - 1) * Limit + Limit
        /\ page < (counted + Limit - 1) \div Limit <=> page * Limit < counted
    BY <1>2, <1>3, PageBounds
  <2> QED BY <2>1 DEF Listing!Skip, Listing!TotalPages
<1>5. ASSUME page' # 0
      PROVE  list.paged /\ page' = page + 1 /\ Listing!Skip + Limit < counted
             /\ Listing!Skip' = Listing!Skip + Limit
  <2>1. list.paged /\ page' = page + 1 /\ Listing!Skip + Limit < counted
    BY <1>1, <1>4, <1>5
  <2>2. (page' - 1) * Limit = page * Limit
    BY <1>2, <2>1
  <2> QED BY <1>4, <2>1, <2>2 DEF Listing!Skip
<1>6. ASSUME page' = 0 PROVE ~list.paged \/ ~(Listing!Skip + Limit < counted)
  BY <1>1, <1>2, <1>4, <1>6
<1>7. ListTyped'
  <2>1. list.total => walked' \in Seq(Nat)
    <3>1. list.total => walked \o found \in Seq(Nat)
      BY <1>3, Join, Zenon
    <3> QED BY <1>1, <3>1, Zenon
  <2>2. page' \in Nat /\ (~list.paged => page' = 0)
    BY <1>1, <1>2
  <2> QED BY <1>1, <2>1, <2>2 DEF ListInv, ListTyped
<1>8. SeenSoFar'
  <2> SUFFICES ASSUME ~disturbed, list.total PROVE SeenSoFar'
    BY <1>1 DEF SeenSoFar
  <2>1. /\ counted = Len(listed) /\ Listing!Skip <= Len(listed)
        /\ walked = SubSeq(listed, 1, Listing!Skip)
        /\ found = SubSeq(listed, Listing!Skip + 1, PageEnd)
    BY <1>1 DEF ListInv, SeenSoFar
  <2>2. /\ Listing!Skip \in 0..Len(listed)
        /\ PageEnd \in Listing!Skip..Len(listed)
    BY <1>2, <1>3, <2>1 DEF PageEnd
  <2>m. PICK m \in 0..Len(listed) : m = Listing!Skip
    BY <2>2
  <2>n. PICK n \in m..Len(listed) : n = PageEnd
    BY <2>2, <2>m
  <2>3. walked' = SubSeq(listed, 1, n)
    <3>1. SubSeq(listed, 1, m) \o SubSeq(listed, m + 1, n) = SubSeq(listed, 1, n)
      BY <1>3, Halves
    <3>2. walked = SubSeq(listed, 1, m) /\ found = SubSeq(listed, m + 1, n)
      BY <2>1, <2>m, <2>n, Zenon
    <3> QED BY <1>1, <3>1, <3>2, Zenon
  <2>4. CASE page' = 0
    <3>1. n = Len(listed)
      BY <1>6, <2>1, <2>n, <2>4 DEF PageEnd
    <3>2. SubSeq(listed, 1, Len(listed)) = listed
      BY <1>3
    <3>3. walked' = listed
      BY <2>3, <3>1, <3>2, Zenon
    <3> QED BY <1>1, <2>4, <3>3 DEF SeenSoFar
  <2>5. CASE page' # 0
    <3>1. /\ list.paged /\ Listing!Skip + Limit < Len(listed)
          /\ Listing!Skip' = Listing!Skip + Limit
      BY <1>5, <2>1, <2>5
    <3>2. n = Listing!Skip'
      BY <2>n, <3>1 DEF PageEnd
    <3>3. Listing!Skip' <= Len(listed) /\ walked' = SubSeq(listed, 1, Listing!Skip')
      BY <1>2, <1>3, <2>3, <3>1, <3>2
    <3> QED BY <1>1, <2>5, <3>3 DEF SeenSoFar
  <2> QED BY <2>4, <2>5
<1>9. SeenOrAhead'
  <2> SUFFICES ASSUME ~torn, list.changes \subseteq {"appear", "touch"} PROVE SeenOrAhead'
    BY <1>1 DEF SeenOrAhead
  <2>1. ASSUME NEW id \in lasting
        PROVE  \/ id \in Listing!ToSet(walked')
               \/ /\ list.paged /\ Ahead(id, Listing!Skip + Limit)
                  /\ Listing!Skip + Limit < counted
    <3>1. \/ id \in Listing!ToSet(walked) \cup Listing!ToSet(found)
          \/ /\ list.paged /\ Ahead(id, Listing!Skip + Limit)
             /\ Listing!Skip + Limit < counted
      BY <1>1 DEF ListInv, SeenOrAhead
    <3>2. id \in Listing!ToSet(walked') <=>
            id \in Listing!ToSet(walked) \/ id \in Listing!ToSet(found)
      BY <1>1, <1>3, JoinedElements
    <3> QED BY <3>1, <3>2
  <2>2. CASE page' = 0
    BY <1>1, <1>6, <2>1, <2>2 DEF SeenOrAhead
  <2>3. CASE page' # 0
    <3>1. \A id \in lasting : Ahead(id, Listing!Skip + Limit) => Ahead(id, Listing!Skip)'
      BY <1>1, <1>5, <2>3 DEF Ahead
    <3> QED BY <1>1, <2>1, <2>3, <3>1 DEF SeenOrAhead
  <2> QED BY <2>2, <2>3
<1> QED BY <1>7, <1>8, <1>9 DEF ListInv

(* Every step keeps the invariant.                                         *)
LEMMA ListStep ==
    ASSUME ListInv, [Listing!Next]_(Listing!vars)
    PROVE  ListInv'
<1>1. CASE Listing!Next
  BY <1>1, QueriesStep, AnswerStep, FailStep, CommandsStep DEF Listing!Next
<1>2. CASE UNCHANGED Listing!vars
  <2>1. UNCHANGED <<list, listed, page, counted, found, walked, lasting, disturbed, torn>>
    BY <1>2 DEF Listing!vars
  <2>2. /\ Listing!Skip' = Listing!Skip /\ PageEnd' = PageEnd
        /\ \A id, n : Ahead(id, n)' <=> Ahead(id, n)
        /\ Listing!Counted' <=> Listing!Counted
        /\ Listing!Found' <=> Listing!Found
    BY <2>1 DEF Listing!Skip, PageEnd, Ahead, Listing!Counted, Listing!Found
  <2> QED BY <2>1, <2>2 DEF ListInv, ListTyped, SeenSoFar, SeenOrAhead
<1> QED BY <1>1, <1>2

(* While nothing changes, the pages of a list add up to the list; and      *)
(* where rows only appear or are touched, a walk misses none that was      *)
(* there all along, for pages of any size and lists of any length, unless  *)
(* a row changes between the two queries of one answer.                    *)
THEOREM WalksSeeOldRows == Listing!Spec => []OldRowsAreSeen
<1>1. ListInv => OldRowsAreSeen
  BY DEF ListInv, SeenSoFar, SeenOrAhead, OldRowsAreSeen, Listing!OldRowsAreSeen,
     Listing!Walked
<1>2. Listing!Init => ListInv
  BY ListInit
<1>3. ListInv /\ [Listing!Next]_(Listing!vars) => ListInv'
  BY ListStep
<1> QED
  BY <1>1, <1>2, <1>3, PTL DEF Listing!Spec

-----------------------------------------------------------------------------
(* THE SEED SCRIPT (Seeding).                                              *)

(* The tables a table refers to, all of whose rows the seed has written    *)
(* before it writes those of this one.                                     *)
NeedsOf ==
    [outboxMessage |-> {}, auditRecord |-> {"subject"},
     idempotencyRecord |-> {"subject"}, catalogIdempotencyRecord |-> {},
     asset |-> {}, defectAnalysis |-> {"qualityInspection", "batch", "subject"},
     qualityDecision |-> {"qualityInspection", "subject"},
     qualityInspection |-> {"batch", "subject"}, workInstruction |-> {},
     processChangeLog |-> {"project"}, subjectAssignment |-> {"subject"},
     subjectCredential |-> {"subject"}, userPreference |-> {},
     monitoringStationBoard |-> {"booth", "workProcess"},
     monitoringDailySheet |-> {"workProcess"}, routingViolation |-> {"stageEvent"},
     stageEvent |-> {"subject"}, printJob |-> {"section"},
     inventoryTransaction |-> {"part", "subject"},
     batchPositionProjection |-> {"batch"}, lotPartAllocation |-> {"lot", "part"},
     batch |-> {"lot", "part", "line", "projectModelRequirement", "subject"},
     routingStep |-> {"partsList", "part"}, partsList |-> {"project"},
     qualityStageAssignment |-> {"subject", "stage"},
     stationStep |-> {"section", "stage", "subStage"},
     subStageEligibility |-> {"stage", "subStage"},
     booth |-> {"section", "workProcess"},
     lineOperatorAssignment |-> {"line", "subject"},
     line |-> {"section", "workProcess", "subject"}, workProcess |-> {"subStage"},
     stage |-> {"workflowGroup"}, subStage |-> {}, section |-> {"productionLine"},
     productionLine |-> {}, modelPart |-> {"model"}, lot |-> {"project"},
     part |-> {"project", "model", "projectModelRequirement"},
     projectModelRequirement |-> {"project", "model"},
     productSpecification |-> {"project"}, project |-> {"product", "subject"},
     model |-> {"product"}, product |-> {}, workflowGroup |-> {}, subject |-> {}]

(* The tables that refer to a table and forbid its deletion; a machine,    *)
(* which holds its line, is none of the seed's.                            *)
HoldersOf ==
    [outboxMessage |-> {}, auditRecord |-> {}, idempotencyRecord |-> {},
     catalogIdempotencyRecord |-> {}, asset |-> {}, defectAnalysis |-> {},
     qualityDecision |-> {},
     qualityInspection |-> {"qualityDecision", "defectAnalysis"},
     workInstruction |-> {}, processChangeLog |-> {}, subjectAssignment |-> {},
     subjectCredential |-> {}, userPreference |-> {}, monitoringStationBoard |-> {},
     monitoringDailySheet |-> {}, routingViolation |-> {},
     stageEvent |-> {"routingViolation"}, printJob |-> {},
     inventoryTransaction |-> {}, batchPositionProjection |-> {},
     lotPartAllocation |-> {},
     batch |-> {"batchPositionProjection", "qualityInspection", "defectAnalysis"},
     routingStep |-> {}, partsList |-> {"routingStep"},
     qualityStageAssignment |-> {}, stationStep |-> {}, subStageEligibility |-> {},
     booth |-> {}, lineOperatorAssignment |-> {},
     line |-> {"lineOperatorAssignment"}, workProcess |-> {"line"},
     stage |-> {"subStageEligibility", "stationStep", "qualityStageAssignment"},
     subStage |-> {"subStageEligibility"},
     section |-> {"stationStep", "printJob", "line"}, productionLine |-> {},
     modelPart |-> {}, lot |-> {"batch", "lotPartAllocation"},
     part |-> {"routingStep", "batch", "lotPartAllocation", "inventoryTransaction"},
     projectModelRequirement |-> {}, productSpecification |-> {},
     project |-> {"projectModelRequirement", "productSpecification", "partsList", "part",
                  "lot", "processChangeLog"},
     model |-> {"modelPart", "projectModelRequirement"}, product |-> {"model"},
     workflowGroup |-> {"stage"},
     subject |-> {"qualityStageAssignment", "line", "lineOperatorAssignment",
                  "subjectCredential", "subjectAssignment", "idempotencyRecord"}]

(* These are the references of the schema.                                 *)
LEMMA NeedsAre == ASSUME NEW r \in Seed!Refs \cup Seed!OpenRefs
  PROVE \/ r = <<"machine", "productionLine">>
        \/ r[1] \in DOMAIN NeedsOf /\ r[2] \in NeedsOf[r[1]]
<1>1. ASSUME r \in Seed!CatalogRefs \cup Seed!RouteRefs \cup Seed!PlanRefs
      PROVE  r[1] \in DOMAIN NeedsOf /\ r[2] \in NeedsOf[r[1]]
  BY <1>1 DEF Seed!CatalogRefs, Seed!RouteRefs, Seed!PlanRefs, NeedsOf
<1>2. ASSUME r \in Seed!PackRefs \cup Seed!QualityRefs
      PROVE  r[1] \in DOMAIN NeedsOf /\ r[2] \in NeedsOf[r[1]]
  BY <1>2 DEF Seed!PackRefs, Seed!QualityRefs, NeedsOf
<1>3. ASSUME r \in Seed!FloorRefs \cup Seed!IdentityRefs,
             r # <<"machine", "productionLine">>
      PROVE  r[1] \in DOMAIN NeedsOf /\ r[2] \in NeedsOf[r[1]]
  BY <1>3 DEF Seed!FloorRefs, Seed!IdentityRefs, NeedsOf
<1>4. ASSUME r \in Seed!OpenRefs
      PROVE  r[1] \in DOMAIN NeedsOf /\ r[2] \in NeedsOf[r[1]]
  BY <1>4 DEF Seed!OpenRefs, NeedsOf
<1> QED BY <1>1, <1>2, <1>3, <1>4 DEF Seed!Refs

(* The steps of s are in an order that serves their needs, given that D has *)
(* been done before, and F is done in the end.                             *)
Does(needs, D, s, F) ==
    /\ s \in Seq(DOMAIN needs)
    /\ \A i \in 1..Len(s) : needs[s[i]] \subseteq D \cup {s[j] : j \in 1..i - 1}
    /\ F \subseteq {s[i] : i \in 1..Len(s)}

(* What the parts of the script write, and what it empties.                *)
Catalogued ==
    {"subject", "subjectCredential", "subjectAssignment", "userPreference", "product",
     "model", "modelPart", "workflowGroup", "stage", "qualityStageAssignment"}
Equipped ==
    {"subStage", "subStageEligibility", "productionLine", "section", "stationStep",
     "workProcess", "line", "lineOperatorAssignment", "booth", "workInstruction"}
Planned ==
    {"project", "productSpecification", "projectModelRequirement", "part", "partsList",
     "routingStep", "lot", "batch", "batchPositionProjection", "printJob",
     "qualityInspection", "qualityDecision"}
Evidenced ==
    {"printJob", "stageEvent", "routingViolation", "inventoryTransaction",
     "batchPositionProjection", "qualityInspection", "qualityDecision", "defectAnalysis",
     "auditRecord", "outboxMessage", "monitoringDailySheet", "monitoringStationBoard"}
Emptied ==
    {"outboxMessage", "auditRecord", "idempotencyRecord", "catalogIdempotencyRecord",
     "asset", "defectAnalysis", "qualityDecision", "qualityInspection",
     "workInstruction", "processChangeLog", "subjectAssignment", "subjectCredential",
     "userPreference", "monitoringStationBoard", "monitoringDailySheet",
     "routingViolation", "stageEvent", "printJob", "inventoryTransaction",
     "batchPositionProjection", "lotPartAllocation", "batch", "routingStep", "partsList",
     "qualityStageAssignment", "stationStep", "subStageEligibility", "booth",
     "lineOperatorAssignment", "line", "workProcess", "stage", "subStage", "section",
     "productionLine", "modelPart", "lot", "part", "projectModelRequirement",
     "productSpecification", "project", "model", "product", "workflowGroup", "subject"}

(* An order that serves its needs may be continued by another.             *)
LEMMA Links ==
    ASSUME NEW needs, NEW D, NEW s, NEW F, NEW E, NEW t, NEW G, NEW H, NEW q,
           Does(needs, D, s, F), Does(needs, E, t, G), E \subseteq D \cup F,
           H \subseteq F \cup G,
           q \in Seq(DOMAIN needs), Len(q) = Len(s) + Len(t),
           \A i \in 1..Len(s) : q[i] = s[i],
           \A i \in 1..Len(t) : q[Len(s) + i] = t[i]
    PROVE  Does(needs, D, q, H)
<1>1. s \in Seq(DOMAIN needs) /\ t \in Seq(DOMAIN needs)
  BY DEF Does
<1>3. /\ q \in Seq(DOMAIN needs) /\ Len(q) = Len(s) + Len(t)
      /\ \A i \in 1..Len(s) : q[i] = s[i]
      /\ \A i \in 1..Len(t) : q[Len(s) + i] = t[i]
  OBVIOUS
<1>4. Len(s) \in Nat /\ Len(t) \in Nat
  BY <1>1
<1>5. ASSUME NEW i \in 1..Len(q)
      PROVE  needs[q[i]] \subseteq D \cup {q[j] : j \in 1..i - 1}
  <2>1. CASE i \in 1..Len(s)
    <3>1. needs[s[i]] \subseteq D \cup {s[j] : j \in 1..i - 1}
      BY <2>1 DEF Does
    <3>2. \A j \in 1..i - 1 : q[j] = s[j]
      BY <1>3, <1>4, <2>1
    <3>3. q[i] = s[i]
      BY <1>3, <2>1
    <3>4. ASSUME NEW x \in {s[j] : j \in 1..i - 1} PROVE x \in {q[j] : j \in 1..i - 1}
      BY <3>2
    <3> QED BY <3>1, <3>3, <3>4, Zenon
  <2>2. CASE i \notin 1..Len(s)
    <3>1. PICK k \in 1..Len(t) : i = Len(s) + k
      <4>1. i \in 1..Len(s) + Len(t)
        BY <1>3
      <4>2. i - Len(s) \in 1..Len(t) /\ i = Len(s) + (i - Len(s))
        BY <1>4, <2>2, <4>1
      <4> QED BY <4>2
    <3>2. needs[t[k]] \subseteq E \cup {t[j] : j \in 1..k - 1} /\ q[i] = t[k]
      BY <1>3, <3>1 DEF Does
    <3>3. ASSUME NEW j \in 1..k - 1 PROVE t[j] \in {q[m] : m \in 1..i - 1}
      <4>1. j \in 1..Len(t) /\ Len(s) + j \in 1..i - 1
        BY <1>4, <3>1
      <4>2. q[Len(s) + j] = t[j]
        BY <1>3, <4>1
      <4> QED BY <4>1, <4>2
    <3>4. ASSUME NEW j \in 1..Len(s) PROVE s[j] \in {q[m] : m \in 1..i - 1}
      <4>1. j \in 1..i - 1
        BY <1>4, <3>1
      <4>2. q[j] = s[j]
        BY <1>3
      <4> QED BY <4>1, <4>2
    <3>5. F \subseteq {q[m] : m \in 1..i - 1}
      BY <3>4 DEF Does
    <3>6. ASSUME NEW x \in needs[q[i]] PROVE x \in D \cup {q[m] : m \in 1..i - 1}
      <4>1. x \in E \/ \E j \in 1..k - 1 : x = t[j]
        BY <3>2
      <4>2. CASE x \in E
        BY <3>5, <4>2
      <4> QED BY <3>3, <4>1, <4>2
    <3> QED BY <3>6
  <2> QED BY <2>1, <2>2
<1>6. H \subseteq {q[i] : i \in 1..Len(q)}
  <2>1. ASSUME NEW j \in 1..Len(s) PROVE s[j] \in {q[m] : m \in 1..Len(q)}
    <3>1. j \in 1..Len(q)
      BY <1>3, <1>4
    <3> QED BY <1>3, <3>1
  <2>2. ASSUME NEW j \in 1..Len(t) PROVE t[j] \in {q[m] : m \in 1..Len(q)}
    <3>1. Len(s) + j \in 1..Len(q)
      BY <1>3, <1>4
    <3>2. q[Len(s) + j] = t[j]
      BY <1>3
    <3> QED BY <3>1, <3>2
  <2>3. /\ F \subseteq {s[i] : i \in 1..Len(s)}
        /\ G \subseteq {t[i] : i \in 1..Len(t)}
    BY DEF Does
  <2>4. ASSUME NEW x \in H PROVE x \in {q[i] : i \in 1..Len(q)}
    <3>1. CASE x \in F
      <4>1. PICK j \in 1..Len(s) : x = s[j]
        BY <2>3, <3>1
      <4> QED BY <2>1, <4>1
    <3>2. CASE x \in G
      <4>1. PICK j \in 1..Len(t) : x = t[j]
        BY <2>3, <3>2
      <4> QED BY <2>2, <4>1
    <3> QED BY <3>1, <3>2
  <2> QED BY <2>4
<1> QED BY <1>3, <1>5, <1>6 DEF Does

LEMMA Chain ==
    ASSUME NEW needs, NEW D, NEW s, NEW F, NEW E, NEW t, NEW G,
           Does(needs, D, s, F), Does(needs, E, t, G), E \subseteq D \cup F,
           NEW H, H \subseteq F \cup G
    PROVE  Does(needs, D, s \o t, H)
<1>1. s \in Seq(DOMAIN needs) /\ t \in Seq(DOMAIN needs)
  BY DEF Does
<1>2. /\ s \o t \in Seq(DOMAIN needs) /\ Len(s \o t) = Len(s) + Len(t)
      /\ \A i \in 1..Len(s) : (s \o t)[i] = s[i]
      /\ \A i \in 1..Len(t) : (s \o t)[Len(s) + i] = t[i]
  <2> DEFINE U == DOMAIN needs
  <2>1. s \in Seq(U) /\ t \in Seq(U)
    BY <1>1
  <2> HIDE DEF U
  <2>2. /\ s \o t \in Seq(U) /\ Len(s \o t) = Len(s) + Len(t)
        /\ \A i \in 1..Len(s) : (s \o t)[i] = s[i]
        /\ \A i \in 1..Len(t) : (s \o t)[Len(s) + i] = t[i]
    BY <2>1
  <2> QED BY <2>2, Zenon DEF U
<1>3. PICK q : q = s \o t
  OBVIOUS
<1>4. /\ q \in Seq(DOMAIN needs) /\ Len(q) = Len(s) + Len(t)
      /\ \A i \in 1..Len(s) : q[i] = s[i]
      /\ \A i \in 1..Len(t) : q[Len(s) + i] = t[i]
  BY <1>2, <1>3, Zenon
<1>5. Does(needs, D, q, H)
  BY <1>4, Links
<1> QED BY <1>3, <1>5, Zenon

(* The parts of the script, one after the other.                           *)
LEMMA CataloguedInOrder ==
    Does(NeedsOf, {}, Seed!CatalogPart, Catalogued)
  BY DEF Does, Catalogued, Seed!CatalogPart, Seed!SubjectFixtures, Seed!UpsertSubject,
    Seed!AnchorCatalog, Seed!AnchorCapsules, Seed!DemoPacks, Seed!Stages, NeedsOf

LEMMA EquippedInOrder ==
    Does(NeedsOf, Catalogued, Seed!FloorPart, Equipped)
  BY DEF Does, Equipped, Catalogued, Seed!FloorPart, Seed!SubStages, Seed!Sections,
    Seed!Processes, Seed!Stations, Seed!Booths, NeedsOf

LEMMA EvidencedInOrder ==
    Does(NeedsOf, Catalogued \cup Equipped \cup Planned, Seed!EvidencePart, Evidenced)
  BY DEF Does, Evidenced, Catalogued, Equipped, Planned, Seed!EvidencePart,
    Seed!FirstPrints, Seed!Events, Seed!Inventory, Seed!Positions, Seed!OpenInspections,
    Seed!PastInspections, Seed!StoryInspections, Seed!Records, Seed!DailySheets,
    Seed!StationBoards, NeedsOf

LEMMA PlannedInOrder ==
    Does(NeedsOf, Catalogued \cup Equipped, Seed!PlanPart, Planned)
<1> DEFINE D == Catalogued \cup Equipped
           S0 == Seed!AnchorProject \o Seed!AnchorParts \o Seed!AnchorRoute
                 \o Seed!DemoProjects \o Seed!DemoPlans \o Seed!AnchorLot
                 \o Seed!AnchorPacks \o Seed!AnchorSeries
           S1 == S0 \o Seed!StoryProjects
           S2 == S1 \o Seed!StoryParts
           S3 == S2 \o Seed!StoryRoutes
           S4 == S3 \o Seed!StoryPacks
<1>1. Does(NeedsOf, D, S0, Planned)
  BY DEF Does, Catalogued, Equipped, Planned, Seed!AnchorProject, Seed!AnchorParts,
     Seed!AnchorRoute, Seed!DemoProjects, Seed!DemoPlans, Seed!AnchorLot,
     Seed!AnchorPacks, Seed!AnchorSeries, Seed!SeriesPacks, Seed!SeriesEvidence, NeedsOf
<1>2. Does(NeedsOf, D \cup Planned, Seed!StoryProjects, {})
  BY DEF Does, Catalogued, Equipped, Planned, Seed!StoryProjects, NeedsOf
<1>3. Does(NeedsOf, D \cup Planned, Seed!StoryParts, {})
  BY DEF Does, Catalogued, Equipped, Planned, Seed!StoryParts, NeedsOf
<1>4. Does(NeedsOf, D \cup Planned, Seed!StoryRoutes, {})
  BY DEF Does, Catalogued, Equipped, Planned, Seed!StoryRoutes, NeedsOf
<1>5. Does(NeedsOf, D \cup Planned, Seed!StoryPacks, {})
  BY DEF Does, Catalogued, Equipped, Planned, Seed!StoryPacks, NeedsOf
<1>6. Does(NeedsOf, D \cup Planned, Seed!StorySeries, {})
  BY DEF Does, Catalogued, Equipped, Planned, Seed!StorySeries, Seed!SeriesPacks,
     Seed!SeriesEvidence, NeedsOf
<1> HIDE DEF S0, D
<1>7. Does(NeedsOf, D, S1, Planned)
  BY <1>1, <1>2, Chain, Planned \subseteq Planned \cup {}
<1> HIDE DEF S1
<1>8. Does(NeedsOf, D, S2, Planned)
  BY <1>3, <1>7, Chain, Planned \subseteq Planned \cup {}
<1> HIDE DEF S2
<1>9. Does(NeedsOf, D, S3, Planned)
  BY <1>4, <1>8, Chain, Planned \subseteq Planned \cup {}
<1> HIDE DEF S3
<1>10. Does(NeedsOf, D, S4, Planned)
  BY <1>5, <1>9, Chain, Planned \subseteq Planned \cup {}
<1> HIDE DEF S4
<1>11. Does(NeedsOf, D, S4 \o Seed!StorySeries, Planned)
  BY <1>6, <1>10, Chain, Planned \subseteq Planned \cup {}
<1> QED BY <1>11 DEF D, S0, S1, S2, S3, S4, Seed!PlanPart

(* What refers to a table is emptied before it.                            *)
LEMMA EmptiedInOrder == Does(HoldersOf, {}, Seed!WipeOrder, Emptied)
<1> DEFINE Evidence ==
               {"outboxMessage", "auditRecord", "idempotencyRecord",
                "catalogIdempotencyRecord", "asset", "defectAnalysis",
                "qualityDecision", "qualityInspection", "workInstruction",
                "processChangeLog", "subjectAssignment", "subjectCredential",
                "userPreference", "monitoringStationBoard", "monitoringDailySheet",
                "routingViolation", "stageEvent", "printJob", "inventoryTransaction"}
           Packs ==
               {"batchPositionProjection", "lotPartAllocation", "batch", "routingStep",
                "partsList"}
           Floor ==
               {"qualityStageAssignment", "stationStep", "subStageEligibility", "booth",
                "lineOperatorAssignment", "line", "workProcess", "stage", "subStage",
                "section", "productionLine"}
           Plan ==
               {"modelPart", "lot", "part", "projectModelRequirement",
                "productSpecification", "project", "model", "product", "workflowGroup",
                "subject"}
           S0 == Seed!WipeRecords \o Seed!WipeEvidence
           S1 == S0 \o Seed!WipePacks
           S2 == S1 \o Seed!WipeFloor
<1>1. Does(HoldersOf, {}, S0, Evidence)
  BY DEF Does, Seed!WipeRecords, Seed!WipeEvidence, HoldersOf
<1>2. Does(HoldersOf, Evidence, Seed!WipePacks, Packs)
  BY DEF Does, Seed!WipePacks, HoldersOf
<1>3. Does(HoldersOf, Evidence \cup Packs, Seed!WipeFloor, Floor)
  BY DEF Does, Seed!WipeFloor, HoldersOf
<1>4. Does(HoldersOf, Evidence \cup Packs \cup Floor, Seed!WipePlan, Plan)
  BY DEF Does, Seed!WipePlan, HoldersOf
<1>5. Emptied \subseteq Evidence \cup Packs \cup Floor \cup Plan
  BY DEF Emptied
<1> HIDE DEF S0, Evidence, Packs, Floor, Plan
<1>6. Does(HoldersOf, {}, S1, Evidence \cup Packs)
  BY <1>1, <1>2, Chain, Evidence \subseteq {} \cup Evidence
<1> HIDE DEF S1
<1>7. Does(HoldersOf, {}, S2, Evidence \cup Packs \cup Floor)
  BY <1>3, <1>6, Chain, Evidence \cup Packs \subseteq {} \cup (Evidence \cup Packs)
<1> HIDE DEF S2
<1>8. Does(HoldersOf, {}, S2 \o Seed!WipePlan, Emptied)
  BY <1>4, <1>5, <1>7, Chain,
     Evidence \cup Packs \cup Floor \subseteq {} \cup (Evidence \cup Packs \cup Floor)
<1> QED BY <1>8 DEF S0, S1, S2, Seed!WipeOrder

LEMMA RestInOrder ==
    Does(NeedsOf, Catalogued, Seed!FloorPart \o Seed!PlanPart \o Seed!EvidencePart,
         Equipped \cup Planned \cup Evidenced)
<1>1. Does(NeedsOf, Catalogued, Seed!FloorPart \o Seed!PlanPart, Equipped \cup Planned)
  BY EquippedInOrder, PlannedInOrder, Chain
<1>2. /\ Catalogued \cup Equipped \cup Planned \subseteq Catalogued \cup (Equipped \cup Planned)
      /\ Equipped \cup Planned \cup Evidenced \subseteq (Equipped \cup Planned) \cup Evidenced
  OBVIOUS
<1> QED BY <1>1, <1>2, EvidencedInOrder, Chain

(* The tables a run writes.                                                *)
Written == Catalogued \cup Equipped \cup Planned \cup Evidenced

(* The steps of a run: what has to have been done before each.             *)
Steps == [op : {"wipe", "upsert", "retire", "verify"}, table : DOMAIN NeedsOf]
Wipes(mode) == IF mode = "fresh" THEN {Seed!Step("wipe", t) : t \in Emptied} ELSE {}
Before(mode) ==
    [s \in Steps |->
        CASE s.op = "wipe" -> {Seed!Step("wipe", t) : t \in HoldersOf[s.table]}
          [] s.op = "upsert" ->
               Wipes(mode) \cup {Seed!Step("upsert", t) : t \in NeedsOf[s.table]}
          [] OTHER -> Wipes(mode)]

(* An order of tables is one of the steps on them.                         *)
LEMMA Every ==
    ASSUME NEW needs, NEW D, NEW s, NEW F, Does(needs, D, s, F),
           NEW op, NEW after, NEW E, {Seed!Step(op, t) : t \in D} \subseteq E,
           \A t \in DOMAIN needs :
              /\ Seed!Step(op, t) \in DOMAIN after
              /\ after[Seed!Step(op, t)] \subseteq E \cup {Seed!Step(op, h) : h \in needs[t]}
    PROVE  Does(after, E, Seed!Each(op, s), {Seed!Step(op, t) : t \in F})
<1> DEFINE q == Seed!Each(op, s)
           St(t) == Seed!Step(op, t)
<1>1. s \in Seq(DOMAIN needs) /\ Len(s) \in Nat
  BY DEF Does
<1>2. /\ q \in Seq(DOMAIN after) /\ Len(q) = Len(s)
      /\ \A i \in 1..Len(s) : q[i] = St(s[i])
  <2>1. \A i \in 1..Len(s) : s[i] \in DOMAIN needs /\ St(s[i]) \in DOMAIN after
    BY <1>1
  <2> HIDE DEF St
  <2>2. q = [i \in 1..Len(s) |-> St(s[i])]
    BY DEF Seed!Each, St
  <2> HIDE DEF q
  <2> QED BY <1>1, <2>1, <2>2
<1> HIDE DEF q
<1>3. ASSUME NEW i \in 1..Len(q)
      PROVE  after[q[i]] \subseteq E \cup {q[j] : j \in 1..i - 1}
  <2>1. i \in 1..Len(s) /\ s[i] \in DOMAIN needs /\ q[i] = St(s[i])
    BY <1>1, <1>2
  <2>2. after[St(s[i])] \subseteq E \cup {St(h) : h \in needs[s[i]]}
    BY <2>1
  <2>3. needs[s[i]] \subseteq D \cup {s[j] : j \in 1..i - 1}
    BY <2>1 DEF Does
  <2>4. ASSUME NEW h \in needs[s[i]] PROVE St(h) \in E \cup {q[j] : j \in 1..i - 1}
    <3>1. CASE h \in D
      BY <3>1
    <3>2. CASE h \notin D
      <4>1. PICK j \in 1..i - 1 : h = s[j]
        BY <2>3, <3>2
      <4>2. j \in 1..Len(s)
        BY <1>1, <2>1
      <4> QED BY <1>2, <4>1, <4>2
    <3> QED BY <3>1, <3>2
  <2> HIDE DEF St
  <2> QED BY <2>1, <2>2, <2>4
<1>4. ASSUME NEW t \in F PROVE St(t) \in {q[i] : i \in 1..Len(q)}
  <2>1. PICK i \in 1..Len(s) : t = s[i]
    BY DEF Does
  <2> QED BY <1>2, <2>1
<1>5. {St(t) : t \in F} \subseteq {q[i] : i \in 1..Len(q)}
  BY <1>4
<1> QED BY <1>2, <1>3, <1>5 DEF Does, q

(* One step whose needs are met.                                           *)
LEMMA Single ==
    ASSUME NEW needs, NEW D, NEW x \in DOMAIN needs, needs[x] \subseteq D
    PROVE  Does(needs, D, <<x>>, {})
  BY DEF Does

(* Every step of a run comes after those it needs, and it writes all.      *)
LEMMA Ordered ==
    ASSUME NEW mode \in Seed!Modes
    PROVE  Does(Before(mode), {}, Seed!Program(mode),
                Wipes(mode) \cup {Seed!Step("upsert", t) : t \in Written})
<1> DEFINE B == Before(mode)
           W == Wipes(mode)
           R == {Seed!Step("upsert", t) : t \in Equipped \cup Planned \cup Evidenced}
           All == {Seed!Step("upsert", t) : t \in Written}
           U == {Seed!Step("upsert", t) : t \in Catalogued}
           P1 == IF mode = "fresh" THEN Seed!Each("wipe", Seed!WipeOrder) ELSE <<>>
           P2 == Seed!Each("upsert", Seed!CatalogPart)
           P3 == <<Seed!Step("retire", "subject")>>
           P4 == Seed!Each("upsert", Seed!FloorPart \o Seed!PlanPart \o Seed!EvidencePart)
           P5 == <<Seed!Step("verify", "batch")>>
<1>1. DOMAIN B = Steps
  BY DEF Before
<1>2. Does(B, {}, P1, W)
  <2>1. CASE mode = "fresh"
    <3>1. \A t \in DOMAIN HoldersOf : t \in DOMAIN NeedsOf
      BY DEF HoldersOf, NeedsOf
    <3>2. ASSUME NEW t \in DOMAIN HoldersOf
          PROVE  /\ Seed!Step("wipe", t) \in DOMAIN B
                 /\ B[Seed!Step("wipe", t)]
                       \subseteq {} \cup {Seed!Step("wipe", h) : h \in HoldersOf[t]}
      <4>1. Seed!Step("wipe", t) \in Steps
        BY <3>1 DEF Seed!Step, Steps
      <4> QED BY <4>1 DEF Before, Seed!Step
    <3>3. {Seed!Step("wipe", t) : t \in {}} \subseteq {}
      OBVIOUS
    <3> HIDE DEF B
    <3>4. Does(B, {}, Seed!Each("wipe", Seed!WipeOrder),
               {Seed!Step("wipe", t) : t \in Emptied})
      BY <3>2, <3>3, EmptiedInOrder, Every
    <3> QED BY <2>1, <3>4 DEF Wipes
  <2>2. CASE mode # "fresh"
    <3>1. Does(B, {}, <<>>, {})
      BY DEF Does
    <3> QED BY <2>2, <3>1 DEF Wipes
  <2> QED BY <2>1, <2>2
<1>3. ASSUME NEW t \in DOMAIN NeedsOf
      PROVE  /\ Seed!Step("upsert", t) \in DOMAIN B
             /\ B[Seed!Step("upsert", t)]
                   \subseteq W \cup {Seed!Step("upsert", h) : h \in NeedsOf[t]}
  <2>1. Seed!Step("upsert", t) \in Steps
    BY DEF Seed!Step, Steps
  <2> QED BY <2>1 DEF Before, Seed!Step
<1>4. /\ Seed!Step("retire", "subject") \in Steps /\ Seed!Step("verify", "batch") \in Steps
      /\ B[Seed!Step("retire", "subject")] = W /\ B[Seed!Step("verify", "batch")] = W
  <2>1. "subject" \in DOMAIN NeedsOf /\ "batch" \in DOMAIN NeedsOf
    BY DEF NeedsOf
  <2>2. Seed!Step("retire", "subject") \in Steps /\ Seed!Step("verify", "batch") \in Steps
    BY <2>1 DEF Steps, Seed!Step
  <2> QED BY <2>2 DEF Before, Seed!Step
<1> HIDE DEF B, W, P1
<1>5. Does(B, W, P2, U)
  <2>1. {Seed!Step("upsert", t) : t \in {}} \subseteq W
    OBVIOUS
  <2> QED BY <1>3, <2>1, CataloguedInOrder, Every
<1>6. Does(B, W, P3, {})
  BY <1>1, <1>4, Single
<1>7. Does(B, W \cup U, P4, R)
  <2>1. U \subseteq W \cup U
    OBVIOUS
  <2>2. \A t \in DOMAIN NeedsOf :
           /\ Seed!Step("upsert", t) \in DOMAIN B
           /\ B[Seed!Step("upsert", t)]
                 \subseteq (W \cup U) \cup {Seed!Step("upsert", h) : h \in NeedsOf[t]}
    BY <1>3
  <2> QED BY <2>1, <2>2, RestInOrder, Every
<1>8. Does(B, W, P5, {})
  BY <1>1, <1>4, Single
<1>14. All = U \cup R
  BY DEF Written
<1> HIDE DEF U, R, All, P2, P3, P4, P5
<1>9. Does(B, {}, P1 \o P2, W \cup U)
  BY <1>2, <1>5, Chain, W \subseteq {} \cup W
<1> DEFINE Q2 == P1 \o P2
<1> HIDE DEF Q2
<1>10. Does(B, {}, Q2 \o P3, W \cup U)
  BY <1>6, <1>9, Chain, W \subseteq {} \cup (W \cup U), W \cup U \subseteq (W \cup U) \cup {}
     DEF Q2
<1> DEFINE Q3 == Q2 \o P3
<1> HIDE DEF Q3
<1>11. Does(B, {}, Q3 \o P4, W \cup All)
  BY <1>7, <1>10, <1>14, Chain, W \cup U \subseteq {} \cup (W \cup U),
     W \cup (U \cup R) \subseteq (W \cup U) \cup R
     DEF Q3
<1> DEFINE Q4 == Q3 \o P4
<1> HIDE DEF Q4
<1>12. Does(B, {}, Q4 \o P5, W \cup All)
  BY <1>8, <1>11, Chain, W \subseteq {} \cup (W \cup All),
     W \cup All \subseteq (W \cup All) \cup {} DEF Q4
<1>13. Seed!Program(mode) = Q4 \o P5
  BY DEF Seed!Program, Q2, Q3, Q4, P1, P2, P3, P4, P5
<1> QED BY <1>12, <1>13 DEF B, W, All

(* The wipes come first, and nowhere else.                                 *)
Opens(q, n) ==
    /\ q \in Seq(Steps) /\ n \in Nat
    /\ \A i \in 1..Len(q) : q[i].op = "wipe" <=> i <= n
Wipeless(q) == q \in Seq(Steps) /\ \A i \in 1..Len(q) : q[i].op # "wipe"

(* What follows is no wipe.                                                *)
LEMMA StaysOpen ==
    ASSUME NEW s, NEW t, NEW n, Opens(s, n), Wipeless(t), n <= Len(s)
    PROVE  Opens(s \o t, n) /\ n <= Len(s \o t)
<1>1. s \in Seq(Steps) /\ t \in Seq(Steps) /\ n \in Nat /\ Len(s) \in Nat /\ Len(t) \in Nat
  BY DEF Opens, Wipeless
<1>2. /\ s \o t \in Seq(Steps) /\ Len(s \o t) = Len(s) + Len(t)
      /\ \A i \in 1..Len(s) : (s \o t)[i] = s[i]
      /\ \A i \in 1..Len(t) : (s \o t)[Len(s) + i] = t[i]
  BY <1>1
<1>3. PICK q : q = s \o t
  OBVIOUS
<1>4. /\ q \in Seq(Steps) /\ Len(q) = Len(s) + Len(t)
      /\ \A i \in 1..Len(s) : q[i] = s[i]
      /\ \A i \in 1..Len(t) : q[Len(s) + i] = t[i]
  BY <1>2, <1>3, Zenon
<1>5. ASSUME NEW i \in 1..Len(q) PROVE q[i].op = "wipe" <=> i <= n
  <2>1. CASE i <= Len(s)
    BY <1>1, <1>4, <2>1 DEF Opens
  <2>2. CASE i > Len(s)
    <3>1. i - Len(s) \in 1..Len(t) /\ i = Len(s) + (i - Len(s)) /\ ~(i <= n)
      BY <1>1, <1>4, <2>2
    <3>2. q[i] = t[i - Len(s)]
      BY <1>4, <3>1
    <3> QED BY <3>1, <3>2 DEF Wipeless
  <2> QED BY <1>1, <1>4, <2>1, <2>2
<1>6. Opens(q, n) /\ n <= Len(q)
  BY <1>1, <1>4, <1>5 DEF Opens
<1> QED BY <1>3, <1>6, Zenon

(* The steps over an order of tables are of one kind.                      *)
LEMMA EachIs ==
    ASSUME NEW s \in Seq(DOMAIN NeedsOf), NEW op \in {"wipe", "upsert"}
    PROVE  /\ Seed!Each(op, s) \in Seq(Steps) /\ Len(Seed!Each(op, s)) = Len(s)
           /\ \A i \in 1..Len(s) : Seed!Each(op, s)[i].op = op
<1>1. \A i \in 1..Len(s) : s[i] \in DOMAIN NeedsOf
  OBVIOUS
<1>2. \A t \in DOMAIN NeedsOf : Seed!Step(op, t) \in Steps /\ Seed!Step(op, t).op = op
  BY DEF Seed!Step, Steps
<1> QED BY <1>1, <1>2 DEF Seed!Each

(* Only a fresh run wipes, and does so first.                              *)
LEMMA WipesFirst ==
    ASSUME NEW mode \in Seed!Modes
    PROVE  \E n \in Nat :
              /\ Opens(Seed!Program(mode), n)
              /\ mode # "fresh" => n = 0
<1> DEFINE P1 == IF mode = "fresh" THEN Seed!Each("wipe", Seed!WipeOrder) ELSE <<>>
           P2 == Seed!Each("upsert", Seed!CatalogPart)
           P3 == <<Seed!Step("retire", "subject")>>
           P4 == Seed!Each("upsert", Seed!FloorPart \o Seed!PlanPart \o Seed!EvidencePart)
           P5 == <<Seed!Step("verify", "batch")>>
           n == Len(P1)
<1>1. /\ Seed!WipeOrder \in Seq(DOMAIN NeedsOf)
      /\ Seed!CatalogPart \in Seq(DOMAIN NeedsOf)
      /\ Seed!FloorPart \o Seed!PlanPart \o Seed!EvidencePart \in Seq(DOMAIN NeedsOf)
  <2>1. Seed!WipeOrder \in Seq(DOMAIN HoldersOf) /\ DOMAIN HoldersOf \subseteq DOMAIN NeedsOf
    <3>1. DOMAIN HoldersOf \subseteq DOMAIN NeedsOf
      BY DEF HoldersOf, NeedsOf
    <3> QED BY <3>1, EmptiedInOrder DEF Does
  <2>2. Seed!WipeOrder \in Seq(DOMAIN NeedsOf)
    BY <2>1
  <2> QED BY <2>2, CataloguedInOrder, RestInOrder DEF Does
<1>2. Opens(P1, n) /\ n <= Len(P1)
  <2>1. CASE mode = "fresh"
    BY <1>1, <2>1, EachIs DEF Opens
  <2>2. CASE mode # "fresh"
    BY <2>2 DEF Opens
  <2> QED BY <2>1, <2>2
<1>3. Wipeless(P2) /\ Wipeless(P4)
  BY <1>1, EachIs DEF Wipeless
<1>4. Wipeless(P3) /\ Wipeless(P5)
  <2>1. "subject" \in DOMAIN NeedsOf /\ "batch" \in DOMAIN NeedsOf
    BY DEF NeedsOf
  <2>2. Seed!Step("retire", "subject") \in Steps /\ Seed!Step("verify", "batch") \in Steps
    BY <2>1 DEF Steps, Seed!Step
  <2>3. Seed!Step("retire", "subject").op # "wipe" /\ Seed!Step("verify", "batch").op # "wipe"
    BY DEF Seed!Step
  <2> QED BY <2>2, <2>3 DEF Wipeless
<1>5. mode # "fresh" => n = 0
  OBVIOUS
<1>6. Seed!Program(mode) = P1 \o P2 \o P3 \o P4 \o P5
  BY DEF Seed!Program
<1>7. n \in Nat
  BY <1>2 DEF Opens
<1> HIDE DEF P1, P2, P3, P4, P5, n
<1>8. Opens(P1 \o P2 \o P3 \o P4 \o P5, n)
  BY <1>2, <1>3, <1>4, StaysOpen
<1> QED BY <1>5, <1>6, <1>7, <1>8

(* What a reader has to know of the script: every step comes after those   *)
(* it needs, the wipes come first, only in a fresh run and of all tables,  *)
(* and the tables of the seed are written.                                 *)
ScriptIs(mode, n) ==
    /\ Seed!Program(mode) \in Seq(Steps) /\ n \in Nat
    /\ \A i \in 1..Len(Seed!Program(mode)) :
          Seed!Program(mode)[i].op = "wipe" <=> i <= n
    /\ mode # "fresh" => n = 0
    /\ \A i \in 1..Len(Seed!Program(mode)) :
          Before(mode)[Seed!Program(mode)[i]]
             \subseteq {Seed!Program(mode)[j] : j \in 1..i - 1}
    /\ Wipes(mode) \subseteq {Seed!Program(mode)[j] : j \in 1..Len(Seed!Program(mode))}
    /\ \A t \in Written :
          \E j \in 1..Len(Seed!Program(mode)) :
             Seed!Program(mode)[j] = Seed!Step("upsert", t)

LEMMA Script == \A mode \in Seed!Modes : \E n \in Nat : ScriptIs(mode, n)
<1> SUFFICES ASSUME NEW mode \in Seed!Modes PROVE \E n \in Nat : ScriptIs(mode, n)
  OBVIOUS
<1>1. PICK n \in Nat : Opens(Seed!Program(mode), n) /\ (mode # "fresh" => n = 0)
  BY WipesFirst
<1> DEFINE All == {Seed!Step("upsert", t) : t \in Written}
<1>2. Does(Before(mode), {}, Seed!Program(mode), Wipes(mode) \cup All)
  BY Ordered
<1>3. Wipes(mode) \cup All
         \subseteq {Seed!Program(mode)[j] : j \in 1..Len(Seed!Program(mode))}
  BY <1>2 DEF Does
<1>4. ASSUME NEW t \in Written
      PROVE  \E j \in 1..Len(Seed!Program(mode)) :
                Seed!Program(mode)[j] = Seed!Step("upsert", t)
  <2>1. Seed!Step("upsert", t) \in All
    OBVIOUS
  <2> HIDE DEF All
  <2> QED BY <1>3, <2>1
<1> HIDE DEF All
<1>5. Wipes(mode) \subseteq {Seed!Program(mode)[j] : j \in 1..Len(Seed!Program(mode))}
  BY <1>3
<1> QED BY <1>1, <1>2, <1>4, <1>5 DEF ScriptIs, Does, Opens

(* And these.                                                              *)
LEMMA HoldersAre == ASSUME NEW r \in Seed!Refs
  PROVE \/ r = <<"machine", "productionLine">>
        \/ r[2] \in DOMAIN HoldersOf /\ r[1] \in HoldersOf[r[2]]
<1>1. ASSUME r \in Seed!CatalogRefs \cup Seed!RouteRefs \cup Seed!PlanRefs
      PROVE  r[2] \in DOMAIN HoldersOf /\ r[1] \in HoldersOf[r[2]]
  BY <1>1 DEF Seed!CatalogRefs, Seed!RouteRefs, Seed!PlanRefs, HoldersOf
<1>2. ASSUME r \in Seed!PackRefs \cup Seed!QualityRefs
      PROVE  r[2] \in DOMAIN HoldersOf /\ r[1] \in HoldersOf[r[2]]
  BY <1>2 DEF Seed!PackRefs, Seed!QualityRefs, HoldersOf
<1>3. ASSUME r \in Seed!FloorRefs \cup Seed!IdentityRefs,
             r # <<"machine", "productionLine">>
      PROVE  r[2] \in DOMAIN HoldersOf /\ r[1] \in HoldersOf[r[2]]
  BY <1>3 DEF Seed!FloorRefs, Seed!IdentityRefs, HoldersOf
<1> QED BY <1>1, <1>2, <1>3 DEF Seed!Refs

(* The tables of the seed.                                                 *)
LEMMA Domains ==
    /\ DOMAIN NeedsOf = Emptied
    /\ DOMAIN HoldersOf = Emptied
    /\ \A t \in Emptied : NeedsOf[t] \subseteq Emptied
    /\ "machine" \notin Emptied
<1>1. DOMAIN NeedsOf = Emptied /\ DOMAIN HoldersOf = Emptied
  BY DEF NeedsOf, HoldersOf, Emptied
<1>2. \A t \in Emptied : NeedsOf[t] \subseteq Emptied
  BY DEF NeedsOf, Emptied
<1>3. "machine" \notin Emptied
  BY DEF Emptied
<1> QED BY <1>1, <1>2, <1>3

(* All tables are the seed's, but for the machines.                        *)
LEMMA TablesAre == Seed!Tables = Emptied \cup {"machine"}
<1> DEFINE T == Emptied \cup {"machine"}
           Order == {Seed!WipeOrder[i] : i \in 1..Len(Seed!WipeOrder)}
           All == Seed!Refs \cup Seed!OpenRefs
<1>1. ASSUME NEW r \in All PROVE r[1] \in T /\ r[2] \in T
  <2>1. CASE r = <<"machine", "productionLine">>
    BY <2>1 DEF Emptied
  <2>2. CASE r # <<"machine", "productionLine">>
    BY <2>2, NeedsAre, Domains
  <2> QED BY <2>1, <2>2
<1>2. Order \subseteq T /\ Emptied \subseteq Order
  <2>1. Seed!WipeOrder \in Seq(Emptied)
    BY EmptiedInOrder, Domains DEF Does
  <2>2. \A i \in 1..Len(Seed!WipeOrder) : Seed!WipeOrder[i] \in Emptied
    BY <2>1
  <2> QED BY <2>2, EmptiedInOrder DEF Does
<1>3. <<"machine", "productionLine">> \in All
  BY DEF Seed!Refs, Seed!FloorRefs
<1> HIDE DEF All, Order
<1>4. "machine" \in UNION {{r[1], r[2]} : r \in All}
  <2>1. "machine" \in {<<"machine", "productionLine">>[1], <<"machine", "productionLine">>[2]}
    OBVIOUS
  <2> QED BY <1>3, <2>1
<1>5. Seed!Tables = (UNION {{r[1], r[2]} : r \in All}) \cup Order
  BY DEF Seed!Tables, All, Order
<1>6. ASSUME NEW t \in UNION {{r[1], r[2]} : r \in All} PROVE t \in T
  BY <1>1
<1> HIDE DEF T
<1>7. /\ UNION {{r[1], r[2]} : r \in All} \subseteq T
      /\ Emptied \subseteq Order /\ Order \subseteq T
  BY <1>2, <1>6
<1>8. ASSUME NEW t \in T PROVE t \in Seed!Tables
  <2>1. CASE t \in Emptied
    BY <1>5, <1>7, <2>1
  <2>2. CASE t = "machine"
    BY <1>4, <1>5, <2>2
  <2> QED BY <2>1, <2>2 DEF T
<1>9. Seed!Tables \subseteq T
  BY <1>5, <1>7
<1> QED BY <1>8, <1>9 DEF T

(* A run that has got as far as it has.                                    *)
Runs ==
    [mode : Seed!Modes, next : Nat, late : BOOLEAN, slot : Seed!Contents,
     made : SUBSET DOMAIN Seed!TableOf]

(* The i-th step of a run; a table that it has emptied for good.           *)
At(tx, i) == Seed!Program(tx.mode)[i]
Gone(tx, t) ==
    /\ tx.slot[t] # "taken"
    /\ \A k \in tx.made : Seed!TableOf[k] # t
    /\ t = "productionLine" => "machine" \notin tx.made

(* What the API may have done to the rows a run has written: granted a     *)
(* role, meanwhile.                                                        *)
Restored(tx) ==
    \A i \in 1..tx.next - 1 : At(tx, i).op = "upsert" =>
       \A k \in tx.made :
          k \in DOMAIN Seed!Changes /\ Seed!TableOf[k] = At(tx, i).table
             => k = "grant" /\ tx.late

(* What a run has written is there, as the seed has it; what a fresh one   *)
(* has emptied, while nobody interferes, holds nothing but what the run    *)
(* itself has written, and nothing at all while it is emptying tables.     *)
RunGood(tx) ==
    /\ tx \in Runs /\ tx.next \in 1..Len(Seed!Program(tx.mode)) + 1
    /\ tx.slot["machine"] = "none"
    /\ \A i \in 1..tx.next - 1 :
          At(tx, i).op = "upsert" => tx.slot[At(tx, i).table] # "none"
    /\ Restored(tx)
    /\ tx.mode = "fresh" /\ ~tx.late =>
          /\ \A i \in 1..tx.next - 1 :
                At(tx, i).op = "wipe" => Gone(tx, At(tx, i).table)
          /\ tx.next <= Len(Seed!Program(tx.mode)) /\ At(tx, tx.next).op = "wipe" =>
                \A i \in 1..tx.next - 1 : tx.slot[At(tx, i).table] = "none"

(* What the API may do to rows of the seed.                                *)
LEMMA ChangesAre ==
    /\ DOMAIN Seed!Changes = {"grant", "release"}
    /\ Seed!TableOf["grant"] = "subjectAssignment" /\ Seed!TableOf["release"] = "project"
  BY DEF Seed!Changes, Seed!TableOf

(* A step that does what the script says keeps this.                       *)
LEMMA Advances ==
    ASSUME NEW tx, RunGood(tx), tx.next <= Len(Seed!Program(tx.mode)),
           NEW s, s = At(tx, tx.next), NEW tx2,
           tx2 \in Runs, tx2.mode = tx.mode, tx2.late = tx.late,
           tx2.next = tx.next + 1,
           s.op = "wipe" =>
              /\ tx2.slot = [tx.slot EXCEPT ![s.table] = "none"]
              /\ tx2.made = {k \in tx.made : Seed!TableOf[k] # s.table}
              /\ s.table = "productionLine" => "machine" \notin tx.made,
           s.op = "upsert" =>
              /\ tx2.slot = [tx.slot EXCEPT ![s.table] =
                                 IF @ = "taken" THEN "taken" ELSE "seeded"]
              /\ tx2.made = tx.made \ Seed!Resets(s.table),
           s.op \notin {"wipe", "upsert"} => tx2.slot = tx.slot /\ tx2.made = tx.made
    PROVE  RunGood(tx2)
<1> DEFINE P == Seed!Program(tx.mode)
<1>1. /\ tx \in Runs /\ tx.next \in 1..Len(P) + 1 /\ tx.slot["machine"] = "none"
      /\ \A i \in 1..tx.next - 1 : P[i].op = "upsert" => tx.slot[P[i].table] # "none"
  BY DEF RunGood, At
<1>2. PICK n \in Nat : ScriptIs(tx.mode, n)
  BY <1>1, Script DEF Runs
<1>3. P \in Seq(Steps) /\ Len(P) \in Nat /\ n \in Nat
  BY <1>2 DEF ScriptIs
<1>4. ASSUME NEW i \in 1..Len(P)
      PROVE  P[i] \in Steps /\ P[i].table \in Emptied /\ (P[i].op = "wipe" <=> i <= n)
  <2>1. P[i] \in Steps
    BY <1>3
  <2> QED BY <1>2, <2>1, Domains DEF Steps, ScriptIs
<1>5. /\ tx.next \in 1..Len(P) /\ tx.next \in Nat /\ tx2.next - 1 = tx.next
      /\ s = P[tx.next] /\ tx2.next \in 1..Len(P) + 1
  BY <1>1, <1>3 DEF At
<1>6. tx.slot \in Seed!Contents /\ tx2.slot \in Seed!Contents
  BY <1>1 DEF Runs
<1>7. DOMAIN tx.slot = Emptied \cup {"machine"} /\ s.table \in Emptied /\ s.table # "machine"
  BY <1>4, <1>5, <1>6, TablesAre, Domains DEF Seed!Contents
<1>8. /\ tx.made \subseteq DOMAIN Seed!TableOf
      /\ tx2.made \subseteq tx.made
      /\ s.op = "upsert" => tx2.made = tx.made \ Seed!Resets(s.table)
  BY <1>1, s.op = "upsert" \/ s.op \notin {"wipe", "upsert"} \/ s.op = "wipe" DEF Runs
<1>9. ASSUME NEW t \in Emptied \cup {"machine"}
      PROVE  /\ s.op = "wipe" => tx2.slot[t] = IF t = s.table THEN "none" ELSE tx.slot[t]
             /\ s.op = "upsert" =>
                  tx2.slot[t] = IF t # s.table THEN tx.slot[t]
                                 ELSE IF tx.slot[t] = "taken" THEN "taken" ELSE "seeded"
             /\ s.op \notin {"wipe", "upsert"} => tx2.slot[t] = tx.slot[t]
  BY <1>7
<1>10. tx2.slot["machine"] = "none"
  BY <1>1, <1>7, <1>9
<1>11. ASSUME NEW i \in 1..tx2.next - 1, P[i].op = "upsert"
       PROVE  tx2.slot[P[i].table] # "none"
  <2>1. i \in 1..Len(P) /\ i <= tx.next /\ ~(i <= n) /\ P[i].table \in Emptied
    BY <1>3, <1>4, <1>5, <1>11
  <2>2. s.op # "wipe"
    BY <1>3, <1>4, <1>5, <2>1
  <2>3. CASE i = tx.next
    BY <1>5, <1>9, <1>11, <2>1, <2>3
  <2>4. CASE i < tx.next
    <3>1. tx.slot[P[i].table] # "none"
      BY <1>1, <1>5, <1>11, <2>1, <2>4
    <3> QED BY <1>9, <2>1, <2>2, <3>1
  <2> QED BY <1>5, <2>1, <2>3, <2>4
<1>12. ASSUME tx.mode = "fresh", ~tx.late, NEW i \in 1..tx2.next - 1, P[i].op = "wipe"
       PROVE  Gone(tx2, P[i].table)
  <2>1. i \in 1..Len(P) /\ i <= tx.next /\ P[i].table \in Emptied
    BY <1>3, <1>4, <1>5
  <2>2. CASE i = tx.next
    <3>1. s.op = "wipe" /\ s.table = P[i].table
      BY <1>5, <1>12, <2>2
    <3>2. tx2.slot[s.table] # "taken"
      BY <1>7, <1>9, <3>1
    <3>3. /\ tx2.made = {k \in tx.made : Seed!TableOf[k] # s.table}
          /\ s.table = "productionLine" => "machine" \notin tx.made
      BY <3>1
    <3> QED BY <3>1, <3>2, <3>3 DEF Gone
  <2>3. CASE i < tx.next
    <3>1. Gone(tx, P[i].table)
      BY <1>5, <1>12, <2>1, <2>3 DEF RunGood, At
    <3>2. tx2.slot[P[i].table] # "taken"
      BY <1>9, <2>1, <3>1 DEF Gone
    <3>3. tx2.made \subseteq tx.made
      BY <1>8
    <3> QED BY <3>1, <3>2, <3>3 DEF Gone
  <2> QED BY <1>5, <2>1, <2>2, <2>3
<1>13. ASSUME tx.mode = "fresh", ~tx.late, tx2.next <= Len(P), P[tx2.next].op = "wipe",
              NEW i \in 1..tx2.next - 1
       PROVE  tx2.slot[P[i].table] = "none"
  <2>1. i \in 1..Len(P) /\ i <= tx.next /\ P[i].table \in Emptied
    BY <1>3, <1>4, <1>5
  <2>2. s.op = "wipe" /\ P[tx.next].op = "wipe"
    BY <1>3, <1>4, <1>5, <1>13
  <2>3. CASE i = tx.next
    BY <1>5, <1>9, <2>1, <2>2, <2>3
  <2>4. CASE i < tx.next
    <3>1. tx.slot[P[i].table] = "none"
      BY <1>5, <1>13, <2>1, <2>2, <2>4 DEF RunGood, At
    <3> QED BY <1>9, <2>1, <2>2, <3>1
  <2> QED BY <1>5, <2>1, <2>3, <2>4
<1>14. ASSUME NEW i \in 1..tx2.next - 1, P[i].op = "upsert", NEW k \in tx2.made,
              k \in DOMAIN Seed!Changes, Seed!TableOf[k] = P[i].table
       PROVE  k = "grant" /\ tx2.late
  <2>1. CASE i = tx.next
    <3>1. s.op = "upsert" /\ k \notin Seed!Resets(s.table) /\ Seed!TableOf[k] = s.table
      BY <1>5, <1>8, <1>14, <2>1
    <3> QED BY <1>14, <3>1 DEF Seed!Resets
  <2>2. CASE i < tx.next
    <3>1. Restored(tx) /\ i \in 1..tx.next - 1 /\ k \in tx.made /\ At(tx, i) = P[i]
      BY <1>5, <1>8, <2>2 DEF RunGood, At
    <3>2. k = "grant" /\ tx.late
      BY <1>14, <3>1 DEF Restored
    <3> QED BY <3>2
  <2> QED BY <1>5, <2>1, <2>2
<1>15. Restored(tx2)
  BY <1>14 DEF Restored, At
<1> QED BY <1>5, <1>10, <1>11, <1>12, <1>13, <1>15 DEF RunGood, At

(* The invariant of the seed script.                                       *)
SeedInv ==
    /\ slot \in Seed!Contents /\ made \in SUBSET DOMAIN Seed!TableOf
    /\ slot["machine"] = "none"
    /\ Seed!Running => RunGood(seedRun)

(* Runs end.                                                               *)
LEMMA ProgramLength ==
    \A mode \in Seed!Modes : Len(Seed!Program(mode)) \in Nat
  BY Script DEF ScriptIs

(* A database that was never seeded.                                       *)
LEMMA SeedStarts == Seed!Init => SeedInv
<1> SUFFICES ASSUME Seed!Init PROVE SeedInv
  OBVIOUS
<1>1. made \in SUBSET DOMAIN Seed!TableOf
  BY ServicesAssumption DEF Seed!Init
<1>2. "machine" \in Seed!Tables
  BY TablesAre
<1> QED BY <1>1, <1>2 DEF Seed!Init, Seed!Running, Seed!Contents, SeedInv

(* The API acts, before a run or meanwhile.                                *)
LEMMA MakeStep ==
    ASSUME SeedInv, NEW kind \in Uses, Seed!Make(kind)
    PROVE  SeedInv'
<1>1. /\ made' = made \cup {kind} /\ slot' = slot /\ kind \in DOMAIN Seed!TableOf
      /\ seedRun' = IF Seed!Running
                    THEN [seedRun EXCEPT !.made = @ \cup {kind}, !.late = TRUE]
                    ELSE seedRun
  BY ServicesAssumption DEF Seed!Make
<1>2. CASE ~Seed!Running
  BY <1>1, <1>2 DEF SeedInv, Seed!Running
<1>3. CASE Seed!Running
  <2> DEFINE tx == seedRun
             tx2 == [tx EXCEPT !.made = @ \cup {kind}, !.late = TRUE]
  <2>1. RunGood(tx) /\ tx \in Runs
    BY <1>3 DEF SeedInv, RunGood
  <2>2. /\ tx2 \in Runs /\ tx2.mode = tx.mode /\ tx2.next = tx.next /\ tx2.late = TRUE
        /\ tx2.slot = tx.slot /\ tx2.made = tx.made \cup {kind}
    BY <1>1, <2>1 DEF Runs
  <2>3. seedRun' = tx2
    BY <1>1, <1>3
  <2> HIDE DEF tx2
  <2>4. ASSUME NEW i \in 1..tx.next - 1, At(tx, i).op = "upsert",
               At(tx, i).table = "project"
        PROVE  kind # "release"
    <3>1. PICK n \in Nat : ScriptIs(tx.mode, n)
      BY <2>1, Script DEF Runs
    <3>2. At(tx, i) \in Steps
      BY <2>1, <3>1, ProgramLength DEF RunGood, ScriptIs, At, Runs
    <3>3. At(tx, i) = Seed!Step("upsert", "project")
      BY <2>4, <3>2 DEF Steps, Seed!Step
    <3>4. kind = "release" => ~Seed!Done(tx, Seed!Step("upsert", "project"))
      BY <1>3 DEF Seed!Make
    <3> QED BY <3>3, <3>4 DEF Seed!Done, At
  <2>5. ASSUME NEW i \in 1..tx2.next - 1, At(tx2, i).op = "upsert", NEW k \in tx2.made,
               k \in DOMAIN Seed!Changes, Seed!TableOf[k] = At(tx2, i).table
        PROVE  k = "grant" /\ tx2.late
    <3>1. At(tx2, i) = At(tx, i)
      BY <2>2 DEF At
    <3>2. CASE k = kind
      <4>1. k = "grant" \/ (k = "release" /\ Seed!TableOf[k] = "project")
        BY <2>5, ChangesAre
      <4> QED BY <2>2, <2>4, <2>5, <3>1, <3>2, <4>1
    <3>3. CASE k # kind
      BY <2>1, <2>2, <2>5, <3>1, <3>3 DEF RunGood, Restored
    <3> QED BY <3>2, <3>3
  <2>6. RunGood(tx2)
    BY <2>1, <2>2, <2>5 DEF RunGood, Restored, At
  <2> QED BY <1>1, <2>3, <2>6 DEF SeedInv
<1> QED BY <1>2, <1>3

LEMMA TakeStep ==
    ASSUME SeedInv, NEW t \in Takes, Seed!Take(t)
    PROVE  SeedInv'
<1>1. /\ slot[t] = "none" /\ slot' = [slot EXCEPT ![t] = "taken"] /\ made' = made
      /\ Seed!Running => seedRun.slot[t] = "none"
      /\ seedRun' = IF Seed!Running
                    THEN [seedRun EXCEPT !.slot[t] = "taken", !.late = TRUE]
                    ELSE seedRun
      /\ t \in Seed!Tables /\ t # "machine"
  BY ServicesAssumption DEF Seed!Take
<1>2. slot \in Seed!Contents /\ slot' \in Seed!Contents /\ slot'["machine"] = "none"
  BY <1>1, TablesAre DEF SeedInv, Seed!Contents
<1>3. CASE ~Seed!Running
  BY <1>1, <1>2, <1>3 DEF SeedInv, Seed!Running
<1>4. CASE Seed!Running
  <2> DEFINE tx == seedRun
             tx2 == [tx EXCEPT !.slot[t] = "taken", !.late = TRUE]
  <2>1. RunGood(tx) /\ tx \in Runs
    BY <1>4 DEF SeedInv, RunGood
  <2>2. tx.slot \in Seed!Contents /\ [tx.slot EXCEPT ![t] = "taken"] \in Seed!Contents
    BY <2>1 DEF Runs, Seed!Contents
  <2>3. /\ tx2 \in Runs /\ tx2.mode = tx.mode /\ tx2.next = tx.next /\ tx2.late = TRUE
        /\ tx2.slot = [tx.slot EXCEPT ![t] = "taken"] /\ tx2.made = tx.made
    BY <2>1, <2>2 DEF Runs
  <2>4. seedRun' = tx2
    BY <1>1, <1>4
  <2> HIDE DEF tx2
  <2>5. \A u \in Seed!Tables : tx2.slot[u] = IF u = t THEN "taken" ELSE tx.slot[u]
    BY <2>2, <2>3 DEF Seed!Contents
  <2>6. RunGood(tx2)
    <3>1. tx2.slot["machine"] = "none"
      BY <1>1, <2>1, <2>5, TablesAre DEF RunGood
    <3>2. ASSUME NEW i \in 1..tx2.next - 1, At(tx2, i).op = "upsert"
          PROVE  tx2.slot[At(tx2, i).table] # "none"
      <4>1. tx.slot[At(tx, i).table] # "none" /\ At(tx, i) = At(tx2, i)
        BY <2>1, <2>3, <3>2 DEF RunGood, At
      <4> QED BY <2>2, <2>3, <4>1 DEF Seed!Contents
    <3>3. Restored(tx2)
      BY <2>1, <2>3 DEF RunGood, Restored, At
    <3> QED BY <2>1, <2>3, <3>1, <3>2, <3>3 DEF RunGood
  <2> QED BY <1>1, <1>2, <2>4, <2>6 DEF SeedInv
<1> QED BY <1>3, <1>4

LEMMA DropLineStep == ASSUME SeedInv, Seed!DropLine PROVE SeedInv'
<1>1. /\ ~Seed!Running /\ made' = made /\ seedRun' = seedRun
      /\ slot' = [slot EXCEPT !["line"] = "none", !["lineOperatorAssignment"] = "none"]
  BY DEF Seed!DropLine
<1>2. slot' \in Seed!Contents /\ slot'["machine"] = "none"
  BY <1>1, TablesAre DEF SeedInv, Seed!Contents
<1> QED BY <1>1, <1>2 DEF SeedInv, Seed!Running

(* A run starts, goes on, and ends.                                        *)
LEMMA StartStep ==
    ASSUME SeedInv, NEW mode \in Seed!Modes, Seed!Start(mode)
    PROVE  SeedInv'
<1> DEFINE tx == [mode |-> mode, next |-> 1, late |-> FALSE, slot |-> slot, made |-> made]
<1>1. seedRun' = tx /\ slot' = slot /\ made' = made
  BY DEF Seed!Start
<1>2. /\ tx \in Runs /\ tx.mode = mode /\ tx.next = 1 /\ tx.slot = slot /\ tx.made = made
  BY DEF SeedInv, Runs
<1> HIDE DEF tx
<1>3. RunGood(tx)
  <2>1. 1 \in 1..Len(Seed!Program(mode)) + 1 /\ 1..1 - 1 = {}
    BY ProgramLength
  <2> QED BY <1>2, <2>1 DEF SeedInv, RunGood, Restored
<1> QED BY <1>1, <1>3 DEF SeedInv

LEMMA ProceedStep == ASSUME SeedInv, Seed!Proceed PROVE SeedInv'
<1> DEFINE tx == seedRun
           s == At(tx, tx.next)
           Onward == [tx EXCEPT !.next = @ + 1]
<1>1. /\ Seed!Running /\ ~Seed!Ended /\ Seed!Allowed /\ slot' = slot /\ made' = made
      /\ s = Seed!Current
      /\ s.op = "wipe" =>
            seedRun' = [Onward EXCEPT !.slot[s.table] = "none",
                                      !.made = {k \in @ : Seed!TableOf[k] # s.table}]
      /\ s.op = "upsert" =>
            seedRun' = [Onward EXCEPT !.slot[s.table] = IF @ = "taken" THEN "taken"
                                                        ELSE "seeded",
                                      !.made = @ \ Seed!Resets(s.table)]
      /\ s.op \notin {"wipe", "upsert"} => seedRun' = Onward
  <2>1. s = Seed!Current
    BY DEF Seed!Current, At
  <2> HIDE DEF s
  <2> QED BY <2>1 DEF Seed!Proceed
<1>2. RunGood(tx) /\ tx \in Runs
  BY <1>1 DEF SeedInv, RunGood
<1>3. tx.next <= Len(Seed!Program(tx.mode)) /\ tx.next \in 1..Len(Seed!Program(tx.mode))
  BY <1>1, <1>2, ProgramLength DEF Seed!Ended, RunGood, Runs
<1>4. PICK n \in Nat : ScriptIs(tx.mode, n)
  BY <1>2, Script DEF Runs
<1>5. /\ s \in Steps /\ s.op \in {"wipe", "upsert", "retire", "verify"}
      /\ s.table \in Emptied
      /\ s.op = "wipe" => tx.mode = "fresh"
  <2>1. s \in Steps
    BY <1>3, <1>4 DEF ScriptIs, At
  <2>2. s.op = "wipe" => n # 0
    BY <1>3, <1>4 DEF ScriptIs, At
  <2> QED BY <1>4, <2>1, <2>2, Domains DEF Steps, ScriptIs
<1>6. /\ tx.slot \in Seed!Contents /\ tx.made \in SUBSET DOMAIN Seed!TableOf
      /\ tx.next + 1 \in Nat /\ tx.mode \in Seed!Modes /\ tx.late \in BOOLEAN
  BY <1>2 DEF Runs
<1> HIDE DEF s
<1>7. CASE s.op = "wipe"
  <2> DEFINE c == [tx.slot EXCEPT ![s.table] = "none"]
             m == {k \in tx.made : Seed!TableOf[k] # s.table}
  <2>1. c \in Seed!Contents /\ m \in SUBSET DOMAIN Seed!TableOf
    BY <1>6 DEF Seed!Contents
  <2>2. seedRun' = [tx EXCEPT !.next = tx.next + 1, !.slot = c, !.made = m]
    BY <1>1, <1>2, <1>7 DEF Runs
  <2>3. s.table = "productionLine" => "machine" \notin tx.made
    <3>1. SUFFICES ASSUME s.table = "productionLine", "machine" \in tx.made PROVE FALSE
      OBVIOUS
    <3>2. Seed!Wipeable("productionLine")
      BY <1>1, <1>7, <3>1 DEF Seed!Allowed
    <3>3. <<"machine", "productionLine">> \in Seed!Refs
      BY DEF Seed!Refs, Seed!FloorRefs
    <3>4. ~Seed!HasRows(tx.slot, tx.made, "machine")
      BY <3>2, <3>3 DEF Seed!Wipeable
    <3> QED BY <3>1, <3>4 DEF Seed!HasRows, Seed!TableOf
  <2> HIDE DEF c, m
  <2> DEFINE tx2 == [tx EXCEPT !.next = tx.next + 1, !.slot = c, !.made = m]
  <2>4. /\ tx2 \in Runs /\ tx2.mode = tx.mode /\ tx2.late = tx.late
        /\ tx2.next = tx.next + 1 /\ tx2.slot = c /\ tx2.made = m
    BY <1>2, <1>6, <2>1 DEF Runs
  <2> HIDE DEF tx2
  <2>5. RunGood(tx2)
    BY <1>2, <1>3, <1>7, <2>3, <2>4, Advances DEF s, c, m
  <2> QED BY <1>1, <2>2, <2>5 DEF SeedInv, tx2
<1>8. CASE s.op = "upsert"
  <2> DEFINE c == [tx.slot EXCEPT ![s.table] = IF @ = "taken" THEN "taken" ELSE "seeded"]
             m == tx.made \ Seed!Resets(s.table)
             tx2 == [tx EXCEPT !.next = tx.next + 1, !.slot = c, !.made = m]
  <2>1. c \in Seed!Contents /\ m \in SUBSET DOMAIN Seed!TableOf
    BY <1>6 DEF Seed!Contents
  <2>2. seedRun' = tx2
    BY <1>1, <1>2, <1>8 DEF Runs
  <2> HIDE DEF c, m
  <2>3. /\ tx2 \in Runs /\ tx2.mode = tx.mode /\ tx2.late = tx.late
        /\ tx2.next = tx.next + 1 /\ tx2.slot = c /\ tx2.made = m
    BY <1>2, <1>6, <2>1 DEF Runs
  <2> HIDE DEF tx2
  <2>4. RunGood(tx2)
    BY <1>2, <1>3, <1>8, <2>3, Advances DEF s, c, m
  <2> QED BY <1>1, <2>2, <2>4 DEF SeedInv
<1>9. CASE s.op \notin {"wipe", "upsert"}
  <2> DEFINE tx2 == Onward
  <2>1. seedRun' = tx2
    BY <1>1, <1>9
  <2>2. /\ tx2 \in Runs /\ tx2.mode = tx.mode /\ tx2.late = tx.late
        /\ tx2.next = tx.next + 1 /\ tx2.slot = tx.slot /\ tx2.made = tx.made
    BY <1>2, <1>6 DEF Runs
  <2> HIDE DEF tx2
  <2>3. RunGood(tx2)
    BY <1>2, <1>3, <1>9, <2>2, Advances DEF s
  <2> QED BY <1>1, <2>1, <2>3 DEF SeedInv
<1> QED BY <1>7, <1>8, <1>9

LEMMA EndStep ==
    ASSUME SeedInv, Seed!Commit \/ Seed!Refuse \/ Seed!Stop
    PROVE  SeedInv'
<1>1. seedRun' = Seed!NoRun /\ Seed!Running
  BY DEF Seed!Commit, Seed!Refuse, Seed!Stop
<1>2. RunGood(seedRun)
  BY <1>1 DEF SeedInv
<1>3. CASE Seed!Commit
  BY <1>1, <1>2, <1>3 DEF SeedInv, Seed!Commit, RunGood, Runs, Seed!Running
<1>4. CASE Seed!Refuse \/ Seed!Stop
  BY <1>1, <1>4 DEF SeedInv, Seed!Refuse, Seed!Stop, Seed!Running
<1> QED BY <1>3, <1>4

(* Every step keeps the invariant.                                         *)
LEMMA SeedInductive == SeedInv /\ [Seed!Next]_(Seed!vars) => SeedInv'
<1> SUFFICES ASSUME SeedInv, [Seed!Next]_(Seed!vars) PROVE SeedInv'
  OBVIOUS
<1>1. CASE \E kind \in Uses : Seed!Make(kind)
  BY <1>1, MakeStep
<1>2. CASE \E t \in Takes : Seed!Take(t)
  BY <1>2, TakeStep
<1>3. CASE Seed!DropLine
  BY <1>3, DropLineStep
<1>4. CASE \E mode \in Seed!Modes : Seed!Start(mode)
  BY <1>4, StartStep
<1>5. CASE Seed!Proceed
  BY <1>5, ProceedStep
<1>6. CASE Seed!Commit \/ Seed!Refuse \/ Seed!Stop
  BY <1>6, EndStep
<1>7. CASE UNCHANGED Seed!vars
  <2>1. slot' = slot /\ made' = made /\ seedRun' = seedRun
    BY <1>7 DEF Seed!vars
  <2> QED BY <2>1 DEF SeedInv, Seed!Running
<1> QED BY <1>1, <1>2, <1>3, <1>4, <1>5, <1>6, <1>7 DEF Seed!Next

LEMMA SeedInvariant == Seed!Spec => []SeedInv
  BY SeedStarts, SeedInductive, PTL DEF Seed!Spec

(* A run of the seed script of either kind, whatever the API does before   *)
(* it and meanwhile, either changes nothing or leaves the plant of the     *)
(* seed: its tables have their rows again, demo projects that were         *)
(* released are drafts, and roles that accounts were granted before are    *)
(* revoked (Seeding).                                                      *)
THEOREM RunsRestore == Seed!Spec => RunsRestoreSeed
<1>1. ASSUME SeedInv, [Seed!Next]_(Seed!vars)
      PROVE  [Seed!Running /\ seedRun' = Seed!NoRun
                => \/ slot' = slot /\ made' = made
                   \/ /\ \A t \in Seed!Tables \ Seed!Unseeded : slot'[t] # "none"
                      /\ "release" \notin made'
                      /\ "grant" \in made' => seedRun.late]_(Seed!vars)
  <2> DEFINE tx == seedRun
  <2>1. SUFFICES ASSUME Seed!Running, seedRun' = Seed!NoRun, Seed!Next
        PROVE  \/ slot' = slot /\ made' = made
               \/ /\ \A t \in Seed!Tables \ Seed!Unseeded : slot'[t] # "none"
                  /\ "release" \notin made'
                  /\ "grant" \in made' => tx.late
    BY <1>1
  <2>2. RunGood(tx) /\ tx \in Runs /\ tx.mode # "none"
    BY <1>1, <2>1 DEF SeedInv, RunGood, Runs, Seed!Modes
  <2>3. CASE \E kind \in Uses : Seed!Make(kind)
    <3>1. PICK kind \in Uses : Seed!Make(kind)
      BY <2>3
    <3>2. seedRun' = [tx EXCEPT !.made = @ \cup {kind}, !.late = TRUE]
      BY <2>1, <3>1 DEF Seed!Make
    <3>3. seedRun'.mode # "none"
      BY <2>2, <3>2 DEF Runs
    <3> QED BY <2>1, <3>3 DEF Seed!NoRun
  <2>4. CASE \E u \in Takes : Seed!Take(u)
    <3>1. PICK u \in Takes : Seed!Take(u)
      BY <2>4
    <3>2. seedRun' = [tx EXCEPT !.slot[u] = "taken", !.late = TRUE]
      BY <2>1, <3>1 DEF Seed!Take
    <3>3. seedRun'.mode # "none"
      BY <2>2, <3>2 DEF Runs
    <3> QED BY <2>1, <3>3 DEF Seed!NoRun
  <2>5. CASE Seed!DropLine \/ \E mode \in Seed!Modes : Seed!Start(mode)
    BY <2>1, <2>5 DEF Seed!DropLine, Seed!Start
  <2>6. CASE Seed!Proceed \/ Seed!Refuse \/ Seed!Stop
    BY <2>6 DEF Seed!Proceed, Seed!Refuse, Seed!Stop
  <2>7. CASE Seed!Commit
    <3>1. slot' = tx.slot /\ made' = tx.made /\ tx.next > Len(Seed!Program(tx.mode))
      BY <2>7 DEF Seed!Commit, Seed!Ended
    <3>2. PICK n \in Nat : ScriptIs(tx.mode, n)
      BY <2>2, Script DEF Runs
    <3>3. Len(Seed!Program(tx.mode)) = tx.next - 1 /\ tx.next \in Nat
      BY <2>2, <3>1, ProgramLength DEF RunGood, Runs
    <3>4. ASSUME NEW t \in Written
          PROVE  \E i \in 1..tx.next - 1 : At(tx, i).op = "upsert" /\ At(tx, i).table = t
      <4>1. PICK i \in 1..tx.next - 1 : At(tx, i) = Seed!Step("upsert", t)
        BY <3>2, <3>3 DEF ScriptIs, At
      <4> QED BY <4>1 DEF Seed!Step
    <3>5. Seed!Tables \ Seed!Unseeded \subseteq Written
      <4>1. Emptied \cup {"machine"} \subseteq Written \cup Seed!Unseeded
        BY DEF Emptied, Written, Catalogued, Equipped, Planned, Evidenced, Seed!Unseeded
      <4> QED BY <4>1, TablesAre
    <3>6. ASSUME NEW t \in Seed!Tables \ Seed!Unseeded PROVE slot'[t] # "none"
      BY <2>2, <3>1, <3>4, <3>5 DEF RunGood
    <3>7. ASSUME NEW k \in DOMAIN Seed!Changes, k \in made'
          PROVE  k = "grant" /\ tx.late
      <4>1. Seed!TableOf[k] \in Written
        BY <3>7, ChangesAre DEF Written, Catalogued, Planned
      <4>2. PICK i \in 1..tx.next - 1 :
               At(tx, i).op = "upsert" /\ At(tx, i).table = Seed!TableOf[k]
        BY <3>4, <4>1
      <4> QED BY <2>2, <3>1, <3>7, <4>2 DEF RunGood, Restored
    <3>8. "grant" \in DOMAIN Seed!Changes /\ "release" \in DOMAIN Seed!Changes
      BY ChangesAre
    <3> QED BY <3>6, <3>7, <3>8
  <2> QED BY <2>1, <2>3, <2>4, <2>5, <2>6, <2>7 DEF Seed!Next
<1> QED BY <1>1, SeedInvariant, PTL DEF Seed!Spec, RunsRestoreSeed, Seed!RunsRestoreSeed

(* A fresh run that was not disturbed either changes nothing or leaves     *)
(* nothing of the API's: no row of its own, and no code of the seed taken  *)
(* (Seeding).                                                              *)
THEOREM FreshRunsAreFresh == Seed!Spec => FreshIsFresh
<1>1. ASSUME SeedInv, [Seed!Next]_(Seed!vars)
      PROVE  [Seed!Running /\ seedRun.mode = "fresh" /\ ~seedRun.late /\ seedRun' = Seed!NoRun
                => \/ slot' = slot /\ made' = made
                   \/ made' = {} /\ \A t \in Seed!Tables : slot'[t] # "taken"]_(Seed!vars)
  <2> DEFINE tx == seedRun
  <2>1. SUFFICES ASSUME Seed!Running, tx.mode = "fresh", ~tx.late, seedRun' = Seed!NoRun,
                        Seed!Next
        PROVE  \/ slot' = slot /\ made' = made
               \/ made' = {} /\ \A t \in Seed!Tables : slot'[t] # "taken"
    BY <1>1
  <2>2. RunGood(tx) /\ tx \in Runs /\ tx.mode # "none"
    BY <1>1, <2>1 DEF SeedInv, RunGood
  <2>3. CASE \E kind \in Uses : Seed!Make(kind)
    <3>1. PICK kind \in Uses : Seed!Make(kind)
      BY <2>3
    <3>2. seedRun' = [tx EXCEPT !.made = @ \cup {kind}, !.late = TRUE]
      BY <2>1, <3>1 DEF Seed!Make
    <3>3. seedRun'.mode = "fresh"
      BY <2>1, <2>2, <3>2 DEF Runs
    <3> QED BY <2>1, <3>3 DEF Seed!NoRun
  <2>4. CASE \E u \in Takes : Seed!Take(u)
    <3>1. PICK u \in Takes : Seed!Take(u)
      BY <2>4
    <3>2. seedRun' = [tx EXCEPT !.slot[u] = "taken", !.late = TRUE]
      BY <2>1, <3>1 DEF Seed!Take
    <3>3. seedRun'.mode = "fresh"
      BY <2>1, <2>2, <3>2 DEF Runs
    <3> QED BY <2>1, <3>3 DEF Seed!NoRun
  <2>5. CASE Seed!DropLine \/ \E mode \in Seed!Modes : Seed!Start(mode)
    BY <2>1, <2>5 DEF Seed!DropLine, Seed!Start
  <2>6. CASE Seed!Proceed \/ Seed!Refuse \/ Seed!Stop
    BY <2>6 DEF Seed!Proceed, Seed!Refuse, Seed!Stop
  <2>7. CASE Seed!Commit
    <3>1. slot' = tx.slot /\ made' = tx.made /\ tx.next > Len(Seed!Program(tx.mode))
      BY <2>7 DEF Seed!Commit, Seed!Ended
    <3>2. PICK n \in Nat : ScriptIs(tx.mode, n)
      BY <2>2, Script DEF Runs
    <3>3. Len(Seed!Program(tx.mode)) = tx.next - 1 /\ tx.next \in Nat
      BY <2>2, <3>1, ProgramLength DEF RunGood, Runs
    <3>4. ASSUME NEW t \in Emptied PROVE Gone(tx, t)
      <4>1. Seed!Step("wipe", t) \in Wipes(tx.mode)
        BY <2>1 DEF Wipes
      <4>2. PICK i \in 1..tx.next - 1 : At(tx, i) = Seed!Step("wipe", t)
        BY <3>2, <3>3, <4>1 DEF ScriptIs, At
      <4>3. At(tx, i).op = "wipe" /\ At(tx, i).table = t
        BY <4>2 DEF Seed!Step
      <4> QED BY <2>1, <2>2, <4>3 DEF RunGood
    <3>5. tx.slot["machine"] = "none" /\ "machine" \notin tx.made
      <4>1. "productionLine" \in Emptied
        BY DEF Emptied
      <4> QED BY <2>2, <3>4, <4>1 DEF RunGood, Gone
    <3>6. \A t \in Seed!Tables : slot'[t] # "taken"
      BY <3>1, <3>4, <3>5, TablesAre DEF Gone
    <3>7. ASSUME NEW k \in tx.made PROVE FALSE
      <4>1. k \in DOMAIN Seed!TableOf
        BY <2>2 DEF Runs
      <4>2. k # "machine" => Seed!TableOf[k] \in Emptied
        BY <4>1 DEF Seed!TableOf, Emptied
      <4> QED BY <3>4, <3>5, <4>2 DEF Gone
    <3> QED BY <3>1, <3>6, <3>7
  <2> QED BY <2>1, <2>3, <2>4, <2>5, <2>6, <2>7 DEF Seed!Next
<1> QED BY <1>1, SeedInvariant, PTL DEF Seed!Spec, FreshIsFresh, Seed!FreshIsFresh

(* For any rows the API may make and any codes of the seed it may take: the *)
(* order of the script's steps serves every foreign key, so that no step is *)
(* refused but for a cause that lies outside the script (Seeding).         *)
THEOREM RunsNeverStick == Seed!Spec => []NeverStuck
<1>1. ASSUME SeedInv PROVE NeverStuck
  <2> DEFINE tx == seedRun
             s == At(tx, tx.next)
             P == Seed!Program(tx.mode)
  <2>1. SUFFICES ASSUME Seed!Running, ~Seed!Ended, ~Seed!Cause PROVE Seed!Allowed
    BY DEF NeverStuck, Seed!NeverStuck
  <2>2. RunGood(tx) /\ tx \in Runs /\ s = Seed!Current
    BY <1>1, <2>1 DEF SeedInv, RunGood, Seed!Current, At
  <2>3. tx.next \in 1..Len(P) /\ tx.next \in Nat
    BY <2>1, <2>2, ProgramLength DEF Seed!Ended, RunGood, Runs
  <2>4. PICK n \in Nat : ScriptIs(tx.mode, n)
    BY <2>2, Script DEF Runs
  <2>5. /\ s \in Steps /\ s.op \in {"wipe", "upsert", "retire", "verify"}
        /\ s.table \in Emptied
        /\ s.op = "wipe" <=> tx.next <= n
    <3>1. s \in Steps /\ (s.op = "wipe" <=> tx.next <= n)
      BY <2>3, <2>4 DEF ScriptIs, At
    <3> QED BY <3>1, Domains DEF Steps
  <2>6. /\ tx.mode = "fresh" => ~tx.late /\ "machine" \notin tx.made
        /\ tx.mode # "fresh" =>
             /\ \A t \in Seed!Tables : tx.slot[t] # "taken"
             /\ tx.made \cap {"retiredSubject", "untimedPart", "anchorPack"} = {}
    BY <2>1 DEF Seed!Cause
  <2>7. ASSUME NEW x \in Before(tx.mode)[s] PROVE \E i \in 1..tx.next - 1 : At(tx, i) = x
    BY <2>3, <2>4 DEF ScriptIs, At
  <2>8. tx.slot \in Seed!Contents /\ tx.made \subseteq DOMAIN Seed!TableOf
    BY <2>2 DEF Runs
  <2>9. ASSUME s.op # "wipe", tx.mode = "fresh", NEW t \in Emptied PROVE Gone(tx, t)
    <3>1. Wipes(tx.mode) \subseteq Before(tx.mode)[s]
      BY <2>5, <2>9 DEF Before
    <3>2. Seed!Step("wipe", t) \in Wipes(tx.mode)
      BY <2>9 DEF Wipes
    <3>3. PICK i \in 1..tx.next - 1 : At(tx, i) = Seed!Step("wipe", t)
      BY <2>7, <3>1, <3>2
    <3>4. At(tx, i).op = "wipe" /\ At(tx, i).table = t
      BY <3>3 DEF Seed!Step
    <3> QED BY <2>2, <2>6, <2>9, <3>4 DEF RunGood
  <2> HIDE DEF s, P
  <2>10. CASE s.op = "wipe"
    <3>1. tx.mode = "fresh"
      BY <2>3, <2>4, <2>5, <2>10 DEF ScriptIs
    <3>2. SUFFICES ASSUME NEW r \in Seed!Refs, r[2] = s.table
          PROVE  ~Seed!HasRows(tx.slot, tx.made, r[1])
      BY <2>2, <2>10 DEF Seed!Allowed, Seed!Wipeable
    <3>3. CASE r = <<"machine", "productionLine">>
      <4>1. tx.slot["machine"] = "none" /\ r[1] = "machine"
        BY <2>2, <3>3 DEF RunGood
      <4>2. \A k \in tx.made : Seed!TableOf[k] # "machine"
        <5>1. \A k \in DOMAIN Seed!TableOf : Seed!TableOf[k] = "machine" => k = "machine"
          BY DEF Seed!TableOf
        <5> QED BY <2>6, <2>8, <3>1, <5>1
      <4> QED BY <4>1, <4>2 DEF Seed!HasRows
    <3>4. CASE r # <<"machine", "productionLine">>
      <4>1. r[1] \in HoldersOf[s.table]
        BY <3>2, <3>4, HoldersAre
      <4>2. Before(tx.mode)[s] = {Seed!Step("wipe", t) : t \in HoldersOf[s.table]}
        BY <2>5, <2>10 DEF Before
      <4>3. PICK i \in 1..tx.next - 1 : At(tx, i) = Seed!Step("wipe", r[1])
        BY <2>7, <4>1, <4>2
      <4>4. At(tx, i).op = "wipe" /\ At(tx, i).table = r[1]
        BY <4>3 DEF Seed!Step
      <4>5. Gone(tx, r[1])
        BY <2>2, <2>6, <3>1, <4>4 DEF RunGood
      <4>6. tx.slot[r[1]] = "none"
        BY <2>2, <2>3, <2>6, <2>10, <3>1, <4>4 DEF RunGood, s, P
      <4> QED BY <4>5, <4>6 DEF Gone, Seed!HasRows
    <3> QED BY <3>3, <3>4
  <2>11. ASSUME NEW t \in Seed!Tables PROVE s.op # "wipe" => tx.slot[t] # "taken"
    <3>1. tx.slot["machine"] # "taken"
      BY <2>2 DEF RunGood
    <3> QED BY <2>6, <2>9, <3>1, TablesAre DEF Gone
  <2>12. CASE s.op = "upsert"
    <3>1. tx.slot[s.table] # "taken"
      BY <2>5, <2>11, <2>12, TablesAre
    <3>2. ASSUME NEW r \in Seed!Refs \cup Seed!OpenRefs, r[1] = s.table
          PROVE  tx.slot[r[2]] = "seeded"
      <4>1. r[2] \in NeedsOf[s.table] /\ r[2] \in Emptied
        <5>1. r # <<"machine", "productionLine">>
          BY <2>5, <3>2, Domains
        <5> QED BY <2>5, <3>2, <5>1, NeedsAre, Domains
      <4>2. Before(tx.mode)[s]
              = Wipes(tx.mode) \cup {Seed!Step("upsert", t) : t \in NeedsOf[s.table]}
        BY <2>5, <2>12 DEF Before
      <4>3. PICK i \in 1..tx.next - 1 : At(tx, i) = Seed!Step("upsert", r[2])
        BY <2>7, <4>1, <4>2
      <4>4. At(tx, i).op = "upsert" /\ At(tx, i).table = r[2]
        BY <4>3 DEF Seed!Step
      <4>5. tx.slot[r[2]] # "none"
        BY <2>2, <4>4 DEF RunGood
      <4>6. tx.slot[r[2]] # "taken" /\ r[2] \in Seed!Tables
        BY <2>11, <2>12, <4>1, TablesAre
      <4> QED BY <2>8, <4>5, <4>6 DEF Seed!Contents
    <3> QED BY <2>2, <2>12, <3>1, <3>2 DEF Seed!Allowed, Seed!Upsertable
  <2>13. CASE s.op \in {"retire", "verify"}
    <3>1. tx.made \cap {"retiredSubject", "untimedPart", "anchorPack"} = {}
      <4>1. CASE tx.mode = "fresh"
        <5>1. {"subject", "modelPart", "batch"} \subseteq Emptied
          BY DEF Emptied
        <5>2. /\ Seed!TableOf["retiredSubject"] = "subject"
              /\ Seed!TableOf["untimedPart"] = "modelPart"
              /\ Seed!TableOf["anchorPack"] = "batch"
          BY DEF Seed!TableOf
        <5> QED BY <2>9, <2>13, <4>1, <5>1, <5>2 DEF Gone
      <4> QED BY <2>6, <4>1
    <3> QED BY <2>2, <2>13, <3>1 DEF Seed!Allowed, Seed!Retirable, Seed!Verified
  <2> QED BY <2>5, <2>10, <2>12, <2>13
<1> QED BY <1>1, SeedInvariant, PTL
=============================================================================
