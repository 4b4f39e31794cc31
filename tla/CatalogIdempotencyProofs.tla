---------------------- MODULE CatalogIdempotencyProofs ----------------------
(***************************************************************************)
(* The claim store of the catalog creates for any number of concurrent     *)
(* requests, keys and bodies, whatever crashes and whatever cannot be      *)
(* stored.                                                                 *)
(***************************************************************************)
EXTENDS CatalogIdempotency, TLAPS

-----------------------------------------------------------------------------
(* The strengthening.  Rows are unique by primary key and by scope.  A     *)
(* request that is being handled has a claim of its own, whose row is the  *)
(* pending one of its scope and body; it has committed under that claim    *)
(* exactly when its write has returned.  A row that has a write is a row   *)
(* of that write, and a completed row has one.                             *)
RowsUnique ==
    /\ \A q, r \in rows : q.id = r.id => q = r
    /\ \A q, r \in rows : q.scope = r.scope => q = r

ClaimsExclusive ==
    \A v, w \in Workers :
        Busy(v) /\ Busy(w) /\ job[v].claim = job[w].claim => v = w

Pending(w) == [id |-> job[w].claim, scope |-> job[w].scope,
               hash |-> job[w].hash, status |-> "PENDING"]

BusyIsPending == \A w \in Workers : Busy(w) => Pending(w) \in rows

WritesAreClaimed ==
    \A w \in Workers :
        /\ job[w].pc = "reserved" => \A c \in committed : c.claim # job[w].claim
        /\ job[w].pc = "executed" => RunOf(w) \in committed

RowsNameWrites ==
    /\ \A r \in rows, c \in committed : c.claim = r.id => c.scope = r.scope
    /\ \A r \in rows : r.status = "COMPLETED" =>
         [scope |-> r.scope, hash |-> r.hash, claim |-> r.id] \in committed

IInv ==
    /\ TypeOK
    /\ RowsUnique
    /\ ClaimsExclusive
    /\ BusyIsPending
    /\ WritesAreClaimed
    /\ RowsNameWrites
    /\ AnswersAreCommitted

-----------------------------------------------------------------------------
(* What a request that is being handled consists of. *)
LEMMA BusyShape ==
    ASSUME TypeOK, NEW w \in Workers
    PROVE  /\ job[w].pc \in {"idle", "reserved", "executed", "failed"}
           /\ job[w].pc # "idle" <=> Busy(w)
           /\ Busy(w) =>
                /\ job[w].scope \in Scopes /\ job[w].hash \in Bodies
                /\ job[w].claim \in ClaimIds
                /\ job[w] = [pc |-> job[w].pc, scope |-> job[w].scope,
                             hash |-> job[w].hash, claim |-> job[w].claim]
  BY DEF TypeOK, Job, Idle, Busy

(* A request that goes on to another point of its handling keeps its scope,*)
(* its body and its claim.                                                 *)
LEMMA GoesOn ==
    ASSUME TypeOK, NEW w \in Workers, Busy(w),
           NEW pc \in {"reserved", "executed", "failed"},
           job' = [job EXCEPT ![w].pc = pc]
    PROVE  /\ job' \in [Workers -> Job]
           /\ job'[w] = [pc |-> pc, scope |-> job[w].scope,
                         hash |-> job[w].hash, claim |-> job[w].claim]
           /\ \A v \in Workers \ {w} : job'[v] = job[v]
           /\ \A v \in Workers : Busy(v)' <=> Busy(v)
           /\ \A v \in Workers : Busy(v) =>
                /\ job'[v].scope = job[v].scope
                /\ job'[v].hash = job[v].hash
                /\ job'[v].claim = job[v].claim
  <1>1. job[w] = [pc |-> job[w].pc, scope |-> job[w].scope,
                  hash |-> job[w].hash, claim |-> job[w].claim]
    BY BusyShape
  <1>2. job'[w] = [pc |-> pc, scope |-> job[w].scope,
                   hash |-> job[w].hash, claim |-> job[w].claim]
    BY <1>1 DEF TypeOK
  <1>3. \A v \in Workers \ {w} : job'[v] = job[v]
    BY DEF TypeOK
  <1>4. job'[w] \in Job
    <2>1. job[w].scope \in Scopes /\ job[w].hash \in Bodies /\ job[w].claim \in ClaimIds
      BY BusyShape
    <2>2. QED
      BY <1>2, <2>1 DEF Job
  <1>5. job' \in [Workers -> Job]
    BY <1>3, <1>4 DEF TypeOK
  <1>6. \A v \in Workers : Busy(v)' <=> Busy(v)
    BY <1>2, <1>3 DEF Busy, Idle
  <1>7. QED
    BY <1>2, <1>3, <1>5, <1>6

(* A request that ends leaves the others as they were. *)
LEMMA Ends ==
    ASSUME TypeOK, NEW w \in Workers, job' = [job EXCEPT ![w] = Idle]
    PROVE  /\ job' \in [Workers -> Job]
           /\ ~(Busy(w))'
           /\ job'[w].pc = "idle"
           /\ \A v \in Workers \ {w} : job'[v] = job[v] /\ ((Busy(v))' <=> Busy(v))
  BY DEF TypeOK, Job, Busy, Idle

-----------------------------------------------------------------------------
(* The insert that wins: a new row, a new claim. *)
LEMMA ReserveStep ==
    ASSUME IInv, NEW w \in Workers, NEW s \in Scopes, NEW b \in Bodies,
           Reserve(w, s, b)
    PROVE  IInv'
  <1>1. PICK id \in FreshIds :
           /\ rows' = rows \cup {[id |-> id, scope |-> s, hash |-> b,
                                  status |-> "PENDING"]}
           /\ job' = [job EXCEPT ![w] = [pc |-> "reserved", scope |-> s,
                                         hash |-> b, claim |-> id]]
    BY DEF Reserve
  <1> DEFINE new == [id |-> id, scope |-> s, hash |-> b, status |-> "PENDING"]
             mine == [pc |-> "reserved", scope |-> s, hash |-> b, claim |-> id]
  <1>2. /\ id \in ClaimIds
        /\ \A r \in rows : r.id # id
        /\ \A c \in committed : c.claim # id
        /\ \A v \in Workers : Busy(v) => job[v].claim # id
    BY DEF FreshIds
  <1>3. \A r \in rows : r.scope # s
    BY DEF Reserve, RowsOf
  <1>4. UNCHANGED <<committed, answers>>
    BY DEF Reserve
  <1>5. /\ job'[w] = mine
        /\ \A v \in Workers \ {w} : job'[v] = job[v] /\ ((Busy(v))' <=> Busy(v))
    BY <1>1 DEF IInv, TypeOK, Busy
  <1>6. TypeOK'
    <2>1. new \in Row /\ mine \in Job
      BY <1>2 DEF Row, Job
    <2>2. QED
      BY <1>1, <1>4, <2>1 DEF IInv, TypeOK
  <1>7. RowsUnique'
    BY <1>1, <1>2, <1>3 DEF IInv, RowsUnique
  <1>8. ClaimsExclusive'
    BY <1>2, <1>5 DEF IInv, ClaimsExclusive
  <1>9. BusyIsPending'
    BY <1>1, <1>5 DEF IInv, BusyIsPending, Pending
  <1>10. WritesAreClaimed'
    <2>1. job'[w].pc = "reserved" /\ job'[w].claim = id
      BY <1>5
    <2>2. ASSUME NEW v \in Workers
          PROVE  /\ job'[v].pc = "reserved" =>
                      \A c \in committed' : c.claim # job'[v].claim
                 /\ job'[v].pc = "executed" => (RunOf(v))' \in committed'
      <3>1. CASE v = w
        BY <2>1, <3>1, <1>2, <1>4
      <3>2. CASE v # w
        BY <3>2, <1>4, <1>5 DEF IInv, WritesAreClaimed, RunOf
      <3>3. QED
        BY <3>1, <3>2
    <2>3. QED
      BY <2>2 DEF WritesAreClaimed
  <1>11. RowsNameWrites'
    BY <1>1, <1>2, <1>4 DEF IInv, RowsNameWrites
  <1>12. AnswersAreCommitted'
    BY <1>4 DEF IInv, AnswersAreCommitted
  <1>13. QED
    BY <1>6, <1>7, <1>8, <1>9, <1>10, <1>11, <1>12 DEF IInv

(* The write commits under a claim that has no write. *)
LEMMA ExecuteStep ==
    ASSUME IInv, NEW w \in Workers, Execute(w)
    PROVE  IInv'
  <1>1. /\ job[w].pc = "reserved"
        /\ committed' = committed \cup {RunOf(w)}
        /\ job' = [job EXCEPT ![w].pc = "executed"]
        /\ UNCHANGED <<rows, answers>>
    BY DEF Execute
  <1>2. TypeOK /\ Busy(w)
    BY <1>1, BusyShape DEF IInv
  <1>3. /\ job' \in [Workers -> Job]
        /\ job'[w] = [pc |-> "executed", scope |-> job[w].scope,
                      hash |-> job[w].hash, claim |-> job[w].claim]
        /\ \A v \in Workers \ {w} : job'[v] = job[v]
        /\ \A v \in Workers : Busy(v)' <=> Busy(v)
        /\ \A v \in Workers : Busy(v) =>
             /\ job'[v].scope = job[v].scope
             /\ job'[v].hash = job[v].hash
             /\ job'[v].claim = job[v].claim
    BY <1>1, <1>2, GoesOn
  <1>4. TypeOK'
    <2>1. RunOf(w) \in Execution
      BY <1>2, BusyShape DEF RunOf, Execution
    <2>2. QED
      BY <1>1, <1>3, <2>1 DEF IInv, TypeOK
  <1>5. RowsUnique' /\ ClaimsExclusive' /\ BusyIsPending'
    BY <1>1, <1>3 DEF IInv, RowsUnique, ClaimsExclusive, BusyIsPending, Pending
  <1>6. WritesAreClaimed'
    <2>1. ASSUME NEW v \in Workers
          PROVE  /\ job'[v].pc = "reserved" =>
                      \A c \in committed' : c.claim # job'[v].claim
                 /\ job'[v].pc = "executed" => (RunOf(v))' \in committed'
      <3>1. CASE v = w
        <4>1. (RunOf(w))' = RunOf(w)
          BY <1>3 DEF RunOf
        <4>2. QED
          BY <3>1, <4>1, <1>1, <1>3
      <3>2. CASE v # w
        <4>1. ASSUME job[v].pc = "reserved"
              PROVE  job[v].claim # job[w].claim
          BY <3>2, <4>1, <1>2, BusyShape DEF IInv, ClaimsExclusive
        <4>2. (RunOf(v))' = RunOf(v)
          BY <3>2, <1>3 DEF RunOf
        <4>3. (RunOf(w)).claim = job[w].claim
          BY DEF RunOf
        <4>4. QED
          BY <3>2, <4>1, <4>2, <4>3, <1>1, <1>3 DEF IInv, WritesAreClaimed
      <3>3. QED
        BY <3>1, <3>2
    <2>2. QED
      BY <2>1 DEF WritesAreClaimed
  <1>7. RowsNameWrites'
    <2>1. \A r \in rows : r.id = job[w].claim => r.scope = job[w].scope
      <3>1. Pending(w) \in rows
        BY <1>2 DEF IInv, BusyIsPending
      <3>2. (Pending(w)).id = job[w].claim /\ (Pending(w)).scope = job[w].scope
        BY DEF Pending
      <3>3. QED
        BY <3>1, <3>2 DEF IInv, RowsUnique
    <2>2. (RunOf(w)).claim = job[w].claim /\ (RunOf(w)).scope = job[w].scope
      BY DEF RunOf
    <2>3. QED
      BY <1>1, <2>1, <2>2 DEF IInv, RowsNameWrites
  <1>8. AnswersAreCommitted'
    BY <1>1 DEF IInv, AnswersAreCommitted
  <1>9. QED
    BY <1>4, <1>5, <1>6, <1>7, <1>8 DEF IInv

(* The write throws, or its response cannot be stored. *)
LEMMA FailStep ==
    ASSUME IInv, NEW w \in Workers, ExecuteThrows(w) \/ PersistFails(w)
    PROVE  IInv'
  <1>1. /\ job[w].pc \in {"reserved", "executed"}
        /\ job' = [job EXCEPT ![w].pc = "failed"]
        /\ UNCHANGED <<rows, committed, answers>>
    BY DEF ExecuteThrows, PersistFails
  <1>2. TypeOK /\ Busy(w)
    BY <1>1, BusyShape DEF IInv
  <1>3. /\ job' \in [Workers -> Job]
        /\ job'[w] = [pc |-> "failed", scope |-> job[w].scope,
                      hash |-> job[w].hash, claim |-> job[w].claim]
        /\ \A v \in Workers \ {w} : job'[v] = job[v]
        /\ \A v \in Workers : Busy(v)' <=> Busy(v)
        /\ \A v \in Workers : Busy(v) =>
             /\ job'[v].scope = job[v].scope
             /\ job'[v].hash = job[v].hash
             /\ job'[v].claim = job[v].claim
    BY <1>1, <1>2, GoesOn
  <1>4. TypeOK'
    BY <1>1, <1>3 DEF IInv, TypeOK
  <1>5. RowsUnique' /\ ClaimsExclusive' /\ BusyIsPending'
    BY <1>1, <1>3 DEF IInv, RowsUnique, ClaimsExclusive, BusyIsPending, Pending
  <1>6. WritesAreClaimed'
    <2>1. ASSUME NEW v \in Workers, v # w
          PROVE  job'[v] = job[v] /\ (RunOf(v))' = RunOf(v)
      BY <2>1, <1>3 DEF RunOf
    <2>2. job'[w].pc = "failed"
      BY <1>3
    <2>3. QED
      BY <2>1, <2>2, <1>1 DEF IInv, WritesAreClaimed
  <1>7. RowsNameWrites' /\ AnswersAreCommitted'
    BY <1>1 DEF IInv, RowsNameWrites, AnswersAreCommitted
  <1>8. QED
    BY <1>4, <1>5, <1>6, <1>7 DEF IInv

(* The response is stored under the claim: its row is completed. *)
LEMMA PersistStep ==
    ASSUME IInv, NEW w \in Workers, Persist(w)
    PROVE  IInv'
  <1> DEFINE p == Pending(w)
             q == [id |-> job[w].claim, scope |-> job[w].scope,
                   hash |-> job[w].hash, status |-> "COMPLETED"]
  <1>1. /\ job[w].pc = "executed"
        /\ answers' = answers \cup {RunOf(w)}
        /\ job' = [job EXCEPT ![w] = Idle]
        /\ UNCHANGED committed
    BY DEF Persist
  <1>2. TypeOK /\ Busy(w)
    BY <1>1, BusyShape DEF IInv
  <1>3. p \in rows /\ rows' = (rows \ {p}) \cup {q}
    <2>1. p \in rows
      BY <1>2 DEF IInv, BusyIsPending
    <2>2. PICK r \in rows : /\ r.id = job[w].claim
                            /\ rows' = (rows \ {r}) \cup
                                         {[r EXCEPT !.status = "COMPLETED"]}
      BY DEF Persist
    <2>3. r = p
      BY <2>1, <2>2 DEF IInv, RowsUnique, Pending
    <2>4. [p EXCEPT !.status = "COMPLETED"] = q
      BY DEF Pending
    <2>5. QED
      BY <2>1, <2>2, <2>3, <2>4
  <1>4. /\ job' \in [Workers -> Job]
        /\ ~(Busy(w))'
        /\ job'[w].pc = "idle"
        /\ \A v \in Workers \ {w} : job'[v] = job[v] /\ ((Busy(v))' <=> Busy(v))
    BY <1>1, <1>2, Ends
  <1>5. RunOf(w) \in committed
    BY <1>1 DEF IInv, WritesAreClaimed
  <1>6. TypeOK'
    <2>1. RunOf(w) \in Execution /\ q \in Row
      BY <1>2, BusyShape DEF RunOf, Execution, Row
    <2>2. QED
      BY <1>1, <1>3, <1>4, <2>1 DEF IInv, TypeOK
  <1>7. RowsUnique'
    <2>1. /\ \A x \in rows : x.id = job[w].claim => x = p
          /\ \A x \in rows : x.scope = job[w].scope => x = p
      BY <1>3 DEF IInv, RowsUnique, Pending
    <2>2. QED
      BY <1>3, <2>1 DEF IInv, RowsUnique
  <1>8. ClaimsExclusive'
    BY <1>4 DEF IInv, ClaimsExclusive
  <1>9. BusyIsPending'
    <2> SUFFICES ASSUME NEW v \in Workers, (Busy(v))'
                 PROVE  (Pending(v))' \in rows'
      BY DEF BusyIsPending
    <2>1. v # w /\ Busy(v) /\ job'[v] = job[v]
      BY <1>4
    <2>2. job[v].claim # job[w].claim
      BY <2>1, <1>2 DEF IInv, ClaimsExclusive
    <2>3. Pending(v) \in rows /\ Pending(v) # p
      BY <2>1, <2>2 DEF IInv, BusyIsPending, Pending
    <2>4. (Pending(v))' = Pending(v)
      BY <2>1 DEF Pending
    <2>5. QED
      BY <2>3, <2>4, <1>3
  <1>10. WritesAreClaimed'
    <2>1. ASSUME NEW v \in Workers, v # w
          PROVE  job'[v] = job[v] /\ (RunOf(v))' = RunOf(v)
      BY <2>1, <1>4 DEF RunOf
    <2>2. QED
      BY <2>1, <1>1, <1>4 DEF IInv, WritesAreClaimed
  <1>11. RowsNameWrites'
    <2>1. p.id = q.id /\ p.scope = q.scope
      BY DEF Pending
    <2>2. [scope |-> q.scope, hash |-> q.hash, claim |-> q.id] \in committed
      BY <1>5 DEF RunOf
    <2>3. QED
      BY <1>1, <1>3, <2>1, <2>2 DEF IInv, RowsNameWrites
  <1>12. AnswersAreCommitted'
    BY <1>1, <1>5 DEF IInv, AnswersAreCommitted
  <1>13. QED
    BY <1>6, <1>7, <1>8, <1>9, <1>10, <1>11, <1>12 DEF IInv

(* A request ends, with its row or without it. *)
LEMMA EndStep ==
    ASSUME IInv, NEW w \in Workers, Release(w) \/ Crash(w)
    PROVE  IInv'
  <1>1. /\ job' = [job EXCEPT ![w] = Idle]
        /\ UNCHANGED <<committed, answers>>
        /\ rows' \subseteq rows
        /\ \A r \in rows : r.id # job[w].claim => r \in rows'
    BY DEF Release, Crash
  <1>2. TypeOK /\ Busy(w)
    BY BusyShape DEF IInv, Release, Crash
  <1>3. /\ job' \in [Workers -> Job]
        /\ ~(Busy(w))'
        /\ job'[w].pc = "idle"
        /\ \A v \in Workers \ {w} : job'[v] = job[v] /\ ((Busy(v))' <=> Busy(v))
    BY <1>1, <1>2, Ends
  <1>4. TypeOK'
    BY <1>1, <1>3 DEF IInv, TypeOK
  <1>5. RowsUnique' /\ ClaimsExclusive'
    BY <1>1, <1>3 DEF IInv, RowsUnique, ClaimsExclusive
  <1>6. BusyIsPending'
    <2> SUFFICES ASSUME NEW v \in Workers, (Busy(v))'
                 PROVE  (Pending(v))' \in rows'
      BY DEF BusyIsPending
    <2>1. v # w /\ Busy(v) /\ job'[v] = job[v]
      BY <1>3
    <2>2. job[v].claim # job[w].claim
      BY <2>1, <1>2 DEF IInv, ClaimsExclusive
    <2>3. Pending(v) \in rows /\ Pending(v).id # job[w].claim
      BY <2>1, <2>2 DEF IInv, BusyIsPending, Pending
    <2>4. (Pending(v))' = Pending(v)
      BY <2>1 DEF Pending
    <2>5. QED
      BY <2>3, <2>4, <1>1
  <1>7. WritesAreClaimed'
    <2>1. ASSUME NEW v \in Workers, v # w
          PROVE  job'[v] = job[v] /\ (RunOf(v))' = RunOf(v)
      BY <2>1, <1>3 DEF RunOf
    <2>2. QED
      BY <2>1, <1>1, <1>3 DEF IInv, WritesAreClaimed
  <1>8. RowsNameWrites' /\ AnswersAreCommitted'
    BY <1>1 DEF IInv, RowsNameWrites, AnswersAreCommitted
  <1>9. QED
    BY <1>4, <1>5, <1>6, <1>7, <1>8 DEF IInv

(* A stored answer is given for its own body. *)
LEMMA ReplayStep ==
    ASSUME IInv, NEW w \in Workers, NEW s \in Scopes, NEW b \in Bodies,
           ReserveReplay(w, s, b)
    PROVE  IInv'
  <1>1. PICK r \in rows :
           /\ r.scope = s /\ r.hash = b /\ r.status = "COMPLETED"
           /\ answers' = answers \cup {[scope |-> s, hash |-> b, claim |-> r.id]}
    BY DEF ReserveReplay, RowsOf
  <1>2. UNCHANGED <<rows, job, committed>>
    BY DEF ReserveReplay
  <1>3. answers' \subseteq committed
    BY <1>1 DEF IInv, RowsNameWrites, AnswersAreCommitted
  <1>4. TypeOK'
    BY <1>2, <1>3 DEF IInv, TypeOK
  <1>5. QED
    BY <1>2, <1>3, <1>4
       DEF IInv, RowsUnique, ClaimsExclusive, BusyIsPending, Pending, Busy,
           WritesAreClaimed, RunOf, RowsNameWrites, AnswersAreCommitted

-----------------------------------------------------------------------------
(* No step of a request, and no failure, breaks the invariant. *)
LEMMA IInvPreserved ==
    ASSUME IInv, [Next]_vars
    PROVE  IInv'
  <1>1. ASSUME NEW w \in Workers, NEW s \in Scopes, NEW b \in Bodies,
               Reserve(w, s, b) \/ ReserveReplay(w, s, b)
        PROVE  IInv'
    BY <1>1, ReserveStep, ReplayStep
  <1>2. ASSUME NEW w \in Workers, Step(w) \/ Crash(w)
        PROVE  IInv'
    BY <1>2, ExecuteStep, FailStep, PersistStep, EndStep DEF Step
  <1>3. CASE UNCHANGED vars
    BY <1>3 DEF vars, IInv, TypeOK, RowsUnique, ClaimsExclusive, BusyIsPending,
                Pending, Busy, WritesAreClaimed, RunOf, RowsNameWrites,
                AnswersAreCommitted
  <1>4. QED
    BY <1>1, <1>2, <1>3 DEF Next

(* The inductive invariant of the claim store. *)
THEOREM Inductive == Spec => []IInv
  <1>1. Init => IInv
    BY DEF Init, IInv, TypeOK, Job, Idle, Busy, RowsUnique, ClaimsExclusive,
           BusyIsPending, WritesAreClaimed, RowsNameWrites, AnswersAreCommitted
  <1>2. IInv /\ [Next]_vars => IInv'
    BY IInvPreserved
  <1>3. QED
    BY <1>1, <1>2, PTL DEF Spec

-----------------------------------------------------------------------------
(* Two requests of one scope are never both between claim and answer: each *)
(* would have its own pending row in it.                                   *)
THEOREM Exclusive == Spec => []ScopesAreExclusive
  <1>1. IInv => ScopesAreExclusive
    <2> SUFFICES ASSUME IInv, NEW v \in Workers, NEW w \in Workers,
                        Busy(v), Busy(w), job[v].scope = job[w].scope
                 PROVE  v = w
      BY DEF ScopesAreExclusive
    <2>1. Pending(v) = Pending(w)
      BY DEF IInv, BusyIsPending, RowsUnique, Pending
    <2>2. job[v].claim = job[w].claim
      BY <2>1 DEF Pending
    <2>3. QED
      BY <2>2 DEF IInv, ClaimsExclusive
  <1>2. QED
    BY <1>1, Inductive, PTL

(* No client is told of a write that does not exist, or of one of another  *)
(* body.                                                                   *)
THEOREM Faithful == Spec => []AnswersAreCommitted
  BY Inductive, PTL DEF IInv

(* Whatever crashes and whatever cannot be stored: while the claim of a    *)
(* committed write stands, its scope commits no other write, for the claim *)
(* that commits holds the only row of its scope and has no write yet.      *)
THEOREM StandingIsFinal == Spec => StandingClaimIsFinal
  <1>1. IInv /\ [Next]_vars =>
           [\A c \in committed' \ committed : \A d \in committed :
              d.scope = c.scope => d.claim \notin {r.id : r \in rows}]_vars
    <2> SUFFICES ASSUME IInv, [Next]_vars,
                        NEW c \in committed' \ committed, NEW d \in committed,
                        d.scope = c.scope, NEW r \in rows, r.id = d.claim
                 PROVE  FALSE
      OBVIOUS
    <2>1. PICK w \in Workers : Execute(w)
      BY DEF Next, Step, Reserve, ReserveReplay, ExecuteThrows, Persist,
             PersistFails, Release, Crash, vars
    <2>2. job[w].pc = "reserved" /\ c = RunOf(w)
      BY <2>1 DEF Execute
    <2>3. Pending(w) \in rows /\ c.scope = job[w].scope
      BY <2>2, BusyShape DEF IInv, BusyIsPending, RunOf
    <2>4. r.scope = job[w].scope
      BY <2>3 DEF IInv, RowsNameWrites
    <2>5. r.id = job[w].claim
      BY <2>3, <2>4 DEF IInv, RowsUnique, Pending
    <2>6. QED
      BY <2>2, <2>5 DEF IInv, WritesAreClaimed
  <1>2. QED
    BY <1>1, Inductive, PTL DEF StandingClaimIsFinal, Spec
=============================================================================
