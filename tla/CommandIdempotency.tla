------------------------- MODULE CommandIdempotency -------------------------
(***************************************************************************)
(* executeCommand (app/pats/command-support.ts): every PATS command runs   *)
(* under an Idempotency-Key.  A request looks its scope up, claims it by   *)
(* inserting a PENDING row, runs its work and completes the row in one     *)
(* database transaction, and deletes the claim when anything was thrown.   *)
(*                                                                         *)
(* Each step below is one awaited database call of one request; requests   *)
(* interleave between them.  A scope is the unique triple (subjectId,      *)
(* operation, idempotencyKey); a body stands for its request hash.  The    *)
(* business work is one opaque write, recorded in "committed".             *)
(***************************************************************************)
EXTENDS FiniteSets

CONSTANTS
    Workers,    \* requests the server may be handling at one time
    Scopes,     \* (subject, operation, key) triples
    Bodies,     \* request hashes
    ClaimIds,   \* primary keys of idempotency rows
    Faults      \* which failures of the environment can happen

FaultKinds ==
    {"CRASH",         \* the process stops between two awaited calls
     "RELEASE_LOST",  \* the delete of the claim fails; the error is swallowed
     "ACK_LOST"}      \* the transaction commits but its promise rejects

ASSUME FaultsAssumption == Faults \subseteq FaultKinds

VARIABLES
    rows,       \* the IdempotencyRecord table
    job,        \* job[w]: where request w is in executeCommand
    committed,  \* the business writes that were committed, with their claim
    answers     \* the successful responses clients have received

vars == <<rows, job, committed, answers>>

Row == [id: ClaimIds, scope: Scopes, hash: Bodies,
        status: {"PENDING", "COMPLETED"}]
Idle == [pc |-> "idle"]
Job == {Idle}
       \cup [pc: {"missed"}, scope: Scopes, hash: Bodies]
       \cup [pc: {"claimed", "failed"}, scope: Scopes, hash: Bodies,
             claim: ClaimIds]
Execution == [scope: Scopes, hash: Bodies, claim: ClaimIds]

TypeOK ==
    /\ rows \subseteq Row
    /\ job \in [Workers -> Job]
    /\ committed \subseteq Execution
    /\ answers \subseteq Execution

Holding(w) == job[w].pc \in {"claimed", "failed"}
RowsOf(s) == {r \in rows : r.scope = s}

(* A primary key nothing refers to any more is as good as a new one. *)
FreshIds ==
    ClaimIds \ ({r.id : r \in rows} \cup {c.claim : c \in committed}
                \cup {job[w].claim : w \in {v \in Workers : Holding(v)}})
-----------------------------------------------------------------------------
Init ==
    /\ rows = {}
    /\ job = [w \in Workers |-> Idle]
    /\ committed = {}
    /\ answers = {}

(* findUnique finds no row: the request goes on to claim the scope. *)
LookupMiss(w, s, b) ==
    /\ job[w] = Idle
    /\ RowsOf(s) = {}
    /\ job' = [job EXCEPT ![w] = [pc |-> "missed", scope |-> s, hash |-> b]]
    /\ UNCHANGED <<rows, committed, answers>>

(* Mutation: the stored hash is not compared. *)
LookupReplayAnyHash(w, s, b) ==
    /\ job[w] = Idle
    /\ \E r \in RowsOf(s) :
         /\ r.status = "COMPLETED"
         /\ answers' = answers \cup {[scope |-> s, hash |-> b, claim |-> r.id]}
    /\ UNCHANGED <<rows, job, committed>>

(* findUnique finds a completed row of the same hash: its stored response *)
(* is replayed.  A different hash or a pending row is a 409 and changes   *)
(* nothing.                                                               *)
LookupReplay(w, s, b) ==
    /\ job[w] = Idle
    /\ \E r \in RowsOf(s) :
         /\ r.hash = b
         /\ r.status = "COMPLETED"
         /\ answers' = answers \cup {[scope |-> s, hash |-> b, claim |-> r.id]}
    /\ UNCHANGED <<rows, job, committed>>

(* create: the unique constraint lets one request in. *)
Claim(w) ==
    /\ job[w].pc = "missed"
    /\ RowsOf(job[w].scope) = {}
    /\ \E id \in FreshIds :
         /\ rows' = rows \cup {[id |-> id, scope |-> job[w].scope,
                                hash |-> job[w].hash, status |-> "PENDING"]}
         /\ job' = [job EXCEPT ![w] = [pc |-> "claimed", scope |-> job[w].scope,
                                       hash |-> job[w].hash, claim |-> id]]
    /\ UNCHANGED <<committed, answers>>

(* create: the others are answered 409. *)
ClaimRefused(w) ==
    /\ job[w].pc = "missed"
    /\ RowsOf(job[w].scope) # {}
    /\ job' = [job EXCEPT ![w] = Idle]
    /\ UNCHANGED <<rows, committed, answers>>

(* Mutation: the claim is updated by its scope instead of its primary key. *)
CommitWorkByScope(w) ==
    /\ job[w].pc = "claimed"
    /\ \E r \in RowsOf(job[w].scope) :
         rows' = (rows \ {r}) \cup {[r EXCEPT !.status = "COMPLETED"]}
    /\ committed' = committed \cup {[scope |-> job[w].scope,
                                     hash |-> job[w].hash,
                                     claim |-> job[w].claim]}

(* The transaction: the work, then the update of the claim by its primary *)
(* key.  An update of a row that is gone rejects, and rolls the work back.*)
CommitWork(w) ==
    /\ job[w].pc = "claimed"
    /\ \E r \in rows :
         /\ r.id = job[w].claim
         /\ rows' = (rows \ {r}) \cup {[r EXCEPT !.status = "COMPLETED"]}
    /\ committed' = committed \cup {[scope |-> job[w].scope,
                                     hash |-> job[w].hash,
                                     claim |-> job[w].claim]}

Commit(w) ==
    /\ CommitWork(w)
    /\ answers' = answers \cup {[scope |-> job[w].scope, hash |-> job[w].hash,
                                 claim |-> job[w].claim]}
    /\ job' = [job EXCEPT ![w] = Idle]

(* The database committed, but the connection broke before it said so. *)
CommitUnacknowledged(w) ==
    /\ "ACK_LOST" \in Faults
    /\ CommitWork(w)
    /\ job' = [job EXCEPT ![w].pc = "failed"]
    /\ UNCHANGED answers

(* The work throws (a 4xx of the command, a database error) or the claim *)
(* row is gone: everything is rolled back.                               *)
WorkFails(w) ==
    /\ job[w].pc = "claimed"
    /\ job' = [job EXCEPT ![w].pc = "failed"]
    /\ UNCHANGED <<rows, committed, answers>>

(* Mutation: the catch block rethrows without deleting. *)
ReleaseNothing(w) ==
    /\ job[w].pc = "failed"
    /\ job' = [job EXCEPT ![w] = Idle]
    /\ UNCHANGED <<rows, committed, answers>>

(* The catch block deletes the claim by its primary key and rethrows. *)
Release(w) ==
    /\ job[w].pc = "failed"
    /\ rows' = {r \in rows : r.id # job[w].claim}
    /\ job' = [job EXCEPT ![w] = Idle]
    /\ UNCHANGED <<committed, answers>>

(* ... and ignores the failure of that delete. *)
ReleaseLost(w) ==
    /\ "RELEASE_LOST" \in Faults
    /\ job[w].pc = "failed"
    /\ job' = [job EXCEPT ![w] = Idle]
    /\ UNCHANGED <<rows, committed, answers>>

(* A process that stops forgets its request; an open transaction rolls back. *)
Crash(w) ==
    /\ "CRASH" \in Faults
    /\ job[w] # Idle
    /\ job' = [job EXCEPT ![w] = Idle]
    /\ UNCHANGED <<rows, committed, answers>>

(* "until the operator explicitly expires the claim": by hand, in the     *)
(* database, possibly while the slow owner of the claim is still running. *)
OperatorExpires(s) ==
    /\ \E r \in RowsOf(s) : r.status = "PENDING"
    /\ rows' = {r \in rows : ~(r.scope = s /\ r.status = "PENDING")}
    /\ UNCHANGED <<job, committed, answers>>

Step(w) ==
    \/ Claim(w) \/ ClaimRefused(w)
    \/ Commit(w) \/ CommitUnacknowledged(w) \/ WorkFails(w)
    \/ Release(w) \/ ReleaseLost(w)

Next ==
    \/ \E w \in Workers, s \in Scopes, b \in Bodies :
         LookupMiss(w, s, b) \/ LookupReplay(w, s, b)
    \/ \E w \in Workers : Step(w) \/ Crash(w)
    \/ \E s \in Scopes : OperatorExpires(s)

Spec == Init /\ [][Next]_vars

-----------------------------------------------------------------------------
(* "no business row is duplicated by a retry": whatever requests race,    *)
(* crash, lose their release or are expired by hand, the work of a scope  *)
(* commits at most once.                                                  *)
WorkCommitsOnce ==
    \A c, d \in committed : c.scope = d.scope => c = d

(* A committed write keeps its completed row: no release, no expiry and   *)
(* no crash can make the server forget that the work of a scope was done. *)
CommittedStaysRecorded ==
    \A c \in committed :
        [id |-> c.claim, scope |-> c.scope, hash |-> c.hash,
         status |-> "COMPLETED"] \in rows

(* A response is never stored for work that did not commit: a row reads   *)
(* COMPLETED only with its business write, even when the commit's         *)
(* acknowledgement was lost or the claim was expired and taken again.     *)
CompletedIsCommitted ==
    \A r \in rows : r.status = "COMPLETED" =>
        [scope |-> r.scope, hash |-> r.hash, claim |-> r.id] \in committed

(* Every success a client was told of, fresh or replayed, is the outcome  *)
(* of committed work for the very body it sent.                           *)
AnswersAreCommitted == answers \subseteq committed

(* executeCommand keeps the promise of an idempotency key. *)
Promise == INSTANCE AtMostOnce
    WITH done <- {<<c.scope, c.hash>> : c \in committed},
         answered <- {<<a.scope, a.hash>> : a \in answers}
KeepsPromise == Promise!Spec
=============================================================================
