------------------------- MODULE CatalogIdempotency -------------------------
(***************************************************************************)
(* executeIdempotently (app/canonical/idempotency.ts) over the PostgreSQL  *)
(* claim store (app/canonical/prisma-idempotency-store.ts): the catalog    *)
(* and asset creates.  Unlike executeCommand, the business write commits   *)
(* by itself and its response is stored by a later, separate update.       *)
(***************************************************************************)
EXTENDS FiniteSets

CONSTANTS
    Workers,    \* requests the server may be handling at one time
    Scopes,     \* (actorId, operation, idempotencyKey) triples
    Bodies,     \* request hashes
    ClaimIds,   \* primary keys of claim rows
    Faults      \* which failures of the environment can happen

FaultKinds ==
    {"CRASH",           \* the process stops between two awaited calls
     "PERSIST_FAILS"}   \* the update that stores the response rejects

VARIABLES
    rows,       \* the CatalogIdempotencyRecord table; status null is PENDING
    job,        \* job[w]: where request w is in executeIdempotently
    committed,  \* the business writes that were committed, with their claim
    answers     \* the successful responses clients have received

vars == <<rows, job, committed, answers>>

Row == [id: ClaimIds, scope: Scopes, hash: Bodies,
        status: {"PENDING", "COMPLETED"}]
Idle == [pc |-> "idle"]
Job == {Idle} \cup [pc: {"reserved", "executed", "failed"}, scope: Scopes,
                    hash: Bodies, claim: ClaimIds]
Execution == [scope: Scopes, hash: Bodies, claim: ClaimIds]

TypeOK ==
    /\ rows \subseteq Row
    /\ job \in [Workers -> Job]
    /\ committed \subseteq Execution
    /\ answers \subseteq Execution

Busy(w) == job[w] # Idle
RowsOf(s) == {r \in rows : r.scope = s}
RunOf(w) == [scope |-> job[w].scope, hash |-> job[w].hash,
             claim |-> job[w].claim]

FreshIds ==
    ClaimIds \ ({r.id : r \in rows} \cup {c.claim : c \in committed}
                \cup {job[w].claim : w \in {v \in Workers : Busy(v)}})
-----------------------------------------------------------------------------
Init ==
    /\ rows = {}
    /\ job = [w \in Workers |-> Idle]
    /\ committed = {}
    /\ answers = {}

(* Mutation: a pending row of the scope does not stop another claim. *)
ReserveOverPending(w, s, b) ==
    /\ job[w] = Idle
    /\ \A r \in RowsOf(s) : r.status = "PENDING"
    /\ \E id \in FreshIds :
         /\ rows' = rows \cup {[id |-> id, scope |-> s, hash |-> b,
                                status |-> "PENDING"]}
         /\ job' = [job EXCEPT ![w] = [pc |-> "reserved", scope |-> s,
                                       hash |-> b, claim |-> id]]
    /\ UNCHANGED <<committed, answers>>

(* reserve: the insert wins the unique constraint. *)
Reserve(w, s, b) ==
    /\ job[w] = Idle
    /\ RowsOf(s) = {}
    /\ \E id \in FreshIds :
         /\ rows' = rows \cup {[id |-> id, scope |-> s, hash |-> b,
                                status |-> "PENDING"]}
         /\ job' = [job EXCEPT ![w] = [pc |-> "reserved", scope |-> s,
                                       hash |-> b, claim |-> id]]
    /\ UNCHANGED <<committed, answers>>

(* reserve: the insert loses and the row that won is complete and of the   *)
(* same hash.  A pending row, another hash, or a row that vanished before  *)
(* it could be read is a 409 and changes nothing.                          *)
ReserveReplay(w, s, b) ==
    /\ job[w] = Idle
    /\ \E r \in RowsOf(s) :
         /\ r.hash = b
         /\ r.status = "COMPLETED"
         /\ answers' = answers \cup {[scope |-> s, hash |-> b, claim |-> r.id]}
    /\ UNCHANGED <<rows, job, committed>>

(* execute() returns: its write is committed. *)
Execute(w) ==
    /\ job[w].pc = "reserved"
    /\ committed' = committed \cup {RunOf(w)}
    /\ job' = [job EXCEPT ![w].pc = "executed"]
    /\ UNCHANGED <<rows, answers>>

(* execute() throws: nothing was written. *)
ExecuteThrows(w) ==
    /\ job[w].pc = "reserved"
    /\ job' = [job EXCEPT ![w].pc = "failed"]
    /\ UNCHANGED <<rows, committed, answers>>

(* persist: the response is stored under the claim and sent. *)
Persist(w) ==
    /\ job[w].pc = "executed"
    /\ \E r \in rows :
         /\ r.id = job[w].claim
         /\ rows' = (rows \ {r}) \cup {[r EXCEPT !.status = "COMPLETED"]}
    /\ answers' = answers \cup {RunOf(w)}
    /\ job' = [job EXCEPT ![w] = Idle]
    /\ UNCHANGED committed

(* persist rejects: the catch block treats it like a failed write. *)
PersistFails(w) ==
    /\ "PERSIST_FAILS" \in Faults
    /\ job[w].pc = "executed"
    /\ job' = [job EXCEPT ![w].pc = "failed"]
    /\ UNCHANGED <<rows, committed, answers>>

(* The catch block releases the claim by its primary key and rethrows. *)
Release(w) ==
    /\ job[w].pc = "failed"
    /\ rows' = {r \in rows : r.id # job[w].claim}
    /\ job' = [job EXCEPT ![w] = Idle]
    /\ UNCHANGED <<committed, answers>>

Crash(w) ==
    /\ "CRASH" \in Faults
    /\ Busy(w)
    /\ job' = [job EXCEPT ![w] = Idle]
    /\ UNCHANGED <<rows, committed, answers>>

Step(w) ==
    Execute(w) \/ ExecuteThrows(w) \/ Persist(w) \/ PersistFails(w) \/ Release(w)

Next ==
    \/ \E w \in Workers, s \in Scopes, b \in Bodies :
         Reserve(w, s, b) \/ ReserveReplay(w, s, b)
    \/ \E w \in Workers : Step(w) \/ Crash(w)

Spec == Init /\ [][Next]_vars
-----------------------------------------------------------------------------
(* "incomplete claims make concurrent reuse a conflict": two requests of   *)
(* one scope are never both between their claim and their answer, even     *)
(* while one of them is rolling back and a retry is already running.       *)
ScopesAreExclusive ==
    \A v, w \in Workers :
        Busy(v) /\ Busy(w) /\ job[v].scope = job[w].scope => v = w

(* A client is only told of a write that exists, for the body it sent,     *)
(* although the row it was told from may have been released and taken anew.*)
AnswersAreCommitted == answers \subseteq committed

(* While the claim of a committed write stands, stored or not, crashed or  *)
(* not, its scope commits no other write: only a release lets a retry run. *)
StandingClaimIsFinal ==
    [][\A c \in committed' \ committed : \A d \in committed :
         d.scope = c.scope => d.claim \notin {r.id : r \in rows}]_vars
=============================================================================
