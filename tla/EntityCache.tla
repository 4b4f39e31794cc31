----------------------------- MODULE EntityCache -----------------------------
(***************************************************************************)
(* The read cache of the legacy services: employees, products and          *)
(* workspaces in MongoDB, answers about them in Redis (middleware/cache.ts,*)
(* helper/cache-helper.ts, config/redis.ts and the three controllers).     *)
(*                                                                         *)
(* A read looks for a cached answer, perhaps for a cached row, reads the   *)
(* row and caches both; a write changes the row and then sweeps the keys   *)
(* that match its patterns.  Requests interleave between these calls, and  *)
(* the connection to Redis comes and goes: a get then misses, a set and a  *)
(* sweep do nothing.                                                       *)
(*                                                                         *)
(* One row of each kind, with a version for its content; one variant of    *)
(* every key.  What is cached is a row in so many envelopes: none for a    *)
(* row, one for an answer.                                                 *)
(***************************************************************************)
EXTENDS Integers

CONSTANTS
    Kinds,          \* of "employee", "product", "workspace"
    Jobs,           \* requests in flight at once
    MaxRequests     \* requests in an instance

VARIABLES
    row,          \* row[k]: the version of the row, or Gone
    rows,         \* rows[k]: the version of the list of rows
    cache,        \* cache[key]: what Redis holds
    connected,    \* whether the client has a connection
    job,          \* job[j]: a request between two of its calls
    requests,     \* how many there have been
    disturbed     \* whether requests overlapped, stopped halfway or saw Redis
                  \* come or go

vars == <<row, rows, cache, connected, job, requests, disturbed>>

(* The keys: of the answer to a list, of the answer to a read of one, and  *)
(* of the row the controller keeps itself.  A workspace's answer and its   *)
(* row have the same key.                                                  *)
ListKey(kind) == <<kind, "list">>
AnswerKey(kind) == <<kind, "byId">>
(* Mutation: the employee's row is kept under the key of its answer.       *)
RowKeySame(kind) == AnswerKey(kind)
RowKey(kind) == IF kind = "workspace" THEN AnswerKey(kind) ELSE <<kind, "byId:full">>
KeepsRow(kind) == kind \in {"employee", "workspace"}
Keys ==
    {ListKey(k) : k \in Kinds} \cup {AnswerKey(k) : k \in Kinds}
    \cup {<<k, "byId:full">> : k \in Kinds}

(* The keys the patterns of a sweep match.  They ask for something after   *)
(* the id, which the key of an employee's answer does not have.            *)
Swept(kind) ==
    {ListKey(kind), <<kind, "byId:full">>}
    \cup IF kind = "employee" THEN {} ELSE {AnswerKey(kind)}

Gone == 0
NoEntry == [wraps |-> -1, of |-> 0, expires |-> FALSE]
Entry == [wraps: Nat, of: Nat, expires: BOOLEAN]
Idle == [op |-> "none"]
Reading == [op: {"get", "list"}, kind: Kinds, at: {"row", "fetch", "fill", "answer"},
            caching: BOOLEAN, wraps: Nat, of: Nat]
Writing == [op: {"create", "update", "remove"}, kind: Kinds,
            at: {"write", "sweepList", "sweepRow"}]

TypeOK ==
    /\ row \in [Kinds -> Nat] /\ rows \in [Kinds -> Nat]
    /\ cache \in [Keys -> {NoEntry} \cup Entry]
    /\ connected \in BOOLEAN
    /\ job \in [Jobs -> {Idle} \cup Reading \cup Writing]
    /\ requests \in 0..MaxRequests
    /\ disturbed \in BOOLEAN

Init ==
    /\ row = [k \in Kinds |-> 1] /\ rows = [k \in Kinds |-> 1]
    /\ cache = [key \in Keys |-> NoEntry]
    /\ connected \in BOOLEAN
    /\ job = [j \in Jobs |-> Idle]
    /\ requests = 0
    /\ disturbed = FALSE
-----------------------------------------------------------------------------
(* Calls to Redis.                                                         *)
Hit(key) == connected /\ cache[key] # NoEntry
(* Mutation: a value is kept for good.                                     *)
PutForGood(key, wraps, of) ==
    IF connected
    THEN [cache EXCEPT ![key] = [wraps |-> wraps, of |-> of, expires |-> FALSE]]
    ELSE cache
Put(key, wraps, of) ==
    IF connected
    THEN [cache EXCEPT ![key] = [wraps |-> wraps, of |-> of, expires |-> TRUE]]
    ELSE cache
Delete(keys) ==
    IF connected
    THEN [key \in Keys |-> IF key \in keys THEN NoEntry ELSE cache[key]]
    ELSE cache

Arrive(j, request) ==
    /\ requests < MaxRequests
    /\ job[j] = Idle
    /\ requests' = requests + 1
    /\ job' = [job EXCEPT ![j] = request]
    /\ disturbed' = (disturbed \/ \E i \in Jobs : job[i] # Idle)
At(j, op, place) == job[j] # Idle /\ job[j].op = op /\ job[j].at = place
Finish(j) == job' = [job EXCEPT ![j] = Idle]
-----------------------------------------------------------------------------
(* GET /:id.  The middleware answers from the cache, or lets the request   *)
(* pass and, if there is a connection, will cache the answer.              *)
Get(j, kind) ==
    /\ ~Hit(AnswerKey(kind))
    /\ Arrive(j, [op |-> "get", kind |-> kind,
                  at |-> IF KeepsRow(kind) THEN "row" ELSE "fetch",
                  caching |-> connected, wraps |-> 0, of |-> Gone])
    /\ UNCHANGED <<row, rows, cache, connected>>
(* GET /                                                                   *)
List(j, kind) ==
    /\ ~Hit(ListKey(kind))
    /\ Arrive(j, [op |-> "list", kind |-> kind, at |-> "fetch",
                  caching |-> connected, wraps |-> 0, of |-> Gone])
    /\ UNCHANGED <<row, rows, cache, connected>>
(* The controller looks for the row it keeps.                              *)
LookForRow(j) ==
    LET kept == cache[RowKey(job[j].kind)] IN
    /\ At(j, "get", "row")
    /\ job' = IF Hit(RowKey(job[j].kind))
              THEN [job EXCEPT ![j].at = "answer", ![j].wraps = kept.wraps,
                               ![j].of = kept.of]
              ELSE [job EXCEPT ![j].at = "fetch"]
    /\ UNCHANGED <<row, rows, cache, connected, requests, disturbed>>
(* The database is read; a row that is not there is not kept.              *)
Fetch(j) ==
    LET kind == job[j].kind IN
    /\ At(j, "get", "fetch")
    /\ job' = [job EXCEPT ![j].of = row[kind],
                          ![j].at = IF KeepsRow(kind) /\ row[kind] # Gone
                                    THEN "fill" ELSE "answer"]
    /\ UNCHANGED <<row, rows, cache, connected, requests, disturbed>>
FetchList(j) ==
    /\ At(j, "list", "fetch")
    /\ job' = [job EXCEPT ![j].of = rows[job[j].kind], ![j].at = "answer"]
    /\ UNCHANGED <<row, rows, cache, connected, requests, disturbed>>
Fill(j) ==
    /\ At(j, "get", "fill")
    /\ cache' = Put(RowKey(job[j].kind), job[j].wraps, job[j].of)
    /\ job' = [job EXCEPT ![j].at = "answer"]
    /\ UNCHANGED <<row, rows, connected, requests, disturbed>>
(* The answer, with one more envelope, is cached if it is a success.       *)
Answer(j) ==
    LET key == IF job[j].op = "list" THEN ListKey(job[j].kind) ELSE AnswerKey(job[j].kind)
    IN
    /\ \E op \in {"get", "list"} : At(j, op, "answer")
    /\ cache' = IF job[j].caching /\ job[j].of # Gone
                THEN Put(key, job[j].wraps + 1, job[j].of) ELSE cache
    /\ Finish(j)
    /\ UNCHANGED <<row, rows, connected, requests, disturbed>>
-----------------------------------------------------------------------------
(* Writes: the database first, then the sweep of the lists and, unless the *)
(* row is new, of the row.  A request that is refused changes nothing and  *)
(* is left out.                                                            *)
Change(j, op, kind) ==
    /\ Arrive(j, [op |-> op, kind |-> kind, at |-> "write"])
    /\ UNCHANGED <<row, rows, cache, connected>>
(* POST /                                                                  *)
Create(j, kind) == Change(j, "create", kind)
(* PATCH /:id, or PUT /:id of an employee                                   *)
Update(j, kind) == row[kind] # Gone /\ Change(j, "update", kind)
(* DELETE /:id                                                             *)
Remove(j, kind) == row[kind] # Gone /\ Change(j, "remove", kind)

Written(j) ==
    /\ rows' = [rows EXCEPT ![job[j].kind] = @ + 1]
    /\ job' = [job EXCEPT ![j].at = "sweepList"]
    /\ UNCHANGED <<cache, connected, requests, disturbed>>
InsertRow(j) ==
    /\ At(j, "create", "write")
    /\ Written(j)
    /\ UNCHANGED row
UpdateRow(j) ==
    /\ At(j, "update", "write")
    /\ row[job[j].kind] # Gone
    /\ row' = [row EXCEPT ![job[j].kind] = @ + 1]
    /\ Written(j)
MarkRow(j) ==
    /\ At(j, "remove", "write")
    /\ row[job[j].kind] # Gone
    /\ row' = [row EXCEPT ![job[j].kind] = Gone]
    /\ Written(j)
SweepList(j) ==
    /\ \E o \in {"create", "update", "remove"} : At(j, o, "sweepList")
    /\ cache' = Delete({ListKey(job[j].kind)})
    /\ IF job[j].op = "create" THEN Finish(j) ELSE job' = [job EXCEPT ![j].at = "sweepRow"]
    /\ disturbed' = (disturbed \/ ~connected)
    /\ UNCHANGED <<row, rows, connected, requests>>
(* Mutation: the sweep is told of no id.                                   *)
SweepRowLists(j) ==
    /\ \E o \in {"update", "remove"} : At(j, o, "sweepRow")
    /\ cache' = Delete({ListKey(job[j].kind)})
    /\ Finish(j)
    /\ disturbed' = (disturbed \/ ~connected)
    /\ UNCHANGED <<row, rows, connected, requests>>
SweepRow(j) ==
    /\ \E o \in {"update", "remove"} : At(j, o, "sweepRow")
    /\ cache' = Delete(Swept(job[j].kind))
    /\ Finish(j)
    /\ disturbed' = (disturbed \/ ~connected)
    /\ UNCHANGED <<row, rows, connected, requests>>
(* The row is gone when the write looks for it, a call fails, or the       *)
(* process stops.                                                          *)
Abort(j) ==
    /\ job[j] # Idle
    /\ Finish(j)
    /\ disturbed' = TRUE
    /\ UNCHANGED <<row, rows, cache, connected, requests>>
-----------------------------------------------------------------------------
Connect ==
    /\ ~connected
    /\ connected' = TRUE
    /\ disturbed' = (disturbed \/ \E j \in Jobs : job[j] # Idle)
    /\ UNCHANGED <<row, rows, cache, job, requests>>
Disconnect ==
    /\ connected
    /\ connected' = FALSE
    /\ disturbed' = (disturbed \/ \E j \in Jobs : job[j] # Idle)
    /\ UNCHANGED <<row, rows, cache, job, requests>>
(* Redis drops what has a time to live when it is over.                    *)
Expire(key) ==
    /\ cache[key] # NoEntry /\ cache[key].expires
    /\ cache' = [cache EXCEPT ![key] = NoEntry]
    /\ UNCHANGED <<row, rows, connected, job, requests, disturbed>>

Reads(j) == LookForRow(j) \/ Fetch(j) \/ FetchList(j) \/ Fill(j) \/ Answer(j)
Writes(j) == InsertRow(j) \/ UpdateRow(j) \/ MarkRow(j) \/ SweepList(j) \/ SweepRow(j)
(* The routes.  The removal of a workspace, which the database refuses     *)
(* while a member's row is there, is left out.                             *)
Routes(j, kind) == Get(j, kind) \/ List(j, kind) \/ Create(j, kind) \/ Update(j, kind)
EmployeeRoutes(j) ==
    "employee" \in Kinds /\ (Routes(j, "employee") \/ Remove(j, "employee"))
ProductRoutes(j) ==
    "product" \in Kinds /\ (Routes(j, "product") \/ Remove(j, "product"))
WorkspaceRoutes(j) == "workspace" \in Kinds /\ Routes(j, "workspace")
Requests(j) == EmployeeRoutes(j) \/ ProductRoutes(j) \/ WorkspaceRoutes(j)
Redis == Connect \/ Disconnect \/ \E key \in Keys : Expire(key)
Work(j) == Reads(j) \/ Writes(j) \/ Abort(j)
Next == Redis \/ \E j \in Jobs : Requests(j) \/ Reads(j) \/ Writes(j) \/ Abort(j)

Spec == Init /\ [][Next]_vars
-----------------------------------------------------------------------------
VersionOf(key) == IF key[2] = "list" THEN rows[key[1]] ELSE row[key[1]]
Current(key) == cache[key] = NoEntry \/ cache[key].of = VersionOf(key)
Writers == {job[j].kind : j \in {i \in Jobs : job[i] # Idle /\ job[i].op \in
                                              {"create", "update", "remove"}}}

(* Once a write has been answered, no key its sweep covers holds what was  *)
(* there before, unless requests overlapped or Redis was away.             *)
SweptIsCurrent ==
    ~disturbed =>
        \A kind \in Kinds \ Writers : \A key \in Swept(kind) : Current(key)

(* Under a key of answers there are answers, under a key of rows rows,     *)
(* however requests overlap; of workspaces, which have one key for both,   *)
(* only if they do not.                                                    *)
WrappedOnce ==
    \A key \in Keys : cache[key] # NoEntry =>
        \/ key[2] = "byId:full" /\ cache[key].wraps = 0
        \/ key[2] # "byId:full" /\ cache[key].wraps = 1
        \/ key[1] = "workspace" /\ (disturbed \/ job # [j \in Jobs |-> Idle])

(* What an overtaken read left behind does not stay: when the requests are *)
(* over, the cache is or becomes current for good.                         *)
StaleEntriesGo == <>[](\A key \in Keys : Current(key))
=============================================================================
