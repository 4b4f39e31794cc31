----------------------------- MODULE RowVersions -----------------------------
(***************************************************************************)
(* Edits under a row version: the catalog (app/pats/catalog-foundation.ts),*)
(* machines, daily sheets and station boards (app/pats/command-router.ts). *)
(* A client reads a row with its version (an ETag), sends it back with an  *)
(* edit (If-Match), and is refused when the row has another version by     *)
(* then.  The handlers compare in one call and write by id in a later one. *)
(*                                                                         *)
(* A row's content is the number of the write that made it.  Codes, names  *)
(* and routes are that content; which stages a route may name, and the     *)
(* idempotency of creates (CatalogIdempotency), are left out.              *)
(***************************************************************************)
EXTENDS Naturals

CONSTANTS
    Clients,      \* each sends one request at a time
    Rows,         \* ids of rows
    Databases,    \* which table each row is in: functions from Rows to Tables
    MaxWrites     \* how often a row is written in an instance

Catalog == {"product", "model", "modelPart"}
Sheets == {"dailySheet", "stationBoard"}
Tables == Catalog \cup Sheets \cup {"machine"}

VARIABLES
    table,        \* the database of this behaviour
    draft,        \* the catalog rows that are drafts; the others are published
    row,          \* row[r]: NoRow, or version and content
    writes,       \* writes[r]: how many contents the row has had
    cited,        \* the model parts that parts of projects refer to
    seen,         \* seen[c]: the last ETag c was given, and of what content
    job,          \* job[c]: the request of client c
    tags,         \* tags[r]: the versions and contents the row has had (history)
    lapped        \* two requests have overlapped (history)

vars == <<table, draft, row, writes, cited, seen, job, tags, lapped>>

NoRow == [row |-> "none"]
Version == [version: Nat, content: Nat]
NoTag == [tag |-> "none"]
(* A version of a row that an answer told, and whether the answer also had *)
(* the content of that version.                                            *)
ETag == [row: Rows, version: Nat, content: Nat, read: BOOLEAN]
Tag(r, v) == [row |-> r, version |-> v.version, content |-> v.content, read |-> TRUE]
Unread(r, v) == [row |-> r, version |-> v.version, content |-> v.content, read |-> FALSE]

Idle == [pc |-> "idle"]
Job ==
    {Idle}
    \cup [pc: {"edit"}, row: Rows, read: Version]
    \cup [pc: {"new", "drop", "cite"}, row: Rows]

TypeOK ==
    /\ table \in Databases
    /\ draft \in SUBSET Rows
    /\ row \in [Rows -> {NoRow} \cup Version]
    /\ writes \in [Rows -> 0..MaxWrites]
    /\ cited \in SUBSET Rows
    /\ seen \in [Clients -> {NoTag} \cup ETag]
    /\ job \in [Clients -> Job]
    /\ tags \in [Rows -> SUBSET Version]
    /\ lapped \in BOOLEAN

Present == {r \in Rows : row[r] # NoRow}
In(tables) == {r \in Rows : table[r] \in tables}
(* The model of a model part: an instance has at most one model.           *)
Owners(r) == IF r \in In({"modelPart"}) THEN In({"model"}) ELSE {}

Overlap == lapped' = (lapped \/ \E d \in Clients : job[d] # Idle)
Begin(c, request) ==
    /\ job[c] = Idle
    /\ job' = [job EXCEPT ![c] = request]
    /\ Overlap
Finish(c) == job' = [job EXCEPT ![c] = Idle] /\ UNCHANGED lapped

(* Client c writes row r, which then has this version, and is shown it.    *)
Write(c, r, version) ==
    LET v == [version |-> version, content |-> writes[r] + 1] IN
    /\ writes[r] < MaxWrites
    /\ writes' = [writes EXCEPT ![r] = @ + 1]
    /\ row' = [row EXCEPT ![r] = v]
    /\ tags' = [tags EXCEPT ![r] = @ \cup {v}]
    /\ seen' = [seen EXCEPT ![c] = Tag(r, v)]

Init ==
    /\ table \in Databases
    /\ draft \in SUBSET In(Catalog)
    /\ \A r \in In(Catalog) \ draft : Owners(r) \cap draft = {}
    /\ row = [r \in Rows |-> IF r \in In(Catalog) \ draft
                             THEN [version |-> 1, content |-> 0] ELSE NoRow]
    /\ writes = [r \in Rows |-> 0]
    /\ cited = {}
    /\ seen = [c \in Clients |-> NoTag]
    /\ job = [c \in Clients |-> Idle]
    /\ tags = [r \in Rows |-> IF row[r] = NoRow THEN {} ELSE {row[r]}]
    /\ lapped = FALSE
-----------------------------------------------------------------------------
(* GET of a row, which tells its version. *)
Show(c, r) ==
    /\ job[c] = Idle
    /\ r \in Present
    /\ seen' = [seen EXCEPT ![c] = Tag(r, row[r])]
    /\ UNCHANGED <<table, draft, row, writes, cited, job, tags, lapped>>

(* POST of a product, model, model part or machine; ids are never reused.  *)
Create(c, r) ==
    /\ job[c] = Idle
    /\ r \in In(Catalog \cup {"machine"}) \ Present
    /\ Owners(r) \subseteq Present
    /\ writes[r] = 0
    /\ Write(c, r, 1)
    /\ Overlap
    /\ UNCHANGED <<table, draft, cited, job>>

(* Mutation: any client that has a tag of the row may write it.            *)
MatchesAny(c, r) == seen[c] # NoTag /\ seen[c].row = r
(* The row's version is the one the client has a tag of (If-Match).        *)
Matches(c, r) == seen[c] # NoTag /\ seen[c].row = r /\ seen[c].version = row[r].version

EditLoad(c, r) ==
    /\ r \in Present
    /\ Matches(c, r)
    /\ Begin(c, [pc |-> "edit", row |-> r, read |-> row[r]])
    /\ UNCHANGED <<table, draft, row, writes, cited, seen, tags>>
PatchProduct(c, r) == r \in In({"product"}) \cap draft /\ EditLoad(c, r)
PatchModel(c, r) == r \in In({"model"}) \cap draft /\ EditLoad(c, r)
PatchModelPart(c, r) == r \in In({"modelPart"}) \cap draft /\ EditLoad(c, r)
PatchMachine(c, r) == r \in In({"machine"}) /\ EditLoad(c, r)
(* PUT of a daily sheet or station board, under an id the client chose.    *)
PutExisting(c, r) == r \in In(Sheets) /\ EditLoad(c, r)
PutNew(c, r) ==
    /\ r \in In(Sheets) \ Present
    /\ Begin(c, [pc |-> "new", row |-> r])
    /\ UNCHANGED <<table, draft, row, writes, cited, seen, tags>>

(* Mutation: the version that was read plus one, as the sheets have it.    *)
NextVersionRead(r, read) == read.version + 1
(* The version after a write: the database increments, but for sheets the  *)
(* handler adds one to what it has read.                                   *)
NextVersion(r, read) ==
    IF r \in In(Sheets) THEN read.version + 1 ELSE row[r].version + 1
EditCommit(c) ==
    LET r == job[c].row IN
    /\ job[c].pc = "edit"
    /\ r \in Present
    /\ Write(c, r, NextVersion(r, job[c].read))
    /\ Finish(c)
    /\ UNCHANGED <<table, draft, cited>>
NewCommit(c) ==
    /\ job[c].pc = "new"
    /\ row[job[c].row] = NoRow
    /\ Write(c, job[c].row, 1)
    /\ Finish(c)
    /\ UNCHANGED <<table, draft, cited>>

(* DELETE of a machine *)
DropMachine(c, r) ==
    /\ r \in In({"machine"}) \cap Present
    /\ Matches(c, r)
    /\ Begin(c, [pc |-> "drop", row |-> r])
    /\ UNCHANGED <<table, draft, row, writes, cited, seen, tags>>
(* DELETE of a model part *)
DropPart(c, r) ==
    /\ r \in (In({"modelPart"}) \cap draft \cap Present) \ cited
    /\ Matches(c, r)
    /\ Begin(c, [pc |-> "drop", row |-> r])
    /\ UNCHANGED <<table, draft, row, writes, cited, seen, tags>>
(* The row goes; a citation that came since is set to null.  The model of  *)
(* a model part gets a new version, and the answer has that version as its *)
(* ETag, but nothing of the model's content.                               *)
DropCommit(c) ==
    LET r == job[c].row
        Bumped(m) == [row[m] EXCEPT !.version = @ + 1]
    IN
    /\ job[c].pc = "drop"
    /\ r \in Present
    /\ row' = [q \in Rows |-> IF q = r THEN NoRow
                              ELSE IF q \in Owners(r) THEN Bumped(q) ELSE row[q]]
    /\ tags' = [q \in Rows |-> IF q \in Owners(r) THEN tags[q] \cup {Bumped(q)} ELSE tags[q]]
    /\ \/ Owners(r) = {} /\ UNCHANGED seen
       \/ \E m \in Owners(r) : seen' = [seen EXCEPT ![c] = Unread(m, Bumped(m))]
    /\ cited' = cited \ {r}
    /\ Finish(c)
    /\ UNCHANGED <<table, draft, writes>>

(* A project takes over a model part (ProjectLifecycle has the details).   *)
CiteLoad(c, r) ==
    /\ r \in (In({"modelPart"}) \cap Present) \ cited
    /\ Begin(c, [pc |-> "cite", row |-> r])
    /\ UNCHANGED <<table, draft, row, writes, cited, seen, tags>>
CiteCommit(c) ==
    /\ job[c].pc = "cite"
    /\ job[c].row \in Present
    /\ cited' = cited \cup {job[c].row}
    /\ Finish(c)
    /\ UNCHANGED <<table, draft, row, writes, seen, tags>>

(* Refused, rolled back, timed out, or the process stopped.                *)
Abort(c) ==
    /\ job[c] # Idle
    /\ Finish(c)
    /\ UNCHANGED <<table, draft, row, writes, cited, seen, tags>>
-----------------------------------------------------------------------------
CatalogRequest(c, r) ==
    \/ Create(c, r) \/ PatchProduct(c, r) \/ PatchModel(c, r)
    \/ PatchModelPart(c, r) \/ DropPart(c, r) \/ CiteLoad(c, r)
FloorRequest(c, r) ==
    PatchMachine(c, r) \/ DropMachine(c, r) \/ PutExisting(c, r) \/ PutNew(c, r)
Proceed(c) ==
    EditCommit(c) \/ NewCommit(c) \/ DropCommit(c) \/ CiteCommit(c) \/ Abort(c)

Next ==
    \E c \in Clients :
        \/ Proceed(c)
        \/ \E r \in Rows : Show(c, r) \/ CatalogRequest(c, r) \/ FloorRequest(c, r)
Spec == Init /\ [][Next]_vars
-----------------------------------------------------------------------------
(* A version names one content of its row: always where the database       *)
(* increments it; until two requests overlap where the handler does.       *)
VersionNamesContent ==
    \A r \in Rows : (r \in In(Sheets) => ~lapped) =>
        \A v, w \in tags[r] : v.version = w.version => v.content = w.content

(* Until two requests overlap, a row that changes or goes had not changed  *)
(* since the one who changes it was given its tag, however long ago that   *)
(* was, and published rows stay.  He was shown that content too, unless it *)
(* is a model's: the answer to a deletion of its part is a tag without it. *)
NoLostUpdate ==
    [][~lapped' =>
         \A r \in Present :
            row'[r] # row[r] =>
               \/ /\ row'[r] # NoRow
                  /\ row'[r].content = row[r].content
               \/ /\ r \in In(Catalog) => r \in draft
                  /\ \E c \in Clients :
                        /\ job[c] # Idle /\ job'[c] = Idle
                        /\ seen[c] # NoTag /\ seen[c].row = r
                        /\ seen[c].content = row[r].content
                        /\ seen[c].read \/ r \in In({"model"})]_vars

=============================================================================
