# Verification of the PATS API

This directory specifies bnpi-pats-api in TLA+, model-checks it with TLC and
proves its main safety properties with TLAPS. The reference is always the
source (`app/`, `middleware/`, `helper/`, `scripts/pats-seed.mjs`, the Prisma
schemas).

PATS is an Express 5 service over PostgreSQL through Prisma. A planner releases
a *project*, which mints *batches* (packs of parts); operators scan the packs
along the *route* of their part; quality control gives verdicts; production
analyses defects, closes packs and completes the project. Sections print labels
for the packs. An older set of services (workspaces, employees, products) lives
in the same process over MongoDB, with a Redis cache in front of it. Nothing
runs in the background: all state is in the databases, and all behaviour is
HTTP requests that interleave between their awaited calls. That is where the
hard behaviour is, because a handler reads rows, checks what it read, and then
writes by primary key without checking again, in a READ COMMITTED transaction
or in none.

## 1. Inventory

| Component | Code | State | Operations | Correct when |
|---|---|---|---|---|
| Command idempotency | `app/pats/command-support.ts` | `IdempotencyRecord` | `executeCommand`: look up, claim, work and complete in one transaction, release | a key runs its work once, never forgets it, never answers for other work, and is given back |
| Catalog idempotency | `app/canonical/idempotency.ts`, `prisma-idempotency-store.ts` | `CatalogIdempotencyRecord` | `reserve`, `execute`, `persist`, `release` | requests of a key exclude each other; no second write while the first is on record |
| Shop floor | `app/pats/command-router.ts`, `quality-resolve.ts`, `batch-resolve.ts` | `Batch`, `BatchPositionProjection`, `StageEvent`, `RoutingViolation`, `QualityInspection`, `QualityDecision`, `DefectAnalysis` | plan, release, scan, inspect, decide, analyse, close, complete | packs follow their route, move only when covered by a PASSED verdict, and are quarantined, scrapped and closed on grounds |
| Project lifecycle | `command-router.ts` 527-1159 | `Project`, `ProjectModelRequirement`, `Part`, `PartsList`, `RoutingStep`, `Lot` | create, edit, replace requirements, new route version, override, remove part, release, complete, delete | a released plan no longer changes; packs belong to parts of the plan; minted quantity is what is required |
| Lines and operators | `command-router.ts` 2295-2463 | `Line`, `LineOperatorAssignment` | create, edit, disable, delete, assign, end | an operator works on one line |
| Subjects and capabilities | `subject-admin.ts`, `app/identity` | `Subject`, `SubjectAssignment` | create, enable, disable, change role; the gate of every request | one role per subject; somebody can administer |
| Stations and work processes | `command-router.ts` 1732-2178 | `Section`, `WorkProcess`, `Booth` | create, claim, move, delete | processes form a forest; a deletion detaches what is below |
| Monitoring, machines | `command-router.ts` 1842-1957 | sheets, boards, `Machine` | put, edit, delete | no lost update |
| Catalog | `catalog.ts`, `catalog-foundation.ts` | `Product`, `Model`, `ModelPart` | create, edit, publish, delete | published rows do not change; a version names one content |
| Print jobs | `print-job.ts`, `print-ports.ts`, `print-desk.ts` | `PrintJob`, what was handed to the printer | print, reprint, desk label | a label handed to the printer has its row; numbers of a pack differ; a pack counts once |
| Assets | `assets.ts`, `app/storage` | `Asset`, bucket objects | create, request upload, finalize, delete | a linked image has its bytes; one available image per model |
| Source intake | `app/intake` | `SourceRun`, `SourceArtifact` | import an upload | a run ends, and its status tells what its artifacts are |
| Domain reads | `domain-read.ts`, `canonical/collection.ts` | none | GET | a walk through a list misses nothing; screens tell what commands will do |
| Legacy services | `app/workspace`, `workspaceMember`, `projectMember`, `employee`, `product` | MongoDB rows | create, read, update, delete | a workspace keeps an owner; who shares a project belongs to its workspace |
| Response cache | `middleware/cache.ts`, `helper/cache-helper.ts`, `config/redis.ts` | Redis keys | get, set, sweep | nothing that a write has swept is stale; stale answers expire |
| Seed script | `scripts/pats-seed.mjs` | all PATS tables | additive run, fresh run | a run is not refused by its own order; it leaves the plant of the seed, and a fresh one nothing else |
| Inventory | `command-router.ts` 1430-1468 | `InventoryTransaction` | append | a pack is issued once |
| Platform, docs, generator | `create-app.ts`, `app/docs`, `scripts/generate-service.ts` | none | - | - |

How they interact: every PATS command runs inside `executeCommand`, so its
work shares one transaction with the completion of its idempotency row. Catalog
and asset creates run inside `executeIdempotently`, where the write and the
record of it are two commits. The floor commands of all roles share the batch
row. The release of a project creates the packs of the floor, and its completion
reads their fate. The screens of the floor work out again, in code of their own,
what the commands decide. Lines hang on work processes, and operators on lines;
the gate of a request reads the caller's role. Legacy writes sweep the cache that
legacy reads fill. The seed writes the rows that all of these start from.

Hard behaviours, by kind:

* **Retries and crashes**: a retry arrives at any point of its first request;
  the process stops between claim and completion; a delete or a commit loses its
  answer; a print, an import or a founding stops half way.
* **Stale reads**: a scan, a closure, an analysis, an edit, a count of owners, a
  walk up a tree acts on what another request has changed since.
* **Order**: only the newest verdict of the newest inspection counts; a verdict
  can come before the pack or after it has left; a sweep can come before the fill.
* **Version checks**: `If-Match` is compared with a row read earlier.
* **Lifecycle**: long sequences of legal commands: a pack that is quarantined,
  sent to rework, passed again; a project completed and then planned on; a fresh
  seed over a database in use.

`PROJECT.json` lists the hazards line by line and which property covers each.

## 2. Modules

| Module | Models | State and actions |
|---|---|---|
| `AtMostOnce` | the promise of an idempotency key | `done` and `answered`; `Run`, `Answer` |
| `CommandIdempotency` | `executeCommand` | `rows` is the table, `job[w]` where request `w` is; one action per awaited call: `LookupMiss`/`LookupReplay`, `Claim`/`ClaimRefused`, `Commit`/`WorkFails`, `Release`; faults `Crash`, `ReleaseLost`, `CommitUnacknowledged`; `OperatorExpires` is the manual expiry the code's comment speaks of |
| `CatalogIdempotency` | `executeIdempotently` and its PostgreSQL store | the same, with `Execute` and `Persist` as two commits |
| `BatchFloor` | the floor commands and the release and completion of the project | the tables joined as the handlers read them; `job[w]` holds what a running transaction has read |
| `FloorReads` | what GET /batches, /batch-positions, /batches/resolve and /projects/:id tell of a pack | operators over the state of `BatchFloor`, one per answer |
| `ProjectLife` | the promise of a project to its planners | `status`, `plan`; create, edit, release, complete, delete |
| `ProjectLifecycle` | the planning commands on one project | `project`, `plan` (requirements, parts, overrides), `routes`, `lot`, `packs` are the tables; `job[w]` the transaction worker w runs |
| `AssetImages` | the asset commands, the bucket and the uploading client | `asset`, `link` and `bucket` are rows, model links and objects, `urls` the upload URLs still valid, `job[w]` the request worker w runs |
| `Staffing` | subjects, roles, the gate; lines and their operators | `subject`, `role`, `line`, `assignment` are the tables; a command is its gate with its reads, and its commit |
| `WorkProcesses` | sections, processes, booths, and the lines on them | the tables; `XLoad` walks the tree, `XCommit` writes |
| `RowVersions` | catalog, machines, sheets, boards: edits under `If-Match` | `row` with its version; `tags` what every version was shown with; `seen[c]` the last ETag client c was given, and whether the answer also had the content |
| `Collections` | the lists of the API and a client that walks one page by page | `rows` in the order of the list, `page`, `counted`, `found`: the two queries of an answer |
| `SourceIntake` | POST /pats/intake/runs | `run` and `stored` are the rows, `at` the next call; every call may fail, lose its answer, or be the last |
| `PrintDesk` | the print transaction, its four ports, the desk label and the section's output card | `rows` the PrintJob table, `handed` what the socket or the spooler has taken, `spool` the file of a millisecond |
| `Membership` | members of a workspace and of a project of it | `members`, `sharers`; no transactions, so one action per call |
| `EntityCache` | reads and writes of employees, products and workspaces through Redis | `cache[key]` an entry with the version it is of and the number of envelopes it is in |
| `Seeding` | both modes of the seed script, table by table | `slot[t]` whether the seed's rows of a table are there, under their own ids or taken by the API; `made` what else the API has: rows of its own, and changes of the seed's |
| `...Proofs` | | theorems; those of the modules of `MCServices` and `MCPeople` are in `ServicesProofs` and `PeopleProofs` |
| `MC...` | | instances for TLC |

### How `BatchFloor` corresponds to the code

A handler is cut where it awaits the database and another transaction can get
in between: `XLoad` is the read with the checks on what it read, `XCheck` or
`XGate` a later read with its checks, `XCommit` all writes, which become
visible together. What a handler read and still uses afterwards is in `job[w]`:
a scan keeps the position it saw, everything else only an id. A refused command
rolls back: `Abort`, which also stands for a transaction timeout and a crash.
`CreateBatch` and `Inspect` have no read another transaction can make stale, so
they are single actions.

| Action | Command |
|---|---|
| `CreateBatch` | POST /batches |
| `ReleaseLoad`, `ReleaseCommit` | PATCH /projects/:id to RELEASED |
| `CompleteLoad`, `CompleteCheck`, `CompleteCommit` | PATCH /projects/:id to COMPLETED |
| `ScanLoad`, then `ScanBlocked`, `ScanRelease`, or `ScanGate` and `ScanReceive` | POST /stage-events |
| `ResolveLoad`, `ResolveCommit` | POST /routing-violations/:id/resolve |
| `Inspect` | POST /quality-inspections |
| `LookUpPack`, `OpenInspection` | GET /quality-inspections/resolve, which writes |
| `DecideLoad`, `DecideCommit` | POST /quality-inspections/:id/decisions |
| `AnalyseLoad`, `AnalyseCheck`, `AnalyseCommit` | POST /defect-analyses |
| `CloseLoad`, `CloseGate`, `CloseCommit` | POST /batches/:id/closure |

Abstractions, beyond names, quantities, wording and audit rows:

* One project and one part, so one route, ordered by step order; `pos` is the
  index of the route step the projection points at, 0 for none.
* A station is a stage with a sub-stage. The route has no step at the stage
  STG-PROJECTS, where minted packs wait.
* Ordering by `createdAt` or `decidedAt` is the order of commits.
* A client that sends `If-Match` always sends the version that is current when
  the handler reads the row; any other is refused and changes nothing.
* The stage allow-list of quality subjects is authorization and left out.
* The ISSUANCE posted by a first scan is the hop from `Origin`, because both
  are written by the same transaction.

### How `ProjectLifecycle` corresponds to the code

The transactions are cut the same way: `XLoad` is the read of the project row
with the `If-Match` and status checks, `XCommit` the writes.

| Action | Command |
|---|---|
| `CreateProject` | POST /projects |
| `EditLoad`, `EditCommit` | PATCH /projects/:id, fields |
| `ReleaseLoad`, `ReleaseCheck`, `ReleaseMint`, `ReleaseCommit` | PATCH /projects/:id to RELEASED |
| `CompleteLoad`, `CompleteCommit` | PATCH /projects/:id to COMPLETED |
| `ReplaceLoad`, `ReplaceRead`, then `ReplaceQuantities` or `ReplaceAll` | PUT /projects/:id/model-requirements |
| `RouteLoad`, `RouteCommit` | POST /projects/:id/parts-list-versions |
| `OverrideLoad`, `OverrideCommit` | PATCH /projects/:id/parts/:partId |
| `RemovePartLoad`, `RemovePartCommit` | DELETE /projects/:id/parts/:partId |
| `PlanPack` | POST /batches |
| `DeleteLoad`, `DeleteCommit` | DELETE /projects/:id |

The two modules meet in the packs: what `ReleaseCommit` and `PlanPack` make
here is what `BatchFloor` plans and moves there, and the check of every pack
that `BatchFloor` gives the completion is the part of `CompleteLoad` that this
module leaves to it. Further abstractions:

* The catalog does not change while a project is planned.
* A plan has at most one `Part` row for each catalog part. Replacing the set of
  models makes new rows; `rows` names the generation, so a transaction that
  read the old ones writes to rows that are gone.
* The reads of a release up to the first count of batches are one, as are the
  counts per part: each of them can be overtaken by another transaction in the
  same way.
* The foreign keys of `Batch` to `Part` and `Lot`, and the unique batch code,
  are guards of the commits. Generated batch codes are numbers; a client's own
  code never equals one.

### How `AssetImages` corresponds to the code

These handlers read and write outside a transaction as well, and talk to the
bucket in between, so they are cut at every awaited call.

| Action | Command |
|---|---|
| `Create` | POST /assets (its idempotency is `CatalogIdempotency`) |
| `UploadLoad`, `UploadCommit` | POST /assets/:id/upload-requests |
| `Put`, `Expire` | the client with its upload URL; five minutes passing |
| `FinalizeLoad`, `Verify`, then `Quarantine`, or `LinkRead`, `LinkModel`, `LinkCommit`, `CleanUp`, `Answer` | PATCH /assets/:id |
| `DeleteLoad`, `DeleteRead`, `DeleteCommit` | DELETE /assets/:id |

* An asset id stands for its object key as well; a model stands for the key of
  the image it was seeded with, so no two models share a seeded object.
* Bytes are as declared or not; size, type and checksum are one comparison.
* `Locked` and `ModelLocked` are the row locks of the two transactions; a
  deadlock of the database ends in `Abort`, like any other failure.
* `lapped` and `retained` are history variables: whether two requests have
  overlapped so far, and which assets a DELETE has retired.

### How `Staffing`, `Membership` and `WorkProcesses` correspond to the code

* `Staffing`: the gate (`app/canonical/router.ts`, `app/identity/policy.ts`)
  reads subject and role at every request and is not asked again, so it is part
  of the first step. Changing a role is cut at its three writes: `PatchLock`
  is the update of the subject, `PatchRevoke` finds and revokes the active
  bundles, `PatchRoleCommit` adds the new one. The update has data, and so locks
  the row until the commit, only when the request also has a status, a name or an
  address (`locks`); of a role alone, or with a password, Prisma writes nothing.
  `raced` remembers whose role two changes went for at once that did not both
  lock, and whom two assignments of an operator; `crossed`, that requests to
  disable or demote two different subjects overlapped. Passwords and tokens are
  left out; so are line leaders beyond one, who may do the same.
* `Membership`: rows are marked as removed, never deleted, and are unique per
  user. `RoleCheck`, `Count`, `Find`, `RoleWrite` are the calls of
  PATCH /workspaceMember; `RemoveCheck` to `Cascade` those of its DELETE;
  `Create` and `Settle` the two calls that found a workspace. `Abort` stops a
  request between any two. Deletion of a workspace, project roles and the checks
  of `requireProjectAccess` are left out.
* `WorkProcesses`: `Up(p, n)` is the n-th row of the walk towards the root,
  `Below(p)` what the search downwards finds. Booths are only made by the seed.
  A process's section is no foreign key, so a client may name any.

### How the other modules correspond to the code

* `RowVersions`: a content is the number of the write that made it. Where the
  database increments `rowVersion` and where the handler writes the version it
  read plus one is `NextVersion`. `Matches` is the comparison with `If-Match`.
  A read, a create and an edit answer a version with its content (`Tag`). The
  deletion of a part answers the new version of its model without the model
  (`Unread`).
* `Collections`: a list is its ordering, whether a row changes place when it is
  updated, what changes its rows, and whether its order is total. A page is an
  offset into the rows as they are at that moment; `Count` and `FindMany` share no
  transaction. Each operator of the module that is named for a table stands for
  the handler of its list.
* `FloorReads` repeats the computation of each answer, not the decision of the
  command: that the two agree is what is checked.
* `PrintDesk`: SENT means that the socket has flushed the label or that the
  spooler has queued it (`scripts/win-raw-print.ps1`), be the printer switched off
  or out of paper. So `handed` is what may come out, now, later or never; nothing
  the API keeps tells which, and no property speaks of paper. `SendRaw` may fail
  after it flushed (a socket timeout); `SpoolFile` may queue the file of another
  print of the same millisecond. `Abort` is the roll-back of the transaction,
  whatever was handed over. `crossed` and `undone` remember the packs two of
  whose prints were under way at once, and those one of whose prints rolled back.
* `SourceIntake`: the analysers parse workbooks and drawings and are a choice of
  outcomes. `Catch` is the handler's catch block.
* `EntityCache`: a row has one envelope more in an answer than in the row cache,
  which is how the two kinds of entries are told apart. `disturbed` remembers
  that requests overlapped or Redis was away.
* `Seeding`: all rows of the seed in one table are one. `Refs` and `OpenRefs` are
  the foreign keys of the schema, RESTRICT and SET NULL. `Program` is the order of
  the script's steps. The script runs in one transaction; the API acts before it
  and meanwhile. Two of its acts change rows of the seed: it grants a role to a
  seeded account (`grant`), which a run of either kind revokes, and releases a demo
  project (`release`), which a run makes a draft again, packs or no packs (`Resets`).
  They stand for the other resets of the script, of names, codes and positions.

## 3. Runs

Twelve runs. Four modules for TLC hold several instances at once: their initial
predicate chooses one, its `Next` runs and the others' variables stand still.
No state is shared, so each instance is explored just as it would be alone, and
a property of one holds trivially in the rest. `MCServices` and `MCPeople` do so
with different modules, `MCBatchFloor` and `MCProjectLifecycle` with two
instances of one module: transactions that run one at a time, on a larger
instance, and transactions that overlap.

| Run | Instance | Shows |
|---|---|---|
| `Services` | *commands*: 3 requests, 1 key, 2 bodies, 3 row ids; crashes, lost deletes, operator expiry. *acks*: 2 requests, lost acknowledgements. *creates*: 2 keys; crashes, failing `persist`. *versions*: 2 rows of a model and its part, or of unrelated tables, 2 clients, 4 writes. *lists*: 4 rows, pages of 2, 2 changes. *intake*: 2 names, up to 2 files of any type. *cache*: each of the 3 kinds, 2 workers, 3 requests. *seed*: both modes after up to 3 acts of the API | see the properties below |
| `BatchFloor` | serial: 1 pack, 2 route steps, 2 inspections, 2 verdicts; overlapping: 2 transactions, 1 route step | status, closure, completion and hops always have grounds, and screens tell what the commands will do; one at a time, moves are free, ledger and projection agree |
| `ProjectLifecycle` | serial: 2 models of 2 products, 3 versions, a pack by hand; overlapping: 2 transactions, 1 model of 2 parts | packs keep their parts and project; one at a time, lot and route agree, a release mints what is required, `ProjectLife` is implemented |
| `AssetImages` | 2 assets, 2 models with or without a seeded image, 2 requests, uploads and failures anywhere | one available image per model; until requests overlap, links have bytes and retained bytes stay |
| `WorkProcesses` | 3 processes, 1 section, 1 booth, 1 line, 2 requests | until requests overlap, no move closes a cycle and a deletion detaches all below |
| `People` | 2 subjects and 2 requests, as *roles* that change with no line, and as *lines*, 2 with 2 assignments, where subjects are disabled and enabled while nothing else goes on; *members*: 3 users, 4 requests | an admin, one role and one line remain through every overlap but of the very requests that race; until requests overlap an owner remains and sharers are members |
| `PrintDesk` | 2 packs, 3 prints, every kind of connection, a restart of the printer | whatever prints overlap, a label handed over has its row unless its print rolled back; a pack is numbered and counted once unless two of its own prints overlap |
| `CommandAckLost...`, `Floor...`, `ReprintsKeepQuantity` | see the cfg of each | **violated**: see findings |

The properties of `Services`: `WorkCommitsOnce` and `KeepsPromise` (the rows
implement `AtMostOnce`); `ClaimsAreResolved` (without crashes and lost deletes
every claim is given back, lost acknowledgements or not); `StandingClaimIsFinal`;
`VersionNamesContent` and `NoLostUpdate`; `OldRowsAreSeen`; `StatusTellsArtifacts`
and `RunsEnd`; `SweptIsCurrent`, `WrappedOnce`, `StaleEntriesGo`; `NeverStuck`,
`FreshIsFresh`, `RunsRestoreSeed`.

**Bounds.** The idempotency protocols have at most a claimer, a claimer that
lost its claim and a retry around one row, and three ids let a row be released
and claimed anew twice; keys share no row, and the creates have two to show it.
Packs share no row but the project, so one pack meets every interleaving two
transactions have; two transactions are the least that race, and each reads at
most three times. Two route steps have a first, a next and a last hop; two
inspections at a station tell the newest from the oldest; two verdicts let HOLD
be followed by another. Three versions of a project let one edit or replacement
lie between creation and release; quantities leave a remainder (3 in trays of 2)
and less than a tray (1). Two assets meet every replacement of a model's image.
Three processes make a chain with something below something below, which is what
a walk of one step misses. Two pages of two rows have a first and a last page and
a boundary that a change can cross; two changes let one cancel another. Two
files are a first and a last, and two of one name. Two requests and one more let
a stale fill be read. Two editors and four writes let one hold an ETag across the
other's writes. Two prints in flight are the least that overlap and the third
reprints. The seed's steps are not bounded: all tables and references are there.

**Until requests overlap.** A property with one of the history variables `lapped`,
`disturbed` and `torn` is one the code keeps only for requests that do not overlap:
it does not catch what goes wrong between two of them, and the hazards of
`PROJECT.json` say so where they cite one. `raced` and `crossed` of `Staffing` and
`crossed` and `undone` of `PrintDesk` are narrower: they name the subject or the
pack for which the one overlap the code does not stop has happened, and the
property holds through all others.
In `MCBatchFloor` and `MCProjectLifecycle` `raced` is the `lapped` of the second
instance; a single worker never laps itself, so `lapped` tells the two
instances apart. The premise is there because TLC breaks the property
without it: two decisions on one version,
two first scans, a scan that read the pack before the quarantine committed, an
edit missed by a release, two moves that close a cycle, two admins who disable
each other, two owners who remove each other, two changes of one role that lock
nothing, two assignments of one operator, two prints of a pack with one number.

Deadlock checking is off in the runs that may stop because a bound is reached or
because nothing is left to ask for. That no protocol waits for itself is what the
liveness properties and `NeverStuck` are for.

**Fairness.** Only `Services` states any, for what its three liveness properties
need: weak fairness of the steps of a request that is already being handled
(*acks*, *intake*, *cache*), since its promises settle in the process that awaits
them, and of the expiry of every cached key, since Redis expires what has a time
to live. No client has to send a request, no operator has to expire a claim, and
where the process may stop, that is one of the outcomes the property allows.

## 4. Findings

* **Lost acknowledgement** (`CommandAckLostDuplicates`). `executeCommand`
  deletes the claim whatever was thrown. If the transaction committed and the
  connection broke before the answer, the completed row is deleted and the
  retry repeats the work.
* **Scrapped packs come back** (`FloorScrappedReopens`). HOLD and FAILED set a
  pack HELD whatever its status; a WAIVE then makes it ACTIVE.
* **Early verdicts** (`FloorEarlyVerdict`). A verdict given before the pack
  arrived at a station lets it leave that station.
* **Rework has no way back** (`FloorReworkStuck`). After REWORK the pack is
  HELD, scans are refused, PASSED does not lift HELD, and the verdict cannot be
  analysed again.
* **Reprints forget the quantity** (`ReprintsKeepQuantity`). A reprint takes the
  quantity of the position or the plan, not of the label it reprints.

### Behaviours the models show

These are no findings: no document speaks against them in so many words, or they
need requests that overlap. They are what a change of the code should look at.

* *Floor*: a pack planned by hand after the release stays PLANNED, so it is scanned
  (although shown BLOCKED) but not closed unless QC holds it and production waives
  (`CreateBatch`, `CloseLoad`, `QcGate`). One that waits without a route step
  at the last station is shown COMPLETE, and a scan sends it to the first. The
  scan for QC compares stages only, so a pack at a second sub-stage is reported
  as inspected (`LookUpPack`); two such scans at once open two inspections. The
  list of packs can show PASSED for a pack that is HELD. The dashboard counts
  closed and held packs as not started, and its line attention counts positions of
  packs that are done.
* *Projects*: PATCH gives a draft another product without looking at the models
  it requires (`EditCommit`); packs planned by hand use up numbers of the
  release's series whatever their size, so small ones leave a requirement
  uncovered (the premise of `ReleaseCovers`). A release that has nothing to mint,
  overtaken by a completion, sets the project back to RELEASED.
* *Assets*: an image may be replaced by its client after it was verified, as long
  as the upload URL is valid (`Put`). A late upload request takes an available
  image back; a late finalize revives a retired one whose bytes are then deleted.
* *Processes*: PUT sections/:id/processes gives a free booth also to a process that
  has one, and booths of other sections keep it. A process takes any string as its
  section. Nothing stops a process with a line from getting children, against
  docs/floor-org/2026-09-22-line-screen-design.md:38 ("Parents never hold lines
  directly").
* *Staffing*: PATCH with isEnabled false leaves operators assigned where DELETE ends
  their work; the permanent DELETE of a line takes its ended assignments with it.
  Two changes of one role at once leave two active bundles when one of them has
  nothing to write to the subject, and so does not wait (`PatchLock`).
* *Versions*: sheets and boards write the version they read plus one, so two
  edits at once give one version to two contents. Assets increment the version of
  a model too. Data-migration scripts reset versions.
* *Lists*: a row that leaves a filtered list, is put elsewhere by hand, or, in
  batch-positions, is updated, moves others across a page boundary and they are
  missed. The legacy lists break no ties, so pages may repeat and skip rows even at
  rest.
* *Intake*: FAILED can overwrite a COMPLETED whose answer was lost; two files of
  one name fail the run after the first is stored; a stop or a lost answer to the
  create leaves a run RUNNING for ever.
* *Prints*: SENT is said of a label that a switched-off printer has queued. The
  transaction's limit is 5 s and so is the socket's, so a label can be handed over
  and its row rolled back. A label that succeeds after one that failed has
  sequence 2 and is not counted, although domain-read.ts:978 speaks of
  "first-success PrintJobs".
* *Memberships*: a removed member cannot be added again, since its row keeps the
  unique place. An ADMIN may demote or remove an owner while there is another;
  two owners may remove each other at once. A founding whose second call fails
  leaves a workspace nobody can enter.
* *Cache*: the row and the answer of a workspace share a key, so under overlap one
  reader gets a bare row or a doubly wrapped one. The cached answers about one
  employee are not swept by its writes and are stale for up to 90 s.
* *Seed*: a fresh run does not empty `machine`, whose foreign key then refuses the
  deletion of production lines. An additive run fails on accounts of the retired
  planner (an enum value and a column that are gone), on parts without cycle
  times, on extra packs in the anchor lot, and on a code the API took with another
  id. Where it succeeds it takes away what the API did to seeded rows: grants of
  accounts are revoked, a released demo project is a draft again while the packs
  minted for it stay, packs and positions are put back (`Resets`).
* *Versions of a model*: a client that deletes a part is given the model's new
  version, and its next edit of the model passes `If-Match` though it may never have
  read what it writes over (`DropCommit`).

## 5. Proofs

Eight modules hold theorems. Every theorem is of the specification of its module
(`Spec`, or `Versions!Spec` and the like for the modules that `MCServices` and
`MCPeople` instantiate), for any number of requests and any constants its
assumptions allow. `PROJECT.json` names, for each, the checked property it states.

Most modules have an invariant for what holds however requests overlap and one for
what holds until they do. The second (`Serial`, `MemberSerial`, `CacheSerial`)
always has the same form: the books agree, at most one request is under way, and
what it has read and checked is still true when it writes. Every inductive invariant
was checked with TLC on its instance before it was proved.

`ServicesProofs`, the modules of `MCServices`. The assumption `ServicesAssumption`
says that rows have tables, that the rows of a list are numbered from 1 and a page is
not empty, and that the API takes codes only where the seed has some.

* *Commands*, with `"ACK_LOST" \notin Faults` (the finding shows why): types,
  `WorkCommitsOnce`, the record properties, and that every step implements a step of
  `AtMostOnce`. The inductive invariant adds that row ids and scopes are unique, that
  the claim a request holds is its own or gone, and that committed work has a
  completed row: without it a late owner could complete the row of a retry.
* *Uploads*: `StatusTellsArtifacts`. While a run is open, the statuses it has
  collected are those of the artifacts it has stored, in order (`IntakeInv`).
* *Caches*: `WrappedOnce` and `SweptIsCurrent`. The keys of a kind differ
  (`KeysDiffer`), so what is put under one is never found under another; and until
  requests overlap every entry is current but those the only request, a write, has
  still to sweep (`OwedOrCurrent`).
* *Rows*: `VersionNamesContent` and `NoLostUpdate`. Every version a row has had is at
  most its present one (`RowInv`), and every ETag a client holds is one of them, read
  with its content unless it is a model's (`ShownIsTagged`). Where the handler writes the version it read plus one, that
  the row still has the version it read is what `AskedAlone` adds.
* *Lists*: `OldRowsAreSeen`, for lists of any length and pages of any size. A row
  that lasts is on a page already seen or lies ahead of where the next page begins
  (`SeenOrAhead`); insertion behind that point and updates that put a row at the
  front keep this, and deletion does not, which is why the property excludes it.
* *Seed*: `NeverStuck`, `FreshIsFresh`, `RunsRestoreSeed`. `NeedsOf` and `HoldersOf` list,
  for every table, what it refers to and what refers to it, and are proved to cover
  every foreign key (`NeedsAre`, `HoldersAre`). `Does(needs, D, s, F)` says that a
  sequence of steps serves these needs once D is done, and does F; such sequences can
  be put together (`Chain`), and so the whole script is one (`Ordered`). The
  invariant `SeedInv` says that what the script has written is there, that what the
  API had done to it before is undone (`Restored`), and that what an undisturbed fresh
  run has emptied holds only what the run has written.

`CatalogIdempotencyProofs`: requests of a scope exclude each other
(`ScopesAreExclusive`), answers are of committed writes (`AnswersAreCommitted`),
and while the claim of a committed write stands its scope commits no other
(`StandingClaimIsFinal`). The inductive invariant says whose claim each row is:
rows of one scope are one, a request that is between its claim and its answer owns
the pending row of its scope, and every completed row has its write.

`BatchFloorProofs`, every property of the run. However transactions overlap:
`TypeOK`, `HopsAreCovered`, `ClosedIsPassed`, `FateHasGrounds`, `AnalysesAreGrounded`,
`CompletionsAreEarned` and `ScreensTellCommands`. Verdicts, analyses and hops are only ever added. The
inductive invariant `IInv` therefore says of each running transaction that what it
has read and relies on is still true (`ValidJob`): the station a scan leaves has
passed, the last station of a pack being closed has passed, the inspection being
analysed has a verdict that is not PASSED, the packs a completion has counted have
passed at the end or were scrapped by an analysis; and of each pack that its projection is at
its step (`AtItsStep`). What the screens tell then follows by comparing the reads with
the guards of the commands in one state; the least route step beyond the present one
is the next (`LeastNumber`). Until transactions overlap: `LedgerAddsUp`, `MovesAreFree`
and `FatesAreShown`, by `Serial`: the hops of a pack are its
route up to where it is, every verdict but the one that closes an inspection is a
HOLD, and the status of a pack is what its newest analysis made it unless it was
quarantined anew (`FatesFollow`). The assumptions are those of `BatchFloor`: a
non-empty route over the stations without a step at the origin stage, natural bounds.

`ProjectLifecycleProofs`, every property of the run, for any catalog with finitely
many models and parts and any quantities. However transactions overlap: `TypeOK`,
`PacksHaveProject`, `ReleasedHasPacks`. No planning command checks the status again
when it commits, so the argument rests on the rows: `IInv` says that packs belong to
parts of the plan, that what a transaction read of the rows is not newer than the
plan (`RowsAreOld`), and that a release which minted nothing for a part did so
because it has packs (`ReleasesAll`, `MintsAll`). A plan that was replaced has newer
rows, and then what was minted for the old ones cannot be inserted. That a commit is
one step is part of the model: it is one transaction, and its foreign keys are checked
against rows it locks. Until transactions overlap: `LotAgrees`, `KeepsPlan` and
`ReleaseCovers`, and that the module implements `ProjectLife` (`LivesOneLife`: for a
behaviour in which transactions never overlap, initial states map to initial states
and every step to a step of `ProjectLife` or a stutter). `ReleaseCovers` is what the code
keeps: packs planned by hand below the tray size use up numbers of the release's
series, and only without them the packs add up to what is required. The sums are the
library's `SumFunction`; what it returns for a finite function is proved without an
induction theorem, by the set of least cardinality for which it would not.

`AssetImagesProofs`: every property of the run. `OneAvailable` rests on
`RetiresAll`: between its search and its commit a finalize is alone with its model
and knows every available image of it, because the search comes after the update
of the model row. The others hold until two requests overlap, by `Serial`: what
the one running request has read is still so (`JobIsCurrent`), links and statuses
agree, and what is retained is neither linked nor to be cleaned. That seeded keys,
asset keys and the absent link differ is the assumption `AssetAssumption`.

`PrintDeskProofs`: every property of the run, for any finite set of packs, however
prints interleave. A label that was handed over is known: by its row, by the print
that still has to insert it, or by a roll-back (`Recorded`), and so is one that lies
in the file of a millisecond (`Spooled`), whoever queues it; `Sent` is the same the
other way for the network. Of a pack without two prints at once one print is under way
at most (`Exclusive`) and its number is the next (`Numbers`), which other packs'
prints, failures and roll-backs leave alone; the counts of a section follow.

`PeopleProofs`: every property of the run. However requests overlap: of two changes of
one role that do not race neither is under way with the other (`ChangesExclude`), and
so what was found to be revoked is still all there is; unless requests to demote two
subjects cross, whoever takes an account or a role from another is an admin itself and
stays one (`AnotherAdmin`, `OneVictim`); and an operator whom one request assigns works
nowhere (`Unassigned`). For a workspace, types and that no row is ever lost
(`MembersTyped`) hold however requests overlap; `OwnerRemains` and `SharersBelong`
until they do or one breaks off: a request that takes an owner away has counted
another who is still there (`Found`), and a member on the way out is taken out of the
projects by the same request. The roles include OWNER and ADMIN (`RolesAssumption`).

`WorkProcessesProofs`: `Forest` and `DropsDetach`, until requests overlap, for any
tree and any walk at least as long as there are processes. Suppose a move closed a
cycle: then the parents from the new one upwards stay in it and never meet the
process that moves; there are more steps in the walk than processes, so it meets
one twice, and what lies between is a cycle that was there before
(`ClimbsInCircles`). The code's walk has 50 steps; with deeper trees the
assumption `WorkProcessAssumption` fails and so may the theorem. That the walk
climbs one parent at a time (`Climb`) is proved of the recursive function by
taking the least number of steps at which it would not.

Only model-checked: the liveness properties (`ClaimsAreResolved`, `RunsEnd`,
`StaleEntriesGo`), which are beyond the prover. `StandingClaimIsFinal` is proved of
`CatalogIdempotency` itself; the run checks it on the instance of it in `MCServices`.
The five violated properties are statements of documents and tests that the code does
not keep, so there is nothing to prove of them.

One caution for whoever extends the proofs: the SMT backend may take two CASE
expressions with the same first arm for equal. No proof restates a CASE expression;
each derives what it needs of one arm at a time from the definition, and fails, as it
should, when that arm of the definition is changed.

## 6. Not modelled

* Project roles, the deletion of a workspace, the checks of `requireProjectAccess`
  and the cycles of employees' managers: legacy operations beside membership.
* What a create of the catalog checks of codes and stages, sub-stages and
  section stages: validation of one request on rows nobody else changes with it.
* POST /inventory-transactions, which appends a row only its list reads; audit and
  outbox rows, which are written and never read.
* The figures of the dashboard and the columns of reads: projections without a
  decision. Label layout, workbook and PDF parsing: formats. Passwords, tokens, the
  rate limiter and the Redis breaker: no state that the properties speak of.
* API documentation, logging, the service generator and one-off migration
  scripts.
* Two hazards have a place in no property. A 204 answer is stored with a null body,
  which the replay takes for none (`command-support.ts:124`). Two scans for QC at
  once open two inspections (`quality-resolve.ts:216`); the newest counts, as the
  gates' properties already say.

## 7. Plan

Every safety property that a run checks is now a theorem. What would add most next:
a refinement of the floor to an abstract life of a pack (planned, moving, held,
scrapped, closed), with a proof like that of `ProjectLife`; abstract promises of the
cache (an answer is of a state the row had since the last sweep) and of an upload, in the
manner of `AtMostOnce`; and the parts of the domain reads that decide something but are
not yet modelled, the dashboard's line attention first.
