-------------------------- MODULE ProjectLifecycle --------------------------
(***************************************************************************)
(* Planning one project (app/pats/command-router.ts): a draft with model   *)
(* requirements, part snapshots, route versions and its one lot is edited, *)
(* released, completed or deleted.                                         *)
(*                                                                         *)
(* As in BatchFloor an action is one read, or all writes, of a READ        *)
(* COMMITTED transaction; Abort is every way to roll back.  If-Match and   *)
(* the status are checked when the project row is read (XLoad) and not     *)
(* again when it is written.  What stops a stale write is a row that is    *)
(* gone and the foreign keys of Batch: a part or a lot that a pack refers  *)
(* to cannot be deleted, and a pack cannot be inserted for one that was.   *)
(* The catalog does not change.                                            *)
(***************************************************************************)
EXTENDS Integers, Sequences, FiniteSetsExt, Functions

CONSTANTS
    Workers,        \* transactions the server may be running at one time
    Products,       \* catalog products
    NoProduct,      \* the product of a project that names none
    Models,         \* catalog models
    ProductOf,      \* the product a model belongs to
    Parts,          \* catalog model parts; a plan has one Part row for each
    ModelOf,        \* the model of a model part
    Stations,       \* configured (stage, sub-stage) pairs
    CatalogRoute,   \* the stations a model part is routed through
    CatalogTimed,   \* those the catalog has a cycle time for
    Quantities,     \* the required quantities planners ask for
    PackSizes,      \* the batch sizes they choose
    MaxVersion,     \* they edit no project of this row version or more,
    MaxPacks        \* and plan by hand no more packs of a part than this

ASSUME CatalogAssumption ==
    /\ IsFiniteSet(Models) /\ IsFiniteSet(Parts)
    /\ ProductOf \in [Models -> Products]
    /\ NoProduct \notin Products
    /\ ModelOf \in [Parts -> Models]
    /\ CatalogRoute \in [Parts -> SUBSET Stations]
    /\ CatalogTimed \in [Parts -> SUBSET Stations]

ASSUME QuantityAssumption ==
    /\ Quantities \cup PackSizes \subseteq Nat \ {0}
    /\ {MaxVersion, MaxPacks} \subseteq Nat

VARIABLES
    project,   \* the Project row
    plan,      \* its ProjectModelRequirement and Part rows
    routes,    \* its PartsList versions, oldest first, with their steps
    lot,       \* its Lot row and product specification
    packs,     \* packs[p]: the planned quantities of the Batch rows of part p
    job,       \* job[w]: the transaction worker w is running
    lapped     \* two transactions have overlapped (history)

tables == <<project, plan, routes, lot, packs>>
vars == <<project, plan, routes, lot, packs, job, lapped>>

(* What planners may ask for: some models, a quantity of each.             *)
Requirements == UNION {[S -> Quantities] : S \in SUBSET Models}

(* Replacing the set of models makes new requirement and part rows: "rows" *)
(* names them by the project version that made them.                       *)
Plan == [rows: Nat, required: Requirements, parts: SUBSET Parts,
         override: [Parts -> SUBSET Stations]]
(* "codes": the numbers n used up in batch codes <lot code>-B<n>.          *)
Lot == [route: Nat, target: Nat, packSize: PackSizes, codes: SUBSET Nat]

Idle == [pc |-> "idle"]
Job ==
    {Idle}
    \cup [pc: {"edit", "release", "complete", "delete"}]
    \cup [pc: {"replace"}, required: Requirements]
    \cup [pc: {"replacing"}, required: Requirements, rows: Nat,
          prior: Requirements]
    \cup [pc: {"route"}, rows: Nat]
    \cup [pc: {"override", "remove"}, rows: Nat, part: Parts]
    \cup [pc: {"releasing"}, rows: Nat, parts: SUBSET Parts,
          required: Requirements, packSize: PackSizes, count: Nat]
    \cup [pc: {"minting"}, rows: Nat, count: Nat,
          trays: [Parts -> Seq(Nat \ {0})]]

Alive == project.status \in {"DRAFT", "RELEASED", "COMPLETED"}

TypeOK ==
    /\ project \in [status: {"NONE", "DRAFT", "RELEASED", "COMPLETED",
                             "DELETED"},
                    version: Nat, product: Products \cup {NoProduct}]
    /\ Alive => plan \in Plan /\ lot \in Lot
    /\ routes \in Seq([Parts -> SUBSET Stations])
    /\ packs \in [Parts -> Seq(Nat \ {0})]
    /\ job \in [Workers -> Job]
    /\ lapped \in BOOLEAN
-----------------------------------------------------------------------------
(* The part rows made for a set of required models.                        *)
Snapshot(models) == {p \in Parts : ModelOf[p] \in models}

CatalogSteps(parts) ==
    [p \in Parts |-> IF p \in parts THEN CatalogRoute[p] ELSE {}]

FreshPlan(rows, required) ==
    [rows |-> rows, required |-> required,
     parts |-> Snapshot(DOMAIN required),
     override |-> [p \in Parts |-> {}]]

OfProduct(models, product) ==
    product # NoProduct => \A m \in models : ProductOf[m] = product

Total(required) == SumFunction(required)
PackCount == SumFunction([p \in Parts |-> Len(packs[p])])
Packed(p) == packs[p] # <<>>

(* The parts read by the transaction of w still have their rows. *)
SameRows(w) == plan.rows = job[w].rows

Begin(w, tx) == job[w] = Idle /\ job' = [job EXCEPT ![w] = tx]
Continue(w, from, tx) ==
    job[w].pc = from /\ job' = [job EXCEPT ![w] = tx]
Finish(w, from) ==
    job[w].pc = from /\ Alive /\ job' = [job EXCEPT ![w] = Idle]

(* Mutation: released projects are not refused. *)
LoadUnreleased(w, tx) ==
    /\ project.status \in {"DRAFT", "RELEASED"}
    /\ project.version < MaxVersion
    /\ Begin(w, tx)
    /\ UNCHANGED tables

(* The project is read: If-Match names its version and it is a draft. *)
LoadDraft(w, tx) ==
    /\ project.status = "DRAFT"
    /\ project.version < MaxVersion
    /\ Begin(w, tx)
    /\ UNCHANGED tables

Bump == project' = [project EXCEPT !.version = @ + 1]
BumpTo(status) ==
    project' = [project EXCEPT !.version = @ + 1, !.status = status]
-----------------------------------------------------------------------------
Nothing == "NONE"

Init ==
    /\ project = [status |-> "NONE", version |-> 0, product |-> NoProduct]
    /\ plan = Nothing
    /\ routes = <<>>
    /\ lot = Nothing
    /\ packs = [p \in Parts |-> <<>>]
    /\ job = [w \in Workers |-> Idle]
    /\ lapped = FALSE

(* Mutation: the lot counts the models, not what they require. *)
CreateProjectUntotalled(w, product, required, size) ==
    /\ job[w] = Idle
    /\ project.status = "NONE"
    /\ OfProduct(DOMAIN required, product)
    /\ project' = [status |-> "DRAFT", version |-> 1, product |-> product]
    /\ plan' = FreshPlan(1, required)
    /\ routes' = <<CatalogSteps(Snapshot(DOMAIN required))>>
    /\ lot' = [route |-> 1, target |-> Cardinality(DOMAIN required),
               packSize |-> size, codes |-> {}]
    /\ UNCHANGED <<packs, job>>

(* POST /projects: requirements, part snapshots, the first route version   *)
(* and the lot in one transaction.                                         *)
CreateProject(w, product, required, size) ==
    /\ job[w] = Idle
    /\ project.status = "NONE"
    /\ OfProduct(DOMAIN required, product)
    /\ project' = [status |-> "DRAFT", version |-> 1, product |-> product]
    /\ plan' = FreshPlan(1, required)
    /\ routes' = <<CatalogSteps(Snapshot(DOMAIN required))>>
    /\ lot' = [route |-> 1, target |-> Total(required), packSize |-> size,
               codes |-> {}]
    /\ UNCHANGED <<packs, job>>

(* PATCH /projects/:id, fields: the product is not compared with the       *)
(* models required so far.                                                 *)
EditLoad(w) == LoadDraft(w, [pc |-> "edit"])

EditCommit(w) ==
    /\ Finish(w, "edit")
    /\ \E product \in Products \cup {NoProduct}, size \in PackSizes :
         /\ project' = [project EXCEPT !.version = @ + 1, !.product = product]
         /\ lot' = [lot EXCEPT !.packSize = size]
    /\ UNCHANGED <<plan, routes, packs>>
-----------------------------------------------------------------------------
(* PUT /projects/:id/model-requirements. *)
ReplaceLoad(w, required) ==
    /\ OfProduct(DOMAIN required, project.product)
    /\ LoadDraft(w, [pc |-> "replace", required |-> required])

ReplaceRead(w) ==
    /\ Alive
    /\ Continue(w, "replace",
         [pc |-> "replacing", required |-> job[w].required,
          rows |-> plan.rows, prior |-> plan.required])
    /\ UNCHANGED tables

(* The models whose requirement row is written.                            *)
Changed(w) ==
    {m \in DOMAIN job[w].prior : job[w].required[m] # job[w].prior[m]}

(* Mutation: the client keeps its old ETag. *)
ReplaceQuantitiesSilently(w) ==
    /\ Finish(w, "replacing")
    /\ DOMAIN job[w].required = DOMAIN job[w].prior
    /\ Changed(w) # {} => SameRows(w)
    /\ plan' = [plan EXCEPT !.required =
         [m \in DOMAIN @ |->
            IF m \in Changed(w) THEN job[w].required[m] ELSE @[m]]]
    /\ lot' = [lot EXCEPT !.target = Total(job[w].required)]
    /\ UNCHANGED <<project, routes, packs>>

(* The same models: quantities only, row by row.                           *)
ReplaceQuantities(w) ==
    /\ Finish(w, "replacing")
    /\ DOMAIN job[w].required = DOMAIN job[w].prior
    /\ Changed(w) # {} => SameRows(w)
    /\ plan' = [plan EXCEPT !.required =
         [m \in DOMAIN @ |->
            IF m \in Changed(w) THEN job[w].required[m] ELSE @[m]]]
    /\ lot' = [lot EXCEPT !.target = Total(job[w].required)]
    /\ Bump
    /\ UNCHANGED <<routes, packs>>

(* Other models: everything is deleted and made anew from the catalog.     *)
ReplaceAll(w) ==
    /\ Finish(w, "replacing")
    /\ DOMAIN job[w].required # DOMAIN job[w].prior
    /\ \A p \in Parts : ~Packed(p)
    /\ plan' = FreshPlan(project.version + 1, job[w].required)
    /\ routes' = <<CatalogSteps(Snapshot(DOMAIN job[w].required))>>
    /\ lot' = [lot EXCEPT !.route = 1, !.target = Total(job[w].required)]
    /\ Bump
    /\ UNCHANGED packs
-----------------------------------------------------------------------------
(* POST /projects/:id/parts-list-versions: steps for parts of the project. *)
RouteLoad(w) == LoadDraft(w, [pc |-> "route", rows |-> plan.rows])

(* Mutation: the lot goes on citing the version before. *)
RouteCommitUncited(w) ==
    /\ Finish(w, "route")
    /\ \E steps \in [Parts -> SUBSET Stations] :
         /\ \A p \in Parts : steps[p] # {} => p \in plan.parts /\ SameRows(w)
         /\ routes' = Append(routes, steps)
    /\ Bump
    /\ UNCHANGED <<plan, lot, packs>>

RouteCommit(w) ==
    /\ Finish(w, "route")
    /\ \E steps \in [Parts -> SUBSET Stations] :
         /\ \A p \in Parts : steps[p] # {} => p \in plan.parts /\ SameRows(w)
         /\ routes' = Append(routes, steps)
    /\ lot' = [lot EXCEPT !.route = Len(routes) + 1]
    /\ Bump
    /\ UNCHANGED <<plan, packs>>

(* PATCH /projects/:id/parts/:partId: has a row version of its own.        *)
OverrideLoad(w, p) ==
    /\ LoadDraft(w, [pc |-> "override", rows |-> plan.rows, part |-> p])
    /\ p \in plan.parts

OverrideCommit(w) ==
    /\ Finish(w, "override")
    /\ SameRows(w) /\ job[w].part \in plan.parts
    /\ \E timed \in SUBSET Stations :
         plan' = [plan EXCEPT !.override[job[w].part] = timed]
    /\ UNCHANGED <<project, routes, lot, packs>>

(* DELETE /projects/:id/parts/:partId, with its steps in every version.    *)
RemovePartLoad(w, p) ==
    /\ LoadDraft(w, [pc |-> "remove", rows |-> plan.rows, part |-> p])
    /\ p \in plan.parts /\ ~Packed(p)

(* Mutation: the database does not refuse the part of a pack. *)
RemovePartUnguarded(w) ==
    /\ Finish(w, "remove")
    /\ SameRows(w) /\ job[w].part \in plan.parts
    /\ plan' = [plan EXCEPT !.parts = @ \ {job[w].part}]
    /\ routes' = [v \in DOMAIN routes |->
                    [routes[v] EXCEPT ![job[w].part] = {}]]
    /\ Bump
    /\ UNCHANGED <<lot, packs>>

RemovePartCommit(w) ==
    /\ Finish(w, "remove")
    /\ SameRows(w) /\ job[w].part \in plan.parts
    /\ ~Packed(job[w].part)
    /\ plan' = [plan EXCEPT !.parts = @ \ {job[w].part}]
    /\ routes' = [v \in DOMAIN routes |->
                    [routes[v] EXCEPT ![job[w].part] = {}]]
    /\ Bump
    /\ UNCHANGED <<lot, packs>>
-----------------------------------------------------------------------------
Timed(p) == plan.override[p] \cup CatalogTimed[p]

(* Mutation: only the catalog route is looked at. *)
EveryStepTimedOnce == \A p \in plan.parts : routes[1][p] \subseteq Timed(p)

(* Every step of the route the lot cites has a designed cycle time.        *)
EveryStepTimed == \A p \in plan.parts : routes[lot.route][p] \subseteq Timed(p)

(* PATCH /projects/:id to RELEASED.                                        *)
ReleaseLoad(w) == LoadDraft(w, [pc |-> "release"])

ReleaseCheck(w) ==
    /\ Alive
    /\ DOMAIN plan.required # {}
    /\ plan.parts # {}
    /\ EveryStepTimed
    /\ Continue(w, "release",
         [pc |-> "releasing", rows |-> plan.rows, parts |-> plan.parts,
          required |-> plan.required, packSize |-> lot.packSize,
          count |-> PackCount])
    /\ UNCHANGED tables

Ceiling(a, b) == (a + b - 1) \div b

(* Mutation: the remainder is minted as a whole tray. *)
TraysWhole(required, size, planned) ==
    LET left == Max({0, required - SumFunction(planned)})
        series == Max({1, Ceiling(required, size)})
        count == Max({0, Min({Ceiling(left, size), series - Len(planned)})})
    IN [tray \in 1..count |-> size]

(* The packs minted for a part that needs "required" and has "planned":    *)
(* trays of one size and a remainder, while the series has a number left.  *)
Trays(required, size, planned) ==
    LET left == Max({0, required - SumFunction(planned)})
        series == Max({1, Ceiling(required, size)})
        count == Max({0, Min({Ceiling(left, size), series - Len(planned)})})
    IN [tray \in 1..count |-> Min({size, left - (tray - 1) * size})]

(* Packs are counted and summed up again, quantities are not read again.   *)
ReleaseMint(w) ==
    /\ Alive
    /\ Continue(w, "releasing",
         [pc |-> "minting", rows |-> job[w].rows, count |-> job[w].count,
          trays |-> [p \in Parts |->
            IF p \in job[w].parts
            THEN Trays(job[w].required[ModelOf[p]], job[w].packSize,
                       IF SameRows(w) THEN packs[p] ELSE <<>>)
            ELSE <<>>]])
    /\ UNCHANGED tables

Codes(w) ==
    LET trays == SumFunction([p \in Parts |-> Len(job[w].trays[p])])
    IN (job[w].count + 1)..(job[w].count + trays)

ReleaseCommit(w) ==
    /\ Finish(w, "minting")
    /\ \A p \in Parts :
         job[w].trays[p] # <<>> => p \in plan.parts /\ SameRows(w)
    /\ Codes(w) \cap lot.codes = {}
    /\ packs' = [p \in Parts |-> packs[p] \o job[w].trays[p]]
    /\ lot' = [lot EXCEPT !.codes = @ \cup Codes(w)]
    /\ BumpTo("RELEASED")
    /\ UNCHANGED <<plan, routes>>

(* POST /batches: whatever the status of the project, and with a batch     *)
(* code of the client's own.                                               *)
PlanPack(w, p, quantity) ==
    /\ job[w] = Idle
    /\ Alive
    /\ p \in plan.parts
    /\ Len(packs[p]) < MaxPacks
    /\ packs' = [packs EXCEPT ![p] = Append(@, quantity)]
    /\ UNCHANGED <<project, plan, routes, lot, job>>

(* PATCH /projects/:id to COMPLETED, once the floor is done with its packs *)
(* (BatchFloor).                                                           *)
CompleteLoad(w) ==
    /\ project.status = "RELEASED"
    /\ Begin(w, [pc |-> "complete"])
    /\ UNCHANGED tables

CompleteCommit(w) ==
    /\ Finish(w, "complete")
    /\ PackCount > 0
    /\ BumpTo("COMPLETED")
    /\ UNCHANGED <<plan, routes, lot, packs>>

(* DELETE /projects/:id: the rows of a draft, and no pack.                 *)
DeleteLoad(w) == LoadDraft(w, [pc |-> "delete"])

DeleteRows == plan' = Nothing /\ routes' = <<>> /\ lot' = Nothing

(* Mutation: packs do not keep the lot. *)
DeleteUnguarded(w) ==
    /\ Finish(w, "delete")
    /\ project' = [project EXCEPT !.status = "DELETED"]
    /\ DeleteRows
    /\ UNCHANGED packs

DeleteCommit(w) ==
    /\ Finish(w, "delete")
    /\ \A p \in Parts : ~Packed(p)
    /\ project' = [project EXCEPT !.status = "DELETED"]
    /\ DeleteRows
    /\ UNCHANGED packs

(* A guard refused, the transaction timed out, or the process died. *)
Abort(w) ==
    /\ job[w] # Idle
    /\ job' = [job EXCEPT ![w] = Idle]
    /\ UNCHANGED tables
-----------------------------------------------------------------------------
Draft(w) ==
    \/ \E product \in Products \cup {NoProduct}, required \in Requirements,
          size \in PackSizes : CreateProject(w, product, required, size)
    \/ EditLoad(w) \/ EditCommit(w)
    \/ \E required \in Requirements : ReplaceLoad(w, required)
    \/ ReplaceRead(w) \/ ReplaceQuantities(w) \/ ReplaceAll(w)
    \/ RouteLoad(w) \/ RouteCommit(w)
    \/ \E p \in Parts : OverrideLoad(w, p) \/ RemovePartLoad(w, p)
    \/ OverrideCommit(w) \/ RemovePartCommit(w)

Run(w) ==
    \/ ReleaseLoad(w) \/ ReleaseCheck(w) \/ ReleaseMint(w)
    \/ ReleaseCommit(w)
    \/ \E p \in Parts, quantity \in Quantities : PlanPack(w, p, quantity)
    \/ CompleteLoad(w) \/ CompleteCommit(w)
    \/ DeleteLoad(w) \/ DeleteCommit(w)

(* A step of w while another transaction is under way. *)
Overlaps(w) == \E v \in Workers \ {w} : job[v] # Idle

Next ==
    \E w \in Workers :
      /\ Draft(w) \/ Run(w) \/ Abort(w)
      /\ lapped' = (lapped \/ Overlaps(w))

Spec == Init /\ [][Next]_vars
-----------------------------------------------------------------------------
(* Properties that hold however many transactions interleave.              *)

(* A released project has packs for every part of its plan and for no      *)
(* other: no removal or replacement that was allowed on the draft takes    *)
(* parts from under the packs of the release (:1099, :935), and no release *)
(* leaves a part without work.                                             *)
ReleasedHasPacks ==
    project.status \in {"RELEASED", "COMPLETED"} =>
      plan.parts # {} /\ plan.parts = {p \in Parts : Packed(p)}

(* A pack never loses its project: DELETE counts the packs (:1130) before  *)
(* other transactions may still plan or mint some.                         *)
PacksHaveProject == (\E p \in Parts : Packed(p)) => Alive

(* An ETag names one state of the plan: requirements, parts, route, lot    *)
(* and status never change without the row version, although five handlers *)
(* write five tables.  Cycle-time overrides have a version of their own.   *)
VersionNamesStep ==
    \/ project'.version > project.version
    \/ project'.status = "DELETED"
    \/ /\ project' = project /\ routes' = routes /\ lot' = lot
       /\ project.status # "NONE" =>
            plan'.required = plan.required /\ plan'.parts = plan.parts
-----------------------------------------------------------------------------
(* Properties of transactions that have not overlapped so far.             *)

(* "without re-pointing, route edits would persist a new version no reader *)
(* ever renders" (:1035): the lot always cites the newest route version.   *)
LotCitesNewestRoute == Alive => lot.route = Len(routes)

(* The target of the lot is what its requirements add up to, whichever of  *)
(* the creation and the two ways to replace requirements wrote it.         *)
TargetIsTotal == Alive => lot.target = Total(plan.required)

(* The cycle-time gate (:659): what is on the floor has a time for every   *)
(* step of its newest route, whichever of the versions of a draft and of   *)
(* its overrides came last, and keeps it.                                  *)
ReleasedIsTimed ==
    project.status \in {"RELEASED", "COMPLETED"} =>
      \A p \in plan.parts : routes[Len(routes)][p] \subseteq Timed(p)

(* All of that together, whichever of the five commands that write the     *)
(* plan, its routes and its lot came last.                                 *)
LotAgrees ==
    ~lapped => LotCitesNewestRoute /\ TargetIsTotal /\ ReleasedIsTimed

(* The release of a project (:683) covers each requirement, unless packs   *)
(* planned by hand below the tray size used its series numbers up; a part  *)
(* without packs gets exactly what is required, in the fewest trays.       *)
ReleaseMintsEnough ==
    project.status = "DRAFT" /\ project'.status = "RELEASED" =>
      \A p \in plan.parts :
        LET required == plan.required[ModelOf[p]]
        IN /\ (\A k \in DOMAIN packs[p] : packs[p][k] >= lot.packSize)
                => SumFunction(packs'[p]) >= required
           /\ ~Packed(p) =>
                /\ SumFunction(packs'[p]) = required
                /\ Len(packs'[p]) = Ceiling(required, lot.packSize)

(* PATCH /projects/:id to RELEASED, before an overlap.                     *)
ReleaseCovers == [][~lapped' => ReleaseMintsEnough]_vars

(* What was planned, for the life of a project (ProjectLife).              *)
Planned ==
    IF Alive
    THEN <<project.product, plan, routes, lot.route, lot.target, lot.packSize>>
    ELSE Nothing

Life == INSTANCE ProjectLife WITH status <- project.status, plan <- Planned

(* A project lives the life ProjectLife tells: no handler changes the plan *)
(* once it is released ("Released or completed projects cannot be          *)
(* edited."), and its status only moves on.  No edit of a draft, lapped or *)
(* not, keeps the ETag of what it replaced.                                *)
KeepsPlan ==
    /\ Life!Init
    /\ [][/\ ~lapped' => [Life!Next]_<<project.status, Planned>>
          /\ VersionNamesStep]_vars
=============================================================================
