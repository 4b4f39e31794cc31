------------------------------- MODULE Seeding -------------------------------
(***************************************************************************)
(* scripts/pats-seed.mjs: one transaction that writes the rows of a demo   *)
(* plant into a database that may be in use.  An additive run upserts them *)
(* table by table; a fresh run first empties tables in a fixed order.  The *)
(* run ends with a check of its own, and whatever is refused on the way    *)
(* (a foreign key, a code that is taken, a value that is no member of its  *)
(* enum) rolls everything back.                                            *)
(*                                                                         *)
(* All the rows of the seed in one table are one: they are there or not,   *)
(* and their ids are the seed's or, where a row of the API bears the       *)
(* seed's code, not.  Rows of the API's own are kinds that matter here.    *)
(***************************************************************************)
EXTENDS Integers, Sequences

CONSTANTS
    Uses,         \* the kinds of rows the API makes in an instance
    Takes,        \* the tables in which it takes a code of the seed
    Pasts,        \* the kinds of rows a database may start with
    MaxUses       \* how often the API acts in an instance

-----------------------------------------------------------------------------
(* Tables: who refers to whom.  A referring row cannot do without the row  *)
(* it refers to, and forbids its deletion.                                 *)
CatalogRefs == {<<"model", "product">>, <<"modelPart", "model">>}
RouteRefs ==
    {<<"stage", "workflowGroup">>,
     <<"subStageEligibility", "stage">>, <<"subStageEligibility", "subStage">>,
     <<"stationStep", "section">>, <<"stationStep", "stage">>}
PlanRefs ==
    {<<"projectModelRequirement", "project">>, <<"projectModelRequirement", "model">>,
     <<"productSpecification", "project">>, <<"partsList", "project">>,
     <<"part", "project">>, <<"lot", "project">>, <<"processChangeLog", "project">>,
     <<"routingStep", "partsList">>, <<"routingStep", "part">>}
PackRefs ==
    {<<"batch", "lot">>, <<"batch", "part">>, <<"batchPositionProjection", "batch">>,
     <<"lotPartAllocation", "lot">>, <<"lotPartAllocation", "part">>,
     <<"inventoryTransaction", "part">>, <<"routingViolation", "stageEvent">>}
QualityRefs ==
    {<<"qualityInspection", "batch">>, <<"qualityDecision", "qualityInspection">>,
     <<"defectAnalysis", "qualityInspection">>, <<"defectAnalysis", "batch">>,
     <<"qualityStageAssignment", "subject">>, <<"qualityStageAssignment", "stage">>}
FloorRefs ==
    {<<"machine", "productionLine">>, <<"printJob", "section">>,
     <<"line", "section">>, <<"line", "workProcess">>, <<"line", "subject">>,
     <<"lineOperatorAssignment", "line">>, <<"lineOperatorAssignment", "subject">>}
IdentityRefs ==
    {<<"subjectCredential", "subject">>, <<"subjectAssignment", "subject">>,
     <<"idempotencyRecord", "subject">>}
Refs ==
    UNION {CatalogRefs, RouteRefs, PlanRefs, PackRefs, QualityRefs, FloorRefs, IdentityRefs}

(* References the schema leaves open and rows of the seed have: they are   *)
(* set to null when the row goes.                                          *)
OpenRefs ==
    {<<"section", "productionLine">>, <<"workProcess", "subStage">>,
     <<"booth", "section">>, <<"booth", "workProcess">>, <<"stationStep", "subStage">>,
     <<"project", "product">>, <<"project", "subject">>,
     <<"part", "model">>, <<"part", "projectModelRequirement">>,
     <<"batch", "line">>, <<"batch", "projectModelRequirement">>, <<"batch", "subject">>,
     <<"stageEvent", "subject">>, <<"inventoryTransaction", "subject">>,
     <<"qualityInspection", "subject">>, <<"qualityDecision", "subject">>,
     <<"defectAnalysis", "subject">>, <<"auditRecord", "subject">>,
     <<"monitoringDailySheet", "workProcess">>,
     <<"monitoringStationBoard", "booth">>, <<"monitoringStationBoard", "workProcess">>}

(* Tables whose rows the seed looks for by a code; elsewhere it is the id. *)
ByCode ==
    {"productionLine", "line", "modelPart", "subjectCredential", "subjectAssignment",
     "subStageEligibility", "qualityStageAssignment", "productSpecification",
     "projectModelRequirement", "batchPositionProjection", "routingViolation",
     "defectAnalysis", "userPreference"}
-----------------------------------------------------------------------------
(* The steps of the script: the order in which a fresh run empties tables. *)
(* Mutation: a table of rows nothing refers to is forgotten.               *)
WipeRecordsOnly ==
    <<"outboxMessage", "auditRecord", "idempotencyRecord", "catalogIdempotencyRecord">>
WipeRecords ==
    <<"outboxMessage", "auditRecord", "idempotencyRecord", "catalogIdempotencyRecord",
      "asset">>
WipeEvidence ==
    <<"defectAnalysis", "qualityDecision", "qualityInspection", "workInstruction",
      "processChangeLog", "subjectAssignment", "subjectCredential", "userPreference",
      "monitoringStationBoard", "monitoringDailySheet", "routingViolation",
      "stageEvent", "printJob", "inventoryTransaction">>
WipePacks ==
    <<"batchPositionProjection", "lotPartAllocation", "batch", "routingStep",
      "partsList">>
WipeFloor ==
    <<"qualityStageAssignment", "stationStep", "subStageEligibility", "booth",
      "lineOperatorAssignment", "line", "workProcess", "stage", "subStage", "section",
      "productionLine">>
WipePlan ==
    <<"modelPart", "lot", "part", "projectModelRequirement", "productSpecification",
      "project", "model", "product", "workflowGroup", "subject">>
WipeOrder == WipeRecords \o WipeEvidence \o WipePacks \o WipeFloor \o WipePlan

(* The order in which every run writes them, part by part.                 *)
UpsertSubject == <<"subject", "subjectCredential", "subjectAssignment", "userPreference">>
SubjectFixtures == UpsertSubject \o <<"subject">>
AnchorCatalog == <<"product", "model", "modelPart">>
AnchorCapsules == <<"modelPart">>
DemoPacks == <<"product", "model", "modelPart">>
Stages == <<"workflowGroup", "stage", "qualityStageAssignment">>
SubStages == <<"subStage", "subStageEligibility">>
Sections == <<"productionLine", "section", "stationStep">>
Processes == <<"workProcess">>
(* Mutation: operators are put on lines that are not there yet.            *)
StationsManned == <<"lineOperatorAssignment", "line">>
Stations == <<"line", "lineOperatorAssignment">>
Booths == <<"booth", "workInstruction">>
AnchorProject == <<"project", "productSpecification", "projectModelRequirement">>
AnchorParts == <<"part">>
AnchorRoute == <<"partsList", "routingStep">>
DemoProjects == <<"project", "productSpecification", "projectModelRequirement">>
DemoPlans == <<"part", "partsList", "lot">>
AnchorLot == <<"lot">>
AnchorPacks == <<"batch">>
SeriesPacks == <<"batch", "batchPositionProjection">>
SeriesEvidence == <<"printJob", "qualityInspection", "qualityDecision">>
AnchorSeries == SeriesPacks \o SeriesEvidence
StoryProjects == <<"project", "productSpecification", "projectModelRequirement">>
StoryParts == <<"part">>
StoryRoutes == <<"partsList", "routingStep", "lot">>
StoryPacks == <<"batch", "batchPositionProjection">>
StorySeries == SeriesPacks \o SeriesEvidence
FirstPrints == <<"printJob">>
Events == <<"stageEvent", "routingViolation">>
Inventory == <<"inventoryTransaction">>
Positions == <<"batchPositionProjection">>
OpenInspections == <<"qualityInspection">>
PastInspections == <<"qualityInspection", "qualityDecision", "defectAnalysis">>
StoryInspections == <<"qualityInspection", "qualityDecision">>
Records == <<"auditRecord", "outboxMessage">>
DailySheets == <<"monitoringDailySheet">>
StationBoards == <<"monitoringStationBoard">>

CatalogPart == SubjectFixtures \o AnchorCatalog \o AnchorCapsules \o DemoPacks \o Stages
FloorPart == SubStages \o Sections \o Processes \o Stations \o Booths
PlanPart ==
    AnchorProject \o AnchorParts \o AnchorRoute \o DemoProjects \o DemoPlans
    \o AnchorLot \o AnchorPacks \o AnchorSeries
    \o StoryProjects \o StoryParts \o StoryRoutes \o StoryPacks \o StorySeries
EvidencePart ==
    FirstPrints \o Events \o Inventory \o Positions \o OpenInspections
    \o PastInspections \o StoryInspections \o Records \o DailySheets \o StationBoards

Step(op, table) == [op |-> op, table |-> table]
Each(op, order) == [i \in 1..Len(order) |-> Step(op, order[i])]

(* Mutation: a fresh run that is not asked for.                            *)
ProgramFresh(mode) ==
    Each("wipe", WipeOrder) \o Each("upsert", CatalogPart)
    \o <<Step("retire", "subject")>>
    \o Each("upsert", FloorPart \o PlanPart \o EvidencePart)
    \o <<Step("verify", "batch")>>
(* What a run does: between the stages and the sub-stages it retires a     *)
(* subject of earlier seeds, and at the end it checks its work.            *)
Program(mode) ==
    (IF mode = "fresh" THEN Each("wipe", WipeOrder) ELSE <<>>)
    \o Each("upsert", CatalogPart) \o <<Step("retire", "subject")>>
    \o Each("upsert", FloorPart \o PlanPart \o EvidencePart)
    \o <<Step("verify", "batch")>>

Tables == (UNION {{r[1], r[2]} : r \in Refs \cup OpenRefs})
          \cup {WipeOrder[i] : i \in 1..Len(WipeOrder)}
-----------------------------------------------------------------------------
(* Rows of the API's own, by what they may do to the seed, and the tables  *)
(* they are in: a model part without cycle times, a pack in the lot of the *)
(* anchor project, an account of an earlier seed, and others.              *)
TableOf ==
    [machine |-> "machine", untimedPart |-> "modelPart", anchorPack |-> "batch",
     retiredSubject |-> "subject", asset |-> "asset", change |-> "processChangeLog",
     print |-> "printJob", grant |-> "subjectAssignment", release |-> "project"]
(* Two of them are what the API does to a row of the seed, and stand for   *)
(* the rest of the kind: a role granted to a seeded account, and a demo    *)
(* project released.  A run takes the role away and makes the project a    *)
(* draft again, when it writes their tables.                               *)
Changes == [grant |-> "subject", release |-> "project"]
(* Mutation: accounts keep the roles they have.                            *)
ResetsDrafts(t) == {k \in {"release"} : TableOf[k] = t}
Resets(t) == {k \in DOMAIN Changes : TableOf[k] = t}

VARIABLES
    slot,     \* slot[t]: "none", "seeded", or "taken": a row of the API has the code
    made,     \* the kinds of other rows the API has made
    uses,     \* how often the API has acted
    job       \* the run of the script, and what its transaction sees

vars == <<slot, made, uses, job>>

Modes == {"additive", "fresh"}
NoRun == [mode |-> "none"]
Running == job # NoRun
Ended == Running /\ job.next > Len(Program(job.mode))
Current == Program(job.mode)[job.next]

Done(run, step) == \E i \in 1..run.next - 1 : Program(run.mode)[i] = step

Contents == [Tables -> {"none", "seeded", "taken"}]
TypeOK ==
    /\ slot \in Contents
    /\ made \in SUBSET DOMAIN TableOf
    /\ uses \in 0..MaxUses
    /\ job \in {NoRun} \cup [mode: Modes, next: Nat, late: BOOLEAN,
                             slot: Contents, made: SUBSET DOMAIN TableOf]

HasRows(contents, rows, t) == contents[t] # "none" \/ \E k \in rows : TableOf[k] = t

Init ==
    /\ slot = [t \in Tables |-> "none"]
    /\ made \in SUBSET Pasts
    /\ uses = 0
    /\ job = NoRun
-----------------------------------------------------------------------------
(* The API inserts, in a transaction of its own.  Where the script has     *)
(* emptied what the row needs, the insert waits for its end; and so does   *)
(* the update of a project that the script has written.                    *)
Api ==
    /\ uses < MaxUses
    /\ uses' = uses + 1
Make(kind) ==
    LET Needed == {r[2] : r \in {q \in Refs : q[1] = TableOf[kind]}}
                  \cup IF kind = "anchorPack" THEN {"lot"} ELSE {}
    IN
    /\ Api
    /\ kind \notin made
    /\ \A t \in Needed : HasRows(slot, made, t)
    /\ Running => \A t \in Needed : HasRows(job.slot, job.made, t)
    /\ kind \in DOMAIN Changes =>
          /\ slot[Changes[kind]] = "seeded"
          /\ Running => job.slot[Changes[kind]] = "seeded"
    /\ kind = "release" /\ Running => ~Done(job, Step("upsert", "project"))
    /\ made' = made \cup {kind}
    /\ job' = IF Running THEN [job EXCEPT !.made = @ \cup {kind}, !.late = TRUE] ELSE job
    /\ UNCHANGED slot
Take(t) ==
    /\ Api
    /\ slot[t] = "none"
    /\ Running => job.slot[t] = "none"
    /\ slot' = [slot EXCEPT ![t] = "taken"]
    /\ job' = IF Running THEN [job EXCEPT !.slot[t] = "taken", !.late = TRUE] ELSE job
    /\ UNCHANGED made
(* DELETE /lines/:lineId/permanent of a line of the seed, between runs     *)
DropLine ==
    /\ Api
    /\ ~Running
    /\ slot["line"] = "seeded"
    /\ slot' = [slot EXCEPT !["line"] = "none", !["lineOperatorAssignment"] = "none"]
    /\ UNCHANGED <<made, job>>
-----------------------------------------------------------------------------
(* The script.                                                             *)
Start(mode) ==
    /\ ~Running
    /\ job' = [mode |-> mode, next |-> 1, late |-> FALSE, slot |-> slot, made |-> made]
    /\ UNCHANGED <<slot, made, uses>>

Wipeable(t) == \A r \in Refs : r[2] = t => ~HasRows(job.slot, job.made, r[1])
Upsertable(t) ==
    /\ job.slot[t] = "taken" => t \in ByCode
    /\ \A r \in Refs \cup OpenRefs : r[1] = t => job.slot[r[2]] = "seeded"
(* An account of an earlier seed cannot be given the status it is to get.  *)
Retirable == "retiredSubject" \notin job.made
(* Every part has cycle times and the anchor lot exactly its packs.        *)
Verified == job.made \cap {"untimedPart", "anchorPack"} = {}
Allowed ==
    CASE Current.op = "wipe" -> Wipeable(Current.table)
      [] Current.op = "upsert" -> Upsertable(Current.table)
      [] Current.op = "retire" -> Retirable
      [] Current.op = "verify" -> Verified

(* The transaction goes a step further, on its own view of the database.   *)
Proceed ==
    LET t == Current.table
        Onward == [job EXCEPT !.next = @ + 1]
    IN
    /\ Running /\ ~Ended
    /\ Allowed
    /\ job' = CASE Current.op = "wipe" ->
                     [Onward EXCEPT !.slot[t] = "none",
                                   !.made = {k \in @ : TableOf[k] # t}]
                [] Current.op = "upsert" ->
                     [Onward EXCEPT !.slot[t] = IF @ = "taken" THEN "taken" ELSE "seeded",
                                   !.made = @ \ Resets(t)]
                [] OTHER -> Onward
    /\ UNCHANGED <<slot, made, uses>>
Commit ==
    /\ Running /\ Ended
    /\ slot' = job.slot
    /\ made' = job.made
    /\ job' = NoRun
    /\ UNCHANGED uses
(* Refused by the database or by the script itself: nothing stays.         *)
Refuse ==
    /\ Running /\ ~Ended
    /\ ~Allowed
    /\ job' = NoRun
    /\ UNCHANGED <<slot, made, uses>>
(* The process stops, or the transaction times out.                        *)
Stop ==
    /\ Running
    /\ job' = NoRun
    /\ UNCHANGED <<slot, made, uses>>

Next ==
    \/ \E kind \in Uses : Make(kind)
    \/ \E t \in Takes : Take(t)
    \/ DropLine
    \/ \E mode \in Modes : Start(mode)
    \/ Proceed \/ Commit \/ Refuse \/ Stop
Spec == Init /\ [][Next]_vars
-----------------------------------------------------------------------------
(* What may stop a run, and nothing else: a fresh one a machine, whose     *)
(* line cannot go, or a row made meanwhile; an additive one a code that is *)
(* taken, an account of an earlier seed, or a row its check objects to.    *)
Cause ==
    IF job.mode = "fresh" THEN job.late \/ "machine" \in job.made
    ELSE \/ \E t \in Tables : job.slot[t] = "taken"
         \/ job.made \cap {"retiredSubject", "untimedPart", "anchorPack"} # {}

(* The order of the steps serves every reference: no step of a run is      *)
(* refused unless for one of these causes.                                 *)
NeverStuck == Running /\ ~Ended => Allowed \/ Cause

(* After a fresh run that nobody disturbed nothing of the API's is left    *)
(* but, where no line had to go, what has nothing to do with the seed.     *)
FreshIsFresh ==
    [][Running /\ job.mode = "fresh" /\ ~job.late /\ job' = NoRun
          => \/ slot' = slot /\ made' = made
             \/ made' = {} /\ \A t \in Tables : slot'[t] # "taken"]_vars

(* The tables of which the seed has no rows.                               *)
Unseeded ==
    {"machine", "idempotencyRecord", "catalogIdempotencyRecord", "asset",
     "processChangeLog", "lotPartAllocation"}

(* A run of either kind that is not undone leaves the plant of the seed:   *)
(* every other table has its rows again, whatever the API dropped, demo    *)
(* projects are drafts, though the API released one before the run got to  *)
(* them, and accounts have no role the API granted before the run.         *)
RunsRestoreSeed ==
    [][Running /\ job' = NoRun
          => \/ slot' = slot /\ made' = made
             \/ /\ \A t \in Tables \ Unseeded : slot'[t] # "none"
                /\ "release" \notin made'
                /\ "grant" \in made' => job.late]_vars

=============================================================================
