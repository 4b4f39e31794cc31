----------------------------- MODULE BatchFloor -----------------------------
(***************************************************************************)
(* The shop floor of one project (app/pats/command-router.ts): packs       *)
(* ("batches") are planned, released, scanned along the route of their     *)
(* part, inspected, quarantined, analysed and closed.                      *)
(*                                                                         *)
(* Every command runs in one READ COMMITTED transaction: it reads rows,    *)
(* checks them, and then writes by primary key without checking again.     *)
(* An action here is one read or the whole block of writes of one          *)
(* transaction; what a transaction has read stays in its worker's job and  *)
(* may be stale when it writes; what only its write uses (the verdict of   *)
(* an inspector, the station of a scan) is chosen there.  A refusal, a     *)
(* transaction timeout and a crash all roll back: Abort.                   *)
(***************************************************************************)
EXTENDS Integers, Sequences

CONSTANTS
    Commands,        \* the kinds of commands clients send
    Workers,         \* transactions the server may be running at one time
    Batches,         \* packs
    Stations,        \* (stage, sub-stage) pairs, records with a field "stage"
    Origin,          \* STG-PROJECTS, where a minted pack waits for its release
    Route,           \* the ordered route steps of the packs' part
    MaxHops,         \* clients scan a pack with this many accepted hops no more
    MaxInspections,  \* and open no more inspections than this,
    MaxDecisions,    \* give an inspection no more verdicts than this,
    MaxViolations    \* and scan no more out of sequence than this

ASSUME RouteAssumption ==
    /\ Route \in Seq(Stations)
    /\ Route # <<>>
    /\ \A k \in 1..Len(Route) : Route[k].stage # Origin.stage
    /\ Origin \in Stations

CommandKinds ==
    {"PLAN", "COMPLETE", "SCAN", "VIOLATION", "INSPECT", "RESOLVE", "DECIDE",
     "ANALYSE", "CLOSE"}

ASSUME BoundsAssumption ==
    /\ Commands \subseteq CommandKinds
    /\ {MaxHops, MaxInspections, MaxDecisions, MaxViolations} \subseteq Nat

VARIABLES
    project,      \* the status of the project all packs belong to
    batch,        \* the Batch table joined with its position projection
    trail,        \* trail[b]: the accepted stage events of b, oldest first
    violations,   \* the RoutingViolation table, oldest first
    inspections,  \* the QualityInspection table with its decisions
    analyses,     \* the DefectAnalysis table, oldest first
    job,          \* job[w]: the transaction worker w is running
    lapped        \* two transactions have overlapped (history)

tables == <<project, batch, trail, violations, inspections, analyses>>
vars == <<project, batch, trail, violations, inspections, analyses, job, lapped>>

Verdicts == {"PASSED", "FAILED", "HOLD"}
Dispositions == {"REWORK", "SCRAP", "WAIVE"}
LastStep == Len(Route)

(* "pos" is the route step the projection points at, 0 while it has none. *)
Position == [station: Stations, pos: 0..LastStep]
BatchRow ==
    [status: {"ABSENT", "PLANNED", "ACTIVE", "HELD", "CLOSED", "SCRAPPED"},
     at: Position]
(* A hop away from Origin also posted the ISSUANCE of the pack. *)
Hop == [from: Stations, step: 1..LastStep]
Violation == [batch: Batches, attempted: Stations, resolved: BOOLEAN]
(* "hops" dates a verdict: the accepted hops its pack had made by then. *)
Decision == [verdict: Verdicts, hops: Nat]
Inspection == [batch: Batches, station: Stations,
               status: {"OPEN", "IN_PROGRESS", "COMPLETED"},
               decisions: Seq(Decision)]
Analysis == [inspection: Nat, disposition: Dispositions]

Idle == [pc |-> "idle"]
Job ==
    {Idle}
    \cup [pc: {"scan", "receive"}, batch: Batches, seen: Position]
    \cup [pc: {"resolve"}, violation: Nat]
    \cup [pc: {"open"}, batch: Batches, station: Stations]
    \cup [pc: {"decide", "analyse", "dispose"}, inspection: Nat]
    \cup [pc: {"close", "closing"}, batch: Batches]
    \cup [pc: {"release", "complete"}]
    \cup [pc: {"completing"}, packs: SUBSET Batches]

TypeOK ==
    /\ project \in {"DRAFT", "RELEASED", "COMPLETED"}
    /\ batch \in [Batches -> BatchRow]
    /\ trail \in [Batches -> Seq(Hop)]
    /\ violations \in Seq(Violation)
    /\ inspections \in Seq(Inspection)
    /\ analyses \in Seq(Analysis)
    /\ job \in [Workers -> Job]
    /\ lapped \in BOOLEAN
-----------------------------------------------------------------------------
Exists(b) == batch[b].status # "ABSENT"
Terminal(status) == status \in {"CLOSED", "SCRAPPED"}
Start(st) == [station |-> st, pos |-> 0]
PreRoute(at) == at.station.stage = Origin.stage
RouteComplete(at) == at.pos = LastStep

(* Where the next accepted scan puts the pack: the first route step beyond *)
(* the one it is at.                                                       *)
Expected(at) == [station |-> Route[at.pos + 1], pos |-> at.pos + 1]

(* The route step whose verdict lets a pack go on: the one the projection  *)
(* points at, or the first with the station of a pack that has none.  That *)
(* step is looked for by station, so only its station matters.             *)
GateStations(at) ==
    IF at.pos > 0 THEN {Route[at.pos]}
    ELSE {st \in {at.station} : \E k \in 1..LastStep : Route[k] = st}

LatestVerdict(i) ==
    LET ds == inspections[i].decisions
    IN IF ds = <<>> THEN "NONE" ELSE ds[Len(ds)].verdict

InspectionsAt(b, st) ==
    {i \in 1..Len(inspections) :
       inspections[i].batch = b /\ inspections[i].station = st}

(* findFirst, newest inspection first, its newest decision only. *)
PassesGate(b, st) ==
    \E i \in InspectionsAt(b, st) :
      /\ \A j \in InspectionsAt(b, st) : j <= i
      /\ LatestVerdict(i) = "PASSED"

Begin(w, command, tx) ==
    command \in Commands /\ job[w] = Idle /\ job' = [job EXCEPT ![w] = tx]
Continue(w, from, to) ==
    job[w].pc = from /\ job' = [job EXCEPT ![w].pc = to]
Finish(w, from) ==
    job[w].pc = from /\ job' = [job EXCEPT ![w] = Idle]

SetStatus(b, status) == batch' = [batch EXCEPT ![b].status = status]
-----------------------------------------------------------------------------
Init ==
    /\ project = "DRAFT"
    /\ batch = [b \in Batches |->
                  [status |-> "ABSENT", at |-> Start(Origin)]]
    /\ trail = [b \in Batches |-> <<>>]
    /\ violations = <<>>
    /\ inspections = <<>>
    /\ analyses = <<>>
    /\ job = [w \in Workers |-> Idle]
    /\ lapped = FALSE

(* POST /batches: a pack planned by hand, at any station, whatever the     *)
(* status of its project.                                                  *)
CreateBatch(w, b, st) ==
    /\ "PLAN" \in Commands
    /\ job[w] = Idle
    /\ ~Exists(b)
    /\ batch' = [batch EXCEPT ![b] =
                   [status |-> "PLANNED", at |-> Start(st)]]
    /\ UNCHANGED <<project, trail, violations, inspections, analyses, job>>

(* PATCH /projects/:id, DRAFT -> RELEASED. *)
ReleaseLoad(w) ==
    /\ project = "DRAFT"
    /\ Begin(w, "PLAN", [pc |-> "release"])
    /\ UNCHANGED tables

(* Mints the packs still missing and activates every planned one. *)
ReleaseCommit(w) ==
    /\ Finish(w, "release")
    /\ project' = "RELEASED"
    /\ \E minted \in SUBSET {b \in Batches : ~Exists(b)} :
         batch' = [b \in Batches |->
           IF b \in minted
           THEN [status |-> "ACTIVE", at |-> Start(Origin)]
           ELSE IF batch[b].status = "PLANNED"
                THEN [batch[b] EXCEPT !.status = "ACTIVE"]
                ELSE batch[b]]
    /\ UNCHANGED <<trail, violations, inspections, analyses>>
-----------------------------------------------------------------------------
(* Quarantined and terminal packs take no scans. *)
Scannable(status) == status \in {"PLANNED", "ACTIVE"}

(* POST /stage-events.  The context is read and its status checked. *)
ScanLoad(w, b) ==
    /\ Scannable(batch[b].status)
    /\ ~RouteComplete(batch[b].at)
    /\ Len(trail[b]) < MaxHops
    /\ Begin(w, "SCAN", [pc |-> "scan", batch |-> b, seen |-> batch[b].at])
    /\ UNCHANGED tables

(* A scan anywhere but at the expected step is recorded and moves nothing. *)
ScanBlocked(w) ==
    /\ Finish(w, "scan")
    /\ Len(violations) < MaxViolations
    /\ \E st \in Stations \ {Expected(job[w].seen).station} :
         violations' = Append(violations,
           [batch |-> job[w].batch, attempted |-> st, resolved |-> FALSE])
    /\ UNCHANGED <<project, batch, trail, inspections, analyses>>

(* Mutation: the pack takes the scanned station but keeps its old step. *)
AdvanceStation(b, seen) ==
    /\ trail' = [trail EXCEPT ![b] =
         Append(@, [from |-> seen.station, step |-> Expected(seen).pos])]
    /\ batch' = [batch EXCEPT ![b].at.station = Expected(seen).station]

(* The accepted event is recorded and the pack put where the context that  *)
(* was read says it goes.                                                  *)
Advance(b, seen) ==
    /\ trail' = [trail EXCEPT ![b] =
         Append(@, [from |-> seen.station, step |-> Expected(seen).pos])]
    /\ batch' = [batch EXCEPT ![b].at = Expected(seen)]

(* The first hop of a minted pack: its ISSUANCE, no verdict needed. *)
ScanRelease(w) ==
    /\ Finish(w, "scan")
    /\ PreRoute(job[w].seen)
    /\ Advance(job[w].batch, job[w].seen)
    /\ UNCHANGED <<project, violations, inspections, analyses>>

(* Mutation: every hop is let through. *)
ScanGateOpen(w) ==
    /\ Continue(w, "scan", "receive")
    /\ ~PreRoute(job[w].seen)
    /\ UNCHANGED tables

(* Mutation: an older inspection that passed will do. *)
ScanGateOldest(w) ==
    /\ Continue(w, "scan", "receive")
    /\ ~PreRoute(job[w].seen)
    /\ \E st \in GateStations(job[w].seen) :
         \E i \in InspectionsAt(job[w].batch, st) : LatestVerdict(i) = "PASSED"
    /\ UNCHANGED tables

(* Any other hop is gated by the verdict at the station it leaves. *)
ScanGate(w) ==
    /\ Continue(w, "scan", "receive")
    /\ ~PreRoute(job[w].seen)
    /\ \E st \in GateStations(job[w].seen) : PassesGate(job[w].batch, st)
    /\ UNCHANGED tables

ScanReceive(w) ==
    /\ Finish(w, "receive")
    /\ Advance(job[w].batch, job[w].seen)
    /\ UNCHANGED <<project, violations, inspections, analyses>>

(* POST /routing-violations/:id/resolve. *)
ResolveLoad(w, v) ==
    /\ ~violations[v].resolved
    /\ Begin(w, "VIOLATION", [pc |-> "resolve", violation |-> v])
    /\ UNCHANGED tables

ResolveCommit(w) ==
    /\ Finish(w, "resolve")
    /\ violations' = [violations EXCEPT ![job[w].violation] =
                        [violations[job[w].violation] EXCEPT !.resolved = TRUE]]
    /\ UNCHANGED <<project, batch, trail, inspections, analyses>>
-----------------------------------------------------------------------------
NewInspection(b, st) ==
    inspections' = Append(inspections,
      [batch |-> b, station |-> st, status |-> "OPEN", decisions |-> <<>>])

(* POST /quality-inspections: at the station the inspector names. *)
Inspect(w, b, st) ==
    /\ "INSPECT" \in Commands
    /\ job[w] = Idle
    /\ Exists(b)
    /\ Len(inspections) < MaxInspections
    /\ NewInspection(b, st)
    /\ UNCHANGED <<project, batch, trail, violations, analyses, job>>

(* GET /quality-inspections/resolve: the scan of a pack opens an           *)
(* inspection unless one is open, or one at the same stage was closed.     *)
LookUpPack(w, b) ==
    /\ Exists(b)
    /\ Len(inspections) < MaxInspections
    /\ \A i \in 1..Len(inspections) :
         inspections[i].batch = b =>
           /\ inspections[i].status = "COMPLETED"
           /\ inspections[i].station.stage # batch[b].at.station.stage
    /\ Begin(w, "RESOLVE", [pc |-> "open", batch |-> b,
                            station |-> batch[b].at.station])
    /\ UNCHANGED tables

OpenInspection(w) ==
    /\ Finish(w, "open")
    /\ NewInspection(job[w].batch, job[w].station)
    /\ UNCHANGED <<project, batch, trail, violations, analyses>>
-----------------------------------------------------------------------------
Undecided(i) == inspections[i].status # "COMPLETED"

(* POST /quality-inspections/:id/decisions.  If-Match names the version the *)
(* inspection has when it is read: one per verdict so far.                 *)
DecideLoad(w, i) ==
    /\ Undecided(i)
    /\ Len(inspections[i].decisions) < MaxDecisions
    /\ Begin(w, "DECIDE", [pc |-> "decide", inspection |-> i])
    /\ UNCHANGED tables

RecordVerdict(i, verdict) ==
    inspections' = [inspections EXCEPT ![i] = [inspections[i] EXCEPT
      !.status = IF verdict = "HOLD" THEN "IN_PROGRESS" ELSE "COMPLETED",
      !.decisions = Append(@,
        [verdict |-> verdict, hops |-> Len(trail[inspections[i].batch])])]]

Quarantines(verdict) == verdict # "PASSED"

(* A quarantine takes the pack from whatever state it is in. *)
DecideCommit(w) ==
    /\ Finish(w, "decide")
    /\ \E verdict \in Verdicts :
         /\ RecordVerdict(job[w].inspection, verdict)
         /\ IF Quarantines(verdict)
            THEN SetStatus(inspections[job[w].inspection].batch, "HELD")
            ELSE UNCHANGED batch
    /\ UNCHANGED <<project, trail, violations, analyses>>

(* POST /defect-analyses.  The inspection is read with its newest verdict; *)
(* then the analysis it may already have, and its pack.                    *)
AnalyseLoad(w, i) ==
    /\ LatestVerdict(i) \in {"FAILED", "HOLD"}
    /\ Begin(w, "ANALYSE", [pc |-> "analyse", inspection |-> i])
    /\ UNCHANGED tables

Analysed(i) == \E a \in 1..Len(analyses) : analyses[a].inspection = i

AnalyseCheck(w) ==
    /\ Continue(w, "analyse", "dispose")
    /\ ~Analysed(job[w].inspection)
    /\ ~Terminal(batch[inspections[job[w].inspection].batch].status)
    /\ UNCHANGED tables

(* Mutation: a pack sent to rework is scrapped. *)
StatusAfterScraps(disposition) ==
    IF disposition = "WAIVE" THEN "ACTIVE" ELSE "SCRAPPED"

StatusAfter(disposition) ==
    CASE disposition = "SCRAP" -> "SCRAPPED"
      [] disposition = "WAIVE" -> "ACTIVE"
      [] disposition = "REWORK" -> "HELD"

(* The unique index on inspectionId refuses a second analysis. *)
AnalyseCommit(w) ==
    /\ Finish(w, "dispose")
    /\ ~Analysed(job[w].inspection)
    /\ \E disposition \in Dispositions :
         /\ analyses' = Append(analyses, [inspection |-> job[w].inspection,
                                          disposition |-> disposition])
         /\ SetStatus(inspections[job[w].inspection].batch,
                      StatusAfter(disposition))
    /\ UNCHANGED <<project, trail, violations, inspections>>
-----------------------------------------------------------------------------
(* POST /batches/:id/closure: an active pack at the end of its route. *)
CloseLoad(w, b) ==
    /\ batch[b].status = "ACTIVE"
    /\ RouteComplete(batch[b].at)
    /\ Begin(w, "CLOSE", [pc |-> "close", batch |-> b])
    /\ UNCHANGED tables

(* Mutation: any inspection of the pack will do. *)
CloseGateAnywhere(w) ==
    /\ Continue(w, "close", "closing")
    /\ \E st \in Stations : PassesGate(job[w].batch, st)
    /\ UNCHANGED tables

CloseGate(w) ==
    /\ Continue(w, "close", "closing")
    /\ PassesGate(job[w].batch, Route[LastStep])
    /\ UNCHANGED tables

CloseCommit(w) ==
    /\ Finish(w, "closing")
    /\ SetStatus(job[w].batch, "CLOSED")
    /\ UNCHANGED <<project, trail, violations, inspections, analyses>>

(* PATCH /projects/:id, RELEASED -> COMPLETED: every pack is closed, or is *)
(* scrapped with SCRAP as its newest analysis.                             *)
AnalysesOf(b) ==
    {a \in 1..Len(analyses) : inspections[analyses[a].inspection].batch = b}

Resolved(b) ==
    \/ batch[b].status = "CLOSED"
    \/ /\ batch[b].status = "SCRAPPED"
       /\ \E a \in AnalysesOf(b) :
            /\ \A other \in AnalysesOf(b) : other <= a
            /\ analyses[a].disposition = "SCRAP"

CompleteLoad(w) ==
    /\ project = "RELEASED"
    /\ Begin(w, "COMPLETE", [pc |-> "complete"])
    /\ UNCHANGED tables

(* The packs of the project are read, at least one. *)
CountPacks(w) ==
    LET packs == {b \in Batches : Exists(b)}
    IN /\ job[w].pc = "complete"
       /\ packs # {}
       /\ job' = [job EXCEPT ![w] = [pc |-> "completing", packs |-> packs]]

(* Mutation: quarantined packs count as resolved. *)
CompleteCheckIdle(w) ==
    /\ CountPacks(w)
    /\ \A b \in Batches : batch[b].status # "ACTIVE"
    /\ UNCHANGED tables

CompleteCheck(w) ==
    /\ CountPacks(w)
    /\ \A b \in Batches : Exists(b) => Resolved(b)
    /\ UNCHANGED tables

CompleteCommit(w) ==
    /\ Finish(w, "completing")
    /\ project' = "COMPLETED"
    /\ UNCHANGED <<batch, trail, violations, inspections, analyses>>

(* A guard refused, the transaction timed out, or the process died. *)
Abort(w) ==
    /\ job[w] # Idle
    /\ job' = [job EXCEPT ![w] = Idle]
    /\ UNCHANGED tables
-----------------------------------------------------------------------------
Plan(w) ==
    \/ \E b \in Batches, st \in Stations : CreateBatch(w, b, st)
    \/ ReleaseLoad(w) \/ ReleaseCommit(w)
    \/ CompleteLoad(w) \/ CompleteCheck(w) \/ CompleteCommit(w)

Scan(w) ==
    \/ \E b \in Batches : ScanLoad(w, b)
    \/ ScanBlocked(w) \/ ScanRelease(w) \/ ScanGate(w) \/ ScanReceive(w)
    \/ \E v \in 1..Len(violations) : ResolveLoad(w, v)
    \/ ResolveCommit(w)

Control(w) ==
    \/ \E b \in Batches, st \in Stations : Inspect(w, b, st)
    \/ \E b \in Batches : LookUpPack(w, b)
    \/ OpenInspection(w)
    \/ \E i \in 1..Len(inspections) : DecideLoad(w, i)
    \/ DecideCommit(w)

Production(w) ==
    \/ \E i \in 1..Len(inspections) : AnalyseLoad(w, i)
    \/ AnalyseCheck(w) \/ AnalyseCommit(w)
    \/ \E b \in Batches : CloseLoad(w, b)
    \/ CloseGate(w) \/ CloseCommit(w)

(* A step of w while another transaction is under way. *)
Overlaps(w) == \E v \in Workers \ {w} : job[v] # Idle

Next ==
    \E w \in Workers :
      /\ Plan(w) \/ Scan(w) \/ Control(w) \/ Production(w) \/ Abort(w)
      /\ lapped' = (lapped \/ Overlaps(w))

Spec == Init /\ [][Next]_vars
-----------------------------------------------------------------------------
(* Properties that hold however many transactions interleave.              *)

PassedAt(b, st) ==
    \E i \in InspectionsAt(b, st) :
      \E d \in 1..Len(inspections[i].decisions) :
        inspections[i].decisions[d].verdict = "PASSED"

(* The QC gate of POST /stage-events: every accepted hop but a release     *)
(* left a station where an inspection of that very pack had passed.        *)
HopsAreCovered ==
    \A b \in Batches : \A h \in 1..Len(trail[b]) :
      trail[b][h].from.stage # Origin.stage => PassedAt(b, trail[b][h].from)

(* FG close: a closed pack has passed at the last station of its route.    *)
ClosedIsPassed ==
    \A b \in Batches :
      batch[b].status = "CLOSED" => PassedAt(b, Route[LastStep])

NotPassed(i) ==
    \E d \in 1..Len(inspections[i].decisions) :
      inspections[i].decisions[d].verdict # "PASSED"

(* QC tags, production disposes: a quarantined pack has a verdict against  *)
(* it, a scrapped one has an analysis that scrapped it.                    *)
FateHasGrounds ==
    \A b \in Batches :
      /\ batch[b].status = "HELD" =>
           \E i \in 1..Len(inspections) :
             inspections[i].batch = b /\ NotPassed(i)
      /\ batch[b].status = "SCRAPPED" =>
           \E a \in AnalysesOf(b) : analyses[a].disposition = "SCRAP"

(* A defect analysis answers a verdict that did not pass, and no verdict   *)
(* is answered twice: the unique index on inspectionId is the race guard.  *)
AnalysesAreGrounded ==
    \A a \in 1..Len(analyses) :
      /\ NotPassed(analyses[a].inspection)
      /\ \A other \in 1..Len(analyses) :
           analyses[other].inspection = analyses[a].inspection => other = a

(* A pack passed at the last station of its route, or scrapped by analysis *)
Accounted(b) ==
    \/ PassedAt(b, Route[LastStep])
    \/ \E a \in AnalysesOf(b) : analyses[a].disposition = "SCRAP"

(* PATCH /projects/:id, RELEASED -> COMPLETED: a project is completed by a *)
(* transaction that counted its packs, and none of these, whatever was     *)
(* done to them since, lacks the verdict or the analysis that let it end.  *)
(* A pack it did not count was planned by a transaction overlapping others.*)
CompletionsAreEarned ==
    [][project # "COMPLETED" /\ project' = "COMPLETED" =>
         \E w \in DOMAIN job :
           /\ job[w].pc = "completing" /\ job'[w] = Idle
           /\ job[w].packs # {}
           /\ \A b \in job[w].packs : Accounted(b)
           /\ \A b \in Batches \ job[w].packs : Exists(b) => lapped']_vars
-----------------------------------------------------------------------------
(* Properties of transactions that have not overlapped so far.             *)

(* The position projection is what the ledger of accepted events adds up   *)
(* to: each step of the route once, in order, up to the current one.       *)
LedgerIsRoute ==
    \A b \in Batches :
      /\ Len(trail[b]) = batch[b].at.pos
      /\ \A h \in 1..Len(trail[b]) :
           /\ trail[b][h].step = h
           /\ h > 1 => trail[b][h].from = Route[h - 1]

(* A pack leaves Origin once: a second ISSUANCE would count it twice.      *)
IssuedOnce ==
    \A b \in Batches : \A g, h \in 1..Len(trail[b]) :
      /\ trail[b][g].from.stage = Origin.stage
      /\ trail[b][h].from.stage = Origin.stage
      => g = h

(* Only the last verdict of an inspection can have closed it.              *)
OneClosingVerdict ==
    \A i \in 1..Len(inspections) :
      \A d \in 1..Len(inspections[i].decisions) - 1 :
        inspections[i].decisions[d].verdict = "HOLD"

(* A pack closed into finished goods has made every hop of its route.      *)
ClosedIsComplete ==
    \A b \in Batches : batch[b].status = "CLOSED" => RouteComplete(batch[b].at)

(* All of that together, before an overlap: the books of the floor add up. *)
LedgerAddsUp ==
    ~lapped => LedgerIsRoute /\ IssuedOnce /\ ClosedIsComplete /\ OneClosingVerdict

(* A pack that is held, closed or scrapped takes no scan, and at a hop the *)
(* newest inspection at the station left has passed with its newest        *)
(* verdict.                                                                *)
MoveIsFree ==
    \A b \in Batches :
      Len(trail'[b]) > Len(trail[b]) =>
        LET from == trail'[b][Len(trail'[b])].from
        IN /\ Scannable(batch[b].status)
           /\ from.stage = Origin.stage \/ PassesGate(b, from)

(* POST /stage-events, before an overlap.                                  *)
MovesAreFree == [][~lapped' => MoveIsFree]_vars
-----------------------------------------------------------------------------
(* What the documents of the repository say, and the code does not do.     *)

(* Decision register, D-045: "True NG = ... batch SCRAPPED terminal".      *)
ScrappedIsTerminal ==
    [][\A b \in Batches :
         batch[b].status = "SCRAPPED" => batch'[b].status = "SCRAPPED"]_vars

(* Decision register, D-045: the covering PASSED is "decided after the     *)
(* release event", that is, once the pack had arrived at the station.      *)
VerdictFollowsArrival ==
    \A b \in Batches : \A h \in 1..Len(trail[b]) :
      trail[b][h].from.stage # Origin.stage =>
        \E i \in InspectionsAt(b, trail[b][h].from) :
          \E d \in 1..Len(inspections[i].decisions) :
            /\ inspections[i].decisions[d].verdict = "PASSED"
            /\ inspections[i].decisions[d].hops >= h - 1

(* POST /stage-events refuses a held pack as one "quarantined awaiting its *)
(* production defect analysis": some verdict against it has none yet.      *)
HeldAwaitsAnalysis ==
    \A b \in Batches :
      batch[b].status = "HELD" =>
        \E i \in 1..Len(inspections) :
          inspections[i].batch = b /\ NotPassed(i) /\ ~Analysed(i)
=============================================================================
