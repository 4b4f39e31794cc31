----------------------------- MODULE FloorReads -----------------------------
(***************************************************************************)
(* What the screens are told of the shop floor (app/pats/domain-read.ts,   *)
(* app/pats/batch-resolve.ts).  Each of these answers works out again, in  *)
(* code of its own, what a command decides: whether the next scan of a     *)
(* pack will be taken, where it goes, what became of it, and whether its   *)
(* project can be completed.                                               *)
(***************************************************************************)
EXTENDS BatchFloor

(* The steps of a scan: the pack that is found, and the gate it meets.     *)
WouldAdvance(b) ==
    /\ Scannable(batch[b].status)
    /\ ~RouteComplete(batch[b].at)
    /\ \/ PreRoute(batch[b].at)
       \/ \E st \in GateStations(batch[b].at) : PassesGate(b, st)

(* GET /batch-positions: the first route step of the station, or of the    *)
(* projection; 0 when there is none.                                       *)
FirstStepAt(st) ==
    IF \E k \in 1..LastStep : Route[k] = st
    THEN CHOOSE k \in 1..LastStep :
           Route[k] = st /\ \A j \in 1..k - 1 : Route[j] # st
    ELSE 0
CurrentStep(at) == IF at.pos > 0 THEN at.pos ELSE FirstStepAt(at.station)

Newest(S) == CHOOSE i \in S : \A j \in S : j <= i
(* Mutation: the oldest inspection is kept of each pack and station. *)
GateVerdictOldest(b, st) ==
    IF InspectionsAt(b, st) = {} THEN "NONE"
    ELSE LatestVerdict(CHOOSE i \in InspectionsAt(b, st) :
                         \A j \in InspectionsAt(b, st) : i <= j)
(* The newest inspection of each pack and station, its newest verdict.     *)
GateVerdict(b, st) ==
    IF InspectionsAt(b, st) = {} THEN "NONE"
    ELSE LatestVerdict(Newest(InspectionsAt(b, st)))

QcGate(b) ==
    LET step == CurrentStep(batch[b].at)
        verdict == GateVerdict(b, Route[step])
    IN CASE batch[b].status # "ACTIVE" -> "BLOCKED"
         [] batch[b].status = "ACTIVE" /\ PreRoute(batch[b].at) -> "RELEASE"
         [] OTHER ->
              IF step = 0 THEN "BLOCKED"
              ELSE IF step = LastStep THEN "COMPLETE"
              ELSE IF verdict = "NONE" THEN "PENDING"
              ELSE IF verdict = "PASSED" THEN "PASSED" ELSE "HELD"

(* GET /batches/resolve: the first step beyond the one the projection      *)
(* points at, if any.                                                      *)
StepsBeyond(b) == {k \in 1..LastStep : k > batch[b].at.pos}
Finished(b) == StepsBeyond(b) = {}
NextExpectedStep(b) ==
    Route[CHOOSE k \in StepsBeyond(b) : \A other \in StepsBeyond(b) : k <= other]

(* GET /batches: the newest analysis, or else the newest verdict of the    *)
(* newest inspection, of the pack.                                         *)
InspectionsOf(b) == {i \in 1..Len(inspections) : inspections[i].batch = b}
(* Mutation: the oldest analysis is shown. *)
QcDispositionOldest(b) ==
    IF AnalysesOf(b) # {}
    THEN analyses[CHOOSE a \in AnalysesOf(b) : \A o \in AnalysesOf(b) : a <= o].disposition
    ELSE IF InspectionsOf(b) # {} THEN LatestVerdict(Newest(InspectionsOf(b)))
    ELSE "NONE"
QcDisposition(b) ==
    IF AnalysesOf(b) # {} THEN analyses[Newest(AnalysesOf(b))].disposition
    ELSE IF InspectionsOf(b) # {} THEN LatestVerdict(Newest(InspectionsOf(b)))
    ELSE "NONE"

(* GET /projects/:id: whether the screen offers to complete it.            *)
BatchTerminal(b) ==
    \/ batch[b].status = "CLOSED"
    \/ batch[b].status = "SCRAPPED" /\ QcDisposition(b) = "SCRAP"
CompletionReady ==
    /\ project = "RELEASED"
    /\ \E b \in Batches : Exists(b)
    /\ \A b \in Batches : Exists(b) => BatchTerminal(b)
CompletionAllowed ==
    /\ project = "RELEASED"
    /\ \E b \in Batches : Exists(b)
    /\ \A b \in Batches : Exists(b) => Resolved(b)
-----------------------------------------------------------------------------
(* The screens say what the commands do: an active pack that is not shown  *)
(* COMPLETE is shown RELEASE or PASSED exactly when a scan of it would be  *)
(* taken, one with a route step is COMPLETE exactly at the end, the step   *)
(* that is announced is the one a scan is accepted at, and completion is   *)
(* offered exactly when it is allowed.                                     *)
ScreensTellCommands ==
    /\ \A b \in Batches : batch[b].status = "ACTIVE" =>
         /\ QcGate(b) # "COMPLETE" =>
              (QcGate(b) \in {"RELEASE", "PASSED"} <=> WouldAdvance(b))
         /\ batch[b].at.pos > 0 => (QcGate(b) = "COMPLETE" <=> Finished(b))
         /\ ~Finished(b) => NextExpectedStep(b) = Expected(batch[b].at).station
    /\ CompletionReady <=> CompletionAllowed

(* What is shown as the fate of a pack is its fate: a scrapped pack shows  *)
(* SCRAP; one that shows SCRAP is scrapped, or quarantined anew; one that  *)
(* shows REWORK is quarantined.                                            *)
DispositionIsFate ==
    \A b \in Batches :
      /\ batch[b].status = "SCRAPPED" => QcDisposition(b) = "SCRAP"
      /\ QcDisposition(b) = "SCRAP" => batch[b].status \in {"SCRAPPED", "HELD"}
      /\ QcDisposition(b) = "REWORK" => batch[b].status = "HELD"

(* GET /batches, before two transactions have overlapped.                  *)
FatesAreShown == ~lapped => DispositionIsFate
=============================================================================
