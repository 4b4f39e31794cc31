-------------------------- MODULE BatchFloorProofs --------------------------
(***************************************************************************)
(* What the floor keeps for any number of packs, stations and interleaved  *)
(* transactions: the properties of BatchFloor that need no lock, because   *)
(* verdicts, analyses and accepted events are only ever added.             *)
(***************************************************************************)
EXTENDS FloorReads, SequenceTheorems, WellFoundedInduction, TLAPS

-----------------------------------------------------------------------------
(* A pack with a step is at the station of that step. *)
AtItsStep ==
    \A b \in Batches :
      batch[b].at.pos > 0 => batch[b].at.station = Route[batch[b].at.pos]

AnalysesRefer ==
    \A a \in 1..Len(analyses) :
      analyses[a].inspection \in 1..Len(inspections)

(* What a transaction holds refers to rows that exist; a scan under way    *)
(* has a step to go to and read a pack at its step; a gate that was passed *)
(* stays passed, a verdict that was read stays, and so does what accounts  *)
(* for the packs that a completion has counted.                            *)
ValidJob(w) ==
    /\ job[w].pc \in {"decide", "analyse", "dispose"} =>
         job[w].inspection \in 1..Len(inspections)
    /\ job[w].pc = "resolve" => job[w].violation \in 1..Len(violations)
    /\ job[w].pc \in {"scan", "receive"} =>
         /\ job[w].seen.pos < LastStep
         /\ job[w].seen.pos > 0 =>
              job[w].seen.station = Route[job[w].seen.pos]
    /\ job[w].pc = "receive" => PassedAt(job[w].batch, job[w].seen.station)
    /\ job[w].pc = "closing" => PassedAt(job[w].batch, Route[LastStep])
    /\ job[w].pc \in {"analyse", "dispose"} => NotPassed(job[w].inspection)
    /\ job[w].pc = "completing" =>
         job[w].packs # {} /\ \A b \in job[w].packs : Accounted(b)

TableInv ==
    /\ AtItsStep
    /\ AnalysesRefer
    /\ HopsAreCovered
    /\ ClosedIsPassed
    /\ FateHasGrounds
    /\ AnalysesAreGrounded

IInv ==
    /\ TypeOK
    /\ TableInv
    /\ \A w \in Workers : ValidJob(w)

-----------------------------------------------------------------------------
(* The route has a first step, and all its steps are stations. *)
LEMMA RouteSteps ==
    /\ LastStep \in Nat \ {0}
    /\ \A k \in 1..LastStep : Route[k] \in Stations
    /\ Origin \in Stations
  BY RouteAssumption DEF LastStep

(* The next position of a pack that has not finished its route. *)
LEMMA ExpectedIsNext ==
    ASSUME NEW at \in Position, at.pos < LastStep
    PROVE  /\ Expected(at) \in Position
           /\ Expected(at).pos = at.pos + 1
           /\ Expected(at).pos \in 1..LastStep
           /\ Expected(at).station = Route[Expected(at).pos]
  <1>1. at.pos \in Nat /\ at.pos + 1 \in 1..LastStep
    BY RouteSteps DEF Position
  <1>2. QED
    BY <1>1, RouteSteps DEF Position, Expected

(* The transactions, by how far they are. *)
LEMMA JobShapes ==
    ASSUME TypeOK, NEW w \in Workers
    PROVE  /\ job[w].pc \in {"scan", "receive"} =>
                /\ job[w].batch \in Batches
                /\ job[w].seen \in Position
                /\ job[w] = [pc |-> job[w].pc, batch |-> job[w].batch,
                             seen |-> job[w].seen]
           /\ job[w].pc = "resolve" => job[w].violation \in Nat
           /\ job[w].pc = "open" =>
                job[w].batch \in Batches /\ job[w].station \in Stations
           /\ job[w].pc \in {"decide", "analyse", "dispose"} =>
                /\ job[w].inspection \in Nat
                /\ job[w] = [pc |-> job[w].pc,
                             inspection |-> job[w].inspection]
           /\ job[w].pc \in {"close", "closing"} =>
                /\ job[w].batch \in Batches
                /\ job[w] = [pc |-> job[w].pc, batch |-> job[w].batch]
           /\ job[w].pc \in {"release", "complete"} =>
                job[w] = [pc |-> job[w].pc]
           /\ job[w].pc = "completing" => job[w].packs \in SUBSET Batches
  BY DEF TypeOK, Job, Idle

(* A transaction that goes on to its next read keeps what it has read. *)
LEMMA ContinueKeepsJob ==
    ASSUME TypeOK, NEW w \in Workers, NEW from, NEW to, Continue(w, from, to),
           \/ from = "scan" /\ to = "receive"
           \/ from = "analyse" /\ to = "dispose"
           \/ from = "close" /\ to = "closing"
    PROVE  job' \in [Workers -> Job]
  <1>1. [job[w] EXCEPT !.pc = to] \in Job
    <2>1. CASE from = "scan"
      <3>1. PICK b \in Batches, at \in Position :
              job[w] = [pc |-> "scan", batch |-> b, seen |-> at]
        BY <2>1, JobShapes DEF Continue
      <3>2. [job[w] EXCEPT !.pc = to] = [pc |-> to, batch |-> b, seen |-> at]
        BY <3>1
      <3>3. QED
        BY <2>1, <3>2 DEF Job
    <2>2. CASE from = "analyse"
      <3>1. PICK i \in Nat : job[w] = [pc |-> "analyse", inspection |-> i]
        BY <2>2, JobShapes DEF Continue
      <3>2. [job[w] EXCEPT !.pc = to] = [pc |-> to, inspection |-> i]
        BY <3>1
      <3>3. QED
        BY <2>2, <3>2 DEF Job
    <2>3. CASE from = "close"
      <3>1. PICK b \in Batches : job[w] = [pc |-> "close", batch |-> b]
        BY <2>3, JobShapes DEF Continue
      <3>2. [job[w] EXCEPT !.pc = to] = [pc |-> to, batch |-> b]
        BY <3>1
      <3>3. QED
        BY <2>3, <3>2 DEF Job
    <2>4. QED
      BY <2>1, <2>2, <2>3
  <1>2. QED
    BY <1>1 DEF TypeOK, Continue

(* Recording a verdict changes one inspection, and adds one decision. *)
LEMMA VerdictAdded ==
    ASSUME TypeOK, NEW i \in 1..Len(inspections), NEW verdict \in Verdicts,
           RecordVerdict(i, verdict)
    PROVE  /\ inspections' \in Seq(Inspection)
           /\ Len(inspections') = Len(inspections)
           /\ \A j \in 1..Len(inspections) :
                /\ inspections'[j].batch = inspections[j].batch
                /\ inspections'[j].station = inspections[j].station
                /\ j # i => inspections'[j] = inspections[j]
           /\ LET old == inspections[i].decisions
                  new == inspections'[i].decisions
              IN /\ Len(new) = Len(old) + 1
                 /\ \A d \in 1..Len(old) : new[d] = old[d]
                 /\ new[Len(old) + 1].verdict = verdict
  <1> DEFINE b == inspections[i].batch
             decision == [verdict |-> verdict, hops |-> Len(trail[b])]
             row == [inspections[i] EXCEPT
                       !.status = IF verdict = "HOLD" THEN "IN_PROGRESS"
                                  ELSE "COMPLETED",
                       !.decisions = Append(@, decision)]
  <1>1. inspections[i] \in Inspection /\ inspections \in Seq(Inspection)
    BY DEF TypeOK
  <1>2. inspections[i].decisions \in Seq(Decision) /\ b \in Batches
    BY <1>1 DEF Inspection
  <1>3. decision \in Decision
    BY <1>2 DEF TypeOK, Decision
  <1>4. /\ Append(inspections[i].decisions, decision) \in Seq(Decision)
        /\ Len(Append(inspections[i].decisions, decision))
             = Len(inspections[i].decisions) + 1
        /\ \A d \in 1..Len(inspections[i].decisions) :
             Append(inspections[i].decisions, decision)[d]
               = inspections[i].decisions[d]
        /\ Append(inspections[i].decisions, decision)
             [Len(inspections[i].decisions) + 1] = decision
    BY <1>2, <1>3, AppendProperties
  <1>5. /\ row \in Inspection
        /\ row.batch = inspections[i].batch
        /\ row.station = inspections[i].station
        /\ row.decisions = Append(inspections[i].decisions, decision)
    BY <1>1, <1>4 DEF Inspection
  <1>6. inspections' = [inspections EXCEPT ![i] = row]
    BY DEF RecordVerdict
  <1>7. /\ inspections' \in Seq(Inspection)
        /\ Len(inspections') = Len(inspections)
        /\ \A j \in 1..Len(inspections) :
             inspections'[j] = IF j = i THEN row ELSE inspections[j]
    BY <1>1, <1>5, <1>6, ExceptSeq
  <1> HIDE DEF row
  <1>8. inspections'[i].decisions = Append(inspections[i].decisions, decision)
    BY <1>5, <1>7
  <1>9. decision.verdict = verdict
    OBVIOUS
  <1> HIDE DEF decision
  <1>10. QED
    BY <1>4, <1>5, <1>7, <1>8, <1>9

(* Starting and ending a transaction concerns its worker alone. *)
LEMMA BeginsJob ==
    ASSUME TypeOK, NEW w \in Workers, NEW command, NEW tx \in Job,
           Begin(w, command, tx)
    PROVE  /\ job' \in [Workers -> Job]
           /\ job'[w] = tx
           /\ \A v \in Workers \ {w} : job'[v] = job[v]
  BY DEF TypeOK, Begin

(* A transaction that ended, by a commit or not, leaves its worker idle.   *)
LEMMA EndsJob ==
    ASSUME TypeOK, NEW w \in Workers, job' = [job EXCEPT ![w] = Idle]
    PROVE  /\ job' \in [Workers -> Job]
           /\ job'[w] = Idle
           /\ \A v \in Workers \ {w} : job'[v] = job[v]
  BY DEF TypeOK, Job

(* What a step does to the QualityInspection table: nothing, a new row at  *)
(* its end, or a verdict on one row.  Either way rows and verdicts stay.   *)
InspectionsGrow ==
    /\ inspections' \in Seq(Inspection)
    /\ Len(inspections) <= Len(inspections')
    /\ \A i \in 1..Len(inspections) :
         /\ inspections'[i].batch = inspections[i].batch
         /\ inspections'[i].station = inspections[i].station
         /\ Len(inspections[i].decisions) <= Len(inspections'[i].decisions)
         /\ \A d \in 1..Len(inspections[i].decisions) :
              inspections'[i].decisions[d] = inspections[i].decisions[d]

(* An inspection that is opened is a new row after all others. *)
LEMMA InspectionAdded ==
    ASSUME TypeOK, NEW b \in Batches, NEW st \in Stations,
           NewInspection(b, st)
    PROVE  InspectionsGrow
  <1> DEFINE row == [batch |-> b, station |-> st, status |-> "OPEN",
                     decisions |-> <<>>]
  <1>1. row \in Inspection /\ inspections \in Seq(Inspection)
    BY DEF TypeOK, Inspection
  <1>2. inspections' = Append(inspections, row)
    BY DEF NewInspection
  <1> HIDE DEF row
  <1>3. /\ inspections' \in Seq(Inspection)
        /\ Len(inspections') = Len(inspections) + 1
        /\ \A i \in 1..Len(inspections) : inspections'[i] = inspections[i]
    BY <1>1, <1>2, AppendProperties
  <1>4. \A i \in 1..Len(inspections) : Len(inspections[i].decisions) \in Nat
    BY <1>1 DEF Inspection
  <1>5. QED
    BY <1>1, <1>3, <1>4 DEF InspectionsGrow

(* A step that leaves the table alone keeps its rows and verdicts. *)
LEMMA InspectionsKept ==
    ASSUME TypeOK, UNCHANGED inspections
    PROVE  InspectionsGrow
  <1>1. inspections \in Seq(Inspection)
    BY DEF TypeOK
  <1>2. \A i \in 1..Len(inspections) : Len(inspections[i].decisions) \in Nat
    BY <1>1 DEF Inspection
  <1>3. QED
    BY <1>1, <1>2 DEF InspectionsGrow

(* So does one that records a verdict. *)
LEMMA VerdictGrows ==
    ASSUME TypeOK, NEW i \in 1..Len(inspections), NEW verdict \in Verdicts,
           RecordVerdict(i, verdict)
    PROVE  InspectionsGrow
  <1>1. inspections \in Seq(Inspection)
    BY DEF TypeOK
  <1>2. \A j \in 1..Len(inspections) : Len(inspections[j].decisions) \in Nat
    BY <1>1 DEF Inspection
  <1>3. QED
    BY <1>1, <1>2, VerdictAdded DEF InspectionsGrow

(* The floor of a step: what commits of scans, verdicts, analyses, plans.  *)
LEMMA PackMoved ==
    ASSUME TypeOK, NEW b \in Batches, NEW seen \in Position,
           seen.pos < LastStep, Advance(b, seen)
    PROVE  /\ batch' \in [Batches -> BatchRow]
           /\ trail' \in [Batches -> Seq(Hop)]
           /\ \A c \in Batches :
                /\ batch'[c].status = batch[c].status
                /\ batch'[c].at = IF c = b THEN Expected(seen) ELSE batch[c].at
           /\ \A c \in Batches \ {b} : trail'[c] = trail[c]
           /\ Len(trail'[b]) = Len(trail[b]) + 1
           /\ \A h \in 1..Len(trail[b]) : trail'[b][h] = trail[b][h]
           /\ trail'[b][Len(trail[b]) + 1].from = seen.station
  <1> DEFINE hop == [from |-> seen.station, step |-> Expected(seen).pos]
  <1>1. hop \in Hop /\ hop.from = seen.station /\ trail[b] \in Seq(Hop)
    BY ExpectedIsNext DEF Hop, Position, TypeOK
  <1>2. trail' = [trail EXCEPT ![b] = Append(trail[b], hop)]
    BY DEF Advance
  <1>3. batch' = [batch EXCEPT ![b].at = Expected(seen)]
    BY DEF Advance
  <1> HIDE DEF hop
  <1>4. /\ Append(trail[b], hop) \in Seq(Hop)
        /\ Len(Append(trail[b], hop)) = Len(trail[b]) + 1
        /\ \A h \in 1..Len(trail[b]) : Append(trail[b], hop)[h] = trail[b][h]
        /\ Append(trail[b], hop)[Len(trail[b]) + 1] = hop
    BY <1>1, AppendProperties
  <1>5. /\ batch' \in [Batches -> BatchRow]
        /\ \A c \in Batches :
             /\ batch'[c].status = batch[c].status
             /\ batch'[c].at = IF c = b THEN Expected(seen) ELSE batch[c].at
    BY <1>3, ExpectedIsNext DEF TypeOK, BatchRow
  <1>6. /\ trail' \in [Batches -> Seq(Hop)]
        /\ \A c \in Batches \ {b} : trail'[c] = trail[c]
        /\ trail'[b] = Append(trail[b], hop)
    BY <1>2, <1>4 DEF TypeOK
  <1>7. QED
    BY <1>1, <1>4, <1>5, <1>6

(* A command that decides the status of a pack leaves the others alone. *)
LEMMA StatusSet ==
    ASSUME TypeOK, NEW b \in Batches,
           NEW status \in {"ACTIVE", "HELD", "CLOSED", "SCRAPPED"},
           SetStatus(b, status)
    PROVE  /\ batch' \in [Batches -> BatchRow]
           /\ \A c \in Batches :
                /\ batch'[c].status = IF c = b THEN status ELSE batch[c].status
                /\ batch'[c].at = batch[c].at
  BY DEF TypeOK, BatchRow, SetStatus

-----------------------------------------------------------------------------
(* Verdicts are never taken back. *)
LEMMA VerdictsStay ==
    ASSUME TypeOK, InspectionsGrow
    PROVE  /\ \A b \in Batches, st \in Stations :
                PassedAt(b, st) => PassedAt(b, st)'
           /\ \A i \in 1..Len(inspections) : NotPassed(i) => NotPassed(i)'
  <1>1. /\ inspections \in Seq(Inspection)
        /\ inspections' \in Seq(Inspection)
        /\ Len(inspections) \in Nat
        /\ Len(inspections') \in Nat
    BY DEF TypeOK, InspectionsGrow
  <1>2. \A i \in 1..Len(inspections) :
          /\ Len(inspections[i].decisions) \in Nat
          /\ i \in 1..Len(inspections')
          /\ Len(inspections'[i].decisions) \in Nat
    BY <1>1 DEF InspectionsGrow, Inspection
  <1> DEFINE Given(i, d) == inspections[i].decisions[d].verdict
             Stays(i, d) == /\ d \in 1..Len(inspections'[i].decisions)
                            /\ inspections'[i].decisions[d].verdict = Given(i, d)
  <1>3. ASSUME NEW i \in 1..Len(inspections),
               NEW d \in 1..Len(inspections[i].decisions)
        PROVE  Stays(i, d)
    <2>1. /\ Len(inspections[i].decisions) <= Len(inspections'[i].decisions)
          /\ inspections'[i].decisions[d] = inspections[i].decisions[d]
      BY DEF InspectionsGrow
    <2>2. QED
      BY <1>2, <2>1
  <1>4. ASSUME NEW b \in Batches, NEW st \in Stations, PassedAt(b, st)
        PROVE  PassedAt(b, st)'
    <2>1. PICK i \in InspectionsAt(b, st) :
            \E d \in 1..Len(inspections[i].decisions) :
              Given(i, d) = "PASSED"
      BY <1>4 DEF PassedAt
    <2>2. PICK d \in 1..Len(inspections[i].decisions) :
            Given(i, d) = "PASSED"
      BY <2>1
    <2>3. i \in InspectionsAt(b, st)'
      BY <1>2 DEF InspectionsAt, InspectionsGrow
    <2>4. \E e \in 1..Len(inspections'[i].decisions) :
            inspections'[i].decisions[e].verdict = "PASSED"
      BY <1>3, <2>2 DEF InspectionsAt
    <2>5. QED
      BY <2>3, <2>4 DEF PassedAt
  <1>5. ASSUME NEW i \in 1..Len(inspections), NotPassed(i)
        PROVE  NotPassed(i)'
    <2>1. PICK d \in 1..Len(inspections[i].decisions) :
            Given(i, d) # "PASSED"
      BY <1>5 DEF NotPassed
    <2>2. Stays(i, d)
      BY <1>3
    <2>3. QED
      BY <2>1, <2>2 DEF NotPassed
  <1>6. QED
    BY <1>4, <1>5

(* Nor are analyses: one may be added at the end of their table.           *)
AnalysesGrow ==
    /\ Len(analyses') = Len(analyses) + 1
    /\ \A a \in 1..Len(analyses) : analyses'[a] = analyses[a]

AccountsStay == \A b \in Batches : Accounted(b) => Accounted(b)'

LEMMA AccountsKept ==
    ASSUME TypeOK, AnalysesRefer, InspectionsGrow, UNCHANGED analyses \/ AnalysesGrow
    PROVE  AccountsStay
  <1>1. SUFFICES ASSUME NEW b \in Batches, Accounted(b) PROVE Accounted(b)'
    BY DEF AccountsStay
  <1>2. PICK st \in Stations : st = Route[LastStep]
    BY RouteSteps
  <1>3. CASE PassedAt(b, st)
    <2>1. PassedAt(b, st)'
      BY <1>3, VerdictsStay
    <2>2. QED
      BY <1>2, <2>1 DEF Accounted, PassedAt, InspectionsAt
  <1>4. CASE ~PassedAt(b, st)
    <2>1. PICK a \in AnalysesOf(b) : analyses[a].disposition = "SCRAP"
      BY <1>1, <1>2, <1>4 DEF Accounted
    <2>2. /\ a \in 1..Len(analyses) /\ analyses[a].inspection \in 1..Len(inspections)
          /\ inspections[analyses[a].inspection].batch = b
      BY <2>1 DEF AnalysesOf, AnalysesRefer
    <2>3. a \in 1..Len(analyses') /\ analyses'[a] = analyses[a]
      <3>1. Len(analyses) \in Nat
        BY DEF TypeOK
      <3>2. QED
        BY <2>2, <3>1 DEF AnalysesGrow
    <2>4. inspections'[analyses[a].inspection].batch = b
      BY <2>2 DEF InspectionsGrow
    <2>5. a \in AnalysesOf(b)' /\ analyses'[a].disposition = "SCRAP"
      BY <2>1, <2>3, <2>4 DEF AnalysesOf
    <2>6. QED
      BY <2>5 DEF Accounted
  <1>5. QED
    BY <1>3, <1>4

(* So whatever another worker does, what a transaction relies on holds. *)
LEMMA ValidJobKept ==
    ASSUME TypeOK, InspectionsGrow, AccountsStay, violations' \in Seq(Violation),
           Len(violations) <= Len(violations'),
           NEW w \in Workers, ValidJob(w), job'[w] = job[w]
    PROVE  ValidJob(w)'
  <1>1. /\ Len(inspections) \in Nat /\ Len(inspections') \in Nat
        /\ Len(violations) \in Nat /\ Len(violations') \in Nat
        /\ Len(inspections) <= Len(inspections')
    BY DEF TypeOK, InspectionsGrow
  <1>2. job[w].pc \in {"decide", "analyse", "dispose"} =>
          job'[w].inspection \in 1..Len(inspections')
    BY <1>1 DEF ValidJob
  <1>3. job[w].pc = "resolve" => job'[w].violation \in 1..Len(violations')
    BY <1>1 DEF ValidJob
  <1>4. job[w].pc = "receive" => PassedAt(job[w].batch, job[w].seen.station)'
    <2>1. SUFFICES ASSUME job[w].pc = "receive"
                   PROVE  PassedAt(job[w].batch, job[w].seen.station)'
      OBVIOUS
    <2>2. job[w].batch \in Batches /\ job[w].seen.station \in Stations
      BY <2>1, JobShapes DEF Position
    <2>3. PassedAt(job[w].batch, job[w].seen.station)
      BY <2>1 DEF ValidJob
    <2>4. PICK b \in Batches, st \in Stations :
            b = job[w].batch /\ st = job[w].seen.station
      BY <2>2
    <2>5. PassedAt(b, st)'
      BY <2>3, <2>4, VerdictsStay
    <2>6. QED
      BY <2>4, <2>5 DEF PassedAt, InspectionsAt
  <1>5. job[w].pc = "closing" => PassedAt(job[w].batch, Route[LastStep])'
    <2>1. SUFFICES ASSUME job[w].pc = "closing"
                   PROVE  PassedAt(job[w].batch, Route[LastStep])'
      OBVIOUS
    <2>2. PICK b \in Batches, st \in Stations :
            b = job[w].batch /\ st = Route[LastStep]
      <3>1. job[w].batch \in Batches
        BY <2>1, JobShapes
      <3>2. Route[LastStep] \in Stations
        BY RouteSteps
      <3>3. QED
        BY <3>1, <3>2
    <2>3. PassedAt(b, st)'
      BY <2>1, <2>2, VerdictsStay DEF ValidJob
    <2>4. QED
      BY <2>2, <2>3 DEF PassedAt, InspectionsAt
  <1>6. job[w].pc \in {"analyse", "dispose"} => NotPassed(job[w].inspection)'
    <2>1. SUFFICES ASSUME job[w].pc \in {"analyse", "dispose"}
                   PROVE  NotPassed(job[w].inspection)'
      OBVIOUS
    <2>2. PICK i \in 1..Len(inspections) : i = job[w].inspection
      BY <2>1 DEF ValidJob
    <2>3. NotPassed(i)'
      BY <2>1, <2>2, VerdictsStay DEF ValidJob
    <2>4. QED
      BY <2>2, <2>3 DEF NotPassed
  <1>7. job[w].pc = "completing" =>
          job[w].packs # {} /\ \A b \in job[w].packs : Accounted(b)'
    <2>1. SUFFICES ASSUME job[w].pc = "completing", NEW b \in job[w].packs
                   PROVE  job[w].packs # {} /\ Accounted(b)'
      BY DEF ValidJob
    <2>2. PICK c \in Batches : c = b
      BY <2>1, JobShapes
    <2>3. Accounted(c)'
      BY <2>1, <2>2 DEF ValidJob, AccountsStay
    <2>4. QED
      BY <2>1, <2>2, <2>3 DEF ValidJob, Accounted, PassedAt, InspectionsAt, AnalysesOf
  <1>8. QED
    BY <1>2, <1>3, <1>4, <1>5, <1>6, <1>7 DEF ValidJob

(* The commit of one transaction keeps the others valid. *)
LEMMA OtherJobsKept ==
    ASSUME TypeOK, \A v \in Workers : ValidJob(v), InspectionsGrow,
           AccountsStay,
           violations' \in Seq(Violation),
           Len(violations) <= Len(violations'),
           NEW w \in Workers, job' = [job EXCEPT ![w] = Idle]
    PROVE  /\ job' \in [Workers -> Job]
           /\ \A v \in Workers : ValidJob(v)'
  <1>1. /\ job' \in [Workers -> Job]
        /\ job'[w] = Idle
        /\ \A v \in Workers \ {w} : job'[v] = job[v]
    BY EndsJob
  <1>2. ValidJob(w)'
    BY <1>1 DEF ValidJob, Idle
  <1>3. ASSUME NEW v \in Workers \ {w} PROVE ValidJob(v)'
    BY <1>1, ValidJobKept
  <1>4. QED
    BY <1>1, <1>2, <1>3

(* The tables the invariants speak of did not change. *)
LEMMA TablesKept ==
    ASSUME TableInv, UNCHANGED <<batch, trail, inspections, analyses>>
    PROVE  TableInv'
  <1>1. AtItsStep' /\ AnalysesRefer'
    BY DEF TableInv, AtItsStep, AnalysesRefer
  <1>2. HopsAreCovered'
    BY DEF TableInv, HopsAreCovered, PassedAt, InspectionsAt
  <1>3. ClosedIsPassed'
    BY DEF TableInv, ClosedIsPassed, PassedAt, InspectionsAt
  <1>4. FateHasGrounds'
    BY DEF TableInv, FateHasGrounds, NotPassed, AnalysesOf
  <1>5. AnalysesAreGrounded'
    BY DEF TableInv, AnalysesAreGrounded, NotPassed
  <1>6. QED
    BY <1>1, <1>2, <1>3, <1>4, <1>5 DEF TableInv

(* A read is harmless when what it leaves with its worker is valid. *)
LEMMA ReadPreserves ==
    ASSUME IInv, lapped' \in BOOLEAN, NEW w \in Workers, UNCHANGED tables,
           job' \in [Workers -> Job],
           \A v \in Workers \ {w} : job'[v] = job[v],
           ValidJob(w)'
    PROVE  IInv'
  <1>1. /\ TypeOK'
        /\ InspectionsGrow
        /\ violations' \in Seq(Violation)
        /\ Len(violations) <= Len(violations')
    BY InspectionsKept DEF IInv, TypeOK, tables
  <1>2. TableInv' /\ AccountsStay
    BY <1>1, TablesKept, AccountsKept DEF IInv, TableInv, tables
  <1>3. ASSUME NEW v \in Workers \ {w} PROVE ValidJob(v)'
    BY <1>1, <1>2, ValidJobKept DEF IInv
  <1>4. QED
    BY <1>1, <1>2, <1>3 DEF IInv

-----------------------------------------------------------------------------
(* The grounds for the status of a pack. *)
Adverse(b) ==
    \E i \in 1..Len(inspections) : inspections[i].batch = b /\ NotPassed(i)

ScrappedBy(b) == \E a \in AnalysesOf(b) : analyses[a].disposition = "SCRAP"

(* As long as no analysis is added or taken back, neither are grounds. *)
LEMMA GroundsStay ==
    ASSUME TypeOK, TableInv, InspectionsGrow, UNCHANGED analyses
    PROVE  /\ AnalysesRefer'
           /\ AnalysesAreGrounded'
           /\ \A b \in Batches : Adverse(b) => Adverse(b)'
           /\ \A b \in Batches : ScrappedBy(b) => ScrappedBy(b)'
  <1>1. /\ Len(inspections) \in Nat /\ Len(inspections') \in Nat
        /\ Len(inspections) <= Len(inspections')
        /\ \A i \in 1..Len(inspections) :
             /\ i \in 1..Len(inspections')
             /\ inspections'[i].batch = inspections[i].batch
    BY DEF TypeOK, InspectionsGrow
  <1>2. AnalysesRefer'
    BY <1>1 DEF TableInv, AnalysesRefer
  <1>3. AnalysesAreGrounded'
    <2>1. ASSUME NEW a \in 1..Len(analyses)
          PROVE  NotPassed(analyses[a].inspection)'
      <3>1. PICK i \in 1..Len(inspections) : i = analyses[a].inspection
        BY DEF TableInv, AnalysesRefer
      <3>2. NotPassed(i)'
        BY <3>1, VerdictsStay DEF TableInv, AnalysesAreGrounded
      <3>3. QED
        BY <3>1, <3>2 DEF NotPassed
    <2>2. QED
      BY <2>1 DEF TableInv, AnalysesAreGrounded
  <1>4. ASSUME NEW b \in Batches, Adverse(b) PROVE Adverse(b)'
    <2>1. PICK i \in 1..Len(inspections) :
            inspections[i].batch = b /\ NotPassed(i)
      BY <1>4 DEF Adverse
    <2>2. NotPassed(i)'
      BY <2>1, VerdictsStay
    <2>3. QED
      BY <1>1, <2>1, <2>2 DEF Adverse
  <1>5. ASSUME NEW b \in Batches, ScrappedBy(b) PROVE ScrappedBy(b)'
    BY <1>1, <1>5 DEF ScrappedBy, AnalysesOf, TableInv, AnalysesRefer
  <1>6. QED
    BY <1>2, <1>3, <1>4, <1>5

(* The ledger does not change: its gates stay passed. *)
LEMMA HopsStayCovered ==
    ASSUME TypeOK, HopsAreCovered, InspectionsGrow, UNCHANGED trail
    PROVE  HopsAreCovered'
  <1>1. SUFFICES ASSUME NEW b \in Batches, NEW h \in 1..Len(trail[b]),
                        trail[b][h].from.stage # Origin.stage
                 PROVE  PassedAt(b, trail[b][h].from)'
    BY DEF HopsAreCovered
  <1>2. trail[b][h].from \in Stations
    <2>1. trail[b] \in Seq(Hop)
      BY DEF TypeOK
    <2>2. trail[b][h] \in Hop
      BY <2>1
    <2>3. QED
      BY <2>2 DEF Hop
  <1>3. PICK st \in Stations : st = trail[b][h].from
    BY <1>2
  <1>4. PassedAt(b, st)'
    BY <1>1, <1>3, VerdictsStay DEF HopsAreCovered
  <1>5. QED
    BY <1>3, <1>4 DEF PassedAt, InspectionsAt

(* The statuses change with the grounds for them at hand. *)
LEMMA TableInvStep ==
    ASSUME TypeOK, TableInv, InspectionsGrow, UNCHANGED <<trail, analyses>>,
           AtItsStep',
           \A b \in Batches :
             \/ batch'[b].status = batch[b].status
             \/ batch'[b].status \in {"PLANNED", "ACTIVE"}
             \/ batch'[b].status = "HELD" /\ Adverse(b)'
             \/ batch'[b].status = "CLOSED" /\ PassedAt(b, Route[LastStep])'
    PROVE  TableInv'
  <1>1. /\ AnalysesRefer' /\ AnalysesAreGrounded'
        /\ \A b \in Batches : Adverse(b) => Adverse(b)'
        /\ \A b \in Batches : ScrappedBy(b) => ScrappedBy(b)'
    BY GroundsStay
  <1>2. HopsAreCovered'
    BY HopsStayCovered DEF TableInv
  <1>3. ClosedIsPassed'
    <2>1. SUFFICES ASSUME NEW b \in Batches, batch'[b].status = "CLOSED"
                   PROVE  PassedAt(b, Route[LastStep])'
      BY DEF ClosedIsPassed
    <2>2. Route[LastStep] \in Stations
      BY RouteSteps
    <2>3. PICK st \in Stations : st = Route[LastStep]
      BY <2>2
    <2>4. CASE batch[b].status = "CLOSED"
      <3>1. PassedAt(b, st)'
        BY <2>3, <2>4, VerdictsStay DEF TableInv, ClosedIsPassed
      <3>2. QED
        BY <2>3, <3>1 DEF PassedAt, InspectionsAt
    <2>5. QED
      BY <2>1, <2>4
  <1>4. FateHasGrounds'
    <2>1. ASSUME NEW b \in Batches, batch'[b].status = "HELD"
          PROVE  Adverse(b)'
      BY <1>1, <2>1 DEF TableInv, FateHasGrounds, Adverse
    <2>2. ASSUME NEW b \in Batches, batch'[b].status = "SCRAPPED"
          PROVE  ScrappedBy(b)'
      BY <1>1, <2>2 DEF TableInv, FateHasGrounds, ScrappedBy
    <2>3. QED
      BY <2>1, <2>2 DEF FateHasGrounds, Adverse, ScrappedBy
  <1>5. QED
    BY <1>1, <1>2, <1>3, <1>4 DEF TableInv

(* A transaction that ends leaves a valid state if its writes do. *)
LEMMA WritePreserves ==
    ASSUME IInv, lapped' \in BOOLEAN, NEW w \in Workers,
           job' = [job EXCEPT ![w] = Idle],
           project' \in {"DRAFT", "RELEASED", "COMPLETED"},
           batch' \in [Batches -> BatchRow],
           trail' \in [Batches -> Seq(Hop)],
           violations' \in Seq(Violation),
           Len(violations) <= Len(violations'),
           InspectionsGrow,
           analyses' \in Seq(Analysis), UNCHANGED analyses \/ AnalysesGrow,
           TableInv'
    PROVE  IInv'
  <1>1. job' \in [Workers -> Job] /\ \A v \in Workers : ValidJob(v)'
    BY OtherJobsKept, AccountsKept DEF IInv, TableInv
  <1>2. TypeOK'
    BY <1>1 DEF TypeOK, InspectionsGrow
  <1>3. QED
    BY <1>1, <1>2 DEF IInv

-----------------------------------------------------------------------------
(* One lemma for each part of the next-state relation. *)

LEMMA PlanPreserves ==
    ASSUME IInv, lapped' \in BOOLEAN, NEW w \in Workers, Plan(w)
    PROVE  IInv'
  <1>0. TypeOK /\ TableInv /\ Len(violations) <= Len(violations)
    BY DEF IInv, TypeOK
  <1>1. ASSUME NEW b \in Batches, NEW st \in Stations, CreateBatch(w, b, st)
        PROVE  IInv'
    <2>1. job' = [job EXCEPT ![w] = Idle]
      BY <1>0, <1>1 DEF CreateBatch, TypeOK
    <2>2. /\ batch' \in [Batches -> BatchRow]
          /\ batch'[b].status = "PLANNED"
          /\ batch'[b].at.pos = 0
          /\ \A c \in Batches \ {b} : batch'[c] = batch[c]
      BY <1>0, <1>1, RouteSteps DEF CreateBatch, TypeOK, BatchRow, Start, Position
    <2>3. AtItsStep'
      BY <1>0, <2>2 DEF TableInv, AtItsStep
    <2>4. InspectionsGrow
      BY <1>0, <1>1, InspectionsKept DEF CreateBatch
    <2>5. TableInv'
      BY <1>0, <1>1, <2>2, <2>3, <2>4, TableInvStep DEF CreateBatch
    <2>6. QED
      BY <1>0, <1>1, <2>1, <2>2, <2>4, <2>5, WritePreserves DEF CreateBatch, TypeOK
  <1>2. ASSUME ReleaseLoad(w) PROVE IInv'
    <2>1. [pc |-> "release"] \in Job
      BY DEF Job
    <2>2. /\ job' \in [Workers -> Job]
          /\ job'[w] = [pc |-> "release"]
          /\ \A v \in Workers \ {w} : job'[v] = job[v]
      BY <1>2, <2>1, <1>0, BeginsJob DEF ReleaseLoad
    <2>3. ValidJob(w)'
      BY <2>2 DEF ValidJob
    <2>4. QED
      BY <1>2, <2>2, <2>3, ReadPreserves DEF ReleaseLoad
  <1>3. ASSUME ReleaseCommit(w) PROVE IInv'
    <2>1. \A b \in Batches :
            \/ batch'[b] = [status |-> "ACTIVE", at |-> Start(Origin)]
            \/ batch'[b] = [batch[b] EXCEPT !.status = "ACTIVE"]
            \/ batch'[b] = batch[b]
      BY <1>3 DEF ReleaseCommit
    <2>2. \A b \in Batches :
            /\ batch'[b] \in BatchRow
            /\ batch'[b].status = "ACTIVE" \/ batch'[b].status = batch[b].status
            /\ batch'[b].at.pos = 0 \/ batch'[b].at = batch[b].at
      <3> TAKE b \in Batches
      <3>1. CASE batch'[b] = [status |-> "ACTIVE", at |-> Start(Origin)]
        BY <3>1, RouteSteps DEF BatchRow, Start, Position
      <3>2. CASE batch'[b] = [batch[b] EXCEPT !.status = "ACTIVE"]
        BY <1>0, <3>2 DEF TypeOK, BatchRow
      <3>3. CASE batch'[b] = batch[b]
        BY <1>0, <3>3 DEF TypeOK
      <3>4. QED
        BY <2>1, <3>1, <3>2, <3>3
    <2>3. batch' \in [Batches -> BatchRow]
      BY <1>3, <2>2 DEF ReleaseCommit
    <2>4. AtItsStep'
      BY <1>0, <2>2 DEF TableInv, AtItsStep
    <2>5. InspectionsGrow
      BY <1>0, <1>3, InspectionsKept DEF ReleaseCommit
    <2>6. TableInv'
      BY <1>0, <1>3, <2>2, <2>4, <2>5, TableInvStep DEF ReleaseCommit
    <2>7. QED
      BY <1>0, <1>3, <2>3, <2>5, <2>6, WritePreserves
         DEF ReleaseCommit, Finish, TypeOK
  <1>4. ASSUME CompleteLoad(w) PROVE IInv'
    <2>1. [pc |-> "complete"] \in Job
      BY DEF Job
    <2>2. /\ job' \in [Workers -> Job]
          /\ job'[w] = [pc |-> "complete"]
          /\ \A v \in Workers \ {w} : job'[v] = job[v]
      BY <1>4, <2>1, <1>0, BeginsJob DEF CompleteLoad
    <2>3. ValidJob(w)'
      BY <2>2 DEF ValidJob
    <2>4. QED
      BY <1>4, <2>2, <2>3, ReadPreserves DEF CompleteLoad
  <1>5. ASSUME CompleteCheck(w) PROVE IInv'
    <2> DEFINE packs == {b \in Batches : Exists(b)}
               tx == [pc |-> "completing", packs |-> packs]
    <2>1. packs # {} /\ job' = [job EXCEPT ![w] = tx]
      BY <1>5 DEF CompleteCheck, CountPacks
    <2>2. tx \in Job /\ tx.pc = "completing" /\ tx.packs = packs
      BY DEF Job
    <2> HIDE DEF tx
    <2>3. /\ job' \in [Workers -> Job] /\ job'[w] = tx
          /\ \A v \in Workers \ {w} : job'[v] = job[v]
      BY <1>0, <2>1, <2>2 DEF TypeOK
    <2>4. ASSUME NEW b \in packs PROVE Accounted(b)'
      <3>1. Resolved(b) /\ UNCHANGED <<inspections, analyses>>
        BY <1>5 DEF CompleteCheck, tables
      <3>2. Accounted(b)
        BY <1>0, <3>1 DEF TableInv, ClosedIsPassed, Resolved, Accounted
      <3>3. QED
        BY <3>1, <3>2 DEF Accounted, PassedAt, InspectionsAt, AnalysesOf
    <2>5. ValidJob(w)'
      BY <2>1, <2>2, <2>3, <2>4 DEF ValidJob
    <2>6. QED
      BY <1>5, <2>3, <2>5, ReadPreserves DEF CompleteCheck
  <1>6. ASSUME CompleteCommit(w) PROVE IInv'
    <2>1. InspectionsGrow /\ TableInv'
      BY <1>0, <1>6, InspectionsKept, TablesKept DEF CompleteCommit
    <2>2. QED
      BY <1>0, <1>6, <2>1, WritePreserves DEF CompleteCommit, Finish, TypeOK
  <1>7. QED
    BY <1>1, <1>2, <1>3, <1>4, <1>5, <1>6 DEF Plan

(* The newest verdict at a gate is one of the verdicts given there. *)
LEMMA GateIsPassed ==
    ASSUME TypeOK, NEW b \in Batches, NEW st, PassesGate(b, st)
    PROVE  PassedAt(b, st)
  <1>1. PICK i \in InspectionsAt(b, st) : LatestVerdict(i) = "PASSED"
    BY DEF PassesGate
  <1>2. inspections[i] \in Inspection
    BY DEF TypeOK, InspectionsAt
  <1>3. inspections[i].decisions \in Seq(Decision)
    BY <1>2 DEF Inspection
  <1>4. inspections[i].decisions # <<>>
    BY <1>1 DEF LatestVerdict
  <1>5. Len(inspections[i].decisions) \in 1..Len(inspections[i].decisions)
    BY <1>3, <1>4
  <1>6. inspections[i].decisions[Len(inspections[i].decisions)].verdict
          = "PASSED"
    BY <1>1, <1>4 DEF LatestVerdict
  <1>7. QED
    BY <1>5, <1>6 DEF PassedAt

(* An accepted scan: the hop it records is a release or left a station     *)
(* where the pack had passed.                                              *)
LEMMA AdvancePreserves ==
    ASSUME IInv, lapped' \in BOOLEAN, NEW w \in Workers,
           job' = [job EXCEPT ![w] = Idle],
           NEW b \in Batches, NEW seen \in Position, seen.pos < LastStep,
           Advance(b, seen),
           UNCHANGED <<project, violations, inspections, analyses>>,
           \/ seen.station.stage = Origin.stage
           \/ PassedAt(b, seen.station)
    PROVE  IInv'
  <1>1. TypeOK /\ TableInv /\ Len(violations) <= Len(violations)
    BY DEF IInv, TypeOK
  <1>2. /\ batch' \in [Batches -> BatchRow]
        /\ trail' \in [Batches -> Seq(Hop)]
        /\ \A c \in Batches :
             /\ batch'[c].status = batch[c].status
             /\ batch'[c].at = IF c = b THEN Expected(seen) ELSE batch[c].at
        /\ \A c \in Batches \ {b} : trail'[c] = trail[c]
        /\ Len(trail'[b]) = Len(trail[b]) + 1
        /\ \A h \in 1..Len(trail[b]) : trail'[b][h] = trail[b][h]
        /\ trail'[b][Len(trail[b]) + 1].from = seen.station
    BY <1>1, PackMoved
  <1>3. InspectionsGrow
    BY <1>1, InspectionsKept
  <1>4. AtItsStep'
    BY <1>1, <1>2, ExpectedIsNext DEF TableInv, AtItsStep
  <1>5. HopsAreCovered'
    <2>1. SUFFICES ASSUME NEW c \in Batches, NEW h \in 1..Len(trail'[c]),
                          trail'[c][h].from.stage # Origin.stage
                   PROVE  PassedAt(c, trail'[c][h].from)
      BY DEF HopsAreCovered, PassedAt, InspectionsAt
    <2>2. Len(trail[c]) \in Nat
      BY <1>1 DEF TypeOK
    <2>3. CASE c # b
      BY <1>1, <1>2, <2>1, <2>3 DEF TableInv, HopsAreCovered
    <2>4. CASE c = b /\ h \in 1..Len(trail[c])
      BY <1>1, <1>2, <2>1, <2>4 DEF TableInv, HopsAreCovered
    <2>5. CASE c = b /\ h = Len(trail[c]) + 1
      BY <1>2, <2>1, <2>5
    <2>6. QED
      BY <1>2, <2>2, <2>3, <2>4, <2>5
  <1>6. ClosedIsPassed'
    <2>1. \A c \in Batches : batch'[c].status = batch[c].status
      BY <1>2
    <2>2. \A c \in Batches : PassedAt(c, Route[LastStep])' <=>
                             PassedAt(c, Route[LastStep])
      BY DEF PassedAt, InspectionsAt, LastStep
    <2>3. QED
      BY <1>1, <2>1, <2>2 DEF TableInv, ClosedIsPassed
  <1>7. FateHasGrounds'
    <2>1. \A c \in Batches : batch'[c].status = batch[c].status
      BY <1>2
    <2>2. QED
      BY <1>1, <2>1 DEF TableInv, FateHasGrounds, NotPassed, AnalysesOf
  <1>8. AnalysesRefer' /\ AnalysesAreGrounded'
    BY <1>1 DEF TableInv, AnalysesRefer, AnalysesAreGrounded, NotPassed
  <1>9. TableInv'
    BY <1>4, <1>5, <1>6, <1>7, <1>8 DEF TableInv
  <1>10. QED
    BY <1>1, <1>2, <1>3, <1>9, WritePreserves DEF TypeOK

(* Scanning: POST /stage-events and the resolution of violations. *)
LEMMA ScanPreserves ==
    ASSUME IInv, lapped' \in BOOLEAN, NEW w \in Workers, Scan(w)
    PROVE  IInv'
  <1>0. TypeOK /\ TableInv /\ Len(violations) <= Len(violations) /\ ValidJob(w)
    BY DEF IInv, TypeOK
  <1>1. ASSUME NEW b \in Batches, ScanLoad(w, b)
        PROVE  IInv'
    <2>1. batch[b].at \in Position
      BY <1>0 DEF TypeOK, BatchRow
    <2>2. [pc |-> "scan", batch |-> b, seen |-> batch[b].at] \in Job
      BY <2>1 DEF Job
    <2>3. /\ job' \in [Workers -> Job]
          /\ job'[w] = [pc |-> "scan", batch |-> b, seen |-> batch[b].at]
          /\ \A v \in Workers \ {w} : job'[v] = job[v]
      BY <1>0, <1>1, <2>2, BeginsJob DEF ScanLoad
    <2>4. batch[b].at.pos < LastStep
      BY <1>1, <2>1, RouteSteps DEF ScanLoad, RouteComplete, Position
    <2>5. ValidJob(w)'
      BY <1>0, <2>3, <2>4 DEF ValidJob, TableInv, AtItsStep
    <2>6. QED
      BY <1>1, <2>3, <2>5, ReadPreserves DEF ScanLoad
  <1>2. ASSUME ScanBlocked(w) PROVE IInv'
    <2>1. PICK st \in Stations : violations' = Append(violations,
            [batch |-> job[w].batch, attempted |-> st, resolved |-> FALSE])
      BY <1>2 DEF ScanBlocked
    <2>2. [batch |-> job[w].batch, attempted |-> st, resolved |-> FALSE]
            \in Violation
      BY <1>0, <1>2, JobShapes DEF ScanBlocked, Finish, Violation
    <2>3. /\ violations' \in Seq(Violation)
          /\ Len(violations') = Len(violations) + 1
          /\ Len(violations) \in Nat
      BY <1>0, <2>1, <2>2, AppendProperties DEF TypeOK
    <2>4. InspectionsGrow /\ TableInv'
      BY <1>0, <1>2, InspectionsKept, TablesKept DEF ScanBlocked
    <2>5. QED
      <3>1. /\ job' = [job EXCEPT ![w] = Idle]
            /\ UNCHANGED <<project, batch, trail, analyses>>
        BY <1>2 DEF ScanBlocked, Finish
      <3>2. Len(violations) <= Len(violations')
        BY <2>3
      <3>3. QED
        BY <1>0, <2>3, <2>4, <3>1, <3>2, WritePreserves DEF TypeOK
  <1>3. ASSUME ScanRelease(w) PROVE IInv'
    <2>1. /\ job[w].batch \in Batches
          /\ job[w].seen \in Position
          /\ job[w].seen.pos < LastStep
          /\ job[w].seen.station.stage = Origin.stage
      BY <1>0, <1>3, JobShapes DEF ScanRelease, Finish, ValidJob, PreRoute
    <2>2. QED
      BY <1>3, <2>1, AdvancePreserves DEF ScanRelease, Finish
  <1>4. ASSUME ScanGate(w) PROVE IInv'
    <2>1. Continue(w, "scan", "receive") /\ job[w].pc = "scan"
      BY <1>4 DEF ScanGate, Continue
    <2>2. /\ job[w].batch \in Batches
          /\ job[w].seen \in Position
      BY <1>0, <2>1, JobShapes
    <2>3. job[w].seen.pos \in Nat
      BY <2>2 DEF Position
    <2>4. PICK st \in GateStations(job[w].seen) : PassesGate(job[w].batch, st)
      BY <1>4 DEF ScanGate
    <2>5. st = job[w].seen.station
      BY <1>0, <2>1, <2>3, <2>4 DEF GateStations, ValidJob
    <2>6. PassedAt(job[w].batch, job[w].seen.station)
      BY <1>0, <2>2, <2>4, <2>5, GateIsPassed
    <2>7. job' \in [Workers -> Job]
      BY <1>0, <2>1, ContinueKeepsJob
    <2>8. /\ job'[w].pc = "receive"
          /\ job'[w].batch = job[w].batch
          /\ job'[w].seen = job[w].seen
          /\ \A v \in Workers \ {w} : job'[v] = job[v]
      <3>1. PICK b \in Batches, at \in Position :
              job[w] = [pc |-> "scan", batch |-> b, seen |-> at]
        BY <1>0, <2>1, JobShapes
      <3>2. QED
        BY <1>0, <2>1, <3>1 DEF TypeOK, Continue
    <2>9. PassedAt(job[w].batch, job[w].seen.station)'
      BY <1>4, <2>6, <2>8 DEF ScanGate, tables, PassedAt, InspectionsAt
    <2>10. ValidJob(w)'
      BY <1>0, <2>1, <2>8, <2>9 DEF ValidJob
    <2>11. QED
      BY <1>4, <2>7, <2>8, <2>10, ReadPreserves DEF ScanGate
  <1>5. ASSUME ScanReceive(w) PROVE IInv'
    <2>1. /\ job[w].batch \in Batches
          /\ job[w].seen \in Position
          /\ job[w].seen.pos < LastStep
          /\ PassedAt(job[w].batch, job[w].seen.station)
      BY <1>0, <1>5, JobShapes DEF ScanReceive, Finish, ValidJob
    <2>2. QED
      BY <1>5, <2>1, AdvancePreserves DEF ScanReceive, Finish
  <1>6. ASSUME NEW i \in 1..Len(violations), ResolveLoad(w, i) PROVE IInv'
    <2>1. [pc |-> "resolve", violation |-> i] \in Job
      BY <1>0 DEF Job, TypeOK
    <2>2. /\ job' \in [Workers -> Job]
          /\ job'[w] = [pc |-> "resolve", violation |-> i]
          /\ \A v \in Workers \ {w} : job'[v] = job[v]
      BY <1>0, <1>6, <2>1, BeginsJob DEF ResolveLoad
    <2>3. ValidJob(w)'
      BY <1>6, <2>2 DEF ValidJob, ResolveLoad, tables
    <2>4. QED
      BY <1>6, <2>2, <2>3, ReadPreserves DEF ResolveLoad
  <1>7. ASSUME ResolveCommit(w) PROVE IInv'
    <2>1. job[w].violation \in 1..Len(violations)
      BY <1>0, <1>7 DEF ResolveCommit, Finish, ValidJob
    <2>2. violations[job[w].violation] \in Violation
      BY <1>0, <2>1 DEF TypeOK
    <2>3. [violations[job[w].violation] EXCEPT !.resolved = TRUE] \in Violation
      BY <2>2 DEF Violation
    <2>4. violations' \in Seq(Violation) /\ Len(violations') = Len(violations)
      BY <1>0, <1>7, <2>1, <2>3, ExceptSeq DEF TypeOK, ResolveCommit
    <2>5. InspectionsGrow /\ TableInv'
      BY <1>0, <1>7, InspectionsKept, TablesKept DEF ResolveCommit
    <2>6. QED
      BY <1>0, <1>7, <2>4, <2>5, WritePreserves
         DEF ResolveCommit, Finish, TypeOK
  <1>8. QED
    BY <1>1, <1>2, <1>3, <1>4, <1>5, <1>6, <1>7 DEF Scan

(* Quality control: inspections and their verdicts. *)
LEMMA ControlPreserves ==
    ASSUME IInv, lapped' \in BOOLEAN, NEW w \in Workers, Control(w)
    PROVE  IInv'
  <1>0. TypeOK /\ TableInv /\ Len(violations) <= Len(violations) /\ ValidJob(w)
    BY DEF IInv, TypeOK
  <1>1. ASSUME NEW b \in Batches, NEW st \in Stations, NewInspection(b, st),
               UNCHANGED <<project, batch, trail, violations, analyses>>,
               job' = [job EXCEPT ![w] = Idle]
        PROVE  IInv'
    <2>1. InspectionsGrow
      BY <1>0, <1>1, InspectionAdded
    <2>2. AtItsStep'
      BY <1>0, <1>1 DEF TableInv, AtItsStep
    <2>3. TableInv'
      BY <1>0, <1>1, <2>1, <2>2, TableInvStep
    <2>4. QED
      BY <1>0, <1>1, <2>1, <2>3, WritePreserves DEF TypeOK
  <1>2. ASSUME NEW b \in Batches, NEW st \in Stations, Inspect(w, b, st)
        PROVE  IInv'
    <2>1. job' = [job EXCEPT ![w] = Idle]
      BY <1>0, <1>2 DEF Inspect, TypeOK
    <2>2. QED
      BY <1>1, <1>2, <2>1 DEF Inspect
  <1>3. ASSUME NEW b \in Batches, LookUpPack(w, b) PROVE IInv'
    <2>1. [pc |-> "open", batch |-> b, station |-> batch[b].at.station] \in Job
      BY <1>0 DEF Job, TypeOK, BatchRow, Position
    <2>2. /\ job' \in [Workers -> Job]
          /\ job'[w].pc = "open"
          /\ \A v \in Workers \ {w} : job'[v] = job[v]
      BY <1>0, <1>3, <2>1, BeginsJob DEF LookUpPack
    <2>3. ValidJob(w)'
      BY <2>2 DEF ValidJob
    <2>4. QED
      BY <1>3, <2>2, <2>3, ReadPreserves DEF LookUpPack
  <1>4. ASSUME OpenInspection(w) PROVE IInv'
    <2>1. job[w].batch \in Batches /\ job[w].station \in Stations
      BY <1>0, <1>4, JobShapes DEF OpenInspection, Finish
    <2>2. QED
      BY <1>1, <1>4, <2>1 DEF OpenInspection, Finish
  <1>5. ASSUME NEW i \in 1..Len(inspections), DecideLoad(w, i) PROVE IInv'
    <2>1. [pc |-> "decide", inspection |-> i] \in Job
      BY <1>0 DEF Job, TypeOK
    <2>2. /\ job' \in [Workers -> Job]
          /\ job'[w] = [pc |-> "decide", inspection |-> i]
          /\ \A v \in Workers \ {w} : job'[v] = job[v]
      BY <1>0, <1>5, <2>1, BeginsJob DEF DecideLoad
    <2>3. ValidJob(w)'
      BY <1>5, <2>2 DEF ValidJob, DecideLoad, tables
    <2>4. QED
      BY <1>5, <2>2, <2>3, ReadPreserves DEF DecideLoad
  <1>6. ASSUME DecideCommit(w) PROVE IInv'
    <2>1. /\ job[w].inspection \in 1..Len(inspections)
          /\ job' = [job EXCEPT ![w] = Idle]
          /\ UNCHANGED <<project, trail, violations, analyses>>
      BY <1>0, <1>6 DEF DecideCommit, Finish, ValidJob
    <2>2. PICK i \in 1..Len(inspections) : i = job[w].inspection
      BY <2>1
    <2>3. PICK verdict \in Verdicts :
            /\ RecordVerdict(i, verdict)
            /\ IF Quarantines(verdict)
               THEN SetStatus(inspections[i].batch, "HELD")
               ELSE UNCHANGED batch
      BY <1>6, <2>2 DEF DecideCommit
    <2>4. InspectionsGrow
      BY <1>0, <2>3, VerdictGrows
    <2>5. inspections[i].batch \in Batches
      <3>1. inspections[i] \in Inspection
        BY <1>0 DEF TypeOK
      <3>2. QED
        BY <3>1 DEF Inspection
    <2>6. PICK b \in Batches : b = inspections[i].batch
      BY <2>5
    <2>7. /\ batch' \in [Batches -> BatchRow]
          /\ \A c \in Batches : batch'[c].at = batch[c].at
          /\ \A c \in Batches :
               \/ batch'[c].status = batch[c].status
               \/ Quarantines(verdict) /\ c = b /\ batch'[c].status = "HELD"
      <3>1. CASE Quarantines(verdict)
        <4>1. SetStatus(b, "HELD")
          BY <2>3, <2>6, <3>1
        <4>2. /\ batch' \in [Batches -> BatchRow]
              /\ \A c \in Batches :
                   /\ batch'[c].status
                        = IF c = b THEN "HELD" ELSE batch[c].status
                   /\ batch'[c].at = batch[c].at
          BY <1>0, <4>1, StatusSet
        <4>3. QED
          BY <3>1, <4>2
      <3>2. CASE ~Quarantines(verdict)
        BY <1>0, <2>3, <3>2 DEF TypeOK
      <3>3. QED
        BY <3>1, <3>2
    <2>8. ASSUME Quarantines(verdict) PROVE Adverse(b)'
      <3>1. /\ inspections'[i].batch = b
            /\ Len(inspections') = Len(inspections)
            /\ Len(inspections'[i].decisions)
                 = Len(inspections[i].decisions) + 1
            /\ inspections'[i].decisions[Len(inspections[i].decisions) + 1]
                 .verdict = verdict
        BY <1>0, <2>3, <2>6, VerdictAdded
      <3>2. Len(inspections[i].decisions) \in Nat
        <4>1. inspections[i] \in Inspection
          BY <1>0 DEF TypeOK
        <4>2. QED
          BY <4>1 DEF Inspection
      <3>3. Len(inspections[i].decisions) + 1
              \in 1..Len(inspections'[i].decisions)
        BY <3>1, <3>2
      <3>4. NotPassed(i)'
        BY <2>8, <3>1, <3>3 DEF NotPassed, Quarantines
      <3>5. QED
        BY <3>1, <3>4 DEF Adverse
    <2>9. AtItsStep'
      BY <1>0, <2>7 DEF TableInv, AtItsStep
    <2>10. \A c \in Batches :
             \/ batch'[c].status = batch[c].status
             \/ batch'[c].status = "HELD" /\ Adverse(c)'
      <3> TAKE c \in Batches
      <3>1. CASE Quarantines(verdict) /\ c = b
        <4>1. Adverse(b)' /\ (batch'[c].status = batch[c].status
                               \/ batch'[c].status = "HELD")
          BY <2>7, <2>8, <3>1
        <4>2. QED
          BY <3>1, <4>1 DEF Adverse
      <3>2. CASE ~(Quarantines(verdict) /\ c = b)
        BY <2>7, <3>2
      <3>3. QED
        BY <3>1, <3>2
    <2>11. TableInv'
      <3>1. \A c \in Batches :
             \/ batch'[c].status = batch[c].status
             \/ batch'[c].status \in {"PLANNED", "ACTIVE"}
             \/ batch'[c].status = "HELD" /\ Adverse(c)'
             \/ batch'[c].status = "CLOSED" /\ PassedAt(c, Route[LastStep])'
        BY <2>10
      <3>2. QED
        BY <1>0, <2>1, <2>4, <2>9, <3>1, TableInvStep
    <2>12. QED
      BY <1>0, <2>1, <2>4, <2>7, <2>11, WritePreserves DEF TypeOK
  <1>7. QED
    BY <1>2, <1>3, <1>4, <1>5, <1>6 DEF Control

(* A transaction whose next read changes nothing it relies on. *)
LEMMA ContinuePreserves ==
    ASSUME IInv, lapped' \in BOOLEAN, NEW w \in Workers,
           NEW from, NEW to, Continue(w, from, to),
           UNCHANGED tables,
           \/ from = "analyse" /\ to = "dispose"
           \/ /\ from = "close" /\ to = "closing"
              /\ PassedAt(job[w].batch, Route[LastStep])
    PROVE  IInv'
  <1>1. TypeOK /\ ValidJob(w) /\ job[w].pc = from
    BY DEF IInv, Continue
  <1>2. job' \in [Workers -> Job]
    BY <1>1, ContinueKeepsJob
  <1>3. \A v \in Workers \ {w} : job'[v] = job[v]
    BY <1>1 DEF Continue, TypeOK
  <1>4. CASE from = "analyse"
    <2>1. PICK i \in Nat : job[w] = [pc |-> "analyse", inspection |-> i]
      BY <1>1, <1>4, JobShapes
    <2>2. job'[w] = [pc |-> "dispose", inspection |-> i]
      BY <1>1, <1>4, <2>1 DEF Continue, TypeOK
    <2>3. i \in 1..Len(inspections) /\ NotPassed(i)
      BY <1>1, <2>1 DEF ValidJob
    <2>4. ValidJob(w)'
      BY <2>2, <2>3 DEF ValidJob, NotPassed, tables
    <2>5. QED
      BY <1>2, <1>3, <2>4, ReadPreserves
  <1>5. CASE from = "close"
    <2>1. PICK b \in Batches : job[w] = [pc |-> "close", batch |-> b]
      BY <1>1, <1>5, JobShapes
    <2>2. job'[w] = [pc |-> "closing", batch |-> b]
      BY <1>1, <1>5, <2>1 DEF Continue, TypeOK
    <2>3. PassedAt(b, Route[LastStep])
      BY <1>5, <2>1
    <2>4. ValidJob(w)'
      BY <2>2, <2>3 DEF ValidJob, PassedAt, InspectionsAt, tables
    <2>5. QED
      BY <1>2, <1>3, <2>4, ReadPreserves
  <1>6. QED
    BY <1>4, <1>5

(* A verdict that did not pass is answered once, and decides the status.   *)
LEMMA AnalysePreserves ==
    ASSUME IInv, lapped' \in BOOLEAN, NEW w \in Workers, AnalyseCommit(w)
    PROVE  IInv'
  <1>0. /\ TypeOK /\ TableInv /\ Len(violations) <= Len(violations)
        /\ ValidJob(w)
        /\ job' = [job EXCEPT ![w] = Idle]
        /\ UNCHANGED <<project, trail, violations, inspections>>
    BY DEF IInv, TypeOK, AnalyseCommit, Finish
  <1>1. PICK i \in 1..Len(inspections) :
          /\ i = job[w].inspection
          /\ NotPassed(i)
          /\ ~Analysed(i)
    BY <1>0 DEF AnalyseCommit, Finish, ValidJob
  <1>2. PICK disposition \in Dispositions :
          /\ analyses' = Append(analyses, [inspection |-> i,
                                           disposition |-> disposition])
          /\ SetStatus(inspections[i].batch, StatusAfter(disposition))
    BY <1>1 DEF AnalyseCommit
  <1>3. /\ analyses' \in Seq(Analysis)
        /\ Len(analyses) \in Nat
        /\ Len(analyses') = Len(analyses) + 1
        /\ \A a \in 1..Len(analyses) : analyses'[a] = analyses[a]
        /\ analyses'[Len(analyses) + 1].inspection = i
        /\ analyses'[Len(analyses) + 1].disposition = disposition
    <2>1. [inspection |-> i, disposition |-> disposition] \in Analysis
      BY <1>0 DEF Analysis, TypeOK
    <2>2. PICK row \in Analysis :
            row = [inspection |-> i, disposition |-> disposition]
      BY <2>1
    <2>3. analyses' = Append(analyses, row)
      BY <1>2, <2>2
    <2>4. analyses'[Len(analyses) + 1] = row
      BY <1>0, <2>3, AppendProperties DEF TypeOK
    <2>5. QED
      BY <1>0, <2>2, <2>3, <2>4, AppendProperties DEF TypeOK
  <1>4. PICK b \in Batches : b = inspections[i].batch
    <2>1. inspections[i] \in Inspection
      BY <1>0 DEF TypeOK
    <2>2. QED
      BY <2>1 DEF Inspection
  <1>5. PICK status \in {"ACTIVE", "HELD", "SCRAPPED"} :
          /\ status = StatusAfter(disposition)
          /\ status = "SCRAPPED" => disposition = "SCRAP"
    BY DEF StatusAfter, Dispositions
  <1>6. /\ batch' \in [Batches -> BatchRow]
        /\ \A c \in Batches :
             /\ batch'[c].status = IF c = b THEN status ELSE batch[c].status
             /\ batch'[c].at = batch[c].at
    BY <1>0, <1>2, <1>4, <1>5, StatusSet
  <1>7. InspectionsGrow
    BY <1>0, InspectionsKept
  <1>8. AtItsStep'
    BY <1>0, <1>6 DEF TableInv, AtItsStep
  <1>9. HopsAreCovered'
    BY <1>0, <1>7, HopsStayCovered DEF TableInv
  <1>10. ClosedIsPassed'
    <2>1. \A c \in Batches :
            batch'[c].status = "CLOSED" => batch[c].status = "CLOSED"
      BY <1>6
    <2>2. QED
      BY <1>0, <2>1 DEF TableInv, ClosedIsPassed, PassedAt, InspectionsAt
  <1>11. AnalysesRefer'
    BY <1>0, <1>3 DEF TableInv, AnalysesRefer
  <1>12. AnalysesAreGrounded'
    <2>1. \A a \in 1..Len(analyses) : analyses[a].inspection # i
      BY <1>1 DEF Analysed
    <2>2. \A a \in 1..Len(analyses') :
            a \in 1..Len(analyses) \/ a = Len(analyses) + 1
      BY <1>3
    <2>3. ASSUME NEW a \in 1..Len(analyses')
          PROVE  NotPassed(analyses'[a].inspection)
      BY <1>0, <1>1, <1>3, <2>2 DEF TableInv, AnalysesAreGrounded
    <2>4. ASSUME NEW a \in 1..Len(analyses'), NEW other \in 1..Len(analyses'),
                 analyses'[other].inspection = analyses'[a].inspection
          PROVE  other = a
      BY <1>0, <1>3, <2>1, <2>2, <2>4 DEF TableInv, AnalysesAreGrounded
    <2>5. QED
      BY <1>0, <2>3, <2>4 DEF AnalysesAreGrounded, NotPassed
  <1>13. FateHasGrounds'
    <2>1. ASSUME NEW c \in Batches, batch'[c].status = "HELD"
          PROVE  Adverse(c)
      <3>1. CASE c = b
        BY <1>1, <1>4, <3>1 DEF Adverse
      <3>2. CASE c # b
        BY <1>0, <1>6, <2>1, <3>2 DEF TableInv, FateHasGrounds, Adverse
      <3>3. QED
        BY <3>1, <3>2
    <2>2. ASSUME NEW c \in Batches, batch'[c].status = "SCRAPPED"
          PROVE  ScrappedBy(c)'
      <3>1. CASE c = b
        <4>1. /\ Len(analyses) + 1 \in 1..Len(analyses')
              /\ analyses'[Len(analyses) + 1].disposition = "SCRAP"
          BY <1>3, <1>5, <1>6, <2>2, <3>1
        <4>2. Len(analyses) + 1 \in AnalysesOf(c)'
          BY <1>0, <1>3, <1>4, <3>1, <4>1 DEF AnalysesOf
        <4>3. QED
          BY <4>1, <4>2 DEF ScrappedBy
      <3>2. CASE c # b
        <4>1. ScrappedBy(c)
          BY <1>0, <1>6, <2>2, <3>2 DEF TableInv, FateHasGrounds, ScrappedBy
        <4>2. QED
          BY <1>0, <1>3, <4>1 DEF ScrappedBy, AnalysesOf
      <3>3. QED
        BY <3>1, <3>2
    <2>3. \A c \in Batches : Adverse(c) => Adverse(c)'
      BY <1>0 DEF Adverse, NotPassed
    <2>4. QED
      BY <2>1, <2>2, <2>3 DEF FateHasGrounds, Adverse, ScrappedBy
  <1>14. TableInv'
    BY <1>8, <1>9, <1>10, <1>11, <1>12, <1>13 DEF TableInv
  <1>15. QED
    BY <1>0, <1>3, <1>6, <1>7, <1>14, WritePreserves DEF TypeOK, AnalysesGrow

(* Production: analysis and closure.                                       *)
LEMMA ProductionPreserves ==
    ASSUME IInv, lapped' \in BOOLEAN, NEW w \in Workers, Production(w)
    PROVE  IInv'
  <1>0. TypeOK /\ TableInv /\ Len(violations) <= Len(violations) /\ ValidJob(w)
    BY DEF IInv, TypeOK
  <1>1. ASSUME NEW i \in 1..Len(inspections), AnalyseLoad(w, i) PROVE IInv'
    <2>1. [pc |-> "analyse", inspection |-> i] \in Job
      BY <1>0 DEF Job, TypeOK
    <2>2. /\ job' \in [Workers -> Job]
          /\ job'[w] = [pc |-> "analyse", inspection |-> i]
          /\ \A v \in Workers \ {w} : job'[v] = job[v]
      BY <1>0, <1>1, <2>1, BeginsJob DEF AnalyseLoad
    <2>3. NotPassed(i)
      <3>1. inspections[i] \in Inspection
        BY <1>0 DEF TypeOK
      <3>2. inspections[i].decisions \in Seq(Decision)
        BY <3>1 DEF Inspection
      <3>3. LatestVerdict(i) \in {"FAILED", "HOLD"}
        BY <1>1 DEF AnalyseLoad
      <3>4. inspections[i].decisions # <<>>
        BY <3>3 DEF LatestVerdict
      <3>5. Len(inspections[i].decisions) \in 1..Len(inspections[i].decisions)
        BY <3>2, <3>4
      <3>6. QED
        BY <3>3, <3>4, <3>5 DEF LatestVerdict, NotPassed
    <2>4. ValidJob(w)'
      BY <1>1, <2>2, <2>3 DEF ValidJob, AnalyseLoad, tables, NotPassed
    <2>5. QED
      BY <1>1, <2>2, <2>4, ReadPreserves DEF AnalyseLoad
  <1>2. ASSUME AnalyseCheck(w) PROVE IInv'
    BY <1>2, ContinuePreserves DEF AnalyseCheck
  <1>3. ASSUME AnalyseCommit(w) PROVE IInv'
    BY <1>3, AnalysePreserves
  <1>4. ASSUME NEW b \in Batches, CloseLoad(w, b) PROVE IInv'
    <2>1. [pc |-> "close", batch |-> b] \in Job
      BY DEF Job
    <2>2. /\ job' \in [Workers -> Job]
          /\ job'[w].pc = "close"
          /\ \A v \in Workers \ {w} : job'[v] = job[v]
      BY <1>0, <1>4, <2>1, BeginsJob DEF CloseLoad
    <2>3. ValidJob(w)'
      BY <2>2 DEF ValidJob
    <2>4. QED
      BY <1>4, <2>2, <2>3, ReadPreserves DEF CloseLoad
  <1>5. ASSUME CloseGate(w) PROVE IInv'
    <2>1. job[w].batch \in Batches
      BY <1>0, <1>5, JobShapes DEF CloseGate, Continue
    <2>2. PassedAt(job[w].batch, Route[LastStep])
      BY <1>0, <1>5, <2>1, GateIsPassed DEF CloseGate
    <2>3. QED
      BY <1>5, <2>2, ContinuePreserves DEF CloseGate
  <1>6. ASSUME CloseCommit(w) PROVE IInv'
    <2>1. /\ job[w].batch \in Batches
          /\ PassedAt(job[w].batch, Route[LastStep])
          /\ job' = [job EXCEPT ![w] = Idle]
          /\ SetStatus(job[w].batch, "CLOSED")
          /\ UNCHANGED <<project, trail, violations, inspections, analyses>>
      BY <1>0, <1>6, JobShapes DEF CloseCommit, Finish, ValidJob
    <2>2. PICK b \in Batches : b = job[w].batch
      BY <2>1
    <2>3. /\ batch' \in [Batches -> BatchRow]
          /\ \A c \in Batches :
               /\ batch'[c].status = IF c = b THEN "CLOSED" ELSE batch[c].status
               /\ batch'[c].at = batch[c].at
      BY <1>0, <2>1, <2>2, StatusSet
    <2>4. InspectionsGrow
      BY <1>0, <2>1, InspectionsKept
    <2>5. AtItsStep'
      BY <1>0, <2>3 DEF TableInv, AtItsStep
    <2>6. PassedAt(b, Route[LastStep])'
      BY <2>1, <2>2 DEF PassedAt, InspectionsAt
    <2>7. \A c \in Batches :
            \/ batch'[c].status = batch[c].status
            \/ batch'[c].status = "CLOSED" /\ PassedAt(c, Route[LastStep])'
      BY <2>3, <2>6
    <2>8. TableInv'
      BY <1>0, <2>1, <2>4, <2>5, <2>7, TableInvStep
    <2>9. QED
      BY <1>0, <2>1, <2>3, <2>4, <2>8, WritePreserves DEF TypeOK
  <1>7. QED
    BY <1>1, <1>2, <1>3, <1>4, <1>5, <1>6 DEF Production

(* A rollback takes nothing with it but the transaction. *)
LEMMA AbortPreserves ==
    ASSUME IInv, lapped' \in BOOLEAN, NEW w \in Workers, Abort(w)
    PROVE  IInv'
  <1>1. /\ job' \in [Workers -> Job]
        /\ job'[w] = Idle
        /\ \A v \in Workers \ {w} : job'[v] = job[v]
    BY EndsJob DEF Abort, IInv
  <1>2. ValidJob(w)'
    BY <1>1 DEF ValidJob, Idle
  <1>3. QED
    BY <1>1, <1>2, ReadPreserves DEF Abort

(* A new database satisfies it. *)
LEMMA InitIsValid == Init => IInv
  <1>1. SUFFICES ASSUME Init PROVE IInv
    OBVIOUS
  <1>2. TypeOK
    <2>1. Start(Origin) \in Position
      BY RouteSteps DEF Start, Position
    <2>2. batch \in [Batches -> BatchRow]
      BY <1>1, <2>1 DEF Init, BatchRow
    <2>3. lapped \in BOOLEAN
      BY <1>1 DEF Init
    <2>4. QED
      BY <1>1, <2>2, <2>3 DEF Init, TypeOK, Job
  <1>3. TableInv
    BY <1>1 DEF Init, TableInv, AtItsStep, AnalysesRefer, HopsAreCovered,
       ClosedIsPassed, FateHasGrounds, AnalysesAreGrounded, Start
  <1>4. \A w \in Workers : ValidJob(w)
    BY <1>1 DEF Init, ValidJob, Idle
  <1>5. QED
    BY <1>2, <1>3, <1>4 DEF IInv

(* No step of any transaction, at any interleaving, breaks the invariant.  *)
LEMMA StepPreserves == IInv /\ [Next]_vars => IInv'
  <1>1. SUFFICES ASSUME IInv, [Next]_vars PROVE IInv'
    OBVIOUS
  <1>2. CASE UNCHANGED vars
    <2>1. InspectionsGrow /\ TypeOK' /\ UNCHANGED <<violations, job>>
      BY <1>1, <1>2, InspectionsKept DEF IInv, TypeOK, vars
    <2>2. TableInv'
      BY <1>1, <1>2, TablesKept DEF IInv, vars
    <2>3. ASSUME NEW w \in Workers PROVE ValidJob(w)'
      <3>1. violations' \in Seq(Violation) /\ Len(violations) <= Len(violations')
        BY <1>1, <2>1 DEF IInv, TypeOK
      <3>2. AccountsStay
        BY <1>1, <1>2, <2>1, AccountsKept DEF IInv, TableInv, vars
      <3>3. QED
        BY <1>1, <2>1, <3>1, <3>2, ValidJobKept DEF IInv
    <2>4. QED
      BY <2>1, <2>2, <2>3 DEF IInv
  <1>3. CASE Next
    <2>1. PICK w \in Workers :
            /\ Plan(w) \/ Scan(w) \/ Control(w) \/ Production(w) \/ Abort(w)
            /\ lapped' \in BOOLEAN
      BY <1>1, <1>3 DEF Next, IInv, TypeOK
    <2>2. QED
      BY <1>1, <2>1, PlanPreserves, ScanPreserves, ControlPreserves,
         ProductionPreserves, AbortPreserves
  <1>4. QED
    BY <1>1, <1>2, <1>3

-----------------------------------------------------------------------------
(* The inductive invariant of the floor: types, the properties below, that *)
(* a pack is where its step says, and that what a transaction has read and *)
(* relies on is still true when it writes.                                 *)
THEOREM Inductive == Spec => []IInv
  BY InitIsValid, StepPreserves, PTL DEF Spec

(* Every table keeps the types of the Prisma schema, and every transaction *)
(* the shape its command gives it.                                         *)
THEOREM TypeCorrect == Spec => []TypeOK
  <1>1. IInv => TypeOK
    BY DEF IInv
  <1>2. QED
    BY <1>1, Inductive, PTL

(* However scans, verdicts and closures interleave, no pack is received at *)
(* a station without having passed, at some time, at the one it left.      *)
THEOREM HopsCovered == Spec => []HopsAreCovered
  <1>1. IInv => HopsAreCovered
    BY DEF IInv, TableInv
  <1>2. QED
    BY <1>1, Inductive, PTL

(* POST /batches/:id/closure never closes a pack that did not pass at the  *)
(* last station of its route.                                              *)
THEOREM ClosedPassed == Spec => []ClosedIsPassed
  <1>1. IInv => ClosedIsPassed
    BY DEF IInv, TableInv
  <1>2. QED
    BY <1>1, Inductive, PTL

(* QC tags and production disposes: no pack is quarantined without a       *)
(* verdict against it, none scrapped without an analysis that says so.     *)
THEOREM FateGrounded == Spec => []FateHasGrounds
  <1>1. IInv => FateHasGrounds
    BY DEF IInv, TableInv
  <1>2. QED
    BY <1>1, Inductive, PTL

(* POST /defect-analyses answers only verdicts that did not pass, each of  *)
(* them once, though its check and its write are not atomic.               *)
THEOREM AnalysesGrounded == Spec => []AnalysesAreGrounded
  <1>1. IInv => AnalysesAreGrounded
    BY DEF IInv, TableInv
  <1>2. QED
    BY <1>1, Inductive, PTL
-----------------------------------------------------------------------------
(* Until two transactions overlap, what a transaction has read is what the *)
(* tables still say when it writes, and the books of the floor add up.     *)

IsNewest(b, a) ==
    a \in AnalysesOf(b) /\ \A other \in AnalysesOf(b) : other <= a

AbsentAtStart == \A b \in Batches : ~Exists(b) => batch[b].at.pos = 0

(* Every verdict but the closing one is a HOLD. *)
VerdictsInOrder ==
    \A i \in 1..Len(inspections) : \A d \in 1..Len(inspections[i].decisions) :
      d < Len(inspections[i].decisions) \/ Undecided(i)
        => inspections[i].decisions[d].verdict = "HOLD"

(* The status of a pack is what its newest analysis made it, unless it was *)
(* quarantined anew.                                                       *)
FatesFollow ==
    \A b \in Batches :
      /\ batch[b].status = "SCRAPPED" =>
           \E a \in AnalysesOf(b) :
             IsNewest(b, a) /\ analyses[a].disposition = "SCRAP"
      /\ \A a \in AnalysesOf(b) : IsNewest(b, a) =>
           /\ analyses[a].disposition = "SCRAP" =>
                batch[b].status \in {"SCRAPPED", "HELD"}
           /\ analyses[a].disposition = "REWORK" => batch[b].status = "HELD"

Books ==
    /\ LedgerIsRoute
    /\ ClosedIsComplete
    /\ AbsentAtStart
    /\ VerdictsInOrder
    /\ FatesFollow

(* What the transaction of w has read and checked still holds. *)
Current(w) ==
    /\ job[w].pc \in {"scan", "receive"} =>
         /\ job[w].seen = batch[job[w].batch].at
         /\ Scannable(batch[job[w].batch].status)
    /\ job[w].pc = "receive" => PassesGate(job[w].batch, job[w].seen.station)
    /\ job[w].pc = "decide" => Undecided(job[w].inspection)
    /\ job[w].pc \in {"close", "closing"} =>
         /\ batch[job[w].batch].status = "ACTIVE"
         /\ RouteComplete(batch[job[w].batch].at)
    /\ job[w].pc = "completing" => \A b \in Batches : Exists(b) => b \in job[w].packs

AllCurrent == \A w \in Workers : Current(w)

Serial == ~lapped => Books /\ AllCurrent

(* No other transaction is under way: only what w reads can matter. *)
LEMMA OnlyOne ==
    ASSUME TypeOK, NEW w \in Workers, ~Overlaps(w),
           \A v \in Workers \ {w} : job'[v] = job[v],
           Current(w)'
    PROVE  AllCurrent'
  <1>1. ASSUME NEW v \in Workers \ {w} PROVE Current(v)'
    <2>1. job'[v] = Idle
      BY DEF Overlaps
    <2>2. job'[v].pc = "idle"
      BY <2>1 DEF Idle
    <2>3. QED
      BY <2>2 DEF Current
  <1>2. QED
    BY <1>1 DEF AllCurrent

LEMMA NoneLeft ==
    ASSUME TypeOK, NEW w \in Workers, ~Overlaps(w),
           job' = [job EXCEPT ![w] = Idle]
    PROVE  AllCurrent'
  <1>1. job'[w].pc = "idle" /\ \A v \in Workers \ {w} : job'[v] = job[v]
    BY EndsJob DEF Idle
  <1>2. Current(w)'
    BY <1>1 DEF Current
  <1>3. QED
    BY <1>1, <1>2, OnlyOne

(* The analyses of a pack stay its analyses when inspections only grow. *)
LEMMA SameAnalyses ==
    ASSUME TypeOK, AnalysesRefer, InspectionsGrow, UNCHANGED analyses,
           NEW b \in Batches
    PROVE  /\ AnalysesOf(b)' = AnalysesOf(b)
           /\ \A a : IsNewest(b, a)' <=> IsNewest(b, a)
  <1>1. AnalysesOf(b)' = AnalysesOf(b)
    BY DEF AnalysesOf, AnalysesRefer, InspectionsGrow
  <1>2. QED
    BY <1>1 DEF IsNewest

(* The books speak of four of the tables. *)
LEMMA BooksKept ==
    ASSUME Books, UNCHANGED <<batch, trail, inspections, analyses>>
    PROVE  Books'
  <1>1. LedgerIsRoute' /\ ClosedIsComplete' /\ AbsentAtStart'
    BY DEF Books, LedgerIsRoute, ClosedIsComplete, AbsentAtStart, Exists,
       RouteComplete
  <1>2. VerdictsInOrder'
    BY DEF Books, VerdictsInOrder, Undecided
  <1>3. FatesFollow'
    BY DEF Books, FatesFollow, IsNewest, AnalysesOf
  <1>4. QED
    BY <1>1, <1>2, <1>3 DEF Books

(* Packs are planned and activated at the start of their route, and closed *)
(* at its end.                                                             *)
LEMMA PacksChange ==
    ASSUME TypeOK, TableInv, Books, UNCHANGED <<trail, inspections, analyses>>,
           batch' \in [Batches -> BatchRow],
           \A b \in Batches :
             \/ batch'[b] = batch[b]
             \/ /\ batch[b].status \in {"ABSENT", "PLANNED"}
                /\ batch'[b].status \in {"PLANNED", "ACTIVE"}
                /\ \/ batch'[b].at = batch[b].at
                   \/ batch[b].status = "ABSENT" /\ batch'[b].at.pos = 0
             \/ /\ batch[b].status = "ACTIVE" /\ batch'[b].status = "CLOSED"
                /\ batch'[b].at = batch[b].at
                /\ RouteComplete(batch[b].at)
    PROVE  Books'
  <1>1. \A b \in Batches : batch'[b].at.pos = batch[b].at.pos
    BY DEF Books, AbsentAtStart, Exists
  <1>2. LedgerIsRoute'
    BY <1>1 DEF Books, LedgerIsRoute
  <1>3. ClosedIsComplete'
    BY <1>1 DEF Books, ClosedIsComplete, RouteComplete
  <1>4. AbsentAtStart'
    BY <1>1 DEF Books, AbsentAtStart, Exists
  <1>5. VerdictsInOrder'
    BY DEF Books, VerdictsInOrder, Undecided
  <1>6. FatesFollow'
    <2>1. ASSUME NEW b \in Batches
          PROVE  /\ batch'[b].status = "SCRAPPED" <=> batch[b].status = "SCRAPPED"
                 /\ batch'[b].status = "HELD" <=> batch[b].status = "HELD"
      OBVIOUS
    <2>2. QED
      BY <2>1 DEF Books, FatesFollow, IsNewest, AnalysesOf
  <1>7. QED
    BY <1>2, <1>3, <1>4, <1>5, <1>6 DEF Books

(* An accepted scan of a pack that is where the scan saw it adds the next  *)
(* step to its ledger.                                                     *)
LEMMA ScanKeepsBooks ==
    ASSUME TypeOK, TableInv, Books, NEW b \in Batches,
           batch[b].at.pos < LastStep, Scannable(batch[b].status),
           Advance(b, batch[b].at),
           UNCHANGED <<inspections, analyses>>
    PROVE  Books'
  <1> DEFINE seen == batch[b].at
  <1>1. seen \in Position /\ seen.pos \in Nat /\ seen.pos < LastStep
    BY DEF TypeOK, BatchRow, Position
  <1>2. /\ \A c \in Batches :
             /\ batch'[c].status = batch[c].status
             /\ batch'[c].at = IF c = b THEN Expected(seen) ELSE batch[c].at
        /\ \A c \in Batches \ {b} : trail'[c] = trail[c]
        /\ Len(trail'[b]) = Len(trail[b]) + 1
        /\ \A h \in 1..Len(trail[b]) : trail'[b][h] = trail[b][h]
        /\ trail'[b][Len(trail[b]) + 1].from = seen.station
    BY <1>1, PackMoved
  <1>3. Expected(seen).pos = seen.pos + 1
    BY <1>1, ExpectedIsNext
  <1>4. Len(trail[b]) = seen.pos
    BY DEF Books, LedgerIsRoute
  <1>5. trail'[b][Len(trail[b]) + 1].step = seen.pos + 1
    <2> DEFINE hop == [from |-> seen.station, step |-> Expected(seen).pos]
    <2>1. hop \in Hop /\ hop.step = seen.pos + 1 /\ trail[b] \in Seq(Hop)
      BY <1>1, ExpectedIsNext DEF Hop, Position, TypeOK
    <2>2. trail'[b] = Append(trail[b], hop)
      BY DEF Advance, TypeOK
    <2> HIDE DEF hop
    <2>3. Append(trail[b], hop)[Len(trail[b]) + 1] = hop
      BY <2>1, AppendProperties
    <2>4. QED
      BY <2>1, <2>2, <2>3
  <1>6. seen.pos > 0 => seen.station = Route[seen.pos]
    BY DEF TableInv, AtItsStep
  <1> HIDE DEF seen
  <1>7. LedgerIsRoute'
    <2>1. ASSUME NEW c \in Batches \ {b}
          PROVE  /\ Len(trail'[c]) = batch'[c].at.pos
                 /\ \A h \in 1..Len(trail'[c]) :
                      /\ trail'[c][h].step = h
                      /\ h > 1 => trail'[c][h].from = Route[h - 1]
      BY <1>2 DEF Books, LedgerIsRoute
    <2>2. Len(trail'[b]) = batch'[b].at.pos
      BY <1>2, <1>3, <1>4
    <2>3. ASSUME NEW h \in 1..Len(trail'[b])
          PROVE  /\ trail'[b][h].step = h
                 /\ h > 1 => trail'[b][h].from = Route[h - 1]
      <3>1. CASE h \in 1..Len(trail[b])
        BY <1>2, <3>1 DEF Books, LedgerIsRoute
      <3>2. CASE h = Len(trail[b]) + 1
        <4>1. trail'[b][h].step = h
          BY <1>4, <1>5, <3>2
        <4>2. h > 1 => trail'[b][h].from = Route[h - 1]
          BY <1>1, <1>2, <1>4, <1>6, <3>2
        <4>3. QED
          BY <4>1, <4>2
      <3>3. QED
        BY <1>1, <1>2, <1>4, <3>1, <3>2
    <2>4. QED
      BY <2>1, <2>2, <2>3 DEF LedgerIsRoute
  <1>8. ClosedIsComplete'
    BY <1>2 DEF Books, ClosedIsComplete, Scannable, RouteComplete
  <1>9. AbsentAtStart'
    BY <1>2 DEF Books, AbsentAtStart, Exists, Scannable
  <1>10. VerdictsInOrder'
    BY DEF Books, VerdictsInOrder, Undecided
  <1>11. FatesFollow'
    <2>1. \A c \in Batches : batch'[c].status = batch[c].status
      BY <1>2
    <2>2. QED
      BY <2>1 DEF Books, FatesFollow, IsNewest, AnalysesOf
  <1>12. QED
    BY <1>7, <1>8, <1>9, <1>10, <1>11 DEF Books
(* An inspection that is opened has no verdict yet. *)
LEMMA InspectionKeepsBooks ==
    ASSUME TypeOK, TableInv, Books, NEW b \in Batches, NEW st \in Stations,
           NewInspection(b, st), UNCHANGED <<batch, trail, analyses>>
    PROVE  Books'
  <1> DEFINE row == [batch |-> b, station |-> st, status |-> "OPEN",
                     decisions |-> <<>>]
  <1>1. /\ row \in Inspection /\ inspections \in Seq(Inspection)
        /\ row.decisions = <<>>
        /\ inspections' = Append(inspections, row)
    BY DEF TypeOK, Inspection, NewInspection
  <1> HIDE DEF row
  <1>2. /\ Len(inspections') = Len(inspections) + 1
        /\ \A i \in 1..Len(inspections) : inspections'[i] = inspections[i]
        /\ inspections'[Len(inspections) + 1] = row
        /\ Len(inspections) \in Nat
    BY <1>1, AppendProperties
  <1>3. LedgerIsRoute' /\ ClosedIsComplete' /\ AbsentAtStart'
    BY DEF Books, LedgerIsRoute, ClosedIsComplete, AbsentAtStart, Exists,
       RouteComplete
  <1>4. VerdictsInOrder'
    <2>1. ASSUME NEW i \in 1..Len(inspections')
          PROVE  \/ i \in 1..Len(inspections) /\ inspections'[i] = inspections[i]
                 \/ inspections'[i].decisions = <<>>
      <3>1. CASE i \in 1..Len(inspections)
        BY <1>2, <3>1
      <3>2. CASE i = Len(inspections) + 1
        BY <1>1, <1>2, <3>2
      <3>3. QED
        BY <1>2, <3>1, <3>2
    <2>2. Len(<<>>) = 0
      OBVIOUS
    <2>3. QED
      BY <2>1, <2>2 DEF Books, VerdictsInOrder, Undecided
  <1>5. FatesFollow'
    <2>1. InspectionsGrow
      BY InspectionAdded
    <2>2. \A c \in Batches :
            /\ AnalysesOf(c)' = AnalysesOf(c)
            /\ \A a : IsNewest(c, a)' <=> IsNewest(c, a)
      BY <2>1, SameAnalyses DEF TableInv
    <2>3. QED
      BY <2>2 DEF Books, FatesFollow
  <1>6. QED
    BY <1>3, <1>4, <1>5 DEF Books

(* A verdict on an inspection that is still undecided: the earlier ones    *)
(* were HOLDs, and the pack keeps its status or is quarantined.            *)
LEMMA VerdictKeepsBooks ==
    ASSUME TypeOK, TableInv, Books, NEW i \in 1..Len(inspections),
           NEW verdict \in Verdicts, Undecided(i), RecordVerdict(i, verdict),
           UNCHANGED <<trail, analyses>>,
           \A c \in Batches :
             /\ batch'[c].at = batch[c].at
             /\ \/ batch'[c].status = batch[c].status
                \/ batch'[c].status = "HELD"
    PROVE  Books'
  <1>1. /\ Len(inspections') = Len(inspections)
        /\ \A j \in 1..Len(inspections) : j # i => inspections'[j] = inspections[j]
    BY VerdictAdded
  <1>2. LET old == inspections[i].decisions
            new == inspections'[i].decisions
        IN /\ Len(new) = Len(old) + 1
           /\ \A d \in 1..Len(old) : new[d] = old[d]
           /\ new[Len(old) + 1].verdict = verdict
    BY VerdictAdded
  <1>3. Len(inspections[i].decisions) \in Nat
    <2>1. inspections[i] \in Inspection
      BY DEF TypeOK
    <2>2. QED
      BY <2>1 DEF Inspection
  <1>4. LedgerIsRoute' /\ ClosedIsComplete' /\ AbsentAtStart'
    BY DEF Books, LedgerIsRoute, ClosedIsComplete, AbsentAtStart, Exists,
       RouteComplete
  <1>5. VerdictsInOrder'
    <2>1. Undecided(i)' => verdict = "HOLD"
      <3>1. inspections[i] \in Inspection /\ inspections \in Seq(Inspection)
        BY DEF TypeOK
      <3>2. inspections'[i].status
              = IF verdict = "HOLD" THEN "IN_PROGRESS" ELSE "COMPLETED"
        BY <3>1 DEF RecordVerdict, Inspection
      <3>3. QED
        BY <3>2 DEF Undecided
    <2>2. ASSUME NEW d \in 1..Len(inspections'[i].decisions),
                 d < Len(inspections'[i].decisions) \/ Undecided(i)'
          PROVE  inspections'[i].decisions[d].verdict = "HOLD"
      <3>1. CASE d \in 1..Len(inspections[i].decisions)
        BY <1>2, <3>1 DEF Books, VerdictsInOrder
      <3>2. CASE d = Len(inspections[i].decisions) + 1
        BY <1>2, <1>3, <2>1, <2>2, <3>2
      <3>3. QED
        BY <1>2, <1>3, <3>1, <3>2
    <2>3. ASSUME NEW j \in 1..Len(inspections), j # i,
                 NEW d \in 1..Len(inspections'[j].decisions),
                 d < Len(inspections'[j].decisions) \/ Undecided(j)'
          PROVE  inspections'[j].decisions[d].verdict = "HOLD"
      BY <1>1, <2>3 DEF Books, VerdictsInOrder, Undecided
    <2>4. QED
      BY <1>1, <2>2, <2>3 DEF VerdictsInOrder
  <1>6. FatesFollow'
    <2>1. InspectionsGrow
      BY VerdictGrows
    <2>2. \A c \in Batches :
            /\ AnalysesOf(c)' = AnalysesOf(c)
            /\ \A a : IsNewest(c, a)' <=> IsNewest(c, a)
      BY <2>1, SameAnalyses DEF TableInv
    <2>3. QED
      BY <2>2 DEF Books, FatesFollow
  <1>7. QED
    BY <1>4, <1>5, <1>6 DEF Books

(* A new analysis is the newest of its pack, and decides its status.       *)
LEMMA AnalysisKeepsBooks ==
    ASSUME TypeOK, TableInv, Books, NEW i \in 1..Len(inspections),
           NEW disposition \in Dispositions, NEW b \in Batches,
           b = inspections[i].batch,
           analyses' = Append(analyses, [inspection |-> i,
                                         disposition |-> disposition]),
           SetStatus(b, StatusAfter(disposition)),
           UNCHANGED <<trail, inspections>>
    PROVE  Books'
  <1> DEFINE row == [inspection |-> i, disposition |-> disposition]
             n == Len(analyses) + 1
  <1>1. row \in Analysis /\ row.inspection = i /\ row.disposition = disposition
    BY DEF TypeOK, Analysis
  <1>2. analyses' = Append(analyses, row) /\ analyses \in Seq(Analysis)
    BY DEF TypeOK
  <1> HIDE DEF row
  <1>3. /\ Len(analyses) \in Nat
        /\ Len(analyses') = n
        /\ \A a \in 1..Len(analyses) : analyses'[a] = analyses[a]
        /\ analyses'[n].inspection = i
        /\ analyses'[n].disposition = disposition
    BY <1>1, <1>2, AppendProperties
  <1>4. /\ AnalysesOf(b)' = AnalysesOf(b) \cup {n}
        /\ \A c \in Batches \ {b} : AnalysesOf(c)' = AnalysesOf(c)
    <2>1. \A a : a \in 1..Len(analyses') <=> a \in 1..Len(analyses) \/ a = n
      BY <1>3
    <2>2. QED
      BY <1>3, <2>1 DEF AnalysesOf
  <1>5. \A a \in AnalysesOf(b)' : IsNewest(b, a)' <=> a = n
    <2>1. \A a \in AnalysesOf(b) : a \in Nat /\ a < n
      BY <1>3 DEF AnalysesOf
    <2>2. n \in Nat
      BY <1>3
    <2>3. QED
      BY <1>4, <2>1, <2>2 DEF IsNewest
  <1>6. PICK status \in {"ACTIVE", "HELD", "SCRAPPED"} :
          /\ status = StatusAfter(disposition)
          /\ status = "SCRAPPED" <=> disposition = "SCRAP"
          /\ status = "HELD" <=> disposition = "REWORK"
    BY DEF StatusAfter, Dispositions
  <1>7. \A c \in Batches :
          /\ batch'[c].status = IF c = b THEN status ELSE batch[c].status
          /\ batch'[c].at = batch[c].at
    BY <1>6, StatusSet
  <1> HIDE DEF n
  <1>8. LedgerIsRoute' /\ ClosedIsComplete' /\ AbsentAtStart'
    BY <1>6, <1>7 DEF Books, LedgerIsRoute, ClosedIsComplete, AbsentAtStart,
       Exists, RouteComplete
  <1>9. VerdictsInOrder'
    BY DEF Books, VerdictsInOrder, Undecided
  <1>10. FatesFollow'
    <2>1. ASSUME NEW c \in Batches \ {b}
          PROVE  /\ batch'[c].status = "SCRAPPED" =>
                      \E a \in AnalysesOf(c)' :
                        IsNewest(c, a)' /\ analyses'[a].disposition = "SCRAP"
                 /\ \A a \in AnalysesOf(c)' : IsNewest(c, a)' =>
                      /\ analyses'[a].disposition = "SCRAP" =>
                           batch'[c].status \in {"SCRAPPED", "HELD"}
                      /\ analyses'[a].disposition = "REWORK" =>
                           batch'[c].status = "HELD"
      <3>1. batch'[c].status = batch[c].status
        BY <1>7
      <3>2. \A a \in AnalysesOf(c) : analyses'[a] = analyses[a]
        BY <1>3 DEF AnalysesOf
      <3>3. \A a : IsNewest(c, a)' <=> IsNewest(c, a)
        BY <1>4 DEF IsNewest
      <3>4. AnalysesOf(c)' = AnalysesOf(c)
        BY <1>4
      <3>5. /\ batch[c].status = "SCRAPPED" =>
                 \E a \in AnalysesOf(c) :
                   IsNewest(c, a) /\ analyses[a].disposition = "SCRAP"
            /\ \A a \in AnalysesOf(c) : IsNewest(c, a) =>
                 /\ analyses[a].disposition = "SCRAP" =>
                      batch[c].status \in {"SCRAPPED", "HELD"}
                 /\ analyses[a].disposition = "REWORK" =>
                      batch[c].status = "HELD"
        BY DEF Books, FatesFollow
      <3>6. batch'[c].status = "SCRAPPED" =>
              \E a \in AnalysesOf(c)' :
                IsNewest(c, a)' /\ analyses'[a].disposition = "SCRAP"
        BY <3>1, <3>2, <3>3, <3>4, <3>5, Zenon
      <3>7. ASSUME NEW a \in AnalysesOf(c)', IsNewest(c, a)'
            PROVE  /\ analyses'[a].disposition = "SCRAP" =>
                        batch'[c].status \in {"SCRAPPED", "HELD"}
                   /\ analyses'[a].disposition = "REWORK" =>
                        batch'[c].status = "HELD"
        <4>1. a \in AnalysesOf(c) /\ IsNewest(c, a) /\ analyses'[a] = analyses[a]
          BY <3>2, <3>3, <3>4, <3>7
        <4>2. QED
          BY <3>1, <3>5, <4>1
      <3>8. QED
        BY <3>6, <3>7
    <2>2. /\ batch'[b].status = "SCRAPPED" =>
               \E a \in AnalysesOf(b)' :
                 IsNewest(b, a)' /\ analyses'[a].disposition = "SCRAP"
          /\ \A a \in AnalysesOf(b)' : IsNewest(b, a)' =>
               /\ analyses'[a].disposition = "SCRAP" =>
                    batch'[b].status \in {"SCRAPPED", "HELD"}
               /\ analyses'[a].disposition = "REWORK" =>
                    batch'[b].status = "HELD"
      BY <1>3, <1>4, <1>5, <1>6, <1>7
    <2>3. QED
      BY <2>1, <2>2 DEF FatesFollow
  <1>11. QED
    BY <1>8, <1>9, <1>10 DEF Books
-----------------------------------------------------------------------------
(* One lemma for each part of the next-state relation, as above.           *)

LEMMA ReadIsCurrent ==
    ASSUME TypeOK, Books, UNCHANGED tables, NEW w \in Workers, ~Overlaps(w),
           \A v \in Workers \ {w} : job'[v] = job[v],
           Current(w)'
    PROVE  Books' /\ AllCurrent'
  BY BooksKept, OnlyOne DEF tables

LEMMA PlanKeepsBooks ==
    ASSUME IInv, Books, AllCurrent, NEW w \in Workers, ~Overlaps(w), Plan(w)
    PROVE  Books' /\ AllCurrent'
  <1>0. TypeOK /\ TableInv /\ Current(w)
    BY DEF IInv, AllCurrent
  <1>1. ASSUME NEW b \in Batches, NEW st \in Stations, CreateBatch(w, b, st)
        PROVE  Books' /\ AllCurrent'
    <2>1. job' = [job EXCEPT ![w] = Idle]
      BY <1>0, <1>1 DEF CreateBatch, TypeOK
    <2>2. /\ batch' \in [Batches -> BatchRow]
          /\ batch[b].status = "ABSENT"
          /\ batch'[b].status = "PLANNED"
          /\ batch'[b].at.pos = 0
          /\ \A c \in Batches \ {b} : batch'[c] = batch[c]
      BY <1>0, <1>1, RouteSteps
         DEF CreateBatch, TypeOK, BatchRow, Start, Position, Exists
    <2>3. Books'
      BY <1>0, <1>1, <2>2, PacksChange DEF CreateBatch
    <2>4. QED
      BY <1>0, <2>1, <2>3, NoneLeft
  <1>2. ASSUME ReleaseLoad(w) PROVE Books' /\ AllCurrent'
    <2>1. [pc |-> "release"] \in Job
      BY DEF Job
    <2>2. /\ job'[w].pc = "release"
          /\ \A v \in Workers \ {w} : job'[v] = job[v]
      BY <1>0, <1>2, <2>1, BeginsJob DEF ReleaseLoad
    <2>3. Current(w)'
      BY <2>2 DEF Current
    <2>4. QED
      BY <1>0, <1>2, <2>2, <2>3, ReadIsCurrent DEF ReleaseLoad
  <1>3. ASSUME ReleaseCommit(w) PROVE Books' /\ AllCurrent'
    <2>1. PICK minted \in SUBSET {b \in Batches : ~Exists(b)} :
            batch' = [b \in Batches |->
              IF b \in minted
              THEN [status |-> "ACTIVE", at |-> Start(Origin)]
              ELSE IF batch[b].status = "PLANNED"
                   THEN [batch[b] EXCEPT !.status = "ACTIVE"]
                   ELSE batch[b]]
      BY <1>3 DEF ReleaseCommit
    <2>2. ASSUME NEW b \in Batches
          PROVE  /\ batch'[b] \in BatchRow
                 /\ \/ batch'[b] = batch[b]
                    \/ /\ batch[b].status \in {"ABSENT", "PLANNED"}
                       /\ batch'[b].status \in {"PLANNED", "ACTIVE"}
                       /\ \/ batch'[b].at = batch[b].at
                          \/ batch[b].status = "ABSENT" /\ batch'[b].at.pos = 0
      <3>1. batch[b] \in BatchRow
        BY <1>0 DEF TypeOK
      <3>2. CASE b \in minted
        <4>1. batch'[b] = [status |-> "ACTIVE", at |-> Start(Origin)]
          BY <2>1, <3>2
        <4>2. batch[b].status = "ABSENT"
          BY <3>2 DEF Exists
        <4>3. QED
          BY <4>1, <4>2, RouteSteps DEF BatchRow, Start, Position
      <3>3. CASE b \notin minted /\ batch[b].status = "PLANNED"
        <4>1. batch'[b] = [batch[b] EXCEPT !.status = "ACTIVE"]
          BY <2>1, <3>3
        <4>2. QED
          BY <3>1, <3>3, <4>1 DEF BatchRow
      <3>4. CASE b \notin minted /\ batch[b].status # "PLANNED"
        BY <2>1, <3>1, <3>4
      <3>5. QED
        BY <3>2, <3>3, <3>4
    <2>3. batch' \in [Batches -> BatchRow]
      BY <2>1, <2>2
    <2>4. Books'
      BY <1>0, <1>3, <2>2, <2>3, PacksChange DEF ReleaseCommit
    <2>5. QED
      BY <1>0, <1>3, <2>4, NoneLeft DEF ReleaseCommit, Finish
  <1>4. ASSUME CompleteLoad(w) PROVE Books' /\ AllCurrent'
    <2>1. [pc |-> "complete"] \in Job
      BY DEF Job
    <2>2. /\ job'[w].pc = "complete"
          /\ \A v \in Workers \ {w} : job'[v] = job[v]
      BY <1>0, <1>4, <2>1, BeginsJob DEF CompleteLoad
    <2>3. Current(w)'
      BY <2>2 DEF Current
    <2>4. QED
      BY <1>0, <1>4, <2>2, <2>3, ReadIsCurrent DEF CompleteLoad
  <1>5. ASSUME CompleteCheck(w) PROVE Books' /\ AllCurrent'
    <2> DEFINE packs == {b \in Batches : Exists(b)}
               tx == [pc |-> "completing", packs |-> packs]
    <2>1. job' = [job EXCEPT ![w] = tx]
      BY <1>5 DEF CompleteCheck, CountPacks
    <2>2. /\ job'[w] = tx /\ tx.pc = "completing" /\ tx.packs = packs
          /\ \A v \in Workers \ {w} : job'[v] = job[v]
      BY <1>0, <2>1 DEF TypeOK
    <2> HIDE DEF tx
    <2>3. \A b \in Batches : Exists(b)' => b \in packs
      BY <1>5 DEF CompleteCheck, tables, Exists
    <2>4. Current(w)'
      BY <2>2, <2>3 DEF Current
    <2>5. QED
      BY <1>0, <1>5, <2>2, <2>4, ReadIsCurrent DEF CompleteCheck
  <1>6. ASSUME CompleteCommit(w) PROVE Books' /\ AllCurrent'
    BY <1>0, <1>6, BooksKept, NoneLeft DEF CompleteCommit, Finish
  <1>7. QED
    BY <1>1, <1>2, <1>3, <1>4, <1>5, <1>6 DEF Plan

(* The step a scan adds is the one after the step its pack is at.          *)
LEMMA ScansKeepBooks ==
    ASSUME IInv, Books, AllCurrent, NEW w \in Workers, ~Overlaps(w), Scan(w)
    PROVE  Books' /\ AllCurrent'
  <1>0. TypeOK /\ TableInv /\ Current(w) /\ ValidJob(w)
    BY DEF IInv, AllCurrent
  <1>1. ASSUME NEW b \in Batches, ScanLoad(w, b) PROVE Books' /\ AllCurrent'
    <2>1. [pc |-> "scan", batch |-> b, seen |-> batch[b].at] \in Job
      BY <1>0 DEF Job, TypeOK, BatchRow
    <2>2. /\ job'[w] = [pc |-> "scan", batch |-> b, seen |-> batch[b].at]
          /\ \A v \in Workers \ {w} : job'[v] = job[v]
      BY <1>0, <1>1, <2>1, BeginsJob DEF ScanLoad
    <2>3. Current(w)'
      BY <1>1, <2>2 DEF Current, ScanLoad, tables, Scannable
    <2>4. QED
      BY <1>0, <1>1, <2>2, <2>3, ReadIsCurrent DEF ScanLoad
  <1>2. ASSUME ScanBlocked(w) PROVE Books' /\ AllCurrent'
    BY <1>0, <1>2, BooksKept, NoneLeft DEF ScanBlocked, Finish
  <1>3. ASSUME job[w].pc \in {"scan", "receive"},
               job' = [job EXCEPT ![w] = Idle],
               Advance(job[w].batch, job[w].seen),
               UNCHANGED <<project, violations, inspections, analyses>>
        PROVE  Books' /\ AllCurrent'
    <2>1. PICK b \in Batches :
            /\ b = job[w].batch
            /\ job[w].seen = batch[b].at
            /\ Scannable(batch[b].status)
      BY <1>0, <1>3, JobShapes DEF Current
    <2>2. batch[b].at.pos < LastStep
      BY <1>0, <1>3, <2>1 DEF ValidJob
    <2>3. Books'
      BY <1>0, <1>3, <2>1, <2>2, ScanKeepsBooks
    <2>4. QED
      BY <1>0, <1>3, <2>3, NoneLeft
  <1>4. ASSUME ScanRelease(w) PROVE Books' /\ AllCurrent'
    BY <1>3, <1>4 DEF ScanRelease, Finish
  <1>5. ASSUME ScanGate(w) PROVE Books' /\ AllCurrent'
    <2>1. /\ job[w].pc = "scan"
          /\ job' = [job EXCEPT ![w].pc = "receive"]
      BY <1>5 DEF ScanGate, Continue
    <2>2. PICK b \in Batches, at \in Position :
            /\ job[w] = [pc |-> "scan", batch |-> b, seen |-> at]
            /\ at = batch[b].at
            /\ Scannable(batch[b].status)
      BY <1>0, <2>1, JobShapes DEF Current
    <2>3. /\ job'[w] = [pc |-> "receive", batch |-> b, seen |-> at]
          /\ \A v \in Workers \ {w} : job'[v] = job[v]
      BY <1>0, <2>1, <2>2 DEF TypeOK
    <2>4. PICK st \in GateStations(at) : PassesGate(b, st)
      BY <1>5, <2>2 DEF ScanGate
    <2>5. st = at.station
      BY <1>0, <2>1, <2>2, <2>4 DEF GateStations, ValidJob, Position
    <2>6. PassesGate(b, at.station)'
      BY <1>5, <2>4, <2>5
         DEF ScanGate, tables, PassesGate, InspectionsAt, LatestVerdict
    <2>7. at = batch'[b].at /\ Scannable(batch'[b].status)
      BY <1>5, <2>2 DEF ScanGate, tables
    <2>8. Current(w)'
      BY <2>3, <2>6, <2>7 DEF Current
    <2>9. QED
      BY <1>0, <1>5, <2>3, <2>8, ReadIsCurrent DEF ScanGate
  <1>6. ASSUME ScanReceive(w) PROVE Books' /\ AllCurrent'
    BY <1>3, <1>6 DEF ScanReceive, Finish
  <1>7. ASSUME NEW i \in 1..Len(violations), ResolveLoad(w, i)
        PROVE  Books' /\ AllCurrent'
    <2>1. [pc |-> "resolve", violation |-> i] \in Job
      BY <1>0 DEF Job, TypeOK
    <2>2. job'[w].pc = "resolve" /\ \A v \in Workers \ {w} : job'[v] = job[v]
      BY <1>0, <1>7, <2>1, BeginsJob DEF ResolveLoad
    <2>3. Current(w)'
      BY <2>2 DEF Current
    <2>4. QED
      BY <1>0, <1>7, <2>2, <2>3, ReadIsCurrent DEF ResolveLoad
  <1>8. ASSUME ResolveCommit(w) PROVE Books' /\ AllCurrent'
    BY <1>0, <1>8, BooksKept, NoneLeft DEF ResolveCommit, Finish
  <1>9. QED
    BY <1>1, <1>2, <1>4, <1>5, <1>6, <1>7, <1>8 DEF Scan
LEMMA ControlKeepsBooks ==
    ASSUME IInv, Books, AllCurrent, NEW w \in Workers, ~Overlaps(w), Control(w)
    PROVE  Books' /\ AllCurrent'
  <1>0. TypeOK /\ TableInv /\ Current(w) /\ ValidJob(w)
    BY DEF IInv, AllCurrent
  <1>1. ASSUME NEW b \in Batches, NEW st \in Stations, NewInspection(b, st),
               UNCHANGED <<project, batch, trail, violations, analyses>>,
               job' = [job EXCEPT ![w] = Idle]
        PROVE  Books' /\ AllCurrent'
    BY <1>0, <1>1, InspectionKeepsBooks, NoneLeft
  <1>2. ASSUME NEW b \in Batches, NEW st \in Stations, Inspect(w, b, st)
        PROVE  Books' /\ AllCurrent'
    <2>1. job' = [job EXCEPT ![w] = Idle]
      BY <1>0, <1>2 DEF Inspect, TypeOK
    <2>2. QED
      BY <1>1, <1>2, <2>1 DEF Inspect
  <1>3. ASSUME NEW b \in Batches, LookUpPack(w, b) PROVE Books' /\ AllCurrent'
    <2>1. [pc |-> "open", batch |-> b, station |-> batch[b].at.station] \in Job
      BY <1>0 DEF Job, TypeOK, BatchRow, Position
    <2>2. job'[w].pc = "open" /\ \A v \in Workers \ {w} : job'[v] = job[v]
      BY <1>0, <1>3, <2>1, BeginsJob DEF LookUpPack
    <2>3. Current(w)'
      BY <2>2 DEF Current
    <2>4. QED
      BY <1>0, <1>3, <2>2, <2>3, ReadIsCurrent DEF LookUpPack
  <1>4. ASSUME OpenInspection(w) PROVE Books' /\ AllCurrent'
    <2>1. job[w].batch \in Batches /\ job[w].station \in Stations
      BY <1>0, <1>4, JobShapes DEF OpenInspection, Finish
    <2>2. QED
      BY <1>1, <1>4, <2>1 DEF OpenInspection, Finish
  <1>5. ASSUME NEW i \in 1..Len(inspections), DecideLoad(w, i)
        PROVE  Books' /\ AllCurrent'
    <2>1. [pc |-> "decide", inspection |-> i] \in Job
      BY <1>0 DEF Job, TypeOK
    <2>2. /\ job'[w] = [pc |-> "decide", inspection |-> i]
          /\ \A v \in Workers \ {w} : job'[v] = job[v]
      BY <1>0, <1>5, <2>1, BeginsJob DEF DecideLoad
    <2>3. Current(w)'
      BY <1>5, <2>2 DEF Current, DecideLoad, tables, Undecided
    <2>4. QED
      BY <1>0, <1>5, <2>2, <2>3, ReadIsCurrent DEF DecideLoad
  <1>6. ASSUME DecideCommit(w) PROVE Books' /\ AllCurrent'
    <2>1. /\ job[w].pc = "decide"
          /\ job' = [job EXCEPT ![w] = Idle]
          /\ UNCHANGED <<project, trail, violations, analyses>>
      BY <1>6 DEF DecideCommit, Finish
    <2>2. PICK i \in 1..Len(inspections) : i = job[w].inspection /\ Undecided(i)
      BY <1>0, <2>1 DEF ValidJob, Current
    <2>3. PICK verdict \in Verdicts :
            /\ RecordVerdict(i, verdict)
            /\ IF Quarantines(verdict)
               THEN SetStatus(inspections[i].batch, "HELD")
               ELSE UNCHANGED batch
      BY <1>6, <2>2 DEF DecideCommit
    <2>4. PICK b \in Batches : b = inspections[i].batch
      <3>1. inspections[i] \in Inspection
        BY <1>0 DEF TypeOK
      <3>2. QED
        BY <3>1 DEF Inspection
    <2>5. \A c \in Batches :
            /\ batch'[c].at = batch[c].at
            /\ batch'[c].status = batch[c].status \/ batch'[c].status = "HELD"
      <3>1. CASE Quarantines(verdict)
        BY <1>0, <2>3, <2>4, <3>1, StatusSet
      <3>2. CASE ~Quarantines(verdict)
        BY <2>3, <3>2
      <3>3. QED
        BY <3>1, <3>2
    <2>6. Books'
      BY <1>0, <2>1, <2>2, <2>3, <2>5, VerdictKeepsBooks
    <2>7. QED
      BY <1>0, <2>1, <2>6, NoneLeft
  <1>7. QED
    BY <1>2, <1>3, <1>4, <1>5, <1>6 DEF Control

LEMMA ProductionKeepsBooks ==
    ASSUME IInv, Books, AllCurrent, NEW w \in Workers, ~Overlaps(w),
           Production(w)
    PROVE  Books' /\ AllCurrent'
  <1>0. TypeOK /\ TableInv /\ Current(w) /\ ValidJob(w)
    BY DEF IInv, AllCurrent
  <1>1. ASSUME NEW i \in 1..Len(inspections), AnalyseLoad(w, i)
        PROVE  Books' /\ AllCurrent'
    <2>1. [pc |-> "analyse", inspection |-> i] \in Job
      BY <1>0 DEF Job, TypeOK
    <2>2. job'[w].pc = "analyse" /\ \A v \in Workers \ {w} : job'[v] = job[v]
      BY <1>0, <1>1, <2>1, BeginsJob DEF AnalyseLoad
    <2>3. Current(w)'
      BY <2>2 DEF Current
    <2>4. QED
      BY <1>0, <1>1, <2>2, <2>3, ReadIsCurrent DEF AnalyseLoad
  <1>2. ASSUME AnalyseCheck(w) PROVE Books' /\ AllCurrent'
    <2>1. PICK i \in Nat : job[w] = [pc |-> "analyse", inspection |-> i]
      BY <1>0, <1>2, JobShapes DEF AnalyseCheck, Continue
    <2>2. job'[w].pc = "dispose" /\ \A v \in Workers \ {w} : job'[v] = job[v]
      BY <1>0, <1>2, <2>1 DEF AnalyseCheck, Continue, TypeOK
    <2>3. Current(w)'
      BY <2>2 DEF Current
    <2>4. QED
      BY <1>0, <1>2, <2>2, <2>3, ReadIsCurrent DEF AnalyseCheck
  <1>3. ASSUME AnalyseCommit(w) PROVE Books' /\ AllCurrent'
    <2>1. PICK i \in 1..Len(inspections) : i = job[w].inspection
      BY <1>0, <1>3 DEF AnalyseCommit, Finish, ValidJob
    <2>2. PICK disposition \in Dispositions :
            /\ analyses' = Append(analyses, [inspection |-> i,
                                             disposition |-> disposition])
            /\ SetStatus(inspections[i].batch, StatusAfter(disposition))
      BY <1>3, <2>1 DEF AnalyseCommit
    <2>3. PICK b \in Batches : b = inspections[i].batch
      <3>1. inspections[i] \in Inspection
        BY <1>0 DEF TypeOK
      <3>2. QED
        BY <3>1 DEF Inspection
    <2>4. Books'
      BY <1>0, <1>3, <2>2, <2>3, AnalysisKeepsBooks DEF AnalyseCommit
    <2>5. QED
      BY <1>0, <1>3, <2>4, NoneLeft DEF AnalyseCommit, Finish
  <1>4. ASSUME NEW b \in Batches, CloseLoad(w, b) PROVE Books' /\ AllCurrent'
    <2>1. [pc |-> "close", batch |-> b] \in Job
      BY DEF Job
    <2>2. /\ job'[w] = [pc |-> "close", batch |-> b]
          /\ \A v \in Workers \ {w} : job'[v] = job[v]
      BY <1>0, <1>4, <2>1, BeginsJob DEF CloseLoad
    <2>3. Current(w)'
      BY <1>4, <2>2 DEF Current, CloseLoad, tables, RouteComplete
    <2>4. QED
      BY <1>0, <1>4, <2>2, <2>3, ReadIsCurrent DEF CloseLoad
  <1>5. ASSUME CloseGate(w) PROVE Books' /\ AllCurrent'
    <2>1. PICK b \in Batches :
            /\ job[w] = [pc |-> "close", batch |-> b]
            /\ batch[b].status = "ACTIVE"
            /\ RouteComplete(batch[b].at)
      BY <1>0, <1>5, JobShapes DEF CloseGate, Continue, Current
    <2>2. /\ job'[w] = [pc |-> "closing", batch |-> b]
          /\ \A v \in Workers \ {w} : job'[v] = job[v]
      BY <1>0, <1>5, <2>1 DEF CloseGate, Continue, TypeOK
    <2>3. Current(w)'
      BY <1>5, <2>1, <2>2 DEF Current, CloseGate, tables, RouteComplete
    <2>4. QED
      BY <1>0, <1>5, <2>2, <2>3, ReadIsCurrent DEF CloseGate
  <1>6. ASSUME CloseCommit(w) PROVE Books' /\ AllCurrent'
    <2>1. PICK b \in Batches :
            /\ b = job[w].batch
            /\ batch[b].status = "ACTIVE"
            /\ RouteComplete(batch[b].at)
      BY <1>0, <1>6, JobShapes DEF CloseCommit, Finish, Current
    <2>2. /\ batch' \in [Batches -> BatchRow]
          /\ \A c \in Batches :
               /\ batch'[c].status = IF c = b THEN "CLOSED" ELSE batch[c].status
               /\ batch'[c].at = batch[c].at
      BY <1>0, <1>6, <2>1, StatusSet DEF CloseCommit
    <2>3. \A c \in Batches \ {b} : batch'[c] = batch[c]
      BY <1>0, <1>6, <2>1 DEF CloseCommit, SetStatus, TypeOK
    <2>4. Books'
      BY <1>0, <1>6, <2>1, <2>2, <2>3, PacksChange DEF CloseCommit
    <2>5. QED
      BY <1>0, <1>6, <2>4, NoneLeft DEF CloseCommit, Finish
  <1>7. QED
    BY <1>1, <1>2, <1>3, <1>4, <1>5, <1>6 DEF Production

LEMMA AbortKeepsBooks ==
    ASSUME IInv, Books, NEW w \in Workers, ~Overlaps(w), Abort(w)
    PROVE  Books' /\ AllCurrent'
  BY BooksKept, NoneLeft DEF IInv, Abort, tables

LEMMA SerialInit == Init => Serial
  <1>1. SUFFICES ASSUME Init PROVE Books /\ AllCurrent
    BY DEF Serial
  <1>2. Books
    <2>1. \A b \in Batches :
            /\ batch[b].status = "ABSENT"
            /\ batch[b].at.pos = 0
            /\ trail[b] = <<>>
      BY <1>1 DEF Init, Start
    <2>2. inspections = <<>> /\ analyses = <<>> /\ Len(<<>>) = 0
      BY <1>1 DEF Init
    <2>3. LedgerIsRoute /\ ClosedIsComplete /\ AbsentAtStart
      BY <2>1, <2>2 DEF LedgerIsRoute, ClosedIsComplete, AbsentAtStart
    <2>4. VerdictsInOrder /\ FatesFollow
      BY <2>1, <2>2 DEF VerdictsInOrder, FatesFollow, AnalysesOf
    <2>5. QED
      BY <2>3, <2>4 DEF Books
  <1>3. AllCurrent
    BY <1>1 DEF Init, AllCurrent, Current, Idle
  <1>4. QED
    BY <1>2, <1>3

(* A step before the first overlap is one of a transaction that is alone.  *)
LEMMA AloneStep ==
    ASSUME IInv, Serial, Next, ~lapped'
    PROVE  /\ Books /\ AllCurrent
           /\ \E w \in Workers :
                /\ ~Overlaps(w)
                /\ Plan(w) \/ Scan(w) \/ Control(w) \/ Production(w) \/ Abort(w)
  BY DEF Next, Serial

LEMMA SerialStep == IInv /\ Serial /\ [Next]_vars => Serial'
  <1>1. SUFFICES ASSUME IInv, Serial, [Next]_vars, ~lapped'
                 PROVE  Books' /\ AllCurrent'
    BY DEF Serial
  <1>2. CASE UNCHANGED vars
    <2>1. Books /\ AllCurrent
      BY <1>1, <1>2 DEF Serial, vars
    <2>2. Books'
      BY <1>2, <2>1, BooksKept DEF vars
    <2>3. AllCurrent'
      BY <1>2, <2>1 DEF vars, AllCurrent, Current, PassesGate, InspectionsAt,
         LatestVerdict, Undecided, Exists, RouteComplete
    <2>4. QED
      BY <2>2, <2>3
  <1>3. CASE Next
    <2>1. Books /\ AllCurrent
      BY <1>1, <1>3, AloneStep
    <2>2. PICK w \in Workers :
            /\ ~Overlaps(w)
            /\ Plan(w) \/ Scan(w) \/ Control(w) \/ Production(w) \/ Abort(w)
      BY <1>1, <1>3, AloneStep
    <2>3. QED
      BY <1>1, <2>1, <2>2, PlanKeepsBooks, ScansKeepBooks, ControlKeepsBooks,
         ProductionKeepsBooks, AbortKeepsBooks
  <1>4. QED
    BY <1>1, <1>2, <1>3

(* The inductive invariant of transactions that run one at a time.         *)
THEOREM SerialInductive == Spec => []Serial
  BY SerialInit, SerialStep, Inductive, PTL DEF Spec
(* The books say what the documents promise of them: steps after the first *)
(* leave stations of the route, and none of those is Origin.               *)
LEMMA BooksAddUp ==
    ASSUME TypeOK, Books
    PROVE  IssuedOnce /\ OneClosingVerdict
  <1>1. IssuedOnce
    <2>1. SUFFICES ASSUME NEW b \in Batches, NEW g \in 1..Len(trail[b]),
                          trail[b][g].from.stage = Origin.stage
                   PROVE  g = 1
      BY DEF IssuedOnce
    <2>2. Len(trail[b]) = batch[b].at.pos /\ batch[b].at.pos \in 0..LastStep
      BY DEF Books, LedgerIsRoute, TypeOK, BatchRow, Position
    <2>3. CASE g > 1
      <3>1. trail[b][g].from = Route[g - 1]
        BY <2>3 DEF Books, LedgerIsRoute
      <3>2. g - 1 \in 1..Len(Route)
        BY <2>2, <2>3, RouteSteps DEF LastStep
      <3>3. Route[g - 1].stage # Origin.stage
        BY <3>2, RouteAssumption
      <3>4. QED
        BY <2>1, <3>1, <3>3
    <2>4. QED
      BY <2>3
  <1>2. OneClosingVerdict
    <2>1. SUFFICES ASSUME NEW i \in 1..Len(inspections),
                          NEW d \in 1..Len(inspections[i].decisions) - 1
                   PROVE  inspections[i].decisions[d].verdict = "HOLD"
      BY DEF OneClosingVerdict
    <2>2. inspections[i] \in Inspection
      BY DEF TypeOK
    <2>3. Len(inspections[i].decisions) \in Nat
      BY <2>2 DEF Inspection
    <2>4. /\ d \in 1..Len(inspections[i].decisions)
          /\ d < Len(inspections[i].decisions)
      BY <2>3
    <2>5. QED
      BY <2>4 DEF Books, VerdictsInOrder
  <1>3. QED
    BY <1>1, <1>2

(* While no two transactions have overlapped, the ledger of accepted       *)
(* events is the route up to the step of the pack, issued once; what is    *)
(* closed has made every hop, and only last verdicts close an inspection.  *)
THEOREM LedgerAdds == Spec => []LedgerAddsUp
  <1>1. IInv /\ Serial => LedgerAddsUp
    BY BooksAddUp DEF IInv, Serial, Books, LedgerAddsUp
  <1>2. QED
    BY <1>1, Inductive, SerialInductive, PTL

(* Only an accepted scan adds to a ledger. *)
LEMMA LedgerStays ==
    ASSUME NEW w \in Workers, Plan(w) \/ Control(w) \/ Production(w) \/ Abort(w)
    PROVE  UNCHANGED trail
  <1>1. CASE Plan(w)
    BY <1>1 DEF Plan, CreateBatch, ReleaseLoad, ReleaseCommit, CompleteLoad,
       CompleteCheck, CompleteCommit, tables
  <1>2. CASE Control(w)
    BY <1>2 DEF Control, Inspect, LookUpPack, OpenInspection, DecideLoad,
       DecideCommit, tables
  <1>3. CASE Production(w)
    BY <1>3 DEF Production, AnalyseLoad, AnalyseCheck, AnalyseCommit, CloseLoad,
       CloseGate, CloseCommit, tables
  <1>4. CASE Abort(w)
    BY <1>4 DEF Abort, tables
  <1>5. QED
    BY <1>1, <1>2, <1>3, <1>4

LEMMA MoveStep ==
    ASSUME IInv, Books, AllCurrent, NEW w \in Workers, Scan(w)
    PROVE  MoveIsFree
  <1>0. TypeOK /\ Current(w) /\ ValidJob(w)
    BY DEF IInv, AllCurrent
  <1>1. CASE UNCHANGED trail
    <2>1. \A b \in Batches : ~(Len(trail'[b]) > Len(trail[b]))
      <3>1. \A b \in Batches : trail[b] \in Seq(Hop)
        BY <1>0 DEF TypeOK
      <3>2. \A b \in Batches : Len(trail[b]) \in Nat
        BY <3>1
      <3>3. QED
        BY <1>1, <3>2
    <2>2. QED
      BY <2>1 DEF MoveIsFree
  <1>2. ASSUME NEW b \in Batches, b = job[w].batch,
               job[w].pc \in {"scan", "receive"},
               Advance(b, job[w].seen),
               \/ PreRoute(job[w].seen)
               \/ PassesGate(b, job[w].seen.station)
        PROVE  MoveIsFree
    <2>1. /\ job[w].seen \in Position
          /\ job[w].seen.pos < LastStep
          /\ Scannable(batch[b].status)
      BY <1>0, <1>2, JobShapes DEF Current, ValidJob
    <2>2. /\ \A c \in Batches \ {b} : trail'[c] = trail[c]
          /\ Len(trail'[b]) = Len(trail[b]) + 1
          /\ trail'[b][Len(trail[b]) + 1].from = job[w].seen.station
      BY <1>0, <1>2, <2>1, PackMoved
    <2>3. \A c \in Batches \ {b} : ~(Len(trail'[c]) > Len(trail[c]))
      <3>1. \A c \in Batches : trail[c] \in Seq(Hop)
        BY <1>0 DEF TypeOK
      <3>2. \A c \in Batches : Len(trail[c]) \in Nat
        BY <3>1
      <3>3. QED
        BY <2>2, <3>2
    <2>4. LET from == trail'[b][Len(trail'[b])].from
          IN /\ Scannable(batch[b].status)
             /\ from.stage = Origin.stage \/ PassesGate(b, from)
      BY <1>2, <2>1, <2>2 DEF PreRoute
    <2>5. QED
      BY <2>3, <2>4 DEF MoveIsFree
  <1>3. CASE ScanRelease(w)
    <2>1. job[w].batch \in Batches
      BY <1>0, <1>3, JobShapes DEF ScanRelease, Finish
    <2>2. QED
      BY <1>2, <1>3, <2>1 DEF ScanRelease, Finish
  <1>4. CASE ScanReceive(w)
    <2>1. job[w].batch \in Batches
      BY <1>0, <1>4, JobShapes DEF ScanReceive, Finish
    <2>2. PassesGate(job[w].batch, job[w].seen.station)
      BY <1>0, <1>4 DEF ScanReceive, Finish, Current
    <2>3. QED
      BY <1>2, <1>4, <2>1, <2>2 DEF ScanReceive, Finish
  <1>5. QED
    BY <1>1, <1>3, <1>4 DEF Scan, ScanLoad, ScanBlocked, ScanGate, ResolveLoad,
       ResolveCommit, tables

(* While no two transactions have overlapped, a pack is moved only while   *)
(* it is active or planned, and past a gate whose newest verdict passed.   *)
THEOREM MovesFree == Spec => MovesAreFree
  <1>1. IInv /\ Serial /\ [Next]_vars => [~lapped' => MoveIsFree]_vars
    <2>1. SUFFICES ASSUME IInv, Serial, Next, ~lapped' PROVE MoveIsFree
      OBVIOUS
    <2>2. PICK w \in Workers :
            Plan(w) \/ Scan(w) \/ Control(w) \/ Production(w) \/ Abort(w)
      BY <2>1, AloneStep
    <2>3. Books /\ AllCurrent
      BY <2>1, AloneStep
    <2>4. CASE Scan(w)
      BY <2>1, <2>3, <2>4, MoveStep
    <2>5. CASE Plan(w) \/ Control(w) \/ Production(w) \/ Abort(w)
      <3>1. UNCHANGED trail
        BY <2>5, LedgerStays
      <3>2. \A b \in Batches : trail[b] \in Seq(Hop)
        BY <2>1 DEF IInv, TypeOK
      <3>3. \A b \in Batches : Len(trail[b]) \in Nat
        BY <3>2
      <3>4. QED
        BY <3>1, <3>3 DEF MoveIsFree
    <2>6. QED
      BY <2>2, <2>4, <2>5
  <1>2. QED
    BY <1>1, Inductive, SerialInductive, PTL DEF Spec, MovesAreFree

(* Only the commit of a completion completes a project.                    *)
LEMMA OneCompletes ==
    ASSUME NEW w \in Workers, project # "COMPLETED", project' = "COMPLETED",
           Plan(w) \/ Scan(w) \/ Control(w) \/ Production(w) \/ Abort(w)
    PROVE  CompleteCommit(w)
  <1>1. CASE Plan(w)
    BY <1>1 DEF Plan, CreateBatch, ReleaseLoad, ReleaseCommit, CompleteLoad,
       CompleteCheck, tables
  <1>2. CASE Scan(w)
    BY <1>2 DEF Scan, ScanLoad, ScanBlocked, ScanRelease, ScanGate, ScanReceive,
       ResolveLoad, ResolveCommit, tables
  <1>3. CASE Control(w)
    BY <1>3 DEF Control, Inspect, LookUpPack, OpenInspection, DecideLoad,
       DecideCommit, tables
  <1>4. CASE Production(w)
    BY <1>4 DEF Production, AnalyseLoad, AnalyseCheck, AnalyseCommit, CloseLoad,
       CloseGate, CloseCommit, tables
  <1>5. CASE Abort(w)
    BY <1>5 DEF Abort, tables
  <1>6. QED
    BY <1>1, <1>2, <1>3, <1>4, <1>5

(* However transactions interleave, a project is completed by one that     *)
(* counted its packs, and each of these has passed at the end of its route *)
(* or was scrapped by an analysis; only an overlap lets it miss a pack.    *)
THEOREM CompletionsEarned == Spec => CompletionsAreEarned
  <1> DEFINE Earned ==
        project # "COMPLETED" /\ project' = "COMPLETED" =>
          \E w \in DOMAIN job :
            /\ job[w].pc = "completing" /\ job'[w] = Idle
            /\ job[w].packs # {}
            /\ \A b \in job[w].packs : Accounted(b)
            /\ \A b \in Batches \ job[w].packs : Exists(b) => lapped'
  <1>1. IInv /\ Serial /\ [Next]_vars => [Earned]_vars
    <2>1. SUFFICES ASSUME IInv, Serial, Next,
                          project # "COMPLETED", project' = "COMPLETED"
                   PROVE  \E w \in Workers :
                            /\ job[w].pc = "completing" /\ job'[w] = Idle
                            /\ job[w].packs # {}
                            /\ \A b \in job[w].packs : Accounted(b)
                            /\ \A b \in Batches \ job[w].packs : Exists(b) => lapped'
      <3>1. IInv => DOMAIN job = Workers
        BY DEF IInv, TypeOK
      <3>2. QED
        BY <3>1
    <2>2. PICK w \in Workers :
            /\ Plan(w) \/ Scan(w) \/ Control(w) \/ Production(w) \/ Abort(w)
            /\ lapped' = (lapped \/ Overlaps(w))
      BY <2>1 DEF Next
    <2>3. CompleteCommit(w)
      BY <2>1, <2>2, OneCompletes
    <2>4. job[w].pc = "completing" /\ job'[w] = Idle
      BY <2>1, <2>3 DEF CompleteCommit, Finish, IInv, TypeOK
    <2>5. job[w].packs # {} /\ \A b \in job[w].packs : Accounted(b)
      BY <2>1, <2>4 DEF IInv, ValidJob
    <2>6. ASSUME NEW b \in Batches \ job[w].packs, Exists(b), ~lapped' PROVE FALSE
      <3>1. Current(w)
        BY <2>1, <2>6, AloneStep DEF AllCurrent
      <3>2. QED
        BY <2>4, <2>6, <3>1 DEF Current
    <2>7. lapped' \in BOOLEAN
      BY <2>1, <2>2 DEF IInv, TypeOK
    <2>8. QED
      BY <2>4, <2>5, <2>6, <2>7
  <1>2. QED
    BY <1>1, Inductive, SerialInductive, PTL DEF Spec, CompletionsAreEarned
-----------------------------------------------------------------------------
(* What the screens work out.                                              *)

(* A set of natural numbers has a least element.                           *)
LEMMA LeastNumber ==
    ASSUME NEW T \in SUBSET Nat, T # {}
    PROVE  \E x \in T : \A y \in T : x <= y
  <1>1. PICK x \in T : \A y \in T : <<y, x>> \notin OpToRel(<, Nat)
    BY NatLessThanWellFounded, WFMin
  <1>2. ASSUME NEW y \in T PROVE ~(y < x)
    <2> DEFINE pair == <<y, x>>
    <2>1. pair \in Nat \X Nat /\ pair[1] = y /\ pair[2] = x
      BY SMT
    <2>2. pair \notin OpToRel(<, Nat)
      BY <1>1
    <2> HIDE DEF pair
    <2>3. ~(pair[1] < pair[2])
      BY <2>1, <2>2, Zenon DEF OpToRel
    <2>4. QED
      BY <2>1, <2>3
  <1>3. QED
    BY <1>2

(* A set of row numbers has a greatest one, and Newest is that.            *)
LEMMA NewestIsGreatest ==
    ASSUME NEW n \in Nat, NEW S \in SUBSET (1..n), S # {}
    PROVE  Newest(S) \in S /\ \A j \in S : j <= Newest(S)
  <1> DEFINE T == {n - i : i \in S}
  <1>1. T \in SUBSET Nat /\ T # {}
    <2>1. \A i \in S : n - i \in Nat
      OBVIOUS
    <2>2. QED
      BY <2>1, Zenon
  <1> HIDE DEF T
  <1>2. PICK x \in T : \A y \in T : x <= y
    BY <1>1, LeastNumber
  <1>3. PICK i \in S : x = n - i
    BY DEF T
  <1>4. ASSUME NEW j \in S PROVE j <= i
    <2>1. n - j \in T
      BY DEF T
    <2>2. n - i <= n - j
      BY <1>2, <1>3, <2>1
    <2>3. QED
      BY <2>2
  <1>5. QED
    BY <1>4 DEF Newest

(* The batch list shows the verdict the gate of a scan looks at.           *)
LEMMA ShownIsGate ==
    ASSUME TypeOK, NEW b \in Batches, NEW st
    PROVE  GateVerdict(b, st) = "PASSED" <=> PassesGate(b, st)
  <1>1. CASE InspectionsAt(b, st) = {}
    BY <1>1 DEF GateVerdict, PassesGate
  <1>2. CASE InspectionsAt(b, st) # {}
    <2>1. Len(inspections) \in Nat
      BY DEF TypeOK
    <2>2. InspectionsAt(b, st) \in SUBSET (1..Len(inspections))
      BY DEF InspectionsAt
    <2>3. /\ Newest(InspectionsAt(b, st)) \in InspectionsAt(b, st)
          /\ \A j \in InspectionsAt(b, st) : j <= Newest(InspectionsAt(b, st))
      BY <1>2, <2>1, <2>2, NewestIsGreatest
    <2>4. \A i \in InspectionsAt(b, st) :
            (\A j \in InspectionsAt(b, st) : j <= i)
              => i = Newest(InspectionsAt(b, st))
      BY <2>1, <2>2, <2>3
    <2>5. QED
      BY <1>2, <2>3, <2>4 DEF GateVerdict, PassesGate
  <1>3. QED
    BY <1>1, <1>2

(* A route step found by its station has that station. *)
LEMMA StepFound ==
    ASSUME NEW st
    PROVE  /\ (\E k \in 1..LastStep : Route[k] = st) =>
                FirstStepAt(st) \in 1..LastStep /\ Route[FirstStepAt(st)] = st
           /\ ~(\E k \in 1..LastStep : Route[k] = st) => FirstStepAt(st) = 0
  <1>1. SUFFICES ASSUME \E k \in 1..LastStep : Route[k] = st
                 PROVE  FirstStepAt(st) \in 1..LastStep /\ Route[FirstStepAt(st)] = st
    BY DEF FirstStepAt
  <1> DEFINE T == {k \in 1..LastStep : Route[k] = st}
  <1>2. T \in SUBSET Nat /\ T # {}
    BY <1>1, RouteSteps
  <1>3. PICK k \in T : \A y \in T : k <= y
    BY <1>2, LeastNumber
  <1>4. k \in 1..LastStep /\ Route[k] = st /\ \A j \in 1..k - 1 : Route[j] # st
    BY <1>3, RouteSteps
  <1>5. FirstStepAt(st) = CHOOSE h \in 1..LastStep :
          Route[h] = st /\ \A j \in 1..h - 1 : Route[j] # st
    BY <1>1 DEF FirstStepAt
  <1>6. QED
    BY <1>4, <1>5

(* What the list of packs shows of an active pack is what a scan meets.    *)
LEMMA ShownIsTaken ==
    ASSUME TypeOK, AtItsStep, NEW b \in Batches, batch[b].status = "ACTIVE"
    PROVE  /\ QcGate(b) # "COMPLETE" =>
                (QcGate(b) \in {"RELEASE", "PASSED"} <=> WouldAdvance(b))
           /\ batch[b].at.pos > 0 => (QcGate(b) = "COMPLETE" <=> Finished(b))
           /\ ~Finished(b) => NextExpectedStep(b) = Expected(batch[b].at).station
  <1> DEFINE at == batch[b].at
             step == CurrentStep(at)
             verdict == GateVerdict(b, Route[step])
  <1>1. at \in Position /\ at.pos \in Nat /\ at.pos <= LastStep
    BY RouteSteps DEF TypeOK, BatchRow, Position
  <1>2. at.pos > 0 => at.station = Route[at.pos] /\ ~PreRoute(at) /\ step = at.pos
    <2>1. SUFFICES ASSUME at.pos > 0
                   PROVE  at.station = Route[at.pos] /\ ~PreRoute(at) /\ step = at.pos
      OBVIOUS
    <2>2. at.station = Route[at.pos]
      BY <2>1 DEF AtItsStep
    <2>3. Route[at.pos].stage # Origin.stage
      BY <1>1, <2>1, RouteAssumption DEF LastStep
    <2>4. QED
      BY <2>1, <2>2, <2>3 DEF PreRoute, CurrentStep
  <1>3. QcGate(b) =
          IF PreRoute(at) THEN "RELEASE"
          ELSE IF step = 0 THEN "BLOCKED"
          ELSE IF step = LastStep THEN "COMPLETE"
          ELSE IF verdict = "NONE" THEN "PENDING"
          ELSE IF verdict = "PASSED" THEN "PASSED" ELSE "HELD"
    BY DEF QcGate
  <1>4. Scannable(batch[b].status)
    BY DEF Scannable
  <1>5. Finished(b) <=> at.pos = LastStep
    BY <1>1, RouteSteps DEF Finished, StepsBeyond
  <1>6. at.pos = 0 => GateStations(at) =
          {st \in {at.station} : \E k \in 1..LastStep : Route[k] = st}
    BY DEF GateStations
  <1>7. at.pos > 0 => GateStations(at) = {Route[at.pos]}
    BY DEF GateStations
  <1>8. at.pos = 0 => step = FirstStepAt(at.station)
    BY DEF CurrentStep
  <1>9. WouldAdvance(b) <=>
          /\ at.pos # LastStep
          /\ PreRoute(at) \/ \E st \in GateStations(at) : PassesGate(b, st)
    BY <1>4 DEF WouldAdvance, RouteComplete
  <1>10. LastStep \in Nat \ {0}
    BY RouteSteps
  <1> HIDE DEF at, step
  <1>11. QcGate(b) # "COMPLETE" =>
           (QcGate(b) \in {"RELEASE", "PASSED"} <=> WouldAdvance(b))
    <2>1. CASE PreRoute(at)
      BY <1>1, <1>2, <1>3, <1>9, <1>10, <2>1
    <2>2. CASE ~PreRoute(at) /\ step = 0
      <3>1. at.pos = 0
        BY <1>1, <1>2, <2>2
      <3>2. GateStations(at) = {}
        BY <1>6, <1>8, <2>2, <3>1, StepFound
      <3>3. QED
        BY <1>3, <1>9, <2>2, <3>2
    <2>3. CASE ~PreRoute(at) /\ step # 0 /\ step # LastStep
      <3>1. GateStations(at) = {Route[step]} /\ at.pos # LastStep
        BY <1>1, <1>2, <1>6, <1>7, <1>8, <1>10, <2>3, StepFound
      <3>2. QcGate(b) = "PASSED" <=> verdict = "PASSED"
        BY <1>3, <2>3
      <3>3. QcGate(b) # "RELEASE"
        BY <1>3, <2>3
      <3>4. QED
        BY <1>9, <2>3, <3>1, <3>2, <3>3, ShownIsGate
    <2>4. CASE ~PreRoute(at) /\ step # 0 /\ step = LastStep
      BY <1>3, <2>4
    <2>5. QED
      BY <2>1, <2>2, <2>3, <2>4
  <1>12. at.pos > 0 => (QcGate(b) = "COMPLETE" <=> Finished(b))
    BY <1>1, <1>2, <1>3, <1>5
  <1>13. ~Finished(b) => NextExpectedStep(b) = Expected(at).station
    <2>1. SUFFICES ASSUME at.pos < LastStep
                   PROVE  NextExpectedStep(b) = Route[at.pos + 1]
      BY <1>1, <1>5, <1>10 DEF Expected
    <2>2. at.pos + 1 \in StepsBeyond(b)
      BY <1>1, <1>10, <2>1 DEF StepsBeyond, at
    <2>3. \A k \in StepsBeyond(b) : k \in Nat /\ at.pos + 1 <= k
      BY <1>1, <1>10 DEF StepsBeyond, at
    <2>4. \A k \in StepsBeyond(b) :
            (\A other \in StepsBeyond(b) : k <= other) <=> k = at.pos + 1
      BY <1>1, <2>2, <2>3
    <2>5. QED
      BY <2>2, <2>4 DEF NextExpectedStep
  <1>14. QED
    BY <1>11, <1>12, <1>13 DEF at

(* The disposition that is shown is that of the newest analysis, or no     *)
(* disposition at all.                                                     *)
LEMMA ShownIsNewest ==
    ASSUME TypeOK, NEW b \in Batches
    PROVE  /\ \A a \in AnalysesOf(b) : IsNewest(b, a) =>
                QcDisposition(b) = analyses[a].disposition
           /\ AnalysesOf(b) # {} => \E a \in AnalysesOf(b) : IsNewest(b, a)
           /\ AnalysesOf(b) = {} => QcDisposition(b) \notin Dispositions
  <1>1. Len(analyses) \in Nat /\ AnalysesOf(b) \in SUBSET (1..Len(analyses))
    BY DEF TypeOK, AnalysesOf
  <1>2. CASE AnalysesOf(b) # {}
    <2>1. /\ Newest(AnalysesOf(b)) \in AnalysesOf(b)
          /\ \A j \in AnalysesOf(b) : j <= Newest(AnalysesOf(b))
      BY <1>1, <1>2, NewestIsGreatest
    <2>2. \A a \in AnalysesOf(b) : IsNewest(b, a) => a = Newest(AnalysesOf(b))
      BY <1>1, <2>1 DEF IsNewest
    <2>3. QED
      BY <1>2, <2>1, <2>2 DEF QcDisposition, IsNewest
  <1>3. CASE AnalysesOf(b) = {}
    <2>1. ASSUME InspectionsOf(b) # {}
          PROVE  LatestVerdict(Newest(InspectionsOf(b))) \notin Dispositions
      <3>1. Len(inspections) \in Nat
        BY DEF TypeOK
      <3>2. InspectionsOf(b) \in SUBSET (1..Len(inspections))
        BY DEF InspectionsOf
      <3>3. PICK i \in 1..Len(inspections) : i = Newest(InspectionsOf(b))
        BY <2>1, <3>1, <3>2, NewestIsGreatest
      <3>4. inspections[i] \in Inspection
        BY DEF TypeOK
      <3>5. inspections[i].decisions \in Seq(Decision)
        BY <3>4 DEF Inspection
      <3>6. CASE inspections[i].decisions = <<>>
        BY <3>3, <3>6 DEF LatestVerdict, Dispositions
      <3>7. CASE inspections[i].decisions # <<>>
        <4>1. inspections[i].decisions[Len(inspections[i].decisions)] \in Decision
          BY <3>5, <3>7
        <4>2. LatestVerdict(i) \in Verdicts
          BY <3>7, <4>1 DEF LatestVerdict, Decision
        <4>3. QED
          BY <3>3, <4>2 DEF Verdicts, Dispositions
      <3>8. QED
        BY <3>6, <3>7
    <2>2. QED
      BY <1>3, <2>1 DEF QcDisposition, Dispositions
  <1>4. QED
    BY <1>2, <1>3

(* Every screen computes on its own what a command decides, and agrees     *)
(* with it in every state, whatever has overlapped.                        *)
THEOREM ScreensTell == Spec => []ScreensTellCommands
  <1>1. IInv => ScreensTellCommands
    <2>1. SUFFICES ASSUME IInv PROVE ScreensTellCommands
      OBVIOUS
    <2>2. TypeOK /\ AtItsStep
      BY <2>1 DEF IInv, TableInv
    <2>3. ASSUME NEW b \in Batches PROVE BatchTerminal(b) <=> Resolved(b)
      <3>1. Resolved(b) <=>
              \/ batch[b].status = "CLOSED"
              \/ /\ batch[b].status = "SCRAPPED"
                 /\ \E a \in AnalysesOf(b) :
                      IsNewest(b, a) /\ analyses[a].disposition = "SCRAP"
        BY DEF Resolved, IsNewest
      <3>2. QcDisposition(b) = "SCRAP" <=>
              \E a \in AnalysesOf(b) :
                IsNewest(b, a) /\ analyses[a].disposition = "SCRAP"
        BY <2>2, ShownIsNewest DEF Dispositions
      <3>3. QED
        BY <3>1, <3>2 DEF BatchTerminal
    <2>4. CompletionReady <=> CompletionAllowed
      BY <2>3 DEF CompletionReady, CompletionAllowed
    <2>5. QED
      BY <2>2, <2>4, ShownIsTaken DEF ScreensTellCommands
  <1>2. QED
    BY <1>1, Inductive, PTL

(* While no two transactions have overlapped, the disposition shown for a  *)
(* pack is what became of it.                                              *)
THEOREM FatesShown == Spec => []FatesAreShown
  <1>1. IInv /\ Serial => FatesAreShown
    <2>1. SUFFICES ASSUME TypeOK, FatesFollow PROVE DispositionIsFate
      BY DEF IInv, Serial, Books, FatesAreShown
    <2>2. SUFFICES ASSUME NEW b \in Batches
                   PROVE  /\ batch[b].status = "SCRAPPED" =>
                               QcDisposition(b) = "SCRAP"
                          /\ QcDisposition(b) = "SCRAP" =>
                               batch[b].status \in {"SCRAPPED", "HELD"}
                          /\ QcDisposition(b) = "REWORK" =>
                               batch[b].status = "HELD"
      BY DEF DispositionIsFate
    <2>3. /\ \A a \in AnalysesOf(b) : IsNewest(b, a) =>
               QcDisposition(b) = analyses[a].disposition
          /\ AnalysesOf(b) # {} => \E a \in AnalysesOf(b) : IsNewest(b, a)
          /\ AnalysesOf(b) = {} => QcDisposition(b) \notin Dispositions
      BY <2>1, ShownIsNewest
    <2>4. QED
      BY <2>1, <2>3 DEF FatesFollow, Dispositions
  <1>2. QED
    BY <1>1, Inductive, SerialInductive, PTL
=============================================================================
