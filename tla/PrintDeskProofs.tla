--------------------------- MODULE PrintDeskProofs ---------------------------
(***************************************************************************)
(* The label printer of a section, for any number of packs, prints and     *)
(* quantities: what is recorded of the labels handed over, and how the     *)
(* labels of packs whose prints do not overlap are numbered.               *)
(***************************************************************************)
EXTENDS PrintDesk, FiniteSetTheorems, FunctionTheorems, TLAPS

(* What a print between two of its steps is.                               *)
Printing ==
    [at: {"number", "deliver", "spool", "record"}, pack: Packs \cup {"desk"},
     reprintOf: Nat, sequence: Nat, status: {"SENT", "SIMULATED", "FAILED"},
     quantity: Quantities]

(* A label has been spooled before one is printed from a file.             *)
Spooled == (\E j \in Jobs : At(j, "spool")) => spool \in Label \cup {DeskLabel}

IInv == TypeOK /\ job \in [Jobs -> {Idle} \cup Printing] /\ Spooled

(* The label that a row says it is of.                                     *)
LabelIn(r) ==
    [pack |-> rows[r].pack, sequence |-> rows[r].sequence,
     quantity |-> rows[r].quantity]

(* A row tells of a label, or will once its print is done, unless a print  *)
(* of its pack rolled back.                                                *)
Known(label) ==
    \/ label.pack \in undone
    \/ \E r \in 1..Len(rows) : LabelIn(r) = label
    \/ \E j \in Jobs : (At(j, "spool") \/ At(j, "record")) /\ LabelOf(j) = label
Recorded ==
    /\ \A label \in handed : label = DeskLabel \/ Known(label)
    /\ (\E j \in Jobs : At(j, "spool")) => spool = DeskLabel \/ Known(spool)

(* On the network nothing waits in a file, and what is sent was handed over.*)
Sent ==
    connection = "NETWORK" =>
        /\ \A r \in 1..Len(rows) : rows[r].status = "SENT" => LabelIn(r) \in handed
        /\ \A j \in Jobs :
              /\ ~At(j, "spool")
              /\ At(j, "record") /\ job[j].status = "SENT" => LabelOf(j) \in handed

(* The inductive invariant of numbers: of a pack whose prints never        *)
(* overlapped one is under way, and it took the number after the rows.     *)
UpTo(r) == {q \in RowsOf(rows[r].pack) : q <= r}
Exclusive ==
    \A i, j \in Jobs :
        job[i] # Idle /\ job[j] # Idle /\ job[i].pack = job[j].pack
        /\ job[i].pack \in Packs \ crossed => i = j
NumberTaken(j) ==
    job[j] # Idle /\ job[j].at # "number" /\ job[j].pack # "desk"
    /\ job[j].pack \notin crossed => job[j].sequence = NextSequence(job[j].pack)
Numbered ==
    \A r \in 1..Len(rows) : rows[r].pack \notin crossed =>
        rows[r].sequence = Cardinality(UpTo(r))
Numbers == Exclusive /\ Numbered /\ \A j \in Jobs : NumberTaken(j)
-----------------------------------------------------------------------------
(* Types. *)

LEMMA QuantityType ==
  ASSUME IInv, NEW p \in Packs
  PROVE  QuantityOf(p) \in Quantities
<1>1. position[p].quantity \in {0, Planned} \cup Actuals
  BY DEF IInv, TypeOK, Position
<1> QED
  BY <1>1, PrintDeskAssumption DEF QuantityOf, Quantities

LEMMA RowsFinite ==
  ASSUME rows \in Seq(Row), NEW p
  PROVE  /\ IsFiniteSet(RowsOf(p)) /\ Cardinality(RowsOf(p)) \in Nat
         /\ NextSequence(p) \in Nat
<1>1. Len(rows) \in Nat /\ RowsOf(p) \subseteq 1..Len(rows)
  BY DEF RowsOf
<1>2. IsFiniteSet(1..Len(rows))
  BY <1>1, FS_Interval
<1>3. IsFiniteSet(RowsOf(p)) /\ Cardinality(RowsOf(p)) \in Nat
  BY <1>1, <1>2, FS_Subset, FS_CardinalityType
<1> QED
  BY <1>3 DEF NextSequence

LEMMA LabelType ==
  ASSUME IInv, NEW j \in Jobs, job[j] # Idle
  PROVE  LabelOf(j) \in Label \cup {DeskLabel}
  BY DEF IInv, LabelOf, Label, Printing

(* A request for a print has yet to be numbered, but for the desk's.       *)
LEMMA Requested ==
  ASSUME IInv, NEW j \in Jobs, Requests(j)
  PROVE  \E request \in Printing :
            /\ Arrive(j, request)
            /\ \/ request.at = "number"
               \/ request.at = "deliver" /\ request.pack = "desk"
<1>1. CASE Desk(j)
  <2> DEFINE request == [at |-> "deliver", pack |-> "desk", reprintOf |-> 0,
                         sequence |-> 1, status |-> "FAILED", quantity |-> Planned]
  <2>1. /\ Arrive(j, request) /\ request \in Printing
        /\ request.at = "deliver" /\ request.pack = "desk"
    BY <1>1 DEF Desk, Printing, Quantities
  <2> HIDE DEF request
  <2> QED BY <2>1
<1>2. ASSUME NEW p \in Packs, NEW reprintOf \in 0..Len(rows),
             NEW actual \in {0} \cup Actuals, Load(j, p, reprintOf, actual)
      PROVE  \E request \in Printing : Arrive(j, request) /\ request.at = "number"
  <2> DEFINE quantity == IF reprintOf # 0 \/ actual = 0 THEN QuantityOf(p) ELSE actual
             request == [at |-> "number", pack |-> p, reprintOf |-> reprintOf,
                         sequence |-> 0, status |-> "FAILED", quantity |-> quantity]
  <2>1. Arrive(j, request)
    BY <1>2 DEF Load
  <2>2. quantity \in Quantities
    BY QuantityType DEF Quantities
  <2> HIDE DEF quantity
  <2>3. request \in Printing /\ request.at = "number"
    BY <2>2 DEF Printing, IInv, TypeOK
  <2> HIDE DEF request
  <2> QED BY <2>1, <2>3
<1> QED
  BY <1>1, <1>2 DEF Requests

LEMMA InitIInv == Init => IInv
<1> SUFFICES ASSUME Init
             PROVE  IInv
  OBVIOUS
<1>1. position \in [Packs -> Position]
  BY DEF Init, Position
<1>2. restarts \in 0..MaxRestarts /\ prints \in 0..MaxPrints
  BY PrintDeskAssumption DEF Init
<1>3. rows \in Seq(Row) /\ handed \subseteq Label \cup {DeskLabel}
  BY DEF Init
<1>4. job \in [Jobs -> {Idle} \cup Printing]
  BY DEF Init
<1>5. Spooled
  BY DEF Init, Spooled, At
<1>6. /\ connection \in Connections /\ working \in BOOLEAN
      /\ spool \in Label \cup {DeskLabel, NoLabel}
      /\ crossed \subseteq Packs /\ undone \subseteq Packs
  BY DEF Init
<1> QED
  BY <1>1, <1>2, <1>3, <1>4, <1>5, <1>6 DEF IInv, TypeOK

(* Only WriteFile brings a print to its file.                              *)
LEMMA StillSpooled ==
  ASSUME IInv, NEW j \in Jobs, spool' = spool,
         \A i \in Jobs \ {j} : job'[i] = job[i], ~At(j, "spool")'
  PROVE  Spooled'
  BY DEF IInv, Spooled, At

LEMMA ArriveTyped ==
  ASSUME IInv, NEW j \in Jobs, NEW request \in Printing, request.at # "spool",
         Arrive(j, request)
  PROVE  IInv'
<1>1. prints' \in 0..MaxPrints
  BY PrintDeskAssumption DEF Arrive, IInv, TypeOK
<1>2. crossed' \subseteq Packs
  BY DEF Arrive, IInv, TypeOK
<1>3. job' \in [Jobs -> {Idle} \cup Printing]
  BY DEF Arrive, IInv
<1>4. Spooled'
  <2>1. ~At(j, "spool")' /\ \A i \in Jobs \ {j} : job'[i] = job[i]
    BY DEF Arrive, IInv, At
  <2> QED BY <2>1, StillSpooled DEF Arrive
<1> QED
  BY <1>1, <1>2, <1>3, <1>4 DEF Arrive, IInv, TypeOK

LEMMA DeliveredTyped ==
  ASSUME IInv, NEW j \in Jobs, job[j] # Idle,
         NEW status \in {"SENT", "SIMULATED", "FAILED"}, Delivered(j, status),
         spool' = spool
  PROVE  job' \in [Jobs -> {Idle} \cup Printing] /\ Spooled'
<1> DEFINE new == [job[j] EXCEPT !.status = status, !.at = "record"]
<1>1. job[j] \in Printing
  BY DEF IInv
<1>2. new \in Printing /\ new.at = "record"
  BY <1>1 DEF Printing
<1>3. job' = [job EXCEPT ![j] = new]
  BY <1>1 DEF Delivered, IInv, Printing
<1> HIDE DEF new
<1>4. job' \in [Jobs -> {Idle} \cup Printing]
  BY <1>2, <1>3 DEF IInv
<1>5. ~At(j, "spool")' /\ \A i \in Jobs \ {j} : job'[i] = job[i]
  BY <1>2, <1>3 DEF At, IInv
<1> QED
  BY <1>4, <1>5, StillSpooled

LEMMA IInvStep == IInv /\ [Next]_vars => IInv'
<1> SUFFICES ASSUME IInv, [Next]_vars
             PROVE  IInv'
  OBVIOUS
<1>1. CASE UNCHANGED vars
  BY <1>1 DEF vars, IInv, TypeOK, Spooled, At
<1>2. CASE Switch
  <2>1. restarts' \in 0..MaxRestarts
    BY <1>2, PrintDeskAssumption DEF Switch, IInv, TypeOK
  <2>2. Spooled'
    BY <1>2 DEF Switch, IInv, Spooled, At
  <2> QED BY <1>2, <2>1, <2>2 DEF Switch, IInv, TypeOK
<1>3. ASSUME NEW p \in Packs, NEW quantity \in {0} \cup Actuals, Leave(p, quantity)
      PROVE  IInv'
  <2>1. position' \in [Packs -> Position]
    BY <1>3 DEF Leave, IInv, TypeOK, Position
  <2>2. Spooled'
    BY <1>3 DEF Leave, IInv, Spooled, At
  <2> QED BY <1>3, <2>1, <2>2 DEF Leave, IInv, TypeOK
<1>4. ASSUME NEW j \in Jobs, Requests(j)
      PROVE  IInv'
  BY <1>4, Requested, ArriveTyped
<1>5. ASSUME NEW j \in Jobs, Number(j)
      PROVE  IInv'
  <2>1. NextSequence(job[j].pack) \in Nat
    BY RowsFinite DEF IInv, TypeOK
  <2>2. job' \in [Jobs -> {Idle} \cup Printing]
    BY <1>5, <2>1 DEF Number, At, IInv, Printing
  <2>3. Spooled'
    BY <1>5, <2>2 DEF Number, IInv, Spooled, At
  <2> QED BY <1>5, <2>2, <2>3 DEF Number, IInv, TypeOK
<1>6. ASSUME NEW j \in Jobs, Deliver(j)
      PROVE  IInv'
  <2>1. job[j] # Idle /\ job[j] \in Printing
    BY <1>6 DEF Deliver, Simulate, SendRaw, WriteFile, SpoolFile, At, IInv
  <2>2. LabelOf(j) \in Label \cup {DeskLabel}
    BY <2>1, LabelType
  <2>3. ASSUME NEW status \in {"SENT", "SIMULATED", "FAILED"}, Delivered(j, status),
               Unprinted, handed' \subseteq Label \cup {DeskLabel}
        PROVE  IInv'
    BY <2>1, <2>3, DeliveredTyped DEF Unprinted, IInv, TypeOK
  <2>4. CASE Simulate(j)
    <3>1. handed' \subseteq Label \cup {DeskLabel}
      BY <2>4 DEF Simulate, IInv, TypeOK
    <3> QED BY <2>3, <2>4, <3>1 DEF Simulate
  <2>5. CASE SendRaw(j)
    <3>1. handed' \subseteq Label \cup {DeskLabel}
      BY <2>2, <2>5 DEF SendRaw, IInv, TypeOK
    <3> QED BY <2>3, <2>5, <3>1 DEF SendRaw
  <2>6. CASE WriteFile(j)
    <3>1. job' \in [Jobs -> {Idle} \cup Printing]
      BY <2>1, <2>6 DEF WriteFile, IInv, Printing
    <3>2. Spooled'
      BY <2>2, <2>6 DEF WriteFile, Spooled
    <3> QED BY <2>2, <2>6, <3>1, <3>2 DEF WriteFile, IInv, TypeOK
  <2>7. CASE SpoolFile(j)
    <3>1. spool \in Label \cup {DeskLabel}
      BY <2>7 DEF SpoolFile, IInv, Spooled
    <3>2. PICK file \in {LabelOf(j), spool} : handed' \in {handed, handed \cup {file}}
      BY <2>7 DEF SpoolFile
    <3>3. handed' \subseteq Label \cup {DeskLabel}
      BY <2>2, <3>1, <3>2 DEF IInv, TypeOK
    <3> QED BY <2>3, <2>7, <3>3 DEF SpoolFile
  <2> QED BY <1>6, <2>4, <2>5, <2>6, <2>7 DEF Deliver
<1>7. ASSUME NEW j \in Jobs, Record(j)
      PROVE  IInv'
  <2>1. job[j] \in Printing /\ job[j].pack # "desk"
    BY <1>7 DEF Record, At, IInv
  <2>2. rows' \in Seq(Row)
    BY <1>7, <2>1 DEF Record, IInv, TypeOK, Printing, Row
  <2>3. job' \in [Jobs -> {Idle} \cup Printing] /\ Spooled'
    BY <1>7 DEF Record, IInv, Spooled, At
  <2> QED BY <1>7, <2>2, <2>3 DEF Record, IInv, TypeOK
<1>8. ASSUME NEW j \in Jobs, DeskDone(j) \/ Abort(j)
      PROVE  IInv'
  <2>1. job' \in [Jobs -> {Idle} \cup Printing] /\ Spooled'
    BY <1>8 DEF DeskDone, Abort, IInv, Spooled, At
  <2>2. undone' \subseteq Packs
    BY <1>8 DEF DeskDone, Abort, IInv, TypeOK
  <2> QED BY <1>8, <2>1, <2>2 DEF DeskDone, Abort, IInv, TypeOK
<1> QED
  BY <1>1, <1>2, <1>3, <1>4, <1>5, <1>6, <1>7, <1>8 DEF Next

(* Rows, labels, positions and the printer keep their types.             *)
THEOREM TypeCorrect == Spec => []TypeOK
<1>1. IInv => TypeOK
  BY DEF IInv
<1> QED
  BY <1>1, InitIInv, IInvStep, PTL DEF Spec
-----------------------------------------------------------------------------
(* A step of one print. *)

LEMMA SameLabels ==
  ASSUME rows' = rows
  PROVE  /\ \A r : LabelIn(r)' = LabelIn(r) /\ UpTo(r)' = UpTo(r)
         /\ \A p : RowsOf(p)' = RowsOf(p) /\ NextSequence(p)' = NextSequence(p)
  BY DEF RowsOf, NextSequence, LabelIn, UpTo

LEMMA SamePrints ==
  ASSUME NEW j \in Jobs, \A i \in Jobs \ {j} : job'[i] = job[i]
  PROVE  \A i \in Jobs \ {j} :
            /\ LabelOf(i)' = LabelOf(i)
            /\ \A place : At(i, place)' = At(i, place)
  BY DEF LabelOf, DeskLabel, At

(* A step of print j leaves the other prints alone.                        *)
Others(j) == \A i \in Jobs \ {j} : job'[i] = job[i]

(* A print that has its number goes on with its pack, its number and its   *)
(* quantity, and nothing is recorded.                                      *)
Forward(j, place) ==
    /\ job[j] \in Printing /\ job'[j] \in Printing
    /\ job[j] # Idle /\ job'[j] # Idle
    /\ job'[j].at = place /\ job'[j].pack = job[j].pack
    /\ job'[j].sequence = job[j].sequence /\ job'[j].quantity = job[j].quantity
    /\ Others(j) /\ LabelOf(j)' = LabelOf(j)

LEMMA DeliveredForward ==
  ASSUME IInv, NEW j \in Jobs, job[j] # Idle,
         NEW status \in {"SENT", "SIMULATED", "FAILED"}, Delivered(j, status)
  PROVE  Forward(j, "record") /\ job'[j].status = status
<1>1. job[j] \in Printing
  BY DEF IInv
<1>2. job'[j] = [job[j] EXCEPT !.status = status, !.at = "record"]
  BY <1>1 DEF Delivered, IInv, Printing
<1>3. job'[j] \in Printing
  BY <1>1, <1>2 DEF Printing
<1>4. /\ job'[j].at = "record" /\ job'[j].status = status
      /\ job'[j].pack = job[j].pack
      /\ job'[j].sequence = job[j].sequence /\ job'[j].quantity = job[j].quantity
  BY <1>1, <1>2 DEF Printing
<1>5. Others(j)
  BY DEF Delivered, IInv, Others
<1>6. LabelOf(j)' = LabelOf(j)
  BY <1>4 DEF LabelOf, DeskLabel
<1>7. job'[j] # Idle
  BY <1>3, <1>4 DEF Idle, Printing
<1> QED
  BY <1>1, <1>3, <1>4, <1>5, <1>6, <1>7 DEF Forward

LEMMA WrittenForward ==
  ASSUME IInv, NEW j \in Jobs, WriteFile(j)
  PROVE  Forward(j, "spool") /\ At(j, "spool")'
<1>1. job[j] \in Printing /\ job[j] # Idle
  BY DEF WriteFile, At, IInv
<1>2. job'[j] = [job[j] EXCEPT !.at = "spool"]
  BY <1>1 DEF WriteFile, IInv, Printing
<1>3. job'[j] \in Printing
  BY <1>1, <1>2 DEF Printing
<1>4. /\ job'[j].at = "spool" /\ job'[j].pack = job[j].pack
      /\ job'[j].sequence = job[j].sequence /\ job'[j].quantity = job[j].quantity
  BY <1>1, <1>2 DEF Printing
<1>5. Others(j)
  BY DEF WriteFile, IInv, Others
<1>6. LabelOf(j)' = LabelOf(j)
  BY <1>4 DEF LabelOf, DeskLabel
<1>7. job'[j] # Idle
  BY <1>3, <1>4 DEF Idle, Printing
<1> QED
  BY <1>1, <1>3, <1>4, <1>5, <1>6, <1>7 DEF Forward, At

(* A print that ends leaves the other prints alone.                        *)
LEMMA Ended ==
  ASSUME IInv, NEW j \in Jobs, job' = [job EXCEPT ![j] = Idle]
  PROVE  Others(j) /\ job'[j] = Idle /\ \A place : ~At(j, place)'
  BY DEF IInv, Others, At
-----------------------------------------------------------------------------
(* What is recorded of the labels handed over. *)

(* The rows stay, and one may be added.                                    *)
RowsStay ==
    \A r \in 1..Len(rows) : r \in 1..Len(rows') /\ LabelIn(r)' = LabelIn(r)

(* A print that is done adds the row of its label after the others.        *)
LEMMA RowAdded ==
  ASSUME IInv, NEW j \in Jobs, Record(j)
  PROVE  /\ RowsStay
         /\ \E r \in 1..Len(rows') : LabelIn(r)' = LabelOf(j)
         /\ \A r \in 1..Len(rows') :
              \/ r \in 1..Len(rows) /\ rows'[r] = rows[r] /\ LabelIn(r)' = LabelIn(r)
              \/ /\ r = Len(rows) + 1 /\ LabelIn(r)' = LabelOf(j)
                 /\ rows'[r].pack = job[j].pack /\ rows'[r].status = job[j].status
                 /\ rows'[r].sequence = job[j].sequence
         /\ Len(rows') = Len(rows) + 1 /\ Len(rows) \in Nat
<1> PICK n : n = Len(rows)
  OBVIOUS
<1> DEFINE row == [pack |-> job[j].pack, sequence |-> job[j].sequence,
                   quantity |-> job[j].quantity, reprintOf |-> job[j].reprintOf,
                   status |-> job[j].status]
<1>1. job[j] \in Printing /\ job[j].pack # "desk"
  BY DEF Record, At, IInv
<1>2. /\ LabelOf(j) = [pack |-> row.pack, sequence |-> row.sequence,
                       quantity |-> row.quantity]
      /\ row.pack = job[j].pack /\ row.status = job[j].status
      /\ row.sequence = job[j].sequence
  BY <1>1 DEF LabelOf
<1>3. rows' = Append(rows, row)
  BY DEF Record
<1>4. row \in Row /\ rows \in Seq(Row)
  BY <1>1 DEF IInv, TypeOK, Printing, Row
<1> HIDE DEF row
<1>5. n \in Nat /\ Len(rows') = n + 1 /\ rows'[n + 1] = row
      /\ \A r \in 1..n : rows'[r] = rows[r]
  BY <1>3, <1>4
<1>6. 1..Len(rows') = 1..n \cup {n + 1}
  BY <1>5
<1>7. \A r \in 1..n : LabelIn(r)' = LabelIn(r)
  BY <1>5 DEF LabelIn
<1>8. LabelIn(n + 1)' = LabelOf(j)
  BY <1>2, <1>5 DEF LabelIn
<1>9. n + 1 \in 1..Len(rows') /\ RowsStay
  BY <1>6, <1>7 DEF RowsStay
<1> QED
  BY <1>2, <1>5, <1>6, <1>7, <1>8, <1>9

(* The label a print is about to record is known after its step.           *)
Keeps(j) ==
    \A label : (At(j, "spool") \/ At(j, "record")) /\ LabelOf(j) = label
                => label = DeskLabel \/ Known(label)'

LEMMA KnownStays ==
  ASSUME NEW j \in Jobs, Others(j), undone \subseteq undone', RowsStay, Keeps(j),
         NEW label, label # DeskLabel, Known(label)
  PROVE  Known(label)'
<1>1. CASE label.pack \in undone
  BY <1>1 DEF Known
<1>2. CASE \E r \in 1..Len(rows) : LabelIn(r) = label
  BY <1>2 DEF Known, RowsStay
<1>3. ASSUME NEW i \in Jobs, At(i, "spool") \/ At(i, "record"), LabelOf(i) = label
      PROVE  Known(label)'
  <2>1. CASE i = j
    BY <1>3, <2>1 DEF Keeps
  <2>2. CASE i # j
    <3>1. LabelOf(i)' = label /\ (At(i, "spool")' \/ At(i, "record")')
      BY <1>3, <2>2, SamePrints DEF Others
    <3> QED BY <3>1 DEF Known
  <2> QED BY <2>1, <2>2
<1> QED
  BY <1>1, <1>2, <1>3 DEF Known

(* What a step of print j hands over or spools must be known after it.     *)
LEMMA RecordedStays ==
  ASSUME Recorded, NEW j \in Jobs, Others(j), undone \subseteq undone', RowsStay, Keeps(j),
         \A label \in handed' : \/ label \in handed
                                \/ label = DeskLabel \/ Known(label)'
                                \/ label = spool /\ At(j, "spool"),
         \/ spool' = spool /\ ~At(j, "spool")'
         \/ spool' = DeskLabel \/ Known(spool)'
         \/ ~\E i \in Jobs : At(i, "spool")'
  PROVE  Recorded'
<1>1. \A label : label # DeskLabel /\ Known(label) => Known(label)'
  BY KnownStays
<1>2. ASSUME NEW label \in handed'
      PROVE  label = DeskLabel \/ Known(label)'
  <2>1. CASE label \in handed
    BY <1>1, <2>1 DEF Recorded
  <2>2. CASE label = spool /\ At(j, "spool")
    BY <1>1, <2>2 DEF Recorded
  <2> QED BY <1>2, <2>1, <2>2
<1>3. ASSUME NEW i \in Jobs, At(i, "spool")'
      PROVE  spool' = DeskLabel \/ Known(spool)'
  <2>1. CASE spool' = spool /\ ~At(j, "spool")'
    <3>1. i # j /\ At(i, "spool")
      BY <1>3, <2>1, SamePrints DEF Others
    <3>2. spool = DeskLabel \/ Known(spool)
      BY <3>1 DEF Recorded
    <3> QED BY <1>1, <2>1, <3>2
  <2> QED BY <1>3, <2>1
<1>4. \A label \in handed' : label = DeskLabel \/ Known(label)'
  BY <1>2
<1>5. (\E i \in Jobs : At(i, "spool")') => spool' = DeskLabel \/ Known(spool)'
  BY <1>3
<1> QED
  BY <1>4, <1>5 DEF Recorded, DeskLabel

(* Whatever only takes a print to its next place.                          *)
LEMMA ForwardKeeps ==
  ASSUME NEW j \in Jobs, NEW place, place \in {"spool", "record"}, Forward(j, place),
         rows' = rows
  PROVE  /\ Others(j) /\ RowsStay /\ Keeps(j)
         /\ \A label : label = LabelOf(j) => Known(label)'
<1>1. At(j, place)' /\ Others(j) /\ LabelOf(j)' = LabelOf(j)
  BY DEF Forward, At
<1>2. RowsStay
  BY SameLabels DEF RowsStay
<1>3. \A label : label = LabelOf(j) => Known(label)'
  BY <1>1 DEF Known
<1>4. Keeps(j)
  BY <1>3 DEF Keeps
<1> QED
  BY <1>1, <1>2, <1>3, <1>4

LEMMA WrittenRecorded ==
  ASSUME Recorded, NEW j \in Jobs, Forward(j, "spool"), rows' = rows, undone' = undone,
         handed' = handed, spool' = LabelOf(j)
  PROVE  Recorded'
<1>1. /\ Others(j) /\ RowsStay /\ Keeps(j)
      /\ \A label : label = LabelOf(j) => Known(label)'
  BY ForwardKeeps
<1>2. Known(spool)'
  BY <1>1
<1> QED
  BY <1>1, <1>2, RecordedStays

LEMMA DeliveredRecorded ==
  ASSUME Recorded, NEW j \in Jobs, Forward(j, "record"), rows' = rows, undone' = undone,
         \A label \in handed' : \/ label \in handed \/ label = LabelOf(j)
                                \/ label = spool /\ At(j, "spool"),
         spool' = spool
  PROVE  Recorded'
<1>1. /\ Others(j) /\ RowsStay /\ Keeps(j)
      /\ \A label : label = LabelOf(j) => Known(label)'
  BY ForwardKeeps
<1>2. ~At(j, "spool")'
  BY DEF Forward, At
<1> QED
  BY <1>1, <1>2, RecordedStays

(* Whatever begins, numbers or ends a print hands nothing over.            *)
LEMMA QuietRecorded ==
  ASSUME Recorded, NEW j \in Jobs, Others(j), RowsStay, Keeps(j), ~At(j, "spool")',
         undone \subseteq undone', handed' = handed, spool' = spool
  PROVE  Recorded'
  BY RecordedStays

LEMMA RecordedStep == IInv /\ Recorded /\ [Next]_vars => Recorded'
<1> SUFFICES ASSUME IInv, Recorded, [Next]_vars
             PROVE  Recorded'
  OBVIOUS
<1>1. ASSUME UNCHANGED <<rows, handed, spool, job, undone>>
      PROVE  Recorded'
  BY <1>1, SameLabels DEF Recorded, Known, At, LabelOf, DeskLabel
<1>2. CASE UNCHANGED vars
  BY <1>1, <1>2 DEF vars
<1>3. CASE Switch
  BY <1>1, <1>3 DEF Switch
<1>4. ASSUME NEW p \in Packs, NEW quantity \in {0} \cup Actuals, Leave(p, quantity)
      PROVE  Recorded'
  BY <1>1, <1>4 DEF Leave
<1>5. ASSUME NEW j \in Jobs, Requests(j)
      PROVE  Recorded'
  <2>1. PICK request : Arrive(j, request) /\ request.at \in {"number", "deliver"}
    BY <1>5, Requested
  <2>2. Others(j) /\ ~At(j, "spool")' /\ ~At(j, "spool") /\ ~At(j, "record")
    BY <2>1 DEF Arrive, Others, At, IInv
  <2>3. RowsStay /\ Keeps(j)
    BY <2>1, <2>2, SameLabels DEF Arrive, RowsStay, Keeps
  <2> QED BY <2>1, <2>2, <2>3, QuietRecorded DEF Arrive
<1>6. ASSUME NEW j \in Jobs, Number(j)
      PROVE  Recorded'
  <2>1. job[j] \in Printing /\ job[j].at = "number"
    BY <1>6 DEF Number, At, IInv
  <2>2. Others(j) /\ ~At(j, "spool")' /\ ~At(j, "spool") /\ ~At(j, "record")
    BY <1>6, <2>1 DEF Number, Others, At, IInv, Printing
  <2>3. RowsStay /\ Keeps(j)
    BY <1>6, <2>2, SameLabels DEF Number, RowsStay, Keeps
  <2> QED BY <1>6, <2>2, <2>3, QuietRecorded DEF Number
<1>7. ASSUME NEW j \in Jobs, Deliver(j)
      PROVE  Recorded'
  <2>1. CASE WriteFile(j)
    <3>1. Forward(j, "spool")
      BY <2>1, WrittenForward
    <3>2. /\ rows' = rows /\ undone' = undone /\ handed' = handed
          /\ spool' = LabelOf(j)
      BY <2>1 DEF WriteFile
    <3> QED BY <3>1, <3>2, WrittenRecorded
  <2>2. CASE Simulate(j) \/ SendRaw(j) \/ SpoolFile(j)
    <3>1. job[j] # Idle
      BY <2>2 DEF Simulate, SendRaw, SpoolFile, At
    <3>2. PICK status \in {"SENT", "SIMULATED", "FAILED"} : Delivered(j, status)
      BY <2>2 DEF Simulate, SendRaw, SpoolFile
    <3>3. Forward(j, "record")
      BY <3>1, <3>2, DeliveredForward
    <3>4. \A label \in handed' : \/ label \in handed \/ label = LabelOf(j)
                                 \/ label = spool /\ At(j, "spool")
      BY <2>2 DEF Simulate, SendRaw, SpoolFile
    <3>5. rows' = rows /\ undone' = undone /\ spool' = spool
      BY <2>2 DEF Simulate, SendRaw, SpoolFile, Unprinted
    <3> QED BY <3>3, <3>4, <3>5, DeliveredRecorded
  <2> QED BY <1>7, <2>1, <2>2 DEF Deliver
<1>8. ASSUME NEW j \in Jobs, Record(j)
      PROVE  Recorded'
  <2>1. Others(j) /\ ~At(j, "spool")'
    BY <1>8, Ended DEF Record
  <2>2. RowsStay /\ \E r \in 1..Len(rows') : LabelIn(r)' = LabelOf(j)
    BY <1>8, RowAdded
  <2>3. Keeps(j)
    BY <2>2 DEF Keeps, Known
  <2> QED BY <1>8, <2>1, <2>2, <2>3, QuietRecorded DEF Record
<1>9. ASSUME NEW j \in Jobs, DeskDone(j)
      PROVE  Recorded'
  <2>1. Others(j) /\ ~At(j, "spool")'
    BY <1>9, Ended DEF DeskDone
  <2>2. LabelOf(j) = DeskLabel
    BY <1>9 DEF DeskDone, LabelOf
  <2>3. RowsStay /\ Keeps(j)
    BY <1>9, <2>2, SameLabels DEF DeskDone, RowsStay, Keeps
  <2> QED BY <1>9, <2>1, <2>3, QuietRecorded DEF DeskDone
<1>10. ASSUME NEW j \in Jobs, Abort(j)
       PROVE  Recorded'
  <2>1. Others(j) /\ ~At(j, "spool")'
    BY <1>10, Ended DEF Abort
  <2>2. LabelOf(j) = DeskLabel \/ LabelOf(j).pack \in undone'
    <3>1. job[j] \in Printing
      BY <1>10 DEF Abort, IInv
    <3>2. CASE job[j].pack = "desk"
      BY <3>2 DEF LabelOf
    <3>3. CASE job[j].pack # "desk"
      <4>1. job[j].pack \in Packs /\ job[j].pack \in undone'
        BY <1>10, <3>1, <3>3 DEF Abort, Printing
      <4>2. LabelOf(j).pack = job[j].pack
        BY <3>3 DEF LabelOf
      <4> QED BY <4>1, <4>2
    <3> QED BY <3>2, <3>3
  <2>3. RowsStay
    BY <1>10, SameLabels DEF Abort, RowsStay
  <2>4. Keeps(j)
    BY <2>2 DEF Keeps, Known
  <2> QED BY <1>10, <2>1, <2>3, <2>4, QuietRecorded DEF Abort
<1> QED
  BY <1>2, <1>3, <1>4, <1>5, <1>6, <1>7, <1>8, <1>9, <1>10 DEF Next
-----------------------------------------------------------------------------
(* What is sent over the network. *)

LEMMA SentStep == IInv /\ Sent /\ [Next]_vars => Sent'
<1> SUFFICES ASSUME IInv, Sent, [Next]_vars, connection' = "NETWORK"
             PROVE  Sent'
  BY DEF Sent
<1>1. connection = "NETWORK"
  BY DEF Next, vars, Switch, Leave, Requests, Load, Desk, Arrive, Number, Deliver, Simulate,
         SendRaw, WriteFile, SpoolFile, Unprinted, Record, DeskDone, Abort
<1>2. /\ \A r \in 1..Len(rows) : rows[r].status = "SENT" => LabelIn(r) \in handed
      /\ \A i \in Jobs : /\ ~At(i, "spool")
                         /\ At(i, "record") /\ job[i].status = "SENT"
                              => LabelOf(i) \in handed
  BY <1>1 DEF Sent
(* What adds no row and leaves print j in order leaves all in order.       *)
<1>3. ASSUME NEW j \in Jobs, Others(j), rows' = rows, handed \subseteq handed',
             ~At(j, "spool")',
             At(j, "record")' /\ job'[j].status = "SENT" => LabelOf(j)' \in handed'
      PROVE  Sent'
  <2>1. ASSUME NEW i \in Jobs
        PROVE  /\ ~At(i, "spool")'
               /\ At(i, "record")' /\ job'[i].status = "SENT" => LabelOf(i)' \in handed'
    <3>1. CASE i = j
      BY <1>3, <3>1
    <3>2. CASE i # j
      BY <1>2, <1>3, <3>2, SamePrints DEF Others
    <3> QED BY <3>1, <3>2
  <2>2. \A r \in 1..Len(rows') : rows'[r].status = "SENT" => LabelIn(r)' \in handed'
    BY <1>2, <1>3, SameLabels
  <2> QED BY <2>1, <2>2 DEF Sent
<1>4. ASSUME UNCHANGED <<rows, handed, job>>
      PROVE  Sent'
  BY <1>2, <1>4, SameLabels DEF Sent, At, LabelOf, DeskLabel
<1>5. CASE UNCHANGED vars
  BY <1>4, <1>5 DEF vars
<1>6. CASE Switch
  BY <1>4, <1>6 DEF Switch
<1>7. ASSUME NEW p \in Packs, NEW quantity \in {0} \cup Actuals, Leave(p, quantity)
      PROVE  Sent'
  BY <1>4, <1>7 DEF Leave
<1>8. ASSUME NEW j \in Jobs, Requests(j)
      PROVE  Sent'
  <2>1. PICK request : Arrive(j, request) /\ request.at \in {"number", "deliver"}
    BY <1>8, Requested
  <2>2. Others(j) /\ ~At(j, "spool")' /\ ~At(j, "record")'
    BY <2>1 DEF Arrive, Others, At, IInv
  <2> QED BY <1>3, <2>1, <2>2 DEF Arrive
<1>9. ASSUME NEW j \in Jobs, Number(j)
      PROVE  Sent'
  <2>1. job[j] \in Printing /\ job[j].at = "number"
    BY <1>9 DEF Number, At, IInv
  <2>2. Others(j) /\ ~At(j, "spool")' /\ ~At(j, "record")'
    BY <1>9, <2>1 DEF Number, Others, At, IInv, Printing
  <2> QED BY <1>3, <1>9, <2>2 DEF Number
<1>10. ASSUME NEW j \in Jobs, Deliver(j)
       PROVE  Sent'
  <2>1. ~Simulate(j) /\ ~WriteFile(j) /\ ~SpoolFile(j)
    BY <1>1, <1>2 DEF Simulate, WriteFile, SpoolFile
  <2>2. SendRaw(j) /\ job[j] # Idle
    BY <1>10, <2>1 DEF Deliver, SendRaw, At
  <2>3. PICK status \in {"SENT", "FAILED"} :
          /\ Delivered(j, status) /\ handed' \in {handed, handed \cup {LabelOf(j)}}
          /\ status = "SENT" => LabelOf(j) \in handed'
    BY <2>2 DEF SendRaw
  <2>4. Forward(j, "record") /\ job'[j].status = status
    BY <2>2, <2>3, DeliveredForward
  <2>5. Others(j) /\ ~At(j, "spool")' /\ LabelOf(j)' = LabelOf(j)
    BY <2>4 DEF Forward, At
  <2>6. rows' = rows
    BY <2>2 DEF SendRaw, Unprinted
  <2> QED BY <1>3, <2>3, <2>4, <2>5, <2>6
<1>11. ASSUME NEW j \in Jobs, DeskDone(j) \/ Abort(j)
       PROVE  Sent'
  <2>1. Others(j) /\ ~At(j, "spool")' /\ ~At(j, "record")'
    BY <1>11, Ended DEF DeskDone, Abort
  <2> QED BY <1>3, <1>11, <2>1 DEF DeskDone, Abort
<1>12. ASSUME NEW j \in Jobs, Record(j)
       PROVE  Sent'
  <2>1. Others(j) /\ ~At(j, "spool")' /\ ~At(j, "record")'
    BY <1>12, Ended DEF Record
  <2>2. ASSUME NEW i \in Jobs
        PROVE  /\ ~At(i, "spool")'
               /\ At(i, "record")' /\ job'[i].status = "SENT" => LabelOf(i)' \in handed'
    <3>1. CASE i = j
      BY <2>1, <3>1
    <3>2. CASE i # j
      BY <1>2, <1>12, <2>1, <3>2, SamePrints DEF Others, Record
    <3> QED BY <3>1, <3>2
  <2>3. \A r \in 1..Len(rows') : rows'[r].status = "SENT" => LabelIn(r)' \in handed'
    <3> SUFFICES ASSUME NEW r \in 1..Len(rows'), rows'[r].status = "SENT"
                 PROVE  LabelIn(r)' \in handed'
      OBVIOUS
    <3>1. handed' = handed /\ At(j, "record")
      BY <1>12 DEF Record
    <3>2. \/ r \in 1..Len(rows) /\ rows'[r] = rows[r] /\ LabelIn(r)' = LabelIn(r)
          \/ rows'[r].status = job[j].status /\ LabelIn(r)' = LabelOf(j)
      BY <1>12, RowAdded
    <3> QED BY <1>2, <3>1, <3>2
  <2> QED BY <2>2, <2>3 DEF Sent
<1> QED
  BY <1>5, <1>6, <1>7, <1>8, <1>9, <1>10, <1>11, <1>12 DEF Next
-----------------------------------------------------------------------------
(* The numbers of the labels. *)

(* A step of a print that adds no row: it takes the next number of its     *)
(* pack, or keeps the one it has, or ends.                                 *)
LEMMA NumbersStay ==
  ASSUME IInv, Numbers, NEW j \in Jobs, Others(j), rows' = rows, crossed' = crossed,
         job'[j] # Idle =>
           /\ job[j] # Idle /\ job'[j].pack = job[j].pack
           /\ \/ job'[j].sequence = NextSequence(job[j].pack)
              \/ job[j].at # "number" /\ job'[j].sequence = job[j].sequence
  PROVE  Numbers'
<1>1. Numbered'
  BY SameLabels DEF Numbers, Numbered
<1>2. Exclusive'
  BY DEF Numbers, Exclusive, Others
<1>3. ASSUME NEW i \in Jobs
      PROVE  NumberTaken(i)'
  <2>1. CASE i # j
    <3>1. NumberTaken(i) /\ job'[i] = job[i]
      BY <2>1 DEF Numbers, Others
    <3> QED BY <3>1, SameLabels DEF NumberTaken
  <2>2. CASE i = j
    <3>1. NumberTaken(j)
      BY DEF Numbers
    <3> QED BY <2>2, <3>1, SameLabels DEF NumberTaken
  <2> QED BY <2>1, <2>2
<1> QED
  BY <1>1, <1>2, <1>3 DEF Numbers

LEMMA ForwardNumbers ==
  ASSUME IInv, Numbers, NEW j \in Jobs, NEW place, Forward(j, place),
         job[j].at # "number", rows' = rows, crossed' = crossed
  PROVE  Numbers'
  BY NumbersStay DEF Forward

(* Who arrives finds the prints of its pack under way.                     *)
LEMMA ArriveNumbers ==
  ASSUME IInv, Numbers, NEW j \in Jobs, NEW request \in Printing, Arrive(j, request),
         request.at = "number" \/ request.pack = "desk"
  PROVE  Numbers'
<1>1. /\ job[j] = Idle /\ job'[j] = request /\ Others(j) /\ rows' = rows
      /\ crossed \subseteq crossed'
  BY DEF Arrive, IInv, Others
<1>2. Numbered'
  BY <1>1, SameLabels DEF Numbers, Numbered
<1>3. ASSUME NEW i \in Jobs \ {j}, job[i] # Idle, job[i].pack = request.pack,
             request.pack \in Packs
      PROVE  request.pack \in crossed'
  <2>1. UnderWay(request.pack)
    BY <1>3 DEF UnderWay
  <2> QED BY <1>3, <2>1 DEF Arrive
<1>4. Exclusive'
  <2> SUFFICES ASSUME NEW i \in Jobs, NEW k \in Jobs, job'[i] # Idle, job'[k] # Idle,
                      job'[i].pack = job'[k].pack, job'[i].pack \in Packs \ crossed',
                      i # k
               PROVE  FALSE
    BY DEF Exclusive
  <2>1. CASE i = j
    BY <1>1, <1>3, <2>1 DEF Others
  <2>2. CASE k = j
    BY <1>1, <1>3, <2>2 DEF Others
  <2>3. CASE i # j /\ k # j
    BY <1>1, <2>3 DEF Numbers, Exclusive, Others
  <2> QED BY <2>1, <2>2, <2>3
<1>5. ASSUME NEW i \in Jobs
      PROVE  NumberTaken(i)'
  <2>1. CASE i = j
    BY <1>1, <2>1 DEF NumberTaken
  <2>2. CASE i # j
    <3>1. NumberTaken(i) /\ job'[i] = job[i]
      BY <1>1, <2>2 DEF Numbers, Others
    <3> QED BY <1>1, <3>1, SameLabels DEF NumberTaken
  <2> QED BY <2>1, <2>2
<1> QED
  BY <1>2, <1>4, <1>5 DEF Numbers

(* The new row is the next of its pack; of other packs nothing changes.    *)
LEMMA RecordNumbers ==
  ASSUME IInv, Numbers, NEW j \in Jobs, Record(j)
  PROVE  Numbers'
<1> PICK n : n = Len(rows)
  OBVIOUS
<1> DEFINE p == job[j].pack
<1>1. job[j] \in Printing /\ job[j] # Idle /\ job[j].at = "record" /\ p # "desk"
  BY DEF Record, At, IInv
<1>2. job'[j] = Idle /\ Others(j) /\ crossed' = crossed /\ p \in Packs
  BY <1>1, Ended DEF Record, Printing
<1>3. p \notin crossed => job[j].sequence = NextSequence(p)
  BY <1>1 DEF Numbers, NumberTaken
<1>4. /\ n \in Nat /\ Len(rows') = n + 1 /\ 1..n = 1..Len(rows)
      /\ rows'[n + 1].pack = p /\ rows'[n + 1].sequence = job[j].sequence
      /\ \A r \in 1..n : rows'[r] = rows[r]
  <2>1. n \in Nat /\ Len(rows') = n + 1
    BY RowAdded
  <2>2. n + 1 \in 1..Len(rows') /\ ~(n + 1 \in 1..n) /\ \A r \in 1..n : r # n + 1
    BY <2>1
  <2>3. rows'[n + 1].pack = p /\ rows'[n + 1].sequence = job[j].sequence
    BY <2>2, RowAdded
  <2>4. \A r \in 1..n : rows'[r] = rows[r]
    BY <2>1, <2>2, RowAdded DEF RowsStay
  <2> QED BY <2>1, <2>3, <2>4
<1> HIDE DEF p
<1>5. 1..Len(rows') = 1..n \cup {n + 1} /\ n + 1 \notin 1..n
  BY <1>4
<1>6. ASSUME NEW r \in 1..n
      PROVE  UpTo(r)' = UpTo(r)
  <2>1. ~(n + 1 <= r)
    BY <1>4, <1>6
  <2>2. \A q : q \in UpTo(r)' <=> q \in 1..n /\ rows[q].pack = rows[r].pack /\ q <= r
    BY <2>1, <1>4, <1>5, <1>6 DEF UpTo, RowsOf
  <2>3. \A q : q \in UpTo(r) <=> q \in 1..n /\ rows[q].pack = rows[r].pack /\ q <= r
    BY <1>4 DEF UpTo, RowsOf
  <2> QED BY <2>2, <2>3
<1>7. UpTo(n + 1)' = RowsOf(p) \cup {n + 1}
  <2>1. \A q \in 1..n : q <= n + 1
    BY <1>4
  <2>2. n + 1 <= n + 1
    BY <1>4
  <2>3. \A q : q \in UpTo(n + 1)' <=> \/ q \in 1..n /\ rows[q].pack = p
                                      \/ q = n + 1
    BY <2>1, <2>2, <1>4, <1>5 DEF UpTo, RowsOf
  <2>4. \A q : q \in RowsOf(p) <=> q \in 1..n /\ rows[q].pack = p
    BY <1>4 DEF RowsOf
  <2> QED BY <2>3, <2>4
<1>8. Cardinality(RowsOf(p) \cup {n + 1}) = NextSequence(p)
  <2>1. n + 1 \notin RowsOf(p)
    BY <1>4, <1>5 DEF RowsOf
  <2>2. IsFiniteSet(RowsOf(p))
    BY RowsFinite DEF IInv, TypeOK
  <2> QED BY <2>1, <2>2, FS_AddElement DEF NextSequence
<1>9. Numbered'
  <2> SUFFICES ASSUME NEW r \in 1..Len(rows'), rows'[r].pack \notin crossed'
               PROVE  rows'[r].sequence = Cardinality(UpTo(r)')
    BY DEF Numbered
  <2>1. CASE r \in 1..n
    <3>1. rows[r].sequence = Cardinality(UpTo(r))
      BY <2>1, <1>2, <1>4 DEF Numbers, Numbered
    <3> QED BY <3>1, <2>1, <1>4, <1>6
  <2>2. CASE r = n + 1
    <3>1. UpTo(r)' = RowsOf(p) \cup {n + 1}
      BY <2>2, <1>7
    <3> QED BY <3>1, <2>2, <1>2, <1>3, <1>4, <1>8
  <2> QED BY <2>1, <2>2, <1>5
<1>10. Exclusive'
  BY <1>2 DEF Numbers, Exclusive, Others
<1>11. ASSUME NEW i \in Jobs
       PROVE  NumberTaken(i)'
  <2>1. CASE i = j
    BY <1>2, <2>1 DEF NumberTaken
  <2>2. CASE i # j
    <3> SUFFICES ASSUME job[i] # Idle, job[i].at # "number", job[i].pack # "desk",
                        job[i].pack \notin crossed
                 PROVE  job[i].sequence = NextSequence(job[i].pack)'
      BY <1>2, <2>2 DEF NumberTaken, Others
    <3>1. job[i].pack \in Packs
      BY DEF IInv, Printing
    <3>2. job[i].pack # p
      BY <1>1, <2>2, <3>1 DEF Numbers, Exclusive, p
    <3> PICK mine : mine = job[i].pack
      OBVIOUS
    <3>3. \A q : q \in RowsOf(mine)' <=> q \in RowsOf(mine)
      BY <1>4, <1>5, <3>2 DEF RowsOf
    <3>4. NextSequence(mine)' = NextSequence(mine)
      <4>1. RowsOf(mine)' = RowsOf(mine)
        BY <3>3
      <4> QED BY <4>1 DEF NextSequence
    <3>5. job[i].sequence = NextSequence(mine)
      BY DEF Numbers, NumberTaken
    <3>6. job'[i] = job[i]
      BY <1>2, <2>2 DEF Others
    <3> QED BY <3>4, <3>5, <3>6
  <2> QED BY <2>1, <2>2
<1> QED
  BY <1>9, <1>10, <1>11 DEF Numbers

LEMMA NumbersStep == IInv /\ Numbers /\ [Next]_vars => Numbers'
<1> SUFFICES ASSUME IInv, Numbers, [Next]_vars
             PROVE  Numbers'
  OBVIOUS
<1>1. ASSUME UNCHANGED <<rows, job, crossed>>
      PROVE  Numbers'
  BY <1>1, SameLabels DEF Numbers, Exclusive, Numbered, NumberTaken
<1>2. CASE UNCHANGED vars
  BY <1>1, <1>2 DEF vars
<1>3. CASE Switch
  BY <1>1, <1>3 DEF Switch
<1>4. ASSUME NEW p \in Packs, NEW quantity \in {0} \cup Actuals, Leave(p, quantity)
      PROVE  Numbers'
  BY <1>1, <1>4 DEF Leave
<1>5. ASSUME NEW j \in Jobs, Requests(j)
      PROVE  Numbers'
  BY <1>5, Requested, ArriveNumbers
<1>6. ASSUME NEW j \in Jobs, Number(j)
      PROVE  Numbers'
  <2>1. job[j] \in Printing /\ job[j] # Idle
    BY <1>6 DEF Number, At, IInv
  <2>2. /\ Others(j) /\ job'[j].pack = job[j].pack
        /\ job'[j].sequence = NextSequence(job[j].pack)
    BY <1>6, <2>1 DEF Number, Others, IInv, Printing
  <2> QED BY <1>6, <2>1, <2>2, NumbersStay DEF Number
<1>7. ASSUME NEW j \in Jobs, Deliver(j)
      PROVE  Numbers'
  <2>1. job[j] # Idle /\ job[j].at # "number" /\ rows' = rows /\ crossed' = crossed
    BY <1>7 DEF Deliver, Simulate, SendRaw, WriteFile, SpoolFile, Unprinted, At
  <2>2. \E place : Forward(j, place)
    <3>1. CASE WriteFile(j)
      BY <3>1, WrittenForward
    <3>2. CASE Simulate(j) \/ SendRaw(j) \/ SpoolFile(j)
      <4>1. PICK status \in {"SENT", "SIMULATED", "FAILED"} : Delivered(j, status)
        BY <3>2 DEF Simulate, SendRaw, SpoolFile
      <4> QED BY <2>1, <4>1, DeliveredForward
    <3> QED BY <1>7, <3>1, <3>2 DEF Deliver
  <2> QED BY <2>1, <2>2, ForwardNumbers
<1>8. ASSUME NEW j \in Jobs, Record(j)
      PROVE  Numbers'
  BY <1>8, RecordNumbers
<1>9. ASSUME NEW j \in Jobs, DeskDone(j) \/ Abort(j)
      PROVE  Numbers'
  <2>1. Others(j) /\ job'[j] = Idle
    BY <1>9, Ended DEF DeskDone, Abort
  <2> QED BY <1>9, <2>1, NumbersStay DEF DeskDone, Abort
<1> QED
  BY <1>2, <1>3, <1>4, <1>5, <1>6, <1>7, <1>8, <1>9 DEF Next

(* Of a pack whose prints never overlapped at most one print is under way, *)
(* and the number it has taken is the one after its rows, whatever other   *)
(* packs' prints do, and whichever prints fail or roll back.               *)
THEOREM NumbersInductive == Spec => []Numbers
<1>1. Init => IInv /\ Numbers
  <2> SUFFICES ASSUME Init
               PROVE  Numbers
    BY InitIInv
  <2>1. rows = <<>> /\ Len(rows) = 0 /\ \A i \in Jobs : job[i] = Idle
    BY DEF Init
  <2> QED BY <2>1 DEF Numbers, Exclusive, Numbered, NumberTaken
<1>2. IInv /\ Numbers /\ [Next]_vars => IInv' /\ Numbers'
  BY IInvStep, NumbersStep
<1> QED
  BY <1>1, <1>2, PTL DEF Spec

(* No label is handed to the printer but its row tells of it once its      *)
(* print is done, also when prints overlap and one prints the file of      *)
(* another, unless a print of its pack rolled back; and on the network no  *)
(* row says a label was sent that was not (print-job.ts, print-ports.ts).  *)
THEOREM BooksAgree == Spec => []PrintsAreRecorded
<1>1. Init => IInv /\ Recorded /\ Sent
  <2> SUFFICES ASSUME Init
               PROVE  Recorded /\ Sent
    BY InitIInv
  <2>1. /\ rows = <<>> /\ Len(rows) = 0 /\ handed = {}
        /\ \A i \in Jobs : \A place : ~At(i, place)
    BY DEF Init, At
  <2> QED BY <2>1 DEF Recorded, Sent
<1>2. IInv /\ Recorded /\ Sent /\ [Next]_vars => IInv' /\ Recorded' /\ Sent'
  BY IInvStep, RecordedStep, SentStep
<1>3. Recorded /\ Sent => PrintsAreRecorded
  BY DEF Recorded, Known, Sent, LabelIn, PrintsAreRecorded
<1> QED
  BY <1>1, <1>2, <1>3, PTL DEF Spec
(* What the section reads from its rows. *)

(* Two first labels of a pack would have the same number.                  *)
LEMMA CountedOnce ==
  ASSUME IInv, Numbered, NEW q \in Output, NEW r \in Output,
         rows[q].pack = rows[r].pack, rows[r].pack \notin crossed
  PROVE  q = r
<1>1. ASSUME NEW x \in Output, rows[x].pack \notin crossed
      PROVE  UpTo(x) = {x}
  <2>1. x \in 1..Len(rows) /\ rows[x].sequence = 1
    BY <1>1 DEF Output
  <2>2. Cardinality(UpTo(x)) = 1
    BY <1>1, <2>1 DEF Numbered
  <2>3. IsFiniteSet(UpTo(x))
    <3>1. IsFiniteSet(RowsOf(rows[x].pack)) /\ UpTo(x) \subseteq RowsOf(rows[x].pack)
      BY RowsFinite DEF IInv, TypeOK, UpTo
    <3> QED BY <3>1, FS_Subset
  <2>4. PICK y : UpTo(x) = {y}
    BY <2>2, <2>3, FS_Singleton
  <2>5. x \in UpTo(x)
    BY <2>1 DEF UpTo, RowsOf, IInv, TypeOK
  <2> QED BY <2>4, <2>5
<1>2. q \in 1..Len(rows) /\ r \in 1..Len(rows) /\ Len(rows) \in Nat
  BY DEF Output, IInv, TypeOK
<1>3. q <= r \/ r <= q
  BY <1>2
<1>4. CASE q <= r
  BY <1>1, <1>2, <1>4 DEF UpTo, RowsOf
<1>5. CASE r <= q
  BY <1>1, <1>2, <1>5 DEF UpTo, RowsOf
<1> QED
  BY <1>3, <1>4, <1>5

(* Each pack here that has its label is the pack of one such label.        *)
LEMMA HereCounted ==
  ASSUME IInv, Numbered
  PROVE  Cardinality({r \in Completed : rows[r].pack \notin crossed})
           + Cardinality(Materials \ crossed)
           = Cardinality({p \in Packs \ crossed : position[p].here})
<1> DEFINE Here == {p \in Packs \ crossed : position[p].here}
           ToIssue == Materials \ crossed
           Labels == {r \in Completed : rows[r].pack \notin crossed}
           Labelled == Here \ ToIssue
           pack == [r \in Labels |-> rows[r].pack]
<1>1. IsFiniteSet(Here) /\ ToIssue \subseteq Here
  BY PrintDeskAssumption, FS_Subset DEF Materials
<1>2. IsFiniteSet(ToIssue)
  BY <1>1, FS_Subset
<1>3. \A r \in Labels : /\ r \in Output /\ r \in 1..Len(rows)
                           /\ rows[r].pack \in Packs \ crossed /\ position[rows[r].pack].here
  <2> SUFFICES ASSUME NEW r \in Labels
               PROVE  /\ r \in Output /\ r \in 1..Len(rows)
                      /\ rows[r].pack \in Packs \ crossed /\ position[rows[r].pack].here
    OBVIOUS
  <2>1. r \in Output /\ r \in 1..Len(rows) /\ position[rows[r].pack].here
    BY DEF Completed, Output
  <2>2. rows[r] \in Row
    BY <2>1 DEF IInv, TypeOK
  <2> QED BY <2>1, <2>2 DEF Row
<1>4. pack \in [Labels -> Labelled]
  BY <1>3 DEF Materials
<1>5. \A q, r \in Labels : pack[q] = pack[r] => q = r
  BY <1>3, CountedOnce
<1>6. \A p \in Labelled : \E r \in Labels : pack[r] = p
  <2> SUFFICES ASSUME NEW p \in Labelled
               PROVE  \E r \in Labels : pack[r] = p
    OBVIOUS
  <2>1. PICK r \in Output : rows[r].pack = p
    BY DEF Materials
  <2>2. r \in Labels
    BY <2>1 DEF Completed
  <2> QED BY <2>1, <2>2
<1> HIDE DEF pack
<1>7. pack \in Bijection(Labels, Labelled)
  BY <1>4, <1>5, <1>6, Fun_IsBij
<1>8. IsFiniteSet(Labels)
  <2>1. Labels \subseteq 1..Len(rows) /\ Len(rows) \in Nat
    BY <1>3 DEF IInv, TypeOK
  <2>2. IsFiniteSet(1..Len(rows))
    BY <2>1, FS_Interval
  <2> QED BY <2>1, <2>2, FS_Subset
<1>9. Cardinality(Labelled) = Cardinality(Labels)
  BY <1>7, <1>8, FS_Bijection DEF ExistsBijection
<1>10. Cardinality(Labelled) = Cardinality(Here) - Cardinality(ToIssue)
  <2>1. Here \cap ToIssue = ToIssue
    BY <1>1
  <2> QED BY <1>1, <2>1, FS_Difference
<1>11. Cardinality(Here) \in Nat /\ Cardinality(ToIssue) \in Nat
  BY <1>1, <1>2, FS_CardinalityType
<1> HIDE DEF Here, Labelled, Labels, ToIssue
<1>12. Cardinality(Labels) + Cardinality(ToIssue) = Cardinality(Here)
  BY <1>9, <1>10, <1>11
<1> QED
  BY <1>12 DEF Here, Labels, ToIssue

(* Unless two prints of one pack were under way at once, its labels are    *)
(* numbered in the order of their rows, the pack is counted once however   *)
(* often its label is printed, and the packs here are those completed and  *)
(* those to be issued (GET /sections/:id/support), whatever prints of      *)
(* other packs overlap, fail or roll back.                                 *)
THEOREM LabelsNumbered == Spec => []LabelsAreNumbered
<1>1. IInv /\ Numbers => LabelsAreNumbered
  <2> SUFFICES ASSUME IInv, Numbered
               PROVE  LabelsAreNumbered
    BY DEF Numbers
  <2>1. \A r \in 1..Len(rows) : rows[r].pack \notin crossed =>
           rows[r].sequence = Cardinality({q \in RowsOf(rows[r].pack) : q <= r})
    BY DEF Numbered, UpTo
  <2>2. \A q, r \in Output :
           rows[q].pack = rows[r].pack /\ rows[r].pack \notin crossed => q = r
    BY CountedOnce
  <2> QED BY <2>1, <2>2, HereCounted DEF LabelsAreNumbered
<1>2. Spec => []IInv
  BY InitIInv, IInvStep, PTL DEF Spec
<1> QED
  BY <1>1, <1>2, NumbersInductive, PTL
=============================================================================
