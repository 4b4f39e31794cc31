------------------------------ MODULE PrintDesk ------------------------------
(***************************************************************************)
(* The label printer of one section (app/pats/print-job.ts, print-ports.ts *)
(* and print-desk.ts), and what the section's support card counts as its   *)
(* output (GET /sections/:id/support).                                     *)
(*                                                                         *)
(* A print runs inside the transaction of its command: it reads the pack,  *)
(* numbers the label, hands it to the printer, waits for it, and then      *)
(* inserts the PrintJob row.  A label is handed over when the socket has   *)
(* flushed it or the Windows spooler has queued it: whether and when it    *)
(* comes out on paper nobody tells.  The transaction may still roll back   *)
(* after that.  Prints interleave; the helper of the spooler reads a label *)
(* from a temporary file named by the millisecond.                         *)
(***************************************************************************)
EXTENDS Integers, Sequences, FiniteSets

CONSTANTS
    Packs,
    Planned,        \* pieces planned for a pack
    Actuals,        \* pieces an operator may say a pack has
    Connections,    \* the printer is one of "NETWORK", "USB_AGENT", "NONE"
    Jobs,           \* prints in flight at once
    MaxPrints,      \* prints in an instance
    MaxRestarts     \* repairs of the printer in an instance

ASSUME PrintDeskAssumption ==
    /\ IsFiniteSet(Packs)
    /\ Planned \in Nat \ {0} /\ Actuals \subseteq Nat \ {0}
    /\ Connections \subseteq {"NETWORK", "USB_AGENT", "NONE"}
    /\ {MaxPrints, MaxRestarts} \subseteq Nat

VARIABLES
    connection,   \* how the section's printer is connected
    working,      \* whether a printer on the network answers
    restarts,     \* how often that has changed
    position,     \* position[p]: where pack p is, with the quantity scanned
    rows,         \* the PrintJob table, oldest first
    handed,       \* the labels handed over: what is on paper is one of them
    spool,        \* the temporary file of this millisecond
    job,          \* job[j]: a print between two of its steps
    prints,       \* how many there have been
    crossed,      \* the packs two of whose prints were under way at once
    undone        \* the packs one of whose prints rolled back

vars == <<connection, working, restarts, position, rows, handed, spool, job, prints,
          crossed, undone>>

(* Quantity 0 stands for a position that carries none.                     *)
Position == [here: BOOLEAN, quantity: {0, Planned} \cup Actuals]
Quantities == {Planned} \cup Actuals
Label == [pack: Packs, sequence: Nat, quantity: Quantities]
DeskLabel == [pack |-> "desk", sequence |-> 1, quantity |-> Planned]
NoLabel == [pack |-> "none", sequence |-> 0, quantity |-> Planned]
Row == [pack: Packs, sequence: Nat, quantity: Quantities, reprintOf: Nat,
        status: {"SENT", "SIMULATED", "FAILED"}]
Idle == [at |-> "idle"]

TypeOK ==
    /\ connection \in Connections /\ working \in BOOLEAN /\ restarts \in 0..MaxRestarts
    /\ position \in [Packs -> Position]
    /\ rows \in Seq(Row)
    /\ handed \subseteq Label \cup {DeskLabel}
    /\ spool \in Label \cup {DeskLabel, NoLabel}
    /\ prints \in 0..MaxPrints /\ crossed \subseteq Packs /\ undone \subseteq Packs

Init ==
    /\ connection \in Connections /\ working \in BOOLEAN /\ restarts = 0
    /\ position = [p \in Packs |-> [here |-> TRUE, quantity |-> Planned]]
    /\ rows = <<>> /\ handed = {} /\ spool = NoLabel
    /\ job = [j \in Jobs |-> Idle]
    /\ prints = 0 /\ crossed = {} /\ undone = {}
-----------------------------------------------------------------------------
(* The pieces a pack is known to have: what was scanned with its position, *)
(* or what was planned.                                                    *)
QuantityOf(p) == IF position[p].quantity > 0 THEN position[p].quantity ELSE Planned

UnderWay(p) == \E i \in Jobs : job[i] # Idle /\ job[i].pack = p
Arrive(j, request) ==
    /\ prints < MaxPrints
    /\ job[j] = Idle
    /\ prints' = prints + 1
    /\ job' = [job EXCEPT ![j] = request]
    /\ crossed' = crossed \cup {p \in Packs : p = request.pack /\ UnderWay(p)}
    /\ UNCHANGED <<connection, working, restarts, position, rows, handed, spool, undone>>
At(j, place) == job[j] # Idle /\ job[j].at = place

(* POST /print-jobs reads the pack and the row it is a reprint of.  The    *)
(* label of a first print says what the operator says, else what is known. *)
Load(j, p, reprintOf, actual) ==
    /\ reprintOf # 0 => reprintOf \in 1..Len(rows) /\ rows[reprintOf].pack = p
    /\ Arrive(j, [at |-> "number", pack |-> p, reprintOf |-> reprintOf, sequence |-> 0,
                  status |-> "FAILED",
                  quantity |-> IF reprintOf # 0 \/ actual = 0 THEN QuantityOf(p)
                               ELSE actual])

RowsOf(p) == {r \in 1..Len(rows) : rows[r].pack = p}
(* Mutation: labels that failed are not counted.                           *)
NextSequenceSent(p) == Cardinality({r \in RowsOf(p) : rows[r].status # "FAILED"}) + 1
NextSequence(p) == Cardinality(RowsOf(p)) + 1

Number(j) ==
    /\ At(j, "number")
    /\ job' = [job EXCEPT ![j].sequence = NextSequence(job[j].pack), ![j].at = "deliver"]
    /\ UNCHANGED <<connection, working, restarts, position, rows, handed, spool, prints,
                   crossed, undone>>

LabelOf(j) ==
    IF job[j].pack = "desk" THEN DeskLabel
    ELSE [pack |-> job[j].pack, sequence |-> job[j].sequence, quantity |-> job[j].quantity]
Delivered(j, status) == job' = [job EXCEPT ![j].status = status, ![j].at = "record"]
Unprinted ==
    UNCHANGED <<connection, working, restarts, position, rows, spool, prints, crossed, undone>>

(* No printer is configured: the print is simulated.                       *)
Simulate(j) ==
    /\ At(j, "deliver") /\ connection = "NONE"
    /\ Delivered(j, "SIMULATED")
    /\ UNCHANGED handed
    /\ Unprinted

(* A socket to the printer.  What was flushed is sent; what times out or   *)
(* breaks off may have been flushed all the same.                          *)
SendRaw(j) ==
    /\ At(j, "deliver") /\ connection = "NETWORK"
    /\ \/ working /\ Delivered(j, "SENT") /\ handed' = handed \cup {LabelOf(j)}
       \/ working /\ Delivered(j, "FAILED") /\ handed' = handed \cup {LabelOf(j)}
       \/ Delivered(j, "FAILED") /\ UNCHANGED handed
    /\ Unprinted

(* The Windows spooler: the label is written to a file and a helper queues *)
(* that file.  A later millisecond has a file of its own.  The helper is   *)
(* content when the label is queued, be the printer switched off or not.   *)
WriteFile(j) ==
    /\ At(j, "deliver") /\ connection = "USB_AGENT"
    /\ spool' = LabelOf(j)
    /\ job' = [job EXCEPT ![j].at = "spool"]
    /\ UNCHANGED <<connection, working, restarts, position, rows, handed, prints, crossed, undone>>
SpoolFile(j) ==
    /\ At(j, "spool")
    /\ \E file \in {LabelOf(j), spool} :
         \/ Delivered(j, "SENT") /\ handed' = handed \cup {file}
         \/ Delivered(j, "FAILED") /\ handed' \in {handed, handed \cup {file}}
    /\ Unprinted

(* Mutation: the row says what was planned.                                *)
RecordPlanned(j) ==
    /\ At(j, "record") /\ job[j].pack # "desk"
    /\ rows' = Append(rows,
         [pack |-> job[j].pack, sequence |-> job[j].sequence,
          quantity |-> QuantityOf(job[j].pack), reprintOf |-> job[j].reprintOf,
          status |-> job[j].status])
    /\ job' = [job EXCEPT ![j] = Idle]
    /\ UNCHANGED <<connection, working, restarts, position, handed, spool, prints, crossed, undone>>
(* The row is inserted and the transaction commits.                        *)
Record(j) ==
    /\ At(j, "record") /\ job[j].pack # "desk"
    /\ rows' = Append(rows,
         [pack |-> job[j].pack, sequence |-> job[j].sequence, quantity |-> job[j].quantity,
          reprintOf |-> job[j].reprintOf, status |-> job[j].status])
    /\ job' = [job EXCEPT ![j] = Idle]
    /\ UNCHANGED <<connection, working, restarts, position, handed, spool, prints, crossed, undone>>

(* A call fails, the transaction runs out of time or the process stops:    *)
(* nothing is recorded of a label that may be handed over.                 *)
Abort(j) ==
    /\ job[j] # Idle
    /\ job' = [job EXCEPT ![j] = Idle]
    /\ undone' = undone \cup ({job[j].pack} \cap Packs)
    /\ UNCHANGED <<connection, working, restarts, position, rows, handed, spool, prints,
                   crossed>>

(* POST /print-jobs/desk: a label without a row.                           *)
Desk(j) ==
    Arrive(j, [at |-> "deliver", pack |-> "desk", reprintOf |-> 0, sequence |-> 1,
               status |-> "FAILED", quantity |-> Planned])
DeskDone(j) ==
    /\ At(j, "record") /\ job[j].pack = "desk"
    /\ job' = [job EXCEPT ![j] = Idle]
    /\ UNCHANGED <<connection, working, restarts, position, rows, handed, spool, prints,
                   crossed, undone>>

(* The printer is switched off or on.                                      *)
Switch ==
    /\ restarts < MaxRestarts
    /\ restarts' = restarts + 1
    /\ working' = ~working
    /\ UNCHANGED <<connection, position, rows, handed, spool, job, prints, crossed, undone>>
(* POST /stage-events takes a pack on, with the quantity scanned, if any.  *)
Leave(p, quantity) ==
    /\ position[p].here
    /\ position' = [position EXCEPT ![p] = [here |-> FALSE, quantity |-> quantity]]
    /\ UNCHANGED <<connection, working, restarts, rows, handed, spool, job, prints, crossed, undone>>

Requests(j) ==
    \/ \E p \in Packs, reprintOf \in 0..Len(rows), actual \in {0} \cup Actuals :
          Load(j, p, reprintOf, actual)
    \/ Desk(j)
Deliver(j) == Simulate(j) \/ SendRaw(j) \/ WriteFile(j) \/ SpoolFile(j)
Next ==
    \/ Switch
    \/ \E p \in Packs, quantity \in {0} \cup Actuals : Leave(p, quantity)
    \/ \E j \in Jobs : Requests(j) \/ Number(j) \/ Deliver(j) \/ Record(j) \/ DeskDone(j)
                       \/ Abort(j)
Spec == Init /\ [][Next]_vars
-----------------------------------------------------------------------------
(* GET /sections/:id/support                                               *)
Succeeded(r) == rows[r].status \in {"SENT", "SIMULATED"}
(* todayOutput: the first labels whose prints did not fail.                *)
Output == {r \in 1..Len(rows) : rows[r].sequence = 1 /\ Succeeded(r)}
(* materials: the packs here that have none.                               *)
Materials == {p \in Packs : position[p].here /\ \A r \in Output : rows[r].pack # p}
(* lotPlans: of the packs here, the labels that count as completed ones.   *)
Completed == {r \in Output : position[rows[r].pack].here}
-----------------------------------------------------------------------------
(* No label is handed to the printer, to come out now or later, but its row*)
(* tells of it, with its number and its quantity, once its print is done:  *)
(* other prints may be under way, also of the same pack, whose file the    *)
(* helper takes, and only a print of the pack that rolled back leaves a    *)
(* label nobody knows of.  And of a printer on the network no row says a   *)
(* label was sent that was not handed over, whatever overlaps or fails.    *)
PrintsAreRecorded ==
    /\ \A label \in handed \ {DeskLabel} :
          \/ label.pack \in undone
          \/ \E r \in 1..Len(rows) :
                rows[r].pack = label.pack /\ rows[r].sequence = label.sequence
                /\ rows[r].quantity = label.quantity
          \/ \E j \in Jobs : (At(j, "spool") \/ At(j, "record")) /\ LabelOf(j) = label
    /\ connection = "NETWORK" =>
          \A r \in 1..Len(rows) : rows[r].status = "SENT" =>
              [pack |-> rows[r].pack, sequence |-> rows[r].sequence,
               quantity |-> rows[r].quantity] \in handed

(* Unless two prints of one pack were under way at once, its labels are    *)
(* numbered in the order of their rows, those that failed included and     *)
(* those of prints that rolled back not, so that no two are taken for one  *)
(* another: however often its label is printed the pack is counted once,   *)
(* and what is still to be issued at the section is not counted at all.    *)
LabelsAreNumbered ==
    /\ \A r \in 1..Len(rows) : rows[r].pack \notin crossed =>
          rows[r].sequence = Cardinality({q \in RowsOf(rows[r].pack) : q <= r})
    /\ \A q, r \in Output :
          rows[q].pack = rows[r].pack /\ rows[r].pack \notin crossed => q = r
    /\ Cardinality({r \in Completed : rows[r].pack \notin crossed})
          + Cardinality(Materials \ crossed)
          = Cardinality({p \in Packs \ crossed : position[p].here})

(* The comment on reprints (print-job.ts:340, "reprints inherit the        *)
(* original row's quantity"), which they do not read.                      *)
ReprintsKeepQuantity ==
    \A r \in 1..Len(rows) :
        rows[r].reprintOf # 0 => rows[r].quantity = rows[rows[r].reprintOf].quantity
=============================================================================
