---------------------------- MODULE Collections ----------------------------
(***************************************************************************)
(* The lists of the API (app/pats/domain-read.ts, app/pats/catalog.ts, the *)
(* legacy getAll of app/employee, product and workspace) and a client that *)
(* walks one of them page by page while its rows change.                   *)
(*                                                                         *)
(* A page is an offset into the rows as they are ordered at that moment.   *)
(* An answer takes two queries that share no transaction: how many rows    *)
(* there are, and the rows of the page.                                    *)
(***************************************************************************)
EXTENDS Integers, Sequences, SequencesExt

CONSTANTS
    Ids,          \* rows
    Limit,        \* rows of a page
    MaxChanges    \* changes of the rows in an instance

VARIABLES
    list,         \* the list that is walked
    rows,         \* its rows, in its order
    changes,      \* how often they changed
    page,         \* the page asked for, 0 after the last one
    counted,      \* the number of rows this answer says there are
    found,        \* the rows of this answer
    seen,         \* the rows of the answers so far
    lasting,      \* the rows listed all along and put nowhere else
    disturbed,    \* whether rows changed during the walk
    torn          \* or between the two queries of one answer

vars == <<list, rows, changes, page, counted, found, seen, lasting, disturbed, torn>>

(* What happens to the rows of a list while it is walked: one appears,     *)
(* anywhere (a time of creation is that of the transaction's start); one   *)
(* goes, or is filtered out; an update takes one to the front; an edit     *)
(* takes one anywhere.                                                     *)
Log == [changes |-> {"appear"}, total |-> TRUE, paged |-> TRUE]
Filtered == [Log EXCEPT !.changes = {"appear", "go"}]
Arranged == [Log EXCEPT !.changes = {"appear", "go", "arrange"}]
WholeOf(kind) == [kind EXCEPT !.paged = FALSE]

PrintJobs == Log
StageEvents == Log
InventoryTransactions == Log
DefectAnalyses == Log
BatchRows == Log
BatchPositions == [Log EXCEPT !.changes = {"appear", "touch"}]
Projects == Filtered
QualityInspections == Filtered
Sections == Arranged
ProductionLines == Log
Machines == Arranged
WorkProcesses == Arranged
Lines == Arranged
Subjects == Arranged
CatalogProducts == Arranged
StationSteps == WholeOf(Filtered)
Booths == WholeOf(Filtered)
Stages == WholeOf(Log)
MonitoringRows == WholeOf([Log EXCEPT !.changes = {"appear", "touch"}])
WorkInstructions == WholeOf(Log)
RoutingViolations == WholeOf(Log)
(* The legacy lists sort by the one field the client names.                *)
Legacy == [Arranged EXCEPT !.total = FALSE]
Employees == Legacy
Products == Legacy
Workspaces == Legacy
WorkspaceMembers == Legacy
ProjectMembers == Legacy

Lists ==
    {PrintJobs, StageEvents, InventoryTransactions, DefectAnalyses, BatchRows,
     BatchPositions, Projects, QualityInspections, Sections, ProductionLines, Machines,
     WorkProcesses, Lines, Subjects, CatalogProducts, StationSteps, Booths, Stages,
     MonitoringRows, WorkInstructions, RoutingViolations, Employees, Products,
     Workspaces, WorkspaceMembers, ProjectMembers}
Unread == -1

Init ==
    /\ list \in Lists
    /\ \E id \in Ids : rows = [k \in 1..id - 1 |-> k]
    /\ lasting = ToSet(rows)
    /\ changes = 0 /\ page = 1
    /\ counted = Unread /\ found = <<Unread>>
    /\ seen = <<>>
    /\ disturbed = FALSE /\ torn = FALSE
-----------------------------------------------------------------------------
Asked == page # 0
Counted == counted # Unread
Found == found # <<Unread>>

(* The order a query may find the rows in: id breaks every tie, except in  *)
(* the legacy lists.                                                       *)
Shown == IF list.total THEN {rows} ELSE SetToSeqs(ToSet(rows))

Skip == (page - 1) * Limit
Count ==
    /\ Asked /\ ~Counted /\ list.paged
    /\ counted' = Len(rows)
    /\ UNCHANGED <<list, rows, changes, page, found, seen, lasting, disturbed, torn>>
FindMany ==
    /\ Asked /\ ~Found /\ list.paged
    /\ \E order \in Shown :
         found' = SubSeq(order, Skip + 1, IF Skip + Limit < Len(order) THEN Skip + Limit
                                          ELSE Len(order))
    /\ UNCHANGED <<list, rows, changes, page, counted, seen, lasting, disturbed, torn>>
(* A list without pages is one query.                                      *)
FindAll ==
    /\ Asked /\ ~Found /\ ~list.paged
    /\ found' = rows /\ counted' = Len(rows)
    /\ UNCHANGED <<list, rows, changes, page, seen, lasting, disturbed, torn>>

(* Mutation: a page that is not full is no page.                           *)
TotalPagesFull == counted \div Limit
TotalPages == (counted + Limit - 1) \div Limit
(* The answer is given, and the client asks for the next page, if any.     *)
Answer ==
    /\ Asked /\ Counted /\ Found
    /\ seen' = seen \o found
    /\ page' = IF list.paged /\ page < TotalPages THEN page + 1 ELSE 0
    /\ counted' = Unread /\ found' = <<Unread>>
    /\ UNCHANGED <<list, rows, changes, lasting, disturbed, torn>>
(* A query fails, or the answer is lost: the client asks again.            *)
Fail ==
    /\ Asked /\ (Counted \/ Found)
    /\ counted' = Unread /\ found' = <<Unread>>
    /\ UNCHANGED <<list, rows, changes, page, seen, lasting, disturbed, torn>>
-----------------------------------------------------------------------------
Change(kind, table, moved) ==
    /\ Asked /\ kind \in list.changes /\ changes < MaxChanges
    /\ changes' = changes + 1
    /\ rows' = table
    /\ lasting' = lasting \ moved
    /\ disturbed' = TRUE
    /\ torn' = (torn \/ (Counted /\ ~Found))
    /\ UNCHANGED <<list, page, counted, found, seen>>
Appear(id, k) == id \notin ToSet(rows) /\ Change("appear", InsertAt(rows, k, id), {id})
Go(k) == Change("go", RemoveAt(rows, k), {rows[k]})
Touch(k) == Change("touch", <<rows[k]>> \o RemoveAt(rows, k), {rows[k]})
Arrange(k, to) == Change("arrange", InsertAt(RemoveAt(rows, k), to, rows[k]), {rows[k]})

Commands ==
    \/ \E id \in Ids, k \in 1..Len(rows) + 1 : Appear(id, k)
    \/ \E k \in 1..Len(rows) :
          Go(k) \/ Touch(k) \/ \E to \in 1..Len(rows) : Arrange(k, to)
Next == Count \/ FindMany \/ FindAll \/ Answer \/ Fail \/ Commands
Spec == Init /\ [][Next]_vars
-----------------------------------------------------------------------------
Walked == page = 0

(* While nothing changes, the pages of a list add up to the list: each row *)
(* once, in order.  The legacy lists have no such order.  And a walk       *)
(* through a list whose rows stay in it finds every row that was there     *)
(* from the start and was not itself updated, whatever appears in front of *)
(* it, unless rows changed between the queries of one answer.              *)
OldRowsAreSeen ==
    /\ Walked /\ ~disturbed /\ list.total => seen = rows
    /\ Walked /\ ~torn /\ list.changes \subseteq {"appear", "touch"}
         => lasting \subseteq ToSet(seen)
=============================================================================
