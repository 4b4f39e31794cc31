--------------------------- MODULE WorkProcesses ----------------------------
(***************************************************************************)
(* The floor's work processes (app/pats/command-router.ts 1732-2178 and    *)
(* 2295-2330): sections own processes, processes have sub-processes,       *)
(* booths are set up for a process, and lines (station screens) hang on    *)
(* leaf processes.                                                         *)
(*                                                                         *)
(* The database knows the references (parent, booth, line) but not that    *)
(* parents form a forest: the handlers walk the tree, one query per row,   *)
(* and then write by id.  So each of those is cut into XLoad, the reads,   *)
(* and XCommit, the writes of its transaction.  A section reference is no  *)
(* foreign key; names, codes, orders and stages are left out.              *)
(***************************************************************************)
EXTENDS FiniteSets, Naturals

CONSTANTS
    Workers,     \* requests the server may be working on at one time
    Processes,   \* ids of work processes
    Sections,    \* ids of sections
    Booths,      \* ids of booths, which only the seed creates
    Lines,       \* ids of lines
    Nothing,     \* the null reference
    MaxHops      \* how far the walk to the root goes: 50 in the code

ASSUME WorkProcessAssumption ==
    /\ Nothing \notin Processes \cup Sections
    /\ IsFiniteSet(Processes)
    /\ MaxHops \in Nat /\ Cardinality(Processes) <= MaxHops

VARIABLES
    sections,    \* the sections there are
    process,     \* the WorkProcess rows
    booth,       \* the Booth rows
    line,        \* the Line rows
    job,         \* job[w]: the request worker w is working on
    lapped       \* two requests have overlapped (history)

vars == <<sections, process, booth, line, job, lapped>>

NoRow == [row |-> "none"]
ProcessRow == [section: Sections \cup {Nothing}, parent: Processes \cup {Nothing}]
BoothRow == [section: Sections \cup {Nothing}, process: Processes \cup {Nothing}]
LineRow == [section: Sections, process: Processes]

Idle == [pc |-> "idle"]
Job ==
    {Idle}
    \cup [pc: {"move"}, process: Processes, parent: Processes \cup {Nothing}]
    \cup [pc: {"drop"}, process: Processes, children: SUBSET Processes,
          below: SUBSET Processes]
    \cup [pc: {"claim"}, section: Sections, listed: SUBSET Processes]
    \cup [pc: {"line"}, line: Lines, section: Sections, process: Processes]

TypeOK ==
    /\ sections \in SUBSET Sections
    /\ process \in [Processes -> {NoRow} \cup ProcessRow]
    /\ booth \in [Booths -> BoothRow]
    /\ line \in [Lines -> {NoRow} \cup LineRow]
    /\ job \in [Workers -> Job]
    /\ lapped \in BOOLEAN

Present == {p \in Processes : process[p] # NoRow}
ParentOf(p) == IF p \in Present THEN process[p].parent ELSE Nothing
(* The n-th process on the way from p to its root.                         *)
Up(p, n) ==
    LET up[k \in 0..n] == IF k = 0 THEN p ELSE ParentOf(up[k - 1]) IN up[n]
Children(p) == {c \in Present : process[c].parent = p}
(* The search through the children, and theirs; it stops after 100 rows,   *)
(* more than an instance has.                                              *)
Below(p) ==
    {d \in Present \ {p} : \E n \in 1..Cardinality(Processes) : Up(d, n) = p}
LinesOf(p) == {l \in Lines : line[l] # NoRow /\ line[l].process = p}
LinesIn(s) == {l \in Lines : line[l] # NoRow /\ line[l].section = s}

Overlap == lapped' = (lapped \/ \E v \in Workers : job[v] # Idle)
Begin(w, request) ==
    /\ job[w] = Idle
    /\ job' = [job EXCEPT ![w] = request]
    /\ Overlap
Finish(w) == job' = [job EXCEPT ![w] = Idle] /\ UNCHANGED lapped
(* A command without a read that another transaction can make stale.       *)
AtOnce == UNCHANGED job /\ Overlap

Init ==
    /\ sections \in SUBSET Sections
    /\ process = [p \in Processes |-> NoRow]
    /\ booth \in [Booths -> [section: sections \cup {Nothing}, process: {Nothing}]]
    /\ line = [l \in Lines |-> NoRow]
    /\ job = [w \in Workers |-> Idle]
    /\ lapped = FALSE
-----------------------------------------------------------------------------
(* POST /sections *)
CreateSection(s) ==
    /\ s \notin sections
    /\ sections' = sections \cup {s}
    /\ AtOnce
    /\ UNCHANGED <<process, booth, line>>

(* DELETE /sections/:id.  The foreign key of a line would refuse what the  *)
(* count of lines has missed.                                              *)
DeleteSection(s) ==
    /\ s \in sections
    /\ LinesIn(s) = {}
    /\ sections' = sections \ {s}
    /\ booth' = [b \in Booths |->
                   IF booth[b].section = s
                   THEN [booth[b] EXCEPT !.section = Nothing] ELSE booth[b]]
    /\ process' = [p \in Processes |->
                     IF p \in Present /\ process[p].section = s
                     THEN [process[p] EXCEPT !.section = Nothing] ELSE process[p]]
    /\ AtOnce
    /\ UNCHANGED line

(* PUT /sections/:id/processes *)
ClaimLoad(w, s, listed) ==
    /\ s \in sections
    /\ listed \subseteq Present
    /\ Begin(w, [pc |-> "claim", section |-> s, listed |-> listed])
    /\ UNCHANGED <<sections, process, booth, line>>

(* Booths of the section lose the processes not listed; then the free ones *)
(* are given to listed processes, one each, while there are any.           *)
BoothsSetUp(s, listed, after) ==
    LET kept == {b \in Booths : booth[b].section = s /\ booth[b].process \in listed}
        free == {b \in Booths : booth[b].section = s} \ kept
    IN  /\ after \in [Booths -> BoothRow]
        /\ \A b \in Booths \ free : after[b] = booth[b]
        /\ \A b \in free :
             /\ after[b].section = s
             /\ after[b].process \in listed \cup {Nothing}
        /\ LET given == {b \in free : after[b].process # Nothing} IN
             /\ \A b, c \in given : after[b].process = after[c].process => b = c
             /\ given = free \/ Cardinality(given) = Cardinality(listed)

ClaimCommit(w) ==
    LET s == job[w].section  listed == job[w].listed IN
    /\ job[w].pc = "claim"
    /\ listed \subseteq Present
    /\ BoothsSetUp(s, listed, booth')
    /\ process' = [p \in Processes |->
                     IF p \in listed
                     THEN [process[p] EXCEPT !.section = s]
                     ELSE IF p \in Present /\ process[p].section = s
                     THEN [process[p] EXCEPT !.section = Nothing]
                     ELSE process[p]]
    /\ Finish(w)
    /\ UNCHANGED <<sections, line>>

(* POST /work-processes.  The section is stored as the client sent it.     *)
CreateProcess(p, s, q) ==
    /\ p \notin Present
    /\ q \in Present \cup {Nothing}
    /\ process' = [process EXCEPT ![p] = [section |-> s, parent |-> q]]
    /\ AtOnce
    /\ UNCHANGED <<sections, booth, line>>

(* Mutation: the walk looks at the new parent's parent and no further.     *)
ReachesSoon(q, p) == ParentOf(q) = p
(* The walk from the new parent towards the root finds the process itself. *)
Reaches(q, p) == \E n \in 1..MaxHops : Up(q, n) = p

(* PATCH /work-processes/:id with a parentProcessId *)
MoveLoad(w, p, q) ==
    /\ p \in Present
    /\ q \in (Present \ {p}) \cup {Nothing}
    /\ ~Reaches(q, p)
    /\ Begin(w, [pc |-> "move", process |-> p, parent |-> q])
    /\ UNCHANGED <<sections, process, booth, line>>
MoveCommit(w) ==
    LET p == job[w].process  q == job[w].parent IN
    /\ job[w].pc = "move"
    /\ p \in Present /\ q \in Present \cup {Nothing}
    /\ process' = [process EXCEPT ![p].parent = q]
    /\ Finish(w)
    /\ UNCHANGED <<sections, booth, line>>

(* DELETE /work-processes/:id *)
DropLoad(w, p) ==
    /\ p \in Present
    /\ LinesOf(p) = {}
    /\ Begin(w, [pc |-> "drop", process |-> p,
                 children |-> Children(p), below |-> Below(p)])
    /\ UNCHANGED <<sections, process, booth, line>>
DropRow(p, unassigned, orphaned) ==
    /\ process' =
         [d \in Processes |->
            IF d = p \/ d \notin Present THEN NoRow
            ELSE [section |-> IF d \in unassigned THEN Nothing ELSE process[d].section,
                  parent |-> IF d \in orphaned THEN Nothing ELSE process[d].parent]]
    /\ booth' = [b \in Booths |->
                   IF booth[b].process = p
                   THEN [booth[b] EXCEPT !.process = Nothing] ELSE booth[b]]
(* Mutation: only the direct children lose their section.                  *)
DropCommitShallow(w) ==
    LET p == job[w].process IN
    /\ job[w].pc = "drop"
    /\ p \in Present /\ LinesOf(p) = {}
    /\ DropRow(p, job[w].children, job[w].children \cup Children(p))
    /\ Finish(w)
    /\ UNCHANGED <<sections, line>>
(* The children it found are detached from the row, children that came     *)
(* since by ON DELETE SET NULL; a line that came since refuses the delete. *)
DropCommit(w) ==
    LET p == job[w].process IN
    /\ job[w].pc = "drop"
    /\ p \in Present /\ LinesOf(p) = {}
    /\ DropRow(p, job[w].below, job[w].children \cup Children(p))
    /\ Finish(w)
    /\ UNCHANGED <<sections, line>>

(* POST /lines *)
LineLoad(w, l, s, p) ==
    /\ line[l] = NoRow
    /\ s \in sections /\ p \in Present
    /\ Children(p) = {}
    /\ Begin(w, [pc |-> "line", line |-> l, section |-> s, process |-> p])
    /\ UNCHANGED <<sections, process, booth, line>>
LineCommit(w) ==
    LET l == job[w].line  s == job[w].section  p == job[w].process IN
    /\ job[w].pc = "line"
    /\ line[l] = NoRow
    /\ s \in sections /\ p \in Present
    /\ line' = [line EXCEPT ![l] = [section |-> s, process |-> p]]
    /\ Finish(w)
    /\ UNCHANGED <<sections, process, booth>>

(* DELETE /lines/:id/permanent, of which Staffing has the details.         *)
RemoveLine(l) ==
    /\ line[l] # NoRow
    /\ line' = [line EXCEPT ![l] = NoRow]
    /\ AtOnce
    /\ UNCHANGED <<sections, process, booth>>

(* Refused, rolled back, timed out, or the process stopped.                *)
Abort(w) ==
    /\ job[w] # Idle
    /\ Finish(w)
    /\ UNCHANGED <<sections, process, booth, line>>
-----------------------------------------------------------------------------
SectionCommand ==
    \E s \in Sections :
        \/ CreateSection(s) \/ DeleteSection(s)
        \/ \E w \in Workers, listed \in SUBSET Processes : ClaimLoad(w, s, listed)
ProcessCommand ==
    \E p \in Processes :
        \/ \E q \in Processes \cup {Nothing}, s \in Sections \cup {Nothing} :
             CreateProcess(p, s, q)
        \/ \E w \in Workers, q \in Processes \cup {Nothing} : MoveLoad(w, p, q)
        \/ \E w \in Workers : DropLoad(w, p)
LineCommand ==
    \E l \in Lines :
        \/ RemoveLine(l)
        \/ \E w \in Workers, s \in Sections, p \in Processes : LineLoad(w, l, s, p)
Commit(w) ==
    ClaimCommit(w) \/ MoveCommit(w) \/ DropCommit(w) \/ LineCommit(w)

Next ==
    \/ SectionCommand \/ ProcessCommand \/ LineCommand
    \/ \E w \in Workers : Commit(w) \/ Abort(w)
Spec == Init /\ [][Next]_vars
-----------------------------------------------------------------------------
(* Until two requests overlap, the processes form a forest: in every set   *)
(* of them one has its parent outside.  The roll-up of counts and the      *)
(* walks themselves rely on it.                                            *)
Forest ==
    ~lapped => \A S \in SUBSET Present :
                 S # {} => \E p \in S : process[p].parent \notin S

(* While requests do not overlap, deleting a process takes the section     *)
(* from everything below it, at any depth, and leaves the rest of the tree *)
(* as it was.                                                              *)
DropsDetach ==
    [][\A p \in Present :
         (~lapped' /\ process'[p] = NoRow) =>
            \A d \in Present \ {p} :
              /\ d \in Below(p) => process'[d].section = Nothing
              /\ d \notin Children(p) =>
                   process'[d].parent = process[d].parent]_vars

=============================================================================
