------------------------- MODULE WorkProcessesProofs -------------------------
(***************************************************************************)
(* The tree of work processes, for any number of requests, processes,      *)
(* sections, booths and lines.                                             *)
(***************************************************************************)
EXTENDS WorkProcesses, FiniteSetTheorems, WellFoundedInduction, TLAPS

-----------------------------------------------------------------------------
(* A set of natural numbers has a least element.                           *)
LEMMA LeastNumber ==
  ASSUME NEW T \in SUBSET Nat, T # {}
  PROVE  \E x \in T : \A y \in T : x <= y
<1>1. PICK x \in T : \A y \in T : <<y, x>> \notin OpToRel(<, Nat)
  BY NatLessThanWellFounded, WFMin
<1>2. ASSUME NEW y \in T PROVE ~(y < x)
  <2> DEFINE pair == <<y, x>>
  <2>1. pair \in Nat \X Nat /\ pair[1] = y /\ pair[2] = x
    BY SMT
  <2>2. pair \notin OpToRel(<, Nat)
    BY <1>1
  <2> HIDE DEF pair
  <2>3. ~(pair[1] < pair[2])
    BY <2>1, <2>2, Zenon DEF OpToRel
  <2> QED BY <2>1, <2>3
<1> QED
  BY <1>2

(* The walk towards the root is a recursive function over 0..n: it exists, *)
(* longer walks extend shorter ones, and so Up climbs one parent at a time.*)
Walk(p, n, g) == g = [k \in 0..n |-> IF k = 0 THEN p ELSE ParentOf(g[k - 1])]

LEMMA WalksExist ==
    ASSUME NEW p, NEW n \in Nat
    PROVE  \E g : Walk(p, n, g)
  <1> DEFINE Bad == {m \in Nat : ~\E g : Walk(p, m, g)}
  <1>1. SUFFICES ASSUME Bad # {} PROVE FALSE
    OBVIOUS
  <1>2. PICK m \in Bad : \A k \in Bad : m <= k
    BY <1>1, LeastNumber
  <1>3. m # 0
    <2>1. Walk(p, 0, [k \in 0..0 |-> p])
      BY DEF Walk
    <2>2. QED
      BY <2>1
  <1>4. m - 1 \in Nat /\ m - 1 \notin Bad
    BY <1>2, <1>3
  <1>5. PICK g : Walk(p, m - 1, g)
    BY <1>4
  <1> DEFINE h == [k \in 0..m |-> IF k = 0 THEN p ELSE ParentOf(g[k - 1])]
  <1>6. \A k \in 0..(m - 1) : g[k] = h[k]
    BY <1>4, <1>5 DEF Walk
  <1>7. \A k \in 0..m : k # 0 => h[k - 1] = g[k - 1]
    BY <1>4, <1>6
  <1>8. Walk(p, m, h)
    BY <1>7 DEF Walk
  <1>9. QED
    BY <1>2, <1>8

LEMMA WalksAgree ==
    ASSUME NEW p, NEW n \in Nat, NEW m \in Nat, n <= m,
           NEW g, NEW h, Walk(p, n, g), Walk(p, m, h)
    PROVE  \A k \in 0..n : g[k] = h[k]
  <1> DEFINE Bad == {k \in 0..n : g[k] # h[k]}
  <1>1. SUFFICES ASSUME Bad # {} PROVE FALSE
    OBVIOUS
  <1>2. PICK k \in Bad : \A i \in Bad : k <= i
    <2>1. Bad \in SUBSET Nat
      OBVIOUS
    <2>2. QED
      BY <1>1, <2>1, LeastNumber
  <1>3. k # 0
    BY DEF Walk
  <1>4. k - 1 \in 0..n /\ k - 1 \notin Bad
    BY <1>2, <1>3
  <1>5. g[k] = ParentOf(g[k - 1]) /\ h[k] = ParentOf(h[k - 1])
    BY <1>3 DEF Walk
  <1>6. QED
    BY <1>4, <1>5

LEMMA Climb ==
    ASSUME NEW p, NEW n \in Nat
    PROVE  /\ Up(p, 0) = p
           /\ Up(p, n + 1) = ParentOf(Up(p, n))
  <1> DEFINE walk(m) == CHOOSE g : Walk(p, m, g)
  <1>1. ASSUME NEW m \in Nat PROVE Walk(p, m, walk(m)) /\ Up(p, m) = walk(m)[m]
    <2>1. Walk(p, m, walk(m))
      BY WalksExist
    <2>2. Up(p, m) = walk(m)[m]
      BY Zenon DEF Up, Walk
    <2>3. QED
      BY <2>1, <2>2
  <1> HIDE DEF walk
  <1>2. Up(p, 0) = p
    BY <1>1 DEF Walk
  <1>3. walk(n)[n] = walk(n + 1)[n]
    BY <1>1, WalksAgree
  <1>4. walk(n + 1)[n + 1] = ParentOf(walk(n + 1)[n])
    BY <1>1 DEF Walk
  <1>5. QED
    BY <1>1, <1>2, <1>3, <1>4

(* What the walks of a handler read depends on the process rows alone. *)
LEMMA WalksStay ==
    ASSUME process' = process, NEW p, NEW q
    PROVE  /\ Present' = Present
           /\ Children(p)' = Children(p)
           /\ Below(p)' = Below(p)
           /\ Reaches(q, p)' <=> Reaches(q, p)
  <1>1. Present' = Present
    BY DEF Present
  <1>2. Children(p)' = Children(p)
    BY <1>1 DEF Children
  <1>3. \A r, n : Up(r, n)' = Up(r, n)
    <2>1. \A r : ParentOf(r)' = ParentOf(r)
      BY <1>1 DEF ParentOf
    <2>2. ASSUME NEW r, NEW n PROVE Up(r, n)' = Up(r, n)
      BY <2>1, Zenon DEF Up
    <2>3. QED
      BY <2>2
  <1>4. Below(p)' = Below(p)
    BY <1>1, <1>3 DEF Below
  <1>5. Reaches(q, p)' <=> Reaches(q, p)
    BY <1>3 DEF Reaches
  <1>6. QED
    BY <1>1, <1>2, <1>4, <1>5

-----------------------------------------------------------------------------
(* The strengthening: the references are kept by foreign keys, and until   *)
(* two requests overlap one at most is busy and what it read of the tree   *)
(* is still so.                                                            *)
RefersToRows == \A p \in Present : process[p].parent \in Present \cup {Nothing}

Alone ==
    ~lapped => \A v, w \in Workers : job[v] # Idle /\ job[w] # Idle => v = w

ReadIsCurrent ==
    ~lapped =>
      \A w \in Workers :
        /\ job[w].pc = "move" =>
             /\ job[w].process \in Present
             /\ job[w].parent \in (Present \ {job[w].process}) \cup {Nothing}
             /\ ~Reaches(job[w].parent, job[w].process)
        /\ job[w].pc = "drop" =>
             /\ job[w].process \in Present
             /\ job[w].children = Children(job[w].process)
             /\ job[w].below = Below(job[w].process)

IInv ==
    /\ TypeOK
    /\ RefersToRows
    /\ Alone
    /\ ReadIsCurrent
    /\ Forest

-----------------------------------------------------------------------------
(* Climbing from q inside S, without ever meeting p, one comes to a cycle  *)
(* before the walk of the handler ends: it is as long as there are         *)
(* processes, so it meets one of them twice.                               *)
LEMMA ClimbsInCircles ==
    ASSUME NEW p, NEW S \in SUBSET (Present \cap Processes), NEW q \in S, q # p,
           ~Reaches(q, p),
           \A x \in S \ {p} : process[x].parent \in S
    PROVE  \E T \in SUBSET Present : T # {} /\ \A x \in T : process[x].parent \in T
  <1> DEFINE N == 0..MaxHops
             f == [n \in N |-> Up(q, n)]
  <1>1. MaxHops \in Nat /\ IsFiniteSet(Processes) /\ Cardinality(Processes) <= MaxHops
    BY WorkProcessAssumption
  <1>2. \A n \in N : Up(q, n) \in S \ {p}
    <2> DEFINE Bad == {n \in N : Up(q, n) \notin S \ {p}}
    <2>1. SUFFICES ASSUME Bad # {} PROVE FALSE
      OBVIOUS
    <2>2. PICK n \in Bad : \A i \in Bad : n <= i
      <3>1. Bad \in SUBSET Nat
        BY <1>1
      <3>2. QED
        BY <2>1, <3>1, LeastNumber
    <2>3. n # 0
      BY Climb
    <2>4. n - 1 \in N /\ n - 1 \notin Bad
      BY <1>1, <2>2, <2>3
    <2>5. Up(q, n - 1) \in S \ {p}
      BY <2>4
    <2>6. Up(q, n) = ParentOf(Up(q, n - 1))
      <3>1. n - 1 \in Nat /\ (n - 1) + 1 = n
        BY <1>1, <2>4
      <3>2. QED
        BY <3>1, Climb
    <2>7. Up(q, n) \in S
      BY <2>5, <2>6 DEF ParentOf
    <2>8. Up(q, n) # p
      <3>1. n \in 1..MaxHops
        BY <1>1, <2>3
      <3>2. QED
        BY <3>1 DEF Reaches
    <2>9. QED
      BY <2>7, <2>8
  <1>3. PICK i, j \in N : i # j /\ Up(q, i) = Up(q, j)
    <2>1. f \in [N -> Processes]
      BY <1>2
    <2>2. IsFiniteSet(N) /\ Cardinality(N) = MaxHops + 1
      BY <1>1, FS_Interval
    <2>3. Cardinality(Processes) \in Nat
      BY <1>1, FS_CardinalityType
    <2>4. Cardinality(Processes) < Cardinality(N)
      BY <1>1, <2>2, <2>3
    <2> HIDE DEF f, N
    <2>5. \E i, j \in N : i # j /\ f[i] = f[j]
      BY <1>1, <2>1, <2>2, <2>4, FS_PigeonHole
    <2>6. QED
      BY <2>5 DEF f
  <1>4. ASSUME NEW a \in N, NEW b \in N, a < b, Up(q, a) = Up(q, b)
        PROVE  \E T \in SUBSET Present : T # {} /\ \A x \in T : process[x].parent \in T
    <2> DEFINE T == {Up(q, n) : n \in a..(b - 1)}
    <2>1. \A n \in a..(b - 1) : n \in N /\ n \in Nat
      BY <1>1, <1>4
    <2>2. T \in SUBSET Present
      BY <1>2, <2>1
    <2>3. Up(q, a) \in T
      BY <1>1, <1>4
    <2>4. ASSUME NEW n \in a..(b - 1) PROVE process[Up(q, n)].parent \in T
      <3>1. process[Up(q, n)].parent = Up(q, n + 1)
        BY <1>2, <2>1, Climb DEF ParentOf
      <3>2. CASE n + 1 = b
        BY <1>4, <2>3, <3>1, <3>2
      <3>3. CASE n + 1 # b
        <4>1. n + 1 \in a..(b - 1)
          BY <1>1, <1>4, <3>3
        <4>2. QED
          BY <3>1, <4>1
      <3>4. QED
        BY <3>2, <3>3
    <2>5. QED
      BY <2>2, <2>3, <2>4
  <1>5. CASE i < j
    BY <1>3, <1>4, <1>5
  <1>6. CASE j < i
    BY <1>3, <1>4, <1>6
  <1>7. QED
    BY <1>1, <1>3, <1>5, <1>6

LEMMA JobShapes ==
    ASSUME TypeOK, NEW w \in Workers
    PROVE  /\ job[w].pc = "move" =>
                job[w].process \in Processes /\ job[w].parent \in Processes \cup {Nothing}
           /\ job[w].pc = "drop" =>
                /\ job[w].process \in Processes
                /\ job[w].children \subseteq Processes
                /\ job[w].below \subseteq Processes
           /\ job[w].pc = "claim" =>
                job[w].section \in Sections /\ job[w].listed \subseteq Processes
           /\ job[w].pc = "line" =>
                /\ job[w].line \in Lines
                /\ job[w].section \in Sections
                /\ job[w].process \in Processes
  <1>1. job[w] \in Job
    BY DEF TypeOK
  <1>2. QED
    BY <1>1 DEF Job, Idle

(* A request that arrives is alone, or lapped. *)
LEMMA Arrives ==
    ASSUME TypeOK, NEW w \in Workers, NEW request \in Job, Begin(w, request)
    PROVE  /\ job' \in [Workers -> Job]
           /\ job'[w] = request
           /\ \A v \in Workers \ {w} : job'[v] = job[v]
           /\ lapped' \in BOOLEAN
           /\ ~lapped' => ~lapped /\ \A v \in Workers : job[v] = Idle
  BY DEF TypeOK, Begin, Overlap

LEMMA Leaves ==
    ASSUME TypeOK, NEW w \in Workers, Finish(w)
    PROVE  /\ job' \in [Workers -> Job]
           /\ job'[w] = Idle
           /\ \A v \in Workers \ {w} : job'[v] = job[v]
           /\ lapped' = lapped
  BY DEF TypeOK, Finish, Job

LEMMA Passes ==
    ASSUME TypeOK, AtOnce
    PROVE  /\ job' = job
           /\ lapped' \in BOOLEAN
           /\ ~lapped' => ~lapped /\ \A v \in Workers : job[v] = Idle
  BY DEF TypeOK, AtOnce, Overlap

-----------------------------------------------------------------------------
LEMMA Initially == Init => IInv
  <1>1. SUFFICES ASSUME Init PROVE IInv
    OBVIOUS
  <1>2. TypeOK
    BY <1>1 DEF Init, TypeOK, BoothRow, Job
  <1>3. Present = {}
    BY <1>1 DEF Init, Present
  <1>4. \A w \in Workers : job[w] = Idle
    BY <1>1 DEF Init
  <1>5. QED
    BY <1>2, <1>3, <1>4 DEF IInv, RefersToRows, Alone, ReadIsCurrent, Forest, Idle

LEMMA TypePreserved ==
    ASSUME IInv, [Next]_vars
    PROVE  TypeOK'
  <1> USE DEF IInv
  <1>1. ASSUME NEW s \in Sections, CreateSection(s)
        PROVE  TypeOK'
    BY <1>1, Passes DEF CreateSection, TypeOK
  <1>2. ASSUME NEW s \in Sections, DeleteSection(s)
        PROVE  TypeOK'
    <2>1. booth' \in [Booths -> BoothRow]
      BY <1>2 DEF DeleteSection, TypeOK, BoothRow
    <2>2. process' \in [Processes -> {NoRow} \cup ProcessRow]
      <3>1. \A p \in Present :
              process[p] \in ProcessRow
        BY DEF Present, TypeOK
      <3>2. QED
        BY <1>2, <3>1 DEF DeleteSection, TypeOK, ProcessRow
    <2>3. QED
      BY <1>2, <2>1, <2>2, Passes DEF DeleteSection, TypeOK
  <1>3. ASSUME NEW s \in Sections, NEW w \in Workers, NEW listed \in SUBSET Processes,
               ClaimLoad(w, s, listed)
        PROVE  TypeOK'
    <2>1. [pc |-> "claim", section |-> s, listed |-> listed] \in Job
      BY DEF Job
    <2>2. QED
      BY <1>3, <2>1, Arrives DEF ClaimLoad, TypeOK
  <1>4. ASSUME NEW p \in Processes, NEW q \in Processes \cup {Nothing},
               NEW s \in Sections \cup {Nothing}, CreateProcess(p, s, q)
        PROVE  TypeOK'
    <2>1. [section |-> s, parent |-> q] \in ProcessRow
      BY DEF ProcessRow
    <2>2. QED
      BY <1>4, <2>1, Passes DEF CreateProcess, TypeOK
  <1>5. ASSUME NEW p \in Processes, NEW w \in Workers, NEW q \in Processes \cup {Nothing},
               MoveLoad(w, p, q)
        PROVE  TypeOK'
    <2>1. [pc |-> "move", process |-> p, parent |-> q] \in Job
      BY DEF Job
    <2>2. QED
      BY <1>5, <2>1, Arrives DEF MoveLoad, TypeOK
  <1>6. ASSUME NEW p \in Processes, NEW w \in Workers, DropLoad(w, p)
        PROVE  TypeOK'
    <2>1. Children(p) \in SUBSET Processes /\ Below(p) \in SUBSET Processes
      BY DEF Children, Below, Present
    <2>2. [pc |-> "drop", process |-> p, children |-> Children(p), below |-> Below(p)]
            \in Job
      BY <2>1 DEF Job
    <2>3. QED
      BY <1>6, <2>2, Arrives DEF DropLoad, TypeOK
  <1>7. ASSUME NEW l \in Lines, RemoveLine(l)
        PROVE  TypeOK'
    BY <1>7, Passes DEF RemoveLine, TypeOK
  <1>8. ASSUME NEW l \in Lines, NEW w \in Workers, NEW s \in Sections, NEW p \in Processes,
               LineLoad(w, l, s, p)
        PROVE  TypeOK'
    <2>1. [pc |-> "line", line |-> l, section |-> s, process |-> p] \in Job
      BY DEF Job
    <2>2. QED
      BY <1>8, <2>1, Arrives DEF LineLoad, TypeOK
  <1>9. ASSUME NEW w \in Workers, ClaimCommit(w)
        PROVE  TypeOK'
    <2>1. job[w].section \in Sections
      BY <1>9, JobShapes DEF ClaimCommit
    <2>2. process' \in [Processes -> {NoRow} \cup ProcessRow]
      <3>1. \A p \in Present : process[p] \in ProcessRow
        BY DEF Present, TypeOK
      <3>2. job[w].listed \subseteq Present
        BY <1>9 DEF ClaimCommit
      <3>3. QED
        BY <1>9, <2>1, <3>1, <3>2 DEF ClaimCommit, TypeOK, ProcessRow
    <2>3. booth' \in [Booths -> BoothRow]
      BY <1>9 DEF ClaimCommit, BoothsSetUp
    <2>4. QED
      BY <1>9, <2>2, <2>3, Leaves DEF ClaimCommit, TypeOK
  <1>10. ASSUME NEW w \in Workers, MoveCommit(w)
         PROVE  TypeOK'
    <2>1. /\ job[w].process \in Present
          /\ process[job[w].process] \in ProcessRow
          /\ job[w].parent \in Processes \cup {Nothing}
      BY <1>10, JobShapes DEF MoveCommit, Present, TypeOK
    <2>2. process' \in [Processes -> {NoRow} \cup ProcessRow]
      BY <1>10, <2>1 DEF MoveCommit, TypeOK, ProcessRow
    <2>3. QED
      BY <1>10, <2>2, Leaves DEF MoveCommit, TypeOK
  <1>11. ASSUME NEW w \in Workers, DropCommit(w)
         PROVE  TypeOK'
    <2>1. \A p \in Present : process[p] \in ProcessRow
      BY DEF Present, TypeOK
    <2>2. process' \in [Processes -> {NoRow} \cup ProcessRow]
      BY <1>11, <2>1 DEF DropCommit, DropRow, TypeOK, ProcessRow
    <2>3. booth' \in [Booths -> BoothRow]
      BY <1>11 DEF DropCommit, DropRow, TypeOK, BoothRow
    <2>4. QED
      BY <1>11, <2>2, <2>3, Leaves DEF DropCommit, TypeOK
  <1>12. ASSUME NEW w \in Workers, LineCommit(w)
         PROVE  TypeOK'
    <2>1. [section |-> job[w].section, process |-> job[w].process] \in LineRow
      BY <1>12, JobShapes DEF LineCommit, LineRow
    <2>2. line' \in [Lines -> {NoRow} \cup LineRow]
      BY <1>12, <2>1 DEF LineCommit, TypeOK
    <2>3. QED
      BY <1>12, <2>2, Leaves DEF LineCommit, TypeOK
  <1>13. ASSUME NEW w \in Workers, Abort(w)
         PROVE  TypeOK'
    BY <1>13, Leaves DEF Abort, TypeOK
  <1>14. CASE UNCHANGED vars
    BY <1>14 DEF vars, TypeOK
  <1>15. QED
    BY <1>1, <1>2, <1>3, <1>4, <1>5, <1>6, <1>7, <1>8, <1>9, <1>10, <1>11, <1>12, <1>13,
       <1>14
    DEF Next, SectionCommand, ProcessCommand, LineCommand, Commit

(* A step leaves the process rows alone, or nobody is busy after it unless *)
(* requests have overlapped.                                               *)
Arrival(w, request) ==
    Begin(w, request) /\ process' = process
Settled == ~lapped' => ~lapped /\ \A v \in Workers : job'[v] = Idle

LEMMA Steps ==
    ASSUME IInv, [Next]_vars
    PROVE  \/ UNCHANGED <<process, job, lapped>>
           \/ Settled /\ process' = process
           \/ \E w \in Workers, p \in Processes, q \in Processes \cup {Nothing} :
                 MoveLoad(w, p, q)
           \/ \E w \in Workers, p \in Processes : DropLoad(w, p)
           \/ \E w \in Workers, request \in Job :
                 /\ Arrival(w, request)
                 /\ request.pc \in {"claim", "line"}
           \/ Settled /\ \E s \in Sections : DeleteSection(s)
           \/ Settled /\ \E p \in Processes, q \in Processes \cup {Nothing},
                            s \in Sections \cup {Nothing} : CreateProcess(p, s, q)
           \/ Settled /\ \E w \in Workers : ClaimCommit(w) \/ MoveCommit(w) \/ DropCommit(w)
  <1> USE DEF IInv
  <1>1. ASSUME AtOnce PROVE Settled
    BY <1>1, Passes DEF Settled
  <1>2. ASSUME NEW w \in Workers, Finish(w), job[w] # Idle PROVE Settled
    <2>1. /\ job'[w] = Idle
          /\ \A v \in Workers \ {w} : job'[v] = job[v]
          /\ lapped' = lapped
      BY <1>2, Leaves
    <2>2. ~lapped => \A v \in Workers \ {w} : job[v] = Idle
      BY <1>2 DEF Alone
    <2>3. QED
      BY <2>1, <2>2 DEF Settled
  <1>3. CASE SectionCommand
    <2>1. ASSUME NEW s \in Sections, CreateSection(s)
          PROVE  process' = process /\ Settled
      BY <2>1, <1>1 DEF CreateSection
    <2>2. ASSUME NEW s \in Sections, DeleteSection(s) PROVE Settled
      BY <2>2, <1>1 DEF DeleteSection
    <2>3. ASSUME NEW s \in Sections, NEW w \in Workers, NEW listed \in SUBSET Processes,
                 ClaimLoad(w, s, listed)
          PROVE  \E v \in Workers, request \in Job :
                    Arrival(v, request) /\ request.pc \in {"claim", "line"}
      <3>1. [pc |-> "claim", section |-> s, listed |-> listed] \in Job
        BY DEF Job
      <3>2. QED
        BY <2>3, <3>1 DEF ClaimLoad, Arrival
    <2>4. QED
      BY <1>3, <2>1, <2>2, <2>3 DEF SectionCommand
  <1>4. CASE ProcessCommand
    <2>1. ASSUME NEW p \in Processes, NEW q \in Processes \cup {Nothing},
                 NEW s \in Sections \cup {Nothing}, CreateProcess(p, s, q)
          PROVE  Settled
      BY <2>1, <1>1 DEF CreateProcess
    <2>2. QED
      BY <1>4, <2>1 DEF ProcessCommand
  <1>5. CASE LineCommand
    <2>1. ASSUME NEW l \in Lines, RemoveLine(l)
          PROVE  process' = process /\ Settled
      BY <2>1, <1>1 DEF RemoveLine
    <2>2. ASSUME NEW l \in Lines, NEW w \in Workers, NEW s \in Sections,
                 NEW p \in Processes, LineLoad(w, l, s, p)
          PROVE  \E v \in Workers, request \in Job :
                    Arrival(v, request) /\ request.pc \in {"claim", "line"}
      <3>1. [pc |-> "line", line |-> l, section |-> s, process |-> p] \in Job
        BY DEF Job
      <3>2. QED
        BY <2>2, <3>1 DEF LineLoad, Arrival
    <2>3. QED
      BY <1>5, <2>1, <2>2 DEF LineCommand
  <1>6. ASSUME NEW w \in Workers, Commit(w)
        PROVE  /\ Settled
               /\ ClaimCommit(w) \/ MoveCommit(w) \/ DropCommit(w) \/ process' = process
    <2>1. Finish(w) /\ job[w] # Idle
      BY <1>6 DEF Commit, ClaimCommit, MoveCommit, DropCommit, LineCommit, Idle
    <2>2. QED
      BY <1>2, <1>6, <2>1 DEF Commit, LineCommit
  <1>7. ASSUME NEW w \in Workers, Abort(w)
        PROVE  process' = process /\ Settled
    BY <1>2, <1>7 DEF Abort
  <1>8. CASE UNCHANGED vars
    BY <1>8 DEF vars
  <1>9. QED
    BY <1>3, <1>4, <1>5, <1>6, <1>7, <1>8 DEF Next

(* What was read is current: either nobody is busy, or the one that is has *)
(* just read.                                                              *)
LEMMA ReadsPreserved ==
    ASSUME IInv, [Next]_vars
    PROVE  Alone' /\ ReadIsCurrent'
  <1> USE DEF IInv
  <1>1. CASE UNCHANGED <<process, job, lapped>>
    <2>1. Present' = Present
      BY <1>1 DEF Present
    <2>2. \A p, q : /\ Children(p)' = Children(p)
                    /\ Below(p)' = Below(p)
                    /\ Reaches(q, p)' <=> Reaches(q, p)
      BY <1>1, WalksStay
    <2>3. Alone'
      BY <1>1 DEF Alone
    <2>4. ReadIsCurrent'
      BY <1>1, <2>1, <2>2 DEF ReadIsCurrent
    <2>5. QED
      BY <2>3, <2>4
  <1>2. CASE Settled
    BY <1>2 DEF Settled, Alone, ReadIsCurrent, Idle
  <1>3. ASSUME NEW w \in Workers, NEW request \in Job, Begin(w, request),
               request.pc \in {"claim", "line"}
        PROVE  Alone' /\ ReadIsCurrent'
    BY <1>3, Arrives DEF Alone, ReadIsCurrent, Idle
  <1>4. ASSUME NEW w \in Workers, NEW p \in Processes, NEW q \in Processes \cup {Nothing},
               MoveLoad(w, p, q)
        PROVE  Alone' /\ ReadIsCurrent'
    <2> DEFINE request == [pc |-> "move", process |-> p, parent |-> q]
    <2>1. request \in Job /\ Begin(w, request) /\ process' = process
      BY <1>4 DEF MoveLoad, Job
    <2>2. Present' = Present
      BY <2>1 DEF Present
    <2>3. ~lapped' => \A v \in Workers \ {w} : job'[v] = Idle
      BY <2>1, Arrives
    <2>4. job'[w] = request
      BY <2>1, Arrives
    <2>5. Reaches(q, p)' <=> Reaches(q, p)
      BY <2>1, WalksStay
    <2>6. Alone'
      BY <2>3 DEF Alone
    <2>7. ReadIsCurrent'
      <3>1. p \in Present /\ q \in (Present \ {p}) \cup {Nothing} /\ ~Reaches(q, p)
        BY <1>4 DEF MoveLoad
      <3>2. SUFFICES ASSUME ~lapped', NEW v \in Workers,
                            job'[v].pc \in {"move", "drop"}
                     PROVE  job'[v] = request
        BY <2>2, <2>5, <3>1 DEF ReadIsCurrent
      <3>3. QED
        BY <2>3, <2>4, <3>2 DEF Idle
    <2>8. QED
      BY <2>6, <2>7
  <1>5. ASSUME NEW w \in Workers, NEW p \in Processes, DropLoad(w, p)
        PROVE  Alone' /\ ReadIsCurrent'
    <2> DEFINE request == [pc |-> "drop", process |-> p, children |-> Children(p),
                           below |-> Below(p)]
    <2>1. Children(p) \in SUBSET Processes /\ Below(p) \in SUBSET Processes
      BY DEF Children, Below, Present
    <2>2. request \in Job /\ Begin(w, request) /\ process' = process
      BY <1>5, <2>1 DEF DropLoad, Job
    <2>3. Present' = Present
      BY <2>2 DEF Present
    <2>4. ~lapped' => \A v \in Workers \ {w} : job'[v] = Idle
      BY <2>2, Arrives
    <2>5. job'[w] = request
      BY <2>2, Arrives
    <2>6. Children(p)' = Children(p) /\ Below(p)' = Below(p)
      BY <2>2, WalksStay
    <2>7. Alone'
      BY <2>4 DEF Alone
    <2>8. ReadIsCurrent'
      <3>1. p \in Present
        BY <1>5 DEF DropLoad
      <3>2. SUFFICES ASSUME ~lapped', NEW v \in Workers,
                            job'[v].pc \in {"move", "drop"}
                     PROVE  job'[v] = request
        BY <2>3, <2>6, <3>1 DEF ReadIsCurrent
      <3>3. QED
        BY <2>4, <2>5, <3>2 DEF Idle
    <2>9. QED
      BY <2>7, <2>8
  <1>6. QED
    BY <1>1, <1>2, <1>3, <1>4, <1>5, Steps DEF Arrival

-----------------------------------------------------------------------------
(* The tree itself. *)
LEMMA TreePreserved ==
    ASSUME IInv, [Next]_vars
    PROVE  RefersToRows' /\ Forest'
  <1> USE DEF IInv
  <1>1. CASE process' = process /\ (lapped => lapped')
    <2>1. Present' = Present
      BY <1>1 DEF Present
    <2>2. QED
      BY <1>1, <2>1 DEF RefersToRows, Forest
  <1>2. ASSUME Settled, NEW s \in Sections, DeleteSection(s)
        PROVE  RefersToRows' /\ Forest'
    <2>1. /\ Present' = Present
          /\ \A p \in Present : process'[p].parent = process[p].parent
      BY <1>2 DEF DeleteSection, Present, NoRow, TypeOK, ProcessRow
    <2>2. QED
      BY <1>2, <2>1 DEF RefersToRows, Forest, Settled
  <1>3. ASSUME Settled, NEW w \in Workers, ClaimCommit(w)
        PROVE  RefersToRows' /\ Forest'
    <2>1. /\ Present' = Present
          /\ \A p \in Present : process'[p].parent = process[p].parent
      BY <1>3 DEF ClaimCommit, Present, NoRow, TypeOK, ProcessRow
    <2>2. QED
      BY <1>3, <2>1 DEF RefersToRows, Forest, Settled
  <1>4. ASSUME Settled, NEW p \in Processes, NEW q \in Processes \cup {Nothing},
               NEW s \in Sections \cup {Nothing}, CreateProcess(p, s, q)
        PROVE  RefersToRows' /\ Forest'
    <2>1. /\ p \notin Present /\ q \in Present \cup {Nothing}
          /\ Present' = Present \cup {p}
          /\ process'[p].parent = q
          /\ \A r \in Present : process'[r].parent = process[r].parent
      BY <1>4 DEF CreateProcess, Present, NoRow, TypeOK
    <2>2. RefersToRows'
      BY <2>1 DEF RefersToRows
    <2>3. Forest'
      <3>1. SUFFICES ASSUME ~lapped, NEW S \in SUBSET (Present \cup {p}), S # {}
                     PROVE  \E r \in S : process'[r].parent \notin S
        BY <1>4, <2>1 DEF Forest, Settled
      <3>2. CASE S \subseteq {p}
        BY <2>1, <3>1, <3>2, WorkProcessAssumption
      <3>3. CASE ~(S \subseteq {p})
        <4>1. PICK r \in S \ {p} : process[r].parent \notin S \ {p}
          BY <3>1, <3>3 DEF Forest
        <4>2. process[r].parent # p
          BY <2>1, <3>1, <4>1, WorkProcessAssumption DEF RefersToRows
        <4>3. QED
          BY <2>1, <3>1, <4>1, <4>2
      <3>4. QED
        BY <3>2, <3>3
    <2>4. QED
      BY <2>2, <2>3
  <1>5. ASSUME Settled, NEW w \in Workers, MoveCommit(w)
        PROVE  RefersToRows' /\ Forest'
    <2> DEFINE p == job[w].process
               q == job[w].parent
    <2>1. /\ p \in Present /\ q \in Present \cup {Nothing}
          /\ Present' = Present
          /\ process'[p].parent = q
          /\ \A r \in Present \ {p} : process'[r] = process[r]
      <3>1. p \in Present /\ q \in Present \cup {Nothing}
            /\ process' = [process EXCEPT ![p].parent = q]
        BY <1>5 DEF MoveCommit
      <3>2. process[p] \in ProcessRow /\ process \in [Processes -> {NoRow} \cup ProcessRow]
        BY <3>1 DEF Present, TypeOK
      <3>3. process'[p] # NoRow /\ process'[p].parent = q
        BY <3>1, <3>2 DEF Present, ProcessRow, NoRow
      <3>4. \A r \in Processes \ {p} : process'[r] = process[r]
        BY <3>1, <3>2
      <3>5. QED
        BY <3>1, <3>3, <3>4 DEF Present
    <2>2. RefersToRows'
      BY <2>1 DEF RefersToRows
    <2>3. Forest'
      <3>1. SUFFICES ASSUME ~lapped, NEW S \in SUBSET Present, S # {},
                            \A r \in S : process'[r].parent \in S
                     PROVE  FALSE
        BY <1>5, <2>1 DEF Forest, Settled
      <3>2. q \in (Present \ {p}) \cup {Nothing} /\ ~Reaches(q, p)
        BY <1>5, <3>1 DEF ReadIsCurrent, MoveCommit
      <3>3. \A r \in S \ {p} : process[r].parent \in S
        BY <2>1, <3>1
      <3>4. S \in SUBSET (Present \cap Processes)
        BY <3>1 DEF Present
      <3>5. CASE p \in S
        <4>1. q \in S
          BY <2>1, <3>1, <3>5
        <4>2. q # p
          BY <3>2, <3>4, <4>1, WorkProcessAssumption
        <4>3. \E T \in SUBSET Present : T # {} /\ \A r \in T : process[r].parent \in T
          BY <3>2, <3>3, <3>4, <4>1, <4>2, ClimbsInCircles
        <4>4. QED
          BY <3>1, <4>3 DEF Forest
      <3>6. CASE p \notin S
        BY <3>1, <3>3, <3>6 DEF Forest
      <3>7. QED
        BY <3>5, <3>6
    <2>4. QED
      BY <2>2, <2>3
  <1>6. ASSUME Settled, NEW w \in Workers, DropCommit(w)
        PROVE  RefersToRows' /\ Forest'
    <2> DEFINE p == job[w].process
    <2>1. /\ Present' = Present \ {p}
          /\ \A r \in Present' :
               \/ process'[r].parent = Nothing
               \/ process'[r].parent = process[r].parent /\ process[r].parent # p
      BY <1>6 DEF DropCommit, DropRow, Present, NoRow, Children, TypeOK
    <2>2. RefersToRows'
      BY <2>1 DEF RefersToRows
    <2>3. Forest'
      <3>1. SUFFICES ASSUME ~lapped, NEW S \in SUBSET (Present \ {p}), S # {}
                     PROVE  \E r \in S : process'[r].parent \notin S
        BY <1>6, <2>1 DEF Forest, Settled
      <3>2. PICK r \in S : process[r].parent \notin S
        BY <3>1 DEF Forest
      <3>3. Nothing \notin S
        BY <3>1, WorkProcessAssumption DEF Present
      <3>4. QED
        BY <2>1, <3>1, <3>2, <3>3
    <2>4. QED
      BY <2>2, <2>3
  <1>7. ASSUME NEW w \in Workers, NEW request \in Job, Begin(w, request)
        PROVE  lapped => lapped'
    BY <1>7 DEF Begin, Overlap
  <1>8. ASSUME NEW w \in Workers, NEW p \in Processes, NEW q \in Processes \cup {Nothing},
               MoveLoad(w, p, q)
        PROVE  process' = process /\ (lapped => lapped')
    BY <1>8 DEF MoveLoad, Begin, Overlap
  <1>9. ASSUME NEW w \in Workers, NEW p \in Processes, DropLoad(w, p)
        PROVE  process' = process /\ (lapped => lapped')
    BY <1>9 DEF DropLoad, Begin, Overlap
  <1>10. Settled => (lapped => lapped')
    BY DEF Settled, TypeOK
  <1>11. QED
    BY <1>1, <1>2, <1>3, <1>4, <1>5, <1>6, <1>7, <1>8, <1>9, <1>10, Steps DEF Arrival

-----------------------------------------------------------------------------
(* A process that goes was deleted, by a request that had found all that   *)
(* is below it.                                                            *)
LEMMA DropStep ==
    ASSUME IInv, [Next]_vars, NEW p \in Present, ~lapped', process'[p] = NoRow,
           NEW d \in Present \ {p}
    PROVE  /\ d \in Below(p) => process'[d].section = Nothing
           /\ d \notin Children(p) => process'[d].parent = process[d].parent
  <1> USE DEF IInv
  <1>1. p \in Processes /\ process[p] # NoRow
    BY DEF Present
  <1>2. \A r \in Present : process[r] \in ProcessRow
    BY DEF Present, TypeOK
  <1>3. ~lapped
    BY Steps DEF Settled, Arrival, Begin, Overlap, MoveLoad, DropLoad
  <1>4. \A s \in Sections : ~DeleteSection(s)
    BY <1>1, <1>2 DEF DeleteSection, NoRow, ProcessRow
  <1>5. \A w \in Workers : ~ClaimCommit(w)
    BY <1>1, <1>2 DEF ClaimCommit, NoRow, ProcessRow
  <1>6. \A w \in Workers : ~MoveCommit(w)
    <2>1. ASSUME NEW w \in Workers, MoveCommit(w) PROVE FALSE
      <3>1. CASE p = job[w].process
        BY <1>1, <1>2, <2>1, <3>1 DEF MoveCommit, NoRow, ProcessRow, TypeOK
      <3>2. CASE p # job[w].process
        BY <1>1, <2>1, <3>2 DEF MoveCommit, TypeOK
      <3>3. QED
        BY <3>1, <3>2
    <2>2. QED
      BY <2>1
  <1>7. \A r \in Processes, q \in Processes \cup {Nothing}, s \in Sections \cup {Nothing} :
          ~CreateProcess(r, s, q)
    BY <1>1 DEF CreateProcess, Present, NoRow, TypeOK
  <1>8. process' # process
    BY <1>1
  <1>9. PICK w \in Workers : DropCommit(w)
    BY <1>4, <1>5, <1>6, <1>7, <1>8, Steps DEF MoveLoad, DropLoad, Arrival
  <1>10. p = job[w].process
    BY <1>1, <1>9 DEF DropCommit, DropRow, NoRow, Present
  <1>11. job[w].children = Children(p) /\ job[w].below = Below(p)
    BY <1>3, <1>9, <1>10 DEF DropCommit, ReadIsCurrent
  <1>12. process'[d] =
           [section |-> IF d \in Below(p) THEN Nothing ELSE process[d].section,
            parent |-> IF d \in Children(p) THEN Nothing ELSE process[d].parent]
    BY <1>9, <1>10, <1>11 DEF DropCommit, DropRow, Present
  <1>13. QED
    BY <1>12

-----------------------------------------------------------------------------
LEMMA Inductive == IInv /\ [Next]_vars => IInv'
  BY TypePreserved, ReadsPreserved, TreePreserved DEF IInv

LEMMA InvariantHolds == Spec => []IInv
  BY Initially, Inductive, PTL DEF Spec

(* For any number of processes and requests: until two requests overlap,   *)
(* no move closes a cycle, although a move only walks MaxHops steps up.    *)
THEOREM ProcessesAreForest == Spec => []Forest
  BY InvariantHolds, PTL DEF IInv

(* For any tree: until two requests overlap, deleting a process takes the  *)
(* section from everything below it and leaves the parents of the rest.    *)
THEOREM DeletionsDetach == Spec => DropsDetach
  <1> DEFINE Detaches ==
        \A p \in Present :
          (~lapped' /\ process'[p] = NoRow) =>
             \A d \in Present \ {p} :
               /\ d \in Below(p) => process'[d].section = Nothing
               /\ d \notin Children(p) => process'[d].parent = process[d].parent
  <1>1. IInv /\ [Next]_vars => [Detaches]_vars
    <2>1. ASSUME IInv, [Next]_vars PROVE Detaches
      BY <2>1, DropStep
    <2>2. QED
      BY <2>1
  <1>2. QED
    BY <1>1, InvariantHolds, PTL DEF Spec, DropsDetach
=============================================================================
