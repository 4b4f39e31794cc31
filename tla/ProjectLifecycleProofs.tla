----------------------- MODULE ProjectLifecycleProofs -----------------------
(***************************************************************************)
(* Theorems about ProjectLifecycle, for any catalog, any bounds and any    *)
(* number of transactions at one time: what holds however they interleave  *)
(* (IInv), what holds until two have overlapped (Serial), what a release   *)
(* mints, and that a project lives the life ProjectLife tells.             *)
(***************************************************************************)
EXTENDS ProjectLifecycle, FiniteSetTheorems, SequenceTheorems,
        WellFoundedInduction, TLAPS

-----------------------------------------------------------------------------
(* Sums.  The Functions module sums up a function over a finite set by a   *)
(* fold, which is a recursive function of sets: it has a solution, and a   *)
(* lemma about it takes the smallest set for which it would fail.          *)

(* A set of natural numbers has a least element.                           *)
LEMMA LeastNumber ==
  ASSUME NEW T \in SUBSET Nat, T # {}
  PROVE  \E x \in T : \A y \in T : x <= y
<1>1. PICK x \in T : \A y \in T : <<y, x>> \notin OpToRel(<, Nat)
  BY NatLessThanWellFounded, WFMin
<1>2. ASSUME NEW y \in T PROVE ~(y < x)
  <2> DEFINE pair == <<y, x>>
  <2>1. pair \in Nat \X Nat /\ pair[1] = y /\ pair[2] = x
    BY SMT
  <2>2. pair \notin OpToRel(<, Nat)
    BY <1>1
  <2> HIDE DEF pair
  <2>3. ~(pair[1] < pair[2])
    BY <2>1, <2>2, Zenon DEF OpToRel
  <2> QED BY <2>1, <2>3
<1> QED
  BY <1>2

(* One step of the recursion by which the Folds module sums up a function. *)
First(s) == CHOOSE x \in s : TRUE
SumBody(f, S, g) ==
    [s \in SUBSET S |-> IF s = {} THEN 0 ELSE f[First(s)] + g[s \ {First(s)}]]
Sums(f, S) == CHOOSE g : g = SumBody(f, S, g)

(* SumFunctionOnSet is that recursive function. *)
LEMMA SumUnfolds ==
  ASSUME NEW f, NEW S
  PROVE  SumFunctionOnSet(f, S) = Sums(f, S)[S]
  BY Zenon DEF SumFunctionOnSet, FoldFunctionOnSet, MapThenFoldSet, Sums, SumBody, First

(* The recursion has a solution: level by level, by cardinality. *)
LEMMA SumsExist ==
  ASSUME NEW S, IsFiniteSet(S), NEW f, \A x \in S : f[x] \in Nat
  PROVE  \E g : g = SumBody(f, S, g)
<1> DEFINE Level(n) == {s \in SUBSET S : Cardinality(s) <= n}
           Defined(n) == \E g : g = [s \in Level(n) |->
              IF s = {} THEN 0 ELSE f[First(s)] + g[s \ {First(s)}]]
           Bad == {n \in Nat : ~Defined(n)}
<1>0. \A s \in SUBSET S : IsFiniteSet(s) /\ Cardinality(s) \in Nat
  BY FS_Subset, FS_CardinalityType
<1>1. Defined(0)
  <2>1. \A s \in Level(0) : s = {}
    BY <1>0, FS_EmptySet
  <2>2. [s \in Level(0) |-> 0] = [s \in Level(0) |-> IF s = {} THEN 0
            ELSE f[First(s)] + [t \in Level(0) |-> 0][s \ {First(s)}]]
    BY <2>1
  <2> QED BY <2>2
<1>2. ASSUME NEW n \in Nat, n # 0, Defined(n - 1) PROVE Defined(n)
  <2>1. PICK g : g = [s \in Level(n - 1) |->
              IF s = {} THEN 0 ELSE f[First(s)] + g[s \ {First(s)}]]
    BY <1>2
  <2> DEFINE h == [s \in Level(n) |->
              IF s = {} THEN 0 ELSE f[First(s)] + g[s \ {First(s)}]]
  <2>2. ASSUME NEW s \in Level(n), s # {}
        PROVE  /\ First(s) \in s
               /\ s \ {First(s)} \in Level(n - 1)
               /\ s \ {First(s)} \in Level(n)
    <3>1. First(s) \in s
      BY <2>2 DEF First
    <3>2. Cardinality(s \ {First(s)}) = Cardinality(s) - 1
      BY <1>0, <3>1, FS_RemoveElement
    <3> QED BY <1>0, <3>1, <3>2
  <2>3. ASSUME NEW t \in Level(n - 1) PROVE t \in Level(n) /\ h[t] = g[t]
    <3>1. t \in Level(n)
      BY <1>0
    <3> QED BY <2>1, <3>1
  <2>4. h = [s \in Level(n) |->
              IF s = {} THEN 0 ELSE f[First(s)] + h[s \ {First(s)}]]
    <3>1. \A s \in Level(n) : s # {} => g[s \ {First(s)}] = h[s \ {First(s)}]
      BY <2>2, <2>3
    <3> QED BY <3>1, Zenon
  <2> QED BY <2>4
<1>3. Bad = {}
  <2>1. SUFFICES ASSUME Bad # {} PROVE FALSE
    OBVIOUS
  <2>2. PICK n \in Bad : \A m \in Bad : n <= m
    BY <2>1, LeastNumber
  <2> HIDE DEF Defined
  <2>3. n # 0 /\ n - 1 \in Nat
    BY <1>1, <2>2
  <2>4. n - 1 \notin Bad
    BY <2>2, <2>3
  <2> QED BY <1>2, <2>2, <2>3, <2>4
<1>4. Defined(Cardinality(S))
  <2> HIDE DEF Defined
  <2> QED BY <1>0, <1>3
<1>5. Level(Cardinality(S)) = SUBSET S
  BY FS_Subset
<1> QED
  BY <1>4, <1>5 DEF SumBody

(* What it computes for a set, from what it computes for smaller ones. *)
LEMMA SumsUnfold ==
  ASSUME NEW S, IsFiniteSet(S), NEW f, \A x \in S : f[x] \in Nat,
         NEW T \in SUBSET S
  PROVE  Sums(f, S)[T] =
           IF T = {} THEN 0 ELSE f[First(T)] + Sums(f, S)[T \ {First(T)}]
<1>1. Sums(f, S) = SumBody(f, S, Sums(f, S))
  BY SumsExist DEF Sums
<1>2. SumBody(f, S, Sums(f, S))[T] =
        IF T = {} THEN 0 ELSE f[First(T)] + Sums(f, S)[T \ {First(T)}]
  BY Zenon DEF SumBody
<1> QED
  BY <1>1, <1>2

(* Sets of sets that are not empty have a smallest one. *)
LEMMA SmallestSet ==
  ASSUME NEW S, IsFiniteSet(S), NEW Bad \in SUBSET SUBSET S, Bad # {}
  PROVE  \E s \in Bad : \A x \in s : s \ {x} \notin Bad
<1> DEFINE sizes == {Cardinality(s) : s \in Bad}
<1>0. \A s \in SUBSET S : IsFiniteSet(s) /\ Cardinality(s) \in Nat
  BY FS_Subset, FS_CardinalityType
<1>1. PICK n \in sizes : \A m \in sizes : n <= m
  <2>1. sizes \in SUBSET Nat /\ sizes # {}
    BY <1>0
  <2> QED BY <2>1, LeastNumber
<1>2. PICK s \in Bad : n = Cardinality(s)
  BY <1>1
<1>3. ASSUME NEW x \in s PROVE s \ {x} \notin Bad
  <2>1. Cardinality(s \ {x}) = n - 1 /\ n \in Nat
    BY <1>0, <1>2, FS_RemoveElement
  <2>2. s \ {x} \in Bad => n <= n - 1
    BY <1>1, <2>1
  <2> QED BY <2>1, <2>2
<1> QED
  BY <1>3

(* All its values are natural numbers. *)
LEMMA SumsAreNat ==
  ASSUME NEW S, IsFiniteSet(S), NEW f, \A x \in S : f[x] \in Nat
  PROVE  \A T \in SUBSET S : Sums(f, S)[T] \in Nat
<1> DEFINE Bad == {T \in SUBSET S : Sums(f, S)[T] \notin Nat}
<1>1. SUFFICES ASSUME Bad # {} PROVE FALSE
  OBVIOUS
<1>2. PICK s \in Bad : \A x \in s : s \ {x} \notin Bad
  <2>1. Bad \in SUBSET SUBSET S
    OBVIOUS
  <2> HIDE DEF Bad
  <2> QED BY <1>1, <2>1, SmallestSet
<1>3. s # {} => First(s) \in s
  BY DEF First
<1>4. s # {} => f[First(s)] \in Nat /\ Sums(f, S)[s \ {First(s)}] \in Nat
  BY <1>2, <1>3
<1>5. Sums(f, S)[s] =
        IF s = {} THEN 0 ELSE f[First(s)] + Sums(f, S)[s \ {First(s)}]
  BY SumsUnfold
<1> DEFINE chosen == f[First(s)]
           rest == Sums(f, S)[s \ {First(s)}]
<1>6. Sums(f, S)[s] = 0 \/ (chosen \in Nat /\ rest \in Nat
                           /\ Sums(f, S)[s] = chosen + rest)
  BY <1>4, <1>5
<1> HIDE DEF chosen, rest
<1> QED
  BY <1>6

(* They depend on the function within the set alone. *)
LEMMA SumsAgree ==
  ASSUME NEW S, IsFiniteSet(S), NEW f, \A x \in S : f[x] \in Nat,
         NEW U, IsFiniteSet(U), NEW g, \A x \in U : g[x] \in Nat,
         NEW T \in (SUBSET S) \cap SUBSET U, \A x \in T : f[x] = g[x]
  PROVE  Sums(f, S)[T] = Sums(g, U)[T]
<1> DEFINE Bad == {s \in SUBSET T : Sums(f, S)[s] # Sums(g, U)[s]}
<1>1. SUFFICES ASSUME Bad # {} PROVE FALSE
  OBVIOUS
<1>2. PICK s \in Bad : \A x \in s : s \ {x} \notin Bad
  <2>1. Bad \in SUBSET SUBSET T /\ IsFiniteSet(T)
    BY FS_Subset
  <2> HIDE DEF Bad
  <2> QED BY <1>1, <2>1, SmallestSet
<1>3. s # {} => First(s) \in s
  BY DEF First
<1>4. s # {} => /\ f[First(s)] = g[First(s)]
                /\ Sums(f, S)[s \ {First(s)}] = Sums(g, U)[s \ {First(s)}]
  BY <1>2, <1>3
<1>5. s \in SUBSET S /\ s \in SUBSET U
  OBVIOUS
<1>6. /\ Sums(f, S)[s] =
           IF s = {} THEN 0 ELSE f[First(s)] + Sums(f, S)[s \ {First(s)}]
      /\ Sums(g, U)[s] =
           IF s = {} THEN 0 ELSE g[First(s)] + Sums(g, U)[s \ {First(s)}]
  BY <1>5, SumsUnfold
<1>7. Sums(f, S)[s] = Sums(g, U)[s]
  BY <1>4, <1>6, Zenon
<1> QED
  BY <1>7

(* Whichever element is taken off, and not only the one the fold chooses.  *)
LEMMA SumsRemove ==
  ASSUME NEW S, IsFiniteSet(S), NEW f, \A x \in S : f[x] \in Nat,
         NEW T \in SUBSET S, NEW e \in T
  PROVE  Sums(f, S)[T] = f[e] + Sums(f, S)[T \ {e}]
<1> DEFINE G == Sums(f, S)
           Bad == {s \in SUBSET S : \E x \in s : G[s] # f[x] + G[s \ {x}]}
<1>1. SUFFICES ASSUME Bad # {} PROVE FALSE
  OBVIOUS
<1>2. PICK s \in Bad : \A x \in s : s \ {x} \notin Bad
  <2>1. Bad \in SUBSET SUBSET S
    OBVIOUS
  <2> HIDE DEF Bad
  <2> QED BY <1>1, <2>1, SmallestSet
<1>3. PICK x \in s : G[s] # f[x] + G[s \ {x}]
  OBVIOUS
<1> DEFINE y == First(s)
<1>4. y \in s /\ s \in SUBSET S
  BY DEF First
<1>5. G[s] = f[y] + G[s \ {y}]
  BY <1>4, SumsUnfold
<1> HIDE DEF y, G
<1>6. x # y
  BY <1>3, <1>5
<1>7. /\ G[s \ {y}] = f[x] + G[(s \ {y}) \ {x}]
      /\ G[s \ {x}] = f[y] + G[(s \ {x}) \ {y}]
  <2>1. s \ {y} \notin Bad /\ s \ {x} \notin Bad
    BY <1>2, <1>4
  <2> QED BY <1>4, <1>6, <2>1
<1> DEFINE rest == G[(s \ {x}) \ {y}]
<1>8. G[(s \ {y}) \ {x}] = rest
  <2>1. (s \ {y}) \ {x} = (s \ {x}) \ {y}
    OBVIOUS
  <2> QED BY <2>1, Zenon
<1>9. f[x] \in Nat /\ f[y] \in Nat /\ rest \in Nat
  <2>1. (s \ {x}) \ {y} \in SUBSET S
    BY <1>4
  <2> QED BY <1>4, <2>1, SumsAreNat DEF G
<1> DEFINE a == f[x]
           b == f[y]
<1>10. G[s] = b + (a + rest) /\ G[s] # a + (b + rest)
  BY <1>3, <1>5, <1>7, <1>8, Zenon
<1>11. a \in Nat /\ b \in Nat
  BY <1>9
<1> HIDE DEF a, b, rest
<1> QED
  BY <1>9, <1>10, <1>11

(* The sum of natural numbers is one. *)
LEMMA SumIsNat ==
  ASSUME NEW f, IsFiniteSet(DOMAIN f), \A x \in DOMAIN f : f[x] \in Nat
  PROVE  SumFunction(f) \in Nat
  BY SumUnfolds, SumsAreNat DEF SumFunction

(* The sum of nothing is zero. *)
LEMMA SumOfNone == SumFunction(<<>>) = 0
<1>1. DOMAIN <<>> = {} /\ IsFiniteSet({})
  BY FS_EmptySet
<1>2. Sums(<<>>, {}) = SumBody(<<>>, {}, Sums(<<>>, {}))
  BY <1>1, SumsExist DEF Sums
<1>3. Sums(<<>>, {})[{}] = 0
  BY <1>2 DEF SumBody
<1> QED
  BY <1>1, <1>3, SumUnfolds DEF SumFunction

(* Sequences: the sum of one more. *)
LEMMA SumOneMore ==
  ASSUME NEW n \in Nat, NEW f, NEW g,
         DOMAIN f = 1..(n + 1), DOMAIN g = 1..n,
         \A i \in 1..(n + 1) : f[i] \in Nat,
         \A i \in 1..n : g[i] = f[i]
  PROVE  SumFunction(f) = SumFunction(g) + f[n + 1]
<1>1. IsFiniteSet(1..(n + 1)) /\ IsFiniteSet(1..n)
  BY FS_Interval
<1>2. /\ 1..n \in SUBSET (1..(n + 1)) /\ n + 1 \in 1..(n + 1)
      /\ (1..(n + 1)) \ {n + 1} = 1..n
      /\ 1..(n + 1) \in SUBSET (1..(n + 1))
  OBVIOUS
<1>3. \A i \in 1..n : g[i] \in Nat
  BY <1>2
<1>4. Sums(f, 1..(n + 1))[1..(n + 1)] = f[n + 1] + Sums(f, 1..(n + 1))[1..n]
  <2> DEFINE S == 1..(n + 1)
  <2>1. IsFiniteSet(S) /\ S \in SUBSET S /\ n + 1 \in S /\ S \ {n + 1} = 1..n
    BY <1>1, <1>2
  <2>2. \A x \in S : f[x] \in Nat
    OBVIOUS
  <2> HIDE DEF S
  <2>3. Sums(f, S)[S] = f[n + 1] + Sums(f, S)[S \ {n + 1}]
    BY <2>1, <2>2, SumsRemove
  <2> QED BY <2>1, <2>3 DEF S
<1>5. Sums(f, 1..(n + 1))[1..n] = Sums(g, 1..n)[1..n]
  BY <1>1, <1>2, <1>3, SumsAgree
<1>6. Sums(g, 1..n)[1..n] \in Nat /\ f[n + 1] \in Nat
  BY <1>1, <1>2, <1>3, SumsAreNat
<1> QED
  BY <1>4, <1>5, <1>6, SumUnfolds DEF SumFunction

(* All but the last of a sequence. *)
LEMMA ButLast ==
  ASSUME NEW s \in Seq(Nat), NEW n \in Nat, Len(s) = n + 1
  PROVE  /\ [i \in 1..n |-> s[i]] \in Seq(Nat)
         /\ Len([i \in 1..n |-> s[i]]) = n
         /\ s[n + 1] \in Nat
         /\ SumFunction(s) = SumFunction([i \in 1..n |-> s[i]]) + s[n + 1]
<1> DEFINE g == [i \in 1..n |-> s[i]]
<1>1. g \in Seq(Nat) /\ Len(g) = n
  OBVIOUS
<1>2. DOMAIN s = 1..(n + 1) /\ \A i \in 1..(n + 1) : s[i] \in Nat
  OBVIOUS
<1>3. DOMAIN g = 1..n /\ \A i \in 1..n : g[i] = s[i]
  OBVIOUS
<1> HIDE DEF g
<1>4. SumFunction(s) = SumFunction(g) + s[n + 1] /\ s[n + 1] \in Nat
  BY <1>2, <1>3, SumOneMore
<1> QED
  BY <1>1, <1>4 DEF g

LEMMA SumOfSeq ==
  ASSUME NEW s \in Seq(Nat)
  PROVE  SumFunction(s) \in Nat
<1>1. DOMAIN s = 1..Len(s) /\ Len(s) \in Nat /\ \A i \in DOMAIN s : s[i] \in Nat
  OBVIOUS
<1>2. IsFiniteSet(DOMAIN s)
  BY <1>1, FS_Interval
<1> QED
  BY <1>1, <1>2, SumIsNat

(* A shortest sequence for which something would fail is not empty when    *)
(* the empty sequence is none.                                             *)
LEMMA ShortestSeq ==
  ASSUME NEW Bad \in SUBSET Seq(Nat), Bad # {}, <<>> \notin Bad
  PROVE  \E s \in Bad, n \in Nat :
           /\ Len(s) = n + 1
           /\ [i \in 1..n |-> s[i]] \notin Bad
<1> DEFINE lengths == {Len(s) : s \in Bad}
<1>1. PICK m \in lengths : \A k \in lengths : m <= k
  <2>1. lengths \in SUBSET Nat
    OBVIOUS
  <2>2. lengths # {}
    BY Zenon
  <2> QED BY <2>1, <2>2, LeastNumber
<1>2. PICK s \in Bad : m = Len(s)
  BY <1>1
<1>3. m \in Nat /\ m # 0
  BY <1>2
<1>4. m - 1 \in Nat /\ Len(s) = (m - 1) + 1
  BY <1>2, <1>3
<1> DEFINE g == [i \in 1..(m - 1) |-> s[i]]
<1>5. Len(g) = m - 1
  BY <1>4, ButLast
<1> HIDE DEF g
<1>6. g \notin Bad
  <2>1. g \in Bad => Len(g) \in lengths
    BY Zenon
  <2> HIDE DEF lengths
  <2> QED BY <1>1, <1>3, <1>5, <2>1
<1> QED
  BY <1>4, <1>6 DEF g

(* Sums of sequences add up. *)
LEMMA SumOfConcat ==
  ASSUME NEW s \in Seq(Nat), NEW t \in Seq(Nat)
  PROVE  SumFunction(s \o t) = SumFunction(s) + SumFunction(t)
<1> DEFINE Bad == {u \in Seq(Nat) : SumFunction(s \o u) # SumFunction(s) + SumFunction(u)}
<1>1. SUFFICES ASSUME Bad # {} PROVE FALSE
  OBVIOUS
<1>2. <<>> \notin Bad
  <2>1. s \o <<>> = s
    OBVIOUS
  <2> QED BY <2>1, SumOfNone, SumOfSeq
<1>3. PICK u \in Bad, n \in Nat : Len(u) = n + 1 /\ [i \in 1..n |-> u[i]] \notin Bad
  <2>1. Bad \in SUBSET Seq(Nat)
    OBVIOUS
  <2> HIDE DEF Bad
  <2> QED BY <1>1, <1>2, <2>1, ShortestSeq
<1> DEFINE g == [i \in 1..n |-> u[i]]
<1>4. /\ g \in Seq(Nat) /\ Len(g) = n /\ u[n + 1] \in Nat
      /\ SumFunction(u) = SumFunction(g) + u[n + 1]
  BY <1>3, ButLast
<1>5. \A i \in 1..n : g[i] = u[i]
  OBVIOUS
<1> HIDE DEF g
<1>6. SumFunction(s \o g) = SumFunction(s) + SumFunction(g)
  BY <1>3, <1>4 DEF g
<1> DEFINE m == Len(s) + n
<1>7. SumFunction(s \o u) = SumFunction(s \o g) + u[n + 1]
  <2>1. m \in Nat /\ DOMAIN (s \o u) = 1..(m + 1) /\ DOMAIN (s \o g) = 1..m
    <3>1. Len(s \o u) = Len(s) + Len(u) /\ Len(s \o g) = Len(s) + Len(g)
          /\ Len(s) \in Nat /\ s \o u \in Seq(Nat) /\ s \o g \in Seq(Nat)
      <4>1. u \in Seq(Nat) /\ g \in Seq(Nat)
        BY <1>4
      <4> HIDE DEF Bad
      <4> QED BY <4>1
    <3>2. Len(s \o u) = m + 1 /\ Len(s \o g) = m /\ m \in Nat
      BY <1>3, <1>4, <3>1
    <3> HIDE DEF m
    <3> QED BY <3>1, <3>2
  <2>2. \A i \in 1..(m + 1) : (s \o u)[i] \in Nat
    BY <1>3
  <2>3. \A i \in 1..m : (s \o g)[i] = (s \o u)[i]
    <3>1. u \in Seq(Nat) /\ Len(u) = n + 1
      BY <1>3
    <3>2. SUFFICES ASSUME NEW i \in 1..m PROVE (s \o g)[i] = (s \o u)[i]
      OBVIOUS
    <3> HIDE DEF Bad
    <3>3. CASE i <= Len(s)
      BY <1>4, <3>1, <3>3
    <3>4. CASE i > Len(s)
      <4>1. i - Len(s) \in 1..n
        BY <3>4
      <4>2. (s \o g)[i] = g[i - Len(s)]
        BY <1>4, <3>1, <3>4
      <4>3. (s \o u)[i] = u[i - Len(s)]
        BY <1>4, <3>1, <3>4
      <4> QED BY <1>5, <4>1, <4>2, <4>3
    <3>5. i <= Len(s) \/ i > Len(s)
      <4>1. i \in Int /\ Len(s) \in Int
        OBVIOUS
      <4> HIDE DEF m
      <4> QED BY <4>1
    <3> QED BY <3>3, <3>4, <3>5, Zenon
  <2>4. (s \o u)[m + 1] = u[n + 1]
    BY <1>3
  <2> HIDE DEF m
  <2> QED BY <2>1, <2>2, <2>3, <2>4, SumOneMore
<1> QED
  BY <1>4, <1>6, <1>7, SumOfSeq

LEMMA OneMoreTimes == \A a, b \in Nat : (a + 1) * b = a * b + b /\ a * b \in Nat
  BY Z3

(* A sum of numbers that are all at least m. *)
LEMMA SumAtLeast ==
  ASSUME NEW s \in Seq(Nat), NEW m \in Nat, \A k \in DOMAIN s : s[k] >= m
  PROVE  SumFunction(s) >= Len(s) * m
<1> DEFINE Large(u) == \A k \in DOMAIN u : u[k] >= m
           Bad == {u \in Seq(Nat) : Large(u) /\ ~(SumFunction(u) >= Len(u) * m)}
<1>1. SUFFICES ASSUME Bad # {} PROVE FALSE
  OBVIOUS
<1>2. <<>> \notin Bad
  <2>1. Len(<<>>) = 0 /\ 0 * m = 0
    OBVIOUS
  <2> QED BY <2>1, SumOfNone
<1>3. PICK u \in Bad, n \in Nat : Len(u) = n + 1 /\ [i \in 1..n |-> u[i]] \notin Bad
  <2>1. Bad \in SUBSET Seq(Nat)
    OBVIOUS
  <2> HIDE DEF Bad
  <2> QED BY <1>1, <1>2, <2>1, ShortestSeq
<1> DEFINE g == [i \in 1..n |-> u[i]]
<1>4. /\ g \in Seq(Nat) /\ Len(g) = n /\ u[n + 1] \in Nat
      /\ SumFunction(u) = SumFunction(g) + u[n + 1]
  BY <1>3, ButLast
<1>5. Large(g) /\ u[n + 1] >= m
  <2>1. DOMAIN u = 1..(n + 1) /\ n + 1 \in 1..(n + 1)
        /\ \A i \in 1..n : i \in 1..(n + 1)
    BY <1>3
  <2>2. \A k \in 1..(n + 1) : u[k] >= m
    BY <2>1
  <2>3. DOMAIN g = 1..n /\ \A k \in 1..n : g[k] = u[k]
    OBVIOUS
  <2> HIDE DEF g
  <2> QED BY <2>1, <2>2, <2>3
<1> HIDE DEF g
<1>6. SumFunction(g) >= n * m
  BY <1>3, <1>4, <1>5 DEF g
<1>7. (n + 1) * m = n * m + m /\ n * m \in Nat
  BY OneMoreTimes
<1>8. SumFunction(u) >= (n + 1) * m
  <2> DEFINE total == SumFunction(u)
             rest == SumFunction(g)
             less == n * m
             more == (n + 1) * m
  <2>1. rest \in Nat
    BY <1>4, SumOfSeq
  <2>2. total = rest + u[n + 1] /\ rest >= less /\ more = less + m /\ less \in Nat
    BY <1>4, <1>6, <1>7
  <2> HIDE DEF total, rest, less, more
  <2>3. total >= more
    BY <1>4, <1>5, <2>1, <2>2
  <2> QED BY <2>3 DEF total, more
<1> QED
  BY <1>3, <1>8
-----------------------------------------------------------------------------

(* Plans are made of parts of the required models; "rows" never runs ahead *)
(* of the version.                                                         *)
PlanIsCoherent ==
    /\ project.status = "NONE" => project.version = 0
    /\ Alive => /\ plan.rows <= project.version
                /\ plan.parts \subseteq Snapshot(DOMAIN plan.required)

(* Packs belong to parts of the plan. *)
PacksBelong == \A p \in Parts : Packed(p) => Alive /\ p \in plan.parts

HasRows == {"replacing", "route", "override", "remove", "releasing", "minting"}

(* What the transaction of w has read of the plan's rows is not newer than *)
(* the plan.                                                               *)
RowsAreOld(w) == job[w].pc \in HasRows => job[w].rows <= project.version

(* A release read at least one part, and all there are unless the rows     *)
(* have been replaced.                                                     *)
ReleasesAll(w) ==
    job[w].pc = "releasing" =>
      /\ job[w].parts # {}
      /\ job[w].parts \subseteq Snapshot(DOMAIN job[w].required)
      /\ Alive /\ SameRows(w) => plan.parts \subseteq job[w].parts

(* Then it mints something for each of them that has no packs, and         *)
(* something at all if they were replaced.                                 *)
MintsAll(w) ==
    job[w].pc = "minting" =>
      /\ \/ \E p \in Parts : job[w].trays[p] # <<>>
         \/ Alive /\ SameRows(w) /\ \E p \in Parts : Packed(p)
      /\ Alive /\ SameRows(w) =>
           \A p \in plan.parts : job[w].trays[p] # <<>> \/ Packed(p)

OnFloor == project.status \in {"RELEASED", "COMPLETED"}

(* A project being completed does not leave the floor. *)
CompletesReleased(w) == job[w].pc = "complete" => OnFloor

JobIsGrounded(w) ==
    RowsAreOld(w) /\ ReleasesAll(w) /\ MintsAll(w) /\ CompletesReleased(w)

ProjectRow ==
    [status: {"NONE", "DRAFT", "RELEASED", "COMPLETED", "DELETED"},
     version: Nat, product: Products \cup {NoProduct}]

TablesTyped ==
    /\ project \in ProjectRow
    /\ Alive => plan \in Plan /\ lot \in Lot
    /\ routes \in Seq([Parts -> SUBSET Stations])
    /\ packs \in [Parts -> Seq(Nat \ {0})]

TablesInv ==
    TablesTyped /\ PlanIsCoherent /\ PacksBelong /\ ReleasedHasPacks

IInv ==
    /\ TablesInv
    /\ job \in [Workers -> Job]
    /\ \A w \in Workers : JobIsGrounded(w)
-----------------------------------------------------------------------------
(* Data. *)

LEMMA RequirementsType ==
  ASSUME NEW r
  PROVE  r \in Requirements <=>
           DOMAIN r \in SUBSET Models /\ r \in [DOMAIN r -> Quantities]
  BY DEF Requirements

(* The sum of a requirement set is a natural number. *)
LEMMA TotalType ==
  ASSUME NEW r \in Requirements
  PROVE  Total(r) \in Nat
<1>1. DOMAIN r \in SUBSET Models /\ r \in [DOMAIN r -> Quantities]
  BY RequirementsType
<1>2. IsFiniteSet(DOMAIN r)
  BY <1>1, CatalogAssumption, FS_Subset
<1>3. \A m \in DOMAIN r : r[m] \in Nat
  BY <1>1, QuantityAssumption
<1> QED
  BY <1>2, <1>3, SumIsNat DEF Total

(* So is the number of packs, of the plan or of a release. *)
LEMMA CountType ==
  ASSUME NEW seqs, NEW S, seqs \in [Parts -> Seq(S)]
  PROVE  SumFunction([p \in Parts |-> Len(seqs[p])]) \in Nat
<1> DEFINE f == [p \in Parts |-> Len(seqs[p])]
<1>1. DOMAIN f = Parts /\ \A p \in Parts : f[p] \in Nat
  OBVIOUS
<1> HIDE DEF f
<1>2. SumFunction(f) \in Nat
  BY <1>1, CatalogAssumption, SumIsNat
<1> QED
  BY <1>2 DEF f

LEMMA SeqSumType ==
  ASSUME NEW s \in Seq(Nat \ {0})
  PROVE  SumFunction(s) \in Nat
<1>1. DOMAIN s = 1..Len(s) /\ Len(s) \in Nat /\ \A i \in DOMAIN s : s[i] \in Nat
  OBVIOUS
<1>2. IsFiniteSet(DOMAIN s)
  BY <1>1, FS_Interval
<1> QED
  BY <1>1, <1>2, SumIsNat

LEMMA MaxOfTwo ==
  ASSUME NEW a \in Int, NEW b \in Int
  PROVE  Max({a, b}) = IF a >= b THEN a ELSE b
  BY DEF Max

LEMMA MinOfTwo ==
  ASSUME NEW a \in Int, NEW b \in Int
  PROVE  Min({a, b}) = IF a <= b THEN a ELSE b
  BY DEF Min

LEMMA CeilingType ==
  ASSUME NEW a \in Nat, NEW b \in Nat \ {0}
  PROVE  /\ Ceiling(a, b) \in Nat
         /\ a > 0 => Ceiling(a, b) >= 1
         /\ \A t \in Nat \ {0} : t <= Ceiling(a, b) => (t - 1) * b < a
  BY Z3 DEF Ceiling

(* Trays are not empty, and a part without packs gets at least one.        *)
LEMMA TraysType ==
  ASSUME NEW required \in Nat \ {0}, NEW size \in Nat \ {0},
         NEW planned \in Seq(Nat \ {0})
  PROVE  /\ Trays(required, size, planned) \in Seq(Nat \ {0})
         /\ planned = <<>> => Trays(required, size, planned) # <<>>
<1> DEFINE left == Max({0, required - SumFunction(planned)})
           series == Max({1, Ceiling(required, size)})
           count == Max({0, Min({Ceiling(left, size), series - Len(planned)})})
           tray(t) == Min({size, left - (t - 1) * size})
<1>1. left \in Nat /\ (planned = <<>> => left = required)
  BY SeqSumType, SumOfNone, MaxOfTwo
<1>2. series \in Nat /\ series >= 1
  <2>1. Ceiling(required, size) \in Nat
    BY CeilingType
  <2> HIDE DEF series
  <2>2. series = IF 1 >= Ceiling(required, size) THEN 1
                 ELSE Ceiling(required, size)
    BY <2>1, MaxOfTwo DEF series
  <2> QED BY <2>1, <2>2
<1> HIDE DEF left, series
<1>3. Ceiling(left, size) \in Nat
  BY <1>1, CeilingType
<1>4. /\ count \in Nat
      /\ count # 0 => count <= Ceiling(left, size)
      /\ planned = <<>> => count >= 1
  <2> DEFINE c == Ceiling(left, size)
             rest == series - Len(planned)
  <2>1. c \in Nat /\ rest \in Int /\ (planned = <<>> => c >= 1 /\ rest >= 1)
    BY <1>1, <1>2, <1>3, CeilingType
  <2> HIDE DEF c, rest
  <2>2. Min({c, rest}) = IF c <= rest THEN c ELSE rest
    BY <2>1, MinOfTwo
  <2> DEFINE least == Min({c, rest})
  <2>3. least \in Int /\ least <= c /\ least <= rest /\ least \in {c, rest}
    BY <2>1, <2>2
  <2> HIDE DEF least
  <2>4. Max({0, least}) = IF 0 >= least THEN 0 ELSE least
    BY <2>3, MaxOfTwo
  <2>5. count = Max({0, least})
    BY DEF least, c, rest
  <2> HIDE DEF count
  <2>6. /\ count \in Nat
        /\ count # 0 => count <= c
        /\ planned = <<>> => count >= 1
    BY <2>1, <2>3, <2>4, <2>5
  <2> QED BY <2>6 DEF c
<1> HIDE DEF count
<1>5. ASSUME NEW t \in 1..count PROVE tray(t) \in Nat \ {0}
  <2>1. (t - 1) * size < left /\ (t - 1) * size \in Nat
    <3>1. t \in Nat \ {0} /\ t <= Ceiling(left, size)
      BY <1>3, <1>4
    <3>2. (t - 1) * size < left
      BY <1>1, <3>1, CeilingType
    <3>3. \A a, b \in Nat : a * b \in Nat
      BY Z3
    <3>4. t - 1 \in Nat /\ size \in Nat
      BY <3>1
    <3> QED BY <3>2, <3>3, <3>4, Zenon
  <2> DEFINE before == (t - 1) * size
  <2> HIDE DEF before
  <2>2. Min({size, left - before}) =
          IF size <= left - before THEN size ELSE left - before
    BY <1>1, <2>1, MinOfTwo DEF before
  <2> QED BY <1>1, <2>1, <2>2 DEF before
<1> DEFINE trays == [t \in 1..count |-> tray(t)]
<1>6. trays \in Seq(Nat \ {0}) /\ (count >= 1 => trays # <<>>)
  <2> HIDE DEF tray
  <2>1. trays \in [1..count -> Nat \ {0}]
    BY <1>5
  <2>2. count >= 1 => 1 \in DOMAIN trays
    BY <1>4
  <2>3. DOMAIN << >> = {}
    OBVIOUS
  <2> HIDE DEF trays
  <2> QED BY <1>4, <2>1, <2>2, <2>3
<1>7. Trays(required, size, planned) = trays
  BY Zenon DEF Trays, left, series, count
<1> HIDE DEF trays
<1> QED
  BY <1>4, <1>6, <1>7
-----------------------------------------------------------------------------
(* Transactions. *)

(* The shape of a transaction by where it is. *)
LEMMA JobShape ==
  ASSUME NEW tx \in Job
  PROVE  /\ tx.pc = "replace" => tx.required \in Requirements
         /\ tx.pc = "replacing" => /\ tx.required \in Requirements
                                   /\ tx.prior \in Requirements
                                   /\ tx.rows \in Nat
         /\ tx.pc = "route" => tx.rows \in Nat
         /\ tx.pc \in {"override", "remove"} => tx.rows \in Nat /\ tx.part \in Parts
         /\ tx.pc = "releasing" =>
              /\ tx.rows \in Nat /\ tx.parts \in SUBSET Parts
              /\ tx.required \in Requirements /\ tx.packSize \in PackSizes
              /\ tx.count \in Nat
         /\ tx.pc = "minting" =>
              /\ tx.rows \in Nat /\ tx.count \in Nat
              /\ tx.trays \in [Parts -> Seq(Nat \ {0})]
  BY DEF Job, Idle

(* A transaction stays grounded while its plan loses parts and gains packs,*)
LEMMA StaysGrounded ==
  ASSUME NEW v, JobIsGrounded(v), job'[v] = job[v], job[v] \in Job,
         project.version \in Nat, project'.version \in Nat,
         project'.version >= project.version,
         Alive => plan.parts \subseteq Parts, OnFloor => OnFloor',
         Alive' => Alive /\ plan'.rows = plan.rows /\ plan'.parts \subseteq plan.parts,
         \A p \in Parts : Packed(p) => Packed(p)' /\ Alive'
  PROVE  JobIsGrounded(v)'
<1>1. RowsAreOld(v)'
  <2>1. job[v].pc \in HasRows => job[v].rows \in Nat
    BY JobShape DEF HasRows
  <2> QED BY <2>1 DEF JobIsGrounded, RowsAreOld
<1>2. ReleasesAll(v)'
  BY DEF JobIsGrounded, ReleasesAll, SameRows, Snapshot
<1>3. MintsAll(v)'
  <2>1. SUFFICES ASSUME job[v].pc = "minting"
                 PROVE  MintsAll(v)'
    BY DEF MintsAll
  <2>2. Alive' /\ SameRows(v)' => Alive /\ SameRows(v)
    BY DEF SameRows
  <2>3. Alive' /\ SameRows(v)' =>
          \A p \in plan'.parts : job[v].trays[p] # <<>> \/ Packed(p)'
    <3>1. SUFFICES ASSUME Alive' /\ SameRows(v)', NEW p \in plan'.parts
                   PROVE  job[v].trays[p] # <<>> \/ Packed(p)'
      BY Zenon
    <3>2. p \in plan.parts /\ p \in Parts
      BY <2>2, <3>1
    <3> QED BY <2>1, <2>2, <3>1, <3>2 DEF JobIsGrounded, MintsAll, Packed
  <2>4. \/ \E p \in Parts : job[v].trays[p] # <<>>
        \/ Alive' /\ SameRows(v)' /\ \E p \in Parts : Packed(p)'
    <3>1. CASE \E p \in Parts : job[v].trays[p] # <<>>
      BY <3>1
    <3>2. CASE Alive /\ SameRows(v) /\ \E p \in Parts : Packed(p)
      <4>1. PICK p \in Parts : Packed(p)
        BY <3>2
      <4>2. Packed(p)' /\ Alive'
        BY <4>1
      <4>3. SameRows(v)'
        BY <3>2, <4>2 DEF SameRows
      <4> QED BY <4>2, <4>3
    <3> QED BY <2>1, <3>1, <3>2 DEF JobIsGrounded, MintsAll
  <2> QED BY <2>3, <2>4 DEF MintsAll
<1>4. CompletesReleased(v)'
  BY DEF JobIsGrounded, CompletesReleased
<1> QED
  BY <1>1, <1>2, <1>3, <1>4 DEF JobIsGrounded

(* and when its plan, without packs, is replaced.                          *)
LEMMA StaysGroundedWhenReplaced ==
  ASSUME NEW v, JobIsGrounded(v), job'[v] = job[v], job[v] \in Job,
         project.version \in Nat, project'.version \in Nat,
         project'.version > project.version,
         plan'.rows = project.version + 1, ~OnFloor,
         \A p \in Parts : ~Packed(p)
  PROVE  JobIsGrounded(v)'
<1>1. job[v].pc \in HasRows => job[v].rows \in Nat
  BY JobShape DEF HasRows
<1>2. RowsAreOld(v)'
  BY <1>1 DEF JobIsGrounded, RowsAreOld
<1>3. job[v].pc \in HasRows => ~SameRows(v)'
  BY <1>1 DEF JobIsGrounded, RowsAreOld, SameRows
<1>4. ReleasesAll(v)'
  BY <1>3 DEF JobIsGrounded, ReleasesAll, HasRows, Snapshot
<1>5. MintsAll(v)'
  BY <1>3 DEF JobIsGrounded, MintsAll, HasRows
<1>6. CompletesReleased(v)'
  BY DEF JobIsGrounded, CompletesReleased
<1> QED
  BY <1>2, <1>4, <1>5, <1>6 DEF JobIsGrounded

(* A step that only moves a transaction on. *)
LEMMA JobStep ==
  ASSUME IInv, NEW w \in Workers, NEW tx \in Job,
         job' = [job EXCEPT ![w] = tx], UNCHANGED tables,
         JobIsGrounded(w)'
  PROVE  IInv'
<1>1. TablesInv'
  BY DEF IInv, tables, TablesInv, TablesTyped, PlanIsCoherent, PacksBelong,
         ReleasedHasPacks, Alive, Packed, Snapshot
<1>2. job' \in [Workers -> Job]
  BY DEF IInv
<1>3. ASSUME NEW v \in Workers, v # w PROVE JobIsGrounded(v)'
  <2>1. JobIsGrounded(v) /\ job'[v] = job[v] /\ job[v] \in Job
    BY <1>3 DEF IInv
  <2>2. project.version \in Nat /\ project' = project /\ plan' = plan /\ packs' = packs
    BY DEF IInv, TablesInv, TablesTyped, ProjectRow, tables
  <2>3. \A p \in Parts : Packed(p) => Packed(p)' /\ Alive'
    BY <2>2 DEF IInv, TablesInv, PacksBelong, Packed, Alive
  <2>4. Alive' => Alive /\ plan'.rows = plan.rows /\ plan'.parts \subseteq plan.parts
    BY <2>2 DEF Alive
  <2>5. Alive => plan.parts \subseteq Parts
    BY DEF IInv, TablesInv, TablesTyped, Plan
  <2>6. OnFloor => OnFloor'
    BY <2>2 DEF OnFloor
  <2> QED BY <2>1, <2>2, <2>3, <2>4, <2>5, <2>6, StaysGrounded
<1> QED
  BY <1>1, <1>2, <1>3 DEF IInv

(* The last step of a transaction. *)
LEMMA LastStep ==
  ASSUME IInv, NEW w \in Workers, job' = [job EXCEPT ![w] = Idle],
         TablesInv',
         \A v \in Workers \ {w} : job'[v] = job[v] => JobIsGrounded(v)'
  PROVE  IInv'
<1>1. job' \in [Workers -> Job] /\ job'[w] = Idle
  BY DEF IInv, Job
<1>2. JobIsGrounded(w)'
  BY <1>1 DEF JobIsGrounded, RowsAreOld, ReleasesAll, MintsAll,
     CompletesReleased, HasRows, Idle
<1>3. \A v \in Workers \ {w} : job'[v] = job[v]
  BY DEF IInv
<1> QED
  BY <1>1, <1>2, <1>3 DEF IInv

LEMMA Typing ==
  ASSUME IInv
  PROVE  /\ project \in ProjectRow /\ project.version \in Nat
         /\ Alive => /\ plan.rows \in Nat /\ plan.parts \subseteq Parts
                     /\ plan.required \in Requirements
                     /\ plan.override \in [Parts -> SUBSET Stations]
                     /\ lot.packSize \in PackSizes
                     /\ plan \in Plan /\ lot \in Lot
         /\ routes \in Seq([Parts -> SUBSET Stations])
         /\ packs \in [Parts -> Seq(Nat \ {0})]
  BY DEF IInv, TablesInv, TablesTyped, ProjectRow, Plan, Lot

(* The others stay grounded in a last step that keeps the rows. *)
LEMMA OthersStayGrounded ==
  ASSUME IInv, NEW w \in Workers, TablesInv', OnFloor => OnFloor',
         project'.version >= project.version,
         Alive' => Alive /\ plan'.rows = plan.rows /\ plan'.parts \subseteq plan.parts,
         \A p \in Parts : Packed(p) => Packed(p)' /\ Alive'
  PROVE  \A v \in Workers \ {w} : job'[v] = job[v] => JobIsGrounded(v)'
<1>1. SUFFICES ASSUME NEW v \in Workers, job'[v] = job[v]
               PROVE  JobIsGrounded(v)'
  OBVIOUS
<1>2. JobIsGrounded(v) /\ job[v] \in Job
  BY DEF IInv
<1>3. project.version \in Nat /\ project'.version \in Nat
  BY DEF IInv, TablesInv, TablesTyped, ProjectRow
<1>4. Alive => plan.parts \subseteq Parts
  BY Typing
<1> QED
  BY <1>1, <1>2, <1>3, <1>4, StaysGrounded
-----------------------------------------------------------------------------
(* Steps that only read. *)

LEMMA LoadDraftPreserves ==
  ASSUME IInv, NEW w \in Workers, NEW tx \in Job, LoadDraft(w, tx),
         tx.pc \notin {"releasing", "minting", "complete"},
         tx.pc \in HasRows => tx.rows = plan.rows
  PROVE  IInv'
<1>1. job' = [job EXCEPT ![w] = tx] /\ UNCHANGED tables /\ Alive
  BY DEF LoadDraft, Begin, Alive
<1>2. job'[w] = tx
  BY <1>1 DEF IInv
<1>3. tx.pc \in HasRows => tx.rows <= project'.version
  BY <1>1 DEF IInv, TablesInv, PlanIsCoherent, tables
<1>4. JobIsGrounded(w)'
  BY <1>2, <1>3 DEF JobIsGrounded, RowsAreOld, ReleasesAll, MintsAll,
     CompletesReleased
<1> QED
  BY <1>1, <1>4, JobStep

LEMMA LoadPreserves ==
  ASSUME IInv, NEW w \in Workers,
         \/ EditLoad(w) \/ RouteLoad(w) \/ ReleaseLoad(w) \/ DeleteLoad(w)
         \/ \E required \in Requirements : ReplaceLoad(w, required)
         \/ \E p \in Parts : OverrideLoad(w, p) \/ RemovePartLoad(w, p)
  PROVE  IInv'
<1>0. project.status = "DRAFT" => plan.rows \in Nat
  BY Typing DEF Alive
<1>1. CASE EditLoad(w)
  <2>1. [pc |-> "edit"] \in Job
    BY DEF Job
  <2> QED BY <1>1, <2>1, LoadDraftPreserves DEF EditLoad, HasRows
<1>2. CASE ReleaseLoad(w)
  <2>1. [pc |-> "release"] \in Job
    BY DEF Job
  <2> QED BY <1>2, <2>1, LoadDraftPreserves DEF ReleaseLoad, HasRows
<1>3. CASE DeleteLoad(w)
  <2>1. [pc |-> "delete"] \in Job
    BY DEF Job
  <2> QED BY <1>3, <2>1, LoadDraftPreserves DEF DeleteLoad, HasRows
<1>4. CASE RouteLoad(w)
  <2>1. [pc |-> "route", rows |-> plan.rows] \in Job
    BY <1>0, <1>4 DEF Job, RouteLoad, LoadDraft
  <2> QED BY <1>4, <2>1, LoadDraftPreserves DEF RouteLoad, HasRows
<1>5. ASSUME NEW required \in Requirements, ReplaceLoad(w, required)
      PROVE  IInv'
  <2>1. [pc |-> "replace", required |-> required] \in Job
    BY DEF Job
  <2> QED BY <1>5, <2>1, LoadDraftPreserves DEF ReplaceLoad, HasRows
<1>6. ASSUME NEW p \in Parts, OverrideLoad(w, p)
      PROVE  IInv'
  <2>1. [pc |-> "override", rows |-> plan.rows, part |-> p] \in Job
    BY <1>0, <1>6 DEF Job, OverrideLoad, LoadDraft
  <2> QED BY <1>6, <2>1, LoadDraftPreserves DEF OverrideLoad, HasRows
<1>7. ASSUME NEW p \in Parts, RemovePartLoad(w, p)
      PROVE  IInv'
  <2>1. [pc |-> "remove", rows |-> plan.rows, part |-> p] \in Job
    BY <1>0, <1>7 DEF Job, RemovePartLoad, LoadDraft
  <2> QED BY <1>7, <2>1, LoadDraftPreserves DEF RemovePartLoad, HasRows
<1> QED
  BY <1>1, <1>2, <1>3, <1>4, <1>5, <1>6, <1>7

LEMMA CompleteLoadPreserves ==
  ASSUME IInv, NEW w \in Workers, CompleteLoad(w)
  PROVE  IInv'
<1>1. [pc |-> "complete"] \in Job
  BY DEF Job
<1>2. job' = [job EXCEPT ![w] = [pc |-> "complete"]] /\ UNCHANGED tables
      /\ OnFloor'
  BY DEF CompleteLoad, Begin, OnFloor, tables
<1>3. job'[w] = [pc |-> "complete"]
  BY <1>2 DEF IInv
<1>4. JobIsGrounded(w)'
  BY <1>2, <1>3 DEF JobIsGrounded, RowsAreOld, ReleasesAll, MintsAll,
     CompletesReleased, HasRows
<1> QED
  BY <1>1, <1>2, <1>4, JobStep

LEMMA ReplaceReadPreserves ==
  ASSUME IInv, NEW w \in Workers, ReplaceRead(w)
  PROVE  IInv'
<1> DEFINE tx == [pc |-> "replacing", required |-> job[w].required,
                  rows |-> plan.rows, prior |-> plan.required]
<1>1. Alive /\ job[w].pc = "replace" /\ job' = [job EXCEPT ![w] = tx]
      /\ UNCHANGED tables
  BY DEF ReplaceRead, Continue
<1>2. job[w] \in Job /\ job'[w] = tx
  BY <1>1 DEF IInv
<1>3. job[w].required \in Requirements
  BY <1>1, <1>2, JobShape
<1>4. tx \in Job
  BY <1>1, <1>3, Typing DEF Job
<1>5. tx.rows <= project'.version
  BY <1>1 DEF IInv, TablesInv, PlanIsCoherent, tables
<1>6. JobIsGrounded(w)'
  BY <1>2, <1>5 DEF JobIsGrounded, RowsAreOld, ReleasesAll, MintsAll,
     CompletesReleased
<1> HIDE DEF tx
<1> QED
  BY <1>1, <1>4, <1>6, JobStep

LEMMA AbortPreserves ==
  ASSUME IInv, NEW w \in Workers, Abort(w)
  PROVE  IInv'
<1>1. job' = [job EXCEPT ![w] = Idle] /\ UNCHANGED tables /\ Idle \in Job
  BY DEF Abort, Job
<1>2. job'[w] = Idle
  BY <1>1 DEF IInv
<1>3. JobIsGrounded(w)'
  BY <1>2 DEF JobIsGrounded, RowsAreOld, ReleasesAll, MintsAll,
     CompletesReleased, HasRows, Idle
<1> QED
  BY <1>1, <1>3, JobStep

LEMMA ReleaseCheckPreserves ==
  ASSUME IInv, NEW w \in Workers, ReleaseCheck(w)
  PROVE  IInv'
<1> DEFINE tx == [pc |-> "releasing", rows |-> plan.rows, parts |-> plan.parts,
                  required |-> plan.required, packSize |-> lot.packSize,
                  count |-> PackCount]
<1>1. Alive /\ plan.parts # {} /\ job' = [job EXCEPT ![w] = tx]
      /\ UNCHANGED tables
  BY DEF ReleaseCheck, Continue
<1>2. PackCount \in Nat
  BY Typing, CountType DEF PackCount
<1>3. tx \in Job
  BY <1>1, <1>2, Typing DEF Job
<1>4. tx.pc = "releasing" /\ tx.rows = plan.rows /\ tx.parts = plan.parts
      /\ tx.required = plan.required
  OBVIOUS
<1> HIDE DEF tx
<1>5. job'[w] = tx
  BY <1>1 DEF IInv
<1>6. RowsAreOld(w)'
  BY <1>1, <1>4, <1>5 DEF IInv, TablesInv, PlanIsCoherent, tables, RowsAreOld
<1>7. ReleasesAll(w)'
  BY <1>1, <1>4, <1>5
     DEF IInv, TablesInv, PlanIsCoherent, tables, ReleasesAll, Snapshot
<1>8. MintsAll(w)'
  BY <1>4, <1>5 DEF MintsAll
<1>9. CompletesReleased(w)'
  BY <1>4, <1>5 DEF CompletesReleased
<1> QED
  BY <1>1, <1>3, <1>6, <1>7, <1>8, <1>9, JobStep DEF JobIsGrounded

LEMMA ReleaseMintPreserves ==
  ASSUME IInv, NEW w \in Workers, ReleaseMint(w)
  PROVE  IInv'
<1> DEFINE planned(p) == IF SameRows(w) THEN packs[p] ELSE <<>>
           trays == [p \in Parts |->
             IF p \in job[w].parts
             THEN Trays(job[w].required[ModelOf[p]], job[w].packSize, planned(p))
             ELSE <<>>]
           tx == [pc |-> "minting", rows |-> job[w].rows,
                  count |-> job[w].count, trays |-> trays]
<1>1. Alive /\ job[w].pc = "releasing" /\ job' = [job EXCEPT ![w] = tx]
      /\ UNCHANGED tables
  BY DEF ReleaseMint, Continue
<1>2. job[w] \in Job /\ JobIsGrounded(w)
  BY DEF IInv
<1>3. /\ job[w].rows \in Nat /\ job[w].parts \in SUBSET Parts
      /\ job[w].required \in Requirements /\ job[w].packSize \in PackSizes
      /\ job[w].count \in Nat
  BY <1>1, <1>2, JobShape
<1>4. /\ job[w].parts # {}
      /\ job[w].parts \subseteq Snapshot(DOMAIN job[w].required)
      /\ SameRows(w) => plan.parts \subseteq job[w].parts
  BY <1>1, <1>2 DEF JobIsGrounded, ReleasesAll
<1>5. ASSUME NEW p \in job[w].parts
      PROVE  /\ trays[p] \in Seq(Nat \ {0})
             /\ trays[p] # <<>> \/ (SameRows(w) /\ Packed(p))
  <2>1. p \in Parts /\ ModelOf[p] \in DOMAIN job[w].required
    BY <1>3, <1>4 DEF Snapshot
  <2>2. job[w].required[ModelOf[p]] \in Nat \ {0}
    BY <1>3, <2>1, RequirementsType, QuantityAssumption
  <2>3. job[w].packSize \in Nat \ {0}
    BY <1>3, QuantityAssumption
  <2>4. planned(p) \in Seq(Nat \ {0})
    BY <2>1, Typing
  <2>5. trays[p] = Trays(job[w].required[ModelOf[p]], job[w].packSize, planned(p))
    BY <2>1
  <2> HIDE DEF trays, planned
  <2>6. trays[p] \in Seq(Nat \ {0}) /\ (planned(p) = <<>> => trays[p] # <<>>)
    BY <2>2, <2>3, <2>4, <2>5, TraysType
  <2> QED BY <2>6 DEF planned, Packed
<1>6. trays \in [Parts -> Seq(Nat \ {0})]
  <2>1. \A p \in Parts : trays[p] \in Seq(Nat \ {0})
    <3>1. SUFFICES ASSUME NEW p \in Parts PROVE trays[p] \in Seq(Nat \ {0})
      BY Zenon
    <3>2. p \notin job[w].parts => trays[p] = <<>>
      OBVIOUS
    <3> HIDE DEF trays
    <3>3. <<>> \in Seq(Nat \ {0})
      OBVIOUS
    <3> QED BY <1>5, <3>2, <3>3
  <2> QED BY <2>1, Zenon
<1> HIDE DEF trays
<1>7. tx \in Job
  BY <1>3, <1>6 DEF Job
<1>8. tx.pc = "minting" /\ tx.rows = job[w].rows /\ tx.trays = trays
  OBVIOUS
<1> HIDE DEF tx
<1>9. job'[w] = tx
  BY <1>1 DEF IInv
<1>10. RowsAreOld(w)'
  BY <1>1, <1>2, <1>8, <1>9 DEF JobIsGrounded, RowsAreOld, HasRows, tables
<1>11. ReleasesAll(w)'
  BY <1>8, <1>9 DEF ReleasesAll
<1>12. SameRows(w)' <=> SameRows(w)
  BY <1>1, <1>8, <1>9 DEF SameRows, tables
<1>13. Alive' /\ packs' = packs /\ plan' = plan
  BY <1>1 DEF tables, Alive
<1>14. MintsAll(w)'
  <2>1. \/ \E p \in Parts : trays[p] # <<>>
        \/ SameRows(w) /\ \E p \in Parts : Packed(p)
    BY <1>3, <1>4, <1>5
  <2>2. SameRows(w) => \A p \in plan.parts : trays[p] # <<>> \/ Packed(p)
    BY <1>4, <1>5
  <2> QED BY <1>8, <1>9, <1>12, <1>13, <2>1, <2>2 DEF MintsAll, Packed
<1>15. CompletesReleased(w)'
  BY <1>8, <1>9 DEF CompletesReleased
<1> QED
  BY <1>1, <1>7, <1>10, <1>11, <1>14, <1>15, JobStep DEF JobIsGrounded
-----------------------------------------------------------------------------
(* Steps that write. *)

(* Fresh part snapshots with catalog routes. *)
LEMMA FreshPlanType ==
  ASSUME NEW rows \in Nat, NEW r \in Requirements
  PROVE  /\ FreshPlan(rows, r) \in Plan
         /\ FreshPlan(rows, r).rows = rows
         /\ FreshPlan(rows, r).parts = Snapshot(DOMAIN r)
         /\ FreshPlan(rows, r).required = r
         /\ <<CatalogSteps(Snapshot(DOMAIN r))>> \in Seq([Parts -> SUBSET Stations])
<1>1. Snapshot(DOMAIN r) \in SUBSET Parts
  BY DEF Snapshot
<1>2. CatalogSteps(Snapshot(DOMAIN r)) \in [Parts -> SUBSET Stations]
  BY CatalogAssumption DEF CatalogSteps
<1> QED
  BY <1>1, <1>2 DEF FreshPlan, Plan

LEMMA CreatePreserves ==
  ASSUME IInv, NEW w \in Workers, NEW product \in Products \cup {NoProduct},
         NEW required \in Requirements, NEW size \in PackSizes,
         CreateProject(w, product, required, size)
  PROVE  IInv'
<1>1. /\ job[w] = Idle /\ job' = job /\ packs' = packs
      /\ project.status = "NONE" /\ ~Alive /\ project.version = 0
      /\ project' = [status |-> "DRAFT", version |-> 1, product |-> product]
      /\ plan' = FreshPlan(1, required) /\ Alive'
      /\ routes' = <<CatalogSteps(Snapshot(DOMAIN required))>>
      /\ lot' = [route |-> 1, target |-> Total(required), packSize |-> size,
                 codes |-> {}]
  BY DEF CreateProject, Alive, IInv, TablesInv, PlanIsCoherent
<1>2. job' = [job EXCEPT ![w] = Idle]
  BY <1>1 DEF IInv
<1>3. lot' \in Lot
  BY <1>1, TotalType DEF Lot
<1>4. \A p \in Parts : ~Packed(p) /\ ~Packed(p)'
  BY <1>1 DEF IInv, TablesInv, PacksBelong, Packed
<1>5. TablesTyped'
  <2>1. project' \in ProjectRow
    BY <1>1 DEF ProjectRow
  <2>2. plan' \in Plan /\ routes' \in Seq([Parts -> SUBSET Stations])
    BY <1>1, FreshPlanType
  <2> QED BY <1>1, <1>3, <2>1, <2>2, Typing DEF TablesTyped
<1>6. TablesInv'
  BY <1>1, <1>4, <1>5, FreshPlanType
     DEF TablesInv, PlanIsCoherent, PacksBelong, ReleasedHasPacks, Snapshot
<1>7. \A v \in Workers \ {w} : job'[v] = job[v] => JobIsGrounded(v)'
  <2>1. ~OnFloor
    BY <1>1 DEF OnFloor
  <2> QED BY <1>1, <1>4, <2>1, FreshPlanType, StaysGroundedWhenReplaced DEF IInv
<1> QED
  BY <1>2, <1>6, <1>7, LastStep

LEMMA EditPreserves ==
  ASSUME IInv, NEW w \in Workers, EditCommit(w)
  PROVE  IInv'
<1>1. PICK product \in Products \cup {NoProduct}, size \in PackSizes :
        /\ project' = [project EXCEPT !.version = @ + 1, !.product = product]
        /\ lot' = [lot EXCEPT !.packSize = size]
  BY DEF EditCommit
<1>2. Alive /\ job' = [job EXCEPT ![w] = Idle]
      /\ plan' = plan /\ routes' = routes /\ packs' = packs
  BY DEF EditCommit, Finish
<1>3. /\ project'.status = project.status /\ Alive'
      /\ project'.version = project.version + 1
      /\ project' \in ProjectRow
  <2>1. project \in ProjectRow
    BY DEF IInv, TablesInv, TablesTyped
  <2>2. project' \in ProjectRow /\ project'.status = project.status
        /\ project'.version = project.version + 1
    <3>1. /\ project'.status = project.status
          /\ project'.version = project.version + 1
          /\ project'.product = product
      BY <1>1, <2>1 DEF ProjectRow
    <3>2. project' = [status |-> project'.status, version |-> project'.version,
                      product |-> project'.product]
      BY <1>1, <2>1 DEF ProjectRow
    <3>3. /\ project.version \in Nat
          /\ project.status \in {"NONE", "DRAFT", "RELEASED", "COMPLETED", "DELETED"}
      BY <2>1 DEF ProjectRow
    <3> QED BY <3>1, <3>2, <3>3 DEF ProjectRow
  <2> QED BY <1>2, <2>2 DEF Alive
<1>4. lot' \in Lot
  BY <1>1, <1>2 DEF IInv, TablesInv, TablesTyped, Lot
<1>5. TablesTyped'
  BY <1>2, <1>3, <1>4 DEF IInv, TablesInv, TablesTyped
<1>6. PlanIsCoherent'
  BY <1>2, <1>3, Typing DEF IInv, TablesInv, PlanIsCoherent, Alive, Snapshot
<1>7. PacksBelong' /\ ReleasedHasPacks'
  BY <1>2, <1>3 DEF IInv, TablesInv, PacksBelong, ReleasedHasPacks, Packed
<1>8. TablesInv'
  BY <1>5, <1>6, <1>7 DEF TablesInv
<1>9. project'.version >= project.version
  BY <1>3, Typing
<1>10. \A p \in Parts : Packed(p) => Packed(p)' /\ Alive'
  BY <1>2, <1>3 DEF Packed
<1>11. \A v \in Workers \ {w} : job'[v] = job[v] => JobIsGrounded(v)'
  BY <1>2, <1>3, <1>8, <1>9, <1>10, OthersStayGrounded DEF OnFloor
<1> QED
  BY <1>2, <1>8, <1>11, LastStep

(* The project row when its version goes up. *)
LEMMA BumpType ==
  ASSUME project \in ProjectRow
  PROVE  /\ Bump => /\ project' \in ProjectRow
                    /\ project'.status = project.status
                    /\ project'.version = project.version + 1
         /\ \A status \in {"RELEASED", "COMPLETED"} :
              BumpTo(status) => /\ project' \in ProjectRow
                                /\ project'.status = status
                                /\ project'.version = project.version + 1
<1>1. project.version + 1 \in Nat
  BY DEF ProjectRow
<1>2. Bump => /\ project' \in ProjectRow
              /\ project'.status = project.status
              /\ project'.version = project.version + 1
  BY <1>1 DEF ProjectRow, Bump
<1>3. ASSUME NEW status \in {"RELEASED", "COMPLETED"}, BumpTo(status)
      PROVE  /\ project' \in ProjectRow
             /\ project'.status = status
             /\ project'.version = project.version + 1
  BY <1>1, <1>3 DEF ProjectRow, BumpTo
<1> QED
  BY <1>2, <1>3

(* What a last step shares that bumps the row version and keeps status,    *)
(* packs and rows.                                                         *)
LEMMA BumpPreserves ==
  ASSUME IInv, NEW w \in Workers, Alive, Bump,
         job' = [job EXCEPT ![w] = Idle],
         plan' \in Plan, plan'.rows = plan.rows, plan'.parts \subseteq plan.parts,
         plan'.parts \subseteq Snapshot(DOMAIN plan'.required),
         \A p \in plan.parts : Packed(p) => p \in plan'.parts,
         plan'.parts = plan.parts \/ \E p \in plan.parts : ~Packed(p),
         lot' \in Lot, routes' \in Seq([Parts -> SUBSET Stations]),
         packs' = packs
  PROVE  IInv'
<1>1. /\ project'.status = project.status /\ Alive'
      /\ project'.version = project.version + 1
      /\ project' \in ProjectRow
  <2>1. project \in ProjectRow
    BY DEF IInv, TablesInv, TablesTyped
  <2>2. project' \in ProjectRow /\ project'.status = project.status
        /\ project'.version = project.version + 1
    BY <2>1, BumpType
  <2> QED BY <2>2 DEF Alive
<1>2. TablesTyped'
  BY <1>1, Typing DEF TablesTyped
<1>3. PlanIsCoherent'
  BY <1>1, Typing DEF IInv, TablesInv, PlanIsCoherent, Alive, Snapshot
<1>4. PacksBelong'
  BY <1>1 DEF IInv, TablesInv, PacksBelong, Packed
<1>5. ReleasedHasPacks'
  <2>1. project.status \in {"RELEASED", "COMPLETED"} => plan'.parts = plan.parts
    BY DEF IInv, TablesInv, ReleasedHasPacks
  <2> QED BY <1>1, <2>1 DEF IInv, TablesInv, ReleasedHasPacks, Packed
<1>6. TablesInv'
  BY <1>2, <1>3, <1>4, <1>5 DEF TablesInv
<1>7. \A p \in Parts : Packed(p) => Packed(p)' /\ Alive'
  BY <1>1 DEF Packed
<1>8. project'.version >= project.version
  BY <1>1, Typing
<1>9. \A v \in Workers \ {w} : job'[v] = job[v] => JobIsGrounded(v)'
  BY <1>1, <1>6, <1>7, <1>8, OthersStayGrounded DEF OnFloor
<1> QED
  BY <1>6, <1>9, LastStep

LEMMA ReplaceQuantitiesPreserves ==
  ASSUME IInv, NEW w \in Workers, ReplaceQuantities(w)
  PROVE  IInv'
<1> DEFINE required == [m \in DOMAIN plan.required |->
             IF m \in Changed(w) THEN job[w].required[m] ELSE plan.required[m]]
<1>1. /\ job[w].pc = "replacing" /\ Alive /\ job' = [job EXCEPT ![w] = Idle]
      /\ DOMAIN job[w].required = DOMAIN job[w].prior
      /\ plan' = [plan EXCEPT !.required = required]
      /\ lot' = [lot EXCEPT !.target = Total(job[w].required)]
      /\ Bump /\ routes' = routes /\ packs' = packs
  BY DEF ReplaceQuantities, Finish
<1>2. job[w].required \in Requirements /\ job[w].prior \in Requirements
  BY <1>1, JobShape DEF IInv
<1>3. required \in Requirements /\ DOMAIN required = DOMAIN plan.required
  <2>1. plan.required \in Requirements
    BY <1>1, Typing
  <2>2. ASSUME NEW m \in DOMAIN plan.required
        PROVE  required[m] \in Quantities
    <3>1. plan.required[m] \in Quantities
      BY <2>1, RequirementsType
    <3>2. m \in Changed(w) => job[w].required[m] \in Quantities
      BY <1>1, <1>2, RequirementsType DEF Changed
    <3> QED BY <3>1, <3>2
  <2>3. DOMAIN plan.required \in SUBSET Models
    BY <2>1, RequirementsType
  <2>4. DOMAIN required = DOMAIN plan.required
    OBVIOUS
  <2>5. required \in [DOMAIN required -> Quantities]
    BY <2>2
  <2> HIDE DEF required
  <2> QED BY <2>3, <2>4, <2>5, RequirementsType
<1> HIDE DEF required
<1>4. lot' \in Lot
  BY <1>1, <1>2, TotalType, Typing DEF Lot
<1>5. /\ plan' \in Plan /\ plan'.rows = plan.rows /\ plan'.parts = plan.parts
      /\ plan'.required = required
  BY <1>1, <1>3, Typing DEF Plan
<1>6. plan.parts \subseteq Snapshot(DOMAIN required)
  BY <1>1, <1>3 DEF IInv, TablesInv, PlanIsCoherent
<1> QED
  BY <1>1, <1>4, <1>5, <1>6, Typing, BumpPreserves

LEMMA RouteCommitPreserves ==
  ASSUME IInv, NEW w \in Workers, RouteCommit(w)
  PROVE  IInv'
<1>1. /\ Alive /\ job' = [job EXCEPT ![w] = Idle]
      /\ lot' = [lot EXCEPT !.route = Len(routes) + 1]
      /\ Bump /\ plan' = plan /\ packs' = packs
  BY DEF RouteCommit, Finish
<1>2. PICK steps \in [Parts -> SUBSET Stations] : routes' = Append(routes, steps)
  BY DEF RouteCommit
<1>3. Len(routes) + 1 \in Nat /\ routes' \in Seq([Parts -> SUBSET Stations])
  BY <1>2, Typing
<1>4. lot' \in Lot
  BY <1>1, <1>3, Typing DEF Lot
<1>5. plan.parts \subseteq Snapshot(DOMAIN plan.required)
  BY <1>1 DEF IInv, TablesInv, PlanIsCoherent
<1> QED
  BY <1>1, <1>3, <1>4, <1>5, Typing, BumpPreserves

LEMMA RemovePartPreserves ==
  ASSUME IInv, NEW w \in Workers, RemovePartCommit(w)
  PROVE  IInv'
<1> DEFINE part == job[w].part
<1>1. /\ job[w].pc = "remove" /\ Alive /\ job' = [job EXCEPT ![w] = Idle]
      /\ part \in plan.parts /\ ~Packed(part)
      /\ plan' = [plan EXCEPT !.parts = plan.parts \ {part}]
      /\ routes' = [v \in DOMAIN routes |-> [routes[v] EXCEPT ![part] = {}]]
      /\ Bump /\ lot' = lot /\ packs' = packs
  BY DEF RemovePartCommit, Finish
<1> HIDE DEF part
<1>2. /\ plan' \in Plan /\ plan'.rows = plan.rows
      /\ plan'.parts = plan.parts \ {part} /\ plan'.required = plan.required
  BY <1>1, Typing DEF Plan
<1>3. routes' \in Seq([Parts -> SUBSET Stations])
  <2>1. routes \in Seq([Parts -> SUBSET Stations])
    BY Typing
  <2>2. DOMAIN routes = 1..Len(routes) /\ Len(routes) \in Nat
    BY <2>1
  <2>3. ASSUME NEW v \in DOMAIN routes
        PROVE  [routes[v] EXCEPT ![part] = {}] \in [Parts -> SUBSET Stations]
    <3>1. routes[v] \in [Parts -> SUBSET Stations]
      BY <2>1, <2>2, <2>3
    <3> QED BY <3>1
  <2>4. routes' \in [1..Len(routes) -> [Parts -> SUBSET Stations]]
    BY <1>1, <2>2, <2>3
  <2> QED BY <2>2, <2>4
<1>4. plan'.parts \subseteq Snapshot(DOMAIN plan'.required)
  BY <1>1, <1>2 DEF IInv, TablesInv, PlanIsCoherent
<1>5. lot' \in Lot
  BY <1>1, Typing
<1> QED
  BY <1>1, <1>2, <1>3, <1>4, <1>5, BumpPreserves

(* A replacement finds no packs, so that no release is of the old rows.    *)
LEMMA ReplaceAllPreserves ==
  ASSUME IInv, NEW w \in Workers, ReplaceAll(w)
  PROVE  IInv'
<1> DEFINE required == job[w].required
<1>1. /\ job[w].pc = "replacing" /\ Alive /\ job' = [job EXCEPT ![w] = Idle]
      /\ \A p \in Parts : ~Packed(p)
      /\ plan' = FreshPlan(project.version + 1, required)
      /\ routes' = <<CatalogSteps(Snapshot(DOMAIN required))>>
      /\ lot' = [lot EXCEPT !.route = 1, !.target = Total(required)]
      /\ Bump /\ packs' = packs
  BY DEF ReplaceAll, Finish
<1>2. required \in Requirements
  BY <1>1, JobShape DEF IInv
<1> HIDE DEF required
<1>3. lot' \in Lot
  BY <1>1, <1>2, TotalType, Typing DEF Lot
<1>4. project.version + 1 \in Nat
  BY Typing
<1>5. /\ plan' \in Plan /\ plan'.rows = project.version + 1
      /\ plan'.parts = Snapshot(DOMAIN required) /\ plan'.required = required
      /\ routes' \in Seq([Parts -> SUBSET Stations])
  BY <1>1, <1>2, <1>4, FreshPlanType
<1>6. /\ project'.status = project.status /\ Alive'
      /\ project'.version = project.version + 1 /\ project' \in ProjectRow
  <2>1. project' \in ProjectRow /\ project'.status = project.status
        /\ project'.version = project.version + 1
    BY <1>1, Typing, BumpType
  <2> QED BY <1>1, <2>1 DEF Alive
<1>7. ~OnFloor /\ ~OnFloor'
  <2>1. ~OnFloor
    <3>1. OnFloor => \E p \in Parts : Packed(p)
      BY Typing DEF IInv, TablesInv, ReleasedHasPacks, OnFloor, Alive
    <3> QED BY <1>1, <3>1
  <2> QED BY <1>6, <2>1 DEF OnFloor
<1>8. TablesTyped'
  BY <1>1, <1>3, <1>5, <1>6, Typing DEF TablesTyped
<1>9. PlanIsCoherent'
  BY <1>4, <1>5, <1>6 DEF PlanIsCoherent, Alive, Snapshot
<1>10. PacksBelong' /\ ReleasedHasPacks'
  BY <1>1, <1>7 DEF PacksBelong, ReleasedHasPacks, OnFloor, Packed
<1>11. TablesInv'
  BY <1>8, <1>9, <1>10 DEF TablesInv
<1>12. ASSUME NEW v \in Workers \ {w}, job'[v] = job[v]
       PROVE  JobIsGrounded(v)'
  <2>1. JobIsGrounded(v) /\ job[v] \in Job
    BY DEF IInv
  <2>2. project.version \in Nat /\ project'.version \in Nat
        /\ project'.version > project.version
    BY <1>4, <1>6, Typing
  <2> QED BY <1>1, <1>5, <1>7, <1>12, <2>1, <2>2, StaysGroundedWhenReplaced
<1> QED
  BY <1>1, <1>11, <1>12, LastStep

LEMMA OverridePreserves ==
  ASSUME IInv, NEW w \in Workers, OverrideCommit(w)
  PROVE  IInv'
<1> DEFINE part == job[w].part
<1>1. PICK timed \in SUBSET Stations : plan' = [plan EXCEPT !.override[part] = timed]
  BY DEF OverrideCommit
<1>2. /\ Alive /\ job' = [job EXCEPT ![w] = Idle] /\ part \in plan.parts
      /\ project' = project /\ routes' = routes /\ lot' = lot /\ packs' = packs
  BY DEF OverrideCommit, Finish
<1> HIDE DEF part
<1>3. /\ plan' \in Plan /\ plan'.rows = plan.rows
      /\ plan'.parts = plan.parts /\ plan'.required = plan.required
  <2>1. plan \in Plan /\ plan.override \in [Parts -> SUBSET Stations]
    BY <1>2, Typing
  <2>2. [plan.override EXCEPT ![part] = timed] \in [Parts -> SUBSET Stations]
    BY <2>1
  <2>3. plan' = [plan EXCEPT !.override = [plan.override EXCEPT ![part] = timed]]
    BY <1>1
  <2> QED BY <2>1, <2>2, <2>3 DEF Plan
<1>4. Alive'
  BY <1>2 DEF Alive
<1>5. TablesTyped'
  BY <1>2, <1>3, Typing DEF TablesTyped
<1>6. PlanIsCoherent'
  BY <1>2, <1>3 DEF IInv, TablesInv, PlanIsCoherent, Alive, Snapshot
<1>7. PacksBelong' /\ ReleasedHasPacks'
  BY <1>2, <1>3, <1>4 DEF IInv, TablesInv, PacksBelong, ReleasedHasPacks, Packed
<1>8. TablesInv'
  BY <1>5, <1>6, <1>7 DEF TablesInv
<1>9. project'.version >= project.version
  BY <1>2, Typing
<1>10. \A p \in Parts : Packed(p) => Packed(p)' /\ Alive'
  BY <1>2, <1>4 DEF Packed
<1>11. \A v \in Workers \ {w} : job'[v] = job[v] => JobIsGrounded(v)'
  BY <1>2, <1>3, <1>4, <1>8, <1>9, <1>10, OthersStayGrounded DEF OnFloor
<1> QED
  BY <1>2, <1>8, <1>11, LastStep

LEMMA DeletePreserves ==
  ASSUME IInv, NEW w \in Workers, DeleteCommit(w)
  PROVE  IInv'
<1>1. /\ Alive /\ job' = [job EXCEPT ![w] = Idle]
      /\ \A p \in Parts : ~Packed(p)
      /\ project' = [project EXCEPT !.status = "DELETED"]
      /\ routes' = <<>> /\ packs' = packs
  BY DEF DeleteCommit, DeleteRows, Finish
<1>2. /\ project'.status = "DELETED" /\ project'.version = project.version
      /\ project' \in ProjectRow
  BY <1>1, Typing DEF ProjectRow
<1>3. ~Alive' /\ ~OnFloor'
  BY <1>2 DEF Alive, OnFloor
<1>4. ~OnFloor
  <2>1. OnFloor => \E p \in Parts : Packed(p)
    BY Typing DEF IInv, TablesInv, ReleasedHasPacks, OnFloor, Alive
  <2> QED BY <1>1, <2>1
<1>5. TablesTyped'
  <2>1. <<>> \in Seq([Parts -> SUBSET Stations])
    OBVIOUS
  <2> QED BY <1>1, <1>2, <1>3, <2>1, Typing DEF TablesTyped
<1>6. TablesInv'
  BY <1>1, <1>2, <1>3, <1>5
     DEF TablesInv, PlanIsCoherent, PacksBelong, ReleasedHasPacks, OnFloor, Packed
<1>7. project'.version >= project.version
  BY <1>2, Typing
<1>8. \A v \in Workers \ {w} : job'[v] = job[v] => JobIsGrounded(v)'
  BY <1>1, <1>3, <1>4, <1>6, <1>7, OthersStayGrounded
<1> QED
  BY <1>1, <1>6, <1>8, LastStep

(* A released project is completed. *)
LEMMA CompletePreserves ==
  ASSUME IInv, NEW w \in Workers, CompleteCommit(w)
  PROVE  IInv'
<1>1. /\ job[w].pc = "complete" /\ Alive /\ job' = [job EXCEPT ![w] = Idle]
      /\ BumpTo("COMPLETED")
      /\ plan' = plan /\ routes' = routes /\ lot' = lot /\ packs' = packs
  BY DEF CompleteCommit, Finish
<1>2. OnFloor
  BY <1>1 DEF IInv, JobIsGrounded, CompletesReleased
<1>3. /\ project'.status = "COMPLETED" /\ Alive' /\ OnFloor'
      /\ project'.version = project.version + 1 /\ project' \in ProjectRow
  <2>1. /\ project'.status = "COMPLETED"
        /\ project'.version = project.version + 1 /\ project' \in ProjectRow
    BY <1>1, Typing, BumpType
  <2> QED BY <2>1 DEF Alive, OnFloor
<1>4. TablesTyped'
  BY <1>1, <1>3, Typing DEF TablesTyped
<1>5. PlanIsCoherent'
  BY <1>1, <1>3, Typing DEF IInv, TablesInv, PlanIsCoherent, Snapshot
<1>6. PacksBelong' /\ ReleasedHasPacks'
  BY <1>1, <1>2, <1>3
     DEF IInv, TablesInv, PacksBelong, ReleasedHasPacks, OnFloor, Packed
<1>7. TablesInv'
  BY <1>4, <1>5, <1>6 DEF TablesInv
<1>8. project'.version >= project.version
  BY <1>3, Typing
<1>9. \A p \in Parts : Packed(p) => Packed(p)' /\ Alive'
  BY <1>1, <1>3 DEF Packed
<1>10. \A v \in Workers \ {w} : job'[v] = job[v] => JobIsGrounded(v)'
  BY <1>1, <1>3, <1>7, <1>8, <1>9, OthersStayGrounded
<1> QED
  BY <1>1, <1>7, <1>10, LastStep

LEMMA PlanPackPreserves ==
  ASSUME IInv, NEW w \in Workers, NEW p \in Parts, NEW quantity \in Quantities,
         PlanPack(w, p, quantity)
  PROVE  IInv'
<1>1. /\ job[w] = Idle /\ Alive /\ p \in plan.parts
      /\ packs' = [packs EXCEPT ![p] = Append(packs[p], quantity)]
      /\ project' = project /\ plan' = plan /\ routes' = routes
      /\ lot' = lot /\ job' = job
  BY DEF PlanPack
<1>2. job' = [job EXCEPT ![w] = Idle]
  BY <1>1 DEF IInv
<1>3. packs[p] \in Seq(Nat \ {0}) /\ quantity \in Nat \ {0}
  BY Typing, QuantityAssumption
<1>4. Append(packs[p], quantity) \in Seq(Nat \ {0})
      /\ Append(packs[p], quantity) # <<>>
  BY <1>3
<1>5. packs' \in [Parts -> Seq(Nat \ {0})] /\ packs'[p] # <<>>
      /\ \A q \in Parts \ {p} : packs'[q] = packs[q]
  BY <1>1, <1>4, Typing
<1>6. \A q \in Parts : Packed(q)' <=> (Packed(q) \/ q = p)
  BY <1>5 DEF Packed
<1>7. Alive'
  BY <1>1 DEF Alive
<1>8. TablesTyped'
  BY <1>1, <1>5, <1>7, Typing DEF TablesTyped
<1>9. PlanIsCoherent'
  BY <1>1 DEF IInv, TablesInv, PlanIsCoherent, Alive, Snapshot
<1>10. PacksBelong'
  BY <1>1, <1>6, <1>7 DEF IInv, TablesInv, PacksBelong
<1>11. ReleasedHasPacks'
  BY <1>1, <1>6 DEF IInv, TablesInv, ReleasedHasPacks
<1>12. TablesInv'
  BY <1>8, <1>9, <1>10, <1>11 DEF TablesInv
<1>13. project'.version >= project.version
  BY <1>1, Typing
<1>14. \A v \in Workers \ {w} : job'[v] = job[v] => JobIsGrounded(v)'
  BY <1>1, <1>6, <1>7, <1>12, <1>13, OthersStayGrounded DEF OnFloor
<1> QED
  BY <1>2, <1>12, <1>14, LastStep

(* The numbers of a release are natural numbers. *)
LEMMA CodesType ==
  ASSUME NEW w, job[w].count \in Nat, job[w].trays \in [Parts -> Seq(Nat \ {0})]
  PROVE  Codes(w) \in SUBSET Nat
<1> DEFINE trays == SumFunction([p \in Parts |-> Len(job[w].trays[p])])
<1>1. trays \in Nat
  BY CountType
<1>2. Codes(w) = (job[w].count + 1)..(job[w].count + trays)
  BY Zenon DEF Codes
<1> HIDE DEF trays
<1> QED
  BY <1>1, <1>2

(* The foreign keys of what it mints make sure that a release is about the *)
(* rows the plan has now, so every part of the plan gets packs or has some.*)
LEMMA ReleaseCommitPreserves ==
  ASSUME IInv, NEW w \in Workers, ReleaseCommit(w)
  PROVE  IInv'
<1> DEFINE trays == job[w].trays
<1>1. /\ job[w].pc = "minting" /\ Alive /\ job' = [job EXCEPT ![w] = Idle]
      /\ \A p \in Parts : trays[p] # <<>> => p \in plan.parts /\ SameRows(w)
      /\ packs' = [p \in Parts |-> packs[p] \o trays[p]]
      /\ lot' = [lot EXCEPT !.codes = @ \cup Codes(w)]
      /\ BumpTo("RELEASED") /\ plan' = plan /\ routes' = routes
  BY DEF ReleaseCommit, Finish
<1>2. job[w] \in Job /\ MintsAll(w)
  BY DEF IInv, JobIsGrounded
<1>3. trays \in [Parts -> Seq(Nat \ {0})] /\ Codes(w) \in SUBSET Nat
  BY <1>1, <1>2, JobShape, CodesType
<1>4. SameRows(w)
  BY <1>1, <1>2 DEF MintsAll
<1>5. \A p \in plan.parts : trays[p] # <<>> \/ Packed(p)
  BY <1>1, <1>2, <1>4 DEF MintsAll
<1>6. plan.parts # {}
  <2>1. \E p \in Parts : trays[p] # <<>> \/ Packed(p)
    BY <1>1, <1>2 DEF MintsAll
  <2> QED BY <1>1, <2>1 DEF IInv, TablesInv, PacksBelong
<1> HIDE DEF trays
<1>7. ASSUME NEW p \in Parts
      PROVE  /\ packs'[p] \in Seq(Nat \ {0})
             /\ packs'[p] # <<>> <=> packs[p] # <<>> \/ trays[p] # <<>>
  <2>1. packs[p] \in Seq(Nat \ {0}) /\ trays[p] \in Seq(Nat \ {0})
    BY <1>3, Typing
  <2>2. packs'[p] = packs[p] \o trays[p]
    BY <1>1
  <2>3. \A s \in Seq(Nat \ {0}) : s # <<>> <=> Len(s) # 0
    OBVIOUS
  <2>4. /\ packs[p] \o trays[p] \in Seq(Nat \ {0})
        /\ Len(packs[p] \o trays[p]) = Len(packs[p]) + Len(trays[p])
        /\ Len(packs[p]) \in Nat /\ Len(trays[p]) \in Nat
    BY <2>1
  <2> QED BY <2>1, <2>2, <2>3, <2>4
<1>8. packs' \in [Parts -> Seq(Nat \ {0})]
  <2>1. DOMAIN packs' = Parts /\ packs' = [p \in Parts |-> packs'[p]]
    BY <1>1
  <2> QED BY <1>7, <2>1
<1>9. \A p \in Parts : Packed(p)' <=> (Packed(p) \/ trays[p] # <<>>)
  BY <1>7 DEF Packed
<1>10. /\ project'.status = "RELEASED" /\ Alive' /\ OnFloor'
       /\ project'.version = project.version + 1 /\ project' \in ProjectRow
  <2>1. /\ project'.status = "RELEASED"
        /\ project'.version = project.version + 1 /\ project' \in ProjectRow
    BY <1>1, Typing, BumpType
  <2> QED BY <2>1 DEF Alive, OnFloor
<1>11. lot' \in Lot
  BY <1>1, <1>3, Typing DEF Lot
<1>12. TablesTyped'
  BY <1>1, <1>8, <1>10, <1>11, Typing DEF TablesTyped
<1>13. PlanIsCoherent'
  BY <1>1, <1>10, Typing DEF IInv, TablesInv, PlanIsCoherent, Snapshot
<1>14. PacksBelong'
  BY <1>1, <1>9, <1>10 DEF IInv, TablesInv, PacksBelong
<1>15. ReleasedHasPacks'
  <2>1. plan.parts \subseteq Parts
    BY <1>1, Typing
  <2>2. \A p \in Parts : p \in plan.parts <=> Packed(p)'
    BY <1>1, <1>5, <1>9 DEF IInv, TablesInv, PacksBelong
  <2> QED BY <1>1, <1>6, <2>1, <2>2 DEF ReleasedHasPacks
<1>16. TablesInv'
  BY <1>12, <1>13, <1>14, <1>15 DEF TablesInv
<1>17. project'.version >= project.version
  BY <1>10, Typing
<1>18. \A v \in Workers \ {w} : job'[v] = job[v] => JobIsGrounded(v)'
  BY <1>1, <1>9, <1>10, <1>16, <1>17, OthersStayGrounded
<1> QED
  BY <1>1, <1>16, <1>18, LastStep
-----------------------------------------------------------------------------
LEMMA InitIInv == Init => IInv
<1> SUFFICES ASSUME Init PROVE IInv
  OBVIOUS
<1>1. ~Alive /\ project.version = 0 /\ project.status = "NONE"
      /\ project \in ProjectRow
  BY DEF Init, Alive, ProjectRow
<1>2. routes \in Seq([Parts -> SUBSET Stations])
      /\ packs \in [Parts -> Seq(Nat \ {0})]
  BY DEF Init
<1>3. TablesTyped
  BY <1>1, <1>2 DEF TablesTyped
<1>4. TablesInv
  BY <1>1, <1>3 DEF Init, TablesInv, PlanIsCoherent, PacksBelong,
     ReleasedHasPacks, Packed
<1>5. job \in [Workers -> Job] /\ \A w \in Workers : job[w] = Idle
  BY DEF Init, Job
<1>6. \A w \in Workers : JobIsGrounded(w)
  BY <1>5 DEF JobIsGrounded, RowsAreOld, ReleasesAll, MintsAll,
     CompletesReleased, HasRows, Idle
<1> QED
  BY <1>4, <1>5, <1>6 DEF IInv

LEMMA StutterPreserves ==
  ASSUME IInv, UNCHANGED vars
  PROVE  IInv'
  BY DEF vars, IInv, TablesInv, TablesTyped, PlanIsCoherent, PacksBelong,
     ReleasedHasPacks, JobIsGrounded, RowsAreOld, ReleasesAll, MintsAll,
     CompletesReleased, OnFloor, Alive, Packed, SameRows, Snapshot

LEMMA NextPreserves ==
  ASSUME IInv, [Next]_vars
  PROVE  IInv'
<1>1. CASE UNCHANGED vars
  BY <1>1, StutterPreserves
<1>2. ASSUME NEW w \in Workers, Draft(w)
      PROVE  IInv'
  <2>1. ASSUME NEW product \in Products \cup {NoProduct},
               NEW required \in Requirements, NEW size \in PackSizes,
               CreateProject(w, product, required, size)
        PROVE  IInv'
    BY <2>1, CreatePreserves
  <2>2. CASE \/ EditLoad(w) \/ RouteLoad(w)
             \/ \E required \in Requirements : ReplaceLoad(w, required)
             \/ \E p \in Parts : OverrideLoad(w, p) \/ RemovePartLoad(w, p)
    BY <2>2, LoadPreserves
  <2>3. CASE EditCommit(w)
    BY <2>3, EditPreserves
  <2>4. CASE ReplaceRead(w)
    BY <2>4, ReplaceReadPreserves
  <2>5. CASE ReplaceQuantities(w)
    BY <2>5, ReplaceQuantitiesPreserves
  <2>6. CASE ReplaceAll(w)
    BY <2>6, ReplaceAllPreserves
  <2>7. CASE RouteCommit(w)
    BY <2>7, RouteCommitPreserves
  <2>8. CASE OverrideCommit(w)
    BY <2>8, OverridePreserves
  <2>9. CASE RemovePartCommit(w)
    BY <2>9, RemovePartPreserves
  <2> QED
    BY <1>2, <2>1, <2>2, <2>3, <2>4, <2>5, <2>6, <2>7, <2>8, <2>9 DEF Draft
<1>3. ASSUME NEW w \in Workers, Run(w)
      PROVE  IInv'
  <2>1. CASE ReleaseLoad(w) \/ DeleteLoad(w)
    BY <2>1, LoadPreserves
  <2>2. CASE ReleaseCheck(w)
    BY <2>2, ReleaseCheckPreserves
  <2>3. CASE ReleaseMint(w)
    BY <2>3, ReleaseMintPreserves
  <2>4. CASE ReleaseCommit(w)
    BY <2>4, ReleaseCommitPreserves
  <2>5. ASSUME NEW p \in Parts, NEW quantity \in Quantities,
               PlanPack(w, p, quantity)
        PROVE  IInv'
    BY <2>5, PlanPackPreserves
  <2>6. CASE CompleteLoad(w)
    BY <2>6, CompleteLoadPreserves
  <2>7. CASE CompleteCommit(w)
    BY <2>7, CompletePreserves
  <2>8. CASE DeleteCommit(w)
    BY <2>8, DeletePreserves
  <2> QED
    BY <1>3, <2>1, <2>2, <2>3, <2>4, <2>5, <2>6, <2>7, <2>8 DEF Run
<1>4. ASSUME NEW w \in Workers, Abort(w)
      PROVE  IInv'
  BY <1>4, AbortPreserves
<1> QED
  BY <1>1, <1>2, <1>3, <1>4 DEF Next

LEMMA Invariance == Spec => []IInv
<1>1. IInv /\ [Next]_vars => IInv'
  BY NextPreserves
<1> QED
  BY InitIInv, <1>1, PTL DEF Spec

LEMMA LappedType == Spec => [](lapped \in BOOLEAN)
<1>1. Init => lapped \in BOOLEAN
  BY DEF Init
<1>2. lapped \in BOOLEAN /\ [Next]_vars => (lapped \in BOOLEAN)'
  BY DEF Next, vars
<1> QED
  BY <1>1, <1>2, PTL DEF Spec

(* The tables and the transactions keep their types: what an edit, a       *)
(* replacement, a release or its mint (app/pats/command-router.ts:683)     *)
(* writes is a plan, a lot, a route or packs of at least one piece.        *)
THEOREM TypeCorrect == Spec => []TypeOK
<1>1. IInv /\ lapped \in BOOLEAN => TypeOK
  BY DEF IInv, TablesInv, TablesTyped, ProjectRow, TypeOK
<1> QED
  BY Invariance, LappedType, <1>1, PTL

(* However many transactions interleave, a pack never loses its project to *)
(* a DELETE that counted no packs (:1130).                                 *)
THEOREM PacksKeepProject == Spec => []PacksHaveProject
<1>1. IInv => PacksHaveProject
  BY DEF IInv, TablesInv, PacksBelong, PacksHaveProject
<1> QED
  BY Invariance, <1>1, PTL

(* However many transactions interleave, a released project has packs for  *)
(* exactly the parts of its plan, and at least one part: although none of  *)
(* the handlers checks the status again when it commits, the foreign keys  *)
(* of the packs keep removals and replacements (:1099, :935) off the parts *)
(* and make a release for replaced parts fail.                             *)
THEOREM ReleasedPacked == Spec => []ReleasedHasPacks
<1>1. IInv => ReleasedHasPacks
  BY DEF IInv, TablesInv
<1> QED
  BY Invariance, <1>1, PTL
-----------------------------------------------------------------------------
(* Transactions that have not overlapped so far: what one has read is      *)
(* still true when it writes, and the lot, the plan and its routes agree.  *)

Drafting == {"edit", "replace", "replacing", "route", "override", "remove",
             "release", "releasing", "minting", "delete"}

(* What a release has to mint. *)
Minted ==
    [p \in Parts |->
       IF p \in plan.parts
       THEN Trays(plan.required[ModelOf[p]], lot.packSize, packs[p])
       ELSE <<>>]

Current(w) ==
    /\ job[w].pc \in Drafting => project.status = "DRAFT"
    /\ job[w].pc = "complete" => project.status = "RELEASED"
    /\ job[w].pc = "replacing" => SameRows(w) /\ job[w].prior = plan.required
    /\ job[w].pc = "releasing" =>
         /\ SameRows(w)
         /\ job[w].parts = plan.parts
         /\ job[w].required = plan.required
         /\ job[w].packSize = lot.packSize
         /\ EveryStepTimed
    /\ job[w].pc = "minting" => job[w].trays = Minted /\ EveryStepTimed

AllCurrent == \A w \in Workers : Current(w)

Books == LotCitesNewestRoute /\ TargetIsTotal /\ ReleasedIsTimed

Serial == ~lapped => Books /\ AllCurrent

(* No other transaction is under way: only what w reads can matter. *)
LEMMA OnlyOne ==
  ASSUME NEW w \in Workers, ~Overlaps(w), Current(w)',
         \A v \in Workers \ {w} : job'[v] = job[v]
  PROVE  AllCurrent'
<1>1. ASSUME NEW v \in Workers \ {w} PROVE Current(v)'
  <2>1. job'[v].pc = "idle"
    BY DEF Overlaps, Idle
  <2> QED BY <2>1 DEF Current, Drafting
<1> QED
  BY <1>1 DEF AllCurrent

LEMMA NoneLeft ==
  ASSUME IInv, NEW w \in Workers, ~Overlaps(w), job' = [job EXCEPT ![w] = Idle]
  PROVE  AllCurrent'
<1>1. job'[w].pc = "idle" /\ \A v \in Workers \ {w} : job'[v] = job[v]
  BY DEF IInv, Idle
<1>2. Current(w)'
  BY <1>1 DEF Current, Drafting
<1> QED
  BY <1>1, <1>2, OnlyOne

(* The books do not speak of packs. *)
LEMMA BooksKept ==
  ASSUME Books, UNCHANGED <<project, plan, routes, lot>>
  PROVE  Books'
  BY DEF Books, LotCitesNewestRoute, TargetIsTotal, ReleasedIsTimed, Alive, Timed

(* A transaction that goes on has read what is true now. *)
LEMMA ReadsKeepSerial ==
  ASSUME IInv, Books, NEW w \in Workers, ~Overlaps(w), NEW tx,
         job' = [job EXCEPT ![w] = tx], UNCHANGED tables,
         tx.pc \in Drafting => project.status = "DRAFT",
         tx.pc = "complete" => project.status = "RELEASED",
         tx.pc = "replacing" => tx.rows = plan.rows /\ tx.prior = plan.required,
         tx.pc = "releasing" =>
           /\ tx.rows = plan.rows /\ tx.parts = plan.parts
           /\ tx.required = plan.required /\ tx.packSize = lot.packSize
           /\ EveryStepTimed,
         tx.pc = "minting" => tx.trays = Minted /\ EveryStepTimed
  PROVE  Books' /\ AllCurrent'
<1>1. job'[w] = tx /\ \A v \in Workers \ {w} : job'[v] = job[v]
  BY DEF IInv
<1>2. Minted' = Minted /\ EveryStepTimed' = EveryStepTimed
  BY DEF Minted, EveryStepTimed, Timed, tables
<1>3. Current(w)'
  BY <1>1, <1>2 DEF Current, SameRows, tables
<1> QED
  BY <1>1, <1>3, OnlyOne, BooksKept DEF tables

LEMMA LoadsKeepSerial ==
  ASSUME IInv, Books, NEW w \in Workers, ~Overlaps(w),
         \/ EditLoad(w) \/ RouteLoad(w) \/ ReleaseLoad(w) \/ DeleteLoad(w)
         \/ CompleteLoad(w)
         \/ \E required \in Requirements : ReplaceLoad(w, required)
         \/ \E p \in Parts : OverrideLoad(w, p) \/ RemovePartLoad(w, p)
  PROVE  Books' /\ AllCurrent'
<1>1. ASSUME NEW tx, LoadDraft(w, tx),
             tx.pc \notin {"replacing", "releasing", "minting", "complete"}
      PROVE  Books' /\ AllCurrent'
  BY <1>1, ReadsKeepSerial DEF LoadDraft, Begin
<1>2. CASE CompleteLoad(w)
  <2> DEFINE tx == [pc |-> "complete"]
  <2>1. tx.pc = "complete" /\ "complete" \notin Drafting
    BY DEF Drafting
  <2>2. /\ job' = [job EXCEPT ![w] = tx] /\ UNCHANGED tables
        /\ project.status = "RELEASED"
    BY <1>2 DEF CompleteLoad, Begin
  <2> HIDE DEF tx
  <2> QED BY <2>1, <2>2, ReadsKeepSerial
<1>3. CASE EditLoad(w)
  BY <1>1, <1>3 DEF EditLoad
<1>4. CASE RouteLoad(w)
  BY <1>1, <1>4 DEF RouteLoad
<1>5. CASE ReleaseLoad(w)
  BY <1>1, <1>5 DEF ReleaseLoad
<1>6. CASE DeleteLoad(w)
  BY <1>1, <1>6 DEF DeleteLoad
<1>7. ASSUME NEW required \in Requirements, ReplaceLoad(w, required)
      PROVE  Books' /\ AllCurrent'
  BY <1>1, <1>7 DEF ReplaceLoad
<1>8. ASSUME NEW p \in Parts, OverrideLoad(w, p) \/ RemovePartLoad(w, p)
      PROVE  Books' /\ AllCurrent'
  BY <1>1, <1>8 DEF OverrideLoad, RemovePartLoad
<1> QED
  BY <1>2, <1>3, <1>4, <1>5, <1>6, <1>7, <1>8
LEMMA StagesKeepSerial ==
  ASSUME IInv, Books, NEW w \in Workers, ~Overlaps(w), Current(w),
         ReplaceRead(w) \/ ReleaseCheck(w) \/ ReleaseMint(w) \/ Abort(w)
  PROVE  Books' /\ AllCurrent'
<1>1. CASE Abort(w)
  BY <1>1, BooksKept, NoneLeft DEF Abort, tables
<1>2. CASE ReplaceRead(w)
  <2> DEFINE tx == [pc |-> "replacing", required |-> job[w].required,
                    rows |-> plan.rows, prior |-> plan.required]
  <2>1. job' = [job EXCEPT ![w] = tx] /\ UNCHANGED tables
        /\ project.status = "DRAFT"
    BY <1>2 DEF ReplaceRead, Continue, Current, Drafting
  <2>2. tx.pc = "replacing" /\ tx.rows = plan.rows /\ tx.prior = plan.required
    OBVIOUS
  <2> HIDE DEF tx
  <2> QED BY <2>1, <2>2, ReadsKeepSerial
<1>3. CASE ReleaseCheck(w)
  <2> DEFINE tx == [pc |-> "releasing", rows |-> plan.rows,
                    parts |-> plan.parts, required |-> plan.required,
                    packSize |-> lot.packSize, count |-> PackCount]
  <2>1. job' = [job EXCEPT ![w] = tx] /\ UNCHANGED tables
        /\ project.status = "DRAFT" /\ EveryStepTimed
    BY <1>3 DEF ReleaseCheck, Continue, Current, Drafting
  <2>2. tx.pc = "releasing" /\ tx.rows = plan.rows /\ tx.parts = plan.parts
        /\ tx.required = plan.required /\ tx.packSize = lot.packSize
    OBVIOUS
  <2> HIDE DEF tx
  <2> QED BY <2>1, <2>2, ReadsKeepSerial
<1>4. CASE ReleaseMint(w)
  <2> DEFINE trays == [p \in Parts |->
        IF p \in job[w].parts
        THEN Trays(job[w].required[ModelOf[p]], job[w].packSize,
                   IF SameRows(w) THEN packs[p] ELSE <<>>)
        ELSE <<>>]
      tx == [pc |-> "minting", rows |-> job[w].rows, count |-> job[w].count,
             trays |-> trays]
  <2>1. job[w].pc = "releasing" /\ job' = [job EXCEPT ![w] = tx]
        /\ UNCHANGED tables
    BY <1>4 DEF ReleaseMint, Continue
  <2>2. /\ project.status = "DRAFT" /\ SameRows(w) /\ EveryStepTimed
        /\ job[w].parts = plan.parts /\ job[w].required = plan.required
        /\ job[w].packSize = lot.packSize
    BY <2>1 DEF Current, Drafting
  <2>3. trays = Minted
    BY <2>2 DEF Minted
  <2>4. tx.pc = "minting" /\ tx.trays = trays
    OBVIOUS
  <2> HIDE DEF tx, trays
  <2> QED BY <2>1, <2>2, <2>3, <2>4, ReadsKeepSerial
<1> QED
  BY <1>1, <1>2, <1>3, <1>4

(* Alone, a replacement of quantities writes what it was asked for. *)
LEMMA ReplacedAsAsked ==
  ASSUME IInv, NEW w \in Workers, Current(w), ReplaceQuantities(w)
  PROVE  plan'.required = job[w].required
<1>1. /\ job[w].pc = "replacing" /\ Alive
      /\ DOMAIN job[w].required = DOMAIN job[w].prior
      /\ plan' = [plan EXCEPT !.required =
           [m \in DOMAIN @ |->
              IF m \in Changed(w) THEN job[w].required[m] ELSE @[m]]]
  BY DEF ReplaceQuantities, Finish
<1>2. job[w].prior = plan.required
  BY <1>1 DEF Current
<1>3. plan'.required = [m \in DOMAIN plan.required |->
        IF m \in Changed(w) THEN job[w].required[m] ELSE plan.required[m]]
  BY <1>1, Typing DEF Plan
<1>4. \A m \in DOMAIN plan.required : plan'.required[m] = job[w].required[m]
  BY <1>1, <1>2, <1>3 DEF Changed
<1>5. job[w].required \in Requirements
  BY <1>1, JobShape DEF IInv
<1>6. job[w].required = [m \in DOMAIN job[w].required |-> job[w].required[m]]
  BY <1>5, RequirementsType
<1> QED
  BY <1>1, <1>2, <1>3, <1>4, <1>6

LEMMA EditsKeepSerial ==
  ASSUME IInv, Books, NEW w \in Workers, ~Overlaps(w), Current(w),
         EditCommit(w) \/ ReplaceQuantities(w) \/ ReplaceAll(w)
         \/ RouteCommit(w) \/ OverrideCommit(w) \/ RemovePartCommit(w)
  PROVE  Books' /\ AllCurrent'
<1>1. /\ job' = [job EXCEPT ![w] = Idle] /\ Alive
      /\ project.status = "DRAFT"
  BY DEF EditCommit, ReplaceQuantities, ReplaceAll, RouteCommit,
     OverrideCommit, RemovePartCommit, Finish, Current, Drafting
<1>2. AllCurrent'
  BY <1>1, NoneLeft
<1>3. project'.status = "DRAFT" /\ ReleasedIsTimed'
  <2>1. project'.status = "DRAFT"
    BY <1>1, Typing DEF ProjectRow, EditCommit, ReplaceQuantities, ReplaceAll,
       RouteCommit, OverrideCommit, RemovePartCommit, Bump
  <2> QED BY <2>1 DEF ReleasedIsTimed
<1>4. lot.route = Len(routes) /\ lot.target = Total(plan.required)
  BY <1>1 DEF Books, LotCitesNewestRoute, TargetIsTotal
<1>5. lot \in Lot /\ plan \in Plan
  BY <1>1, Typing
<1>6. CASE EditCommit(w)
  <2>1. lot'.route = lot.route /\ lot'.target = lot.target
        /\ plan' = plan /\ routes' = routes
    BY <1>5, <1>6 DEF EditCommit, Lot
  <2> QED BY <1>2, <1>3, <1>4, <2>1 DEF Books, LotCitesNewestRoute, TargetIsTotal
<1>7. CASE ReplaceQuantities(w)
  <2>1. lot'.route = lot.route /\ lot'.target = Total(job[w].required)
        /\ routes' = routes
    BY <1>5, <1>7 DEF ReplaceQuantities, Lot
  <2> QED BY <1>2, <1>3, <1>4, <1>7, <2>1, ReplacedAsAsked
          DEF Books, LotCitesNewestRoute, TargetIsTotal
<1>8. CASE ReplaceAll(w)
  <2>1. lot'.route = 1 /\ lot'.target = Total(job[w].required)
    BY <1>5, <1>8 DEF ReplaceAll, Lot
  <2>2. Len(routes') = 1 /\ plan'.required = job[w].required
    BY <1>8 DEF ReplaceAll, FreshPlan
  <2> QED BY <1>2, <1>3, <2>1, <2>2 DEF Books, LotCitesNewestRoute, TargetIsTotal
<1>9. CASE RouteCommit(w)
  <2>1. lot'.route = Len(routes) + 1 /\ lot'.target = lot.target /\ plan' = plan
    BY <1>5, <1>9 DEF RouteCommit, Lot
  <2>2. Len(routes') = Len(routes) + 1
    <3>1. PICK steps \in [Parts -> SUBSET Stations] : routes' = Append(routes, steps)
      BY <1>9 DEF RouteCommit
    <3> QED BY <3>1, Typing
  <2> QED BY <1>2, <1>3, <1>4, <2>1, <2>2 DEF Books, LotCitesNewestRoute, TargetIsTotal
<1>10. CASE OverrideCommit(w)
  <2>1. lot' = lot /\ routes' = routes /\ plan'.required = plan.required
    BY <1>5, <1>10 DEF OverrideCommit, Plan
  <2> QED BY <1>2, <1>3, <1>4, <2>1 DEF Books, LotCitesNewestRoute, TargetIsTotal
<1>11. CASE RemovePartCommit(w)
  <2>1. lot' = lot /\ plan'.required = plan.required
    BY <1>5, <1>11 DEF RemovePartCommit, Plan
  <2>2. Len(routes') = Len(routes)
    <3>1. DOMAIN routes = 1..Len(routes) /\ Len(routes) \in Nat
      BY Typing
    <3>2. routes' = [v \in 1..Len(routes) |-> [routes[v] EXCEPT ![job[w].part] = {}]]
      BY <1>11, <3>1 DEF RemovePartCommit
    <3> QED BY <3>1, <3>2
  <2> QED BY <1>2, <1>3, <1>4, <2>1, <2>2 DEF Books, LotCitesNewestRoute, TargetIsTotal
<1> QED
  BY <1>6, <1>7, <1>8, <1>9, <1>10, <1>11

LEMMA RunsKeepSerial ==
  ASSUME IInv, Books, NEW w \in Workers, ~Overlaps(w), Current(w),
         ReleaseCommit(w) \/ CompleteCommit(w) \/ DeleteCommit(w)
  PROVE  Books' /\ AllCurrent'
<1>1. job' = [job EXCEPT ![w] = Idle] /\ Alive
  BY DEF ReleaseCommit, CompleteCommit, DeleteCommit, Finish
<1>2. AllCurrent'
  BY <1>1, NoneLeft
<1>3. CASE ReleaseCommit(w)
  <2>1. lot.route = Len(routes) /\ lot.target = Total(plan.required)
    BY <1>1 DEF Books, LotCitesNewestRoute, TargetIsTotal
  <2>2. plan' = plan /\ routes' = routes /\ EveryStepTimed
    BY <1>3 DEF ReleaseCommit, Finish, Current
  <2>3. lot'.route = lot.route /\ lot'.target = lot.target
    BY <1>1, <1>3, Typing DEF ReleaseCommit, Lot
  <2>4. LotCitesNewestRoute' /\ TargetIsTotal'
    BY <2>1, <2>2, <2>3 DEF LotCitesNewestRoute, TargetIsTotal
  <2>5. ReleasedIsTimed'
    BY <2>1, <2>2 DEF ReleasedIsTimed, EveryStepTimed, Timed
  <2> QED BY <1>2, <2>4, <2>5 DEF Books
<1>4. CASE CompleteCommit(w)
  <2>1. project.status = "RELEASED" /\ UNCHANGED <<plan, routes, lot>>
    BY <1>4 DEF CompleteCommit, Finish, Current
  <2>2. LotCitesNewestRoute' /\ TargetIsTotal'
    BY <1>1, <2>1 DEF Books, LotCitesNewestRoute, TargetIsTotal
  <2>3. ReleasedIsTimed'
    BY <2>1 DEF Books, ReleasedIsTimed, Timed
  <2> QED BY <1>2, <2>2, <2>3 DEF Books
<1>5. CASE DeleteCommit(w)
  <2>1. project'.status = "DELETED"
    BY <1>5, Typing DEF DeleteCommit, ProjectRow
  <2> QED BY <1>2, <2>1 DEF Books, LotCitesNewestRoute, TargetIsTotal,
          ReleasedIsTimed, Alive
<1> QED
  BY <1>3, <1>4, <1>5

(* Creating a project and planning a pack are transactions of one step. *)
LEMMA OneStepKeepsSerial ==
  ASSUME IInv, Books, NEW w \in Workers, ~Overlaps(w), job[w] = Idle,
         \/ \E product \in Products \cup {NoProduct}, required \in Requirements,
               size \in PackSizes : CreateProject(w, product, required, size)
         \/ \E p \in Parts, quantity \in Quantities : PlanPack(w, p, quantity)
  PROVE  Books' /\ AllCurrent'
<1>1. job' = job
  BY DEF CreateProject, PlanPack
<1>2. job' = [job EXCEPT ![w] = Idle]
  BY <1>1 DEF IInv
<1>3. AllCurrent'
  BY <1>2, NoneLeft
<1>4. ASSUME NEW product, NEW required, NEW size,
             CreateProject(w, product, required, size)
      PROVE  Books'
  <2>1. project'.status = "DRAFT" /\ lot'.route = 1 /\ Len(routes') = 1
        /\ lot'.target = Total(required) /\ plan'.required = required
    BY <1>4 DEF CreateProject, FreshPlan
  <2> QED BY <2>1 DEF Books, LotCitesNewestRoute, TargetIsTotal, ReleasedIsTimed
<1>5. ASSUME NEW p, NEW quantity, PlanPack(w, p, quantity)
      PROVE  Books'
  BY <1>5, BooksKept DEF PlanPack
<1> QED
  BY <1>3, <1>4, <1>5

LEMMA SerialInit == Init => Serial
<1> SUFFICES ASSUME Init PROVE Books /\ AllCurrent
  BY DEF Serial
<1>1. project.status = "NONE" /\ \A w \in Workers : job[w].pc = "idle"
  BY DEF Init, Idle
<1> QED
  BY <1>1 DEF Books, LotCitesNewestRoute, TargetIsTotal, ReleasedIsTimed, Alive,
     AllCurrent, Current, Drafting

(* A step before the first overlap is one of a transaction that is alone.  *)
LEMMA AloneStep ==
  ASSUME Serial, Next, ~lapped'
  PROVE  /\ Books /\ AllCurrent
         /\ \E w \in Workers : ~Overlaps(w) /\ (Draft(w) \/ Run(w) \/ Abort(w))
  BY DEF Next, Serial

LEMMA SerialStep == IInv /\ Serial /\ [Next]_vars => Serial'
<1>1. SUFFICES ASSUME IInv, Serial, [Next]_vars, ~lapped'
               PROVE  Books' /\ AllCurrent'
  BY DEF Serial
<1>2. CASE UNCHANGED vars
  <2>1. Books /\ AllCurrent
    BY <1>1, <1>2 DEF Serial, vars
  <2>2. AllCurrent'
    BY <1>2, <2>1 DEF vars, AllCurrent, Current, SameRows, Minted,
       EveryStepTimed, Timed
  <2> QED BY <1>2, <2>1, <2>2, BooksKept DEF vars
<1>3. CASE Next
  <2>1. Books /\ AllCurrent
    BY <1>1, <1>3, AloneStep
  <2>2. PICK w \in Workers : ~Overlaps(w) /\ (Draft(w) \/ Run(w) \/ Abort(w))
    BY <1>1, <1>3, AloneStep
  <2>3. Current(w)
    BY <2>1 DEF AllCurrent
  <2>4. CASE Draft(w)
    <3>1. CASE \E product \in Products \cup {NoProduct},
                  required \in Requirements, size \in PackSizes :
                    CreateProject(w, product, required, size)
      <4>1. job[w] = Idle
        BY <3>1 DEF CreateProject
      <4> QED BY <1>1, <2>1, <2>2, <3>1, <4>1, OneStepKeepsSerial
    <3>2. CASE \/ EditLoad(w) \/ RouteLoad(w)
               \/ \E required \in Requirements : ReplaceLoad(w, required)
               \/ \E p \in Parts : OverrideLoad(w, p) \/ RemovePartLoad(w, p)
      BY <1>1, <2>1, <2>2, <3>2, LoadsKeepSerial
    <3>3. CASE ReplaceRead(w)
      BY <1>1, <2>1, <2>2, <2>3, <3>3, StagesKeepSerial
    <3>4. CASE EditCommit(w) \/ ReplaceQuantities(w) \/ ReplaceAll(w)
               \/ RouteCommit(w) \/ OverrideCommit(w) \/ RemovePartCommit(w)
      BY <1>1, <2>1, <2>2, <2>3, <3>4, EditsKeepSerial
    <3> QED BY <2>4, <3>1, <3>2, <3>3, <3>4 DEF Draft
  <2>5. CASE Run(w)
    <3>1. CASE \E p \in Parts, quantity \in Quantities : PlanPack(w, p, quantity)
      <4>1. job[w] = Idle
        BY <3>1 DEF PlanPack
      <4> QED BY <1>1, <2>1, <2>2, <3>1, <4>1, OneStepKeepsSerial
    <3>2. CASE ReleaseLoad(w) \/ CompleteLoad(w) \/ DeleteLoad(w)
      BY <1>1, <2>1, <2>2, <3>2, LoadsKeepSerial
    <3>3. CASE ReleaseCheck(w) \/ ReleaseMint(w)
      BY <1>1, <2>1, <2>2, <2>3, <3>3, StagesKeepSerial
    <3>4. CASE ReleaseCommit(w) \/ CompleteCommit(w) \/ DeleteCommit(w)
      BY <1>1, <2>1, <2>2, <2>3, <3>4, RunsKeepSerial
    <3> QED BY <2>5, <3>1, <3>2, <3>3, <3>4 DEF Run
  <2>6. CASE Abort(w)
    BY <1>1, <2>1, <2>2, <2>3, <2>6, StagesKeepSerial
  <2> QED BY <2>2, <2>4, <2>5, <2>6
<1> QED
  BY <1>1, <1>2, <1>3

(* The inductive invariant of transactions that run one at a time: none is *)
(* behind the rows it read, and plan, routes and lot agree.                *)
THEOREM SerialInductive == Spec => []Serial
  BY SerialInit, SerialStep, Invariance, PTL DEF Spec

(* As long as no two transactions have overlapped, the lot cites the       *)
(* newest route (:1035), its target adds up to the requirements, and what  *)
(* is released has a cycle time for every step (:659).                     *)
THEOREM LotKept == Spec => []LotAgrees
<1>1. Serial => LotAgrees
  BY DEF Serial, Books, LotAgrees
<1> QED
  BY <1>1, SerialInductive, PTL
-----------------------------------------------------------------------------
(* The life of a project. *)

(* No step changes the plan and keeps the version. *)
LEMMA VersionsName ==
  ASSUME IInv, Next
  PROVE  VersionNamesStep
<1>1. PICK w \in Workers : Draft(w) \/ Run(w) \/ Abort(w)
  BY DEF Next
<1>2. project.version \in Nat
  BY Typing
<1>3. ASSUME UNCHANGED <<project, plan, routes, lot>> PROVE VersionNamesStep
  BY <1>3 DEF VersionNamesStep
<1>4. ASSUME Bump \/ BumpTo("RELEASED") \/ BumpTo("COMPLETED")
      PROVE  VersionNamesStep
  <2>1. project'.version = project.version + 1
    BY <1>4, Typing, BumpType
  <2> QED BY <1>2, <2>1 DEF VersionNamesStep
<1>5. CASE Draft(w)
  <2>1. ASSUME NEW product, NEW required, NEW size,
               CreateProject(w, product, required, size)
        PROVE  VersionNamesStep
    <3>1. project'.version = 1 /\ project.version = 0
      BY <2>1 DEF CreateProject, IInv, TablesInv, PlanIsCoherent
    <3> QED BY <3>1 DEF VersionNamesStep
  <2>2. CASE EditCommit(w)
    <3>1. project'.version = project.version + 1
      BY <2>2, Typing DEF EditCommit, ProjectRow
    <3> QED BY <1>2, <3>1 DEF VersionNamesStep
  <2>3. CASE OverrideCommit(w)
    <3>1. UNCHANGED <<project, routes, lot>>
      BY <2>3 DEF OverrideCommit
    <3>2. plan'.required = plan.required /\ plan'.parts = plan.parts
      BY <2>3, Typing DEF OverrideCommit, Finish, Plan
    <3> QED BY <3>1, <3>2 DEF VersionNamesStep
  <2>4. CASE ReplaceQuantities(w) \/ ReplaceAll(w) \/ RouteCommit(w)
             \/ RemovePartCommit(w)
    BY <1>4, <2>4 DEF ReplaceQuantities, ReplaceAll, RouteCommit, RemovePartCommit
  <2>5. CASE EditLoad(w) \/ RouteLoad(w) \/ ReplaceRead(w)
    BY <1>3, <2>5 DEF EditLoad, RouteLoad, ReplaceRead, LoadDraft, tables
  <2>6. ASSUME NEW required, ReplaceLoad(w, required) PROVE VersionNamesStep
    BY <1>3, <2>6 DEF ReplaceLoad, LoadDraft, tables
  <2>7. ASSUME NEW p, OverrideLoad(w, p) \/ RemovePartLoad(w, p)
        PROVE  VersionNamesStep
    BY <1>3, <2>7 DEF OverrideLoad, RemovePartLoad, LoadDraft, tables
  <2> QED BY <1>5, <2>1, <2>2, <2>3, <2>4, <2>5, <2>6, <2>7 DEF Draft
<1>6. CASE Run(w)
  <2>1. CASE ReleaseCommit(w) \/ CompleteCommit(w)
    BY <1>4, <2>1 DEF ReleaseCommit, CompleteCommit
  <2>2. CASE DeleteCommit(w)
    <3>1. project'.status = "DELETED"
      BY <2>2, Typing DEF DeleteCommit, ProjectRow
    <3> QED BY <3>1 DEF VersionNamesStep
  <2>3. CASE ReleaseLoad(w) \/ ReleaseCheck(w) \/ ReleaseMint(w)
             \/ CompleteLoad(w) \/ DeleteLoad(w)
    BY <1>3, <2>3 DEF ReleaseLoad, ReleaseCheck, ReleaseMint, CompleteLoad,
       DeleteLoad, LoadDraft, tables
  <2>4. ASSUME NEW p, NEW quantity, PlanPack(w, p, quantity)
        PROVE  VersionNamesStep
    BY <1>3, <2>4 DEF PlanPack
  <2> QED BY <1>6, <2>1, <2>2, <2>3, <2>4 DEF Run
<1>7. CASE Abort(w)
  BY <1>3, <1>7 DEF Abort, tables
<1> QED
  BY <1>1, <1>5, <1>6, <1>7

(* The steps that change none of what was planned. *)
LEMMA PlannedKept ==
  ASSUME \/ UNCHANGED <<project, plan, routes, lot>>
         \/ /\ Alive /\ Alive' /\ UNCHANGED <<plan, routes>>
            /\ project'.product = project.product /\ lot'.route = lot.route
            /\ lot'.target = lot.target /\ lot'.packSize = lot.packSize
  PROVE  UNCHANGED Planned
  BY DEF Planned, Alive, Nothing

(* Alone, a step is one of the life of a project, or none.                 *)
LEMMA LivesOn ==
  ASSUME IInv, NEW w \in Workers, Current(w), Draft(w) \/ Run(w) \/ Abort(w)
  PROVE  [Life!Next]_<<project.status, Planned>>
<1>1. ASSUME UNCHANGED <<project, plan, routes, lot>>
      PROVE  UNCHANGED <<project.status, Planned>>
  BY <1>1, PlannedKept
<1>2. ASSUME project.status = "DRAFT", project'.status = "DRAFT"
      PROVE  Life!Next
  BY <1>2 DEF Life!Next, Life!Edit
<1>3. CASE \/ EditCommit(w) \/ ReplaceQuantities(w) \/ ReplaceAll(w)
           \/ RouteCommit(w) \/ OverrideCommit(w) \/ RemovePartCommit(w)
  <2>1. project.status = "DRAFT"
    BY <1>3 DEF EditCommit, ReplaceQuantities, ReplaceAll, RouteCommit,
       OverrideCommit, RemovePartCommit, Finish, Current, Drafting
  <2>2. project'.status = "DRAFT"
    BY <1>3, <2>1, Typing DEF ProjectRow, EditCommit, ReplaceQuantities,
       ReplaceAll, RouteCommit, OverrideCommit, RemovePartCommit, Bump
  <2> QED BY <1>2, <2>1, <2>2
<1>4. ASSUME NEW product, NEW required, NEW size,
             CreateProject(w, product, required, size)
      PROVE  Life!Next
  BY <1>4 DEF CreateProject, Life!Next, Life!Create
<1>5. CASE ReleaseCommit(w)
  <2>1. project.status = "DRAFT" /\ project'.status = "RELEASED"
    BY <1>5, Typing DEF ReleaseCommit, Finish, BumpTo, ProjectRow, Current, Drafting
  <2>2. project'.product = project.product /\ UNCHANGED <<plan, routes>>
    BY <1>5, Typing DEF ReleaseCommit, BumpTo, ProjectRow
  <2>3. lot'.route = lot.route /\ lot'.target = lot.target
        /\ lot'.packSize = lot.packSize
    BY <1>5, <2>1, Typing DEF ReleaseCommit, Lot, Alive
  <2>4. UNCHANGED Planned
    BY <2>1, <2>2, <2>3, PlannedKept DEF Alive
  <2> QED BY <2>1, <2>4 DEF Life!Next, Life!Release
<1>6. CASE CompleteCommit(w)
  <2>1. project.status = "RELEASED" /\ project'.status = "COMPLETED"
    BY <1>6, Typing DEF CompleteCommit, Finish, BumpTo, ProjectRow, Current
  <2>2. project'.product = project.product /\ UNCHANGED <<plan, routes, lot>>
    BY <1>6, Typing DEF CompleteCommit, BumpTo, ProjectRow
  <2>3. UNCHANGED Planned
    BY <2>1, <2>2, PlannedKept DEF Alive
  <2> QED BY <2>1, <2>3 DEF Life!Next, Life!Complete
<1>7. CASE DeleteCommit(w)
  <2>1. project.status = "DRAFT" /\ project'.status = "DELETED"
    BY <1>7, Typing DEF DeleteCommit, Finish, ProjectRow, Current, Drafting
  <2> QED BY <2>1 DEF Life!Next, Life!Delete
<1>8. ASSUME \/ EditLoad(w) \/ RouteLoad(w) \/ ReplaceRead(w)
             \/ ReleaseLoad(w) \/ ReleaseCheck(w) \/ ReleaseMint(w)
             \/ CompleteLoad(w) \/ DeleteLoad(w) \/ Abort(w)
      PROVE  UNCHANGED <<project.status, Planned>>
  <2>1. UNCHANGED tables
    BY <1>8 DEF EditLoad, RouteLoad, ReplaceRead, ReleaseLoad, ReleaseCheck,
       ReleaseMint, CompleteLoad, DeleteLoad, Abort, LoadDraft
  <2> QED BY <1>1, <2>1 DEF tables
<1>9. ASSUME NEW required, ReplaceLoad(w, required)
      PROVE  UNCHANGED <<project.status, Planned>>
  BY <1>1, <1>9 DEF ReplaceLoad, LoadDraft, tables
<1>10. ASSUME NEW p, OverrideLoad(w, p) \/ RemovePartLoad(w, p)
       PROVE  UNCHANGED <<project.status, Planned>>
  BY <1>1, <1>10 DEF OverrideLoad, RemovePartLoad, LoadDraft, tables
<1>11. ASSUME NEW p, NEW quantity, PlanPack(w, p, quantity)
       PROVE  UNCHANGED <<project.status, Planned>>
  BY <1>1, <1>11 DEF PlanPack
<1> QED
  BY <1>3, <1>4, <1>5, <1>6, <1>7, <1>8, <1>9, <1>10, <1>11 DEF Draft, Run

(* A project lives the life ProjectLife tells: until transactions overlap  *)
(* a released plan stands, and however they interleave no edit of a draft  *)
(* keeps the ETag of what it replaced.                                     *)
THEOREM PlanKept == Spec => KeepsPlan
<1>1. Init => Life!Init
  BY DEF Init, Life!Init, Planned, Alive, Nothing
<1>2. IInv /\ Serial /\ [Next]_vars =>
        [/\ ~lapped' => [Life!Next]_<<project.status, Planned>>
         /\ VersionNamesStep]_vars
  <2>1. SUFFICES ASSUME IInv, Serial, Next
                 PROVE  /\ ~lapped' => [Life!Next]_<<project.status, Planned>>
                        /\ VersionNamesStep
    OBVIOUS
  <2>2. ASSUME ~lapped' PROVE [Life!Next]_<<project.status, Planned>>
    <3>1. PICK w \in Workers : Draft(w) \/ Run(w) \/ Abort(w)
      BY <2>1, <2>2, AloneStep
    <3>2. Current(w)
      BY <2>1, <2>2, AloneStep DEF AllCurrent
    <3> QED BY <2>1, <3>1, <3>2, LivesOn
  <2> QED BY <2>1, <2>2, VersionsName
<1> QED
  BY <1>1, <1>2, Invariance, SerialInductive, PTL DEF Spec, KeepsPlan
-----------------------------------------------------------------------------
(* What a release mints. *)

(* Trays filled one after another hold what is left, or are all full.      *)
LEMMA TraySums ==
  ASSUME NEW left \in Nat, NEW size \in Nat \ {0}
  PROVE  \A n \in Nat : n <= Ceiling(left, size) =>
           SumFunction([t \in 1..n |-> Min({size, left - (t - 1) * size})]) =
             IF n * size <= left THEN n * size ELSE left
<1> DEFINE tray(t) == Min({size, left - (t - 1) * size})
           trays(n) == [t \in 1..n |-> tray(t)]
           held(n) == IF n * size <= left THEN n * size ELSE left
           Bad == {n \in Nat : n <= Ceiling(left, size)
                               /\ SumFunction(trays(n)) # held(n)}
<1>1. SUFFICES ASSUME Bad # {} PROVE FALSE
  OBVIOUS
<1>2. PICK n \in Bad : \A k \in Bad : n <= k
  <2>1. Bad \in SUBSET Nat
    OBVIOUS
  <2> HIDE DEF Bad
  <2> QED BY <1>1, <2>1, LeastNumber
<1>3. n # 0
  <2>1. trays(0) = <<>>
    OBVIOUS
  <2>2. held(0) = 0
    OBVIOUS
  <2> HIDE DEF trays, held
  <2> QED BY <1>2, <2>1, <2>2, SumOfNone
<1> DEFINE m == n - 1
<1>4. m \in Nat /\ n = m + 1 /\ n <= Ceiling(left, size) /\ m \notin Bad
      /\ Ceiling(left, size) \in Nat
  <2>1. n \in Nat /\ n <= Ceiling(left, size)
    OBVIOUS
  <2>2. \A k \in Bad : n <= k
    BY <1>2
  <2> HIDE DEF Bad
  <2> QED BY <1>3, <2>1, <2>2, CeilingType
<1>5. m * size < left /\ m * size \in Nat /\ (m + 1) * size = m * size + size
  <2>1. (n - 1) * size < left
    BY <1>3, <1>4, CeilingType
  <2>2. size \in Nat
    OBVIOUS
  <2> QED BY <1>4, <2>1, <2>2, OneMoreTimes
<1>6. SumFunction(trays(m)) = m * size
  <2>1. SumFunction(trays(m)) = held(m)
    <3>1. m <= Ceiling(left, size)
      BY <1>4
    <3> HIDE DEF trays, held, m
    <3> QED BY <1>4, <3>1
  <2> QED BY <1>5, <2>1
<1> DEFINE before == m * size
<1>7. tray(n) = IF size <= left - before THEN size ELSE left - before
  <2> HIDE DEF before
  <2>1. before \in Nat
    BY <1>5 DEF before
  <2> QED BY <2>1, MinOfTwo DEF before
<1>8. \A t \in 1..n : tray(t) \in Nat
  <2>1. SUFFICES ASSUME NEW t \in 1..n PROVE tray(t) \in Nat
    OBVIOUS
  <2>2. t \in Nat \ {0} /\ t <= Ceiling(left, size)
    BY <1>4
  <2>3. (t - 1) * size < left /\ (t - 1) * size \in Nat
    <3>1. t - 1 \in Nat /\ size \in Nat
      BY <2>2
    <3> QED BY <2>2, <3>1, CeilingType, OneMoreTimes
  <2> DEFINE sofar == (t - 1) * size
  <2> HIDE DEF sofar
  <2>4. Min({size, left - sofar}) =
          IF size <= left - sofar THEN size ELSE left - sofar
    BY <2>3, MinOfTwo DEF sofar
  <2> QED BY <2>3, <2>4 DEF sofar
<1>9. SumFunction(trays(n)) = SumFunction(trays(m)) + tray(n)
  <2>1. DOMAIN trays(n) = 1..(m + 1) /\ DOMAIN trays(m) = 1..m
    BY <1>4
  <2>2. /\ \A i \in 1..(m + 1) : trays(n)[i] \in Nat
        /\ \A i \in 1..m : trays(m)[i] = trays(n)[i]
        /\ trays(n)[m + 1] = tray(n)
    <3> HIDE DEF tray
    <3> QED BY <1>4, <1>8
  <2> HIDE DEF trays, tray, m
  <2> QED BY <1>4, <2>1, <2>2, SumOneMore
<1>10. SumFunction(trays(n)) = held(n)
  <2>1. held(n) = IF before + size <= left THEN before + size ELSE left
    BY <1>4, <1>5
  <2>2. SumFunction(trays(n)) = before + tray(n)
    BY <1>6, <1>9
  <2>3. before \in Nat
    BY <1>5
  <2> HIDE DEF before, held, trays
  <2> QED BY <1>7, <2>1, <2>2, <2>3
<1> QED
  BY <1>10

LEMMA CeilingCovers ==
  ASSUME NEW a \in Nat, NEW b \in Nat \ {0}
  PROVE  Ceiling(a, b) * b >= a
  BY Z3 DEF Ceiling

(* However many packs there are, trays of a size that none of them is      *)
(* below make up what is required, or have used the series up; a part      *)
(* without packs gets exactly what is required.                            *)
LEMMA TraysAddUp ==
  ASSUME NEW required \in Nat \ {0}, NEW size \in Nat \ {0},
         NEW planned \in Seq(Nat \ {0})
  PROVE  /\ (\A k \in DOMAIN planned : planned[k] >= size) =>
              SumFunction(planned) + SumFunction(Trays(required, size, planned))
                >= required
         /\ planned = <<>> =>
              /\ SumFunction(Trays(required, size, planned)) = required
              /\ Len(Trays(required, size, planned)) = Ceiling(required, size)
<1> DEFINE had == SumFunction(planned)
           n == Len(planned)
           left == Max({0, required - had})
           most == Ceiling(required, size)
           series == Max({1, most})
           need == Ceiling(left, size)
           least == Min({need, series - n})
           count == Max({0, least})
           trays == [t \in 1..count |-> Min({size, left - (t - 1) * size})]
           sum == SumFunction(trays)
<1>1. had \in Nat /\ n \in Nat /\ (planned = <<>> => had = 0 /\ n = 0)
  BY SeqSumType, SumOfNone
<1>2. left = IF had <= required THEN required - had ELSE 0
  <2> HIDE DEF had
  <2> QED BY <1>1, MaxOfTwo
<1>3. most \in Nat /\ most >= 1 /\ series = most
  <2>1. most \in Nat /\ most >= 1
    <3>1. required \in Nat /\ required > 0
      OBVIOUS
    <3>2. Ceiling(required, size) \in Nat /\ Ceiling(required, size) >= 1
      BY <3>1, CeilingType
    <3> QED BY <3>2
  <2> HIDE DEF most
  <2> QED BY <2>1, MaxOfTwo
<1>4. left \in Nat /\ need \in Nat /\ (planned = <<>> => need = most)
  <2>1. left \in Nat /\ (planned = <<>> => left = required)
    BY <1>1, <1>2
  <2> HIDE DEF left
  <2> QED BY <2>1, CeilingType
<1>5. /\ least = IF need <= series - n THEN need ELSE series - n
      /\ count = IF 0 >= least THEN 0 ELSE least
      /\ least \in Int
  <2> HIDE DEF need, series, n
  <2>1. least = (IF need <= series - n THEN need ELSE series - n) /\ least \in Int
    BY <1>1, <1>3, <1>4, MinOfTwo
  <2> HIDE DEF least
  <2> QED BY <2>1, MaxOfTwo
<1>6. Trays(required, size, planned) = trays
  BY Zenon DEF Trays
<1>7. count \in Nat /\ count <= need
  BY <1>4, <1>5
<1>8. sum = IF count * size <= left THEN count * size ELSE left
  <2> HIDE DEF left, count
  <2> QED BY <1>4, <1>7, TraySums
<1>9. need * size >= left /\ most * size >= required
  <2> HIDE DEF left
  <2> QED BY <1>4, CeilingCovers
<1>10. Len(trays) = count
  <2> HIDE DEF count
  <2> QED BY <1>7
<1> HIDE DEF had, n, left, most, series, need, least, count, trays, sum
<1>11. count = need => sum = left
  BY <1>4, <1>8, <1>9
<1>12. planned = <<>> => sum = required /\ Len(trays) = most
  BY <1>1, <1>2, <1>3, <1>4, <1>5, <1>10, <1>11
<1>13. ASSUME \A k \in DOMAIN planned : planned[k] >= size
       PROVE  had + sum >= required
  <2>1. had >= n * size
    <3>1. planned \in Seq(Nat) /\ size \in Nat
      OBVIOUS
    <3> QED BY <1>13, <3>1, SumAtLeast DEF had, n
  <2>2. CASE count = need
    BY <1>1, <1>2, <1>11, <2>2
  <2>3. CASE count # need /\ n <= most
    <3>1. count = most - n
      BY <1>1, <1>3, <1>4, <1>5, <2>3
    <3>2. count * size + n * size = most * size
      BY <1>1, <1>3, <3>1, <1>7, Z3
    <3> DEFINE a == count * size
               b == n * size
               c == most * size
    <3>3. a \in Nat /\ b \in Nat /\ c \in Nat
      <4>1. size \in Nat
        OBVIOUS
      <4> QED BY <1>1, <1>3, <1>7, <4>1, OneMoreTimes
    <3>4. a + b = c /\ c >= required /\ had >= b
          /\ sum = IF a <= left THEN a ELSE left
      BY <1>8, <1>9, <2>1, <3>2
    <3> HIDE DEF a, b, c
    <3> QED BY <1>1, <1>2, <3>3, <3>4
  <2>4. CASE n > most
    <3>1. n * size >= most * size
      BY <1>1, <1>3, <2>4, Z3
    <3> DEFINE b == n * size
               c == most * size
    <3>2. b \in Nat /\ c \in Nat
      <4>1. size \in Nat
        OBVIOUS
      <4> QED BY <1>1, <1>3, <4>1, OneMoreTimes
    <3>3. b >= c /\ c >= required /\ had >= b
      BY <1>9, <2>1, <3>1
    <3>4. sum \in Nat
      BY <1>4, <1>7, <1>8, OneMoreTimes
    <3> HIDE DEF b, c
    <3> QED BY <1>1, <3>2, <3>3, <3>4
  <2> QED BY <1>1, <1>3, <2>2, <2>3, <2>4
<1> QED
  BY <1>6, <1>12, <1>13 DEF had, sum, most

(* Alone, the commit of a release appends to the packs of each part what   *)
(* it has to mint.                                                         *)
LEMMA ReleaseMintsOut ==
  ASSUME IInv, NEW w \in Workers, Current(w), ReleaseCommit(w)
  PROVE  ReleaseMintsEnough
<1>1. SUFFICES ASSUME NEW p \in plan.parts
               PROVE  LET required == plan.required[ModelOf[p]]
                      IN /\ (\A k \in DOMAIN packs[p] : packs[p][k] >= lot.packSize)
                              => SumFunction(packs'[p]) >= required
                         /\ ~Packed(p) =>
                              /\ SumFunction(packs'[p]) = required
                              /\ Len(packs'[p]) = Ceiling(required, lot.packSize)
  BY DEF ReleaseMintsEnough
<1>2. /\ Alive /\ job[w].pc = "minting" /\ job[w].trays = Minted
      /\ packs' = [q \in Parts |-> packs[q] \o job[w].trays[q]]
  BY DEF ReleaseCommit, Finish, Current
<1> DEFINE required == plan.required[ModelOf[p]]
           trays == Trays(required, lot.packSize, packs[p])
<1>3. p \in Parts /\ ModelOf[p] \in DOMAIN plan.required
  BY <1>2, Typing DEF IInv, TablesInv, PlanIsCoherent, Snapshot
<1>4. required \in Nat \ {0} /\ lot.packSize \in Nat \ {0}
  <2>1. required \in Quantities /\ lot.packSize \in PackSizes
    BY <1>2, <1>3, Typing, RequirementsType
  <2> QED BY <2>1, QuantityAssumption
<1>5. packs[p] \in Seq(Nat \ {0})
  BY <1>3, Typing
<1>6. packs'[p] = packs[p] \o trays
  BY <1>2, <1>3 DEF Minted
<1> HIDE DEF required
<1>7. trays \in Seq(Nat \ {0})
  BY <1>4, <1>5, TraysType
<1>8. /\ (\A k \in DOMAIN packs[p] : packs[p][k] >= lot.packSize) =>
           SumFunction(packs[p]) + SumFunction(trays) >= required
      /\ packs[p] = <<>> =>
           /\ SumFunction(trays) = required
           /\ Len(trays) = Ceiling(required, lot.packSize)
  BY <1>4, <1>5, TraysAddUp
<1> HIDE DEF trays
<1>9. SumFunction(packs'[p]) = SumFunction(packs[p]) + SumFunction(trays)
  <2>1. packs[p] \in Seq(Nat) /\ trays \in Seq(Nat)
    BY <1>5, <1>7
  <2> QED BY <1>6, <2>1, SumOfConcat
<1>10. packs[p] = <<>> => packs'[p] = trays
  BY <1>6, <1>7
<1>11. /\ (\A k \in DOMAIN packs[p] : packs[p][k] >= lot.packSize)
            => SumFunction(packs'[p]) >= required
       /\ ~Packed(p) =>
            /\ SumFunction(packs'[p]) = required
            /\ Len(packs'[p]) = Ceiling(required, lot.packSize)
  BY <1>8, <1>9, <1>10 DEF Packed
<1> QED
  BY <1>11 DEF required

(* No other step releases a project that is a draft. *)
LEMMA OnlyReleases ==
  ASSUME IInv, NEW w \in Workers, Current(w), Draft(w) \/ Run(w) \/ Abort(w),
         project.status = "DRAFT", project'.status = "RELEASED"
  PROVE  ReleaseCommit(w)
<1>1. project' # project
  OBVIOUS
<1>2. CASE Draft(w)
  <2>1. ASSUME NEW product, NEW required, NEW size,
               CreateProject(w, product, required, size)
        PROVE  FALSE
    BY <2>1 DEF CreateProject
  <2>2. CASE \/ EditCommit(w) \/ ReplaceQuantities(w) \/ ReplaceAll(w)
             \/ RouteCommit(w) \/ OverrideCommit(w) \/ RemovePartCommit(w)
    BY <2>2, Typing DEF ProjectRow, EditCommit, ReplaceQuantities, ReplaceAll,
       RouteCommit, OverrideCommit, RemovePartCommit, Bump
  <2>3. CASE EditLoad(w) \/ RouteLoad(w) \/ ReplaceRead(w)
    BY <1>1, <2>3 DEF EditLoad, RouteLoad, ReplaceRead, LoadDraft, tables
  <2>4. ASSUME NEW required, ReplaceLoad(w, required) PROVE FALSE
    BY <1>1, <2>4 DEF ReplaceLoad, LoadDraft, tables
  <2>5. ASSUME NEW p, OverrideLoad(w, p) \/ RemovePartLoad(w, p) PROVE FALSE
    BY <1>1, <2>5 DEF OverrideLoad, RemovePartLoad, LoadDraft, tables
  <2> QED BY <1>2, <2>1, <2>2, <2>3, <2>4, <2>5 DEF Draft
<1>3. CASE Run(w)
  <2>1. CASE CompleteCommit(w)
    BY <2>1 DEF CompleteCommit, Finish, Current
  <2>2. CASE DeleteCommit(w)
    BY <2>2, Typing DEF DeleteCommit, ProjectRow
  <2>3. CASE ReleaseLoad(w) \/ ReleaseCheck(w) \/ ReleaseMint(w)
             \/ CompleteLoad(w) \/ DeleteLoad(w)
    BY <1>1, <2>3 DEF ReleaseLoad, ReleaseCheck, ReleaseMint, CompleteLoad,
       DeleteLoad, LoadDraft, tables
  <2>4. ASSUME NEW p, NEW quantity, PlanPack(w, p, quantity) PROVE FALSE
    BY <1>1, <2>4 DEF PlanPack
  <2> QED BY <1>3, <2>1, <2>2, <2>3, <2>4 DEF Run
<1>4. CASE Abort(w)
  BY <1>1, <1>4 DEF Abort, tables
<1> QED
  BY <1>2, <1>3, <1>4

(* Until transactions overlap, a release (app/pats/command-router.ts:683)  *)
(* mints packs for all that is required, unless packs planned by hand      *)
(* below the tray size used its series numbers up, and exactly for what is *)
(* required of a part without packs.                                       *)
THEOREM ReleasesCover == Spec => ReleaseCovers
<1>1. IInv /\ Serial /\ [Next]_vars => [~lapped' => ReleaseMintsEnough]_vars
  <2>1. SUFFICES ASSUME IInv, Serial, Next, ~lapped',
                        project.status = "DRAFT", project'.status = "RELEASED"
                 PROVE  ReleaseMintsEnough
    BY DEF ReleaseMintsEnough
  <2>2. PICK w \in Workers : Draft(w) \/ Run(w) \/ Abort(w)
    BY <2>1, AloneStep
  <2>3. Current(w)
    BY <2>1, AloneStep DEF AllCurrent
  <2>4. ReleaseCommit(w)
    BY <2>1, <2>2, <2>3, OnlyReleases
  <2> QED BY <2>1, <2>3, <2>4, ReleaseMintsOut
<1> QED
  BY <1>1, Invariance, SerialInductive, PTL DEF Spec, ReleaseCovers

(* Without overlaps the planning of a project implements ProjectLife: its  *)
(* status and what was planned take the steps of that specification.       *)
THEOREM LivesOneLife == Spec /\ []~lapped => Life!Spec
<1>1. Init => Life!Init
  BY DEF Init, Life!Init, Planned, Alive, Nothing
<1>2. IInv /\ Serial /\ [Next]_vars /\ (~lapped)' =>
        [Life!Next]_<<project.status, Planned>>
  <2>1. SUFFICES ASSUME IInv, Serial, [Next]_vars, ~lapped'
                 PROVE  [Life!Next]_<<project.status, Planned>>
    OBVIOUS
  <2>2. CASE Next
    <3>1. PICK w \in Workers : Draft(w) \/ Run(w) \/ Abort(w)
      BY <2>1, <2>2, AloneStep
    <3>2. Current(w)
      BY <2>1, <2>2, AloneStep DEF AllCurrent
    <3> QED BY <2>1, <3>1, <3>2, LivesOn
  <2>3. CASE UNCHANGED vars
    BY <2>3, PlannedKept DEF vars
  <2> QED BY <2>1, <2>2, <2>3
<1> QED
  BY <1>1, <1>2, Invariance, SerialInductive, PTL DEF Spec, Life!Spec
=============================================================================
