---------------------------- MODULE NaturalLemmas ----------------------------
(***************************************************************************)
(* Lemmas about natural numbers that the proofs about several modules share: *)
(* induction in the form of a least counterexample, and functions defined by *)
(* recursion that add up a sequence of numbers.                             *)
(***************************************************************************)
EXTENDS Integers, TLAPS, FiniteSetTheorems, WellFoundedInduction

\* A non-empty set of natural numbers has a least element: the intervals 0..x for x in
\* the set are finite, so one of them contains no other.
LEMMA LeastExists ==
  ASSUME NEW S \in SUBSET Nat, S # {}
  PROVE  \E x \in S : \A y \in S : x <= y
<1> DEFINE T == {0..x : x \in S}
<1>1. T \subseteq FiniteSubsetsOf(Nat)
  <2>1. ASSUME NEW x \in S PROVE 0..x \in SUBSET Nat /\ IsFiniteSet(0..x)
    <3>1. x \in Int /\ 0 \in Int
      OBVIOUS
    <3> QED BY <3>1, FS_Interval
  <2> QED BY <2>1 DEF FiniteSubsetsOf
<1>2. IsWellFoundedOn(StrictSubsetOrdering(Nat), FiniteSubsetsOf(Nat))
  BY FS_StrictSubsetOrderingWellFounded
<1>3. PICK I \in T : \A J \in T : ~ (<<J, I>> \in StrictSubsetOrdering(Nat))
  <2>1. T # {}
    OBVIOUS
  <2> HIDE DEF T
  <2> QED BY <1>1, <1>2, <2>1, WFMin
<1>4. PICK x \in S : I = 0..x
  OBVIOUS
<1>5. ASSUME NEW y \in S, y < x PROVE FALSE
  <2>1. 0..y \in T /\ 0..y \in SUBSET Nat /\ 0..x \in SUBSET Nat
    OBVIOUS
  <2>2. x \in 0..x /\ x \notin 0..y /\ 0..y \subseteq 0..x
    BY <1>5
  <2> QED BY <1>3, <1>4, <2>1, <2>2 DEF StrictSubsetOrdering
<1> QED
  BY <1>5

\* Induction from 0 to n for a set: what holds of 0, and of every successor of what it
\* holds of, holds up to n.
LEMMA InductionUpTo ==
  ASSUME NEW n \in Nat, NEW P, 0 \in P, \A i \in 1..n : i - 1 \in P => i \in P
  PROVE  0..n \subseteq P
<1> DEFINE C == {i \in 0..n : i \notin P}
<1>1. SUFFICES ASSUME C # {} PROVE FALSE
  OBVIOUS
<1>2. C \in SUBSET Nat
  OBVIOUS
<1>3. PICK x \in C : \A y \in C : x <= y
  <2> HIDE DEF C
  <2> QED BY <1>1, <1>2, LeastExists
<1>4. x # 0 /\ x \in 1..n /\ x - 1 \notin C
  BY <1>3
<1> QED BY <1>4

\* The function on 0..n that starts with a and adds up the increments g.
RunsOver(f, a, g, n) ==
  /\ f \in [0..n -> Int]
  /\ f[0] = a
  /\ \A i \in 1..n : f[i] = f[i-1] + g[i]

\* There is one.
LEMMA RunningSumExists ==
  ASSUME NEW n \in Nat, NEW a \in Int, NEW g, \A i \in 1..n : g[i] \in Int
  PROVE  \E f : RunsOver(f, a, g, n)
<1> DEFINE P == {m \in 0..n : \E f : RunsOver(f, a, g, m)}
<1>1. 0 \in P
  <2> DEFINE f == [i \in 0..0 |-> a]
  <2>1. RunsOver(f, a, g, 0)
    BY DEF RunsOver
  <2> HIDE DEF f
  <2> QED BY <2>1
<1>2. ASSUME NEW i \in 1..n, i - 1 \in P PROVE i \in P
  <2>1. PICK f : RunsOver(f, a, g, i - 1)
    BY <1>2
  <2> DEFINE h == [k \in 0..i |-> IF k = i THEN f[i-1] + g[i] ELSE f[k]]
  <2>2. RunsOver(h, a, g, i)
    <3>1. h[0] = a /\ h \in [0..i -> Int]
      BY <2>1 DEF RunsOver
    <3>2. ASSUME NEW k \in 1..i PROVE h[k] = h[k-1] + g[k]
      <4>1. CASE k = i
        BY <4>1
      <4>2. CASE k # i
        BY <2>1, <4>2 DEF RunsOver
      <4> QED BY <4>1, <4>2
    <3> HIDE DEF h
    <3> QED BY <3>1, <3>2 DEF RunsOver
  <2> HIDE DEF h
  <2> QED BY <2>2
<1>3. 0..n \subseteq P
  <2> HIDE DEF P
  <2> QED BY <1>1, <1>2, InductionUpTo
<1> QED BY <1>3

\* There is only one.
LEMMA RunningSumUnique ==
  ASSUME NEW n \in Nat, NEW a, NEW g, NEW f, NEW h, RunsOver(f, a, g, n), RunsOver(h, a, g, n)
  PROVE  f = h
<1> DEFINE P == {i \in 0..n : f[i] = h[i]}
<1>1. 0 \in P
  BY DEF RunsOver
<1>2. \A i \in 1..n : i - 1 \in P => i \in P
  BY DEF RunsOver
<1>3. 0..n \subseteq P
  <2> HIDE DEF P
  <2> QED BY <1>1, <1>2, InductionUpTo
<1> QED BY <1>3 DEF RunsOver

\* A function that satisfies the recursion is the running sum: its values are integers.
LEMMA RunningSumRecursion ==
  ASSUME NEW n \in Nat, NEW a \in Int, NEW g, \A i \in 1..n : g[i] \in Int,
         NEW R, NEW f \in [0..n -> R],
         \A i \in 0..n : f[i] = IF i = 0 THEN a ELSE f[i-1] + g[i]
  PROVE  RunsOver(f, a, g, n)
<1> DEFINE P == {i \in 0..n : f[i] \in Int}
<1>1. f[0] = a /\ \A i \in 1..n : f[i] = f[i-1] + g[i]
  OBVIOUS
<1>2. 0 \in P
  BY <1>1
<1>3. ASSUME NEW i \in 1..n, i - 1 \in P PROVE i \in P
  <2>1. f[i-1] \in Int /\ g[i] \in Int /\ f[i] = f[i-1] + g[i]
    BY <1>1, <1>3
  <2> QED BY <2>1
<1>4. 0..n \subseteq P
  <2> HIDE DEF P
  <2> QED BY <1>2, <1>3, InductionUpTo
<1>5. f \in [0..n -> Int]
  BY <1>4
<1> QED BY <1>1, <1>5 DEF RunsOver

\* The sum of n numbers.
TotalOf(g, n) ==
  LET sum[i \in 0..n] == IF i = 0 THEN 0 ELSE sum[i-1] + g[i] IN sum[n]

\* It is the last value of the running sum.
LEMMA TotalIs ==
  ASSUME NEW n \in Nat, NEW g, \A i \in 1..n : g[i] \in Int,
         NEW f, RunsOver(f, 0, g, n)
  PROVE  TotalOf(g, n) = f[n] /\ TotalOf(g, n) \in Int
<1> DEFINE IsSum(h) == h = [i \in 0..n |-> IF i = 0 THEN 0 ELSE h[i-1] + g[i]]
<1>1. IsSum(f)
  BY DEF RunsOver
<1>2. ASSUME NEW k, IsSum(k) PROVE k = f
  <2>1. \A i \in 0..n : k[i] = IF i = 0 THEN 0 ELSE k[i-1] + g[i]
    BY <1>2
  <2>2. PICK R : k \in [0..n -> R]
    <3>1. k \in [0..n -> {k[i] : i \in 0..n}]
      BY <1>2
    <3> QED BY <3>1
  <2>3. RunsOver(k, 0, g, n)
    <3>1. 0 \in Int
      OBVIOUS
    <3> HIDE DEF IsSum
    <3> QED BY <2>1, <2>2, <3>1, RunningSumRecursion
  <2> QED BY <2>3, RunningSumUnique
<1>3. TotalOf(g, n) = (CHOOSE k : IsSum(k))[n]
  BY DEF TotalOf
<1>4. (CHOOSE k : IsSum(k)) = f
  <2>1. IsSum(CHOOSE k : IsSum(k))
    BY <1>1
  <2> HIDE DEF IsSum
  <2> QED BY <1>2, <2>1
<1>5. f[n] \in Int
  BY DEF RunsOver
<1> QED BY <1>3, <1>4, <1>5

\* A sum of integers is one.
LEMMA TotalType ==
  ASSUME NEW n \in Nat, NEW g, \A i \in 1..n : g[i] \in Int
  PROVE  TotalOf(g, n) \in Int
<1>1. PICK f : RunsOver(f, 0, g, n)
  BY RunningSumExists
<1> QED BY <1>1, TotalIs

\* The sum of no number, and of one number more.
LEMMA TotalOfNone == \A g : TotalOf(g, 0) = 0
<1> SUFFICES ASSUME NEW g PROVE TotalOf(g, 0) = 0
  OBVIOUS
<1>1. \A i \in 1..0 : g[i] \in Int
  OBVIOUS
<1>2. PICK f : RunsOver(f, 0, g, 0)
  BY <1>1, RunningSumExists
<1>3. TotalOf(g, 0) = f[0]
  BY <1>1, <1>2, TotalIs
<1> QED BY <1>2, <1>3 DEF RunsOver

\* The sum of one number more.
LEMMA TotalStep ==
  ASSUME NEW n \in Nat, NEW g, NEW h, \A i \in 1..n+1 : h[i] \in Int,
         \A i \in 1..n : h[i] = g[i]
  PROVE  TotalOf(h, n + 1) = TotalOf(g, n) + h[n + 1]
<1>1. \A i \in 1..n : i \in 1..n+1 /\ g[i] \in Int
  OBVIOUS
<1>2. PICK f : RunsOver(f, 0, h, n + 1)
  BY RunningSumExists
<1>3. RunsOver([i \in 0..n |-> f[i]], 0, g, n)
  <2>1. \A i \in 1..n : i \in 0..n /\ i - 1 \in 0..n /\ i \in 1..n+1 /\ i \in 0..n+1
    OBVIOUS
  <2>2. \A i \in 1..n : f[i] = f[i-1] + g[i]
    BY <1>2, <2>1 DEF RunsOver
  <2>3. \A i \in 0..n : i \in 0..n+1 /\ f[i] \in Int
    BY <1>2 DEF RunsOver
  <2>4. f[0] = 0
    BY <1>2 DEF RunsOver
  <2> QED BY <2>1, <2>2, <2>3, <2>4 DEF RunsOver
<1>4. TotalOf(g, n) = f[n]
  <2>1. TotalOf(g, n) = [i \in 0..n |-> f[i]][n]
    BY <1>1, <1>3, TotalIs
  <2>2. n \in 0..n
    OBVIOUS
  <2> QED BY <2>1, <2>2
<1>5. TotalOf(h, n + 1) = f[n + 1]
  BY <1>2, TotalIs
<1>6. f[n + 1] = f[n] + h[n + 1]
  <2>1. n + 1 \in 1..n+1 /\ (n + 1) - 1 = n
    OBVIOUS
  <2> QED BY <1>2, <2>1 DEF RunsOver
<1> QED BY <1>4, <1>5, <1>6
==============================================================================
