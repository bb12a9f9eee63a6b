----------------------------- MODULE Recursion -----------------------------
(***************************************************************************)
(* Induction, which proofs about sequences and recursive functions rest    *)
(* on: a set of numbers has a least one, a set closed under the next       *)
(* number has them all, and a function defined by recursion exists.        *)
(***************************************************************************)
EXTENDS Integers, FiniteSets, FiniteSetTheorems, WellFoundedInduction, TLAPS

\* A set of natural numbers has a least one: the strict subsets of an interval are
\* well-founded.
LEMMA LeastNatural ==
  ASSUME NEW B \in SUBSET Nat, B # {}
  PROVE  \E m \in B : \A n \in B : m <= n
<1> DEFINE T == {0..b : b \in B}
<1>1. T \subseteq FiniteSubsetsOf(Nat)
  <2> SUFFICES ASSUME NEW b \in B PROVE 0..b \in FiniteSubsetsOf(Nat)
    OBVIOUS
  <2>1. IsFiniteSet(0..b)
    BY FS_Interval
  <2> QED
    BY <2>1 DEF FiniteSubsetsOf
<1>2. \E x \in T : \A y \in T : <<y, x>> \notin StrictSubsetOrdering(Nat)
  <2>1. T # {}
    OBVIOUS
  <2> HIDE DEF T
  <2> QED
    BY <1>1, <2>1, FS_StrictSubsetOrderingWellFounded, WFMin
<1>3. PICK m \in B : \A n \in B : <<0..n, 0..m>> \notin StrictSubsetOrdering(Nat)
  BY <1>2
<1>4. ASSUME NEW n \in B, n < m PROVE FALSE
  <2>1. 0..n \subseteq 0..m /\ 0..n # 0..m
    BY <1>4
  <2>2. 0..n \in SUBSET Nat /\ 0..m \in SUBSET Nat
    OBVIOUS
  <2> QED
    BY <1>3, <2>1, <2>2 DEF StrictSubsetOrdering
<1> QED
  BY <1>4

\* A set that has 0, and with each number the next, has all up to N.
LEMMA IntervalInduction ==
  ASSUME NEW N \in Nat, NEW Good, 0 \in Good,
         \A n \in 1..N : n - 1 \in Good => n \in Good
  PROVE  \A n \in 0..N : n \in Good
<1> DEFINE B == {n \in 0..N : n \notin Good}
<1>1. ASSUME B # {} PROVE FALSE
  <2>1. B \in SUBSET Nat
    OBVIOUS
  <2>2. PICK m \in B : \A n \in B : m <= n
    <3> HIDE DEF B
    <3> QED
      BY <1>1, <2>1, LeastNatural
  <2>3. m \in 1..N /\ m - 1 \in 0..N /\ m - 1 \notin B
    BY <2>2
  <2> QED
    BY <2>2, <2>3
<1> QED
  BY <1>1

\* A function that steps from each number to the next, from start on.
Runs(S, start, N, step) ==
  {f \in [0..N -> S] : f[0] = start /\ \A n \in 1..N : f[n] = step[<<f[n - 1], n>>]}

LEMMA RecursionExists ==
  ASSUME NEW S, NEW start \in S, NEW N \in Nat, NEW step \in [S \X (1..N) -> S]
  PROVE  Runs(S, start, N, step) # {}
<1> DEFINE Fits(k, f) == f[0] = start /\ \A n \in 1..k : f[n] = step[<<f[n - 1], n>>]
           B == {k \in 0..N : ~\E f \in [0..k -> S] : Fits(k, f)}
<1>1. 0 \notin B
  <2>1. [n \in 0..0 |-> start] \in [0..0 -> S] /\ Fits(0, [n \in 0..0 |-> start])
    OBVIOUS
  <2> QED
    BY <2>1
<1>2. B = {}
  <2> SUFFICES ASSUME B # {} PROVE FALSE
    OBVIOUS
  <2>1. B \in SUBSET Nat
    OBVIOUS
  <2>2. PICK m \in B : \A n \in B : m <= n
    <3> HIDE DEF B
    <3> QED
      BY <2>1, LeastNatural
  <2>3. m \in 1..N /\ m - 1 \in 0..N /\ m - 1 \notin B
    <3>1. B \subseteq 0..N
      OBVIOUS
    <3> HIDE DEF B
    <3> QED
      BY <1>1, <2>2, <3>1
  <2>4. PICK f \in [0..m - 1 -> S] : Fits(m - 1, f)
    BY <2>3
  <2> DEFINE last == step[<<f[m - 1], m>>]
             g == [n \in 0..m |-> IF n = m THEN last ELSE f[n]]
  <2>5. f[m - 1] \in S /\ last \in S
    BY <2>3, <2>4
  <2> HIDE DEF last
  <2>6. g \in [0..m -> S] /\ g[0] = start /\ g[m] = last /\ g[m - 1] = f[m - 1]
    BY <2>3, <2>4, <2>5
  <2>7. \A n \in 1..m - 1 : g[n] = f[n] /\ g[n - 1] = f[n - 1]
    BY <2>3
  <2> HIDE DEF g
  <2>8. \A n \in 1..m : g[n] = step[<<g[n - 1], n>>]
    <3> TAKE n \in 1..m
    <3>1. CASE n = m
      BY <2>6, <3>1 DEF last
    <3>2. CASE n # m
      <4>1. n \in 1..m - 1
        BY <2>3, <3>2
      <4> QED
        BY <2>4, <2>7, <4>1
    <3> QED
      BY <3>1, <3>2
  <2>9. m \notin B
    BY <2>6, <2>8
  <2> QED
    BY <2>2, <2>9
<1>3. N \notin B
  BY <1>2
<1> QED
  BY <1>3 DEF Runs
=============================================================================
