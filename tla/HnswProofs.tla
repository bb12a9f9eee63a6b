---------------------------- MODULE HnswProofs ----------------------------
(***************************************************************************)
(* Proofs about Hnsw, for any vectors, parameters, threads and bounds: the *)
(* rows of the graph, its entry point, and what a search returns.          *)
(***************************************************************************)
EXTENDS Hnsw, Recursion, SequenceTheorems

Nodes(g) == 1..Size(g)

\* A graph of vectors.
Located(g) == g.vec \in Seq(Point)

-----------------------------------------------------------------------------
(* The order of candidates.                                                *)

\* A distance is a number.
LEMMA DistanceType ==
  ASSUME NEW g, Located(g), NEW q \in Point, NEW n \in Nodes(g)
  PROVE  DistTo(g, q, n) \in Int
<1>1. g.vec[n] \in Point
  BY ElementOfSeq DEF Located, Nodes, Size
<1> QED
  BY <1>1, ParamsAssumption DEF DistTo

\* Candidates are totally ordered.
LEMMA BeforeOrders ==
  ASSUME NEW g, Located(g), NEW q \in Point
  PROVE  /\ \A x \in Nodes(g) : ~Before(g, q, x, x)
         /\ \A x, y, z \in Nodes(g) : Before(g, q, x, y) /\ Before(g, q, y, z) => Before(g, q, x, z)
         /\ \A x, y \in Nodes(g) : x = y \/ Before(g, q, x, y) \/ Before(g, q, y, x)
<1>1. \A x \in Nodes(g) : DistTo(g, q, x) \in Int /\ x \in Int
  BY DistanceType DEF Nodes
<1> QED
  BY <1>1 DEF Before

Ahead(g, q, S, x) == {y \in S : Before(g, q, y, x)}

Place(g, q, S, x) == Cardinality(Ahead(g, q, S, x)) + 1

\* A set of nodes is finite, and as large as the graph only if it has them all.
LEMMA NodesFinite ==
  ASSUME NEW g, Located(g), NEW S \in SUBSET Nodes(g)
  PROVE  /\ IsFiniteSet(S) /\ Cardinality(S) \in Nat
         /\ Size(g) \in Nat /\ Cardinality(S) <= Size(g)
         /\ Cardinality(S) = Size(g) => S = Nodes(g)
<1>1. Size(g) \in Nat
  BY LenProperties DEF Located, Size
<1>2. IsFiniteSet(Nodes(g)) /\ Cardinality(Nodes(g)) = Size(g)
  BY <1>1, FS_Interval DEF Nodes
<1>3. IsFiniteSet(S) /\ Cardinality(S) <= Cardinality(Nodes(g))
      /\ (Cardinality(Nodes(g)) = Cardinality(S) => Nodes(g) = S)
  BY <1>2, FS_Subset
<1> QED
  BY <1>1, <1>2, <1>3, FS_CardinalityType

\* A candidate has a place among the others, and a later one has a later place.
LEMMA PlaceType ==
  ASSUME NEW g, Located(g), NEW q \in Point, NEW S \in SUBSET Nodes(g), NEW x \in S
  PROVE  Place(g, q, S, x) \in 1..Cardinality(S)
<1> DEFINE A == Ahead(g, q, S, x)
<1>1. IsFiniteSet(S) /\ Cardinality(S) \in Nat
  BY NodesFinite
<1>2. A \in SUBSET S /\ x \notin A
  BY BeforeOrders DEF Ahead
<1> HIDE DEF A
<1>3. /\ IsFiniteSet(A) /\ Cardinality(A) <= Cardinality(S)
      /\ (Cardinality(S) = Cardinality(A) => S = A)
  BY <1>1, <1>2, FS_Subset
<1>4. Cardinality(A) \in Nat /\ Cardinality(A) # Cardinality(S)
  BY <1>2, <1>3, FS_CardinalityType
<1>5. Cardinality(A) + 1 \in 1..Cardinality(S)
  BY <1>1, <1>3, <1>4
<1> QED
  BY <1>5 DEF Place, A

\* A later candidate has a later place.
LEMMA PlaceMonotonic ==
  ASSUME NEW g, Located(g), NEW q \in Point, NEW S \in SUBSET Nodes(g),
         NEW x \in S, NEW y \in S, Before(g, q, x, y)
  PROVE  Place(g, q, S, x) < Place(g, q, S, y)
<1> DEFINE A == Ahead(g, q, S, x)
           B == Ahead(g, q, S, y)
<1>1. IsFiniteSet(S)
  BY NodesFinite
<1>2. A \in SUBSET B /\ x \in B /\ x \notin A /\ B \in SUBSET S
  BY BeforeOrders DEF Ahead
<1> HIDE DEF A, B
<1>3. IsFiniteSet(B)
  BY <1>1, <1>2, FS_Subset
<1>4. IsFiniteSet(A) /\ Cardinality(A) <= Cardinality(B)
      /\ (Cardinality(B) = Cardinality(A) => B = A)
  BY <1>2, <1>3, FS_Subset
<1>5. Cardinality(A) \in Nat /\ Cardinality(B) \in Nat /\ Cardinality(A) # Cardinality(B)
  BY <1>2, <1>3, <1>4, FS_CardinalityType
<1>6. Cardinality(A) + 1 < Cardinality(B) + 1
  BY <1>4, <1>5
<1> QED
  BY <1>6 DEF Place, A, B

\* A sequence that has the members of a set once each, the nearest first.
Lists(g, q, S, seq) ==
  /\ seq \in Seq(S) /\ Len(seq) = Cardinality(S) /\ DOMAIN seq = 1..Cardinality(S)
  /\ \A i, j \in 1..Cardinality(S) : seq[i] = seq[j] => i = j
  /\ \A x \in S : \E i \in 1..Cardinality(S) : seq[i] = x
  /\ \A i, j \in 1..Cardinality(S) : i < j => Before(g, q, seq[i], seq[j])

\* InOrder lists a set of nodes, the nearest first.
LEMMA InOrderLists ==
  ASSUME NEW g, Located(g), NEW q \in Point, NEW S \in SUBSET Nodes(g)
  PROVE  Lists(g, q, S, InOrder(g, q, S))
<1> DEFINE k == Cardinality(S)
           f == [x \in S |-> Place(g, q, S, x)]
           seq == InOrder(g, q, S)
           At(i) == CHOOSE x \in S : Cardinality({y \in S : Before(g, q, y, x)}) = i - 1
<1>1. IsFiniteSet(S) /\ k \in Nat
  BY NodesFinite
<1>2. \A x \in S : Place(g, q, S, x) \in 1..k
  BY PlaceType
<1>3. \A x, y \in S : Place(g, q, S, x) = Place(g, q, S, y) => x = y
  <2> SUFFICES ASSUME NEW x \in S, NEW y \in S, Place(g, q, S, x) = Place(g, q, S, y), x # y
               PROVE  FALSE
    OBVIOUS
  <2>1. Before(g, q, x, y) \/ Before(g, q, y, x)
    BY BeforeOrders
  <2>2. Place(g, q, S, x) < Place(g, q, S, y) \/ Place(g, q, S, y) < Place(g, q, S, x)
    BY <2>1, PlaceMonotonic
  <2>3. Place(g, q, S, x) \in Int /\ Place(g, q, S, y) \in Int
    BY <1>1, <1>2
  <2> QED
    BY <2>2, <2>3
<1>4. IsFiniteSet(1..k) /\ Cardinality(1..k) = k
  BY <1>1, FS_Interval
<1>5. f \in Surjection(S, 1..k)
  <2>1. f \in Injection(S, 1..k)
    <3>1. f \in [S -> 1..k]
      BY <1>2
    <3>2. \A x, y \in S : f[x] = f[y] => x = y
      BY <1>3
    <3> QED
      BY <3>1, <3>2 DEF Injection, IsInjective
  <2> HIDE DEF f
  <2> QED
    BY <2>1, <1>4, FS_Injection
<1>6. \A i \in 1..k : \E x \in S : Place(g, q, S, x) = i
  BY <1>5 DEF Surjection
<1>7. \A i \in 1..k : At(i) \in S /\ Place(g, q, S, At(i)) = i
  <2> TAKE i \in 1..k
  <2>1. PICK x \in S : Place(g, q, S, x) = i
    BY <1>6
  <2>2. IsFiniteSet(Ahead(g, q, S, x))
    BY <1>1, FS_Subset DEF Ahead
  <2>3. Cardinality(Ahead(g, q, S, x)) \in Nat
    BY <2>2, FS_CardinalityType
  <2>4. Cardinality(Ahead(g, q, S, x)) = i - 1
    BY <2>1, <2>3 DEF Place
  <2>5. At(i) \in S /\ Cardinality(Ahead(g, q, S, At(i))) = i - 1
    BY <2>4 DEF Ahead
  <2> QED
    BY <2>5 DEF Place
<1>8. seq = [i \in 1..k |-> At(i)]
  BY DEF InOrder
<1> HIDE DEF At, seq
<1>9. seq \in [1..k -> S] /\ \A i \in 1..k : seq[i] = At(i)
  BY <1>7, <1>8
<1>10. seq \in Seq(S) /\ Len(seq) = k /\ DOMAIN seq = 1..k
  BY <1>1, <1>9
<1>11. \A i, j \in 1..k : seq[i] = seq[j] => i = j
  BY <1>7, <1>9
<1>12. \A x \in S : \E i \in 1..k : seq[i] = x
  <2> TAKE x \in S
  <2>1. Place(g, q, S, x) \in 1..k /\ At(Place(g, q, S, x)) = x
    BY <1>2, <1>3, <1>7
  <2> QED
    BY <1>9, <2>1
<1>13. \A i, j \in 1..k : i < j => Before(g, q, seq[i], seq[j])
  <2> SUFFICES ASSUME NEW i \in 1..k, NEW j \in 1..k, i < j, ~Before(g, q, seq[i], seq[j])
               PROVE  FALSE
    OBVIOUS
  <2>1. seq[i] \in S /\ seq[j] \in S /\ seq[i] # seq[j]
    BY <1>9, <1>11
  <2>2. Before(g, q, seq[j], seq[i])
    BY <2>1, BeforeOrders
  <2>3. Place(g, q, S, seq[j]) < Place(g, q, S, seq[i])
    BY <2>1, <2>2, PlaceMonotonic
  <2>4. j < i
    BY <1>7, <1>9, <2>3
  <2> QED
    BY <2>4
<1> QED
  BY <1>10, <1>11, <1>12, <1>13 DEF Lists, seq

\* A set that is not empty has a nearest and a farthest member.
LEMMA Extremes ==
  ASSUME NEW g, Located(g), NEW q \in Point, NEW S \in SUBSET Nodes(g), S # {}
  PROVE  /\ Closest(g, q, S) \in S
         /\ \A y \in S : y = Closest(g, q, S) \/ Before(g, q, Closest(g, q, S), y)
         /\ Farthest(g, q, S) \in S
         /\ \A y \in S : y = Farthest(g, q, S) \/ Before(g, q, y, Farthest(g, q, S))
<1> DEFINE k == Cardinality(S)
           seq == InOrder(g, q, S)
<1>1. k \in Nat /\ k # 0
  BY NodesFinite, FS_EmptySet
<1>2. Lists(g, q, S, seq)
  BY InOrderLists
<1> HIDE DEF seq
<1>3. 1 \in 1..k /\ k \in 1..k
  BY <1>1
<1>4. seq[1] \in S /\ seq[k] \in S
  BY <1>2, <1>3, ElementOfSeq DEF Lists
<1>5. \A y \in S : y = seq[1] \/ Before(g, q, seq[1], y)
  BY <1>2, <1>3 DEF Lists
<1>6. \A y \in S : y = seq[k] \/ Before(g, q, y, seq[k])
  BY <1>2, <1>3 DEF Lists
<1>7. Closest(g, q, S) \in S /\ \A y \in S : y = Closest(g, q, S) \/ Before(g, q, Closest(g, q, S), y)
  BY <1>4, <1>5 DEF Closest
<1>8. Farthest(g, q, S) \in S /\ \A y \in S : y = Farthest(g, q, S) \/ Before(g, q, y, Farthest(g, q, S))
  BY <1>4, <1>6 DEF Farthest
<1> QED
  BY <1>7, <1>8

-----------------------------------------------------------------------------
(* A bounded heap.                                                         *)

\* H has k members of P, or all if there are fewer, and no other is nearer than one of
\* them.
Best(g, q, k, P, H) ==
  /\ H \subseteq P
  /\ Cardinality(P) <= k => H = P
  /\ Cardinality(P) >= k => Cardinality(H) = k
  /\ \A h \in H, x \in P \ H : DistTo(g, q, h) <= DistTo(g, q, x)

\* A heap that admits x, or does not, has the best of what it had seen and x.
LEMMA BestAdmitted ==
  ASSUME NEW g, Located(g), NEW q \in Point, NEW k \in Nat \ {0}, NEW P \in SUBSET Nodes(g),
         NEW H, Best(g, q, k, P, H), NEW x \in Nodes(g), x \notin P
  PROVE  Best(g, q, k, P \cup {x},
              IF Admits(g, q, H, k, x) THEN Trimmed(g, q, H \cup {x}, k) ELSE H)
<1> DEFINE Q == P \cup {x}
           S == H \cup {x}
           D(n) == DistTo(g, q, n)
           new == IF Admits(g, q, H, k, x) THEN Trimmed(g, q, S, k) ELSE H
<1>1. H \in SUBSET Nodes(g) /\ Q \in SUBSET Nodes(g) /\ S \in SUBSET Nodes(g) /\ x \notin H
  BY DEF Best
<1>2. \A n \in Nodes(g) : D(n) \in Int
  BY DistanceType
<1>3. /\ IsFiniteSet(P) /\ IsFiniteSet(H)
      /\ Cardinality(P) \in Nat /\ Cardinality(H) \in Nat
  BY <1>1, NodesFinite
<1>4. /\ Cardinality(Q) = Cardinality(P) + 1
      /\ IsFiniteSet(S) /\ Cardinality(S) = Cardinality(H) + 1
  BY <1>1, <1>3, FS_AddElement
<1>5. CASE Cardinality(P) < k
  <2>1. H = P /\ S = Q
    BY <1>5, <1>3 DEF Best
  <2>2. Admits(g, q, H, k, x) /\ ~(Cardinality(S) > k)
    BY <1>3, <1>4, <1>5, <2>1 DEF Admits
  <2>3. new = Q
    BY <2>1, <2>2 DEF Trimmed
  <2>4. Cardinality(Q) >= k => Cardinality(Q) = k
    BY <1>3, <1>4, <1>5
  <2> HIDE DEF new, Q
  <2>5. Best(g, q, k, Q, new)
    BY <2>3, <2>4 DEF Best
  <2> QED
    BY <2>5 DEF new, Q
<1>6. CASE Cardinality(P) >= k
  <2>1. Cardinality(H) = k /\ H # {}
    BY <1>3, <1>6, FS_EmptySet DEF Best
  <2>2. \A h \in H, z \in P \ H : D(h) <= D(z)
    BY DEF Best
  <2>3. PICK f \in H : f = Farthest(g, q, H) /\ \A y \in H : y = f \/ Before(g, q, y, f)
    BY <1>1, <2>1, Extremes
  <2>4. \A y \in H : D(y) <= D(f)
    BY <1>1, <1>2, <2>3 DEF Before
  <2>5. Cardinality(Q) > k
    BY <1>3, <1>4, <1>6
  <2>6. CASE Admits(g, q, H, k, x)
    <3>1. D(x) < D(f)
      BY <2>1, <2>3, <2>6 DEF Admits
    <3>2. PICK last \in S : last = Farthest(g, q, S) /\ \A y \in S : y = last \/ Before(g, q, y, last)
      BY <1>1, Extremes
    <3>3. \A y \in S : D(y) <= D(last)
      BY <1>1, <1>2, <3>2 DEF Before
    <3>4. new = S \ {last}
      BY <1>4, <2>1, <2>6, <3>2 DEF Trimmed
    <3>5. Cardinality(S \ {last}) = k
      <4>1. IsFiniteSet(S) /\ last \in S
        BY <1>4, <3>2
      <4> HIDE DEF S
      <4>2. Cardinality(S \ {last}) = Cardinality(S) - 1
        BY <4>1, FS_RemoveElement
      <4> QED
        BY <1>4, <2>1, <4>2
    <3>6. ASSUME NEW h \in S \ {last}, NEW z \in Q \ (S \ {last})
          PROVE  D(h) <= D(z)
      <4>1. CASE z = last
        BY <3>3, <4>1
      <4>2. CASE z # last
        <5>1. z \in P \ H
          BY <4>2
        <5>2. CASE h \in H
          BY <2>2, <5>1, <5>2
        <5>3. CASE h = x
          <6>1. D(f) <= D(z)
            BY <2>2, <2>3, <5>1
          <6>2. D(f) \in Int /\ D(z) \in Int /\ D(x) \in Int
            BY <1>1, <1>2, <2>3
          <6> QED
            BY <3>1, <5>3, <6>1, <6>2
        <5> QED
          BY <5>2, <5>3
      <4> QED
        BY <4>1, <4>2
    <3>7. S \ {last} \subseteq Q
      BY DEF Best
    <3>8. Cardinality(Q) \in Nat
      BY <1>3, <1>4
    <3> HIDE DEF new, Q, S
    <3>9. Best(g, q, k, Q, S \ {last})
      BY <2>5, <3>5, <3>6, <3>7, <3>8 DEF Best
    <3> QED
      BY <3>4, <3>9 DEF new, Q, S
  <2>7. CASE ~Admits(g, q, H, k, x)
    <3>1. D(f) <= D(x)
      <4>1. D(f) \in Int /\ D(x) \in Int
        BY <1>1, <1>2, <2>3
      <4> QED
        BY <2>3, <2>7, <4>1 DEF Admits
    <3>2. ASSUME NEW h \in H, NEW z \in Q \ H
          PROVE  D(h) <= D(z)
      <4>1. CASE z = x
        <5>1. D(h) \in Int /\ D(f) \in Int /\ D(x) \in Int
          BY <1>1, <1>2, <2>3
        <5> QED
          BY <2>4, <3>1, <4>1, <5>1
      <4>2. CASE z # x
        BY <2>2, <4>2
      <4> QED
        BY <4>1, <4>2
    <3>3. new = H /\ H \subseteq Q
      BY <2>7 DEF Best
    <3>4. Cardinality(Q) \in Nat
      BY <1>3, <1>4
    <3> HIDE DEF new, Q
    <3>5. Best(g, q, k, Q, H)
      BY <2>1, <2>5, <3>2, <3>3, <3>4 DEF Best
    <3> QED
      BY <3>3, <3>5 DEF new, Q
  <2> QED
    BY <2>6, <2>7
<1>7. Cardinality(P) < k \/ Cardinality(P) >= k
  BY <1>3
<1> QED
  BY <1>5, <1>6, <1>7

\* The first m of the heap H are the k nearest of P.
HeadsOf(g, q, k, P, H, m) ==
  /\ AreNearest(g, q, k, SubSeq(InOrder(g, q, H), 1, m), P)
  /\ Len(InOrder(g, q, H)) = Cardinality(H)
  /\ m = Cardinality(H) => SubSeq(InOrder(g, q, H), 1, m) = InOrder(g, q, H)

\* The k first of a heap are the k nearest of what it has seen.
LEMMA FirstAreNearest ==
  ASSUME NEW g, Located(g), NEW q \in Point, NEW k \in Nat \ {0}, NEW ef \in Nat, ef >= k,
         NEW P \in SUBSET Nodes(g), NEW H, Best(g, q, ef, P, H),
         NEW m \in Nat, m = IF Cardinality(H) < k THEN Cardinality(H) ELSE k
  PROVE  HeadsOf(g, q, k, P, H, m)
<1> DEFINE seq == InOrder(g, q, H)
           out == SubSeq(seq, 1, m)
           h == Cardinality(H)
<1>1. H \in SUBSET Nodes(g)
  BY DEF Best
<1>2. h \in Nat /\ Cardinality(P) \in Nat /\ h <= Cardinality(P)
  <2>1. IsFiniteSet(P) /\ H \in SUBSET P
    BY NodesFinite DEF Best
  <2> QED
    BY <1>1, <2>1, NodesFinite, FS_Subset
<1>3. Lists(g, q, H, seq)
  BY <1>1, InOrderLists
<1> HIDE DEF seq
<1>4. seq \in Seq(H) /\ Len(seq) = h /\ DOMAIN seq = 1..h
  BY <1>3 DEF Lists
<1>5. m <= h /\ m \in Nat /\ m \in 0..h
  BY <1>2
<1>6. \A i \in 1..h : seq[i] \in H
  BY <1>4, ElementOfSeq
<1>7. /\ out \in Seq(H) /\ Len(out) = m
      /\ \A i \in 1..m : out[i] = seq[i]
  <2>1. \A i \in 1..m : seq[i] \in H
    BY <1>2, <1>5, <1>6
  <2>2. /\ out \in Seq(H) /\ Len(out) = IF 1 <= m THEN m - 1 + 1 ELSE 0
        /\ \A i \in 1..m - 1 + 1 : out[i] = seq[1 + i - 1]
    <3> HIDE DEF h
    <3> QED
      BY <1>5, <2>1, SubSeqProperties
  <2>3. m - 1 + 1 = m /\ \A i \in 1..m : 1 + i - 1 = i
    BY <1>5
  <2> HIDE DEF out, h
  <2>4. Len(out) = m
    BY <1>5, <2>2, <2>3
  <2>5. \A i \in 1..m : out[i] = seq[i]
    BY <2>2, <2>3
  <2> QED
    BY <2>2, <2>4, <2>5
<1> HIDE DEF out
<1>8. DOMAIN out = 1..m
  BY <1>7, LenProperties
<1>9. IsInjective(out)
  <2> SUFFICES ASSUME NEW i \in 1..m, NEW j \in 1..m, out[i] = out[j]
               PROVE  i = j
    BY <1>8 DEF IsInjective
  <2> QED
    BY <1>3, <1>5, <1>7 DEF Lists
<1>10. Min({k, Cardinality(P)}) = m
  <2>1. m = IF Cardinality(P) < k THEN Cardinality(P) ELSE k
    <3>1. CASE Cardinality(P) <= ef
      BY <1>2, <3>1 DEF Best
    <3>2. CASE ~(Cardinality(P) <= ef)
      BY <1>2, <3>2 DEF Best
    <3> QED
      BY <3>1, <3>2
  <2>2. m \in {k, Cardinality(P)} /\ \A y \in {k, Cardinality(P)} : m <= y
    BY <1>2, <2>1
  <2>3. \A x \in {k, Cardinality(P)} :
           (\A y \in {k, Cardinality(P)} : x <= y) => x = m
    BY <1>2, <1>5, <2>2
  <2> HIDE DEF h
  <2>4. Min({k, Cardinality(P)}) = CHOOSE x \in {k, Cardinality(P)} :
                                      \A y \in {k, Cardinality(P)} : x <= y
    BY DEF Min
  <2> QED
    BY <2>2, <2>3, <2>4
<1>11. Range(out) \subseteq P
  <2>1. \A i \in 1..m : out[i] \in H
    BY <1>5, <1>6, <1>7
  <2>2. H \subseteq P
    BY DEF Best
  <2> QED
    BY <1>8, <2>1, <2>2 DEF Range
<1>12. ASSUME NEW i \in 1..m, NEW x \in P
       PROVE  x \in Range(SubSeq(out, 1, i)) \/ DistTo(g, q, x) >= DistTo(g, q, out[i])
  <2>1. i \in 1..h
    BY <1>2, <1>5
  <2>2. out[i] = seq[i] /\ out[i] \in H
    BY <1>6, <1>7, <2>1
  <2>3. DistTo(g, q, x) \in Int /\ DistTo(g, q, out[i]) \in Int /\ i \in 1..h
        /\ out[i] = seq[i] /\ out[i] \in H
    BY <1>1, <2>1, <2>2, DistanceType
  <2>4. CASE x \notin H
    <3>1. DistTo(g, q, out[i]) <= DistTo(g, q, x)
      BY <2>3, <2>4 DEF Best
    <3> QED
      BY <2>3, <3>1
  <2>5. CASE x \in H
    <3>1. PICK j \in 1..h : seq[j] = x
      BY <1>3, <2>5 DEF Lists
    <3>2. CASE j <= i
      <4>1. \A n \in 1..i : out[n] \in H
        BY <1>5, <1>6, <1>7
      <4>2. /\ SubSeq(out, 1, i) \in Seq(H)
            /\ Len(SubSeq(out, 1, i)) = IF 1 <= i THEN i - 1 + 1 ELSE 0
            /\ \A n \in 1..i - 1 + 1 : SubSeq(out, 1, i)[n] = out[1 + n - 1]
        BY <4>1, SubSeqProperties
      <4>3. DOMAIN SubSeq(out, 1, i) = 1..i
        BY <4>2, LenProperties
      <4>4. j \in 1..i /\ i - 1 + 1 = i /\ 1 + j - 1 = j
        BY <1>2, <3>2
      <4>5. SubSeq(out, 1, i)[j] = out[j]
        BY <4>2, <4>4
      <4>6. out[j] = x
        BY <1>5, <1>7, <3>1, <4>4
      <4> QED
        BY <4>3, <4>4, <4>5, <4>6 DEF Range
    <3>3. CASE ~(j <= i)
      <4>1. Before(g, q, seq[i], seq[j])
        BY <1>2, <1>3, <2>3, <3>3 DEF Lists
      <4>2. DistTo(g, q, seq[i]) <= DistTo(g, q, seq[j])
        BY <2>3, <3>1, <4>1 DEF Before
      <4> QED
        BY <2>3, <3>1, <4>2
    <3> QED
      BY <3>2, <3>3
  <2> QED
    BY <2>4, <2>5
<1>13. AreNearest(g, q, k, out, P)
  BY <1>7, <1>8, <1>9, <1>10, <1>11, <1>12 DEF AreNearest
<1>14. m = h => out = seq
  <2>1. SubSeq(seq, 1, Len(seq)) = seq
    BY <1>4, SubSeqFull
  <2> QED
    BY <1>4, <2>1 DEF out
<1> QED
  BY <1>4, <1>13, <1>14 DEF HeadsOf, seq, out

-----------------------------------------------------------------------------
(* The beam search of a layer.                                             *)

\* A graph whose rows have nodes of the graph.
Linked(g) == /\ Located(g)
             /\ \A n \in Nodes(g), lc \in Level : g.links[n][lc] \in Seq(Nodes(g))

Beams(g) == [frontier : SUBSET Nodes(g), found : SUBSET Nodes(g), visited : SUBSET Nodes(g)]

Explored(st) == st.visited \ st.frontier

\* What a visit of node x makes of a beam.
Seen(g, q, ef, st, x, new) ==
  /\ new \in Beams(g)
  /\ new.visited = st.visited \cup {x}
  /\ new.frontier \subseteq new.visited
  /\ Best(g, q, ef, new.visited, new.found)
  /\ Explored(st) \subseteq Explored(new)
  /\ Cardinality(new.visited) < ef => Explored(new) \subseteq Explored(st)

\* A visit leaves a beam of the graph.
LEMMA VisitType ==
  ASSUME NEW g, NEW q, NEW ef, NEW st \in Beams(g), NEW x \in Nodes(g)
  PROVE  Visit(g, q, ef, st, x) \in Beams(g)
<1>1. Trimmed(g, q, st.found \cup {x}, ef) \subseteq Nodes(g)
  BY DEF Trimmed, Beams
<1> QED
  BY <1>1 DEF Visit, Beams

\* A visit sees its node and keeps the ef best.
LEMMA VisitSees ==
  ASSUME NEW g, Located(g), NEW q \in Point, NEW ef \in Nat \ {0}, NEW st \in Beams(g),
         st.frontier \subseteq st.visited, Best(g, q, ef, st.visited, st.found),
         NEW x \in Nodes(g)
  PROVE  Seen(g, q, ef, st, x, Visit(g, q, ef, st, x))
<1> DEFINE new == Visit(g, q, ef, st, x)
           V == st.visited \cup {x}
<1>1. new \in Beams(g)
  BY VisitType
<1>2. CASE x \in st.visited
  <2>1. new = st /\ st.visited = st.visited \cup {x}
    BY <1>2 DEF Visit
  <2> HIDE DEF new
  <2> QED
    BY <1>1, <2>1 DEF Seen, new
<1>3. CASE x \notin st.visited
  <2>1. st.visited \in SUBSET Nodes(g)
    BY DEF Beams
  <2>2. Best(g, q, ef, V, IF Admits(g, q, st.found, ef, x)
                          THEN Trimmed(g, q, st.found \cup {x}, ef) ELSE st.found)
    BY <1>3, <2>1, BestAdmitted
  <2>3. CASE Admits(g, q, st.found, ef, x)
    <3>1. /\ new.visited = V
          /\ new.found = Trimmed(g, q, st.found \cup {x}, ef)
          /\ new.frontier = st.frontier \cup {x}
      BY <1>3, <2>3 DEF Visit, Beams
    <3> HIDE DEF new
    <3>2. Explored(new) = Explored(st)
      BY <1>3, <3>1 DEF Explored
    <3>3. Best(g, q, ef, new.visited, new.found)
      BY <2>2, <2>3, <3>1
    <3> QED
      BY <1>1, <3>1, <3>2, <3>3 DEF Seen, new
  <2>4. CASE ~Admits(g, q, st.found, ef, x)
    <3>1. new.visited = V /\ new.found = st.found /\ new.frontier = st.frontier
      BY <1>3, <2>4 DEF Visit, Beams
    <3> HIDE DEF new
    <3>2. Explored(st) \subseteq Explored(new)
      BY <3>1 DEF Explored
    <3>3. Best(g, q, ef, new.visited, new.found)
      BY <2>2, <2>4, <3>1
    <3>4. ~(Cardinality(V) < ef)
      <4>1. IsFiniteSet(st.visited) /\ Cardinality(st.visited) \in Nat
        BY <2>1, NodesFinite
      <4>2. Cardinality(V) = Cardinality(st.visited) + 1
        BY <1>3, <4>1, FS_AddElement
      <4>3. Cardinality(st.visited) < ef => st.found = st.visited
        BY <4>1 DEF Best
      <4>4. ~(Cardinality(st.found) < ef)
        BY <2>4 DEF Admits
      <4> HIDE DEF V
      <4> QED
        BY <4>1, <4>2, <4>3, <4>4
    <3> QED
      BY <1>1, <3>1, <3>2, <3>3, <3>4 DEF Seen, new
  <2> QED
    BY <2>3, <2>4
<1> QED
  BY <1>2, <1>3

\* A beam that started from start, within the set R of nodes: it has the ef best it has
\* seen, and as long as it has seen less than ef it has seen the rows of what it has
\* explored.
BeamOK(g, q, R, ef, start, st) ==
  /\ st \in Beams(g)
  /\ st.frontier \subseteq st.visited
  /\ start \in st.visited /\ st.visited \subseteq R
  /\ Best(g, q, ef, st.visited, st.found)
  /\ Cardinality(st.visited) < ef =>
       \A n \in Explored(st) : Range(g.links[n][0]) \subseteq st.visited

\* The beam has explored the node c, and what it had explored before.
Farther(st, c, new) == Explored(st) \cup {c} \subseteq Explored(new)

\* The beams that a walk over a row goes through.
Walks(g, q, ef, st, c, row) ==
  {b \in [0..Len(row) -> Beams(g)] :
     /\ b[0] = [st EXCEPT !.frontier = @ \ {c}]
     /\ \A i \in 1..Len(row) : b[i] = Visit(g, q, ef, b[i - 1], row[i])}

\* A walk over the row of an open node keeps what makes a beam right, and has explored it.
LEMMA RowVisited ==
  ASSUME NEW g, Linked(g), NEW q \in Point, NEW ef \in Nat \ {0},
         NEW R \in SUBSET Nodes(g), Closed(g, R), NEW start,
         NEW st, BeamOK(g, q, R, ef, start, st), NEW c \in st.frontier,
         NEW row, row = g.links[c][0], NEW b \in Walks(g, q, ef, st, c, row)
  PROVE  /\ BeamOK(g, q, R, ef, start, b[Len(row)])
         /\ Farther(st, c, b[Len(row)])
<1> DEFINE N == Len(row)
           Mid(i) ==
             /\ b[i].frontier \subseteq b[i].visited
             /\ Best(g, q, ef, b[i].visited, b[i].found)
             /\ st.visited \subseteq b[i].visited /\ b[i].visited \subseteq R
             /\ Farther(st, c, b[i])
             /\ Cardinality(b[i].visited) < ef => Explored(b[i]) \subseteq Explored(st) \cup {c}
             /\ \A j \in 1..i : row[j] \in b[i].visited
           Good == {i \in 0..N : Mid(i)}
<1>0. /\ b \in [0..N -> Beams(g)]
      /\ b[0] = [st EXCEPT !.frontier = @ \ {c}]
      /\ \A i \in 1..N : b[i] = Visit(g, q, ef, b[i - 1], row[i])
  BY DEF Walks
<1>1. /\ st \in Beams(g) /\ c \in st.visited /\ c \in Nodes(g) /\ c \in R
      /\ st.frontier \subseteq st.visited /\ start \in st.visited /\ st.visited \subseteq R
      /\ Best(g, q, ef, st.visited, st.found)
  BY DEF BeamOK, Beams
<1>2. row \in Seq(Nodes(g))
  <2>1. 0 \in Level
    BY ParamsAssumption DEF Level
  <2> QED
    BY <1>1, <2>1 DEF Linked
<1>3. /\ N \in Nat /\ DOMAIN row = 1..N
      /\ \A i \in 1..N : row[i] \in Nodes(g) /\ row[i] \in Range(row)
  BY <1>2, LenProperties, ElementOfSeq DEF Range
<1>4. Range(row) \subseteq R
  BY <1>1 DEF Closed
<1>5. Mid(0)
  <2>1. b[0].visited = st.visited /\ b[0].found = st.found /\ b[0].frontier = st.frontier \ {c}
    BY <1>0, <1>1 DEF Beams
  <2>2. Explored(b[0]) = Explored(st) \cup {c}
    BY <1>1, <2>1 DEF Explored
  <2>3. Best(g, q, ef, b[0].visited, b[0].found)
    BY <1>1, <2>1
  <2>4. Farther(st, c, b[0])
    BY <2>2 DEF Farther
  <2>5. b[0].frontier \subseteq b[0].visited
    BY <1>1, <2>1
  <2>6. \A j \in 1..0 : row[j] \in b[0].visited
    OBVIOUS
  <2> QED
    BY <1>1, <2>1, <2>2, <2>3, <2>4, <2>5, <2>6
<1>6. ASSUME NEW i \in 1..N, Mid(i - 1)
      PROVE  Mid(i)
  <2> PICK o \in 0..N : o = i - 1
    BY <1>3
  <2>1. Mid(o) /\ b[i] = Visit(g, q, ef, b[o], row[i]) /\ b[o] \in Beams(g) /\ row[i] \in Nodes(g)
    BY <1>0, <1>3, <1>6
  <2>2. Seen(g, q, ef, b[o], row[i], b[i])
    BY <2>1, VisitSees DEF Linked
  <2>3. /\ b[i].visited = b[o].visited \cup {row[i]}
        /\ b[i].frontier \subseteq b[i].visited
        /\ Best(g, q, ef, b[i].visited, b[i].found)
        /\ Explored(b[o]) \subseteq Explored(b[i])
        /\ Cardinality(b[i].visited) < ef => Explored(b[i]) \subseteq Explored(b[o])
        /\ b[i] \in Beams(g)
    BY <2>2 DEF Seen
  <2>4. st.visited \subseteq b[i].visited /\ b[i].visited \subseteq R
    BY <1>3, <1>4, <2>1, <2>3
  <2>5. Farther(st, c, b[i])
    BY <2>1, <2>3 DEF Farther
  <2>6. Cardinality(b[i].visited) < ef => Explored(b[i]) \subseteq Explored(st) \cup {c}
    <3>1. Cardinality(b[o].visited) <= Cardinality(b[i].visited)
      <4>1. b[o].visited \in SUBSET b[i].visited /\ b[i].visited \in SUBSET Nodes(g)
        BY <2>3 DEF Beams
      <4>2. IsFiniteSet(b[i].visited)
        BY <4>1, NodesFinite DEF Linked
      <4> QED
        BY <4>1, <4>2, FS_Subset
    <3>2. b[o].visited \in SUBSET Nodes(g) /\ b[i].visited \in SUBSET Nodes(g)
      BY <2>1, <2>3 DEF Beams
    <3>3. Cardinality(b[o].visited) \in Nat /\ Cardinality(b[i].visited) \in Nat
      BY <3>2, NodesFinite DEF Linked
    <3>4. Cardinality(b[i].visited) < ef => Cardinality(b[o].visited) < ef
      BY <3>1, <3>3
    <3> QED
      BY <2>1, <2>3, <3>4
  <2>7. ASSUME NEW j \in 1..i
        PROVE  row[j] \in b[i].visited
    <3>1. CASE j = i
      BY <2>3, <3>1
    <3>2. CASE j # i
      <4>1. j \in 1..o
        BY <3>2
      <4> QED
        BY <2>1, <2>3, <4>1
    <3> QED
      BY <3>1, <3>2
  <2> QED
    BY <2>3, <2>4, <2>5, <2>6, <2>7
<1>7. 0 \in Good /\ \A i \in 1..N : i - 1 \in Good => i \in Good
  <2> HIDE DEF Mid
  <2> QED
    BY <1>3, <1>5, <1>6
<1>8. N \in Good
  <2> HIDE DEF Good, N
  <2>1. N \in Nat /\ N \in 0..N
    BY <1>3
  <2>2. \A i \in 0..N : i \in Good
    BY <1>7, <2>1, IntervalInduction
  <2> QED
    BY <2>1, <2>2
<1>9. Mid(N) /\ b[N] \in Beams(g)
  BY <1>0, <1>3, <1>8
<1>10. ASSUME Cardinality(b[N].visited) < ef, NEW n \in Explored(b[N])
       PROVE  Range(g.links[n][0]) \subseteq b[N].visited
  <2>1. n \in Explored(st) \cup {c}
    BY <1>9, <1>10
  <2>2. CASE n = c
    <3>1. \A j \in 1..N : row[j] \in b[N].visited
      BY <1>9
    <3> QED
      BY <1>3, <2>2, <3>1 DEF Range
  <2>3. CASE n \in Explored(st)
    <3>1. b[N].visited \in SUBSET Nodes(g) /\ st.visited \in SUBSET b[N].visited
      BY <1>9 DEF Beams
    <3>2. IsFiniteSet(b[N].visited) /\ Cardinality(b[N].visited) \in Nat
      BY <3>1, NodesFinite DEF Linked
    <3>3. Cardinality(st.visited) <= Cardinality(b[N].visited) /\ IsFiniteSet(st.visited)
      BY <3>1, <3>2, FS_Subset
    <3>4. Cardinality(st.visited) \in Nat
      BY <3>3, FS_CardinalityType
    <3>5. Cardinality(st.visited) < ef
      BY <1>10, <3>2, <3>3, <3>4
    <3> QED
      BY <2>3, <3>1, <3>5 DEF BeamOK
  <2> QED
    BY <2>1, <2>2, <2>3
<1> QED
  BY <1>1, <1>9, <1>10 DEF BeamOK

\* An expansion is the last of them, unless the search stops.
IsExpansion(g, q, ef, lc, st, new) ==
  \E c \in st.frontier : \E b \in Walks(g, q, ef, st, c, g.links[c][lc]) :
    new = IF Stops(g, q, st, ef) THEN [st EXCEPT !.frontier = {}] ELSE b[Len(g.links[c][lc])]

\* An expansion walks over the row of a node of the frontier.
LEMMA ExpandedWalks ==
  ASSUME NEW g, Linked(g), NEW q \in Point, NEW ef, NEW lc \in Level,
         NEW st \in Beams(g), st.frontier # {}
  PROVE  IsExpansion(g, q, ef, lc, st, Expanded(g, q, ef, lc, st))
<1> DEFINE c == Closest(g, q, st.frontier)
<1>1. c \in st.frontier /\ c \in Nodes(g)
  BY Extremes DEF Beams, Linked
<1> DEFINE row == g.links[c][lc]
           N == Len(row)
           start == [st EXCEPT !.frontier = @ \ {c}]
           step == [x \in Beams(g) \X (1..N) |-> Visit(g, q, ef, x[1], row[x[2]])]
           Fits(h) == h = [i \in 0..N |-> IF i = 0 THEN start ELSE Visit(g, q, ef, h[i - 1], row[i])]
           after == CHOOSE h : Fits(h)
<1>2. row \in Seq(Nodes(g)) /\ N \in Nat
  BY <1>1, LenProperties DEF Linked
<1>3. \A i \in 1..N : row[i] \in Nodes(g)
  BY <1>2, ElementOfSeq
<1>4. start \in Beams(g)
  BY DEF Beams
<1>5. Expanded(g, q, ef, lc, st) = IF Stops(g, q, st, ef) THEN [st EXCEPT !.frontier = {}]
                                   ELSE after[N]
  BY DEF Expanded
<1> HIDE DEF c, row
<1>6. step \in [Beams(g) \X (1..N) -> Beams(g)]
  <2>1. \A x \in Beams(g) \X (1..N) : x[1] \in Beams(g) /\ row[x[2]] \in Nodes(g)
    BY <1>3
  <2>2. \A x \in Beams(g) \X (1..N) : Visit(g, q, ef, x[1], row[x[2]]) \in Beams(g)
    BY <2>1, VisitType
  <2> QED
    BY <2>2
<1>7. PICK f \in [0..N -> Beams(g)] : f[0] = start /\ \A i \in 1..N : f[i] = step[<<f[i - 1], i>>]
  <2> HIDE DEF N, step, start
  <2>1. Runs(Beams(g), start, N, step) # {}
    BY <1>2, <1>4, <1>6, RecursionExists
  <2> QED
    BY <2>1 DEF Runs
<1>8. \A i \in 1..N : f[i] = Visit(g, q, ef, f[i - 1], row[i])
  <2> TAKE i \in 1..N
  <2>1. f[i - 1] \in Beams(g)
    BY <1>2
  <2> QED
    BY <1>7, <2>1
<1>9. Fits(f)
  <2> HIDE DEF N, start
  <2>1. \A i \in 0..N : f[i] = IF i = 0 THEN start ELSE Visit(g, q, ef, f[i - 1], row[i])
    BY <1>2, <1>7, <1>8
  <2> QED
    BY <1>7, <2>1
<1>10. Fits(after)
  BY <1>9
<1> HIDE DEF after
<1>11. \A i \in 0..N : after[i] = IF i = 0 THEN start ELSE Visit(g, q, ef, after[i - 1], row[i])
  <2> HIDE DEF N, start
  <2> QED
    BY <1>10
<1>12. /\ after[0] = start
       /\ \A i \in 1..N : after[i] = Visit(g, q, ef, after[i - 1], row[i])
  <2> HIDE DEF N, start
  <2> QED
    BY <1>2, <1>11
<1>13. \A i \in 0..N : after[i] \in Beams(g)
  <2> DEFINE Good == {i \in 0..N : after[i] \in Beams(g)}
  <2>1. 0 \in Good
    BY <1>2, <1>4, <1>12
  <2>2. \A i \in 1..N : i - 1 \in Good => i \in Good
    <3> HIDE DEF N, start
    <3> QED
      BY <1>2, <1>3, <1>12, VisitType
  <2> HIDE DEF Good, N
  <2>3. \A i \in 0..N : i \in Good
    BY <1>2, <2>1, <2>2, IntervalInduction
  <2> QED
    BY <2>3 DEF Good
<1>14. after \in Walks(g, q, ef, st, c, row)
  <2>1. after = [i \in 0..N |-> after[i]]
    <3>1. after = [i \in 0..N |-> IF i = 0 THEN start ELSE Visit(g, q, ef, after[i - 1], row[i])]
      BY <1>10
    <3> HIDE DEF N, start
    <3> QED
      BY <1>11, <3>1
  <2>2. after \in [0..N -> Beams(g)]
    <3> HIDE DEF N
    <3> QED
      BY <1>13, <2>1
  <2> QED
    BY <1>12, <2>2 DEF Walks
<1> QED
  BY <1>1, <1>5, <1>14 DEF IsExpansion, c, row

\* An expansion leaves a beam of the graph.
LEMMA ExpandedType ==
  ASSUME NEW g, Linked(g), NEW q \in Point, NEW ef, NEW lc \in Level,
         NEW st \in Beams(g), st.frontier # {}
  PROVE  Expanded(g, q, ef, lc, st) \in Beams(g)
<1>1. PICK c \in st.frontier :
        \E b \in Walks(g, q, ef, st, c, g.links[c][lc]) :
          Expanded(g, q, ef, lc, st) = IF Stops(g, q, st, ef) THEN [st EXCEPT !.frontier = {}]
                                       ELSE b[Len(g.links[c][lc])]
  BY ExpandedWalks DEF IsExpansion
<1>2. PICK b \in Walks(g, q, ef, st, c, g.links[c][lc]) :
          Expanded(g, q, ef, lc, st) = IF Stops(g, q, st, ef) THEN [st EXCEPT !.frontier = {}]
                                       ELSE b[Len(g.links[c][lc])]
  BY <1>1
<1>3. Len(g.links[c][lc]) \in Nat
  BY LenProperties DEF Linked, Beams
<1>4. b[Len(g.links[c][lc])] \in Beams(g)
  BY <1>3 DEF Walks
<1>5. [st EXCEPT !.frontier = {}] \in Beams(g)
  BY DEF Beams
<1> QED
  BY <1>2, <1>4, <1>5

\* A search that has stopped has found ef nodes.
LEMMA StoppedOK ==
  ASSUME NEW g, Linked(g), NEW q \in Point, NEW ef \in Nat \ {0}, NEW R, NEW start,
         NEW st, BeamOK(g, q, R, ef, start, st), Stops(g, q, st, ef)
  PROVE  BeamOK(g, q, R, ef, start, [st EXCEPT !.frontier = {}])
<1> DEFINE new == [st EXCEPT !.frontier = {}]
<1>1. st \in Beams(g) /\ Best(g, q, ef, st.visited, st.found)
  BY DEF BeamOK
<1>2. new \in Beams(g) /\ new.visited = st.visited /\ new.found = st.found /\ new.frontier = {}
  BY <1>1 DEF Beams
<1>3. ~(Cardinality(st.visited) < ef)
  <2>1. st.visited \in SUBSET Nodes(g)
    BY <1>1 DEF Beams
  <2>2. Cardinality(st.visited) \in Nat
    BY <2>1, NodesFinite DEF Linked
  <2>3. Cardinality(st.visited) < ef => st.found = st.visited
    BY <2>2, <1>1 DEF Best
  <2>4. Cardinality(st.found) >= ef
    BY DEF Stops
  <2> QED
    BY <2>2, <2>3, <2>4
<1> HIDE DEF new
<1>4. BeamOK(g, q, R, ef, start, new)
  BY <1>1, <1>2, <1>3 DEF BeamOK
<1> QED
  BY <1>4 DEF new

\* A round of the search goes on to explore one node more, or ends.
Onward(st, new) ==
  new.frontier = {} \/ Cardinality(Explored(new)) >= Cardinality(Explored(st)) + 1

\* Exploring an open node is a way on.
LEMMA OnwardFrom ==
  ASSUME NEW g, Linked(g), NEW st \in Beams(g), NEW c \in st.frontier, NEW new \in Beams(g),
         Farther(st, c, new)
  PROVE  Onward(st, new)
<1> DEFINE E == Explored(st) \cup {c}
<1>1. Explored(st) \in SUBSET Nodes(g) /\ Explored(new) \in SUBSET Nodes(g) /\ c \notin Explored(st)
  BY DEF Explored, Beams
<1>2. /\ IsFiniteSet(Explored(st)) /\ Cardinality(Explored(st)) \in Nat
      /\ IsFiniteSet(Explored(new)) /\ Cardinality(Explored(new)) \in Nat
  BY <1>1, NodesFinite DEF Linked
<1>3. Cardinality(E) = Cardinality(Explored(st)) + 1
  BY <1>1, <1>2, FS_AddElement
<1>4. E \in SUBSET Explored(new)
  BY DEF Farther
<1> HIDE DEF E
<1>5. Cardinality(E) <= Cardinality(Explored(new))
  BY <1>2, <1>4, FS_Subset
<1> QED
  BY <1>2, <1>3, <1>5 DEF Onward

\* A round of the search keeps what makes a beam right, and goes on or ends.
LEMMA WalkedOnward ==
  ASSUME NEW g, Linked(g), NEW q \in Point, NEW ef \in Nat \ {0},
         NEW R \in SUBSET Nodes(g), Closed(g, R), NEW start,
         NEW st, BeamOK(g, q, R, ef, start, st)
  PROVE  /\ BeamOK(g, q, R, ef, start, Walked(g, q, ef, st))
         /\ Onward(st, Walked(g, q, ef, st))
<1>1. CASE st.frontier = {}
  <2>1. Walked(g, q, ef, st) = st
    BY <1>1 DEF Walked
  <2> QED
    BY <1>1, <2>1 DEF Onward
<1>2. CASE st.frontier # {}
  <2> DEFINE new == Walked(g, q, ef, st)
  <2>1. st \in Beams(g) /\ 0 \in Level
    BY ParamsAssumption DEF BeamOK, Level
  <2>2. PICK c \in st.frontier :
        \E b \in Walks(g, q, ef, st, c, g.links[c][0]) :
          new = IF Stops(g, q, st, ef) THEN [st EXCEPT !.frontier = {}] ELSE b[Len(g.links[c][0])]
    <3> PICK lc \in Level : lc = 0
      BY <2>1
    <3>1. new = Expanded(g, q, ef, lc, st)
      BY <1>2 DEF Walked
    <3> HIDE DEF new
    <3>2. IsExpansion(g, q, ef, lc, st, new)
      BY <1>2, <2>1, <3>1, ExpandedWalks
    <3> QED
      BY <3>2 DEF IsExpansion
  <2>3. PICK b \in Walks(g, q, ef, st, c, g.links[c][0]) :
          new = IF Stops(g, q, st, ef) THEN [st EXCEPT !.frontier = {}] ELSE b[Len(g.links[c][0])]
    BY <2>2
  <2> HIDE DEF new
  <2>4. CASE Stops(g, q, st, ef)
    <3>1. new = [st EXCEPT !.frontier = {}] /\ new.frontier = {}
      BY <2>1, <2>3, <2>4 DEF Beams
    <3> QED
      BY <2>4, <3>1, StoppedOK DEF Onward, new
  <2>5. CASE ~Stops(g, q, st, ef)
    <3> DEFINE row == g.links[c][0]
    <3>1. new = b[Len(row)]
      BY <2>3, <2>5
    <3>2. row = g.links[c][0] /\ b \in Walks(g, q, ef, st, c, row)
      OBVIOUS
    <3> HIDE DEF row
    <3>3. BeamOK(g, q, R, ef, start, new) /\ Farther(st, c, new)
      BY <3>1, <3>2, RowVisited
    <3>4. Onward(st, new)
      BY <2>1, <3>3, OnwardFrom DEF BeamOK
    <3> QED
      BY <3>3, <3>4 DEF new
  <2> QED
    BY <2>4, <2>5
<1> QED
  BY <1>1, <1>2

\* A beam that has explored as many nodes as there are has ended.
LEMMA AllExplored ==
  ASSUME NEW g, Linked(g), NEW st \in Beams(g), Cardinality(Explored(st)) >= Size(g)
  PROVE  st.frontier = {}
<1>1. Explored(st) \in SUBSET Nodes(g)
  BY DEF Explored, Beams
<1>2. Explored(st) = Nodes(g)
  <2>1. /\ Cardinality(Explored(st)) \in Nat /\ Size(g) \in Nat
        /\ Cardinality(Explored(st)) <= Size(g)
        /\ Cardinality(Explored(st)) = Size(g) => Explored(st) = Nodes(g)
    BY <1>1, NodesFinite DEF Linked
  <2> QED
    BY <2>1
<1> QED
  BY <1>2 DEF Explored, Beams

\* The search starts right.
LEMMA BeamStarts ==
  ASSUME NEW g, Linked(g), NEW q \in Point, NEW ef \in Nat \ {0},
         NEW R \in SUBSET Nodes(g), NEW start \in R
  PROVE  BeamOK(g, q, R, ef, start, BeamFrom({start}))
<1> DEFINE st == BeamFrom({start})
<1>1. st \in Beams(g) /\ st.frontier = {start} /\ st.visited = {start} /\ st.found = {start}
  BY DEF BeamFrom, Beams
<1>2. Cardinality({start}) = 1
  BY FS_Singleton
<1>3. Best(g, q, ef, {start}, {start})
  BY <1>2 DEF Best
<1>4. Explored(st) = {}
  BY <1>1 DEF Explored
<1> HIDE DEF st
<1>5. BeamOK(g, q, R, ef, start, st)
  BY <1>1, <1>3, <1>4 DEF BeamOK
<1> QED
  BY <1>5 DEF st

\* The search ends, having kept what makes it right.
LEMMA BeamEnds ==
  ASSUME NEW g, Linked(g), NEW q \in Point, NEW ef \in Nat \ {0},
         NEW R \in SUBSET Nodes(g), Closed(g, R), NEW start,
         NEW st, BeamOK(g, q, R, ef, start, st)
  PROVE  /\ BeamOK(g, q, R, ef, start, Beam(g, q, ef, st))
         /\ Beam(g, q, ef, st).frontier = {}
<1> DEFINE N == Size(g)
           S == {x \in Beams(g) : BeamOK(g, q, R, ef, start, x)}
           step == [x \in S \X (1..N) |-> Walked(g, q, ef, x[1])]
           Fits(h) == h = [k \in 0..N |-> IF k = 0 THEN st ELSE Walked(g, q, ef, h[k - 1])]
           after == CHOOSE h : Fits(h)
<1>1. N \in Nat
  BY LenProperties DEF Linked, Located, Size
<1>2. \A x \in S : Walked(g, q, ef, x) \in S /\ Onward(x, Walked(g, q, ef, x))
  <2> TAKE x \in S
  <2>1. BeamOK(g, q, R, ef, start, Walked(g, q, ef, x)) /\ Onward(x, Walked(g, q, ef, x))
    BY WalkedOnward
  <2>2. Walked(g, q, ef, x) \in Beams(g)
    BY <2>1 DEF BeamOK
  <2> QED
    BY <2>1, <2>2
<1>3. st \in S
  BY DEF BeamOK
<1>4. Beam(g, q, ef, st) = after[N]
  BY DEF Beam
<1>5. S \subseteq Beams(g) /\ \A x \in S : BeamOK(g, q, R, ef, start, x)
  OBVIOUS
<1> HIDE DEF S
<1>6. step \in [S \X (1..N) -> S]
  BY <1>2
<1>7. PICK f \in [0..N -> S] : f[0] = st /\ \A k \in 1..N : f[k] = step[<<f[k - 1], k>>]
  <2> HIDE DEF N, step
  <2>1. Runs(S, st, N, step) # {}
    BY <1>1, <1>3, <1>6, RecursionExists
  <2> QED
    BY <2>1 DEF Runs
<1>8. \A k \in 1..N : f[k] = Walked(g, q, ef, f[k - 1])
  <2> TAKE k \in 1..N
  <2>1. f[k - 1] \in S
    BY <1>1
  <2> QED
    BY <1>7, <2>1
<1>9. Fits(f)
  <2> HIDE DEF N
  <2>1. \A k \in 0..N : f[k] = IF k = 0 THEN st ELSE Walked(g, q, ef, f[k - 1])
    BY <1>1, <1>7, <1>8
  <2> QED
    BY <1>7, <2>1
<1>10. Fits(after)
  BY <1>9
<1> HIDE DEF after, N
<1>11. /\ after[0] = st
       /\ \A k \in 1..N : after[k] = Walked(g, q, ef, after[k - 1])
  <2>1. \A k \in 0..N : after[k] = IF k = 0 THEN st ELSE Walked(g, q, ef, after[k - 1])
    BY <1>10
  <2> QED
    BY <1>1, <2>1
<1> DEFINE Far(k) == after[k].frontier = {} \/ Cardinality(Explored(after[k])) >= k
           Good == {k \in 0..N : after[k] \in S /\ Far(k)}
<1>12. 0 \in Good
  <2>1. Explored(st) \in SUBSET Nodes(g)
    BY <1>3, <1>5 DEF Explored, Beams
  <2>2. Cardinality(Explored(st)) \in Nat
    BY <2>1, NodesFinite DEF Linked
  <2> QED
    BY <1>1, <1>3, <1>11, <2>2
<1>13. \A k \in 1..N : k - 1 \in Good => k \in Good
  <2> SUFFICES ASSUME NEW k \in 1..N, k - 1 \in Good PROVE k \in Good
    OBVIOUS
  <2> PICK o \in 0..N : o = k - 1
    BY <1>1
  <2>1. after[o] \in S /\ Far(o) /\ after[k] = Walked(g, q, ef, after[o])
    BY <1>11
  <2>2. after[k] \in S /\ Onward(after[o], after[k])
    BY <1>2, <2>1
  <2>3. CASE after[o].frontier = {}
    <3>1. after[k] = after[o]
      BY <2>1, <2>3 DEF Walked
    <3> QED
      BY <2>2, <2>3, <3>1
  <2>4. CASE Cardinality(Explored(after[o])) >= o
    <3>1. Explored(after[o]) \in SUBSET Nodes(g) /\ Explored(after[k]) \in SUBSET Nodes(g)
      BY <1>5, <2>1, <2>2 DEF Explored, Beams
    <3>2. Cardinality(Explored(after[o])) \in Nat /\ Cardinality(Explored(after[k])) \in Nat
      BY <3>1, NodesFinite DEF Linked
    <3>3. k = o + 1 /\ o \in Nat
      BY <1>1
    <3> QED
      BY <2>2, <2>4, <3>2, <3>3 DEF Onward
  <2> QED
    BY <2>1, <2>3, <2>4
<1>14. N \in Good
  <2> HIDE DEF Good
  <2> QED
    BY <1>1, <1>12, <1>13, IntervalInduction
<1>15. after[N] \in Beams(g) /\ BeamOK(g, q, R, ef, start, after[N])
  BY <1>5, <1>14
<1>16. after[N].frontier = {}
  BY <1>14, <1>15, AllExplored DEF N
<1> QED
  BY <1>4, <1>15, <1>16

-----------------------------------------------------------------------------
(* What is within reach.                                                   *)

\* What is within reach is closed under the links, and is the least such set.
LEMMA ReachCloses ==
  ASSUME NEW g, Linked(g), NEW S
  PROVE  /\ Reach(g, S) \in SUBSET Nodes(g)
         /\ Closed(g, Reach(g, S))
         /\ \A x \in S : x \in Nodes(g) => x \in Reach(g, S)
         /\ \A C \in SUBSET Nodes(g) : S \subseteq C /\ Closed(g, C) => Reach(g, S) \subseteq C
<1> DEFINE R == Reach(g, S)
<1>1. R \in SUBSET Nodes(g) /\ \A x \in S : x \in Nodes(g) => x \in R
  BY DEF Reach, Nodes
<1>2. \A C \in SUBSET Nodes(g) : S \subseteq C /\ Closed(g, C) => R \subseteq C
  BY DEF Reach, Nodes
<1>3. ASSUME NEW n \in R, NEW x \in Range(g.links[n][0])
      PROVE  x \in R
  <2>1. x \in Nodes(g)
    <3>1. 0 \in Level /\ n \in Nodes(g)
      BY <1>1, ParamsAssumption DEF Level
    <3>2. g.links[n][0] \in Seq(Nodes(g))
      BY <3>1 DEF Linked
    <3> QED
      BY <3>2, ElementOfSeq, LenProperties DEF Range
  <2>2. ASSUME NEW C \in SUBSET Nodes(g), S \subseteq C, Closed(g, C)
        PROVE  x \in C
    <3>1. n \in C
      BY <1>2, <2>2
    <3> QED
      BY <2>2, <3>1 DEF Closed
  <2> QED
    BY <2>1, <2>2 DEF Reach, Nodes
<1> QED
  BY <1>1, <1>2, <1>3 DEF Closed

\* The beam has seen ef of the nodes of R, or all of them.
SawEnough(g, R, ef, st) ==
  /\ st.visited \in SUBSET Nodes(g) /\ st.visited \subseteq R
  /\ Cardinality(st.visited) < ef => st.visited = R
  /\ ef >= Size(g) => st.visited = R

\* A search that has ended has seen ef nodes or all that are within reach.
LEMMA EndedReaches ==
  ASSUME NEW g, Linked(g), NEW q \in Point, NEW ef \in Nat \ {0}, NEW start \in Nodes(g),
         NEW st, BeamOK(g, q, Reach(g, {start}), ef, start, st), st.frontier = {}
  PROVE  SawEnough(g, Reach(g, {start}), ef, st)
<1> DEFINE R == Reach(g, {start})
           V == st.visited
<1>1. V \in SUBSET Nodes(g) /\ V \subseteq R /\ start \in V
  BY DEF BeamOK, Beams
<1>2. ASSUME Cardinality(V) < ef
      PROVE  V = R
  <2>1. Explored(st) = V
    BY DEF Explored
  <2>2. Closed(g, V)
    BY <1>2, <2>1 DEF BeamOK, Closed
  <2>3. R \subseteq V
    BY <1>1, <2>2, ReachCloses
  <2> QED
    BY <1>1, <2>3
<1>3. ASSUME ef >= Size(g)
      PROVE  V = R
  <2>1. /\ Cardinality(V) \in Nat /\ Size(g) \in Nat /\ Cardinality(V) <= Size(g)
        /\ Cardinality(V) = Size(g) => V = Nodes(g)
    BY <1>1, NodesFinite DEF Linked
  <2>2. R \in SUBSET Nodes(g)
    BY ReachCloses
  <2>3. CASE Cardinality(V) = Size(g)
    BY <1>1, <2>1, <2>2, <2>3
  <2>4. CASE Cardinality(V) # Size(g)
    <3>1. Cardinality(V) < ef
      BY <1>3, <2>1, <2>4
    <3> QED
      BY <1>2, <3>1
  <2> QED
    BY <2>3, <2>4
<1> QED
  BY <1>1, <1>2, <1>3 DEF SawEnough

-----------------------------------------------------------------------------
(* The descent to the bottom layer.                                        *)

\* A pass over a row stays, or gets closer.
Approaches(g, q, n) == {x \in Nodes(g) : x = n \/ DistTo(g, q, x) < DistTo(g, q, n)}

\* The descent over a row does so.
LEMMA DescendedApproaches ==
  ASSUME NEW g, Linked(g), NEW q \in Point, NEW n \in Nodes(g), NEW lc \in Level
  PROVE  Descended(g, q, n, lc) \in Approaches(g, q, n)
<1> DEFINE row == g.links[n][lc]
           N == Len(row)
           S == Approaches(g, q, n)
           step == [x \in S \X (1..N) |-> Nearer(g, q, x[1], row[x[2]])]
           Fits(h) == h = [i \in 0..N |-> IF i = 0 THEN n ELSE Nearer(g, q, h[i - 1], row[i])]
           best == CHOOSE h : Fits(h)
<1>1. row \in Seq(Nodes(g)) /\ N \in Nat
  BY LenProperties DEF Linked
<1>2. \A i \in 1..N : row[i] \in Nodes(g)
  BY <1>1, ElementOfSeq
<1>3. n \in S
  BY DEF Approaches
<1>4. \A x \in S, y \in Nodes(g) : Nearer(g, q, x, y) \in S
  <2> TAKE x \in S, y \in Nodes(g)
  <2>1. x \in Nodes(g) /\ (x = n \/ DistTo(g, q, x) < DistTo(g, q, n))
    BY DEF Approaches
  <2>2. DistTo(g, q, x) \in Int /\ DistTo(g, q, y) \in Int /\ DistTo(g, q, n) \in Int
    BY <2>1, DistanceType DEF Linked
  <2>3. DistTo(g, q, y) < DistTo(g, q, x) => DistTo(g, q, y) < DistTo(g, q, n)
    BY <2>1, <2>2
  <2> QED
    BY <2>3 DEF Nearer, Approaches
<1>5. Descended(g, q, n, lc) = best[N]
  BY DEF Descended
<1> HIDE DEF S, row
<1>6. step \in [S \X (1..N) -> S]
  <2>1. \A x \in S \X (1..N) : x[1] \in S /\ row[x[2]] \in Nodes(g)
    BY <1>2
  <2>2. \A x \in S \X (1..N) : Nearer(g, q, x[1], row[x[2]]) \in S
    BY <1>4, <2>1
  <2> QED
    BY <2>2
<1>7. PICK f \in [0..N -> S] : f[0] = n /\ \A i \in 1..N : f[i] = step[<<f[i - 1], i>>]
  <2> HIDE DEF N, step
  <2>1. Runs(S, n, N, step) # {}
    BY <1>1, <1>3, <1>6, RecursionExists
  <2> QED
    BY <2>1 DEF Runs
<1>8. \A i \in 1..N : f[i] = Nearer(g, q, f[i - 1], row[i])
  <2> TAKE i \in 1..N
  <2>1. f[i - 1] \in S
    BY <1>1
  <2> QED
    BY <1>7, <2>1
<1>9. Fits(f)
  <2> HIDE DEF N
  <2>1. \A i \in 0..N : f[i] = IF i = 0 THEN n ELSE Nearer(g, q, f[i - 1], row[i])
    BY <1>1, <1>7, <1>8
  <2> QED
    BY <1>7, <2>1
<1>10. Fits(best)
  BY <1>9
<1> HIDE DEF best, N
<1>11. \A i \in 0..N : best[i] = IF i = 0 THEN n ELSE Nearer(g, q, best[i - 1], row[i])
  BY <1>10
<1> DEFINE Good == {i \in 0..N : best[i] \in S}
<1>12. 0 \in Good /\ \A i \in 1..N : i - 1 \in Good => i \in Good
  BY <1>1, <1>2, <1>3, <1>4, <1>11 DEF N
<1> HIDE DEF Good
<1>13. \A i \in 0..N : i \in Good
  BY <1>1, <1>12, IntervalInduction
<1> QED
  BY <1>1, <1>5, <1>13 DEF Good, S

\* Where the descent may be, and how many passes it may still make.
Descents(g) == [node : Nodes(g), lc : Level]

Closer(g, q, n) == {x \in Nodes(g) : DistTo(g, q, x) < DistTo(g, q, n)}

Remaining(g, q, at) == Cardinality(Closer(g, q, at.node)) + at.lc

\* The passes left are no more than the bound of Greedy.
LEMMA RemainingType ==
  ASSUME NEW g, Linked(g), NEW q, NEW at \in Descents(g)
  PROVE  /\ IsFiniteSet(Closer(g, q, at.node)) /\ Cardinality(Closer(g, q, at.node)) \in Nat
         /\ Remaining(g, q, at) \in 0..Size(g) + MaxLevel
<1> DEFINE C == Closer(g, q, at.node)
<1>1. C \in SUBSET Nodes(g)
  BY DEF Closer
<1> HIDE DEF C
<1>2. IsFiniteSet(C) /\ Cardinality(C) \in Nat /\ Cardinality(C) <= Size(g) /\ Size(g) \in Nat
  BY <1>1, NodesFinite DEF Linked
<1>3. at.lc \in 0..MaxLevel /\ MaxLevel \in Nat
  BY ParamsAssumption DEF Descents, Level
<1>4. Cardinality(C) + at.lc \in 0..Size(g) + MaxLevel
  BY <1>2, <1>3
<1> QED
  BY <1>2, <1>4 DEF Remaining, C

\* A pass above the bottom layer leaves fewer to make.
LEMMA StrodeDescends ==
  ASSUME NEW g, Linked(g), NEW q \in Point, NEW at \in Descents(g)
  PROVE  /\ Strode(g, q, at) \in Descents(g)
         /\ at.lc = 0 => Strode(g, q, at).lc = 0
         /\ at.lc # 0 => Remaining(g, q, Strode(g, q, at)) < Remaining(g, q, at)
<1> DEFINE next == Descended(g, q, at.node, at.lc)
           new == Strode(g, q, at)
<1>1. at.node \in Nodes(g) /\ at.lc \in Level
  BY DEF Descents
<1>2. next \in Nodes(g) /\ (next = at.node \/ DistTo(g, q, next) < DistTo(g, q, at.node))
  BY <1>1, DescendedApproaches DEF Approaches
<1>3. new = IF at.lc = 0 THEN at
            ELSE IF next = at.node THEN [at EXCEPT !.lc = @ - 1] ELSE [at EXCEPT !.node = next]
  BY DEF Strode
<1> HIDE DEF next, new
<1>4. CASE at.lc = 0
  BY <1>3, <1>4 DEF new
<1>5. CASE at.lc # 0 /\ next = at.node
  <2>1. at.lc \in 1..MaxLevel /\ at.lc - 1 \in Level
    BY <1>1, <1>5, ParamsAssumption DEF Level
  <2>2. new \in Descents(g) /\ new.node = at.node /\ new.lc = at.lc - 1
    BY <1>3, <1>5, <2>1 DEF Descents
  <2>3. Cardinality(Closer(g, q, at.node)) \in Nat
    BY RemainingType
  <2>4. Remaining(g, q, new) < Remaining(g, q, at)
    BY <2>1, <2>2, <2>3 DEF Remaining
  <2> QED
    BY <1>5, <2>2, <2>4 DEF new
<1>6. CASE at.lc # 0 /\ next # at.node
  <2>1. new \in Descents(g) /\ new.node = next /\ new.lc = at.lc
    BY <1>2, <1>3, <1>6 DEF Descents
  <2>2. DistTo(g, q, next) < DistTo(g, q, at.node)
    BY <1>2, <1>6
  <2>3. \A x \in Nodes(g) : DistTo(g, q, x) \in Int
    BY DistanceType DEF Linked
  <2> DEFINE A == Closer(g, q, next)
             B == Closer(g, q, at.node)
  <2>4. A \in SUBSET B /\ next \in B /\ next \notin A
    BY <1>1, <1>2, <2>2, <2>3 DEF Closer
  <2>5. IsFiniteSet(B) /\ Cardinality(B) \in Nat /\ Cardinality(A) \in Nat
    BY <2>1, RemainingType
  <2> HIDE DEF A, B
  <2>6. Cardinality(A) <= Cardinality(B) /\ (Cardinality(B) = Cardinality(A) => B = A)
    BY <2>4, <2>5, FS_Subset
  <2>7. Cardinality(A) < Cardinality(B)
    BY <2>4, <2>5, <2>6
  <2>8. at.lc \in Int
    BY <1>1 DEF Level
  <2>9. Cardinality(A) + at.lc < Cardinality(B) + at.lc
    BY <2>5, <2>7, <2>8
  <2>10. Remaining(g, q, new) < Remaining(g, q, at)
    BY <2>1, <2>9 DEF Remaining, A, B
  <2> QED
    BY <1>6, <2>1, <2>10 DEF new
<1> QED
  BY <1>4, <1>5, <1>6

\* The descent ends at a node of the bottom layer.
LEMMA GreedyEnds ==
  ASSUME NEW g, Linked(g), NEW q \in Point, g.entry \in Nodes(g), g.level[g.entry] \in Level
  PROVE  /\ Greedy(g, q) \in Descents(g)
         /\ Greedy(g, q).lc = 0
<1> DEFINE N == Size(g) + MaxLevel
           S == Descents(g)
           start == [node |-> g.entry, lc |-> g.level[g.entry]]
           step == [x \in S \X (1..N) |-> Strode(g, q, x[1])]
           Fits(h) == h = [k \in 0..N |-> IF k = 0 THEN start ELSE Strode(g, q, h[k - 1])]
           at == CHOOSE h : Fits(h)
<1>1. N \in Nat
  BY LenProperties, ParamsAssumption DEF Linked, Located, Size
<1>2. \A x \in S : Strode(g, q, x) \in S
  BY StrodeDescends
<1>3. start \in S
  BY DEF Descents
<1>4. Greedy(g, q) = at[N]
  BY DEF Greedy
<1> HIDE DEF S, N, start
<1>5. step \in [S \X (1..N) -> S]
  BY <1>2
<1>6. PICK f \in [0..N -> S] : f[0] = start /\ \A k \in 1..N : f[k] = step[<<f[k - 1], k>>]
  <2> HIDE DEF step
  <2>1. Runs(S, start, N, step) # {}
    BY <1>1, <1>3, <1>5, RecursionExists
  <2> QED
    BY <2>1 DEF Runs
<1>7. \A k \in 1..N : f[k] = Strode(g, q, f[k - 1])
  <2> TAKE k \in 1..N
  <2>1. f[k - 1] \in S
    BY <1>1
  <2> QED
    BY <1>6, <2>1
<1>8. Fits(f)
  <2>1. \A k \in 0..N : f[k] = IF k = 0 THEN start ELSE Strode(g, q, f[k - 1])
    BY <1>1, <1>6, <1>7
  <2> QED
    BY <1>6, <2>1
<1>9. Fits(at)
  BY <1>8
<1> HIDE DEF at
<1>10. \A k \in 0..N : at[k] = IF k = 0 THEN start ELSE Strode(g, q, at[k - 1])
  BY <1>9
<1>11. at[0] = start /\ \A k \in 1..N : at[k] = Strode(g, q, at[k - 1])
  BY <1>1, <1>10
<1> DEFINE Near(k) == at[k].lc = 0 \/ Remaining(g, q, at[k]) <= N - k
           Good == {k \in 0..N : at[k] \in S /\ Near(k)}
<1>12. 0 \in Good
  <2>1. Remaining(g, q, start) \in 0..N
    BY <1>3, RemainingType DEF S, N
  <2> QED
    BY <1>1, <1>3, <1>11, <2>1
<1>13. \A k \in 1..N : k - 1 \in Good => k \in Good
  <2> SUFFICES ASSUME NEW k \in 1..N, k - 1 \in Good PROVE k \in Good
    OBVIOUS
  <2> PICK o \in 0..N : o = k - 1
    BY <1>1
  <2>1. at[o] \in S /\ Near(o) /\ at[k] = Strode(g, q, at[o])
    BY <1>11
  <2>2. /\ at[k] \in S
        /\ at[o].lc = 0 => at[k].lc = 0
        /\ at[o].lc # 0 => Remaining(g, q, at[k]) < Remaining(g, q, at[o])
    BY <2>1, StrodeDescends DEF S
  <2>3. Remaining(g, q, at[k]) \in Nat /\ Remaining(g, q, at[o]) \in Nat
    BY <2>1, <2>2, RemainingType DEF S
  <2>4. k = o + 1 /\ o \in Nat
    BY <1>1
  <2>5. Near(k)
    BY <1>1, <2>1, <2>2, <2>3, <2>4
  <2> QED
    BY <2>2, <2>5
<1>14. N \in Good
  <2> HIDE DEF Good
  <2>1. N \in 0..N
    BY <1>1
  <2>2. \A k \in 0..N : k \in Good
    BY <1>1, <1>12, <1>13, IntervalInduction
  <2> QED
    BY <2>1, <2>2
<1>15. at[N] \in S /\ (at[N].lc = 0 \/ Remaining(g, q, at[N]) <= 0)
  BY <1>1, <1>14
<1>16. at[N].lc = 0
  <2>1. Cardinality(Closer(g, q, at[N].node)) \in Nat /\ at[N].lc \in Nat
    BY <1>15, RemainingType DEF S, Descents, Level
  <2> QED
    BY <1>15, <2>1 DEF Remaining
<1> QED
  BY <1>4, <1>15, <1>16 DEF S
-----------------------------------------------------------------------------
(* The filtered search.                                                    *)

\* A filtered beam whose hits are the k best of the nodes it has seen that pass.
Sifts(g, q, k, pass) ==
  {st \in [beam : Beams(g), hits : SUBSET Nodes(g)] :
     Best(g, q, k, st.beam.visited \cap pass, st.hits)}

\* A visit keeps the hits the best.
LEMMA FilteredVisitSifts ==
  ASSUME NEW g, Located(g), NEW q \in Point, NEW k \in Nat \ {0}, NEW ef, NEW pass,
         NEW st \in Sifts(g, q, k, pass), NEW x \in Nodes(g)
  PROVE  /\ FilteredVisit(g, q, k, ef, pass, st, x) \in Sifts(g, q, k, pass)
         /\ FilteredVisit(g, q, k, ef, pass, st, x).beam = Visit(g, q, ef, st.beam, x)
<1> DEFINE new == FilteredVisit(g, q, k, ef, pass, st, x)
           P == st.beam.visited \cap pass
           beam == Visit(g, q, ef, st.beam, x)
           hits == IF x \notin st.beam.visited /\ x \in pass /\ Admits(g, q, st.hits, k, x)
                   THEN Trimmed(g, q, st.hits \cup {x}, k) ELSE st.hits
<1>1. st.beam \in Beams(g) /\ st.hits \in SUBSET Nodes(g) /\ Best(g, q, k, P, st.hits)
  BY DEF Sifts
<1>2. beam \in Beams(g) /\ beam.visited = st.beam.visited \cup {x}
  <2>1. beam \in Beams(g)
    BY <1>1, VisitType
  <2>2. beam.visited = st.beam.visited \cup {x}
    BY <1>1 DEF Visit, Beams
  <2> QED
    BY <2>1, <2>2
<1>3. P \in SUBSET Nodes(g)
  BY <1>1 DEF Beams
<1>4. new = [beam |-> beam, hits |-> hits]
  BY DEF FilteredVisit
<1>5. hits \in SUBSET Nodes(g) /\ Best(g, q, k, beam.visited \cap pass, hits)
  <2>1. CASE x \notin st.beam.visited /\ x \in pass
    <3>1. beam.visited \cap pass = P \cup {x} /\ x \notin P
      BY <1>2, <2>1
    <3>2. Best(g, q, k, P \cup {x}, IF Admits(g, q, st.hits, k, x)
                                    THEN Trimmed(g, q, st.hits \cup {x}, k) ELSE st.hits)
      BY <1>1, <1>3, <3>1, BestAdmitted
    <3>3. hits = IF Admits(g, q, st.hits, k, x) THEN Trimmed(g, q, st.hits \cup {x}, k) ELSE st.hits
      BY <2>1
    <3>4. hits \subseteq Nodes(g)
      BY <1>1 DEF Trimmed
    <3> HIDE DEF hits, beam, P
    <3> QED
      BY <3>1, <3>2, <3>3, <3>4
  <2>2. CASE ~(x \notin st.beam.visited /\ x \in pass)
    <3>1. beam.visited \cap pass = P /\ hits = st.hits
      BY <1>2, <2>2
    <3> HIDE DEF hits, beam, P
    <3> QED
      BY <1>1, <3>1
  <2> QED
    BY <2>1, <2>2
<1> HIDE DEF beam, hits, P, new
<1>6. new.beam = beam /\ new.hits = hits
  BY <1>4
<1>7. new \in Sifts(g, q, k, pass)
  BY <1>2, <1>4, <1>5, <1>6 DEF Sifts
<1> QED
  BY <1>6, <1>7 DEF new, beam

\* The states that a walk over a row goes through when it filters.
Siftings(g, q, k, ef, pass, st, c, row) ==
  {f \in [0..Len(row) -> Sifts(g, q, k, pass)] :
     /\ f[0].beam = [st.beam EXCEPT !.frontier = @ \ {c}]
     /\ \A i \in 1..Len(row) : f[i].beam = Visit(g, q, ef, f[i - 1].beam, row[i])}

IsSifting(g, q, k, ef, pass, st, new) ==
  \E c \in st.beam.frontier : \E f \in Siftings(g, q, k, ef, pass, st, c, g.links[c][0]) :
    new = IF Stops(g, q, st.beam, ef) THEN [st EXCEPT !.beam.frontier = {}]
          ELSE f[Len(g.links[c][0])]

\* The filtered search walks over the row of a node of its frontier.
LEMMA FilteredWalks ==
  ASSUME NEW g, Linked(g), NEW q \in Point, NEW k \in Nat \ {0}, NEW ef, NEW pass,
         NEW st \in Sifts(g, q, k, pass), st.beam.frontier # {}
  PROVE  IsSifting(g, q, k, ef, pass, st, FilteredWalked(g, q, k, ef, pass, st))
<1> DEFINE T == Sifts(g, q, k, pass)
           c == Closest(g, q, st.beam.frontier)
<1>0. st.beam \in Beams(g) /\ st.hits \in SUBSET Nodes(g)
  BY DEF Sifts
<1>1. c \in st.beam.frontier /\ c \in Nodes(g)
  BY <1>0, Extremes DEF Beams, Linked
<1> DEFINE row == g.links[c][0]
           N == Len(row)
           start == [st EXCEPT !.beam.frontier = @ \ {c}]
           step == [x \in T \X (1..N) |-> FilteredVisit(g, q, k, ef, pass, x[1], row[x[2]])]
           Fits(h) == h = [i \in 0..N |-> IF i = 0 THEN start
                                          ELSE FilteredVisit(g, q, k, ef, pass, h[i - 1], row[i])]
           after == CHOOSE h : Fits(h)
<1>2. row \in Seq(Nodes(g)) /\ N \in Nat
  <2>1. 0 \in Level
    BY ParamsAssumption DEF Level
  <2> QED
    BY <1>1, <2>1, LenProperties DEF Linked
<1>3. \A i \in 1..N : row[i] \in Nodes(g)
  BY <1>2, ElementOfSeq
<1>4. start \in T /\ start.beam = [st.beam EXCEPT !.frontier = @ \ {c}]
  <2> DEFINE beam == [st.beam EXCEPT !.frontier = @ \ {c}]
  <2>1. beam \in Beams(g) /\ beam.visited = st.beam.visited
    BY <1>0 DEF Beams
  <2>2. st = [beam |-> st.beam, hits |-> st.hits]
    BY DEF Sifts
  <2>3. start = [st EXCEPT !.beam = beam]
    OBVIOUS
  <2> HIDE DEF beam, start
  <2>4. start = [beam |-> beam, hits |-> st.hits]
    BY <2>2, <2>3
  <2>5. start.beam = beam /\ start.hits = st.hits
    BY <2>4
  <2>6. Best(g, q, k, start.beam.visited \cap pass, start.hits)
    <3>1. Best(g, q, k, st.beam.visited \cap pass, st.hits)
      BY DEF Sifts
    <3> QED
      BY <2>1, <2>5, <3>1
  <2>7. start \in T
    BY <1>0, <2>1, <2>4, <2>6 DEF Sifts
  <2> QED
    BY <2>5, <2>7 DEF beam
<1>5. FilteredWalked(g, q, k, ef, pass, st) =
        IF Stops(g, q, st.beam, ef) THEN [st EXCEPT !.beam.frontier = {}] ELSE after[N]
  <2>1. FilteredWalked(g, q, k, ef, pass, st) =
          IF st.beam.frontier = {} THEN st
          ELSE IF Stops(g, q, st.beam, ef) THEN [st EXCEPT !.beam.frontier = {}] ELSE after[N]
    BY DEF FilteredWalked
  <2> HIDE DEF after, N
  <2> QED
    BY <2>1
<1> HIDE DEF c, row, T
<1>6. \A x \in T, y \in Nodes(g) : FilteredVisit(g, q, k, ef, pass, x, y) \in T
  BY FilteredVisitSifts DEF Linked, T
<1>7. step \in [T \X (1..N) -> T]
  <2>1. \A x \in T \X (1..N) : x[1] \in T /\ row[x[2]] \in Nodes(g)
    BY <1>3
  <2>2. \A x \in T \X (1..N) : FilteredVisit(g, q, k, ef, pass, x[1], row[x[2]]) \in T
    BY <1>6, <2>1
  <2> QED
    BY <2>2
<1>8. PICK f \in [0..N -> T] : f[0] = start /\ \A i \in 1..N : f[i] = step[<<f[i - 1], i>>]
  <2> HIDE DEF N, step, start
  <2>1. Runs(T, start, N, step) # {}
    BY <1>2, <1>4, <1>7, RecursionExists
  <2> QED
    BY <2>1 DEF Runs
<1>9. \A i \in 1..N : f[i] = FilteredVisit(g, q, k, ef, pass, f[i - 1], row[i])
  <2> TAKE i \in 1..N
  <2>1. f[i - 1] \in T
    BY <1>2
  <2> QED
    BY <1>8, <2>1
<1>10. Fits(f)
  <2> HIDE DEF N, start
  <2>1. \A i \in 0..N : f[i] = IF i = 0 THEN start
                               ELSE FilteredVisit(g, q, k, ef, pass, f[i - 1], row[i])
    BY <1>2, <1>8, <1>9
  <2> QED
    BY <1>8, <2>1
<1>11. Fits(after)
  BY <1>10
<1> HIDE DEF after
<1>12. \A i \in 0..N : after[i] = IF i = 0 THEN start
                                  ELSE FilteredVisit(g, q, k, ef, pass, after[i - 1], row[i])
  <2> HIDE DEF N, start
  <2> QED
    BY <1>11
<1>13. /\ after[0] = start
       /\ \A i \in 1..N : after[i] = FilteredVisit(g, q, k, ef, pass, after[i - 1], row[i])
  <2> HIDE DEF N, start
  <2> QED
    BY <1>2, <1>12
<1>14. \A i \in 0..N : after[i] \in T
  <2> DEFINE Good == {i \in 0..N : after[i] \in T}
  <2>1. 0 \in Good
    BY <1>2, <1>4, <1>13
  <2>2. \A i \in 1..N : i - 1 \in Good => i \in Good
    <3> SUFFICES ASSUME NEW i \in 1..N, i - 1 \in Good PROVE i \in Good
      OBVIOUS
    <3>1. after[i - 1] \in T /\ row[i] \in Nodes(g)
      BY <1>3
    <3> HIDE DEF N, start
    <3>2. after[i] \in T
      BY <1>6, <1>13, <3>1
    <3> QED
      BY <1>2, <3>2
  <2> HIDE DEF Good, N
  <2>3. \A i \in 0..N : i \in Good
    BY <1>2, <2>1, <2>2, IntervalInduction
  <2> QED
    BY <2>3 DEF Good
<1>15. after \in [0..N -> T]
  <2>1. after = [i \in 0..N |-> after[i]]
    <3>1. after = [i \in 0..N |-> IF i = 0 THEN start
                                  ELSE FilteredVisit(g, q, k, ef, pass, after[i - 1], row[i])]
      BY <1>11
    <3> HIDE DEF N, start
    <3> QED
      BY <1>12, <3>1
  <2> HIDE DEF N
  <2> QED
    BY <1>14, <2>1
<1>16. \A i \in 1..N : after[i].beam = Visit(g, q, ef, after[i - 1].beam, row[i])
  <2> TAKE i \in 1..N
  <2> PICK o \in 0..N : o = i - 1
    BY <1>2
  <2>1. after[o] \in T /\ row[i] \in Nodes(g)
        /\ after[i] = FilteredVisit(g, q, k, ef, pass, after[o], row[i])
    BY <1>3, <1>13, <1>14
  <2>2. after[i].beam = Visit(g, q, ef, after[o].beam, row[i])
    BY <2>1, FilteredVisitSifts DEF Linked, T
  <2> QED
    BY <2>2
<1>17. after \in Siftings(g, q, k, ef, pass, st, c, row)
  <2> HIDE DEF start
  <2> QED
    BY <1>4, <1>13, <1>15, <1>16 DEF Siftings, T
<1> QED
  BY <1>1, <1>5, <1>17 DEF IsSifting, c, row

\* What makes a filtered search right.
SiftOK(g, q, R, k, ef, pass, start, st) ==
  st \in Sifts(g, q, k, pass) /\ BeamOK(g, q, R, ef, start, st.beam)

\* A round keeps it, and goes on or ends.
LEMMA FilteredOnward ==
  ASSUME NEW g, Linked(g), NEW q \in Point, NEW k \in Nat \ {0}, NEW ef \in Nat \ {0}, NEW pass,
         NEW R \in SUBSET Nodes(g), Closed(g, R), NEW start,
         NEW st, SiftOK(g, q, R, k, ef, pass, start, st)
  PROVE  /\ SiftOK(g, q, R, k, ef, pass, start, FilteredWalked(g, q, k, ef, pass, st))
         /\ Onward(st.beam, FilteredWalked(g, q, k, ef, pass, st).beam)
<1> DEFINE new == FilteredWalked(g, q, k, ef, pass, st)
<1>0. st \in Sifts(g, q, k, pass) /\ BeamOK(g, q, R, ef, start, st.beam) /\ st.beam \in Beams(g)
  BY DEF SiftOK, Sifts
<1>1. CASE st.beam.frontier = {}
  <2>1. new = st
    BY <1>1 DEF FilteredWalked
  <2> QED
    BY <1>1, <2>1 DEF Onward
<1>2. CASE st.beam.frontier # {}
  <2>1. IsSifting(g, q, k, ef, pass, st, new)
    BY <1>0, <1>2, FilteredWalks
  <2> HIDE DEF new
  <2>2. PICK c \in st.beam.frontier : \E f \in Siftings(g, q, k, ef, pass, st, c, g.links[c][0]) :
          new = IF Stops(g, q, st.beam, ef) THEN [st EXCEPT !.beam.frontier = {}]
                ELSE f[Len(g.links[c][0])]
    BY <2>1 DEF IsSifting
  <2> DEFINE row == g.links[c][0]
  <2>3. PICK f \in Siftings(g, q, k, ef, pass, st, c, row) :
          new = IF Stops(g, q, st.beam, ef) THEN [st EXCEPT !.beam.frontier = {}] ELSE f[Len(row)]
    BY <2>2
  <2>4. row = g.links[c][0] /\ Len(row) \in Nat
    <3>1. 0 \in Level /\ c \in Nodes(g)
      BY <1>0, ParamsAssumption DEF Level, Beams
    <3> QED
      BY <3>1, LenProperties DEF Linked
  <2> HIDE DEF row
  <2>5. CASE Stops(g, q, st.beam, ef)
    <3> DEFINE beam == [st.beam EXCEPT !.frontier = {}]
    <3>1. st = [beam |-> st.beam, hits |-> st.hits] /\ new = [st EXCEPT !.beam = beam]
      BY <1>0, <2>3, <2>5 DEF Sifts
    <3>2. beam \in Beams(g) /\ beam.visited = st.beam.visited /\ beam.frontier = {}
      BY <1>0 DEF Beams
    <3>3. BeamOK(g, q, R, ef, start, beam)
      BY <1>0, <2>5, StoppedOK
    <3> HIDE DEF beam
    <3>4. new = [beam |-> beam, hits |-> st.hits]
      BY <3>1
    <3>5. new.beam = beam /\ new.hits = st.hits
      BY <3>4
    <3>6. new \in Sifts(g, q, k, pass)
      <4>1. Best(g, q, k, new.beam.visited \cap pass, new.hits) /\ st.hits \in SUBSET Nodes(g)
        BY <1>0, <3>2, <3>5 DEF Sifts
      <4> QED
        BY <3>2, <3>4, <4>1 DEF Sifts
    <3> QED
      BY <3>2, <3>3, <3>5, <3>6 DEF SiftOK, Onward, new
  <2>6. CASE ~Stops(g, q, st.beam, ef)
    <3> DEFINE b == [i \in 0..Len(row) |-> f[i].beam]
    <3>1. /\ f \in [0..Len(row) -> Sifts(g, q, k, pass)]
          /\ f[0].beam = [st.beam EXCEPT !.frontier = @ \ {c}]
          /\ \A i \in 1..Len(row) : f[i].beam = Visit(g, q, ef, f[i - 1].beam, row[i])
      BY <2>3 DEF Siftings
    <3>2. \A i \in 0..Len(row) : f[i].beam \in Beams(g)
      BY <3>1 DEF Sifts
    <3>3. b \in [0..Len(row) -> Beams(g)] /\ b[0] = f[0].beam
      BY <2>4, <3>2
    <3>4. \A i \in 1..Len(row) : b[i] = Visit(g, q, ef, b[i - 1], row[i])
      BY <2>4, <3>1
    <3>5. b \in Walks(g, q, ef, st.beam, c, row)
      BY <3>1, <3>3, <3>4 DEF Walks
    <3>6. b[Len(row)] = new.beam /\ new \in Sifts(g, q, k, pass) /\ new.beam \in Beams(g)
      BY <2>3, <2>4, <2>6, <3>1, <3>2
    <3> HIDE DEF b
    <3>7. BeamOK(g, q, R, ef, start, new.beam) /\ Farther(st.beam, c, new.beam)
      BY <1>0, <2>4, <3>5, <3>6, RowVisited
    <3>8. Onward(st.beam, new.beam)
      BY <1>0, <3>6, <3>7, OnwardFrom
    <3> QED
      BY <3>6, <3>7, <3>8 DEF SiftOK, new
  <2> QED
    BY <2>5, <2>6
<1> QED
  BY <1>1, <1>2


\* The filtered search starts right.
LEMMA FilteredStarts ==
  ASSUME NEW g, Linked(g), NEW q \in Point, NEW k \in Nat \ {0}, NEW ef \in Nat \ {0}, NEW pass,
         NEW R \in SUBSET Nodes(g), NEW start \in R
  PROVE  SiftOK(g, q, R, k, ef, pass, start, [beam |-> BeamFrom({start}), hits |-> {start} \cap pass])
<1> DEFINE beam == BeamFrom({start})
           hits == {start} \cap pass
           st == [beam |-> beam, hits |-> hits]
<1>1. BeamOK(g, q, R, ef, start, beam) /\ beam \in Beams(g) /\ beam.visited = {start}
  <2>1. BeamOK(g, q, R, ef, start, beam)
    BY BeamStarts
  <2>2. beam \in Beams(g) /\ beam.visited = {start}
    BY DEF BeamFrom, Beams
  <2> QED
    BY <2>1, <2>2
<1>2. hits \in SUBSET Nodes(g) /\ Best(g, q, k, hits, hits)
  <2>1. hits = {} \/ hits = {start}
    OBVIOUS
  <2>2. Cardinality(hits) \in {0, 1}
    <3> HIDE DEF hits
    <3> QED
      BY <2>1, FS_Singleton, FS_EmptySet
  <2>3. hits \subseteq Nodes(g)
    OBVIOUS
  <2> HIDE DEF hits
  <2> QED
    BY <2>2, <2>3 DEF Best
<1>3. beam.visited \cap pass = hits
  BY <1>1
<1> HIDE DEF beam, hits
<1>4. st.beam = beam /\ st.hits = hits /\ st \in [beam : Beams(g), hits : SUBSET Nodes(g)]
  BY <1>1, <1>2
<1> HIDE DEF st
<1>5. SiftOK(g, q, R, k, ef, pass, start, st)
  BY <1>1, <1>2, <1>3, <1>4 DEF SiftOK, Sifts
<1> QED
  BY <1>5 DEF st, beam, hits

\* The filtered search ends, having kept what makes it right.
LEMMA FilteredEnds ==
  ASSUME NEW g, Linked(g), NEW q \in Point, NEW k \in Nat \ {0}, NEW ef \in Nat \ {0}, NEW pass,
         NEW R \in SUBSET Nodes(g), Closed(g, R), NEW start,
         NEW st, SiftOK(g, q, R, k, ef, pass, start, st)
  PROVE  /\ SiftOK(g, q, R, k, ef, pass, start, FilteredBeam(g, q, k, ef, pass, st))
         /\ FilteredBeam(g, q, k, ef, pass, st).beam.frontier = {}
<1> DEFINE N == Size(g)
           W(x) == FilteredWalked(g, q, k, ef, pass, x)
           S == {x \in Sifts(g, q, k, pass) : SiftOK(g, q, R, k, ef, pass, start, x)}
           step == [x \in S \X (1..N) |-> W(x[1])]
           Fits(h) == h = [n \in 0..N |-> IF n = 0 THEN st ELSE W(h[n - 1])]
           after == CHOOSE h : Fits(h)
<1>1. N \in Nat
  BY LenProperties DEF Linked, Located, Size
<1>2. \A x \in S : W(x) \in S /\ Onward(x.beam, W(x).beam)
  <2> TAKE x \in S
  <2>1. SiftOK(g, q, R, k, ef, pass, start, W(x)) /\ Onward(x.beam, W(x).beam)
    BY FilteredOnward
  <2>2. W(x) \in Sifts(g, q, k, pass)
    BY <2>1 DEF SiftOK
  <2> QED
    BY <2>1, <2>2
<1>3. st \in S
  BY DEF SiftOK
<1>4. FilteredBeam(g, q, k, ef, pass, st) = after[N]
  BY DEF FilteredBeam
<1>5. \A x \in S : x.beam \in Beams(g) /\ SiftOK(g, q, R, k, ef, pass, start, x)
  BY DEF Sifts
<1>6. \A x : x.beam.frontier = {} => W(x) = x
  BY DEF FilteredWalked
<1> HIDE DEF S, W
<1>7. step \in [S \X (1..N) -> S]
  BY <1>2
<1>8. PICK f \in [0..N -> S] : f[0] = st /\ \A n \in 1..N : f[n] = step[<<f[n - 1], n>>]
  <2> HIDE DEF N, step
  <2>1. Runs(S, st, N, step) # {}
    BY <1>1, <1>3, <1>7, RecursionExists
  <2> QED
    BY <2>1 DEF Runs
<1>9. \A n \in 1..N : f[n] = W(f[n - 1])
  <2> TAKE n \in 1..N
  <2>1. f[n - 1] \in S
    BY <1>1
  <2> QED
    BY <1>8, <2>1
<1>10. Fits(f)
  <2> HIDE DEF N
  <2>1. \A n \in 0..N : f[n] = IF n = 0 THEN st ELSE W(f[n - 1])
    BY <1>1, <1>8, <1>9
  <2> QED
    BY <1>8, <2>1
<1>11. Fits(after)
  BY <1>10
<1> HIDE DEF after, N
<1>12. /\ after[0] = st
       /\ \A n \in 1..N : after[n] = W(after[n - 1])
  <2>1. \A n \in 0..N : after[n] = IF n = 0 THEN st ELSE W(after[n - 1])
    BY <1>11
  <2> QED
    BY <1>1, <2>1
<1> DEFINE E(n) == Explored(after[n].beam)
           Far(n) == after[n].beam.frontier = {} \/ Cardinality(E(n)) >= n
           Good == {n \in 0..N : after[n] \in S /\ Far(n)}
<1>13. 0 \in Good
  <2>1. Explored(st.beam) \in SUBSET Nodes(g)
    BY <1>3, <1>5 DEF Explored, Beams
  <2>2. Cardinality(Explored(st.beam)) \in Nat
    BY <2>1, NodesFinite DEF Linked
  <2> QED
    BY <1>1, <1>3, <1>12, <2>2
<1>14. \A n \in 1..N : n - 1 \in Good => n \in Good
  <2> SUFFICES ASSUME NEW n \in 1..N, n - 1 \in Good PROVE n \in Good
    OBVIOUS
  <2> PICK o \in 0..N : o = n - 1
    BY <1>1
  <2>1. after[o] \in S /\ Far(o) /\ after[n] = W(after[o])
    BY <1>12
  <2>2. after[n] \in S /\ Onward(after[o].beam, after[n].beam)
    BY <1>2, <2>1
  <2>3. CASE after[o].beam.frontier = {}
    <3>1. after[n] = after[o]
      BY <1>6, <2>1, <2>3
    <3> QED
      BY <2>2, <2>3, <3>1
  <2>4. CASE Cardinality(E(o)) >= o
    <3>1. E(o) \in SUBSET Nodes(g) /\ E(n) \in SUBSET Nodes(g)
      BY <1>5, <2>1, <2>2 DEF Explored, Beams
    <3>2. Cardinality(E(o)) \in Nat /\ Cardinality(E(n)) \in Nat
      BY <3>1, NodesFinite DEF Linked
    <3>3. n = o + 1 /\ o \in Nat
      BY <1>1
    <3> QED
      BY <2>2, <2>4, <3>2, <3>3 DEF Onward
  <2> QED
    BY <2>1, <2>3, <2>4
<1>15. N \in Good
  <2> HIDE DEF Good
  <2>1. \A n \in 0..N : n \in Good
    BY <1>1, <1>13, <1>14, IntervalInduction
  <2>2. N \in 0..N
    BY <1>1
  <2> QED
    BY <2>1, <2>2
<1>16. after[N].beam \in Beams(g) /\ SiftOK(g, q, R, k, ef, pass, start, after[N])
  BY <1>5, <1>15
<1>17. after[N].beam.frontier = {}
  BY <1>15, <1>16, AllExplored DEF N
<1> QED
  BY <1>4, <1>16, <1>17

-----------------------------------------------------------------------------
(* What a search returns.                                                  *)

\* The lesser of two numbers.
LEMMA MinOfTwo ==
  ASSUME NEW a \in Nat, NEW b \in Nat
  PROVE  Min({a, b}) = IF a < b THEN a ELSE b
<1> DEFINE m == IF a < b THEN a ELSE b
<1>1. m \in {a, b} /\ \A y \in {a, b} : m <= y
  OBVIOUS
<1>2. \A x \in {a, b} : (\A y \in {a, b} : x <= y) => x = m
  OBVIOUS
<1> HIDE DEF m
<1>3. Min({a, b}) = m
  BY <1>1, <1>2 DEF Min
<1> QED
  BY <1>3 DEF m

\* The greatest of three numbers.
LEMMA MaxOfThree ==
  ASSUME NEW a \in Nat, NEW b \in Nat, NEW c \in Nat
  PROVE  Max({a, b, c}) \in Nat /\ Max({a, b, c}) >= a /\ Max({a, b, c}) >= c
<1>1. \E x \in {a, b, c} : \A y \in {a, b, c} : x >= y
  <2>1. CASE a >= b /\ a >= c
    BY <2>1
  <2>2. CASE b >= a /\ b >= c
    BY <2>2
  <2>3. CASE c >= a /\ c >= b
    BY <2>3
  <2> QED
    BY <2>1, <2>2, <2>3
<1>2. Max({a, b, c}) \in {a, b, c} /\ \A y \in {a, b, c} : Max({a, b, c}) >= y
  BY <1>1 DEF Max
<1> QED
  BY <1>2

\* A graph that a search can be made on.
Searchable(g) == Linked(g) /\ g.entry \in Nodes(g) /\ g.level[g.entry] \in Level

\* The node that the descent ends at, and those within its reach.
LEMMA StartType ==
  ASSUME NEW g, Searchable(g), NEW q \in Point
  PROVE  /\ StartOf(g, q) \in Nodes(g)
         /\ StartOf(g, q) \in Reach(g, {StartOf(g, q)})
         /\ Reach(g, {StartOf(g, q)}) \in SUBSET Nodes(g)
         /\ Closed(g, Reach(g, {StartOf(g, q)}))
<1>1. StartOf(g, q) \in Nodes(g)
  BY GreedyEnds DEF Searchable, StartOf, Descents
<1> QED
  BY <1>1, ReachCloses DEF Searchable

\* The beam of a search: it has seen what is within reach, or ef nodes of it.
LEMMA SearchSees ==
  ASSUME NEW g, Searchable(g), NEW q \in Point, NEW ef \in Nat \ {0},
         NEW st, st = Beam(g, q, ef, BeamFrom({StartOf(g, q)}))
  PROVE  /\ SawEnough(g, Reach(g, {StartOf(g, q)}), ef, st)
         /\ Best(g, q, ef, st.visited, st.found)
<1> DEFINE start == StartOf(g, q)
           R == Reach(g, {start})
           from == BeamFrom({start})
<1>1. start \in Nodes(g) /\ start \in R /\ R \in SUBSET Nodes(g) /\ Closed(g, R) /\ Linked(g)
  BY StartType DEF Searchable
<1>2. st = Beam(g, q, ef, from)
  OBVIOUS
<1>3. BeamOK(g, q, R, ef, start, from)
  BY <1>1, BeamStarts
<1> HIDE DEF start, from
<1>4. BeamOK(g, q, R, ef, start, st) /\ st.frontier = {}
  <2> HIDE DEF R
  <2>1. BeamOK(g, q, R, ef, start, Beam(g, q, ef, from)) /\ Beam(g, q, ef, from).frontier = {}
    BY <1>1, <1>3, BeamEnds
  <2> QED
    BY <1>2, <2>1
<1>5. Best(g, q, ef, st.visited, st.found)
  BY <1>4 DEF BeamOK
<1>6. SawEnough(g, R, ef, st)
  BY <1>1, <1>4, EndedReaches
<1> QED
  BY <1>5, <1>6 DEF start

\* The first of a list.
LEMMA TakeFirst ==
  ASSUME NEW seq, NEW k \in Nat, Len(seq) \in Nat
  PROVE  Take(seq, k) = SubSeq(seq, 1, IF Len(seq) < k THEN Len(seq) ELSE k)
BY MinOfTwo DEF Take

\* A search returns the nearest of what its beam has seen.
LEMMA SearchTakes ==
  ASSUME NEW g, Searchable(g), NEW q \in Point, NEW k \in Nat \ {0}, NEW ef \in Nat, ef >= k,
         NEW st, st = Beam(g, q, ef, BeamFrom({StartOf(g, q)}))
  PROVE  AreNearest(g, q, k, Search(g, q, k, ef), st.visited)
<1> DEFINE H == st.found
           seq == InOrder(g, q, H)
           m == IF Cardinality(H) < k THEN Cardinality(H) ELSE k
<1>1. st.visited \in SUBSET Nodes(g) /\ Best(g, q, ef, st.visited, H) /\ ef \in Nat \ {0}
  <2>1. ef \in Nat \ {0}
    OBVIOUS
  <2> QED
    BY <2>1, SearchSees DEF SawEnough
<1>2. H \in SUBSET Nodes(g) /\ Located(g)
  BY <1>1 DEF Best, Searchable, Linked
<1>3. Cardinality(H) \in Nat
  BY <1>2, NodesFinite
<1>4. m \in Nat
  BY <1>3
<1>5. Search(g, q, k, ef) = Take(seq, k)
  <2>1. g.entry # None /\ k # 0 /\ ~(ef < k)
    <3>1. g.entry \in Nat
      BY <1>2, LenProperties DEF Searchable, Nodes, Size, Located
    <3> QED
      BY <3>1, ParamsAssumption
  <2> QED
    BY <2>1 DEF Search
<1> HIDE DEF H
<1>6. AreNearest(g, q, k, SubSeq(seq, 1, m), st.visited) /\ Len(seq) = Cardinality(H)
  <2> PICK n \in Nat : n = m
    BY <1>4
  <2>0. n = IF Cardinality(H) < k THEN Cardinality(H) ELSE k
    OBVIOUS
  <2> HIDE DEF m, seq
  <2>1. HeadsOf(g, q, k, st.visited, H, n)
    BY <1>1, <1>2, <2>0, FirstAreNearest
  <2> QED
    BY <2>0, <2>1 DEF HeadsOf, seq, m
<1> HIDE DEF seq
<1>7. Take(seq, k) = SubSeq(seq, 1, m)
  BY <1>3, <1>6, TakeFirst
<1> QED
  BY <1>5, <1>6, <1>7


\* With an ef as large as the graph it returns the nearest of those within reach.
LEMMA SearchIsExact ==
  ASSUME NEW g, Searchable(g), NEW q \in Point, NEW k \in 1..Size(g)
  PROVE  AreNearest(g, q, k, Search(g, q, k, Size(g)), Reach(g, {StartOf(g, q)}))
<1> DEFINE R == Reach(g, {StartOf(g, q)})
           st == Beam(g, q, Size(g), BeamFrom({StartOf(g, q)}))
<1>1. Size(g) \in Nat
  BY LenProperties DEF Searchable, Linked, Located, Size
<1> PICK ef \in Nat : ef = Size(g)
  BY <1>1
<1>2. k \in Nat \ {0} /\ ef >= k /\ ef \in Nat \ {0} /\ ef >= Size(g)
  OBVIOUS
<1>3. st = Beam(g, q, ef, BeamFrom({StartOf(g, q)}))
  OBVIOUS
<1> HIDE DEF st
<1>4. SawEnough(g, R, ef, st)
  BY <1>2, <1>3, SearchSees
<1>5. st.visited = R
  BY <1>2, <1>4 DEF SawEnough
<1>6. AreNearest(g, q, k, Search(g, q, k, ef), st.visited)
  BY <1>2, <1>3, SearchTakes
<1> QED
  BY <1>5, <1>6

\* With the smallest ef it returns as many.
LEMMA SearchReturnsAll ==
  ASSUME NEW g, Searchable(g), NEW q \in Point, NEW k \in Nat \ {0}
  PROVE  Len(Search(g, q, k, k)) = Min({k, Cardinality(Reach(g, {StartOf(g, q)}))})
<1> DEFINE R == Reach(g, {StartOf(g, q)})
           st == Beam(g, q, k, BeamFrom({StartOf(g, q)}))
           out == Search(g, q, k, k)
<1>1. SawEnough(g, R, k, st)
  BY SearchSees
<1>2. AreNearest(g, q, k, out, st.visited)
  BY SearchTakes
<1>3. R \in SUBSET Nodes(g) /\ Located(g)
  BY StartType DEF Searchable, Linked
<1> HIDE DEF R, st, out
<1>4. /\ st.visited \in SUBSET R
      /\ Cardinality(st.visited) < k => st.visited = R
  BY <1>1 DEF SawEnough
<1>5. Len(out) = Min({k, Cardinality(st.visited)})
  BY <1>2 DEF AreNearest
<1>6. IsFiniteSet(R) /\ Cardinality(R) \in Nat
  BY <1>3, NodesFinite
<1>7. Cardinality(st.visited) <= Cardinality(R) /\ Cardinality(st.visited) \in Nat
  BY <1>4, <1>6, FS_Subset, FS_CardinalityType
<1>8. Min({k, Cardinality(st.visited)}) =
        IF k < Cardinality(st.visited) THEN k ELSE Cardinality(st.visited)
  BY <1>7, MinOfTwo
<1>9. Min({k, Cardinality(R)}) = IF k < Cardinality(R) THEN k ELSE Cardinality(R)
  BY <1>6, MinOfTwo
<1>10. Len(out) = Min({k, Cardinality(R)})
  <2>1. CASE Cardinality(st.visited) < k
    BY <1>4, <1>5, <2>1
  <2>2. CASE ~(Cardinality(st.visited) < k)
    BY <1>5, <1>6, <1>7, <1>8, <1>9, <2>2
  <2> QED
    BY <2>1, <2>2
<1> QED
  BY <1>10 DEF out, R

\* A filtered search returns the nearest of those within reach that pass.
LEMMA FilterIsExact ==
  ASSUME NEW g, Searchable(g), NEW q \in Point, NEW k \in Nat \ {0}, NEW pass
  PROVE  AreNearest(g, q, k, SearchWithFilter(g, q, k, Size(g), pass),
                    Reach(g, {StartOf(g, q)}) \cap pass)
<1> DEFINE start == StartOf(g, q)
           R == Reach(g, {start})
           from == [beam |-> BeamFrom({start}), hits |-> {start} \cap pass]
           bound == Max({Size(g), 4 * k, 100})
           st == FilteredBeam(g, q, k, bound, pass, from)
           H == st.hits
           P == R \cap pass
<1>1. Linked(g) /\ Located(g) /\ Size(g) \in Nat
  BY LenProperties DEF Searchable, Linked, Located, Size
<1>2. PICK ef \in Nat \ {0} : ef = bound /\ ef >= Size(g)
  <2>1. 4 * k \in Nat /\ 100 \in Nat
    OBVIOUS
  <2>2. bound \in Nat /\ bound >= Size(g) /\ bound >= 100
    <3> PICK a \in Nat : a = Size(g)
      BY <1>1
    <3> PICK b \in Nat : b = 4 * k
      BY <2>1
    <3> PICK c \in Nat : c = 100
      BY <2>1
    <3>1. bound = Max({a, b, c})
      OBVIOUS
    <3> HIDE DEF bound
    <3>2. bound \in Nat /\ bound >= a /\ bound >= c
      BY <3>1, MaxOfThree
    <3> QED
      BY <3>2
  <2> HIDE DEF bound
  <2> QED
    BY <2>2
<1>3. SearchWithFilter(g, q, k, Size(g), pass) = InOrder(g, q, H)
  <2>1. g.entry # None /\ k # 0
    <3>1. g.entry \in Nat
      BY <1>1 DEF Searchable, Nodes
    <3> QED
      BY <3>1, ParamsAssumption
  <2> QED
    BY <2>1 DEF SearchWithFilter
<1>4. start \in Nodes(g) /\ start \in R /\ R \in SUBSET Nodes(g) /\ Closed(g, R)
  BY StartType
<1>5. SiftOK(g, q, R, k, ef, pass, start, from)
  BY <1>1, <1>4, FilteredStarts
<1>6. st = FilteredBeam(g, q, k, ef, pass, from)
  BY <1>2
<1> HIDE DEF start, from, bound, st
<1>7. SiftOK(g, q, R, k, ef, pass, start, st) /\ st.beam.frontier = {}
  <2> HIDE DEF R
  <2>1. /\ SiftOK(g, q, R, k, ef, pass, start, FilteredBeam(g, q, k, ef, pass, from))
        /\ FilteredBeam(g, q, k, ef, pass, from).beam.frontier = {}
    BY <1>1, <1>4, <1>5, FilteredEnds
  <2> QED
    BY <1>6, <2>1
<1>8. st.beam.visited = R
  <2>1. BeamOK(g, q, R, ef, start, st.beam)
    BY <1>7 DEF SiftOK
  <2>2. SawEnough(g, R, ef, st.beam)
    BY <1>1, <1>4, <1>7, <2>1, EndedReaches
  <2> QED
    BY <1>2, <2>2 DEF SawEnough
<1>9. Best(g, q, k, P, H)
  <2>1. Best(g, q, k, st.beam.visited \cap pass, H)
    BY <1>7 DEF SiftOK, Sifts
  <2> QED
    BY <1>8, <2>1
<1>10. P \in SUBSET Nodes(g) /\ H \in SUBSET P
  <2>1. P \in SUBSET Nodes(g)
    BY <1>4
  <2> HIDE DEF P, H
  <2> QED
    BY <1>9, <2>1 DEF Best
<1> HIDE DEF R, P, H
<1>11. Cardinality(H) \in Nat /\ Cardinality(H) <= k
  <2>1. Cardinality(H) \in Nat /\ Cardinality(P) \in Nat
    BY <1>1, <1>10, NodesFinite
  <2> QED
    BY <1>9, <2>1 DEF Best
<1>12. AreNearest(g, q, k, InOrder(g, q, H), P)
  <2> PICK m \in Nat : m = Cardinality(H)
    BY <1>11
  <2>1. m = IF Cardinality(H) < k THEN Cardinality(H) ELSE k
    BY <1>11
  <2>2. HeadsOf(g, q, k, P, H, m)
    <3> PICK ef2 \in Nat : ef2 = k
      OBVIOUS
    <3>1. ef2 >= k /\ Best(g, q, ef2, P, H)
      BY <1>9
    <3> QED
      BY <1>1, <1>10, <2>1, <3>1, FirstAreNearest
  <2> QED
    BY <2>2 DEF HeadsOf
<1> QED
  BY <1>3, <1>12 DEF P, R, start


-----------------------------------------------------------------------------
(* The rows.                                                               *)

\* At most m members of a set, each once.
Selections(S, m) == {seq \in Seq(S) : Len(seq) <= m /\ IsInjective(seq)}

\* A list that each of its members is on once has as many members as entries.
LEMMA InjectiveCounts ==
  ASSUME NEW S, NEW seq \in Seq(S), IsInjective(seq)
  PROVE  IsFiniteSet(Range(seq)) /\ Cardinality(Range(seq)) = Len(seq)
<1> DEFINE N == Len(seq)
           T == Range(seq)
<1>1. N \in Nat /\ DOMAIN seq = 1..N /\ seq = [i \in 1..N |-> seq[i]]
  BY LenProperties
<1>2. IsFiniteSet(1..N) /\ Cardinality(1..N) = N
  <2> HIDE DEF N
  <2> QED
    BY <1>1, FS_Interval
<1>3. seq \in Bijection(1..N, T)
  <2>1. seq \in [1..N -> T]
    BY <1>1 DEF Range
  <2>2. \A i, j \in 1..N : seq[i] = seq[j] => i = j
    BY <1>1 DEF IsInjective
  <2>3. \A t \in T : \E i \in 1..N : seq[i] = t
    BY <1>1 DEF Range
  <2> HIDE DEF T, N
  <2> QED
    BY <1>1, <2>1, <2>2, <2>3 DEF Bijection, Injection, Surjection, IsInjective
<1> HIDE DEF T, N
<1>4. IsFiniteSet(T) /\ Cardinality(T) = N
  BY <1>2, <1>3, FS_Bijection DEF ExistsBijection
<1> QED
  BY <1>4 DEF T, N

\* A list is longer by a member that it does not have.
LEMMA ChoiceAppended ==
  ASSUME NEW S, NEW seq \in Seq(S), IsInjective(seq), NEW c \in S,
         \A i \in 1..Len(seq) : seq[i] # c
  PROVE  /\ Append(seq, c) \in Seq(S) /\ IsInjective(Append(seq, c))
         /\ Len(Append(seq, c)) = Len(seq) + 1
<1> DEFINE N == Len(seq)
           new == Append(seq, c)
<1>1. N \in Nat /\ DOMAIN seq = 1..N
  BY LenProperties
<1>2. /\ new \in Seq(S) /\ Len(new) = N + 1
      /\ \A i \in 1..N : new[i] = seq[i]
      /\ new[N + 1] = c
  BY AppendProperties
<1>3. DOMAIN new = 1..N + 1
  BY <1>2, LenProperties
<1> HIDE DEF new
<1>4. ASSUME NEW i \in 1..N + 1, NEW j \in 1..N + 1, new[i] = new[j]
      PROVE  i = j
  <2>1. CASE i \in 1..N /\ j \in 1..N
    BY <1>1, <1>2, <1>4, <2>1 DEF IsInjective
  <2>2. CASE i = N + 1 /\ j = N + 1
    BY <2>2
  <2>3. CASE i = N + 1 /\ j \in 1..N
    BY <1>2, <1>4, <2>3
  <2>4. CASE j = N + 1 /\ i \in 1..N
    BY <1>2, <1>4, <2>4
  <2>5. (i \in 1..N \/ i = N + 1) /\ (j \in 1..N \/ j = N + 1)
    BY <1>1
  <2> QED
    BY <2>1, <2>2, <2>3, <2>4, <2>5
<1>5. IsInjective(new)
  BY <1>3, <1>4 DEF IsInjective
<1> QED
  BY <1>2, <1>5 DEF new

\* The heuristic selects at most m of the candidates, each once.
LEMMA SelectsChoice ==
  ASSUME NEW g, Located(g), NEW q \in Point, NEW S \in SUBSET Nodes(g), NEW m \in Nat
  PROVE  SelectNeighbors(g, q, S, m) \in Selections(S, m)
<1> DEFINE order == InOrder(g, q, S)
           N == Len(order)
           T == Seq(S)
           step == [x \in T \X (1..N) |-> Considered(g, q, m, x[1], order[x[2]])]
           Fits(h) == h = [i \in 0..N |-> IF i = 0 THEN << >>
                                          ELSE Considered(g, q, m, h[i - 1], order[i])]
           selected == CHOOSE h : Fits(h)
<1>1. Lists(g, q, S, order)
  BY InOrderLists
<1>2. SelectNeighbors(g, q, S, m) = IF Cardinality(S) <= m THEN order ELSE selected[N]
  BY DEF SelectNeighbors
<1> HIDE DEF order
<1>3. /\ order \in Seq(S) /\ N = Cardinality(S) /\ DOMAIN order = 1..N
      /\ \A i, j \in 1..N : order[i] = order[j] => i = j
  BY <1>1 DEF Lists
<1>4. N \in Nat /\ \A i \in 1..N : order[i] \in S
  BY <1>3, LenProperties, ElementOfSeq
<1>5. CASE Cardinality(S) <= m
  <2>1. IsInjective(order)
    BY <1>3 DEF IsInjective
  <2> QED
    BY <1>2, <1>3, <1>5, <2>1 DEF Selections
<1>6. CASE ~(Cardinality(S) <= m)
  <2>1. \A x \in T, c \in S : Considered(g, q, m, x, c) \in T
    BY DEF Considered
  <2> HIDE DEF T
  <2>2. step \in [T \X (1..N) -> T]
    <3>1. \A x \in T \X (1..N) : x[1] \in T /\ order[x[2]] \in S
      BY <1>4
    <3>2. \A x \in T \X (1..N) : Considered(g, q, m, x[1], order[x[2]]) \in T
      BY <2>1, <3>1
    <3> QED
      BY <3>2
  <2>3. << >> \in T
    BY DEF T
  <2>4. PICK f \in [0..N -> T] : f[0] = << >> /\ \A i \in 1..N : f[i] = step[<<f[i - 1], i>>]
    <3> HIDE DEF N, step
    <3>1. Runs(T, << >>, N, step) # {}
      BY <1>4, <2>2, <2>3, RecursionExists
    <3> QED
      BY <3>1 DEF Runs
  <2>5. \A i \in 1..N : f[i] = Considered(g, q, m, f[i - 1], order[i])
    <3> TAKE i \in 1..N
    <3>1. f[i - 1] \in T
      BY <1>4
    <3> QED
      BY <2>4, <3>1
  <2>6. Fits(f)
    <3> HIDE DEF N
    <3>1. \A i \in 0..N : f[i] = IF i = 0 THEN << >> ELSE Considered(g, q, m, f[i - 1], order[i])
      BY <1>4, <2>4, <2>5
    <3> QED
      BY <2>4, <3>1
  <2>7. Fits(selected)
    BY <2>6
  <2> HIDE DEF selected, N
  <2>8. /\ selected[0] = << >>
        /\ \A i \in 1..N : selected[i] = Considered(g, q, m, selected[i - 1], order[i])
    <3>1. \A i \in 0..N : selected[i] = IF i = 0 THEN << >>
                                        ELSE Considered(g, q, m, selected[i - 1], order[i])
      BY <2>7
    <3> QED
      BY <1>4, <3>1
  <2> DEFINE From(i) == \A j \in 1..Len(selected[i]) : \E p \in 1..i : selected[i][j] = order[p]
             Good == {i \in 0..N : selected[i] \in Selections(S, m) /\ From(i)}
  <2>9. 0 \in Good
    <3>1. << >> \in Selections(S, m)
      BY DEF Selections, IsInjective
    <3> QED
      BY <1>4, <2>8, <3>1
  <2>10. \A i \in 1..N : i - 1 \in Good => i \in Good
    <3> SUFFICES ASSUME NEW i \in 1..N, i - 1 \in Good PROVE i \in Good
      OBVIOUS
    <3> PICK o \in 0..N : o = i - 1
      BY <1>4
    <3> DEFINE s == selected[o]
    <3>1. s \in Selections(S, m) /\ From(o) /\ selected[i] = Considered(g, q, m, s, order[i])
      BY <2>8
    <3>2. s \in Seq(S) /\ Len(s) <= m /\ IsInjective(s) /\ Len(s) \in Nat
      BY <3>1, LenProperties DEF Selections
    <3>3. \A j \in 1..Len(s) : \E p \in 1..o : s[j] = order[p]
      BY <3>1
    <3> HIDE DEF s
    <3>4. CASE selected[i] = s
      <4>1. From(i)
        <5>1. \A p \in 1..o : p \in 1..i
          OBVIOUS
        <5> QED
          BY <3>3, <3>4, <5>1
      <4> QED
        BY <3>1, <3>4, <4>1
    <3>5. CASE selected[i] = Append(s, order[i]) /\ Len(s) # m
      <4>1. \A j \in 1..Len(s) : s[j] # order[i]
        BY <1>3, <1>4, <3>3
      <4>2. order[i] \in S
        BY <1>4
      <4>3. /\ selected[i] \in Seq(S) /\ IsInjective(selected[i])
            /\ Len(selected[i]) = Len(s) + 1
        BY <3>2, <3>5, <4>1, <4>2, ChoiceAppended
      <4>4. Len(selected[i]) <= m
        BY <3>2, <3>5, <4>3
      <4>5. From(i)
        <5>1. /\ \A j \in 1..Len(s) : selected[i][j] = s[j]
              /\ selected[i][Len(s) + 1] = order[i]
          BY <3>2, <3>5, <4>2, AppendProperties
        <5>2. \A p \in 1..o : p \in 1..i
          OBVIOUS
        <5> SUFFICES ASSUME NEW j \in 1..Len(selected[i])
                     PROVE  \E p \in 1..i : selected[i][j] = order[p]
          OBVIOUS
        <5>3. CASE j \in 1..Len(s)
          BY <3>3, <5>1, <5>2, <5>3
        <5>4. CASE j = Len(s) + 1
          <6>1. i \in 1..i
            OBVIOUS
          <6> QED
            BY <5>1, <5>4, <6>1
        <5> QED
          BY <3>2, <4>3, <5>3, <5>4
      <4> QED
        BY <4>3, <4>4, <4>5 DEF Selections
    <3> QED
      BY <3>1, <3>4, <3>5 DEF Considered
  <2>11. N \in Good
    <3> HIDE DEF Good
    <3>1. \A i \in 0..N : i \in Good
      BY <1>4, <2>9, <2>10, IntervalInduction
    <3>2. N \in 0..N
      BY <1>4
    <3> QED
      BY <3>1, <3>2
  <2> QED
    BY <1>2, <1>6, <2>11
<1> QED
  BY <1>5, <1>6


-----------------------------------------------------------------------------
(* The invariant.                                                          *)

\* A graph whose rows have nodes of the graph, each once and as many as there is room for.
GraphOK(g) ==
  /\ g \in [vec : Seq(Point), level : Seq(Level), links : Seq([Level -> Seq(Nat)]),
            entry : Nat \cup {None}]
  /\ Len(g.level) = Size(g) /\ Len(g.links) = Size(g)
  /\ g.entry \in Nodes(g) \cup {None}
  /\ g.entry = None => Size(g) = 0
  /\ \A n \in Nodes(g), lc \in Level : g.links[n][lc] \in Selections(Nodes(g), MForLevel(lc))

\* What a worker has in hand is of the graph.
Tasks(g) ==
  {Idle}
    \cup [phase : {"descend"}, node : Nodes(g), ef : Nat, lc : Level, near : Nodes(g)]
    \cup [phase : {"search"}, node : Nodes(g), ef : Nat, lc : Level, beam : Beams(g)]
    \cup [phase : {"reverse"}, node : Nodes(g), ef : Nat, lc : Level, ep : SUBSET Nodes(g),
          left : Seq(Nodes(g))]

\* The nodes that the workers are linking.
InHand == {n \in Nodes(graph) : \E w \in Worker : work[w] # Idle /\ work[w].node = n}

\* The entry point is the highest of the nodes that are linked.
HighestLinked ==
  graph.entry # None =>
    \A n \in Nodes(graph) : n \notin pending /\ n \notin InHand => graph.level[n] <= graph.level[graph.entry]

IInv ==
  /\ GraphOK(graph)
  /\ built \in Nat
  /\ pending \in SUBSET Nodes(graph)
  /\ work \in [Worker -> Tasks(graph)]
  /\ HighestLinked

\* What follows for the searches.
LEMMA GraphLinked ==
  ASSUME NEW g, GraphOK(g)
  PROVE  /\ Linked(g) /\ Located(g) /\ Size(g) \in Nat
         /\ \A n \in Nodes(g) : g.vec[n] \in Point /\ g.level[n] \in Level
         /\ g.entry # None => Searchable(g)
<1>1. Size(g) \in Nat
  BY LenProperties DEF GraphOK, Size
<1>2. Located(g)
  BY DEF Located, GraphOK
<1>3. Linked(g)
  BY <1>2 DEF Linked, GraphOK, Selections
<1>4. \A n \in Nodes(g) : g.vec[n] \in Point /\ g.level[n] \in Level
  <2> TAKE n \in Nodes(g)
  <2>1. g.vec \in Seq(Point) /\ g.level \in Seq(Level) /\ n \in 1..Len(g.vec) /\ n \in 1..Len(g.level)
    BY DEF GraphOK, Nodes, Size
  <2> QED
    BY <2>1, ElementOfSeq, ParamsAssumption
<1>5. g.entry # None => Searchable(g)
  BY <1>3, <1>4 DEF Searchable, GraphOK
<1> QED
  BY <1>1, <1>2, <1>3, <1>4, <1>5

\* The graph with another row is the same but for that row.
LEMMA RowReplaced ==
  ASSUME NEW g, GraphOK(g), NEW n \in Nodes(g), NEW lc \in Level,
         NEW row \in Selections(Nodes(g), MForLevel(lc)),
         NEW new, new = [g EXCEPT !.links[n][lc] = row]
  PROVE  /\ GraphOK(new) /\ new.vec = g.vec /\ new.level = g.level /\ new.entry = g.entry
         /\ Nodes(new) = Nodes(g)
<1> DEFINE links == [g.links EXCEPT ![n][lc] = row]
<1>1. g \in [vec : Seq(Point), level : Seq(Level), links : Seq([Level -> Seq(Nat)]),
             entry : Nat \cup {None}]
  BY DEF GraphOK
<1>2. new = [g EXCEPT !.links = links]
  OBVIOUS
<1>3. /\ new.vec = g.vec /\ new.level = g.level /\ new.entry = g.entry /\ new.links = links
      /\ new = [vec |-> g.vec, level |-> g.level, links |-> links, entry |-> g.entry]
  <2> HIDE DEF links
  <2> QED
    BY <1>1, <1>2
<1>4. Nodes(new) = Nodes(g) /\ Size(new) = Size(g)
  BY <1>3 DEF Nodes, Size
<1>5. n \in 1..Len(g.links) /\ Len(g.links) \in Nat /\ Nodes(g) = 1..Len(g.links)
  BY <1>1, LenProperties DEF GraphOK, Nodes
<1>6. row \in Seq(Nat)
  <2>1. row \in Seq(Nodes(g)) /\ Nodes(g) \subseteq Nat
    BY DEF Selections, Nodes
  <2>2. \A i \in 1..Len(row) : row[i] \in Nat
    BY <2>1, ElementOfSeq
  <2>3. row = [i \in 1..Len(row) |-> row[i]] /\ Len(row) \in Nat
    BY <2>1, LenProperties
  <2> QED
    BY <2>2, <2>3
<1>7. \A i \in 1..Len(g.links) : g.links[i] \in [Level -> Seq(Nat)]
  BY <1>1, ElementOfSeq
<1>8. g.links = [i \in 1..Len(g.links) |-> g.links[i]]
  BY <1>1, LenProperties
<1>9. [g.links[n] EXCEPT ![lc] = row] \in [Level -> Seq(Nat)]
  BY <1>5, <1>6, <1>7
<1>10. /\ links \in Seq([Level -> Seq(Nat)]) /\ Len(links) = Len(g.links)
       /\ \A i \in Nodes(g), l \in Level :
            links[i][l] = IF i = n /\ l = lc THEN row ELSE g.links[i][l]
  <2>1. links = [i \in 1..Len(g.links) |->
                   IF i = n THEN [g.links[n] EXCEPT ![lc] = row] ELSE g.links[i]]
    BY <1>8
  <2> DEFINE new1 == [g.links[n] EXCEPT ![lc] = row]
  <2>2. new1 \in [Level -> Seq(Nat)] /\ \A l \in Level : new1[l] = IF l = lc THEN row ELSE g.links[n][l]
    BY <1>5, <1>7, <1>9
  <2> HIDE DEF new1, links
  <2>3. links \in [1..Len(g.links) -> [Level -> Seq(Nat)]]
    BY <1>7, <2>1, <2>2 DEF new1
  <2>4. links \in Seq([Level -> Seq(Nat)]) /\ Len(links) = Len(g.links)
    <3> DEFINE Rows == [Level -> Seq(Nat)]
    <3> PICK N \in Nat : N = Len(g.links)
      BY <1>5
    <3>1. links \in [1..N -> Rows]
      BY <2>3
    <3> HIDE DEF Rows
    <3>2. links \in Seq(Rows) /\ Len(links) = N
      BY <3>1
    <3> QED
      BY <3>2 DEF Rows
  <2>5. \A i \in Nodes(g) : links[i] = IF i = n THEN new1 ELSE g.links[i]
    BY <1>5, <2>1 DEF new1
  <2> QED
    BY <2>2, <2>4, <2>5
<1> HIDE DEF links
<1>11. \A i \in Nodes(g), l \in Level : new.links[i][l] \in Selections(Nodes(g), MForLevel(l))
  <2> TAKE i \in Nodes(g), l \in Level
  <2>1. new.links[i][l] = IF i = n /\ l = lc THEN row ELSE g.links[i][l]
    BY <1>3, <1>10
  <2>2. g.links[i][l] \in Selections(Nodes(g), MForLevel(l))
    BY DEF GraphOK
  <2> QED
    BY <2>1, <2>2
<1>12. GraphOK(new)
  <2>1. new \in [vec : Seq(Point), level : Seq(Level), links : Seq([Level -> Seq(Nat)]),
                 entry : Nat \cup {None}]
    BY <1>1, <1>3, <1>10
  <2>2. Len(new.level) = Size(new) /\ Len(new.links) = Size(new)
    BY <1>3, <1>4, <1>10 DEF GraphOK
  <2>3. new.entry \in Nodes(new) \cup {None} /\ (new.entry = None => Size(new) = 0)
    BY <1>3, <1>4 DEF GraphOK
  <2> QED
    BY <1>4, <1>11, <2>1, <2>2, <2>3 DEF GraphOK
<1> QED
  BY <1>3, <1>4, <1>12

\* The capacity of a row is a natural number.
LEMMA RoomType ==
  ASSUME NEW lc \in Level
  PROVE  MForLevel(lc) \in Nat
BY ParamsAssumption DEF MForLevel

\* One row is new.
HasRow(g, n, lc, new) ==
  \E row \in Selections(Nodes(g), MForLevel(lc)) : new = [g EXCEPT !.links[n][lc] = row]

\* A row that a reverse link is added to keeps to its nodes and its capacity.
LEMMA LinkedBack ==
  ASSUME NEW g, GraphOK(g), NEW n \in Nodes(g), NEW node \in Nodes(g), NEW lc \in Level
  PROVE  HasRow(g, n, lc, WithReverseLink(g, n, node, lc))
<1> DEFINE old == g.links[n][lc]
           added == IF node \in Range(old) THEN old ELSE Append(old, node)
           m == MForLevel(lc)
           chosen == SelectNeighbors(g, g.vec[n], Range(added), m)
           row == IF Len(added) <= m THEN added ELSE chosen
<1>1. WithReverseLink(g, n, node, lc) = [g EXCEPT !.links[n][lc] = row]
  BY DEF WithReverseLink
<1>2. old \in Seq(Nodes(g)) /\ IsInjective(old)
  BY DEF GraphOK, Selections
<1>3. added \in Seq(Nodes(g)) /\ IsInjective(added)
  <2>1. CASE node \in Range(old)
    BY <1>2, <2>1
  <2>2. CASE node \notin Range(old)
    <3> HIDE DEF old
    <3>1. \A i \in 1..Len(old) : old[i] # node
      <4>1. DOMAIN old = 1..Len(old)
        BY <1>2, LenProperties
      <4> QED
        BY <2>2, <4>1 DEF Range
    <3>2. Append(old, node) \in Seq(Nodes(g)) /\ IsInjective(Append(old, node))
      BY <1>2, <3>1, ChoiceAppended
    <3> QED
      BY <2>2, <3>2
  <2> QED
    BY <2>1, <2>2
<1>4. m \in Nat /\ Located(g) /\ g.vec[n] \in Point
  BY GraphLinked, RoomType
<1> HIDE DEF added, m
<1>5. Range(added) \in SUBSET Nodes(g)
  BY <1>3, ElementOfSeq, LenProperties DEF Range
<1>6. chosen \in Selections(Nodes(g), m)
  <2>1. chosen \in Selections(Range(added), m)
    BY <1>4, <1>5, SelectsChoice
  <2> HIDE DEF chosen
  <2>2. chosen \in Seq(Range(added)) /\ Len(chosen) \in Nat /\ chosen = [i \in 1..Len(chosen) |-> chosen[i]]
    BY <2>1, LenProperties DEF Selections
  <2>3. \A i \in 1..Len(chosen) : chosen[i] \in Nodes(g)
    BY <1>5, <2>2, ElementOfSeq
  <2>4. chosen \in Seq(Nodes(g))
    BY <2>2, <2>3
  <2> QED
    BY <2>1, <2>4 DEF Selections
<1> HIDE DEF chosen
<1>7. row \in Selections(Nodes(g), m)
  BY <1>3, <1>6 DEF Selections
<1> HIDE DEF row
<1> QED
  BY <1>1, <1>7 DEF m, HasRow


-----------------------------------------------------------------------------
(* The steps.                                                              *)

\* The tasks of each phase.
LEMMA TaskOf ==
  ASSUME IInv, NEW w \in Worker
  PROVE  /\ work[w] # Idle <=> work[w].phase # "idle"
         /\ work[w].phase = "descend" =>
              work[w] \in [phase : {"descend"}, node : Nodes(graph), ef : Nat, lc : Level,
                           near : Nodes(graph)]
         /\ work[w].phase = "search" =>
              work[w] \in [phase : {"search"}, node : Nodes(graph), ef : Nat, lc : Level,
                           beam : Beams(graph)]
         /\ work[w].phase = "reverse" =>
              work[w] \in [phase : {"reverse"}, node : Nodes(graph), ef : Nat, lc : Level,
                           ep : SUBSET Nodes(graph), left : Seq(Nodes(graph))]
<1>1. work[w] \in Tasks(graph)
  BY DEF IInv
<1> QED
  BY <1>1 DEF Tasks, Idle

\* A task that begins to search a layer.
LEMMA SearchingTask ==
  ASSUME NEW g, NEW task, task.node \in Nodes(g), task.ef \in Nat, NEW lc \in Level,
         NEW ep \in SUBSET Nodes(g)
  PROVE  /\ Searching(task, lc, ep) \in Tasks(g)
         /\ Searching(task, lc, ep).phase = "search"
         /\ Searching(task, lc, ep).node = task.node
<1>1. BeamFrom(ep) \in Beams(g)
  BY DEF BeamFrom, Beams
<1> QED
  BY <1>1 DEF Searching, Tasks

\* The invariant holds at the start.
LEMMA InitIInv == Init => IInv
<1> SUFFICES ASSUME Init PROVE IInv
  OBVIOUS
<1>1. built \in Nat /\ pending = 2..built /\ work = [w \in Worker |-> Idle]
  BY DEF Init
<1>2. PICK vec \in [1..built -> Point], level \in [1..built -> Level] :
        graph = [vec |-> vec, level |-> level, links |-> [n \in 1..built |-> EmptyRows],
                 entry |-> IF built = 0 THEN None ELSE 1]
  BY DEF Init
<1> DEFINE links == [n \in 1..built |-> EmptyRows]
           entry == IF built = 0 THEN None ELSE 1
<1>3. vec \in Seq(Point) /\ level \in Seq(Level) /\ Len(vec) = built /\ Len(level) = built
  BY <1>1
<1>4. EmptyRows \in [Level -> Seq(Nat)] /\ \A lc \in Level : EmptyRows[lc] = << >>
  BY DEF EmptyRows
<1>5. links \in Seq([Level -> Seq(Nat)]) /\ Len(links) = built
  <2> HIDE DEF entry
  <2> DEFINE Rows == [Level -> Seq(Nat)]
  <2>1. links \in [1..built -> Rows]
    BY <1>4
  <2> HIDE DEF Rows, links
  <2>2. links \in Seq(Rows) /\ Len(links) = built
    BY <1>1, <2>1
  <2> QED
    BY <2>2 DEF Rows
<1>6. entry \in Nat \cup {None} /\ entry \in 1..built \cup {None} /\ (entry = None => built = 0)
  BY <1>1, ParamsAssumption
<1>7. /\ graph.vec = vec /\ graph.level = level /\ graph.links = links /\ graph.entry = entry
      /\ Size(graph) = built /\ Nodes(graph) = 1..built
  BY <1>2, <1>3 DEF Size, Nodes
<1>8. \A n \in Nodes(graph), lc \in Level : graph.links[n][lc] \in Selections(Nodes(graph), MForLevel(lc))
  <2> TAKE n \in Nodes(graph), lc \in Level
  <2>1. graph.links[n][lc] = << >>
    BY <1>4, <1>7
  <2>2. << >> \in Selections(Nodes(graph), MForLevel(lc))
    BY RoomType DEF Selections, IsInjective
  <2> QED
    BY <2>1, <2>2
<1> HIDE DEF links, entry
<1>9. GraphOK(graph)
  <2>1. graph = [vec |-> vec, level |-> level, links |-> links, entry |-> entry]
    BY <1>2 DEF links, entry
  <2>2. graph \in [vec : Seq(Point), level : Seq(Level), links : Seq([Level -> Seq(Nat)]),
                   entry : Nat \cup {None}]
    BY <1>3, <1>5, <1>6, <2>1
  <2> QED
    BY <1>3, <1>5, <1>6, <1>7, <1>8, <2>2 DEF GraphOK
<1>10. work \in [Worker -> Tasks(graph)]
  BY <1>1 DEF Tasks
<1>11. pending \in SUBSET Nodes(graph)
  BY <1>1, <1>7
<1>12. HighestLinked
  <2> SUFFICES ASSUME graph.entry # None, NEW n \in Nodes(graph), n \notin pending
               PROVE  graph.level[n] <= graph.level[graph.entry]
    BY DEF HighestLinked
  <2>1. built # 0 /\ n = 1 /\ graph.entry = 1
    BY <1>1, <1>7 DEF entry
  <2>2. level[1] \in Level
    BY <1>1, <2>1
  <2>3. level[1] <= level[1]
    BY <2>2, ParamsAssumption DEF Level
  <2> QED
    BY <1>7, <2>1, <2>3
<1> QED
  BY <1>1, <1>9, <1>10, <1>11, <1>12 DEF IInv

\* A worker goes on with its node, and the graph keeps its nodes, levels and entry point.
LEMMA GoesOn ==
  ASSUME IInv, NEW w \in Worker, work[w] # Idle, NEW t \in Tasks(graph), t.phase # "idle",
         t.node = work[w].node, work' = [work EXCEPT ![w] = t], UNCHANGED <<built, pending>>,
         GraphOK(graph'), Nodes(graph') = Nodes(graph),
         graph'.level = graph.level, graph'.entry = graph.entry
  PROVE  IInv'
<1>1. work \in [Worker -> Tasks(graph)] /\ pending \in SUBSET Nodes(graph) /\ built \in Nat
  BY DEF IInv
<1>2. Tasks(graph') = Tasks(graph)
  BY DEF Tasks, Beams
<1>3. work' \in [Worker -> Tasks(graph')]
  BY <1>1, <1>2
<1>4. t # Idle
  BY DEF Idle
<1>5. InHand' = InHand
  <2>1. \A x \in Worker : /\ work'[x] # Idle <=> work[x] # Idle
                          /\ work'[x] # Idle => work'[x].node = work[x].node
    BY <1>1, <1>4
  <2> QED
    BY <2>1 DEF InHand
<1>6. HighestLinked'
  BY <1>5 DEF IInv, HighestLinked
<1> QED
  BY <1>1, <1>3, <1>6 DEF IInv

\* Descend: the worker stays on the graph.
LEMMA DescendKeeps ==
  ASSUME IInv, NEW w \in Worker, Descend(w)
  PROVE  IInv'
<1> DEFINE t == work[w]
           next == Descended(graph, graph.vec[t.node], t.near, t.lc)
           new == IF next # t.near THEN [t EXCEPT !.near = next]
                  ELSE IF t.lc - 1 > graph.level[t.node] THEN [t EXCEPT !.lc = @ - 1]
                  ELSE Searching(t, graph.level[t.node], {next})
<1>1. /\ t.phase = "descend" /\ work' = [work EXCEPT ![w] = new]
      /\ UNCHANGED graph /\ UNCHANGED <<built, pending>>
  BY DEF Descend
<1>2. t \in [phase : {"descend"}, node : Nodes(graph), ef : Nat, lc : Level, near : Nodes(graph)]
      /\ t # Idle
  BY <1>1, TaskOf
<1>3. GraphOK(graph) /\ Linked(graph) /\ graph.vec[t.node] \in Point /\ graph.level[t.node] \in Level
  BY <1>2, GraphLinked DEF IInv
<1> HIDE DEF t
<1>4. next \in Nodes(graph)
  BY <1>2, <1>3, DescendedApproaches DEF Approaches
<1> HIDE DEF next
<1>5. new \in Tasks(graph) /\ new.phase # "idle" /\ new.node = t.node
  <2>1. CASE next # t.near
    BY <1>2, <1>4, <2>1 DEF Tasks
  <2>2. CASE next = t.near /\ t.lc - 1 > graph.level[t.node]
    <3>1. t.lc - 1 \in Level
      BY <1>2, <1>3, <2>2, ParamsAssumption DEF Level
    <3>2. new = [t EXCEPT !.lc = t.lc - 1]
      BY <2>2
    <3> QED
      BY <1>2, <3>1, <3>2 DEF Tasks
  <2>3. CASE next = t.near /\ ~(t.lc - 1 > graph.level[t.node])
    <3>1. new = Searching(t, graph.level[t.node], {next})
      BY <2>3
    <3> HIDE DEF new
    <3>2. t.node \in Nodes(graph) /\ t.ef \in Nat /\ {next} \in SUBSET Nodes(graph)
      BY <1>2, <1>4
    <3> QED
      BY <1>3, <3>1, <3>2, SearchingTask
  <2> QED
    BY <2>1, <2>2, <2>3
<1> HIDE DEF new
<1>6. GraphOK(graph') /\ Nodes(graph') = Nodes(graph) /\ graph'.level = graph.level
      /\ graph'.entry = graph.entry
  BY <1>1, <1>3
<1> QED
  BY <1>1, <1>2, <1>5, <1>6, GoesOn DEF t

\* Expand: the beam stays on the graph.
LEMMA ExpandKeeps ==
  ASSUME IInv, NEW w \in Worker, Expand(w)
  PROVE  IInv'
<1> DEFINE t == work[w]
           beam == Expanded(graph, graph.vec[t.node], t.ef, t.lc, t.beam)
           new == [t EXCEPT !.beam = beam]
<1>1. /\ t.phase = "search" /\ t.beam.frontier # {} /\ work' = [work EXCEPT ![w] = new]
      /\ UNCHANGED graph /\ UNCHANGED <<built, pending>>
  BY DEF Expand
<1>2. t \in [phase : {"search"}, node : Nodes(graph), ef : Nat, lc : Level, beam : Beams(graph)]
      /\ t # Idle
  BY <1>1, TaskOf
<1>3. GraphOK(graph) /\ Linked(graph) /\ graph.vec[t.node] \in Point
  BY <1>2, GraphLinked DEF IInv
<1> HIDE DEF t
<1>4. beam \in Beams(graph)
  BY <1>1, <1>2, <1>3, ExpandedType
<1> HIDE DEF beam
<1>5. new \in Tasks(graph) /\ new.phase # "idle" /\ new.node = t.node
  BY <1>2, <1>4 DEF Tasks
<1> HIDE DEF new
<1>6. GraphOK(graph') /\ Nodes(graph') = Nodes(graph) /\ graph'.level = graph.level
      /\ graph'.entry = graph.entry
  BY <1>1, <1>3
<1> QED
  BY <1>1, <1>2, <1>5, <1>6, GoesOn DEF t

\* Link: the node's row is a selection of what was found.
LEMMA LinkKeeps ==
  ASSUME IInv, NEW w \in Worker, Link(w)
  PROVE  IInv'
<1> DEFINE t == work[w]
           row == SelectNeighbors(graph, graph.vec[t.node], t.beam.found, MForLevel(t.lc))
           new == [phase |-> "reverse", node |-> t.node, ef |-> t.ef, lc |-> t.lc,
                   ep |-> Range(row), left |-> row]
<1>1. /\ t.phase = "search" /\ work' = [work EXCEPT ![w] = new]
      /\ graph' = [graph EXCEPT !.links[t.node][t.lc] = row] /\ UNCHANGED <<built, pending>>
  BY DEF Link
<1>2. t \in [phase : {"search"}, node : Nodes(graph), ef : Nat, lc : Level, beam : Beams(graph)]
      /\ t # Idle
  BY <1>1, TaskOf
<1>3. GraphOK(graph) /\ Located(graph) /\ graph.vec[t.node] \in Point
  BY <1>2, GraphLinked DEF IInv
<1> HIDE DEF t
<1>4. t.beam.found \in SUBSET Nodes(graph) /\ MForLevel(t.lc) \in Nat
  BY <1>2, RoomType DEF Beams
<1>5. row \in Selections(t.beam.found, MForLevel(t.lc))
  BY <1>3, <1>4, SelectsChoice
<1> HIDE DEF row
<1>6. row \in Selections(Nodes(graph), MForLevel(t.lc)) /\ Range(row) \in SUBSET Nodes(graph)
      /\ row \in Seq(Nodes(graph))
  <2>1. row \in Seq(t.beam.found) /\ row = [i \in 1..Len(row) |-> row[i]] /\ Len(row) \in Nat
        /\ DOMAIN row = 1..Len(row)
    BY <1>5, LenProperties DEF Selections
  <2>2. \A i \in 1..Len(row) : row[i] \in Nodes(graph)
    BY <1>4, <2>1, ElementOfSeq
  <2>3. row \in Seq(Nodes(graph)) /\ Range(row) \in SUBSET Nodes(graph)
    BY <2>1, <2>2 DEF Range
  <2> QED
    BY <1>5, <2>3 DEF Selections
<1>7. new \in Tasks(graph) /\ new.phase # "idle" /\ new.node = t.node
  BY <1>2, <1>6 DEF Tasks
<1> HIDE DEF new
<1>8. GraphOK(graph') /\ Nodes(graph') = Nodes(graph) /\ graph'.level = graph.level
      /\ graph'.entry = graph.entry
  BY <1>1, <1>2, <1>3, <1>6, RowReplaced
<1> QED
  BY <1>1, <1>2, <1>7, <1>8, GoesOn DEF t

\* LinkBack: a neighbour's row keeps to its capacity.
LEMMA LinkBackKeeps ==
  ASSUME IInv, NEW w \in Worker, LinkBack(w)
  PROVE  IInv'
<1> DEFINE t == work[w]
           new == [t EXCEPT !.left = Tail(@)]
<1>1. /\ t.phase = "reverse" /\ t.left # << >> /\ work' = [work EXCEPT ![w] = new]
      /\ graph' = WithReverseLink(graph, Head(t.left), t.node, t.lc)
      /\ UNCHANGED <<built, pending>>
  BY DEF LinkBack
<1>2. t \in [phase : {"reverse"}, node : Nodes(graph), ef : Nat, lc : Level,
             ep : SUBSET Nodes(graph), left : Seq(Nodes(graph))] /\ t # Idle
  BY <1>1, TaskOf
<1>3. GraphOK(graph)
  BY DEF IInv
<1> HIDE DEF t
<1>4. t.left \in Seq(Nodes(graph)) /\ t.node \in Nodes(graph) /\ t.lc \in Level
  BY <1>2
<1>5. Head(t.left) \in Nodes(graph) /\ Tail(t.left) \in Seq(Nodes(graph))
  BY <1>1, <1>4, HeadTailProperties
<1>6. new \in Tasks(graph) /\ new.phase # "idle" /\ new.node = t.node
  <2> PICK left \in Seq(Nodes(graph)) : left = Tail(t.left)
    BY <1>5
  <2>1. new = [t EXCEPT !.left = left]
    OBVIOUS
  <2> HIDE DEF new
  <2> QED
    BY <1>2, <2>1 DEF Tasks
<1> HIDE DEF new
<1>7. GraphOK(graph') /\ Nodes(graph') = Nodes(graph) /\ graph'.level = graph.level
      /\ graph'.entry = graph.entry
  <2> PICK n \in Nodes(graph) : n = Head(t.left)
    BY <1>5
  <2>1. HasRow(graph, n, t.lc, graph')
    BY <1>1, <1>3, <1>4, LinkedBack
  <2>2. PICK row \in Selections(Nodes(graph), MForLevel(t.lc)) :
          graph' = [graph EXCEPT !.links[n][t.lc] = row]
    BY <2>1 DEF HasRow
  <2> QED
    BY <1>3, <1>4, <2>2, RowReplaced
<1> QED
  BY <1>1, <1>2, <1>6, <1>7, GoesOn DEF t

\* NextLevel: the search of the layer below starts from what was selected.
LEMMA NextLevelKeeps ==
  ASSUME IInv, NEW w \in Worker, NextLevel(w)
  PROVE  IInv'
<1> DEFINE t == work[w]
           new == Searching(t, t.lc - 1, t.ep)
<1>1. /\ t.phase = "reverse" /\ t.lc > 0 /\ work' = [work EXCEPT ![w] = new]
      /\ UNCHANGED graph /\ UNCHANGED <<built, pending>>
  BY DEF NextLevel
<1>2. t \in [phase : {"reverse"}, node : Nodes(graph), ef : Nat, lc : Level,
             ep : SUBSET Nodes(graph), left : Seq(Nodes(graph))] /\ t # Idle
  BY <1>1, TaskOf
<1>3. GraphOK(graph)
  BY DEF IInv
<1> HIDE DEF t
<1>4. t.lc - 1 \in Level
  BY <1>1, <1>2, ParamsAssumption DEF Level
<1>5. new \in Tasks(graph) /\ new.phase = "search" /\ new.node = t.node
  BY <1>2, <1>4, SearchingTask
<1> HIDE DEF new
<1>6. GraphOK(graph') /\ Nodes(graph') = Nodes(graph) /\ graph'.level = graph.level
      /\ graph'.entry = graph.entry
  BY <1>1, <1>3
<1> QED
  BY <1>1, <1>2, <1>5, <1>6, GoesOn DEF t


\* Begin: the node goes from pending into the hands of the worker.
LEMMA BeginKeeps ==
  ASSUME IInv, NEW w \in Worker, NEW n \in pending, Begin(w, n)
  PROVE  IInv'
<1> DEFINE e == graph.entry
           task == [node |-> n, ef |-> IF Exclusive(n) THEN Ef ELSE 2 * Ef]
           new == IF graph.level[e] > graph.level[n]
                  THEN [phase |-> "descend", node |-> n, ef |-> task.ef, lc |-> graph.level[e], near |-> e]
                  ELSE Searching(task, graph.level[n], {e})
<1>1. /\ work[w] = Idle /\ pending' = pending \ {n} /\ work' = [work EXCEPT ![w] = new]
      /\ UNCHANGED graph /\ UNCHANGED built
  BY DEF Begin
<1>2. /\ GraphOK(graph) /\ pending \in SUBSET Nodes(graph) /\ built \in Nat
      /\ work \in [Worker -> Tasks(graph)] /\ HighestLinked
  BY DEF IInv
<1>3. n \in Nodes(graph) /\ e \in Nodes(graph) /\ e # None
  <2>1. Size(graph) # 0
    BY <1>2 DEF Nodes
  <2> QED
    BY <1>2, <2>1 DEF GraphOK
<1>4. graph.level[n] \in Level /\ graph.level[e] \in Level
  BY <1>2, <1>3, GraphLinked
<1>5. task.node = n /\ task.ef \in Nat
  BY ParamsAssumption
<1> HIDE DEF e, task
<1>6. new \in Tasks(graph) /\ new.phase # "idle" /\ new.node = n
  <2>1. CASE graph.level[e] > graph.level[n]
    BY <1>3, <1>4, <1>5, <2>1 DEF Tasks
  <2>2. CASE ~(graph.level[e] > graph.level[n])
    <3>1. new = Searching(task, graph.level[n], {e}) /\ {e} \in SUBSET Nodes(graph)
      BY <1>3, <2>2
    <3> HIDE DEF new
    <3> QED
      BY <1>3, <1>4, <1>5, <3>1, SearchingTask
  <2> QED
    BY <2>1, <2>2
<1> HIDE DEF new
<1>7. new # Idle
  BY <1>6 DEF Idle
<1>8. work' \in [Worker -> Tasks(graph')]
  BY <1>1, <1>2, <1>6
<1>9. \A x \in Nodes(graph) : x \notin pending' /\ x \notin InHand' => x \notin pending /\ x \notin InHand
  <2> SUFFICES ASSUME NEW x \in Nodes(graph), x \notin pending', x \notin InHand'
               PROVE  x \notin pending /\ x \notin InHand
    OBVIOUS
  <2>1. work'[w] # Idle /\ work'[w].node = n
    BY <1>1, <1>2, <1>6, <1>7
  <2>2. n \in InHand'
    BY <1>1, <1>3, <2>1 DEF InHand
  <2>3. x # n
    BY <2>2
  <2>4. ASSUME NEW y \in Worker, work[y] # Idle, work[y].node = x
        PROVE  FALSE
    <3>1. y # w /\ work'[y] = work[y]
      BY <1>1, <1>2, <2>4
    <3> QED
      BY <1>1, <2>4, <3>1 DEF InHand
  <2> QED
    BY <1>1, <2>3, <2>4 DEF InHand
<1>10. HighestLinked'
  BY <1>1, <1>2, <1>9 DEF HighestLinked, Nodes, Size
<1> QED
  BY <1>1, <1>2, <1>8, <1>10 DEF IInv

\* Finish: the node is linked, and the entry point at least as high.
LEMMA FinishKeeps ==
  ASSUME IInv, NEW w \in Worker, Finish(w)
  PROVE  IInv'
<1> DEFINE t == work[w]
           e == graph.entry
<1>1. /\ t.phase = "reverse" /\ graph' = Raised(graph, t.node)
      /\ work' = [work EXCEPT ![w] = Idle] /\ UNCHANGED <<built, pending>>
  BY DEF Finish
<1>2. /\ GraphOK(graph) /\ pending \in SUBSET Nodes(graph) /\ built \in Nat
      /\ work \in [Worker -> Tasks(graph)] /\ HighestLinked
  BY DEF IInv
<1>3. t # Idle /\ t.node \in Nodes(graph)
  BY <1>1, TaskOf
<1>4. e # None /\ e \in Nodes(graph)
  <2>1. Size(graph) # 0
    BY <1>3 DEF Nodes
  <2> QED
    BY <1>2, <2>1 DEF GraphOK
<1>5. \A n \in Nodes(graph) : graph.level[n] \in Nat
  BY <1>2, GraphLinked DEF Level
<1>6. t.node \in Nat /\ t.node # None
  BY <1>3, ParamsAssumption DEF Nodes
<1> DEFINE f == IF graph.level[t.node] > graph.level[e] THEN t.node ELSE e
<1>7. /\ graph'.vec = graph.vec /\ graph'.level = graph.level /\ graph'.links = graph.links
      /\ graph'.entry = f
      /\ graph' \in [vec : Seq(Point), level : Seq(Level), links : Seq([Level -> Seq(Nat)]),
                     entry : Nat \cup {None}]
  <2>1. graph \in [vec : Seq(Point), level : Seq(Level), links : Seq([Level -> Seq(Nat)]),
                   entry : Nat \cup {None}]
    BY <1>2 DEF GraphOK
  <2>2. CASE graph.level[t.node] > graph.level[e]
    <3>1. graph' = [graph EXCEPT !.entry = t.node]
      BY <1>1, <2>2 DEF Raised
    <3> HIDE DEF t
    <3> QED
      BY <1>6, <2>1, <2>2, <3>1
  <2>3. CASE ~(graph.level[t.node] > graph.level[e])
    <3>1. graph' = graph
      BY <1>1, <2>3 DEF Raised
    <3> QED
      BY <2>1, <2>3, <3>1
  <2> QED
    BY <2>2, <2>3
<1>8. Size(graph') = Size(graph) /\ Nodes(graph') = Nodes(graph)
  BY <1>7 DEF Size, Nodes
<1>9. f \in Nodes(graph) /\ f # None
  BY <1>3, <1>4, <1>6
<1> HIDE DEF f
<1>10. GraphOK(graph')
  <2>1. /\ Len(graph'.level) = Size(graph') /\ Len(graph'.links) = Size(graph')
        /\ graph'.entry \in Nodes(graph') \cup {None}
        /\ graph'.entry = None => Size(graph') = 0
    BY <1>2, <1>7, <1>8, <1>9 DEF GraphOK
  <2>2. \A n \in Nodes(graph'), lc \in Level :
          graph'.links[n][lc] \in Selections(Nodes(graph'), MForLevel(lc))
    BY <1>2, <1>7, <1>8 DEF GraphOK
  <2> QED
    BY <1>7, <2>1, <2>2 DEF GraphOK
<1>11. work' \in [Worker -> Tasks(graph')]
  <2>1. Tasks(graph') = Tasks(graph) /\ Idle \in Tasks(graph)
    BY <1>8 DEF Tasks, Beams
  <2> QED
    BY <1>1, <1>2, <2>1
<1>12. HighestLinked'
  <2> SUFFICES ASSUME NEW n \in Nodes(graph), n \notin pending, n \notin InHand'
               PROVE  graph.level[n] <= graph.level[f]
    BY <1>1, <1>7, <1>8 DEF HighestLinked
  <2>1. graph.level[n] \in Nat /\ graph.level[e] \in Nat /\ graph.level[t.node] \in Nat
    BY <1>3, <1>4, <1>5
  <2>2. graph.level[t.node] <= graph.level[f] /\ graph.level[e] <= graph.level[f]
    BY <2>1 DEF f
  <2>3. CASE n = t.node
    BY <2>2, <2>3
  <2>4. CASE n # t.node
    <3>1. n \notin InHand
      <4> SUFFICES ASSUME NEW y \in Worker, work[y] # Idle, work[y].node = n
                   PROVE  FALSE
        BY DEF InHand
      <4>1. y # w
        BY <2>4
      <4>2. work'[y] = work[y]
        BY <1>1, <1>2, <4>1
      <4> QED
        BY <1>8, <4>2 DEF InHand
    <3>2. graph.level[n] <= graph.level[e]
      BY <1>2, <1>4, <3>1 DEF HighestLinked
    <3>3. graph.level[f] \in Nat
      BY <1>5, <1>9
    <3> QED
      BY <2>1, <2>2, <3>2, <3>3
  <2> QED
    BY <2>3, <2>4
<1> QED
  BY <1>1, <1>2, <1>8, <1>10, <1>11, <1>12 DEF IInv


\* A node more: the rows of the others, and their levels, are as before.
Grown(g, new) ==
  /\ new \in [vec : Seq(Point), level : Seq(Level), links : Seq([Level -> Seq(Nat)]),
              entry : Nat \cup {None}]
  /\ Size(new) = Size(g) + 1 /\ Len(new.level) = Size(new) /\ Len(new.links) = Size(new)
  /\ new.entry = g.entry
  /\ \A n \in Nodes(new), lc \in Level : new.links[n][lc] \in Selections(Nodes(new), MForLevel(lc))
  /\ \A n \in Nodes(g) : new.level[n] = g.level[n]

\* add_node: an empty row on each level, and nothing else is touched.
LEMMA NodeAdded ==
  ASSUME NEW g, GraphOK(g), NEW v \in Point, NEW l \in Level
  PROVE  Grown(g, WithNode(g, v, l))
<1> DEFINE new == WithNode(g, v, l)
           Rows == [Level -> Seq(Nat)]
           N == Size(g)
<1>1. /\ g.vec \in Seq(Point) /\ g.level \in Seq(Level) /\ g.links \in Seq(Rows)
      /\ Len(g.vec) = N /\ Len(g.level) = N /\ Len(g.links) = N /\ N \in Nat
      /\ g \in [vec : Seq(Point), level : Seq(Level), links : Seq(Rows), entry : Nat \cup {None}]
  BY LenProperties DEF GraphOK, Size
<1>2. EmptyRows \in Rows /\ \A lc \in Level : EmptyRows[lc] = << >>
  BY DEF EmptyRows
<1> HIDE DEF Rows
<1>3. /\ Append(g.vec, v) \in Seq(Point) /\ Len(Append(g.vec, v)) = N + 1
      /\ Append(g.level, l) \in Seq(Level) /\ Len(Append(g.level, l)) = N + 1
      /\ \A n \in 1..N : Append(g.level, l)[n] = g.level[n]
  BY <1>1, AppendProperties
<1>4. /\ Append(g.links, EmptyRows) \in Seq(Rows) /\ Len(Append(g.links, EmptyRows)) = N + 1
      /\ \A n \in 1..N : Append(g.links, EmptyRows)[n] = g.links[n]
      /\ Append(g.links, EmptyRows)[N + 1] = EmptyRows
  BY <1>1, <1>2, AppendProperties
<1>5. /\ new.vec = Append(g.vec, v) /\ new.level = Append(g.level, l)
      /\ new.links = Append(g.links, EmptyRows) /\ new.entry = g.entry
      /\ new \in [vec : Seq(Point), level : Seq(Level), links : Seq(Rows), entry : Nat \cup {None}]
  BY <1>1, <1>3, <1>4 DEF WithNode
<1>6. Size(new) = N + 1
  BY <1>3, <1>5 DEF Size
<1>7. Nodes(g) = 1..N /\ Nodes(new) = 1..N + 1
  BY <1>6 DEF Nodes
<1> HIDE DEF new, N
<1>8. \A n \in Nodes(new), lc \in Level : new.links[n][lc] \in Selections(Nodes(new), MForLevel(lc))
  <2> TAKE n \in Nodes(new), lc \in Level
  <2>1. CASE n \in Nodes(g)
    <3> PICK row \in Selections(Nodes(g), MForLevel(lc)) : row = g.links[n][lc]
      BY <2>1 DEF GraphOK
    <3>1. new.links[n][lc] = row
      BY <1>4, <1>5, <1>7, <2>1
    <3>2. row \in Seq(Nodes(g)) /\ Nodes(g) \subseteq Nodes(new)
      BY <1>1, <1>7 DEF Selections
    <3>3. \A i \in 1..Len(row) : row[i] \in Nodes(new)
      BY <3>2, ElementOfSeq
    <3>4. row = [i \in 1..Len(row) |-> row[i]] /\ Len(row) \in Nat
      BY <3>2, LenProperties
    <3>5. row \in Seq(Nodes(new))
      BY <3>3, <3>4
    <3> QED
      BY <3>1, <3>5 DEF Selections
  <2>2. CASE n = N + 1
    <3>1. new.links[n][lc] = << >>
      BY <1>2, <1>4, <1>5, <2>2
    <3>2. << >> \in Selections(Nodes(new), MForLevel(lc))
      BY RoomType DEF Selections, IsInjective
    <3> QED
      BY <3>1, <3>2
  <2> QED
    BY <1>1, <1>7, <2>1, <2>2
<1>9. Grown(g, new)
  BY <1>3, <1>4, <1>5, <1>6, <1>7, <1>8 DEF Grown, Rows, N
<1> QED
  BY <1>9 DEF new

\* Insert: the new node is the entry point of an empty graph, and pending in another.
LEMMA InsertKeeps ==
  ASSUME IInv, NEW v \in Point, NEW l \in Level, Insert(v, l)
  PROVE  IInv'
<1> DEFINE g == WithNode(graph, v, l)
           n == Size(g)
<1>1. /\ pending = {} /\ (\A w \in Worker : work[w] = Idle) /\ UNCHANGED <<built, work>>
      /\ IF graph.entry = None THEN graph' = [g EXCEPT !.entry = n] /\ UNCHANGED pending
         ELSE graph' = g /\ pending' = {n}
  BY DEF Insert, Resting
<1>2. /\ GraphOK(graph) /\ built \in Nat /\ work \in [Worker -> Tasks(graph)] /\ HighestLinked
  BY DEF IInv
<1>3. Grown(graph, g)
  BY <1>2, NodeAdded
<1>4. Size(graph) \in Nat
  BY <1>2, GraphLinked
<1> HIDE DEF g
<1>5. /\ g \in [vec : Seq(Point), level : Seq(Level), links : Seq([Level -> Seq(Nat)]),
                entry : Nat \cup {None}]
      /\ n = Size(graph) + 1 /\ Len(g.level) = n /\ Len(g.links) = n /\ g.entry = graph.entry
      /\ \A x \in Nodes(g), lc \in Level : g.links[x][lc] \in Selections(Nodes(g), MForLevel(lc))
      /\ \A x \in Nodes(graph) : g.level[x] = graph.level[x]
  BY <1>3 DEF Grown
<1>6. n \in Nodes(g) /\ Nodes(g) = 1..n /\ n \in Nat /\ n # None /\ n # 0
  BY <1>4, <1>5, ParamsAssumption DEF Nodes
<1>7. \A x \in Nodes(g) : x = n \/ x \in Nodes(graph)
  BY <1>4, <1>5, <1>6 DEF Nodes
<1>8. Nodes(graph) \subseteq Nodes(g)
  BY <1>4, <1>5, <1>6 DEF Nodes
<1>9. ASSUME NEW new
      PROVE  work' \in [Worker -> Tasks(new)]
  BY <1>1, <1>2 DEF Tasks
<1>10. CASE graph.entry = None
  <2>1. /\ graph'.vec = g.vec /\ graph'.level = g.level /\ graph'.links = g.links
        /\ graph'.entry = n
        /\ graph' \in [vec : Seq(Point), level : Seq(Level), links : Seq([Level -> Seq(Nat)]),
                       entry : Nat \cup {None}]
    <3> HIDE DEF n
    <3> QED
      BY <1>1, <1>5, <1>6, <1>10
  <2>2. Size(graph') = n /\ Nodes(graph') = Nodes(g)
    BY <2>1 DEF Size, Nodes
  <2>3. GraphOK(graph')
    <3> HIDE DEF n
    <3> QED
      BY <1>5, <1>6, <2>1, <2>2 DEF GraphOK
  <2>4. Size(graph) = 0
    BY <1>2, <1>10 DEF GraphOK
  <2>5. \A x \in Nodes(graph') : x = n
    BY <1>7, <2>2, <2>4 DEF Nodes
  <2>6. graph'.level[n] \in Level
    BY <1>6, <2>2, <2>3, GraphLinked
  <2>7. HighestLinked'
    <3>1. graph'.level[n] <= graph'.level[n]
      BY <2>6, ParamsAssumption DEF Level
    <3> QED
      BY <2>1, <2>5, <3>1 DEF HighestLinked
  <2>8. pending' \in SUBSET Nodes(graph')
    BY <1>1, <1>10
  <2> QED
    BY <1>1, <1>2, <1>9, <2>3, <2>7, <2>8 DEF IInv
<1>11. CASE graph.entry # None
  <2>1. graph' = g /\ pending' = {n}
    BY <1>1, <1>11
  <2>2. graph.entry \in Nodes(graph)
    BY <1>2, <1>11 DEF GraphOK
  <2>3. GraphOK(graph')
    BY <1>5, <1>8, <1>11, <2>1, <2>2 DEF GraphOK
  <2>4. HighestLinked'
    <3> SUFFICES ASSUME NEW x \in Nodes(g), x # n
                 PROVE  g.level[x] <= g.level[g.entry]
      BY <2>1 DEF HighestLinked
    <3>1. x \in Nodes(graph)
      BY <1>7
    <3>2. x \notin pending /\ x \notin InHand
      BY <1>1 DEF InHand
    <3>3. graph.level[x] <= graph.level[graph.entry]
      BY <1>2, <1>11, <3>1, <3>2 DEF HighestLinked
    <3> QED
      BY <1>5, <2>2, <3>1, <3>3
  <2>5. pending' \in SUBSET Nodes(graph')
    BY <1>6, <2>1
  <2> QED
    BY <1>1, <1>2, <1>9, <2>3, <2>4, <2>5 DEF IInv
<1> QED
  BY <1>10, <1>11

\* Every step keeps the invariant.
LEMMA NextKeeps == IInv /\ [Next]_vars => IInv'
<1> SUFFICES ASSUME IInv, [Next]_vars PROVE IInv'
  OBVIOUS
<1>1. CASE UNCHANGED vars
  BY <1>1 DEF vars, IInv, HighestLinked, InHand
<1>2. ASSUME NEW v \in Point, NEW l \in Level, Insert(v, l)
      PROVE  IInv'
  BY <1>2, InsertKeeps
<1>3. ASSUME NEW w \in Worker, Step(w)
      PROVE  IInv'
  <2>1. ASSUME NEW n \in pending, Begin(w, n) PROVE IInv'
    BY <2>1, BeginKeeps
  <2>2. CASE Descend(w)
    BY <2>2, DescendKeeps
  <2>3. CASE Expand(w)
    BY <2>3, ExpandKeeps
  <2>4. CASE Link(w)
    BY <2>4, LinkKeeps
  <2>5. CASE LinkBack(w)
    BY <2>5, LinkBackKeeps
  <2>6. CASE NextLevel(w)
    BY <2>6, NextLevelKeeps
  <2>7. CASE Finish(w)
    BY <2>7, FinishKeeps
  <2> QED
    BY <1>3, <2>1, <2>2, <2>3, <2>4, <2>5, <2>6, <2>7 DEF Step
<1> QED
  BY <1>1, <1>2, <1>3 DEF Next

-----------------------------------------------------------------------------
(* The theorems.                                                           *)

\* The invariant holds in every state that the index gets to.
THEOREM InvariantHolds == Spec => []IInv
<1>1. Init => IInv
  BY InitIInv
<1>2. IInv /\ [Next]_vars => IInv'
  BY NextKeeps
<1> QED
  BY <1>1, <1>2, PTL DEF Spec

\* The rows of the invariant are those of TypeOK.
LEMMA IInvType == IInv => TypeOK
<1> SUFFICES ASSUME IInv PROVE TypeOK
  OBVIOUS
<1>1. GraphOK(graph)
  BY DEF IInv
<1>2. graph.entry \in (1..Size(graph)) \cup {None}
  BY <1>1 DEF GraphOK, Nodes
<1>3. ASSUME NEW n \in 1..Size(graph), NEW lc \in Level, NEW row, row = graph.links[n][lc]
      PROVE  row \in Seq(1..Size(graph)) /\ Len(row) <= MForLevel(lc) /\ Cardinality(Range(row)) = Len(row)
  <2>1. row \in Selections(Nodes(graph), MForLevel(lc))
    BY <1>1, <1>3 DEF GraphOK, Nodes
  <2>2. row \in Seq(Nodes(graph)) /\ Len(row) <= MForLevel(lc) /\ IsInjective(row)
    BY <2>1 DEF Selections
  <2>3. Cardinality(Range(row)) = Len(row)
    BY <2>2, InjectiveCounts
  <2> QED
    BY <2>2, <2>3 DEF Nodes
<1> QED
  BY <1>2, <1>3 DEF TypeOK

\* Whatever the vectors, the parameters and the threads of a build: every row holds nodes of
\* the graph, each once, within the row's capacity.
THEOREM TypeCorrect == Spec => []TypeOK
BY InvariantHolds, IInvType, PTL

\* At rest no node is pending or in hand.
LEMMA IInvHighest == IInv => EntryHighest
<1> SUFFICES ASSUME IInv, Resting, graph.entry # None, NEW n \in 1..Size(graph)
             PROVE  graph.level[n] <= graph.level[graph.entry]
  BY DEF EntryHighest
<1>1. n \in Nodes(graph) /\ n \notin pending /\ n \notin InHand
  BY DEF Resting, Nodes, InHand
<1> QED
  BY <1>1 DEF IInv, HighestLinked

\* At rest the entry point is on the top level, in whatever order the threads of a build
\* finished: two that read the same entry point do not undo each other's.
THEOREM EntryHighestCorrect == Spec => []EntryHighest
BY InvariantHolds, IInvHighest, PTL

\* A search of a linked graph is exact.
LEMMA IInvExact == IInv => SearchExact
<1> SUFFICES ASSUME IInv, graph.entry # None, NEW q \in Point, NEW k \in 1..Size(graph)
             PROVE  LET inReach == Reach(graph, {StartOf(graph, q)})
                        all     == Size(graph)
                    IN  /\ AreNearest(graph, q, k, Search(graph, q, k, all), inReach)
                        /\ Len(Search(graph, q, k, k)) = Min({k, Cardinality(inReach)})
                        /\ \A pass \in SUBSET (1..Size(graph)) :
                             AreNearest(graph, q, k, SearchWithFilter(graph, q, k, all, pass),
                                        inReach \cap pass)
  BY DEF SearchExact
<1>1. Searchable(graph) /\ Size(graph) \in Nat
  BY GraphLinked DEF IInv
<1>2. q \in Point /\ k \in Nat \ {0}
  BY <1>1, ParamsAssumption
<1>3. AreNearest(graph, q, k, Search(graph, q, k, Size(graph)), Reach(graph, {StartOf(graph, q)}))
  BY <1>1, <1>2, SearchIsExact
<1>4. Len(Search(graph, q, k, k)) = Min({k, Cardinality(Reach(graph, {StartOf(graph, q)}))})
  BY <1>1, <1>2, SearchReturnsAll
<1>5. \A pass \in SUBSET (1..Size(graph)) :
        AreNearest(graph, q, k, SearchWithFilter(graph, q, k, Size(graph), pass),
                   Reach(graph, {StartOf(graph, q)}) \cap pass)
  BY <1>1, <1>2, FilterIsExact
<1> QED
  BY <1>3, <1>4, <1>5

\* Whatever the vectors, the parameters and the threads of the build: with an ef that spans
\* the graph a search, filtered or not, returns the k nearest of the nodes that the bottom
\* layer leads to from where the descent ends; with the smallest it returns as many hits as
\* there are to return.
THEOREM SearchExactCorrect == Spec => []SearchExact
BY InvariantHolds, IInvExact, PTL

=============================================================================
