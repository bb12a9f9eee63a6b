-------------------------- MODULE GraphStoreProofs --------------------------
(***************************************************************************)
(* Proofs about GraphStore, for any ids, types and data, any limit of the  *)
(* log, and every bound: through all calls, checkpoints, interruptions and *)
(* recoveries the two adjacencies hold the same edges, and are counted,    *)
(* and every query answers what the walks over those edges are.            *)
(***************************************************************************)
EXTENDS GraphStore, Recursion, SequenceTheorems

-----------------------------------------------------------------------------
(* A graph and the set of edges it stands for.                             *)

Alike(e, x) == e.from = x.from /\ e.to = x.to /\ e.type = x.type

Distinct(E) == \A e, x \in E : Alike(e, x) => e = x

\* The edges of E that S has no edge in the place of.
Others(E, S) == {e \in E : ~\E x \in S : Alike(e, x)}

\* The graph g holds the edges E: twice, with a list for each end, and counted.
Holds(g, E) ==
  /\ g \in Graph
  /\ E \in SUBSET Edge /\ IsFiniteSet(E) /\ Distinct(E)
  /\ g.outgoing = Outs(E) /\ g.incoming = Ins(E)
  /\ \A e \in E : e.from \in g.outKeys /\ e.to \in g.inKeys
  /\ g.count = Cardinality(E)

LEMMA RecordOfEdge ==
  ASSUME NEW e \in Edge
  PROVE  /\ Out(e) \in EdgeRecord /\ In(e) \in EdgeRecord
         /\ FromOut(Out(e)) = e /\ FromIn(In(e)) = e
BY DEF Edge, EdgeRecord, Out, In, FromOut, FromIn

LEMMA EdgeOfRecord ==
  ASSUME NEW r \in EdgeRecord
  PROVE  /\ FromOut(r) \in Edge /\ FromIn(r) \in Edge
         /\ Out(FromOut(r)) = r /\ In(FromIn(r)) = r
BY DEF Edge, EdgeRecord, Out, In, FromOut, FromIn

LEMMA SameEdges ==
  ASSUME NEW e \in Edge, NEW x \in Edge
  PROVE  /\ SameEdge(Out(e), Out(x)) <=> Alike(e, x)
         /\ SameEdge(In(e), In(x)) <=> Alike(e, x)
BY DEF SameEdge, Out, In, Alike

\* Edges and their records are as many.
LEMMA RecordsOfEdges ==
  ASSUME NEW E \in SUBSET Edge
  PROVE  /\ Outs(E) \in SUBSET EdgeRecord /\ Ins(E) \in SUBSET EdgeRecord
         /\ {FromOut(r) : r \in Outs(E)} = E /\ {FromIn(r) : r \in Ins(E)} = E
         /\ IsFiniteSet(E) => /\ IsFiniteSet(Outs(E))
                              /\ Cardinality(Outs(E)) = Cardinality(E)
<1>1. Outs(E) \in SUBSET EdgeRecord /\ Ins(E) \in SUBSET EdgeRecord
  BY RecordOfEdge DEF Outs, Ins
<1>2. {FromOut(r) : r \in Outs(E)} = E
  BY RecordOfEdge DEF Outs
<1>3. {FromIn(r) : r \in Ins(E)} = E
  BY RecordOfEdge DEF Ins
<1>4. ASSUME IsFiniteSet(E)
      PROVE  IsFiniteSet(Outs(E)) /\ Cardinality(Outs(E)) = Cardinality(E)
  <2> DEFINE f == [e \in E |-> Out(e)]
  <2>1. f \in [E -> Outs(E)] /\ \A r \in Outs(E) : \E e \in E : f[e] = r
    BY DEF Outs
  <2>2. \A e, x \in E : f[e] = f[x] => e = x
    BY RecordOfEdge
  <2>3. f \in Bijection(E, Outs(E))
    BY <2>1, <2>2 DEF Bijection, Injection, IsInjective, Surjection
  <2> QED
    BY <1>4, <2>3, FS_Bijection DEF ExistsBijection
<1> QED
  BY <1>1, <1>2, <1>3, <1>4

LEMMA WithoutEdges ==
  ASSUME NEW E \in SUBSET Edge, NEW S \in SUBSET Edge
  PROVE  /\ Without(Outs(E), Outs(S)) = Outs(Others(E, S))
         /\ Without(Ins(E), Ins(S)) = Ins(Others(E, S))
<1>1. Without(Outs(E), Outs(S)) = Outs(Others(E, S))
  BY SameEdges DEF Without, Outs, Others
<1>2. Without(Ins(E), Ins(S)) = Ins(Others(E, S))
  BY SameEdges DEF Without, Ins, Others
<1> QED
  BY <1>1, <1>2

LEMMA NothingHeld == Holds(NoEdges, {})
<1>1. Outs({}) = {} /\ Ins({}) = {} /\ Cardinality({}) = 0 /\ IsFiniteSet({})
  BY FS_EmptySet DEF Outs, Ins
<1> QED
  BY <1>1 DEF Holds, NoEdges, Graph, Distinct

LEMMA HeldEdges ==
  ASSUME NEW g, NEW E, Holds(g, E)
  PROVE  /\ AllEdges(g) = E
         /\ IsMirrored(g)
<1>1. /\ E \in SUBSET Edge /\ IsFiniteSet(E) /\ g.outgoing = Outs(E) /\ g.incoming = Ins(E)
      /\ g \in Graph /\ g.count = Cardinality(E)
  BY DEF Holds
<1>2. /\ {FromOut(r) : r \in g.outgoing} = E /\ {FromIn(r) : r \in g.incoming} = E
      /\ g.count = Cardinality(g.outgoing)
  BY <1>1, RecordsOfEdges
<1>3. \A r, s \in g.outgoing : SameEdge(r, s) => r = s
  BY <1>1, SameEdges DEF Holds, Distinct, Outs
<1>4. {r.at : r \in g.outgoing} \subseteq g.outKeys
  BY <1>1 DEF Holds, Outs, Out
<1>5. {r.at : r \in g.incoming} \subseteq g.inKeys
  BY <1>1 DEF Holds, Ins, In
<1> QED
  BY <1>2, <1>3, <1>4, <1>5 DEF AllEdges, IsMirrored

LEMMA FoundEdges ==
  ASSUME NEW g, NEW E, Holds(g, E), NEW e \in Edge
  PROVE  /\ HasEdge(g, e) <=> \E x \in E : Alike(x, e)
         /\ (\E r \in g.incoming : SameEdge(r, In(e))) <=> \E x \in E : Alike(x, e)
<1>1. E \in SUBSET Edge /\ g.outgoing = Outs(E) /\ g.incoming = Ins(E)
  BY DEF Holds
<1>2. HasEdge(g, e) <=> \E x \in E : Alike(x, e)
  BY <1>1, SameEdges DEF HasEdge, Outs
<1>3. (\E r \in g.incoming : SameEdge(r, In(e))) <=> \E x \in E : Alike(x, e)
  BY <1>1, SameEdges DEF Ins
<1> QED
  BY <1>2, <1>3

\* add_edge for each of S puts them in the place of edges like them.
LEMMA AddedHolds ==
  ASSUME NEW g, NEW E, Holds(g, E), NEW S \in SUBSET Edge, IsFiniteSet(S), Distinct(S)
  PROVE  Holds(Added(g, S), Others(E, S) \cup S)
<1> DEFINE new   == {e \in S : ~HasEdge(g, e)}
           found == {e \in S : \E r \in g.incoming : SameEdge(r, In(e))}
           taken == E \ Others(E, S)
<1>1. /\ E \in SUBSET Edge /\ IsFiniteSet(E) /\ g.outgoing = Outs(E) /\ g.incoming = Ins(E)
      /\ g \in Graph /\ g.count = Cardinality(E) /\ Distinct(E)
  BY DEF Holds
<1>2. new = Others(S, E) /\ found = S \ new
  BY FoundEdges DEF Others, Alike
<1>3. Without(g.outgoing, Outs(S)) \cup Outs(S) = Outs(Others(E, S) \cup S)
  BY <1>1, WithoutEdges DEF Outs
<1>4. Without(g.incoming, Ins(S \ new)) \cup Ins(new \cup found) = Ins(Others(E, S) \cup S)
  <2>1. Others(E, S \ new) = Others(E, S)
    BY <1>2 DEF Others, Alike
  <2>2. new \cup found = S
    BY <1>2
  <2>3. Without(g.incoming, Ins(S \ new)) = Ins(Others(E, S))
    BY <1>1, <2>1, WithoutEdges
  <2> QED
    BY <2>2, <2>3 DEF Ins
<1>5. Cardinality(taken) = Cardinality(S \ new) /\ IsFiniteSet(taken)
  <2> DEFINE place == [x \in S \ new |-> CHOOSE e \in E : Alike(e, x)]
  <2>1. \A x \in S \ new : \E e \in E : Alike(e, x)
    BY <1>2 DEF Others, Alike
  <2>2. \A x \in S \ new : place[x] \in E /\ Alike(place[x], x)
    BY <2>1
  <2> HIDE DEF place
  <2>3. \A x \in S \ new : place[x] \in taken
    BY <2>2 DEF Others, Alike
  <2>4. \A e \in taken : \E x \in S \ new : place[x] = e
    <3> SUFFICES ASSUME NEW e \in taken PROVE \E x \in S \ new : place[x] = e
      OBVIOUS
    <3>1. PICK x \in S : Alike(e, x)
      BY DEF Others
    <3>2. x \in S \ new
      BY <1>2, <3>1 DEF Others, Alike
    <3> QED
      BY <1>1, <2>2, <3>1, <3>2 DEF Distinct, Alike
  <2>5. \A x, y \in S \ new : place[x] = place[y] => x = y
    <3> SUFFICES ASSUME NEW x \in S \ new, NEW y \in S \ new, place[x] = place[y]
                 PROVE  x = y
      OBVIOUS
    <3>1. Alike(place[x], x) /\ Alike(place[x], y)
      BY <2>2
    <3>2. Alike(x, y)
      BY <3>1 DEF Alike
    <3> QED
      BY <3>2 DEF Distinct
  <2>6. place \in [S \ new -> taken]
    BY <2>3 DEF place
  <2>7. place \in Bijection(S \ new, taken)
    BY <2>4, <2>5, <2>6 DEF Bijection, Injection, IsInjective, Surjection
  <2>8. IsFiniteSet(S \ new)
    BY FS_Difference
  <2> QED
    BY <2>7, <2>8, FS_Bijection DEF ExistsBijection
<1>6. /\ Cardinality(Others(E, S) \cup S) = Cardinality(E) + Cardinality(new)
      /\ IsFiniteSet(Others(E, S) \cup S)
      /\ Cardinality(E) + Cardinality(new) \in Nat
  <2>1. Others(E, S) = E \ taken /\ E \cap taken = taken
    BY DEF Others
  <2>2. IsFiniteSet(Others(E, S)) /\ Cardinality(Others(E, S)) = Cardinality(E) - Cardinality(taken)
    <3>1. /\ IsFiniteSet(E \ taken)
          /\ Cardinality(E \ taken) = Cardinality(E) - Cardinality(E \cap taken)
      BY <1>1, FS_Difference
    <3> HIDE DEF taken
    <3> QED
      BY <2>1, <3>1
  <2>3. Others(E, S) \cap S = {}
    BY DEF Others, Alike
  <2>4. /\ IsFiniteSet(Others(E, S) \cup S)
        /\ Cardinality(Others(E, S) \cup S) = Cardinality(Others(E, S)) + Cardinality(S) - 0
    BY <2>2, <2>3, FS_Union, FS_EmptySet
  <2>5. new \in SUBSET S /\ S \cap new = new
    OBVIOUS
  <2>6. Cardinality(S \ new) = Cardinality(S) - Cardinality(new)
    BY <2>5, FS_Difference
  <2>7. /\ Cardinality(E) \in Nat /\ Cardinality(S) \in Nat /\ Cardinality(new) \in Nat
        /\ Cardinality(taken) \in Nat
    BY <1>1, <1>5, <2>5, FS_Subset, FS_CardinalityType
  <2> QED
    BY <1>5, <2>2, <2>4, <2>6, <2>7
<1>7. Distinct(Others(E, S) \cup S)
  BY <1>1 DEF Distinct, Others, Alike
<1> DEFINE h == Added(g, S)
<1>8. /\ h.outgoing = Outs(Others(E, S) \cup S) /\ h.incoming = Ins(Others(E, S) \cup S)
      /\ h.outKeys = g.outKeys \cup {e.from : e \in S}
      /\ h.inKeys = g.inKeys \cup {e.to : e \in S}
      /\ h.count = Cardinality(E) + Cardinality(new)
      /\ h = [outgoing |-> h.outgoing, incoming |-> h.incoming, outKeys |-> h.outKeys,
              inKeys |-> h.inKeys, count |-> h.count]
  <2>1. h = [g EXCEPT !.outgoing = Outs(Others(E, S) \cup S),
                      !.incoming = Ins(Others(E, S) \cup S),
                      !.outKeys = g.outKeys \cup {e.from : e \in S},
                      !.inKeys = g.inKeys \cup {e.to : e \in S},
                      !.count = Cardinality(E) + Cardinality(new)]
    BY <1>1, <1>3, <1>4 DEF Added
  <2> HIDE DEF h, new
  <2> QED
    BY <1>1, <2>1 DEF Graph
<1> HIDE DEF h, new
<1>9. Others(E, S) \cup S \in SUBSET Edge
  BY <1>1 DEF Others
<1>10. h \in Graph
  <2>1. {e.from : e \in S} \in SUBSET Id /\ {e.to : e \in S} \in SUBSET Id
    BY DEF Edge
  <2>2. g.outKeys \in SUBSET Id /\ g.inKeys \in SUBSET Id
    BY <1>1 DEF Graph
  <2> QED
    BY <1>6, <1>8, <1>9, <2>1, <2>2, RecordsOfEdges DEF Graph
<1>11. \A e \in Others(E, S) \cup S : e.from \in h.outKeys /\ e.to \in h.inKeys
  BY <1>8 DEF Holds, Others
<1> QED
  BY <1>6, <1>7, <1>8, <1>9, <1>10, <1>11 DEF Holds, h

\* The records of the edges among E that are like one of S, as the updates find them.
LEMMA KnownRecords ==
  ASSUME NEW E \in SUBSET Edge, IsFiniteSet(E), Distinct(E), NEW S \in SUBSET Edge
  PROVE  LET known == {r \in Outs(E) : \E e \in S : SameEdge(r, Out(e))}
         IN  /\ Outs(E) \ known = Outs(Others(E, S))
             /\ Without(Ins(E), {In(FromOut(r)) : r \in known}) = Ins(Others(E, S))
             /\ Less(Cardinality(E), Cardinality(known)) = Cardinality(Others(E, S))
<1> DEFINE known == {r \in Outs(E) : \E e \in S : SameEdge(r, Out(e))}
           taken == E \ Others(E, S)
<1>1. known = Outs(taken)
  BY SameEdges DEF Outs, Others
<1>2. taken \in SUBSET Edge /\ taken \in SUBSET E
  OBVIOUS
<1>3. Outs(E) \ known = Outs(Others(E, S))
  <2>1. \A e \in E : Out(e) \in Outs(taken) => e \in taken
    BY <1>2, RecordOfEdge DEF Outs
  <2>2. \A e \in E : e \in taken <=> e \notin Others(E, S)
    OBVIOUS
  <2> HIDE DEF known, taken
  <2> QED
    BY <1>1, <1>2, <2>1, <2>2 DEF Outs, Others
<1>4. {In(FromOut(r)) : r \in known} = Ins(taken)
  BY <1>1, <1>2, RecordOfEdge DEF Outs, Ins
<1>5. Without(Ins(E), Ins(taken)) = Ins(Others(E, S))
  <2>1. Others(E, taken) = Others(E, S)
    BY DEF Others, Alike, Distinct
  <2> QED
    BY <1>2, <2>1, WithoutEdges
<1>6. Less(Cardinality(E), Cardinality(known)) = Cardinality(Others(E, S))
  <2>1. E \cap taken = taken /\ Others(E, S) = E \ taken
    BY DEF Others
  <2>2. Cardinality(Others(E, S)) = Cardinality(E) - Cardinality(taken)
    BY <2>1, FS_Difference
  <2>3. /\ IsFiniteSet(taken) /\ Cardinality(taken) <= Cardinality(E)
        /\ Cardinality(taken) \in Nat /\ Cardinality(E) \in Nat
    BY <1>2, FS_Subset, FS_CardinalityType
  <2>4. Cardinality(known) = Cardinality(taken)
    BY <1>1, <1>2, <2>3, RecordsOfEdges
  <2> QED
    BY <2>2, <2>3, <2>4 DEF Less
<1> QED
  BY <1>3, <1>4, <1>5, <1>6

\* Part of the edges of a graph.
LEMMA OthersPart ==
  ASSUME NEW E \in SUBSET Edge, IsFiniteSet(E), Distinct(E), NEW F \in SUBSET E
  PROVE  /\ F \in SUBSET Edge /\ IsFiniteSet(F) /\ Distinct(F) /\ Cardinality(F) \in Nat
<1>1. IsFiniteSet(F) /\ Cardinality(F) \in Nat
  BY FS_Subset, FS_CardinalityType
<1> QED
  BY <1>1 DEF Distinct

\* remove_edge for each of S removes the edges like them.
LEMMA DroppedHolds ==
  ASSUME NEW g, NEW E, Holds(g, E), NEW S \in SUBSET Edge
  PROVE  /\ Holds(Dropped(g, S), Others(E, S))
         /\ Dropped(g, S).outKeys = g.outKeys /\ Dropped(g, S).inKeys = g.inKeys
<1> DEFINE F == Others(E, S)
           h == Dropped(g, S)
<1>1. /\ E \in SUBSET Edge /\ IsFiniteSet(E) /\ g.outgoing = Outs(E) /\ g.incoming = Ins(E)
      /\ g \in Graph /\ g.count = Cardinality(E) /\ Distinct(E)
  BY DEF Holds
<1>2. F \in SUBSET Edge /\ IsFiniteSet(F) /\ Distinct(F) /\ Cardinality(F) \in Nat
  BY <1>1, OthersPart DEF Others
<1>3. h = [g EXCEPT !.outgoing = Outs(F), !.incoming = Ins(F), !.count = Cardinality(F)]
  BY <1>1, KnownRecords DEF Dropped
<1> HIDE DEF F, h
<1>4. /\ h.outgoing = Outs(F) /\ h.incoming = Ins(F) /\ h.count = Cardinality(F)
      /\ h.outKeys = g.outKeys /\ h.inKeys = g.inKeys
      /\ h \in Graph
  BY <1>1, <1>2, <1>3, RecordsOfEdges DEF Graph
<1>5. \A e \in F : e.from \in h.outKeys /\ e.to \in h.inKeys
  BY <1>4 DEF Holds, F, Others
<1> QED
  BY <1>2, <1>4, <1>5 DEF Holds, F, h

\* remove_all_for leaves the edges that do not have i for an end.
LEMMA DetachedHolds ==
  ASSUME NEW g, NEW E, Holds(g, E), NEW i \in Id
  PROVE  Holds(Detached(g, i), {e \in E : i \notin {e.from, e.to}})
<1> DEFINE outs == {FromOut(r) : r \in {s \in g.outgoing : s.at = i}}
           mid  == [Dropped(g, outs) EXCEPT !.outKeys = @ \ {i}]
           ins  == {FromIn(r) : r \in {s \in mid.incoming : s.at = i}}
           M    == {e \in E : e.from # i}
           F    == {e \in E : i \notin {e.from, e.to}}
           h    == Detached(g, i)
<1>1. /\ E \in SUBSET Edge /\ IsFiniteSet(E) /\ g.outgoing = Outs(E) /\ g.incoming = Ins(E)
      /\ g \in Graph /\ g.count = Cardinality(E) /\ Distinct(E)
  BY DEF Holds
<1>2. outs = {e \in E : e.from = i}
  <2>1. \A e \in E : Out(e).at = e.from /\ FromOut(Out(e)) = e
    BY <1>1, RecordOfEdge DEF Out
  <2> QED
    BY <1>1, <2>1 DEF Outs
<1>3. Others(E, outs) = M
  BY <1>1, <1>2 DEF Others, Alike
<1>4. /\ Holds(Dropped(g, outs), M)
      /\ Dropped(g, outs).outKeys = g.outKeys /\ Dropped(g, outs).inKeys = g.inKeys
  <2>1. outs \in SUBSET Edge
    BY <1>1, <1>2
  <2> HIDE DEF outs
  <2> QED
    BY <1>3, <2>1, DroppedHolds
<1>5. /\ mid.outgoing = Outs(M) /\ mid.incoming = Ins(M)
      /\ mid.outKeys = g.outKeys \ {i} /\ mid.inKeys = g.inKeys
      /\ mid.count = Cardinality(M)
      /\ mid = [outgoing |-> mid.outgoing, incoming |-> mid.incoming, outKeys |-> mid.outKeys,
                inKeys |-> mid.inKeys, count |-> mid.count]
  <2> DEFINE d == Dropped(g, outs)
  <2>1. /\ d \in Graph /\ d.outgoing = Outs(M) /\ d.incoming = Ins(M) /\ d.count = Cardinality(M)
        /\ d.outKeys = g.outKeys /\ d.inKeys = g.inKeys
    BY <1>4 DEF Holds
  <2>2. mid = [d EXCEPT !.outKeys = d.outKeys \ {i}]
    OBVIOUS
  <2> HIDE DEF d, mid, M
  <2> QED
    BY <2>1, <2>2 DEF Graph
<1>6. M \in SUBSET Edge /\ IsFiniteSet(M) /\ Distinct(M) /\ Cardinality(M) \in Nat
  BY <1>1, OthersPart
<1>7. F \in SUBSET Edge /\ IsFiniteSet(F) /\ Distinct(F) /\ Cardinality(F) \in Nat
  BY <1>1, OthersPart
<1> HIDE DEF outs, mid
<1>8. ins = {e \in M : e.to = i}
  <2>1. \A e \in M : In(e).at = e.to /\ FromIn(In(e)) = e
    BY <1>6, RecordOfEdge DEF In
  <2> HIDE DEF M
  <2> QED
    BY <1>5, <2>1 DEF Ins
<1>9. Others(M, ins) = F
  BY <1>6, <1>8 DEF Others, Alike
<1>10. ins \in SUBSET Edge
  BY <1>6, <1>8
<1>11. Without(mid.outgoing, Outs(ins)) = Outs(F)
  BY <1>5, <1>6, <1>9, <1>10, WithoutEdges
<1>12. mid.incoming \ Ins(ins) = Ins(F)
  <2>1. \A e, x \in M : In(e) = In(x) => e = x
    BY <1>6, RecordOfEdge
  <2>2. F = M \ ins
    BY <1>8
  <2>3. ins \subseteq M
    BY <1>8
  <2> HIDE DEF M, F, ins
  <2> QED
    BY <1>5, <2>1, <2>2, <2>3 DEF Ins
<1>13. Less(mid.count, Cardinality(ins)) = Cardinality(F)
  <2>1. M \ ins = F /\ M \cap ins = ins /\ ins \in SUBSET M
    BY <1>8
  <2>2. Cardinality(F) = Cardinality(M) - Cardinality(ins)
    BY <1>6, <2>1, FS_Difference
  <2>3. Cardinality(ins) \in Nat /\ Cardinality(ins) <= Cardinality(M)
    BY <1>6, <2>1, FS_Subset, FS_CardinalityType
  <2> QED
    BY <1>5, <1>6, <2>2, <2>3 DEF Less
<1>14. h = [mid EXCEPT !.incoming = Ins(F), !.outgoing = Outs(F), !.inKeys = mid.inKeys \ {i},
                       !.count = Cardinality(F)]
  BY <1>11, <1>12, <1>13 DEF Detached, mid, outs
<1> HIDE DEF h, F
<1>15. /\ h.outgoing = Outs(F) /\ h.incoming = Ins(F) /\ h.count = Cardinality(F)
       /\ h.outKeys = g.outKeys \ {i} /\ h.inKeys = g.inKeys \ {i}
       /\ h = [outgoing |-> h.outgoing, incoming |-> h.incoming, outKeys |-> h.outKeys,
               inKeys |-> h.inKeys, count |-> h.count]
  BY <1>5, <1>14
<1>16. h \in Graph
  BY <1>1, <1>7, <1>15, RecordsOfEdges DEF Graph
<1>17. \A e \in F : e.from \in h.outKeys /\ e.to \in h.inKeys
  BY <1>15 DEF Holds, F
<1> QED
  BY <1>7, <1>15, <1>16, <1>17 DEF Holds, h, F

\* gc_orphaned leaves the edges between live records.
LEMMA CollectedHolds ==
  ASSUME NEW g, NEW E, Holds(g, E), NEW live
  PROVE  Holds(Collected(g, live), {e \in E : {e.from, e.to} \subseteq live})
<1>1. AllEdges(g) = E /\ E \in SUBSET Edge /\ Distinct(E)
  BY HeldEdges DEF Holds
<1> DEFINE orphans == {e \in E : ~({e.from, e.to} \subseteq live)}
<1>2. Others(E, orphans) = {e \in E : {e.from, e.to} \subseteq live}
  BY DEF Others, Alike
<1>3. Holds(Dropped(g, orphans), Others(E, orphans))
  BY <1>1, DroppedHolds
<1> QED
  BY <1>1, <1>2, <1>3 DEF Collected

\* What a cascade delete of i logs: the edges that have i for an end.
LEMMA InvolvedEdges ==
  ASSUME NEW g, NEW E, Holds(g, E), NEW i
  PROVE  EdgesInvolving(g, i) = {e \in E : i \in {e.from, e.to}}
<1>1. E \in SUBSET Edge /\ g.outgoing = Outs(E) /\ g.incoming = Ins(E)
  BY DEF Holds
<1>2. {FromOut(r) : r \in {s \in g.outgoing : s.at = i}} = {e \in E : e.from = i}
  <2>1. \A e \in E : Out(e).at = e.from /\ FromOut(Out(e)) = e
    BY <1>1, RecordOfEdge DEF Out
  <2> QED
    BY <1>1, <2>1 DEF Outs
<1>3. {FromIn(r) : r \in {s \in g.incoming : s.at = i /\ s.peer # i}}
        = {e \in E : e.to = i /\ e.from # i}
  <2>1. \A e \in E : In(e).at = e.to /\ In(e).peer = e.from /\ FromIn(In(e)) = e
    BY <1>1, RecordOfEdge DEF In
  <2> QED
    BY <1>1, <2>1 DEF Ins
<1> QED
  BY <1>2, <1>3 DEF EdgesInvolving

-----------------------------------------------------------------------------
(* What a replay of the log makes of the edges of a manifest.              *)

Entry == EdgeEntry \cup RecordEntry

SoundEdges == {E \in SUBSET Edge : IsFiniteSet(E) /\ Distinct(E)}

\* A delta whose inserts are a graph.
SoundDelta ==
  {d \in [upserts : Graph, deletes : SUBSET Edge, any : BOOLEAN,
          live : SUBSET Id, dead : BOOLEAN, dirty : BOOLEAN] : Holds(d.upserts, AllEdges(d.upserts))}

Disk == [log : Seq(Entry), edges : SoundEdges, enabled : BOOLEAN, live : SUBSET Id,
         dead : BOOLEAN, vecs : BOOLEAN]

\* The edges E of a manifest, once delta is merged into them.
Merged(E, delta) ==
  Others(Others(E, delta.deletes), AllEdges(delta.upserts)) \cup AllEdges(delta.upserts)

LEMMA MergedHolds ==
  ASSUME NEW E \in SoundEdges, NEW delta \in SoundDelta
  PROVE  Holds(MergedEdges(E, delta), Merged(E, delta))
<1> DEFINE U == AllEdges(delta.upserts)
<1>1. E \in SUBSET Edge /\ IsFiniteSet(E) /\ Distinct(E)
  BY DEF SoundEdges
<1>2. U \in SUBSET Edge /\ IsFiniteSet(U) /\ Distinct(U)
  BY DEF SoundDelta, Holds
<1>3. Holds(FromBytes(E), E)
  <2>1. Holds(Added(NoEdges, E), Others({}, E) \cup E)
    BY <1>1, NothingHeld, AddedHolds
  <2>2. Others({}, E) \cup E = E
    BY DEF Others
  <2> QED
    BY <2>1, <2>2 DEF FromBytes
<1>4. delta.deletes \in SUBSET Edge
  BY DEF SoundDelta
<1>5. Holds(Dropped(FromBytes(E), delta.deletes), Others(E, delta.deletes))
  BY <1>3, <1>4, DroppedHolds
<1> QED
  BY <1>2, <1>5, AddedHolds DEF MergedEdges, Merged

\* One entry of the log: an edge is put in its place, or is gone; a record leaves the
\* edges alone.
LEMMA ReplayedMerges ==
  ASSUME NEW delta \in SoundDelta, NEW e \in Entry, NEW E \in SoundEdges
  PROVE  /\ Replayed(delta, e) \in SoundDelta
         /\ e.op = "edge" => /\ Merged(E, Replayed(delta, e))
                                  = Others(Merged(E, delta), {e.edge}) \cup {e.edge}
                             /\ Replayed(delta, e).live = delta.live
         /\ e.op = "unedge" => /\ Merged(E, Replayed(delta, e)) = Others(Merged(E, delta), {e.edge})
                               /\ Replayed(delta, e).live = delta.live
         /\ e.op = "record" => /\ Merged(E, Replayed(delta, e)) = Merged(E, delta)
                               /\ Replayed(delta, e).live = delta.live \cup {e.id}
         /\ e.op = "unrecord" => /\ Merged(E, Replayed(delta, e)) = Merged(E, delta)
                                 /\ Replayed(delta, e).live = delta.live \ {e.id}
<1> DEFINE after == Replayed(delta, e)
           U == AllEdges(delta.upserts)
<1>1. /\ delta \in [upserts : Graph, deletes : SUBSET Edge, any : BOOLEAN,
                     live : SUBSET Id, dead : BOOLEAN, dirty : BOOLEAN]
      /\ Holds(delta.upserts, U)
      /\ U \in SUBSET Edge
  BY DEF SoundDelta, Holds
<1>2. CASE e.op = "edge"
  <2>1. e.edge \in Edge
    BY <1>2 DEF Entry, EdgeEntry, RecordEntry
  <2>2. after = [delta EXCEPT !.upserts = Added(delta.upserts, {e.edge}), !.any = TRUE]
    BY <1>2 DEF Replayed
  <2>3. /\ Holds(Added(delta.upserts, {e.edge}), Others(U, {e.edge}) \cup {e.edge})
        /\ Added(delta.upserts, {e.edge}) \in Graph
    <3>1. {e.edge} \in SUBSET Edge /\ IsFiniteSet({e.edge}) /\ Distinct({e.edge})
      BY <2>1, FS_Singleton DEF Distinct
    <3>2. Holds(Added(delta.upserts, {e.edge}), Others(U, {e.edge}) \cup {e.edge})
      BY <1>1, <3>1, AddedHolds
    <3> QED
      BY <3>2 DEF Holds
  <2> DEFINE g == Added(delta.upserts, {e.edge})
  <2>4. AllEdges(g) = Others(U, {e.edge}) \cup {e.edge}
    BY <2>3, HeldEdges
  <2> HIDE DEF g, after, U
  <2>5. /\ after.upserts = g /\ after.deletes = delta.deletes /\ after.live = delta.live
        /\ after \in [upserts : Graph, deletes : SUBSET Edge, any : BOOLEAN,
                      live : SUBSET Id, dead : BOOLEAN, dirty : BOOLEAN]
    BY <1>1, <2>2, <2>3 DEF g
  <2>6. after \in SoundDelta
    BY <2>3, <2>4, <2>5 DEF SoundDelta, g
  <2>7. Merged(E, after) = Others(Merged(E, delta), {e.edge}) \cup {e.edge}
    <3>1. Others(Others(E, delta.deletes), Others(U, {e.edge}) \cup {e.edge})
            = Others(Others(Others(E, delta.deletes), U), {e.edge})
      BY DEF Others, Alike
    <3>2. Others(Others(Others(E, delta.deletes), U) \cup U, {e.edge})
            = Others(Others(Others(E, delta.deletes), U), {e.edge}) \cup Others(U, {e.edge})
      BY DEF Others
    <3> QED
      BY <2>4, <2>5, <3>1, <3>2 DEF Merged, U
  <2> QED
    BY <1>2, <2>5, <2>6, <2>7 DEF after
<1>3. CASE e.op = "unedge"
  <2>1. e.edge \in Edge
    BY <1>3 DEF Entry, EdgeEntry, RecordEntry
  <2>2. after = [delta EXCEPT !.upserts = Dropped(delta.upserts, {e.edge}),
                              !.deletes = delta.deletes \cup {e.edge}]
    BY <1>3 DEF Replayed
  <2>3. /\ Holds(Dropped(delta.upserts, {e.edge}), Others(U, {e.edge}))
        /\ Dropped(delta.upserts, {e.edge}) \in Graph
    <3>1. Holds(Dropped(delta.upserts, {e.edge}), Others(U, {e.edge}))
      BY <1>1, <2>1, DroppedHolds
    <3> QED
      BY <3>1 DEF Holds
  <2> DEFINE g == Dropped(delta.upserts, {e.edge})
  <2>4. AllEdges(g) = Others(U, {e.edge})
    BY <2>3, HeldEdges
  <2> HIDE DEF g, after, U
  <2>5. /\ after.upserts = g /\ after.deletes = delta.deletes \cup {e.edge}
        /\ after.live = delta.live
        /\ after \in [upserts : Graph, deletes : SUBSET Edge, any : BOOLEAN,
                      live : SUBSET Id, dead : BOOLEAN, dirty : BOOLEAN]
    BY <1>1, <2>1, <2>2, <2>3 DEF g
  <2>6. after \in SoundDelta
    BY <2>3, <2>4, <2>5 DEF SoundDelta, g
  <2>7. Merged(E, after) = Others(Merged(E, delta), {e.edge})
    <3>1. Others(Others(E, delta.deletes \cup {e.edge}), Others(U, {e.edge}))
            = Others(Others(Others(E, delta.deletes), U), {e.edge})
      BY DEF Others, Alike
    <3>2. Others(Others(Others(E, delta.deletes), U) \cup U, {e.edge})
            = Others(Others(Others(E, delta.deletes), U), {e.edge}) \cup Others(U, {e.edge})
      BY DEF Others
    <3> QED
      BY <2>4, <2>5, <3>1, <3>2 DEF Merged, U
  <2> QED
    BY <1>3, <2>5, <2>6, <2>7 DEF after
<1>4. ASSUME e.op \in {"record", "unrecord"}
      PROVE  /\ after \in SoundDelta
             /\ Merged(E, after) = Merged(E, delta)
             /\ after.live = IF e.op = "record" THEN delta.live \cup {e.id} ELSE delta.live \ {e.id}
  <2>1. e.id \in Id
    BY <1>4 DEF Entry, EdgeEntry, RecordEntry
  <2>2. \/ /\ e.op = "record"
           /\ after = [delta EXCEPT !.live = delta.live \cup {e.id}, !.dirty = TRUE,
                                    !.dead = delta.dead \/ e.id \in delta.live]
        \/ /\ e.op = "unrecord" /\ e.id \in delta.live
           /\ after = [delta EXCEPT !.live = delta.live \ {e.id}, !.dirty = TRUE, !.dead = TRUE]
        \/ /\ e.op = "unrecord" /\ e.id \notin delta.live
           /\ after = delta
    BY <1>4 DEF Replayed
  <2>3. /\ after.upserts = delta.upserts /\ after.deletes = delta.deletes
        /\ after.live = IF e.op = "record" THEN delta.live \cup {e.id} ELSE delta.live \ {e.id}
    <3> HIDE DEF after
    <3> QED
      BY <1>1, <2>2
  <2>4. after \in [upserts : Graph, deletes : SUBSET Edge, any : BOOLEAN,
                   live : SUBSET Id, dead : BOOLEAN, dirty : BOOLEAN]
    <3>1. (delta.dead \/ e.id \in delta.live) \in BOOLEAN
      OBVIOUS
    <3>2. delta.live \cup {e.id} \in SUBSET Id /\ delta.live \ {e.id} \in SUBSET Id
      BY <1>1, <2>1
    <3> HIDE DEF after
    <3> QED
      BY <1>1, <2>2, <3>1, <3>2
  <2> HIDE DEF after
  <2> QED
    BY <1>1, <2>3, <2>4 DEF SoundDelta, Merged
<1>5. e.op \in {"edge", "unedge", "record", "unrecord"}
  BY DEF Entry, EdgeEntry, RecordEntry
<1> QED
  BY <1>2, <1>3, <1>4, <1>5

-----------------------------------------------------------------------------
(* The replay of a log, entry by entry.                                    *)

StartDelta(d) == [upserts |-> NoEdges, deletes |-> {}, any |-> FALSE,
                  live |-> d.live, dead |-> d.dead, dirty |-> FALSE]

LEMMA StartMerges ==
  ASSUME NEW d \in Disk
  PROVE  /\ StartDelta(d) \in SoundDelta
         /\ Merged(d.edges, StartDelta(d)) = d.edges
<1>1. Holds(NoEdges, {}) /\ AllEdges(NoEdges) = {} /\ NoEdges \in Graph
  <2>1. Holds(NoEdges, {})
    BY NothingHeld
  <2>2. AllEdges(NoEdges) = {}
    BY <2>1, HeldEdges
  <2> QED
    BY <2>1, <2>2 DEF Holds
<1>2. d.live \in SUBSET Id /\ d.dead \in BOOLEAN
  BY DEF Disk
<1>3. StartDelta(d) \in SoundDelta
  <2> HIDE DEF NoEdges, AllEdges
  <2> QED
    BY <1>1, <1>2 DEF StartDelta, SoundDelta
<1>4. Merged(d.edges, StartDelta(d)) = d.edges
  BY <1>1 DEF Merged, Others, StartDelta
<1> QED
  BY <1>3, <1>4

LEMMA ReplayRuns ==
  ASSUME NEW d \in Disk
  PROVE  \E f \in [0..Len(d.log) -> SoundDelta] :
           /\ f[0] = StartDelta(d)
           /\ \A n \in 1..Len(d.log) : f[n] = Replayed(f[n - 1], d.log[n])
           /\ Replay(d) = f[Len(d.log)]
<1> DEFINE N == Len(d.log)
           step == [x \in SoundDelta \X (1..N) |-> Replayed(x[1], d.log[x[2]])]
           Fits(h) == h = [n \in 0..N |-> IF n = 0 THEN StartDelta(d) ELSE Replayed(h[n - 1], d.log[n])]
           after == CHOOSE h : Fits(h)
<1>1. d.log \in Seq(Entry) /\ N \in Nat
  BY LenProperties DEF Disk
<1>2. \A n \in 1..N : d.log[n] \in Entry
  BY <1>1, ElementOfSeq
<1>3. PICK E \in SoundEdges : TRUE
  BY DEF Disk
<1>4. step \in [SoundDelta \X (1..N) -> SoundDelta]
  <2>1. \A x \in SoundDelta \X (1..N) : x[1] \in SoundDelta /\ x[2] \in 1..N
    OBVIOUS
  <2>2. \A x \in SoundDelta \X (1..N) : Replayed(x[1], d.log[x[2]]) \in SoundDelta
    BY <1>2, <1>3, <2>1, ReplayedMerges
  <2> QED
    BY <2>2
<1>5. PICK f \in [0..N -> SoundDelta] :
           f[0] = StartDelta(d) /\ \A n \in 1..N : f[n] = step[<<f[n - 1], n>>]
  <2>1. StartDelta(d) \in SoundDelta
    BY StartMerges
  <2> HIDE DEF N, step
  <2>2. Runs(SoundDelta, StartDelta(d), N, step) # {}
    BY <1>1, <1>4, <2>1, RecursionExists
  <2> QED
    BY <2>2 DEF Runs
<1>6. \A n \in 1..N : f[n] = Replayed(f[n - 1], d.log[n])
  <2> TAKE n \in 1..N
  <2>1. f[n - 1] \in SoundDelta
    BY <1>1
  <2> QED
    BY <1>5, <2>1
<1>7. Fits(f)
  <2>1. \A n \in 0..N : f[n] = IF n = 0 THEN StartDelta(d) ELSE Replayed(f[n - 1], d.log[n])
    BY <1>1, <1>5, <1>6
  <2> HIDE DEF N
  <2> QED
    BY <1>5, <2>1
<1>8. Fits(after)
  BY <1>7
<1>9. /\ after[0] = f[0]
      /\ \A n \in 1..N : after[n] = Replayed(after[n - 1], d.log[n])
  <2> HIDE DEF after, N
  <2>1. \A n \in 0..N : after[n] = IF n = 0 THEN StartDelta(d) ELSE Replayed(after[n - 1], d.log[n])
    BY <1>8
  <2> QED
    BY <1>1, <1>5, <2>1
<1>10. \A n \in 0..N : after[n] = f[n]
  <2> DEFINE Good == {n \in Nat : after[n] = f[n]}
  <2>1. 0 \in Good /\ \A n \in 1..N : n - 1 \in Good => n \in Good
    <3> HIDE DEF after, N
    <3> QED
      BY <1>1, <1>6, <1>9
  <2>2. \A n \in 0..N : n \in Good
    <3> HIDE DEF after, N, Good
    <3> QED
      BY <1>1, <2>1, IntervalInduction
  <2> QED
    BY <2>2
<1>11. Replay(d) = after[N]
  BY DEF Replay, StartDelta
<1>12. N \in 0..N
  BY <1>1
<1> HIDE DEF after, N
<1> QED
  BY <1>5, <1>6, <1>10, <1>11, <1>12 DEF N

\* The replay of a longer log goes on from that of the log.
LEMMA ReplayContinues ==
  ASSUME NEW d \in Disk, NEW s \in Seq(Entry), NEW longer \in Disk,
         longer.log = d.log \o s, longer.live = d.live, longer.dead = d.dead
  PROVE  \E f \in [0..Len(s) -> SoundDelta] :
           /\ f[0] = Replay(d)
           /\ \A n \in 1..Len(s) : f[n] = Replayed(f[n - 1], s[n])
           /\ Replay(longer) = f[Len(s)]
<1> DEFINE N == Len(d.log)
           K == Len(s)
<1>1. /\ d.log \in Seq(Entry) /\ N \in Nat /\ K \in Nat
      /\ Len(longer.log) = N + K
      /\ \A n \in 1..N : longer.log[n] = d.log[n]
      /\ \A n \in 1..K : longer.log[N + n] = s[n]
  <2>1. d.log \in Seq(Entry)
    BY DEF Disk
  <2>2. /\ Len(d.log \o s) = Len(d.log) + Len(s)
        /\ \A i \in 1..Len(d.log) + Len(s) :
             (d.log \o s)[i] = IF i <= Len(d.log) THEN d.log[i] ELSE s[i - Len(d.log)]
    BY <2>1, ConcatProperties
  <2>3. Len(d.log) \in Nat /\ Len(s) \in Nat
    BY <2>1, LenProperties
  <2> QED
    BY <2>1, <2>2, <2>3
<1>2. PICK f \in [0..N -> SoundDelta] :
           /\ f[0] = StartDelta(d)
           /\ \A n \in 1..N : f[n] = Replayed(f[n - 1], d.log[n])
           /\ Replay(d) = f[N]
  BY ReplayRuns
<1>3. PICK g \in [0..N + K -> SoundDelta] :
           /\ g[0] = StartDelta(longer)
           /\ \A n \in 1..N + K : g[n] = Replayed(g[n - 1], longer.log[n])
           /\ Replay(longer) = g[N + K]
  BY <1>1, ReplayRuns
<1> HIDE DEF N, K
<1>4. g[0] = f[0]
  BY <1>2, <1>3 DEF StartDelta
<1>5. \A n \in 1..N : g[n - 1] = f[n - 1] => g[n] = f[n]
  <2> SUFFICES ASSUME NEW n \in 1..N, g[n - 1] = f[n - 1] PROVE g[n] = f[n]
    OBVIOUS
  <2>1. n \in 1..N + K
    BY <1>1
  <2>2. g[n] = Replayed(g[n - 1], longer.log[n]) /\ longer.log[n] = d.log[n]
    BY <1>1, <1>3, <2>1
  <2> QED
    BY <1>2, <2>2
<1>6. g[N] = f[N]
  <2> DEFINE Good == {n \in Nat : g[n] = f[n]}
  <2>1. 0 \in Good /\ \A n \in 1..N : n - 1 \in Good => n \in Good
    BY <1>4, <1>5
  <2>2. \A n \in 0..N : n \in Good
    <3> HIDE DEF Good
    <3> QED
      BY <1>1, <2>1, IntervalInduction
  <2> QED
    BY <1>1, <2>2
<1> DEFINE h == [n \in 0..K |-> g[N + n]]
<1>7. h \in [0..K -> SoundDelta]
  BY <1>1
<1>8. h[0] = Replay(d) /\ h[K] = Replay(longer)
  BY <1>1, <1>2, <1>3, <1>6
<1>9. \A n \in 1..K : h[n] = Replayed(h[n - 1], s[n])
  <2> TAKE n \in 1..K
  <2>1. N + n \in 1..N + K /\ (N + n) - 1 = N + (n - 1) /\ n - 1 \in 0..K /\ n \in 0..K
    BY <1>1
  <2>2. g[N + n] = Replayed(g[N + (n - 1)], longer.log[N + n])
    <3> DEFINE m == N + n
    <3>1. g[m] = Replayed(g[m - 1], longer.log[m]) /\ m - 1 = N + (n - 1)
      BY <1>3, <2>1
    <3> QED
      BY <3>1
  <2>3. longer.log[N + n] = s[n]
    BY <1>1
  <2>4. h[n] = g[N + n] /\ h[n - 1] = g[N + (n - 1)]
    BY <2>1
  <2> QED
    BY <2>1, <2>2, <2>3, <2>4
<1> QED
  BY <1>7, <1>8, <1>9 DEF K

\* What a restart finds in the files d.
LEMMA SavedHolds ==
  ASSUME NEW d \in Disk
  PROVE  /\ Replay(d) \in SoundDelta
         /\ SavedEdges(d) = Merged(d.edges, Replay(d))
         /\ Holds(Recovered(d).graph, SavedEdges(d))
         /\ Recovered(d).live = Replay(d).live
         /\ SavedEdges(d) \in SoundEdges
<1>1. Replay(d) \in SoundDelta
  <2>1. PICK f \in [0..Len(d.log) -> SoundDelta] : Replay(d) = f[Len(d.log)]
    BY ReplayRuns
  <2>2. Len(d.log) \in 0..Len(d.log)
    BY LenProperties DEF Disk
  <2> QED
    BY <2>1, <2>2
<1>2. d.edges \in SoundEdges
  BY DEF Disk
<1>3. Holds(MergedEdges(d.edges, Replay(d)), Merged(d.edges, Replay(d)))
  BY <1>1, <1>2, MergedHolds
<1>4. SavedEdges(d) = Merged(d.edges, Replay(d))
  <2>1. \A delta : UNION {AllEdges(MergedEdges(d.edges, x)) : x \in {delta}}
                      = AllEdges(MergedEdges(d.edges, delta))
    OBVIOUS
  <2> QED
    BY <1>3, <2>1, HeldEdges DEF SavedEdges
<1>5. /\ Recovered(d).graph = MergedEdges(d.edges, Replay(d))
      /\ Recovered(d).live = Replay(d).live
  BY DEF Recovered
<1>6. SavedEdges(d) \in SoundEdges
  BY <1>3, <1>4 DEF Holds, SoundEdges
<1> QED
  BY <1>1, <1>3, <1>4, <1>5, <1>6

\* Files without a log have the edges and the records of their snapshots.
LEMMA NothingLogged ==
  ASSUME NEW d \in Disk, d.log = << >>
  PROVE  SavedEdges(d) = d.edges /\ Replay(d).live = d.live
<1>1. PICK f \in [0..Len(d.log) -> SoundDelta] : f[0] = StartDelta(d) /\ Replay(d) = f[Len(d.log)]
  BY ReplayRuns
<1>2. Replay(d) = StartDelta(d)
  BY <1>1, EmptySeq
<1> QED
  BY <1>2, SavedHolds, StartMerges DEF StartDelta

LogTo(d, s) == [d EXCEPT !.log = @ \o s]

LEMMA LogToFields ==
  ASSUME NEW d \in Disk, NEW s \in Seq(Entry)
  PROVE  /\ LogTo(d, s) \in Disk
         /\ LogTo(d, s).log = d.log \o s
         /\ LogTo(d, s).edges = d.edges /\ LogTo(d, s).enabled = d.enabled
         /\ LogTo(d, s).live = d.live /\ LogTo(d, s).dead = d.dead /\ LogTo(d, s).vecs = d.vecs
         /\ \A t \in Seq(Entry) : LogTo(d, s \o t) = LogTo(LogTo(d, s), t)
<1>1. d.log \in Seq(Entry) /\ d.log \o s \in Seq(Entry)
  BY ConcatProperties DEF Disk
<1>2. /\ LogTo(d, s).log = d.log \o s
      /\ LogTo(d, s).edges = d.edges /\ LogTo(d, s).enabled = d.enabled
      /\ LogTo(d, s).live = d.live /\ LogTo(d, s).dead = d.dead /\ LogTo(d, s).vecs = d.vecs
      /\ LogTo(d, s) \in Disk
  BY <1>1 DEF LogTo, Disk
<1>3. ASSUME NEW t \in Seq(Entry) PROVE LogTo(d, s \o t) = LogTo(LogTo(d, s), t)
  <2>1. PICK l \in Seq(Entry) : l = d.log
    BY <1>1
  <2>2. l \o (s \o t) = (l \o s) \o t
    BY ConcatAssociative
  <2> QED
    BY <2>1, <2>2 DEF LogTo, Disk
<1> QED
  BY <1>2, <1>3

LEMMA Singles ==
  ASSUME NEW S, NEW a \in S, NEW b \in S
  PROVE  /\ <<a>> \in Seq(S) /\ <<b>> \in Seq(S) /\ <<a, b>> \in Seq(S)
         /\ <<a>> \o <<b>> = <<a, b>>
<1>1. <<a>> \in Seq(S) /\ <<b>> \in Seq(S) /\ <<a, b>> \in Seq(S)
  OBVIOUS
<1>2. /\ <<a>> \o <<b>> \in Seq(S) /\ Len(<<a>> \o <<b>>) = Len(<<a>>) + Len(<<b>>)
      /\ \A i \in 1..Len(<<a>>) + Len(<<b>>) :
           (<<a>> \o <<b>>)[i] = IF i <= Len(<<a>>) THEN <<a>>[i] ELSE <<b>>[i - Len(<<a>>)]
  BY <1>1, ConcatProperties
<1>3. PICK s \in Seq(S) : s = <<a>> \o <<b>>
  BY <1>2
<1>4. Len(s) = 2 /\ s[1] = a /\ s[2] = b
  BY <1>2, <1>3
<1>5. s = <<a, b>>
  <2>1. Len(<<a, b>>) = 2 /\ \A i \in 1..2 : s[i] = <<a, b>>[i]
    BY <1>4
  <2> QED
    BY <1>1, <1>4, <2>1, SeqEqual
<1> QED
  BY <1>1, <1>3, <1>5

\* One more entry.
LEMMA OneLogged ==
  ASSUME NEW d \in Disk, NEW e \in Entry
  PROVE  LET more == LogTo(d, <<e>>)
         IN  /\ more \in Disk
             /\ e.op = "edge" => /\ SavedEdges(more) = Others(SavedEdges(d), {e.edge}) \cup {e.edge}
                                 /\ Replay(more).live = Replay(d).live
             /\ e.op = "unedge" => /\ SavedEdges(more) = Others(SavedEdges(d), {e.edge})
                                   /\ Replay(more).live = Replay(d).live
             /\ e.op = "record" => /\ SavedEdges(more) = SavedEdges(d)
                                   /\ Replay(more).live = Replay(d).live \cup {e.id}
             /\ e.op = "unrecord" => /\ SavedEdges(more) = SavedEdges(d)
                                     /\ Replay(more).live = Replay(d).live \ {e.id}
<1> DEFINE more == LogTo(d, <<e>>)
<1>1. <<e>> \in Seq(Entry) /\ Len(<<e>>) = 1 /\ <<e>>[1] = e
  OBVIOUS
<1>2. /\ more \in Disk /\ more.log = d.log \o <<e>> /\ more.edges = d.edges
      /\ more.live = d.live /\ more.dead = d.dead
  BY <1>1, LogToFields
<1> HIDE DEF more
<1>3. Replay(more) = Replayed(Replay(d), e)
  <2>1. PICK f \in [0..Len(<<e>>) -> SoundDelta] :
           /\ f[0] = Replay(d)
           /\ \A n \in 1..Len(<<e>>) : f[n] = Replayed(f[n - 1], <<e>>[n])
           /\ Replay(more) = f[Len(<<e>>)]
    BY <1>1, <1>2, ReplayContinues
  <2>2. f[1] = Replayed(f[1 - 1], <<e>>[1]) /\ 1 - 1 = 0
    BY <1>1, <2>1
  <2> QED
    BY <1>1, <2>1, <2>2
<1>4. /\ Replay(d) \in SoundDelta /\ d.edges \in SoundEdges
      /\ SavedEdges(d) = Merged(d.edges, Replay(d))
      /\ SavedEdges(more) = Merged(d.edges, Replay(more))
  BY <1>2, SavedHolds DEF Disk
<1>5. PICK delta \in SoundDelta, E \in SoundEdges : delta = Replay(d) /\ E = d.edges
  BY <1>4
<1>6. /\ SavedEdges(d) = Merged(E, delta) /\ SavedEdges(more) = Merged(E, Replayed(delta, e))
      /\ Replay(more).live = Replayed(delta, e).live /\ Replay(d).live = delta.live
  BY <1>3, <1>4, <1>5
<1>7. CASE e.op = "edge"
  <2>1. /\ Merged(E, Replayed(delta, e)) = Others(Merged(E, delta), {e.edge}) \cup {e.edge}
        /\ Replayed(delta, e).live = delta.live
    BY <1>7, ReplayedMerges
  <2> QED
    BY <1>2, <1>6, <1>7, <2>1 DEF more
<1>8. CASE e.op = "unedge"
  <2>1. /\ Merged(E, Replayed(delta, e)) = Others(Merged(E, delta), {e.edge})
        /\ Replayed(delta, e).live = delta.live
    BY <1>8, ReplayedMerges
  <2> QED
    BY <1>2, <1>6, <1>8, <2>1 DEF more
<1>9. CASE e.op = "record"
  BY <1>2, <1>6, <1>9, ReplayedMerges DEF more
<1>10. CASE e.op = "unrecord"
  BY <1>2, <1>6, <1>10, ReplayedMerges DEF more
<1>11. e.op \in {"edge", "unedge", "record", "unrecord"}
  BY DEF Entry, EdgeEntry, RecordEntry
<1> QED
  BY <1>7, <1>8, <1>9, <1>10, <1>11

\* A sequence of deletes of edges: those edges are gone, and the records are not touched.
LEMMA DeletesLogged ==
  ASSUME NEW d \in Disk, NEW s \in Seq(Entry), \A n \in 1..Len(s) : s[n].op = "unedge"
  PROVE  LET more == LogTo(d, s)
         IN  /\ more \in Disk
             /\ SavedEdges(more) = Others(SavedEdges(d), {s[n].edge : n \in 1..Len(s)})
             /\ Replay(more).live = Replay(d).live
<1> DEFINE more == LogTo(d, s)
           K == Len(s)
           Gone(n) == {s[m].edge : m \in 1..n}
<1>1. K \in Nat /\ \A n \in 1..K : s[n] \in Entry /\ s[n].op = "unedge"
  BY LenProperties, ElementOfSeq
<1>2. /\ more \in Disk /\ more.log = d.log \o s /\ more.edges = d.edges
      /\ more.live = d.live /\ more.dead = d.dead
  BY LogToFields
<1> HIDE DEF more
<1>3. PICK f \in [0..K -> SoundDelta] :
           /\ f[0] = Replay(d)
           /\ \A n \in 1..K : f[n] = Replayed(f[n - 1], s[n])
           /\ Replay(more) = f[K]
  BY <1>2, ReplayContinues
<1> DEFINE E == d.edges
           Good == {n \in 0..K : /\ Merged(E, f[n]) = Others(SavedEdges(d), Gone(n))
                                 /\ f[n].live = Replay(d).live}
<1>4. /\ SavedEdges(d) = Merged(E, Replay(d)) /\ SavedEdges(more) = Merged(E, Replay(more))
      /\ E \in SoundEdges
  BY <1>2, SavedHolds DEF Disk
<1>5. 0 \in Good
  <2>1. Gone(0) = {}
    OBVIOUS
  <2>2. Others(SavedEdges(d), {}) = SavedEdges(d)
    BY DEF Others
  <2>3. Merged(E, f[0]) = Others(SavedEdges(d), Gone(0)) /\ f[0].live = Replay(d).live
    BY <1>3, <1>4, <2>1, <2>2
  <2> HIDE DEF Gone
  <2> QED
    BY <1>1, <2>3
<1>6. ASSUME NEW n \in 1..K, n - 1 \in Good PROVE n \in Good
  <2>1. f[n - 1] \in SoundDelta /\ f[n] = Replayed(f[n - 1], s[n]) /\ n \in 0..K
    BY <1>1, <1>3
  <2>2. /\ Merged(E, f[n]) = Others(Merged(E, f[n - 1]), {s[n].edge})
        /\ f[n].live = f[n - 1].live
    <3>1. PICK delta \in SoundDelta, e \in Entry : delta = f[n - 1] /\ e = s[n] /\ e.op = "unedge"
      BY <1>1, <2>1
    <3>2. /\ Merged(E, Replayed(delta, e)) = Others(Merged(E, delta), {e.edge})
          /\ Replayed(delta, e).live = delta.live
      BY <1>4, <3>1, ReplayedMerges
    <3> QED
      BY <2>1, <3>1, <3>2
  <2>3. Others(Others(SavedEdges(d), Gone(n - 1)), {s[n].edge}) = Others(SavedEdges(d), Gone(n))
    <3>1. Gone(n) = Gone(n - 1) \cup {s[n].edge}
      BY <1>1
    <3> HIDE DEF Gone
    <3> QED
      BY <3>1 DEF Others
  <2> QED
    BY <1>6, <2>1, <2>2, <2>3
<1>7. K \in Good
  <2> HIDE DEF K, Good
  <2>1. \A n \in 0..K : n \in Good
    BY <1>1, <1>5, <1>6, IntervalInduction
  <2> QED
    BY <1>1, <2>1
<1> QED
  BY <1>2, <1>3, <1>4, <1>7 DEF more

\* What a cascade logs: a delete of each of the edges S, in any order.
LEMMA CascadeEntries ==
  ASSUME NEW S \in SUBSET Edge, IsFiniteSet(S),
         NEW s \in SetToSeqs({EdgeDeleted(e) : e \in S})
  PROVE  /\ s \in Seq(Entry)
         /\ \A n \in 1..Len(s) : s[n].op = "unedge" /\ s[n].edge \in S
         /\ {s[n].edge : n \in 1..Len(s)} = S
<1> DEFINE T == {EdgeDeleted(e) : e \in S}
           K == Cardinality(T)
<1>1. \A e \in S : /\ EdgeDeleted(e) \in Entry
                   /\ EdgeDeleted(e).op = "unedge" /\ EdgeDeleted(e).edge = e
  BY DEF EdgeDeleted, Entry, EdgeEntry
<1>2. IsFiniteSet(T) /\ K \in Nat
  <2> DEFINE f == [e \in S |-> EdgeDeleted(e)]
  <2>1. f \in Surjection(S, T)
    BY DEF Surjection
  <2>2. IsFiniteSet(T)
    BY <2>1, FS_Surjection
  <2> QED
    BY <2>2, FS_CardinalityType
<1>3. s \in [1..K -> T] /\ \A i, j \in 1..K : i # j => s[i] # s[j]
  BY DEF SetToSeqs
<1>4. \A x \in T : x \in Entry /\ x.op = "unedge" /\ x.edge \in S
  BY <1>1
<1> HIDE DEF K
<1>5. s \in Seq(Entry) /\ Len(s) = K
  <2>1. s \in [1..K -> Entry]
    <3> HIDE DEF T
    <3> QED
      BY <1>3, <1>4
  <2>2. s \in Seq(Entry)
    BY <1>2, <2>1, SeqDef
  <2>3. DOMAIN s = 1..K /\ DOMAIN s = 1..Len(s) /\ Len(s) \in Nat
    BY <2>1, <2>2, LenProperties
  <2> QED
    BY <1>2, <2>2, <2>3
<1>6. {s[n] : n \in 1..K} = T
  <2> DEFINE R == {s[n] : n \in 1..K}
  <2>1. s \in Bijection(1..K, R)
    BY <1>3 DEF Bijection, Injection, IsInjective, Surjection
  <2>2. IsFiniteSet(R) /\ Cardinality(R) = Cardinality(1..K)
    <3>1. IsFiniteSet(1..K)
      BY <1>2, FS_Interval
    <3> HIDE DEF R
    <3> QED
      BY <2>1, <3>1, FS_Bijection DEF ExistsBijection
  <2>3. Cardinality(1..K) = K
    BY <1>2, FS_Interval
  <2>4. R \in SUBSET T
    BY <1>3
  <2> HIDE DEF R, T
  <2>5. R = T
    BY <1>2, <2>2, <2>3, <2>4, FS_Subset DEF K
  <2> QED
    BY <2>5 DEF R
<1>7. \A n \in 1..K : s[n].op = "unedge" /\ s[n].edge \in S
  BY <1>3, <1>4
<1>8. ASSUME NEW e \in S PROVE \E n \in 1..K : s[n].edge = e
  <2>1. EdgeDeleted(e) \in T /\ EdgeDeleted(e).edge = e
    BY <1>1
  <2> HIDE DEF T
  <2>2. PICK n \in 1..K : s[n] = EdgeDeleted(e)
    BY <1>6, <2>1
  <2> QED
    BY <2>1, <2>2
<1> HIDE DEF T
<1> QED
  BY <1>5, <1>7, <1>8

\* A prefix of it deletes some of the edges.
LEMMA CascadeStarted ==
  ASSUME NEW S \in SUBSET Edge, NEW s \in Seq(Entry), NEW n \in 0..Len(s),
         \A m \in 1..Len(s) : s[m].op = "unedge" /\ s[m].edge \in S
  PROVE  /\ SubSeq(s, 1, n) \in Seq(Entry)
         /\ \A m \in 1..Len(SubSeq(s, 1, n)) :
              SubSeq(s, 1, n)[m].op = "unedge" /\ SubSeq(s, 1, n)[m].edge \in S
<1>1. Len(s) \in Nat /\ \A m \in 1..Len(s) : s[m] \in Entry
  BY LenProperties, ElementOfSeq
<1>2. /\ SubSeq(s, 1, n) \in Seq(Entry)
      /\ Len(SubSeq(s, 1, n)) = IF 1 <= n THEN n - 1 + 1 ELSE 0
      /\ \A i \in 1..n - 1 + 1 : SubSeq(s, 1, n)[i] = s[1 + i - 1]
  <2>1. 1 \in Int /\ n \in Int /\ \A i \in 1..n : s[i] \in Entry
    BY <1>1
  <2> QED
    BY <2>1, SubSeqProperties
<1> QED
  BY <1>1, <1>2

-----------------------------------------------------------------------------
(* The invariant, for a memory m and files d.                              *)

Memory == [graph : Graph, enabled : BOOLEAN, live : SUBSET Id,
           dead : BOOLEAN, dirty : BOOLEAN, vecs : BOOLEAN]

\* The graph in memory holds its edges; a restart would find those, among others, and
\* the records that the memory has.
Fit(m, d) ==
  /\ m \in Memory
  /\ d \in Disk
  /\ Holds(m.graph, AllEdges(m.graph))
  /\ AllEdges(m.graph) \subseteq SavedEdges(d)
  /\ Replay(d).live = m.live

Bounded == budget \in [calls : 0..MaxCalls, adds : 0..MaxAdds, restarts : 0..MaxRestarts]

IInv == Fit(mem, disk) /\ Bounded

LEMMA FitEdges ==
  ASSUME NEW m, NEW d, Fit(m, d)
  PROVE  AllEdges(m.graph) \in SoundEdges /\ SavedEdges(d) \in SoundEdges
<1>1. d \in Disk
  BY DEF Fit
<1>2. SavedEdges(d) \in SoundEdges
  BY <1>1, SavedHolds
<1> QED
  BY <1>2 DEF Fit, Holds, SoundEdges

\* A full checkpoint saves the edges of the graph, and those only.
LEMMA FullFits ==
  ASSUME NEW m, NEW d, Fit(m, d)
  PROVE  LET end == FullCheckpoint(m, d)
         IN  /\ Fit(end.mem, end.disk)
             /\ end.mem.graph = m.graph /\ end.mem.live = m.live
             /\ SavedEdges(end.disk) = AllEdges(m.graph)
<1> DEFINE after == FullCheckpoint(m, d).mem
           files == FullCheckpoint(m, d).disk
<1>1. /\ m \in Memory /\ AllEdges(m.graph) \in SoundEdges
      /\ HasSlots(m) \in BOOLEAN
  BY FitEdges DEF Fit, HasSlots
<1>2. /\ after \in Memory /\ after.graph = m.graph /\ after.live = m.live
  BY <1>1 DEF FullCheckpoint, Memory
<1>3. << >> \in Seq(Entry)
  BY EmptySeq
<1>4. /\ files \in Disk /\ files.log = << >> /\ files.edges = AllEdges(m.graph)
      /\ files.live = m.live
  BY <1>1, <1>3 DEF FullCheckpoint, Memory, Disk
<1> HIDE DEF after, files
<1>5. SavedEdges(files) = AllEdges(m.graph) /\ Replay(files).live = m.live
  BY <1>4, NothingLogged
<1>6. Fit(after, files)
  BY <1>2, <1>4, <1>5 DEF Fit
<1> QED
  BY <1>2, <1>5, <1>6 DEF after, files

\* A fast checkpoint is made when there is no edge.
LEMMA FastFits ==
  ASSUME NEW m, NEW d, Fit(m, d), ~RequiresFull(m)
  PROVE  LET end == FastCheckpoint(m, d)
         IN  /\ Fit(end.mem, end.disk)
             /\ end.mem.graph = m.graph /\ end.mem.live = m.live
             /\ AllEdges(m.graph) = {}
             /\ SavedEdges(end.disk) = d.edges
<1> DEFINE after == FastCheckpoint(m, d).mem
           files == FastCheckpoint(m, d).disk
<1>1. m \in Memory /\ d \in Disk
  BY DEF Fit
<1>2. AllEdges(m.graph) = {}
  <2>1. /\ m.graph.count = Cardinality(AllEdges(m.graph)) /\ IsFiniteSet(AllEdges(m.graph))
        /\ m.graph.count \in Nat
    BY DEF Fit, Holds, Graph
  <2>2. m.graph.count = 0
    BY <2>1 DEF RequiresFull
  <2> QED
    BY <2>1, <2>2, FS_EmptySet
<1>3. after \in Memory /\ after.graph = m.graph /\ after.live = m.live
  BY <1>1 DEF FastCheckpoint, Memory
<1>4. << >> \in Seq(Entry)
  BY EmptySeq
<1>5. files \in Disk /\ files.log = << >> /\ files.edges = d.edges /\ files.live = m.live
  BY <1>1, <1>4 DEF FastCheckpoint, Memory, Disk
<1> HIDE DEF after, files
<1>6. SavedEdges(files) = d.edges /\ Replay(files).live = m.live
  BY <1>5, NothingLogged
<1>7. Fit(after, files)
  BY <1>2, <1>3, <1>5, <1>6 DEF Fit
<1> QED
  BY <1>2, <1>3, <1>6, <1>7 DEF after, files

\* However a call returns, its edges are in memory, and they and what lingered are saved,
\* or they alone.
LEMMA ReturnFits ==
  ASSUME NEW m, NEW d, Fit(m, d), Return(m, d)
  PROVE  /\ Fit(mem', disk')
         /\ AllEdges(mem'.graph) = AllEdges(m.graph)
         /\ StaleManifest = FALSE => SavedEdges(disk') \in {SavedEdges(d), AllEdges(m.graph)}
<1> DEFINE full == Len(d.log) >= LogLimit
<1>1. CASE full /\ ~TakesFast(m)
  <2>1. mem' = FullCheckpoint(m, d).mem /\ disk' = FullCheckpoint(m, d).disk
    BY <1>1 DEF Return, CheckpointWal
  <2> QED
    BY <2>1, FullFits
<1>2. CASE full /\ TakesFast(m) /\ m.dirty
  <2>1. mem' = FastCheckpoint(m, d).mem /\ disk' = FastCheckpoint(m, d).disk
    BY <1>2 DEF Return, CheckpointWal
  <2>2. StaleManifest \/ d.edges = {}
    BY <1>2 DEF Return
  <2>3. ~RequiresFull(m)
    BY <1>2 DEF TakesFast
  <2> QED
    BY <2>1, <2>2, <2>3, FastFits
<1>3. CASE ~full \/ (TakesFast(m) /\ ~m.dirty)
  <2>1. mem' = m /\ disk' = d
    BY <1>3 DEF Return, CheckpointWal
  <2> QED
    BY <2>1
<1> QED
  BY <1>1, <1>2, <1>3

-----------------------------------------------------------------------------
(* What the calls make of a memory m and of the log of the files d.        *)

LEMMA Refitted ==
  ASSUME NEW m \in Memory, NEW d \in Disk, NEW E, Holds(m.graph, E),
         E \subseteq SavedEdges(d), Replay(d).live = m.live
  PROVE  Fit(m, d) /\ AllEdges(m.graph) = E
<1>1. AllEdges(m.graph) = E
  BY HeldEdges
<1> QED
  BY <1>1 DEF Fit

\* The edges E, and e in the place of an edge like it.
Placed(E, e) == Others(E, {e}) \cup {e}

WithEdge(m, e) == [m EXCEPT !.graph = Added(@, {e})]

LEMMA AddFits ==
  ASSUME NEW m, NEW d, Fit(m, d), NEW e \in Edge
  PROVE  /\ Fit(WithEdge(m, e), LogTo(d, <<EdgeAdded(e)>>))
         /\ AllEdges(WithEdge(m, e).graph) = Placed(AllEdges(m.graph), e)
         /\ SavedEdges(LogTo(d, <<EdgeAdded(e)>>)) = Placed(SavedEdges(d), e)
<1> DEFINE after == WithEdge(m, e)
           files == LogTo(d, <<EdgeAdded(e)>>)
           E == Others(AllEdges(m.graph), {e}) \cup {e}
<1>1. /\ m \in Memory /\ d \in Disk /\ Holds(m.graph, AllEdges(m.graph))
      /\ AllEdges(m.graph) \subseteq SavedEdges(d) /\ Replay(d).live = m.live
  BY DEF Fit
<1>2. Holds(Added(m.graph, {e}), E)
  <2>1. {e} \in SUBSET Edge /\ IsFiniteSet({e}) /\ Distinct({e})
    BY FS_Singleton DEF Distinct
  <2> QED
    BY <1>1, <2>1, AddedHolds
<1>3. /\ EdgeAdded(e) \in Entry /\ EdgeAdded(e).op = "edge" /\ EdgeAdded(e).edge = e
  BY DEF EdgeAdded, Entry, EdgeEntry
<1>4. /\ files \in Disk
      /\ SavedEdges(files) = Others(SavedEdges(d), {e}) \cup {e}
      /\ Replay(files).live = Replay(d).live
  BY <1>1, <1>3, OneLogged
<1>5. after \in Memory /\ after.live = m.live /\ after.graph = Added(m.graph, {e})
  <2>1. Added(m.graph, {e}) \in Graph
    BY <1>2 DEF Holds
  <2> QED
    BY <1>1, <2>1 DEF Memory, WithEdge
<1>6. E \subseteq SavedEdges(files)
  BY <1>1, <1>4 DEF Others
<1> HIDE DEF after, files, E
<1>7. Fit(after, files) /\ AllEdges(after.graph) = E
  BY <1>1, <1>2, <1>4, <1>5, <1>6, Refitted
<1> QED
  BY <1>4, <1>7 DEF after, files, E, Placed

WithoutEdge(m, e) == [m EXCEPT !.graph = Dropped(@, {e})]

LEMMA RemoveFits ==
  ASSUME NEW m, NEW d, Fit(m, d), NEW e \in AllEdges(m.graph)
  PROVE  /\ Fit(WithoutEdge(m, e), LogTo(d, <<EdgeDeleted(e)>>))
         /\ AllEdges(WithoutEdge(m, e).graph) = AllEdges(m.graph) \ {e}
         /\ SavedEdges(LogTo(d, <<EdgeDeleted(e)>>)) = SavedEdges(d) \ {e}
<1> DEFINE after == WithoutEdge(m, e)
           files == LogTo(d, <<EdgeDeleted(e)>>)
           E == AllEdges(m.graph) \ {e}
<1>1. /\ m \in Memory /\ d \in Disk /\ Holds(m.graph, AllEdges(m.graph))
      /\ AllEdges(m.graph) \subseteq SavedEdges(d) /\ Replay(d).live = m.live
  BY DEF Fit
<1>2. /\ Distinct(AllEdges(m.graph)) /\ Distinct(SavedEdges(d))
      /\ e \in Edge /\ e \in SavedEdges(d)
  BY <1>1, FitEdges DEF SoundEdges
<1>3. /\ Others(AllEdges(m.graph), {e}) = AllEdges(m.graph) \ {e}
      /\ Others(SavedEdges(d), {e}) = SavedEdges(d) \ {e}
  BY <1>2 DEF Others, Distinct, Alike
<1>4. Holds(Dropped(m.graph, {e}), E)
  <2>1. {e} \in SUBSET Edge
    BY <1>2
  <2>2. Holds(Dropped(m.graph, {e}), Others(AllEdges(m.graph), {e}))
    BY <1>1, <2>1, DroppedHolds
  <2> QED
    BY <1>3, <2>2
<1>5. /\ EdgeDeleted(e) \in Entry /\ EdgeDeleted(e).op = "unedge" /\ EdgeDeleted(e).edge = e
  BY <1>2 DEF EdgeDeleted, Entry, EdgeEntry
<1>6. /\ files \in Disk
      /\ SavedEdges(files) = SavedEdges(d) \ {e}
      /\ Replay(files).live = Replay(d).live
  BY <1>1, <1>3, <1>5, OneLogged
<1>7. after \in Memory /\ after.live = m.live /\ after.graph = Dropped(m.graph, {e})
  <2>1. Dropped(m.graph, {e}) \in Graph
    BY <1>4 DEF Holds
  <2> QED
    BY <1>1, <2>1 DEF Memory, WithoutEdge
<1>8. E \subseteq SavedEdges(files)
  BY <1>1, <1>6
<1> HIDE DEF after, files, E
<1>9. Fit(after, files) /\ AllEdges(after.graph) = E
  BY <1>1, <1>4, <1>6, <1>7, <1>8, Refitted
<1> QED
  BY <1>6, <1>9 DEF after, files, E

WithRecord(m, i) ==
  [m EXCEPT !.live = @ \cup {i}, !.dead = @ \/ i \in m.live, !.dirty = TRUE]

LEMMA SetFits ==
  ASSUME NEW m, NEW d, Fit(m, d), NEW i \in Id
  PROVE  LET files == LogTo(d, <<[op |-> "record", id |-> i]>>)
         IN  /\ Fit(WithRecord(m, i), files)
             /\ AllEdges(WithRecord(m, i).graph) = AllEdges(m.graph)
             /\ SavedEdges(files) = SavedEdges(d)
<1> DEFINE dead == m.dead \/ i \in m.live
           after == WithRecord(m, i)
           entry == [op |-> "record", id |-> i]
           files == LogTo(d, <<entry>>)
<1>1. /\ m \in Memory /\ d \in Disk /\ Holds(m.graph, AllEdges(m.graph))
      /\ AllEdges(m.graph) \subseteq SavedEdges(d) /\ Replay(d).live = m.live
  BY DEF Fit
<1>2. entry \in Entry /\ entry.op = "record" /\ entry.id = i
  BY DEF Entry, RecordEntry
<1> HIDE DEF entry
<1>3. /\ files \in Disk /\ SavedEdges(files) = SavedEdges(d)
      /\ Replay(files).live = Replay(d).live \cup {i}
  BY <1>1, <1>2, OneLogged
<1>4. dead \in BOOLEAN
  OBVIOUS
<1> HIDE DEF dead
<1>5. after \in Memory /\ after.live = m.live \cup {i} /\ after.graph = m.graph
  BY <1>1, <1>4 DEF Memory, WithRecord, dead
<1> HIDE DEF after, files
<1>6. Fit(after, files)
  BY <1>1, <1>3, <1>5, Refitted
<1> QED
  BY <1>3, <1>5, <1>6 DEF after, files, dead, entry

\* The edges that have no end among I.
Apart(E, I) == {e \in E : {e.from, e.to} \cap I = {}}

\* In memory, a record goes with its edges.
LEMMA RecordGone ==
  ASSUME NEW m \in Memory, NEW E, Holds(m.graph, E), NEW i \in Id
  PROVE  /\ WithoutRecord(m, i) \in Memory
         /\ Holds(WithoutRecord(m, i).graph, Apart(E, {i}))
         /\ WithoutRecord(m, i).live = m.live \ {i}
<1>1. Holds(Detached(m.graph, i), Apart(E, {i}))
  <2>1. {e \in E : i \notin {e.from, e.to}} = Apart(E, {i})
    BY DEF Apart
  <2> QED
    BY <2>1, DetachedHolds
<1>2. Detached(m.graph, i) \in Graph
  BY <1>1 DEF Holds
<1>3. /\ WithoutRecord(m, i) \in Memory
      /\ WithoutRecord(m, i).graph = Detached(m.graph, i)
      /\ WithoutRecord(m, i).live = m.live \ {i}
  BY <1>2 DEF WithoutRecord, Memory
<1> QED
  BY <1>1, <1>3

\* On disk, so do the edges whose deletes are logged.
LEMMA CascadeSaved ==
  ASSUME NEW d \in Disk, NEW S \in SUBSET SavedEdges(d),
         NEW s \in SetToSeqs({EdgeDeleted(e) : e \in S})
  PROVE  /\ s \in Seq(Entry)
         /\ LogTo(d, s) \in Disk
         /\ SavedEdges(LogTo(d, s)) = SavedEdges(d) \ S
         /\ Replay(LogTo(d, s)).live = Replay(d).live
<1>1. SavedEdges(d) \in SUBSET Edge /\ IsFiniteSet(SavedEdges(d)) /\ Distinct(SavedEdges(d))
  BY SavedHolds DEF SoundEdges
<1>2. S \in SUBSET Edge /\ IsFiniteSet(S)
  BY <1>1, FS_Subset
<1>3. /\ s \in Seq(Entry)
      /\ \A n \in 1..Len(s) : s[n].op = "unedge"
      /\ {s[n].edge : n \in 1..Len(s)} = S
  BY <1>2, CascadeEntries
<1>4. /\ LogTo(d, s) \in Disk
      /\ SavedEdges(LogTo(d, s)) = Others(SavedEdges(d), S)
      /\ Replay(LogTo(d, s)).live = Replay(d).live
  BY <1>3, DeletesLogged
<1>5. Others(SavedEdges(d), S) = SavedEdges(d) \ S
  BY <1>1 DEF Others, Distinct, Alike
<1> QED
  BY <1>3, <1>4, <1>5

\* Then the record.
LEMMA RecordUnlogged ==
  ASSUME NEW d \in Disk, NEW i \in Id
  PROVE  LET entry == [op |-> "unrecord", id |-> i]
         IN  /\ entry \in Entry
             /\ LogTo(d, <<entry>>) \in Disk
             /\ SavedEdges(LogTo(d, <<entry>>)) = SavedEdges(d)
             /\ Replay(LogTo(d, <<entry>>)).live = Replay(d).live \ {i}
<1> DEFINE entry == [op |-> "unrecord", id |-> i]
<1>1. entry \in Entry /\ entry.op = "unrecord" /\ entry.id = i
  BY DEF Entry, RecordEntry
<1> HIDE DEF entry
<1>2. /\ LogTo(d, <<entry>>) \in Disk
      /\ SavedEdges(LogTo(d, <<entry>>)) = SavedEdges(d)
      /\ Replay(LogTo(d, <<entry>>)).live = Replay(d).live \ {i}
  BY <1>1, OneLogged
<1> QED
  BY <1>1, <1>2 DEF entry

-----------------------------------------------------------------------------
(* Each action keeps the invariant, and is a step of the set of edges.     *)

Edges == AllEdges(mem.graph)

\* The edges, and their count, are as EdgeMap wants them.
LEMMA EdgesCounted ==
  ASSUME NEW m, NEW d, Fit(m, d)
  PROVE  /\ AllEdges(m.graph) \in SUBSET Map!Edge
         /\ m.graph.count = Map!Cardinality(AllEdges(m.graph))
<1>1. /\ AllEdges(m.graph) \in SUBSET Edge
      /\ m.graph.count = Cardinality(AllEdges(m.graph))
  BY DEF Fit, Holds
<1>2. Map!Edge = Edge
  BY DEF Edge, Map!Edge
<1>3. \A E : Map!Cardinality(E) = Cardinality(E)
  BY DEF Cardinality, Map!Cardinality
<1> QED
  BY <1>1, <1>2, <1>3

\* A call leaves the number of restarts, and a restart counts.
Restarts == MaxRestarts - budget.restarts

LEMMA RestartsCounted ==
  ASSUME Bounded
  PROVE  /\ \A name : Called(name) => Restarts' = Restarts
         /\ \A name, n : Adding(name, n) => Restarts' = Restarts
         /\ \A d : RestartFrom(d) => Restarts' = Restarts + 1
<1>1. /\ budget \in [calls : 0..MaxCalls, adds : 0..MaxAdds, restarts : 0..MaxRestarts]
      /\ MaxRestarts \in Nat
  BY BoundAssumption DEF Bounded
<1>2. ASSUME NEW name, Called(name) PROVE Restarts' = Restarts
  BY <1>1, <1>2 DEF Called, Restarts
<1>3. ASSUME NEW name, NEW n, Adding(name, n) PROVE Restarts' = Restarts
  BY <1>1, <1>3 DEF Adding, Restarts
<1>4. ASSUME NEW d, RestartFrom(d) PROVE Restarts' = Restarts + 1
  <2>1. budget'.restarts = budget.restarts - 1
    BY <1>1, <1>4 DEF RestartFrom
  <2> QED
    BY <1>1, <2>1 DEF Restarts
<1> QED
  BY <1>2, <1>3, <1>4

\* A call that leaves the edges of a set.
LEMMA Leaves ==
  ASSUME NEW set, Edges' = set, Lingering' \subseteq Lingering, Restarts' = Restarts
  PROVE  Map!Leave(set)
BY DEF Map!Leave, Edges, Restarts

LEMMA Withs == \A E, e : Map!With(E, e) = Placed(E, e)
BY DEF Placed, Map!With, Map!SameEnds, Others, Alike

\* Every operation of the set of edges is a step of it, once the edges are counted.
LEMMA StepMaps ==
  ASSUME Fit(mem, disk)',
         \/ Map!Keep
         \/ \E e \in Edge : Map!Put(e)
         \/ \E e \in Edge : \E x \in Edge : Map!PutBoth(e, x)
         \/ \E e \in Edges : Map!Drop(e)
         \/ \E I \in SUBSET Id : Map!DropNodes(I) \/ Map!Collect(I)
         \/ Map!Restart
         \/ \E i \in Id : Map!RestartInDrop(i)
         \/ \E e \in Edge : Map!RestartInPut(e)
  PROVE  Map!Next
<1>1. /\ AllEdges(mem.graph)' \in SUBSET Map!Edge
      /\ mem'.graph.count = Map!Cardinality(AllEdges(mem.graph)')
  BY EdgesCounted
<1>2. ASSUME NEW e, Map!Put(e) PROVE Map!Next
  <2>1. Edges' = Placed(Edges, e)
    BY <1>2, Withs DEF Map!Put, Map!Leave, Edges
  <2>2. Placed(Placed(Edges, e), e) = Placed(Edges, e) /\ e \in Edges'
    BY <2>1 DEF Placed, Others, Alike
  <2>3. Map!PutBoth(e, e)
    BY <1>2, <2>2, Withs DEF Map!Put, Map!PutBoth, Edges
  <2> QED
    BY <1>1, <2>2, <2>3 DEF Map!Next, Edges
<1>3. ASSUME NEW e, NEW x, Map!PutBoth(e, x) PROVE Map!Next
  <2>1. Edges' = Placed(Placed(Edges, e), x)
    BY <1>3, Withs DEF Map!PutBoth, Map!Leave, Edges
  <2>2. CASE Alike(e, x)
    <3>1. Placed(Placed(Edges, e), x) = Placed(Edges, x)
      BY <2>2 DEF Placed, Others, Alike
    <3>2. Map!Put(x)
      BY <1>3, <3>1, Withs DEF Map!PutBoth, Map!Put, Edges
    <3> QED
      BY <3>2, <1>2
  <2>3. CASE ~Alike(e, x)
    <3>1. e \in Edges' /\ x \in Edges'
      BY <2>1, <2>3 DEF Placed, Others, Alike
    <3> QED
      BY <1>1, <1>3, <3>1 DEF Map!Next, Edges
  <2> QED
    BY <2>2, <2>3
<1>4. ASSUME NEW e, Map!RestartInPut(e) PROVE Map!Next
  <2>1. e \in AllEdges(mem.graph)'
    BY <1>4 DEF Map!RestartInPut, Map!RestartWith, Map!With
  <2> QED
    BY <1>1, <1>4, <2>1 DEF Map!Next
<1>5. ASSUME \/ Map!Keep
             \/ \E e \in Edges : Map!Drop(e)
             \/ \E I \in SUBSET Id : Map!DropNodes(I) \/ Map!Collect(I)
             \/ Map!Restart
             \/ \E i \in Id : Map!RestartInDrop(i)
      PROVE  Map!Next
  BY <1>1, <1>5 DEF Map!Next, Edges
<1> QED
  BY <1>2, <1>3, <1>4, <1>5

LEMMA EnableGraphStep ==
  ASSUME IInv, EnableGraph
  PROVE  Fit(mem, disk)' /\ Map!Keep
<1>1. mem' = [mem EXCEPT !.enabled = TRUE] /\ disk' = disk
  BY DEF EnableGraph
<1>2. mem \in Memory
  BY DEF IInv, Fit
<1>3. mem' \in Memory /\ mem'.graph = mem.graph /\ mem'.live = mem.live
  BY <1>1, <1>2 DEF Memory
<1>4. Fit(mem', disk')
  BY <1>1, <1>3 DEF IInv, Fit
<1>5. Edges' = Edges /\ Lingering' = Lingering
  BY <1>1, <1>3 DEF Edges, Lingering
<1>6. Restarts' = Restarts
  BY RestartsCounted DEF IInv, EnableGraph
<1>7. Map!Leave(Edges)
  BY <1>5, <1>6, Leaves
<1> QED
  BY <1>4, <1>7 DEF Map!Keep, Edges

LEMMA AddEdgeStep ==
  ASSUME IInv, NEW e \in Edge, AddEdge(e)
  PROVE  Fit(mem, disk)' /\ (StaleManifest = FALSE => Map!Put(e))
<1> DEFINE after == WithEdge(mem, e)
           files == LogTo(disk, <<EdgeAdded(e)>>)
<1>1. /\ Fit(after, files)
      /\ AllEdges(after.graph) = Placed(Edges, e)
      /\ SavedEdges(files) = Placed(SavedEdges(disk), e)
  <2>1. Fit(mem, disk)
    BY DEF IInv
  <2>2. /\ Fit(WithEdge(mem, e), LogTo(disk, <<EdgeAdded(e)>>))
        /\ AllEdges(WithEdge(mem, e).graph) = Placed(AllEdges(mem.graph), e)
        /\ SavedEdges(LogTo(disk, <<EdgeAdded(e)>>)) = Placed(SavedEdges(disk), e)
    BY <2>1, AddFits
  <2> QED
    BY <2>2 DEF Edges
<1>2. Return(after, files)
  BY DEF AddEdge, Log, LogTo, WithEdge
<1> HIDE DEF after, files
<1>3. /\ Fit(mem', disk')
      /\ Edges' = Placed(Edges, e)
      /\ StaleManifest = FALSE => SavedEdges(disk)' \in {SavedEdges(files), Edges'}
  BY <1>1, <1>2, ReturnFits DEF Edges
<1>4. ASSUME StaleManifest = FALSE PROVE Map!Put(e)
  <2>1. Lingering' \subseteq Lingering
    BY <1>1, <1>3, <1>4 DEF Lingering, Edges, Others, Placed
  <2>2. Restarts' = Restarts
    BY RestartsCounted DEF IInv, AddEdge
  <2>3. Map!Leave(Placed(Edges, e))
    BY <1>3, <2>1, <2>2, Leaves
  <2> QED
    BY <2>3, Withs DEF Map!Put, Edges
<1> QED
  BY <1>3, <1>4

LEMMA AddEdgesStep ==
  ASSUME IInv, NEW e \in Edge, NEW x \in Edge, AddEdges(e, x)
  PROVE  Fit(mem, disk)' /\ (StaleManifest = FALSE => Map!PutBoth(e, x))
<1> DEFINE first == WithEdge(mem, e)
           one   == LogTo(disk, <<EdgeAdded(e)>>)
<1>1. /\ Fit(first, one)
      /\ AllEdges(first.graph) = Placed(Edges, e)
      /\ SavedEdges(one) = Placed(SavedEdges(disk), e)
  <2>1. Fit(mem, disk)
    BY DEF IInv
  <2>2. /\ Fit(WithEdge(mem, e), LogTo(disk, <<EdgeAdded(e)>>))
        /\ AllEdges(WithEdge(mem, e).graph) = Placed(AllEdges(mem.graph), e)
        /\ SavedEdges(LogTo(disk, <<EdgeAdded(e)>>)) = Placed(SavedEdges(disk), e)
    BY <2>1, AddFits
  <2> QED
    BY <2>2 DEF Edges
<1>2. /\ mem \in Memory /\ disk \in Disk
      /\ EdgeAdded(e) \in Entry /\ EdgeAdded(x) \in Entry
  BY DEF IInv, Fit, EdgeAdded, Entry, EdgeEntry
<1> DEFINE after == WithEdge(first, x)
           files == LogTo(one, <<EdgeAdded(x)>>)
           E     == Placed(Placed(Edges, e), x)
<1>3. after = [mem EXCEPT !.graph = Added(Added(@, {e}), {x})]
  BY <1>2 DEF Memory, WithEdge
<1>4. files = LogTo(disk, <<EdgeAdded(e), EdgeAdded(x)>>)
  <2>1. PICK a \in Entry, b \in Entry : a = EdgeAdded(e) /\ b = EdgeAdded(x)
    BY <1>2
  <2>2. <<a>> \o <<b>> = <<a, b>> /\ <<a>> \in Seq(Entry) /\ <<b>> \in Seq(Entry)
    BY Singles
  <2>3. LogTo(disk, <<a>> \o <<b>>) = LogTo(LogTo(disk, <<a>>), <<b>>)
    BY <1>2, <2>2, LogToFields
  <2> QED
    BY <2>1, <2>2, <2>3
<1>5. Return(after, files)
  BY <1>3, <1>4 DEF AddEdges, Log, LogTo
<1> HIDE DEF first, one
<1>6. /\ Fit(after, files)
      /\ AllEdges(after.graph) = E
      /\ SavedEdges(files) = Placed(SavedEdges(one), x)
  <2>1. /\ Fit(after, files)
        /\ AllEdges(after.graph) = Placed(AllEdges(first.graph), x)
        /\ SavedEdges(files) = Placed(SavedEdges(one), x)
    <3>1. /\ Fit(WithEdge(first, x), LogTo(one, <<EdgeAdded(x)>>))
          /\ AllEdges(WithEdge(first, x).graph) = Placed(AllEdges(first.graph), x)
          /\ SavedEdges(LogTo(one, <<EdgeAdded(x)>>)) = Placed(SavedEdges(one), x)
      <4> HIDE DEF E, after, files
      <4> QED
        BY <1>1, AddFits
    <3> HIDE DEF E
    <3> QED
      BY <3>1
  <2> QED
    BY <1>1, <2>1
<1> HIDE DEF after, files
<1>7. /\ Fit(mem', disk')
      /\ Edges' = E
      /\ StaleManifest = FALSE => SavedEdges(disk)' \in {SavedEdges(files), Edges'}
  BY <1>5, <1>6, ReturnFits DEF Edges
<1>8. ASSUME StaleManifest = FALSE PROVE Map!PutBoth(e, x)
  <2>1. Lingering' \subseteq Lingering
    BY <1>1, <1>6, <1>7, <1>8 DEF Lingering, Edges, Others, Placed
  <2>2. Restarts' = Restarts
    BY RestartsCounted DEF IInv, AddEdges
  <2>3. Map!Leave(E)
    BY <1>7, <2>1, <2>2, Leaves
  <2> QED
    BY <2>3, Withs DEF Map!PutBoth, Edges
<1> QED
  BY <1>7, <1>8

LEMMA RemoveEdgeStep ==
  ASSUME IInv, NEW e \in Edges, RemoveEdge(e)
  PROVE  Fit(mem, disk)' /\ (StaleManifest = FALSE => Map!Drop(e))
<1> DEFINE after == WithoutEdge(mem, e)
           files == LogTo(disk, <<EdgeDeleted(e)>>)
<1>1. /\ Fit(after, files)
      /\ AllEdges(after.graph) = Edges \ {e}
      /\ SavedEdges(files) = SavedEdges(disk) \ {e}
  BY RemoveFits DEF IInv, Edges
<1>2. Return(after, files)
  BY DEF RemoveEdge, Log, LogTo, WithoutEdge
<1> HIDE DEF after, files
<1>3. /\ Fit(mem', disk')
      /\ Edges' = Edges \ {e}
      /\ StaleManifest = FALSE => SavedEdges(disk)' \in {SavedEdges(files), Edges'}
  BY <1>1, <1>2, ReturnFits DEF Edges
<1>4. ASSUME StaleManifest = FALSE PROVE Map!Drop(e)
  <2>1. Lingering' \subseteq Lingering
    BY <1>1, <1>3, <1>4 DEF Lingering, Edges
  <2>2. Restarts' = Restarts
    BY RestartsCounted DEF IInv, RemoveEdge
  <2>3. Map!Leave(Edges \ {e})
    BY <1>3, <2>1, <2>2, Leaves
  <2> QED
    BY <2>3 DEF Map!Drop, Edges
<1> QED
  BY <1>3, <1>4

LEMMA SetRecordStep ==
  ASSUME IInv, NEW i \in Id, SetRecord(i)
  PROVE  Fit(mem, disk)' /\ (StaleManifest = FALSE => Map!Keep)
<1> DEFINE after == WithRecord(mem, i)
           files == LogTo(disk, <<[op |-> "record", id |-> i]>>)
<1>1. /\ Fit(after, files)
      /\ AllEdges(after.graph) = Edges
      /\ SavedEdges(files) = SavedEdges(disk)
  BY SetFits DEF IInv, Edges
<1>2. Return(after, files)
  BY DEF SetRecord, Log, LogTo, WithRecord
<1> HIDE DEF after, files
<1>3. /\ Fit(mem', disk')
      /\ Edges' = Edges
      /\ StaleManifest = FALSE => SavedEdges(disk)' \in {SavedEdges(files), Edges'}
  BY <1>1, <1>2, ReturnFits DEF Edges
<1>4. ASSUME StaleManifest = FALSE PROVE Map!Keep
  <2>1. Lingering' \subseteq Lingering
    BY <1>1, <1>3, <1>4 DEF Lingering, Edges
  <2>2. Restarts' = Restarts
    BY RestartsCounted DEF IInv, SetRecord
  <2>3. Map!Leave(Edges)
    BY <1>3, <2>1, <2>2, Leaves
  <2> QED
    BY <2>3 DEF Map!Keep, Edges
<1> QED
  BY <1>3, <1>4

\* A call that logs the deletes of the edges at some records, and drops them.
LEMMA CascadeStep ==
  ASSUME IInv, NEW I \in SUBSET Id, NEW m, NEW d, Fit(m, d),
         AllEdges(m.graph) = Apart(Edges, I),
         SavedEdges(d) = SavedEdges(disk) \ (Edges \ Apart(Edges, I)),
         Return(m, d), Restarts' = Restarts
  PROVE  Fit(mem, disk)' /\ (StaleManifest = FALSE => Map!DropNodes(I))
<1>1. /\ Fit(mem', disk')
      /\ Edges' = Apart(Edges, I)
      /\ StaleManifest = FALSE => SavedEdges(disk)' \in {SavedEdges(d), Edges'}
  BY ReturnFits DEF Edges
<1>2. ASSUME StaleManifest = FALSE PROVE Map!DropNodes(I)
  <2>1. Lingering' \subseteq Lingering
    BY <1>1, <1>2 DEF Lingering, Edges
  <2>2. Map!Leave(Apart(Edges, I))
    BY <1>1, <2>1, Leaves
  <2> QED
    BY <2>2 DEF Map!DropNodes, Edges, Apart
<1> QED
  BY <1>1, <1>2

LEMMA DeleteStep ==
  ASSUME IInv, NEW i \in Id, Delete(i)
  PROVE  Fit(mem, disk)' /\ (StaleManifest = FALSE => Map!DropNodes({i}))
<1> DEFINE S == Edges \ Apart(Edges, {i})
           entry == [op |-> "unrecord", id |-> i]
<1>1. /\ mem \in Memory /\ disk \in Disk /\ Holds(mem.graph, Edges)
      /\ Edges \subseteq SavedEdges(disk) /\ Replay(disk).live = mem.live
  BY DEF IInv, Fit, Edges
<1>2. EdgesInvolving(mem.graph, i) = S
  <2>1. EdgesInvolving(mem.graph, i) = {e \in Edges : i \in {e.from, e.to}}
    BY <1>1, InvolvedEdges
  <2> QED
    BY <2>1 DEF Apart
<1>3. PICK s \in SetToSeqs({EdgeDeleted(e) : e \in S}) :
           Return(WithoutRecord(mem, i), LogTo(disk, s \o <<entry>>))
  BY <1>2 DEF Delete, DeleteEntries, Log, LogTo
<1>4. S \in SUBSET SavedEdges(disk)
  BY <1>1
<1> DEFINE one   == LogTo(disk, s)
           files == LogTo(one, <<entry>>)
           after == WithoutRecord(mem, i)
<1> HIDE DEF S
<1>5. /\ s \in Seq(Entry) /\ one \in Disk
      /\ SavedEdges(one) = SavedEdges(disk) \ S
      /\ Replay(one).live = mem.live
  BY <1>1, <1>3, <1>4, CascadeSaved
<1> HIDE DEF one
<1>6. /\ entry \in Entry /\ files \in Disk
      /\ SavedEdges(files) = SavedEdges(disk) \ S
      /\ Replay(files).live = mem.live \ {i}
  BY <1>5, RecordUnlogged
<1>7. LogTo(disk, s \o <<entry>>) = files
  <2>1. <<entry>> \in Seq(Entry)
    BY <1>6, Singles
  <2> QED
    BY <1>1, <1>5, <2>1, LogToFields DEF one
<1>8. after \in Memory /\ Holds(after.graph, Apart(Edges, {i})) /\ after.live = mem.live \ {i}
  BY <1>1, RecordGone
<1>9. Apart(Edges, {i}) \subseteq SavedEdges(files)
  BY <1>1, <1>6 DEF Apart, S
<1> HIDE DEF files, after
<1>10. Fit(after, files) /\ AllEdges(after.graph) = Apart(Edges, {i})
  BY <1>6, <1>8, <1>9, Refitted
<1>11. Return(after, files)
  BY <1>3, <1>7 DEF after
<1>12. {i} \in SUBSET Id
  OBVIOUS
<1>13. Restarts' = Restarts
  BY RestartsCounted DEF IInv, Delete
<1> QED
  BY <1>6, <1>10, <1>11, <1>12, <1>13, CascadeStep DEF S

LEMMA DeleteBatchStep ==
  ASSUME IInv, NEW i \in Id, NEW j \in Id, DeleteBatch(i, j)
  PROVE  Fit(mem, disk)' /\ (StaleManifest = FALSE => Map!DropNodes({i, j}))
<1> DEFINE first == WithoutRecord(mem, i)
           S == Edges \ Apart(Edges, {i, j})
           entry(k) == [op |-> "unrecord", id |-> k]
<1>1. /\ mem \in Memory /\ disk \in Disk /\ Holds(mem.graph, Edges)
      /\ Edges \subseteq SavedEdges(disk) /\ Replay(disk).live = mem.live
  BY DEF IInv, Fit, Edges
<1>2. /\ first \in Memory /\ Holds(first.graph, Apart(Edges, {i}))
      /\ first.live = mem.live \ {i}
  BY <1>1, RecordGone
<1>3. EdgesInvolving(mem.graph, i) \cup EdgesInvolving(first.graph, j) = S
  <2>1. EdgesInvolving(mem.graph, i) = {e \in Edges : i \in {e.from, e.to}}
    BY <1>1, InvolvedEdges
  <2>2. EdgesInvolving(first.graph, j) = {e \in Apart(Edges, {i}) : j \in {e.from, e.to}}
    BY <1>2, InvolvedEdges
  <2> QED
    BY <2>1, <2>2 DEF Apart
<1>4. PICK s \in SetToSeqs({EdgeDeleted(e) : e \in S}) :
           Return(WithoutRecord(first, j), LogTo(disk, s \o <<entry(i), entry(j)>>))
  BY <1>3 DEF DeleteBatch, Log, LogTo
<1>5. S \in SUBSET SavedEdges(disk)
  BY <1>1
<1> HIDE DEF S
<1>6. /\ WithoutRecord(first, j) \in Memory
      /\ Holds(WithoutRecord(first, j).graph, Apart(Edges, {i, j}))
      /\ WithoutRecord(first, j).live = (mem.live \ {i}) \ {j}
  <2>1. Apart(Apart(Edges, {i}), {j}) = Apart(Edges, {i, j})
    BY DEF Apart
  <2> HIDE DEF first
  <2> QED
    BY <1>2, <2>1, RecordGone
<1> DEFINE after == WithoutRecord(first, j)
           one   == LogTo(disk, s)
           two   == LogTo(one, <<entry(i)>>)
           files == LogTo(two, <<entry(j)>>)
<1> HIDE DEF first, entry
<1>7. /\ s \in Seq(Entry) /\ one \in Disk
      /\ SavedEdges(one) = SavedEdges(disk) \ S
      /\ Replay(one).live = mem.live
  BY <1>1, <1>4, <1>5, CascadeSaved
<1> HIDE DEF one
<1>8. /\ entry(i) \in Entry /\ two \in Disk
      /\ SavedEdges(two) = SavedEdges(disk) \ S
      /\ Replay(two).live = mem.live \ {i}
  BY <1>7, RecordUnlogged DEF entry
<1> HIDE DEF two
<1>9. /\ entry(j) \in Entry /\ files \in Disk
      /\ SavedEdges(files) = SavedEdges(disk) \ S
      /\ Replay(files).live = (mem.live \ {i}) \ {j}
  BY <1>8, RecordUnlogged DEF entry
<1>10. LogTo(disk, s \o <<entry(i), entry(j)>>) = files
  <2>1. PICK a \in Entry, b \in Entry : a = entry(i) /\ b = entry(j)
    BY <1>8, <1>9
  <2>2. /\ <<a>> \o <<b>> = <<a, b>> /\ <<a>> \in Seq(Entry) /\ <<b>> \in Seq(Entry)
        /\ <<a, b>> \in Seq(Entry)
    BY Singles
  <2>3. LogTo(disk, s \o <<a, b>>) = LogTo(one, <<a, b>>)
    BY <1>1, <1>7, <2>2, LogToFields DEF one
  <2>4. LogTo(one, <<a>> \o <<b>>) = LogTo(LogTo(one, <<a>>), <<b>>)
    BY <1>7, <2>2, LogToFields
  <2> QED
    BY <2>1, <2>2, <2>3, <2>4 DEF two
<1>11. Apart(Edges, {i, j}) \subseteq SavedEdges(files)
  BY <1>1, <1>9 DEF Apart, S
<1> HIDE DEF files, after
<1>12. Fit(after, files) /\ AllEdges(after.graph) = Apart(Edges, {i, j})
  BY <1>6, <1>9, <1>11, Refitted DEF after
<1>13. Return(after, files)
  BY <1>4, <1>10 DEF after
<1>14. {i, j} \in SUBSET Id
  OBVIOUS
<1>15. Restarts' = Restarts
  BY RestartsCounted DEF IInv, DeleteBatch
<1> QED
  BY <1>9, <1>12, <1>13, <1>14, <1>15, CascadeStep DEF S

\* The edges of orphans are collected in memory only.
LEMMA PackedFits ==
  ASSUME NEW m, NEW d, Fit(m, d)
  PROVE  /\ Fit(Packed(m), d)
         /\ AllEdges(Packed(m).graph) = {e \in AllEdges(m.graph) : {e.from, e.to} \subseteq m.live}
<1> DEFINE E == {e \in AllEdges(m.graph) : {e.from, e.to} \subseteq m.live}
<1>1. /\ m \in Memory /\ d \in Disk /\ Holds(m.graph, AllEdges(m.graph))
      /\ AllEdges(m.graph) \subseteq SavedEdges(d) /\ Replay(d).live = m.live
  BY DEF Fit
<1>2. Holds(Collected(m.graph, m.live), E)
  BY <1>1, CollectedHolds
<1>3. /\ Packed(m) \in Memory /\ Packed(m).live = m.live
      /\ Packed(m).graph = Collected(m.graph, m.live)
  <2>1. Collected(m.graph, m.live) \in Graph
    BY <1>2 DEF Holds
  <2>2. (m.live # {}) \in BOOLEAN
    OBVIOUS
  <2> QED
    BY <1>1, <2>1, <2>2 DEF Packed, Memory
<1>4. E \subseteq SavedEdges(d)
  BY <1>1
<1> HIDE DEF E
<1>5. Fit(Packed(m), d) /\ AllEdges(Packed(m).graph) = E
  BY <1>1, <1>2, <1>3, <1>4, Refitted
<1> QED
  BY <1>5 DEF E

LEMMA CollectMaps ==
  ASSUME Lingering' \subseteq Lingering \cup (Edges \ Edges'), NEW L,
         Edges' = {e \in Edges : {e.from, e.to} \subseteq L}, Restarts' = Restarts
  PROVE  Map!Collect(L)
BY DEF Map!Collect, Edges, Restarts

LEMMA CompactStep ==
  ASSUME IInv, Compact
  PROVE  Fit(mem, disk)' /\ Map!Collect(mem.live)
<1>1. mem' = Packed(mem) /\ disk' = disk
  BY DEF Compact
<1>2. /\ Fit(mem', disk')
      /\ Edges' = {e \in Edges : {e.from, e.to} \subseteq mem.live}
  BY <1>1, PackedFits DEF IInv, Edges
<1>3. Lingering' \subseteq Lingering \cup (Edges \ Edges')
  BY <1>1 DEF Lingering, Edges
<1>4. Restarts' = Restarts
  BY RestartsCounted DEF IInv, Compact
<1> QED
  BY <1>2, <1>3, <1>4, CollectMaps

LEMMA FlushStep ==
  ASSUME IInv, Flush
  PROVE  Fit(mem, disk)' /\ (Map!Keep \/ Map!Collect(mem.live))
<1>1. PICK m \in {mem} \cup {Packed(x) : x \in {y \in {mem} : y.dead}} :
           mem' = FullCheckpoint(m, disk).mem /\ disk' = FullCheckpoint(m, disk).disk
  BY DEF Flush
<1>2. Restarts' = Restarts
  BY RestartsCounted DEF IInv, Flush
<1>3. CASE m = mem
  <2>1. /\ Fit(mem', disk')
        /\ mem'.graph = mem.graph /\ SavedEdges(disk') = Edges
    BY <1>1, <1>3, FullFits DEF IInv, Edges
  <2>2. Edges' = Edges /\ Lingering' \subseteq Lingering
    BY <2>1 DEF Edges, Lingering
  <2>3. Map!Leave(Edges)
    BY <1>2, <2>2, Leaves
  <2> QED
    BY <2>1, <2>3 DEF Map!Keep, Edges
<1>4. CASE m = Packed(mem)
  <2>1. /\ Fit(m, disk)
        /\ AllEdges(m.graph) = {e \in Edges : {e.from, e.to} \subseteq mem.live}
    BY <1>4, PackedFits DEF IInv, Edges
  <2>2. /\ Fit(mem', disk')
        /\ mem'.graph = m.graph /\ SavedEdges(disk') = AllEdges(m.graph)
    BY <1>1, <2>1, FullFits
  <2>3. /\ Edges' = {e \in Edges : {e.from, e.to} \subseteq mem.live}
        /\ Lingering' \subseteq Lingering \cup (Edges \ Edges')
    BY <2>1, <2>2 DEF Edges, Lingering
  <2> QED
    BY <1>2, <2>2, <2>3, CollectMaps
<1> QED
  BY <1>1, <1>3, <1>4

\* A restart of the process finds what the files d have.
LEMMA RestartFits ==
  ASSUME NEW d \in Disk, RestartFrom(d)
  PROVE  /\ Fit(mem, disk)'
         /\ Edges' = SavedEdges(d) /\ Lingering' = {}
         /\ mem'.live = Replay(d).live
<1>1. mem' = Recovered(d) /\ disk' = d
  BY DEF RestartFrom
<1>2. /\ Replay(d) \in SoundDelta
      /\ Holds(Recovered(d).graph, SavedEdges(d))
      /\ Recovered(d).live = Replay(d).live
  BY SavedHolds
<1>3. Recovered(d) \in Memory
  <2>1. Recovered(d).graph \in Graph
    BY <1>2 DEF Holds
  <2>2. MergedEdges(d.edges, Replay(d)) \in Graph
    BY <2>1 DEF Recovered
  <2>3. (d.enabled \/ d.edges # {} \/ Replay(d).any) \in BOOLEAN
    OBVIOUS
  <2>4. /\ Replay(d).live \in SUBSET Id /\ Replay(d).dead \in BOOLEAN
        /\ Replay(d).dirty \in BOOLEAN
    BY <1>2 DEF SoundDelta
  <2>5. d.vecs \in BOOLEAN
    BY DEF Disk
  <2> QED
    BY <2>2, <2>3, <2>4, <2>5 DEF Recovered, Memory
<1>4. Fit(Recovered(d), d) /\ AllEdges(Recovered(d).graph) = SavedEdges(d)
  BY <1>2, <1>3, Refitted
<1> QED
  BY <1>1, <1>2, <1>4 DEF Edges, Lingering

LEMMA RestartMaps ==
  ASSUME Lingering' = {}, Restarts' = Restarts + 1, NEW kept,
         Edges' = kept \cup Others(Lingering, kept)
  PROVE  Map!RestartWith(kept)
<1>1. {x \in Lingering : \A e \in kept : ~Map!SameEnds(e, x)} = Others(Lingering, kept)
  BY DEF Others, Alike, Map!SameEnds
<1> QED
  BY <1>1 DEF Map!RestartWith, Edges, Restarts

LEMMA RestartStep ==
  ASSUME IInv, Restart
  PROVE  Fit(mem, disk)' /\ Map!Restart
<1>1. disk \in Disk /\ RestartFrom(disk)
  BY DEF IInv, Fit, Restart
<1>2. Fit(mem', disk') /\ Edges' = SavedEdges(disk) /\ Lingering' = {}
  BY <1>1, RestartFits
<1>3. Edges \subseteq SavedEdges(disk) /\ Distinct(SavedEdges(disk))
  BY FitEdges DEF IInv, Fit, Edges, SoundEdges
<1>4. Edges' = Edges \cup Others(Lingering, Edges)
  BY <1>2, <1>3 DEF Lingering, Others, Distinct, Alike, Edges
<1>5. Restarts' = Restarts + 1
  BY <1>1, RestartsCounted DEF IInv
<1>6. Map!RestartWith(Edges)
  BY <1>2, <1>4, <1>5, RestartMaps
<1> QED
  BY <1>2, <1>6 DEF Map!Restart, Edges

LEMMA DieInAddEdgesStep ==
  ASSUME IInv, NEW e \in Edge, DieInAddEdges(e)
  PROVE  Fit(mem, disk)' /\ Map!RestartInPut(e)
<1> DEFINE files == LogTo(disk, <<EdgeAdded(e)>>)
<1>1. Fit(mem, disk)
  BY DEF IInv
<1>2. SavedEdges(files) = Placed(SavedEdges(disk), e) /\ files \in Disk
  BY <1>1, AddFits DEF Fit
<1>3. RestartFrom(files)
  BY DEF DieInAddEdges, Log, LogTo
<1> HIDE DEF files
<1>4. /\ Fit(mem', disk') /\ Edges' = SavedEdges(files) /\ Lingering' = {}
  BY <1>2, <1>3, RestartFits
<1>5. Edges \subseteq SavedEdges(disk) /\ Distinct(SavedEdges(disk))
  BY <1>1, FitEdges DEF Fit, Edges, SoundEdges
<1>6. Edges' = Placed(Edges, e) \cup Others(Lingering, Placed(Edges, e))
  BY <1>2, <1>4, <1>5 DEF Lingering, Others, Distinct, Alike, Edges, Placed
<1>7. Restarts' = Restarts + 1
  BY <1>3, RestartsCounted DEF IInv
<1>8. Map!RestartWith(Placed(Edges, e))
  BY <1>4, <1>6, <1>7, RestartMaps
<1> QED
  BY <1>4, <1>8, Withs DEF Map!RestartInPut, Edges

\* An interrupted delete: some of the edges of the record are gone, and if the record
\* is gone, all of them are.
LEMMA DieInDeleteStep ==
  ASSUME IInv, NEW i \in Id, DieInDelete(i)
  PROVE  /\ Fit(mem, disk)' /\ Map!RestartInDrop(i)
         /\ i \in mem'.live \/ EdgesInvolving(mem'.graph, i) \subseteq Lingering
<1> DEFINE S == Edges \ Apart(Edges, {i})
           entry == [op |-> "unrecord", id |-> i]
<1>1. /\ mem \in Memory /\ disk \in Disk /\ Holds(mem.graph, Edges)
      /\ Edges \subseteq SavedEdges(disk) /\ Replay(disk).live = mem.live
      /\ SavedEdges(disk) \in SUBSET Edge /\ IsFiniteSet(SavedEdges(disk))
      /\ Distinct(SavedEdges(disk)) /\ i \in mem.live
  BY FitEdges DEF IInv, Fit, Edges, SoundEdges, DieInDelete
<1>2. EdgesInvolving(mem.graph, i) = S
  <2>1. EdgesInvolving(mem.graph, i) = {e \in Edges : i \in {e.from, e.to}}
    BY <1>1, InvolvedEdges
  <2> QED
    BY <2>1 DEF Apart
<1>3. PICK s \in SetToSeqs({EdgeDeleted(e) : e \in S}) :
           \E n \in 1..Len(s \o <<entry>>) : RestartFrom(LogTo(disk, SubSeq(s \o <<entry>>, 1, n)))
  BY <1>2 DEF DieInDelete, DeleteEntries, Log, LogTo
<1>4. PICK n \in 1..Len(s \o <<entry>>) : RestartFrom(LogTo(disk, SubSeq(s \o <<entry>>, 1, n)))
  BY <1>3
<1>5. S \in SUBSET SavedEdges(disk) /\ S \in SUBSET Edge /\ IsFiniteSet(S)
  <2>1. S \in SUBSET SavedEdges(disk)
    BY <1>1
  <2> HIDE DEF S
  <2> QED
    BY <1>1, <2>1, FS_Subset
<1>6. \A e \in S : i \in {e.from, e.to}
  BY DEF Apart
<1>7. S \in SUBSET Edges
  OBVIOUS
<1> HIDE DEF S
<1>8. /\ s \in Seq(Entry) /\ LogTo(disk, s) \in Disk
      /\ SavedEdges(LogTo(disk, s)) = SavedEdges(disk) \ S
      /\ Replay(LogTo(disk, s)).live = mem.live
      /\ \A m \in 1..Len(s) : s[m].op = "unedge" /\ s[m].edge \in S
  BY <1>1, <1>3, <1>5, CascadeSaved, CascadeEntries
<1>9. entry \in Entry /\ <<entry>> \in Seq(Entry)
  BY DEF Entry, RecordEntry
<1> DEFINE log == SubSeq(s \o <<entry>>, 1, n)
<1>10. /\ Len(s) \in Nat /\ Len(s \o <<entry>>) = Len(s) + 1
      /\ s \o <<entry>> \in Seq(Entry)
      /\ \A m \in 1..Len(s) : (s \o <<entry>>)[m] = s[m]
  <2>1. /\ s \o <<entry>> \in Seq(Entry)
        /\ Len(s \o <<entry>>) = Len(s) + Len(<<entry>>)
        /\ \A m \in 1..Len(s) + Len(<<entry>>) :
             (s \o <<entry>>)[m] = IF m <= Len(s) THEN s[m] ELSE <<entry>>[m - Len(s)]
    BY <1>8, <1>9, ConcatProperties
  <2>2. Len(<<entry>>) = 1 /\ Len(s) \in Nat
    BY <1>8, LenProperties
  <2> HIDE DEF entry
  <2> QED
    BY <2>1, <2>2
<1> HIDE DEF entry
<1>11. CASE n <= Len(s)
  <2>1. log = SubSeq(s, 1, n) /\ n \in 0..Len(s)
    <3>1. \A m \in 1..n : s[m] \in Entry /\ (s \o <<entry>>)[m] \in Entry
      BY <1>8, <1>10, <1>11, ElementOfSeq
    <3>2. 1 \in Int /\ n \in Int
      BY <1>10
    <3>3. /\ SubSeq(s, 1, n) \in Seq(Entry) /\ Len(SubSeq(s, 1, n)) = n
          /\ \A m \in 1..n : SubSeq(s, 1, n)[m] = s[m]
      BY <1>10, <3>1, <3>2, SubSeqProperties
    <3>4. /\ log \in Seq(Entry) /\ Len(log) = n
          /\ \A m \in 1..n : log[m] = (s \o <<entry>>)[m]
      BY <1>10, <3>1, <3>2, SubSeqProperties
    <3>5. \A m \in 1..n : log[m] = SubSeq(s, 1, n)[m]
      BY <1>10, <1>11, <3>3, <3>4
    <3>6. log = SubSeq(s, 1, n)
      <4> HIDE DEF log
      <4> QED
        BY <3>3, <3>4, <3>5, SeqEqual
    <3> QED
      BY <1>10, <1>11, <3>6
  <2> DEFINE t == SubSeq(s, 1, n)
             R == {t[m].edge : m \in 1..Len(t)}
             files == LogTo(disk, t)
  <2>2. /\ t \in Seq(Entry)
        /\ \A m \in 1..Len(t) : t[m].op = "unedge" /\ t[m].edge \in S
    BY <1>5, <1>8, <2>1, CascadeStarted
  <2>3. R \in SUBSET S
    BY <2>2
  <2> HIDE DEF t
  <2>4. /\ files \in Disk /\ SavedEdges(files) = Others(SavedEdges(disk), R)
        /\ Replay(files).live = mem.live
    BY <1>1, <2>2, DeletesLogged
  <2>5. RestartFrom(files)
    BY <1>4, <2>1 DEF t
  <2> HIDE DEF files, R
  <2>6. /\ Fit(mem', disk') /\ Edges' = SavedEdges(files) /\ Lingering' = {}
        /\ mem'.live = mem.live
    BY <2>4, <2>5, RestartFits
  <2>7. Others(SavedEdges(disk), R) = SavedEdges(disk) \ R
    BY <1>1, <1>5, <2>3 DEF Others, Distinct, Alike
  <2> DEFINE kept == Edges \ R
  <2>8. Edges' = kept \cup Others(Lingering, kept)
    BY <1>1, <2>3, <2>4, <2>6, <2>7, <1>5 DEF Lingering, Others, Distinct, Alike, Edges, S
  <2>9. R \in SUBSET Map!Touching(i)
    BY <1>6, <1>7, <2>3 DEF Map!Touching, Edges
  <2>10. Restarts' = Restarts + 1
    BY <2>5, RestartsCounted DEF IInv
  <2>11. Map!RestartWith(Edges \ R)
    BY <2>6, <2>8, <2>10, RestartMaps
  <2> QED
    BY <1>1, <2>6, <2>9, <2>11 DEF Map!RestartInDrop, Edges
<1>12. CASE n = Len(s) + 1
  <2>1. log = s \o <<entry>>
    <3>1. PICK t \in Seq(Entry) : t = s \o <<entry>>
      BY <1>10
    <3>2. SubSeq(t, 1, Len(t)) = t
      BY <3>1
    <3> QED
      BY <1>10, <1>12, <3>1, <3>2
  <2> DEFINE one == LogTo(disk, s)
             files == LogTo(one, <<entry>>)
  <2> HIDE DEF one
  <2>2. /\ files \in Disk /\ SavedEdges(files) = SavedEdges(disk) \ S
        /\ Replay(files).live = mem.live \ {i}
    BY <1>8, RecordUnlogged DEF one, entry
  <2>3. LogTo(disk, s \o <<entry>>) = files
    BY <1>1, <1>8, <1>9, LogToFields DEF one
  <2>4. RestartFrom(files)
    BY <1>4, <2>1, <2>3
  <2> HIDE DEF files
  <2>5. /\ Fit(mem', disk') /\ Edges' = SavedEdges(files) /\ Lingering' = {}
    BY <2>2, <2>4, RestartFits
  <2> DEFINE kept == Edges \ S
  <2>6. Edges' = kept \cup Others(Lingering, kept)
    BY <1>1, <1>5, <2>2, <2>5 DEF Lingering, Others, Distinct, Alike, Edges, S
  <2>7. Restarts' = Restarts + 1
    BY <2>4, RestartsCounted DEF IInv
  <2>8. Map!RestartInDrop(i)
    <3>1. Map!RestartWith(Edges \ S)
      BY <2>5, <2>6, <2>7, RestartMaps
    <3>2. S \in SUBSET Map!Touching(i)
      BY <1>6, <1>7 DEF Map!Touching, Edges
    <3> QED
      BY <3>1, <3>2 DEF Map!RestartInDrop, Edges
  <2>9. EdgesInvolving(mem'.graph, i) \subseteq Lingering
    <3>1. Holds(mem'.graph, Edges')
      BY <2>5 DEF Fit, Edges
    <3>2. EdgesInvolving(mem'.graph, i) = {e \in Edges' : i \in {e.from, e.to}}
      BY <3>1, InvolvedEdges
    <3> QED
      BY <2>2, <2>5, <3>2 DEF Lingering, Edges, S, Apart
  <2> QED
    BY <2>5, <2>8, <2>9
<1> QED
  BY <1>10, <1>11, <1>12

-----------------------------------------------------------------------------
(* The invariant, and what follows from it.                                *)

\* A store that was just created, or reopened.
LEMMA InitFits ==
  ASSUME Init
  PROVE  IInv /\ Edges = {} /\ Lingering = {} /\ mem.graph.count = 0
<1>1. /\ disk \in Disk /\ disk.log = << >> /\ disk.edges = {} /\ mem = Recovered(disk)
  <2>1. PICK graph \in BOOLEAN, live \in {{}, Id} :
          disk = [log |-> << >>, edges |-> {}, enabled |-> graph, live |-> live,
                  dead |-> FALSE, vecs |-> live # {}]
    BY DEF Init
  <2>2. (live # {}) \in BOOLEAN /\ live \in SUBSET Id
    OBVIOUS
  <2>3. {} \in SoundEdges
    BY FS_EmptySet DEF SoundEdges, Distinct
  <2>4. << >> \in Seq(Entry)
    BY EmptySeq
  <2>5. mem = Recovered(disk)
    BY DEF Init
  <2> QED
    BY <2>1, <2>2, <2>3, <2>4, <2>5 DEF Disk
<1>2. /\ Replay(disk) \in SoundDelta
      /\ Holds(mem.graph, SavedEdges(disk))
      /\ mem.live = Replay(disk).live
  BY <1>1, SavedHolds
<1>3. mem \in Memory
  <2>1. MergedEdges(disk.edges, Replay(disk)) \in Graph
    BY <1>1, <1>2 DEF Recovered, Holds
  <2>2. (disk.enabled \/ disk.edges # {} \/ Replay(disk).any) \in BOOLEAN
    OBVIOUS
  <2>3. /\ Replay(disk).live \in SUBSET Id /\ Replay(disk).dead \in BOOLEAN
        /\ Replay(disk).dirty \in BOOLEAN
    BY <1>2 DEF SoundDelta
  <2>4. disk.vecs \in BOOLEAN
    BY <1>1 DEF Disk
  <2> QED
    BY <1>1, <2>1, <2>2, <2>3, <2>4 DEF Recovered, Memory
<1>4. Fit(mem, disk) /\ Edges = SavedEdges(disk)
  BY <1>1, <1>2, <1>3, Refitted DEF Edges
<1>5. SavedEdges(disk) = {}
  BY <1>1, NothingLogged
<1>6. mem.graph.count = 0
  BY <1>2, <1>5, FS_EmptySet DEF Holds
<1>7. Bounded
  BY BoundAssumption DEF Init, Bounded
<1> QED
  BY <1>4, <1>5, <1>6, <1>7 DEF IInv, Lingering

LEMMA BudgetStep ==
  ASSUME Bounded, Next
  PROVE  Bounded'
<1>1. /\ budget \in [calls : 0..MaxCalls, adds : 0..MaxAdds, restarts : 0..MaxRestarts]
      /\ MaxCalls \in Nat /\ MaxAdds \in Nat /\ MaxRestarts \in Nat
  BY BoundAssumption DEF Bounded
<1>2. ASSUME NEW name, Called(name) PROVE Bounded'
  BY <1>1, <1>2 DEF Called, Bounded
<1>3. ASSUME NEW name, NEW n \in {1, 2}, Adding(name, n) PROVE Bounded'
  BY <1>1, <1>3 DEF Adding, Bounded
<1>4. ASSUME NEW d, RestartFrom(d) PROVE Bounded'
  BY <1>1, <1>4 DEF RestartFrom, Bounded
<1>5. \/ \E name : Called(name)
      \/ \E name : \E n \in {1, 2} : Adding(name, n)
      \/ \E d : RestartFrom(d)
  BY DEF Next, EnableGraph, AddEdge, DieInAddEdges, AddEdges, RemoveEdge, SetRecord, Delete,
         DieInDelete, DeleteBatch, Compact, Flush, Restart
<1> QED
  BY <1>2, <1>3, <1>4, <1>5

\* Every call does to the edges what it is for.
LEMMA CallsMap ==
  ASSUME IInv, StaleManifest = FALSE
  PROVE  EachCall
<1>1. EachAdd /\ EachBatch
  BY AddEdgeStep, AddEdgesStep DEF EachAdd, EachBatch
<1>2. EachOther
  <2>1. ASSUME NEW e \in AllEdges(mem.graph), RemoveEdge(e) PROVE Map!Drop(e)
    BY <2>1, RemoveEdgeStep DEF Edges
  <2>2. ASSUME NEW i \in Id, SetRecord(i) PROVE Map!Keep
    BY <2>2, SetRecordStep
  <2>3. ASSUME NEW i \in Id, Delete(i) PROVE Map!DropNodes({i})
    BY <2>3, DeleteStep
  <2>4. ASSUME NEW i \in Id, NEW j \in Id, DeleteBatch(i, j) PROVE Map!DropNodes({i, j})
    BY <2>4, DeleteBatchStep
  <2>5. /\ EnableGraph => Map!Keep
        /\ Compact => Map!Collect(mem.live)
        /\ Flush => Map!Keep \/ Map!Collect(mem.live)
    BY EnableGraphStep, CompactStep, FlushStep
  <2> QED
    BY <2>1, <2>2, <2>3, <2>4, <2>5 DEF EachOther
<1>3. EachRestart
  BY RestartStep, DieInDeleteStep, DieInAddEdgesStep DEF EachRestart
<1> QED
  BY <1>1, <1>2, <1>3 DEF EachCall

LEMMA NextStep ==
  ASSUME IInv, Next
  PROVE  IInv' /\ (StaleManifest = FALSE => Map!Next)
<1>1. Bounded'
  BY BudgetStep DEF IInv
<1>2. ASSUME EnableGraph PROVE Fit(mem, disk)' /\ Map!Next
  BY <1>2, EnableGraphStep, StepMaps
<1>3. ASSUME NEW e \in Edge, AddEdge(e)
      PROVE  Fit(mem, disk)' /\ (StaleManifest = FALSE => Map!Next)
  BY <1>3, AddEdgeStep, StepMaps
<1>4. ASSUME NEW e \in Edge, DieInAddEdges(e)
      PROVE  Fit(mem, disk)' /\ (StaleManifest = FALSE => Map!Next)
  BY <1>4, DieInAddEdgesStep, StepMaps
<1>5. ASSUME NEW e \in Edge, NEW x \in Edge, AddEdges(e, x)
      PROVE  Fit(mem, disk)' /\ (StaleManifest = FALSE => Map!Next)
  BY <1>5, AddEdgesStep, StepMaps
<1>6. ASSUME NEW e \in AllEdges(mem.graph), RemoveEdge(e)
      PROVE  Fit(mem, disk)' /\ (StaleManifest = FALSE => Map!Next)
  <2>1. e \in Edges
    BY DEF Edges
  <2> QED
    BY <1>6, <2>1, RemoveEdgeStep, StepMaps
<1>7. ASSUME NEW i \in Id, SetRecord(i)
      PROVE  Fit(mem, disk)' /\ (StaleManifest = FALSE => Map!Next)
  BY <1>7, SetRecordStep, StepMaps
<1>8. ASSUME NEW i \in Id, Delete(i)
      PROVE  Fit(mem, disk)' /\ (StaleManifest = FALSE => Map!Next)
  <2>1. {i} \in SUBSET Id
    OBVIOUS
  <2> QED
    BY <1>8, <2>1, DeleteStep, StepMaps
<1>9. ASSUME NEW i \in Id, DieInDelete(i)
      PROVE  Fit(mem, disk)' /\ (StaleManifest = FALSE => Map!Next)
  BY <1>9, DieInDeleteStep, StepMaps
<1>10. ASSUME NEW i \in Id, NEW j \in Id, DeleteBatch(i, j)
       PROVE  Fit(mem, disk)' /\ (StaleManifest = FALSE => Map!Next)
  <2>1. {i, j} \in SUBSET Id
    OBVIOUS
  <2> QED
    BY <1>10, <2>1, DeleteBatchStep, StepMaps
<1>11. ASSUME Compact \/ Flush PROVE Fit(mem, disk)' /\ Map!Next
  <2>1. mem.live \in SUBSET Id
    BY DEF IInv, Fit, Memory
  <2> QED
    BY <1>11, <2>1, CompactStep, FlushStep, StepMaps
<1>12. ASSUME Restart PROVE Fit(mem, disk)' /\ Map!Next
  BY <1>12, RestartStep, StepMaps
<1> QED
  BY <1>1, <1>2, <1>3, <1>4, <1>5, <1>6, <1>7, <1>8, <1>9, <1>10, <1>11, <1>12 DEF Next, IInv

LEMMA StutterStep ==
  ASSUME IInv, UNCHANGED vars
  PROVE  /\ IInv'
         /\ UNCHANGED <<AllEdges(mem.graph), Lingering, mem.graph.count,
                        MaxRestarts - budget.restarts>>
BY DEF vars, IInv, Bounded, Lingering

\* At every state the memory fits the files: the graph holds its edges in both
\* directions and counted, and a restart would find them, and the same records.
THEOREM Invariance == Spec => []IInv
<1>1. Init => IInv
  BY InitFits
<1>2. IInv /\ [Next]_vars => IInv'
  BY NextStep, StutterStep
<1> QED
  BY <1>1, <1>2, PTL DEF Spec

\* The memory, the files and the bounds are of their types: no count falls below zero, as
\* an unsigned one would wrap.
THEOREM TypeCorrect == Spec => []TypeOK
<1>1. ASSUME IInv PROVE TypeOK
  <2>1. mem \in Memory /\ disk \in Disk /\ Bounded
    BY <1>1 DEF IInv, Fit
  <2> QED
    BY <2>1 DEF TypeOK, Memory, Disk, Bounded, SoundEdges, Entry
<1>2. IInv => TypeOK
  BY <1>1
<1> QED
  BY <1>2, Invariance, PTL

\* Through replacements, cascades, collections and every recovery, the two adjacencies
\* mirror each other.
THEOREM MirroredCorrect == Spec => []Mirrored
<1>1. IInv => Mirrored
  BY HeldEdges DEF IInv, Fit, Mirrored
<1> QED
  BY <1>1, Invariance, PTL

\* However a delete is interrupted, the reopened store does not lack the record and yet
\* have an edge of it that was there before.
THEOREM NoHalfDeleteCorrect == Spec => NoHalfDelete
<1> DEFINE Whole == budget'.restarts < budget.restarts =>
                      \A i \in mem.live \ mem'.live :
                        DieInDelete(i) => EdgesInvolving(mem'.graph, i) \subseteq Lingering
<1>1. IInv /\ [Next]_vars => [Whole]_vars
  <2> SUFFICES ASSUME IInv, NEW i \in mem.live \ mem'.live, DieInDelete(i)
               PROVE  EdgesInvolving(mem'.graph, i) \subseteq Lingering
    OBVIOUS
  <2>1. i \in Id
    BY DEF IInv, Fit, Memory
  <2> QED
    BY <2>1, DieInDeleteStep
<1> QED
  BY <1>1, Invariance, PTL DEF Spec, NoHalfDelete

\* With fast checkpoints that find no edge in the manifest, the store is a durable set
\* of edges, call by call: each call adds, replaces, removes or cascades over the edges
\* it is for and no others, whatever checkpoint it ends in; a restart loses none and
\* brings none back, but for those of the call it interrupted and those a compaction
\* collected since the last full checkpoint.
THEOREM EdgeMapImplemented ==
  ASSUME StaleManifest = FALSE
  PROVE  Spec => ImplementsEdgeMap
<1>1. Init => Map!Init
  <2>1. Init => MaxRestarts - budget.restarts = 0
    BY BoundAssumption DEF Init
  <2> QED
    BY <2>1, InitFits DEF Map!Init, Edges
<1>2. IInv /\ [Next]_vars => [Map!Next]_<<AllEdges(mem.graph), Lingering, mem.graph.count,
                                        MaxRestarts - budget.restarts>>
  BY NextStep, StutterStep
<1>3. IInv /\ [Next]_vars => [EachCall]_vars
  BY CallsMap
<1> QED
  BY <1>1, <1>2, <1>3, Invariance, PTL DEF Spec, ImplementsEdgeMap, Map!Spec

-----------------------------------------------------------------------------
(* Searches.                                                               *)

\* The walks of n nodes from i, where they end, and the ends of walks of up to n nodes.
WalksOf(steps, i, n) ==
  {p \in [1..n -> Id] : p[1] = i /\ \A k \in 1..n - 1 : <<p[k], p[k + 1]>> \in steps}

Reached(steps, i, n) == {p[n] : p \in WalksOf(steps, i, n)}

Within(steps, i, n) == UNION {Reached(steps, i, k) : k \in 1..n}

LEMMA LengthOfWalk ==
  ASSUME NEW n \in Nat, NEW p \in [1..n -> Id]
  PROVE  p \in Seq(Id) /\ Len(p) = n
<1>1. p \in Seq(Id)
  BY IsASeq
<1>2. DOMAIN p = 1..Len(p) /\ Len(p) \in Nat
  BY <1>1, LenProperties
<1> QED
  BY <1>1, <1>2

LEMMA WalksByLength ==
  ASSUME NEW steps, NEW i, NEW depth \in Nat
  PROVE  /\ \A p \in Walks(steps, i, depth) :
              Len(p) \in 1..depth + 1 /\ p \in WalksOf(steps, i, Len(p))
         /\ \A n \in 1..depth + 1 : \A p \in WalksOf(steps, i, n) :
              p \in Walks(steps, i, depth) /\ Len(p) = n
<1>1. ASSUME NEW p \in Walks(steps, i, depth)
      PROVE  Len(p) \in 1..depth + 1 /\ p \in WalksOf(steps, i, Len(p))
  <2>1. PICK n \in 1..depth + 1 : p \in [1..n -> Id]
    BY DEF Walks
  <2>2. Len(p) = n
    BY <2>1, LengthOfWalk
  <2> QED
    BY <2>1, <2>2 DEF Walks, WalksOf
<1>2. ASSUME NEW n \in 1..depth + 1, NEW p \in WalksOf(steps, i, n)
      PROVE  p \in Walks(steps, i, depth) /\ Len(p) = n
  <2>1. p \in [1..n -> Id] /\ Len(p) = n
    BY LengthOfWalk DEF WalksOf
  <2> QED
    BY <2>1 DEF Walks, WalksOf
<1> QED
  BY <1>1, <1>2

\* A walk goes on with a step.
LEMMA ReachedFirst ==
  ASSUME NEW steps, NEW i \in Id
  PROVE  Reached(steps, i, 1) = {i}
<1> DEFINE p == [k \in 1..1 |-> i]
<1>1. p \in WalksOf(steps, i, 1) /\ p[1] = i
  BY DEF WalksOf
<1>2. \A q \in WalksOf(steps, i, 1) : q[1] = i
  BY DEF WalksOf
<1> QED
  BY <1>1, <1>2 DEF Reached

LEMMA ReachedNext ==
  ASSUME NEW steps, NEW i \in Id, NEW n \in Nat \ {0}
  PROVE  \A y : y \in Reached(steps, i, n + 1) <=>
                y \in Id /\ \E x \in Reached(steps, i, n) : <<x, y>> \in steps
<1>1. ASSUME NEW p \in WalksOf(steps, i, n + 1)
      PROVE  p[n + 1] \in Id /\ p[n] \in Reached(steps, i, n) /\ <<p[n], p[n + 1]>> \in steps
  <2> DEFINE q == [k \in 1..n |-> p[k]]
  <2>1. p \in [1..n + 1 -> Id] /\ p[1] = i
    BY DEF WalksOf
  <2>2. \A k \in 1..n : <<p[k], p[k + 1]>> \in steps
    BY DEF WalksOf
  <2>3. q \in [1..n -> Id] /\ q[1] = i /\ q[n] = p[n]
    BY <2>1
  <2>4. \A k \in 1..n - 1 : <<q[k], q[k + 1]>> \in steps
    BY <2>2
  <2>5. q \in WalksOf(steps, i, n)
    <3> HIDE DEF q
    <3> QED
      BY <2>3, <2>4 DEF WalksOf
  <2> QED
    BY <2>1, <2>2, <2>3, <2>5 DEF Reached
<1>2. ASSUME NEW y \in Id, NEW p \in WalksOf(steps, i, n), <<p[n], y>> \in steps
      PROVE  y \in Reached(steps, i, n + 1)
  <2> DEFINE q == [k \in 1..n + 1 |-> IF k = n + 1 THEN y ELSE p[k]]
  <2>1. p \in [1..n -> Id] /\ p[1] = i /\ \A k \in 1..n - 1 : <<p[k], p[k + 1]>> \in steps
    BY DEF WalksOf
  <2>2. q \in [1..n + 1 -> Id] /\ q[1] = i /\ q[n + 1] = y
    BY <2>1
  <2>3. \A k \in 1..(n + 1) - 1 : <<q[k], q[k + 1]>> \in steps
    <3> TAKE k \in 1..(n + 1) - 1
    <3>1. CASE k = n
      BY <1>2, <3>1
    <3>2. CASE k # n
      <4>1. k \in 1..n - 1 /\ q[k] = p[k] /\ q[k + 1] = p[k + 1]
        BY <3>2
      <4> QED
        BY <2>1, <4>1
    <3> QED
      BY <3>1, <3>2
  <2>4. q \in WalksOf(steps, i, n + 1)
    <3> HIDE DEF q
    <3> QED
      BY <2>2, <2>3 DEF WalksOf
  <2> HIDE DEF q
  <2> QED
    BY <2>2, <2>4 DEF Reached
<1> QED
  BY <1>1, <1>2 DEF Reached

LEMMA WithinNext ==
  ASSUME NEW steps, NEW i, NEW n \in Nat
  PROVE  Within(steps, i, n + 1) = Within(steps, i, n) \cup Reached(steps, i, n + 1)
<1>1. 1..n + 1 = (1..n) \cup {n + 1}
  OBVIOUS
<1> QED
  BY <1>1 DEF Within

\* What is a step away from what is within n, is within n + 1.
LEMMA WithinStep ==
  ASSUME NEW steps, NEW i \in Id, NEW n \in Nat, NEW x \in Within(steps, i, n), NEW y \in Id,
         <<x, y>> \in steps
  PROVE  y \in Within(steps, i, n + 1)
<1>1. PICK k \in 1..n : x \in Reached(steps, i, k)
  BY DEF Within
<1>2. y \in Reached(steps, i, k + 1)
  <2>1. k \in Nat \ {0}
    OBVIOUS
  <2> QED
    BY <1>1, <2>1, ReachedNext
<1>3. k + 1 \in 1..n + 1
  OBVIOUS
<1> QED
  BY <1>2, <1>3 DEF Within

\* What a search discovers at depth d: the ends of walks of d steps, and of no shorter ones.
Discovered(steps, i, d) == Reached(steps, i, d + 1) \ Within(steps, i, d)

LEMMA DiscoveredNext ==
  ASSUME NEW steps, NEW i \in Id, NEW d \in Nat \ {0}
  PROVE  \A y : y \in Discovered(steps, i, d) <=>
                /\ y \in Id /\ y \notin Within(steps, i, d)
                /\ \E x \in Discovered(steps, i, d - 1) : <<x, y>> \in steps
<1>1. PICK c \in Nat : d = c + 1
  <2>1. d - 1 \in Nat /\ d = (d - 1) + 1
    OBVIOUS
  <2> QED
    BY <2>1
<1>2. \A y : y \in Reached(steps, i, d + 1) <=>
             y \in Id /\ \E x \in Reached(steps, i, d) : <<x, y>> \in steps
  BY ReachedNext
<1>3. d - 1 = c
  BY <1>1
<1>4. ASSUME NEW y \in Id, NEW x \in Within(steps, i, c), <<x, y>> \in steps
      PROVE  y \in Within(steps, i, d)
  BY <1>1, <1>4, WithinStep
<1> QED
  BY <1>1, <1>2, <1>3, <1>4 DEF Discovered

LEMMA DiscoveredFirst ==
  ASSUME NEW steps, NEW i \in Id
  PROVE  Discovered(steps, i, 0) = {i} /\ Within(steps, i, 1) = {i}
<1>1. Reached(steps, i, 0 + 1) = {i} /\ Within(steps, i, 0) = {} /\ 1..1 = {1}
  BY ReachedFirst DEF Within
<1> QED
  BY <1>1 DEF Discovered, Within

-----------------------------------------------------------------------------
\* The steps that the edges of a graph allow are those to the neighbors of a node.
LEMMA NeighborsAreSteps ==
  ASSUME NEW g, NEW E, Holds(g, E), NEW dir \in Direction, NEW f, NEW n \in Id
  PROVE  \A m : m \in Neighbors(g, n, dir, f) <=> m \in Id /\ <<n, m>> \in Steps(g, dir, f)
<1> DEFINE typed == {e \in E : Passes(e.type, f)}
<1>1. AllEdges(g) = E /\ E \in SUBSET Edge /\ g.outgoing = Outs(E) /\ g.incoming = Ins(E)
  BY HeldEdges DEF Holds
<1>2. \A m : /\ (\E r \in Outs(E) : r.at = n /\ Passes(r.type, f) /\ r.peer = m) <=>
                (\E e \in E : Passes(e.type, f) /\ e.from = n /\ e.to = m)
             /\ (\E r \in Ins(E) : r.at = n /\ Passes(r.type, f) /\ r.peer = m) <=>
                (\E e \in E : Passes(e.type, f) /\ e.to = n /\ e.from = m)
  <2> TAKE m
  <2>1. (\E r \in Outs(E) : r.at = n /\ Passes(r.type, f) /\ r.peer = m) <=>
        (\E e \in E : Passes(e.type, f) /\ e.from = n /\ e.to = m)
    <3>1. \A r : r \in Outs(E) <=> \E e \in E : r = Out(e)
      BY DEF Outs
    <3>2. \A e : Out(e).at = e.from /\ Out(e).peer = e.to /\ Out(e).type = e.type
      BY DEF Out
    <3> QED
      BY <3>1, <3>2
  <2>2. (\E r \in Ins(E) : r.at = n /\ Passes(r.type, f) /\ r.peer = m) <=>
        (\E e \in E : Passes(e.type, f) /\ e.to = n /\ e.from = m)
    <3>1. \A r : r \in Ins(E) <=> \E e \in E : r = In(e)
      BY DEF Ins
    <3>2. \A e : In(e).at = e.to /\ In(e).peer = e.from /\ In(e).type = e.type
      BY DEF In
    <3> QED
      BY <3>1, <3>2
  <2> QED
    BY <2>1, <2>2
<1>3. Typed(g, f) = typed
  BY <1>1 DEF Typed
<1>4. \A e \in typed : e.from \in Id /\ e.to \in Id
  BY <1>1 DEF Edge
<1>5. \A m : m \in Neighbors(g, n, dir, f) <=>
             \/ dir # "incoming" /\ \E e \in typed : e.from = n /\ e.to = m
             \/ dir # "outgoing" /\ \E e \in typed : e.to = n /\ e.from = m
  <2>1. \A m : m \in Neighbors(g, n, dir, f) <=>
          \/ dir # "incoming" /\ \E r \in g.outgoing : r.at = n /\ Passes(r.type, f) /\ r.peer = m
          \/ dir # "outgoing" /\ \E r \in g.incoming : r.at = n /\ Passes(r.type, f) /\ r.peer = m
    BY DEF Neighbors
  <2> QED
    BY <1>1, <1>2, <2>1
<1>6. \A m : <<n, m>> \in Steps(g, dir, f) <=>
        \/ dir # "incoming" /\ \E e \in typed : e.from = n /\ e.to = m
        \/ dir # "outgoing" /\ \E e \in typed : e.to = n /\ e.from = m
  <2> HIDE DEF typed
  <2> QED
    BY <1>3 DEF Steps
<1> HIDE DEF typed
<1> QED
  BY <1>4, <1>5, <1>6 DEF Direction

Level == [seen : SUBSET Id, front : SUBSET Id]

\* The breadth-first search discovers, at each depth, what walks of that many steps reach.
LEMMA SearchLevels ==
  ASSUME NEW g, NEW E, Holds(g, E), NEW dir \in Direction, NEW f, NEW i \in Id,
         NEW depth \in Nat
  PROVE  \A d \in 0..depth :
           /\ Visited(g, i, dir, depth, f)[d].seen = Within(Steps(g, dir, f), i, d + 1)
           /\ Visited(g, i, dir, depth, f)[d].front = Discovered(Steps(g, dir, f), i, d)
<1> DEFINE steps == Steps(g, dir, f)
           Onward(seen, front) == (UNION {Neighbors(g, n, dir, f) : n \in front}) \ seen
           Deeper(last) == [seen  |-> last.seen \cup Onward(last.seen, last.front),
                            front |-> Onward(last.seen, last.front)]
           Start == [seen |-> {i}, front |-> {i}]
           At(d) == [seen |-> Within(steps, i, d + 1), front |-> Discovered(steps, i, d)]
           Fits(h) == h = [d \in 0..depth |-> IF d = 0 THEN Start ELSE Deeper(h[d - 1])]
           search == CHOOSE h : Fits(h)
           levels == [d \in 0..depth |-> At(d)]
<1>1. Visited(g, i, dir, depth, f) = search
  BY DEF Visited
<1>2. At(0) = Start
  BY DiscoveredFirst
<1>3. ASSUME NEW d \in 1..depth PROVE At(d) = Deeper(At(d - 1))
  <2>1. d \in Nat \ {0} /\ (d - 1) + 1 = d /\ d - 1 \in Nat
    OBVIOUS
  <2>2. Discovered(steps, i, d - 1) \in SUBSET Id
    BY <2>1 DEF Discovered, Reached, WalksOf
  <2>3. \A y : y \in UNION {Neighbors(g, n, dir, f) : n \in Discovered(steps, i, d - 1)} <=>
               y \in Id /\ \E x \in Discovered(steps, i, d - 1) : <<x, y>> \in steps
    <3> HIDE DEF steps
    <3>1. \A n \in Discovered(steps, i, d - 1) : \A y :
            y \in Neighbors(g, n, dir, f) <=> y \in Id /\ <<n, y>> \in steps
      BY <2>2, NeighborsAreSteps DEF steps
    <3> QED
      BY <3>1
  <2>4. Onward(Within(steps, i, d), Discovered(steps, i, d - 1)) = Discovered(steps, i, d)
    <3> HIDE DEF steps
    <3>1. \A y : y \in Discovered(steps, i, d) <=>
                 /\ y \in UNION {Neighbors(g, n, dir, f) : n \in Discovered(steps, i, d - 1)}
                 /\ y \notin Within(steps, i, d)
      BY <2>1, <2>3, DiscoveredNext
    <3> QED
      BY <3>1
  <2>5. Within(steps, i, d + 1) = Within(steps, i, d) \cup Discovered(steps, i, d)
    BY <2>1, WithinNext DEF Discovered
  <2>6. At(d - 1).seen = Within(steps, i, d) /\ At(d - 1).front = Discovered(steps, i, d - 1)
    BY <2>1
  <2> HIDE DEF steps, Onward
  <2> QED
    BY <2>4, <2>5, <2>6
<1> HIDE DEF At, Start, Deeper, Onward
<1>4. Fits(levels)
  <2>1. \A d \in 0..depth : levels[d] = IF d = 0 THEN Start ELSE Deeper(levels[d - 1])
    <3> TAKE d \in 0..depth
    <3>1. CASE d = 0
      BY <1>2, <3>1
    <3>2. CASE d # 0
      <4>1. d \in 1..depth /\ d - 1 \in 0..depth
        BY <3>2
      <4> QED
        BY <1>3, <4>1
    <3> QED
      BY <3>1, <3>2
  <2> QED
    BY <2>1
<1>5. Fits(search)
  BY <1>4
<1>6. /\ search[0] = Start
      /\ \A d \in 1..depth : search[d] = Deeper(search[d - 1])
  <2> HIDE DEF search
  <2>1. \A d \in 0..depth : search[d] = IF d = 0 THEN Start ELSE Deeper(search[d - 1])
    BY <1>5
  <2> QED
    BY <2>1
<1> HIDE DEF search
<1>7. \A d \in 0..depth : search[d] = At(d)
  <2> DEFINE Good == {d \in Nat : search[d] = At(d)}
  <2>1. 0 \in Good /\ \A d \in 1..depth : d - 1 \in Good => d \in Good
    BY <1>2, <1>3, <1>6
  <2>2. \A d \in 0..depth : d \in Good
    <3> HIDE DEF Good
    <3> QED
      BY <2>1, IntervalInduction
  <2> QED
    BY <2>2
<1>8. \A d \in 0..depth : /\ At(d).seen = Within(steps, i, d + 1)
                           /\ At(d).front = Discovered(steps, i, d)
  BY DEF At
<1> QED
  BY <1>1, <1>7, <1>8

-----------------------------------------------------------------------------
\* The ends of walks, and the shortest of them.
LEMMA EndsOfWalks ==
  ASSUME NEW steps, NEW i, NEW depth \in Nat
  PROVE  {End(p) : p \in Walks(steps, i, depth)} = Within(steps, i, depth + 1)
<1>1. ASSUME NEW p \in Walks(steps, i, depth) PROVE End(p) \in Within(steps, i, depth + 1)
  <2>1. Len(p) \in 1..depth + 1 /\ p \in WalksOf(steps, i, Len(p))
    BY WalksByLength
  <2> QED
    BY <2>1 DEF End, Within, Reached
<1>2. ASSUME NEW y \in Within(steps, i, depth + 1)
      PROVE  \E p \in Walks(steps, i, depth) : End(p) = y
  <2>1. PICK n \in 1..depth + 1 : y \in Reached(steps, i, n)
    BY DEF Within
  <2>2. PICK p \in WalksOf(steps, i, n) : p[n] = y
    BY <2>1 DEF Reached
  <2>3. p \in Walks(steps, i, depth) /\ Len(p) = n
    BY WalksByLength
  <2> QED
    BY <2>2, <2>3 DEF End
<1> QED
  BY <1>1, <1>2

\* A walk that ends where none of fewer steps does.
Direct(steps, i, d) ==
  {p \in WalksOf(steps, i, d + 1) : p[d + 1] \in Discovered(steps, i, d)}

LEMMA ShortestWalks ==
  ASSUME NEW steps, NEW i, NEW depth \in Nat
  PROVE  /\ \A p \in Shortest(Walks(steps, i, depth)) :
              \E d \in 0..depth : p \in Direct(steps, i, d)
         /\ \A d \in 0..depth : \A p \in Direct(steps, i, d) :
              /\ p \in Shortest(Walks(steps, i, depth))
              /\ Len(p) = d + 1 /\ End(p) = p[d + 1]
<1>1. ASSUME NEW p \in Shortest(Walks(steps, i, depth))
      PROVE  \E d \in 0..depth : p \in Direct(steps, i, d)
  <2>1. /\ p \in Walks(steps, i, depth)
        /\ \A q \in Walks(steps, i, depth) : End(q) = End(p) => Len(p) <= Len(q)
    BY DEF Shortest
  <2>2. PICK n \in 1..depth + 1 : n = Len(p) /\ p \in WalksOf(steps, i, n)
    BY <2>1, WalksByLength
  <2>3. PICK d \in 0..depth : n = d + 1
    <3>1. n - 1 \in 0..depth /\ n = (n - 1) + 1
      OBVIOUS
    <3> QED
      BY <3>1
  <2>4. ASSUME p[n] \in Within(steps, i, d) PROVE FALSE
    <3>1. PICK k \in 1..d : p[n] \in Reached(steps, i, k)
      BY <2>4 DEF Within
    <3>2. PICK q \in WalksOf(steps, i, k) : q[k] = p[n]
      BY <3>1 DEF Reached
    <3>3. k \in 1..depth + 1
      BY <2>3
    <3>4. q \in Walks(steps, i, depth) /\ Len(q) = k
      BY <3>3, WalksByLength
    <3>5. n <= k
      BY <2>1, <2>2, <3>2, <3>4 DEF End
    <3> QED
      BY <2>3, <3>5
  <2> QED
    BY <2>2, <2>3, <2>4 DEF Direct, Discovered, Reached
<1>2. ASSUME NEW d \in 0..depth, NEW p \in Direct(steps, i, d)
      PROVE  /\ p \in Shortest(Walks(steps, i, depth))
             /\ Len(p) = d + 1 /\ End(p) = p[d + 1]
  <2>1. p \in WalksOf(steps, i, d + 1) /\ p[d + 1] \notin Within(steps, i, d) /\ d + 1 \in 1..depth + 1
    BY DEF Direct, Discovered
  <2>2. p \in Walks(steps, i, depth) /\ Len(p) = d + 1
    BY <2>1, WalksByLength
  <2>3. ASSUME NEW q \in Walks(steps, i, depth), End(q) = End(p)
        PROVE  Len(p) <= Len(q)
    <3>1. PICK n \in 1..depth + 1 : n = Len(q) /\ q \in WalksOf(steps, i, n)
      BY WalksByLength
    <3>2. p[d + 1] \in Reached(steps, i, n)
      BY <2>2, <2>3, <3>1 DEF End, Reached
    <3>3. n \notin 1..d
      BY <2>1, <3>2 DEF Within
    <3> QED
      BY <2>2, <3>1, <3>3
  <2> QED
    BY <2>2, <2>3 DEF Shortest, End
<1> QED
  BY <1>1, <1>2

\* Every node that a shortest walk passes was discovered when it was reached.
LEMMA DiscoveredOnTheWay ==
  ASSUME NEW steps, NEW i \in Id, NEW d \in Nat, NEW p \in Direct(steps, i, d)
  PROVE  \A k \in 0..d : p[k + 1] \in Discovered(steps, i, k)
<1>1. /\ p \in [1..d + 1 -> Id] /\ p[1] = i
      /\ \A k \in 1..d : <<p[k], p[k + 1]>> \in steps
      /\ p[d + 1] \in Discovered(steps, i, d)
  BY DEF Direct, WalksOf
<1>2. \A n \in 1..d + 1 : p[n] \in Reached(steps, i, n)
  <2> TAKE n \in 1..d + 1
  <2> DEFINE q == [k \in 1..n |-> p[k]]
  <2>1. q \in [1..n -> Id] /\ q[1] = i /\ q[n] = p[n]
    BY <1>1
  <2>2. \A k \in 1..n - 1 : <<q[k], q[k + 1]>> \in steps
    BY <1>1
  <2>3. q \in WalksOf(steps, i, n)
    <3> HIDE DEF q
    <3> QED
      BY <2>1, <2>2 DEF WalksOf
  <2> QED
    BY <2>1, <2>3 DEF Reached
<1>3. ASSUME NEW k \in 1..d, p[k + 1] \in Discovered(steps, i, k)
      PROVE  p[k] \in Discovered(steps, i, k - 1)
  <2>1. PICK c \in 0..d - 1 : k = c + 1
    <3>1. k - 1 \in 0..d - 1 /\ k = (k - 1) + 1
      OBVIOUS
    <3> QED
      BY <3>1
  <2>2. p[k] \in Reached(steps, i, k) /\ p[k + 1] \in Id /\ <<p[k], p[k + 1]>> \in steps
    BY <1>1, <1>2
  <2>3. p[k + 1] \notin Within(steps, i, k)
    BY <1>3 DEF Discovered
  <2>4. p[k] \notin Within(steps, i, c)
    BY <2>1, <2>2, <2>3, WithinStep
  <2>5. k - 1 = c
    BY <2>1
  <2> QED
    BY <2>1, <2>2, <2>4, <2>5 DEF Discovered
<1> DEFINE Good == {m \in Nat : m <= d => p[(d - m) + 1] \in Discovered(steps, i, d - m)}
<1>4. 0 \in Good
  BY <1>1
<1>5. ASSUME NEW m \in 1..d, m - 1 \in Good PROVE m \in Good
  <2>1. PICK k \in 1..d : k = d - m + 1 /\ k = d - (m - 1)
    <3>1. d - m + 1 \in 1..d /\ d - m + 1 = d - (m - 1)
      OBVIOUS
    <3> QED
      BY <3>1
  <2>2. p[k + 1] \in Discovered(steps, i, k)
    BY <1>5, <2>1
  <2>3. p[k] \in Discovered(steps, i, k - 1)
    BY <1>3, <2>2
  <2>4. k - 1 = d - m
    BY <2>1
  <2> QED
    BY <2>1, <2>3, <2>4
<1>6. \A m \in 0..d : m \in Good
  <2> HIDE DEF Good
  <2> QED
    BY <1>4, <1>5, IntervalInduction
<1> QED
  <2> TAKE k \in 0..d
  <2>1. d - k \in 0..d /\ d - (d - k) = k
    OBVIOUS
  <2> DEFINE m == d - k
  <2>2. m \in Good /\ m <= d
    BY <1>6, <2>1
  <2>3. p[(d - m) + 1] \in Discovered(steps, i, d - m)
    BY <2>2
  <2> QED
    BY <2>1, <2>3

\* The paths that parent pointers lead back over, d steps long.
Trails(steps, i, d) ==
  {p \in WalksOf(steps, i, d + 1) : \A k \in 0..d : p[k + 1] \in Discovered(steps, i, k)}

LEMMA DirectTrails ==
  ASSUME NEW steps, NEW i \in Id, NEW d \in Nat
  PROVE  Trails(steps, i, d) = Direct(steps, i, d)
<1>1. \A p \in Direct(steps, i, d) : p \in Trails(steps, i, d)
  BY DiscoveredOnTheWay DEF Direct, Trails
<1>2. \A p \in Trails(steps, i, d) : p \in Direct(steps, i, d)
  BY DEF Direct, Trails
<1> QED
  BY <1>1, <1>2

LEMMA TrailsFirst ==
  ASSUME NEW steps, NEW i \in Id
  PROVE  Trails(steps, i, 0) = {<<i>>}
<1>1. <<i>> \in [1..1 -> Id] /\ <<i>>[1] = i
  OBVIOUS
<1>2. Discovered(steps, i, 0) = {i}
  BY DiscoveredFirst
<1>3. <<i>> \in Trails(steps, i, 0)
  BY <1>1, <1>2 DEF Trails, WalksOf
<1>4. \A p \in [1..1 -> Id] : p[1] = i => p = <<i>>
  OBVIOUS
<1>5. \A p \in Trails(steps, i, 0) : p \in [1..1 -> Id] /\ p[1] = i
  BY DEF Trails, WalksOf
<1> QED
  BY <1>3, <1>4, <1>5

GoesOn(steps, d, p, n, q) == <<p[d], n>> \in steps /\ q = Append(p, n)

LEMMA TrailsNext ==
  ASSUME NEW steps, NEW i \in Id, NEW d \in Nat \ {0}
  PROVE  \A q : q \in Trails(steps, i, d) <=>
                \E p \in Trails(steps, i, d - 1) :
                  \E n \in Discovered(steps, i, d) : GoesOn(steps, d, p, n, q)
<1>1. PICK c \in Nat : d = c + 1 /\ d - 1 = c
  <2>1. d - 1 \in Nat /\ d = (d - 1) + 1
    OBVIOUS
  <2> QED
    BY <2>1
<1>2. ASSUME NEW q \in Trails(steps, i, d)
      PROVE  \E p \in Trails(steps, i, d - 1) :
                \E n \in Discovered(steps, i, d) : GoesOn(steps, d, p, n, q)
  <2> DEFINE p == [k \in 1..d |-> q[k]]
             n == q[d + 1]
  <2>1. /\ q \in [1..d + 1 -> Id] /\ q[1] = i
        /\ \A k \in 1..d : <<q[k], q[k + 1]>> \in steps
        /\ \A k \in 0..d : q[k + 1] \in Discovered(steps, i, k)
    BY DEF Trails, WalksOf
  <2>2. p \in [1..d -> Id] /\ p[1] = i /\ n \in Discovered(steps, i, d) /\ n \in Id
    BY <2>1
  <2>3. <<p[d], n>> \in steps
    BY <2>1
  <2>4. /\ \A k \in 1..d - 1 : <<p[k], p[k + 1]>> \in steps
        /\ \A k \in 0..c : p[k + 1] \in Discovered(steps, i, k)
    BY <1>1, <2>1
  <2>5. q = Append(p, n)
    <3>1. p \in Seq(Id) /\ Len(p) = d
      BY <2>2, LengthOfWalk
    <3>2. q \in Seq(Id) /\ Len(q) = d + 1
      BY <2>1, LengthOfWalk
    <3>3. \A k \in 1..d : p[k] = q[k]
      OBVIOUS
    <3> DEFINE a == Append(p, n)
    <3>4. a \in Seq(Id) /\ Len(a) = d + 1 /\ \A k \in 1..d + 1 : a[k] = q[k]
      <4> HIDE DEF p
      <4> QED
        BY <2>2, <3>1, <3>3, AppendProperties
    <3> HIDE DEF a, p, n
    <3>5. q = a
      BY <3>2, <3>4, SeqEqual
    <3> QED
      BY <3>5 DEF a
  <2>6. p \in Trails(steps, i, d - 1)
    <3> HIDE DEF p
    <3> QED
      BY <1>1, <2>2, <2>4 DEF Trails, WalksOf
  <2> HIDE DEF p, n
  <2> QED
    BY <2>2, <2>3, <2>5, <2>6 DEF GoesOn
<1>3. ASSUME NEW p \in Trails(steps, i, d - 1), NEW n \in Discovered(steps, i, d), NEW q,
             GoesOn(steps, d, p, n, q)
      PROVE  q \in Trails(steps, i, d)
  <2>1. /\ p \in [1..d -> Id] /\ p[1] = i
        /\ \A k \in 1..d - 1 : <<p[k], p[k + 1]>> \in steps
        /\ \A k \in 0..c : p[k + 1] \in Discovered(steps, i, k)
    BY <1>1 DEF Trails, WalksOf
  <2>2. n \in Id
    BY DEF Discovered, Reached, WalksOf
  <2>3. p \in Seq(Id) /\ Len(p) = d
    BY <2>1, LengthOfWalk
  <2> DEFINE a == Append(p, n)
  <2>4. a \in Seq(Id) /\ Len(a) = d + 1 /\ a[d + 1] = n /\ \A k \in 1..d : a[k] = p[k]
    BY <2>2, <2>3, AppendProperties
  <2> HIDE DEF a
  <2>5. a \in [1..d + 1 -> Id] /\ a[1] = i
    <3>1. a \in [1..Len(a) -> Id]
      BY <2>4, LenProperties
    <3> QED
      BY <2>1, <2>4, <3>1
  <2>6. \A k \in 1..(d + 1) - 1 : <<a[k], a[k + 1]>> \in steps
    <3> TAKE k \in 1..(d + 1) - 1
    <3>1. CASE k = d
      <4>1. a[k] = p[d] /\ a[k + 1] = n
        BY <2>4, <3>1
      <4>2. <<p[d], n>> \in steps
        BY <1>3 DEF GoesOn
      <4> QED
        BY <4>1, <4>2
    <3>2. CASE k # d
      <4>1. k \in 1..d - 1 /\ a[k] = p[k] /\ a[k + 1] = p[k + 1]
        BY <2>4, <3>2
      <4> QED
        BY <2>1, <4>1
    <3> QED
      BY <3>1, <3>2
  <2>7. \A k \in 0..d : a[k + 1] \in Discovered(steps, i, k)
    <3> TAKE k \in 0..d
    <3>1. CASE k = d
      BY <2>4, <3>1
    <3>2. CASE k # d
      <4>1. k \in 0..c /\ k + 1 \in 1..d
        BY <1>1, <3>2
      <4> QED
        BY <2>1, <2>4, <4>1
    <3> QED
      BY <3>1, <3>2
  <2>8. a \in WalksOf(steps, i, d + 1)
    BY <2>5, <2>6 DEF WalksOf
  <2> QED
    BY <1>3, <2>7, <2>8 DEF Trails, GoesOn, a
<1> QED
  BY <1>2, <1>3

\* shortest_path leads over the shortest walks, and them only.
LEMMA PathsAreShortest ==
  ASSUME NEW g, NEW E, Holds(g, E), NEW dir \in Direction, NEW f, NEW i \in Id,
         NEW depth \in Nat, NEW j
  PROVE  ShortestPaths(g, i, j, dir, depth, f)
           = {p \in Shortest(Walks(Steps(g, dir, f), i, depth)) : End(p) = j}
<1> DEFINE steps == Steps(g, dir, f)
           search == Visited(g, i, dir, depth, f)
           Onward(p, d) == Neighbors(g, p[d], dir, f) \cap search[d].front
           Longer(T, d) == UNION {{Append(p, n) : n \in Onward(p, d)} : p \in T}
           Fits(h) == h = [d \in 0..depth |-> IF d = 0 THEN {<<i>>} ELSE Longer(h[d - 1], d)]
           trails == CHOOSE h : Fits(h)
           levels == [d \in 0..depth |-> Trails(steps, i, d)]
<1>1. ShortestPaths(g, i, j, dir, depth, f) = {p \in UNION {trails[d] : d \in 0..depth} : p[Len(p)] = j}
  BY DEF ShortestPaths
<1>2. Trails(steps, i, 0) = {<<i>>}
  BY TrailsFirst
<1>3. ASSUME NEW d \in 1..depth PROVE Trails(steps, i, d) = Longer(Trails(steps, i, d - 1), d)
  <2>1. search[d].front = Discovered(steps, i, d) /\ d \in Nat \ {0}
    BY SearchLevels
  <2>2. ASSUME NEW p \in Trails(steps, i, d - 1)
        PROVE  \A n : n \in Onward(p, d) <=> n \in Discovered(steps, i, d) /\ <<p[d], n>> \in steps
    <3>1. p \in [1..(d - 1) + 1 -> Id]
      BY DEF Trails, WalksOf
    <3>2. p[d] \in Id
      BY <3>1
    <3>3. Discovered(steps, i, d) \in SUBSET Id
      BY DEF Discovered, Reached, WalksOf
    <3>4. \A n : n \in Neighbors(g, p[d], dir, f) <=> n \in Id /\ <<p[d], n>> \in steps
      BY <3>2, NeighborsAreSteps
    <3> HIDE DEF steps, search
    <3> QED
      BY <2>1, <3>3, <3>4
  <2> HIDE DEF steps, Onward
  <2>3. \A q : q \in Trails(steps, i, d) <=>
               \E p \in Trails(steps, i, d - 1) :
                 \E n \in Discovered(steps, i, d) : GoesOn(steps, d, p, n, q)
    BY <2>1, TrailsNext
  <2>4. \A q : q \in Longer(Trails(steps, i, d - 1), d) <=>
               \E p \in Trails(steps, i, d - 1) : \E n \in Onward(p, d) : q = Append(p, n)
    OBVIOUS
  <2>5. \A q : q \in Trails(steps, i, d) <=> q \in Longer(Trails(steps, i, d - 1), d)
    BY <2>2, <2>3, <2>4 DEF GoesOn
  <2> QED
    BY <2>5
<1> HIDE DEF Longer
<1>4. Fits(levels)
  <2>1. \A d \in 0..depth : levels[d] = IF d = 0 THEN {<<i>>} ELSE Longer(levels[d - 1], d)
    <3> TAKE d \in 0..depth
    <3>1. CASE d = 0
      BY <1>2, <3>1
    <3>2. CASE d # 0
      <4>1. d \in 1..depth /\ d - 1 \in 0..depth
        BY <3>2
      <4> QED
        BY <1>3, <4>1
    <3> QED
      BY <3>1, <3>2
  <2> QED
    BY <2>1
<1>5. Fits(trails)
  BY <1>4
<1>6. /\ trails[0] = {<<i>>}
      /\ \A d \in 1..depth : trails[d] = Longer(trails[d - 1], d)
  <2> HIDE DEF trails
  <2>1. \A d \in 0..depth : trails[d] = IF d = 0 THEN {<<i>>} ELSE Longer(trails[d - 1], d)
    BY <1>5
  <2> QED
    BY <2>1
<1> HIDE DEF trails, steps
<1>7. \A d \in 0..depth : trails[d] = Direct(steps, i, d)
  <2> DEFINE Good == {d \in Nat : trails[d] = Trails(steps, i, d)}
  <2>1. 0 \in Good /\ \A d \in 1..depth : d - 1 \in Good => d \in Good
    BY <1>2, <1>3, <1>6
  <2>2. \A d \in 0..depth : d \in Good
    <3> HIDE DEF Good
    <3> QED
      BY <2>1, IntervalInduction
  <2> QED
    BY <2>2, DirectTrails
<1>8. UNION {trails[d] : d \in 0..depth} = Shortest(Walks(steps, i, depth))
  BY <1>7, ShortestWalks
<1> QED
  BY <1>1, <1>8 DEF End, steps

-----------------------------------------------------------------------------
\* The other end of an edge that traverse_edges finds at a node.
Peer(dir, e, n) == CASE dir = "incoming" -> e.from
                     [] dir = "outgoing" -> e.to
                     [] dir = "both" -> IF e.to = n THEN e.from ELSE e.to

LEMMA EdgesAt ==
  ASSUME NEW g, NEW E, Holds(g, E), NEW dir \in Direction, NEW f, NEW n
  PROVE  /\ Outgoing(g, n, f) = {e \in Typed(g, f) : e.from = n}
         /\ Incoming(g, n, f) = {e \in Typed(g, f) : e.to = n}
<1>1. AllEdges(g) = E /\ E \in SUBSET Edge /\ g.outgoing = Outs(E) /\ g.incoming = Ins(E)
  BY HeldEdges DEF Holds
<1>2. \A e \in E : FromOut(Out(e)) = e /\ FromIn(In(e)) = e
  BY <1>1, RecordOfEdge
<1>3. /\ \A r : r \in Outs(E) <=> \E e \in E : r = Out(e)
      /\ \A r : r \in Ins(E) <=> \E e \in E : r = In(e)
  BY DEF Outs, Ins
<1>4. \A e : /\ Out(e).at = e.from /\ Out(e).type = e.type
             /\ In(e).at = e.to /\ In(e).type = e.type
  BY DEF Out, In
<1>5. \A e : e \in Typed(g, f) <=> e \in E /\ Passes(e.type, f)
  BY <1>1 DEF Typed
<1>6. \A e : e \in Outgoing(g, n, f) <=> e \in Typed(g, f) /\ e.from = n
  <2>1. \A e : e \in Outgoing(g, n, f) <=>
                 \E r \in Outs(E) : r.at = n /\ Passes(r.type, f) /\ e = FromOut(r)
    BY <1>1 DEF Outgoing
  <2>2. ASSUME NEW e \in Outgoing(g, n, f) PROVE e \in Typed(g, f) /\ e.from = n
    <3>1. PICK r \in Outs(E) : r.at = n /\ Passes(r.type, f) /\ e = FromOut(r)
      BY <2>1
    <3>2. PICK x \in E : r = Out(x)
      BY <1>3
    <3>3. e = x
      BY <1>2, <3>1, <3>2
    <3> QED
      BY <1>4, <1>5, <3>1, <3>2, <3>3
  <2>3. ASSUME NEW e \in Typed(g, f), e.from = n PROVE e \in Outgoing(g, n, f)
    <3>1. e \in E /\ Passes(e.type, f) /\ Out(e) \in Outs(E)
      BY <1>3, <1>5
    <3>2. Out(e).at = n /\ Passes(Out(e).type, f) /\ e = FromOut(Out(e))
      BY <1>2, <1>4, <2>3, <3>1
    <3> QED
      BY <2>1, <3>1, <3>2
  <2> QED
    BY <2>2, <2>3
<1>7. \A e : e \in Incoming(g, n, f) <=> e \in Typed(g, f) /\ e.to = n
  <2>1. \A e : e \in Incoming(g, n, f) <=>
                 \E r \in Ins(E) : r.at = n /\ Passes(r.type, f) /\ e = FromIn(r)
    BY <1>1 DEF Incoming
  <2>2. ASSUME NEW e \in Incoming(g, n, f) PROVE e \in Typed(g, f) /\ e.to = n
    <3>1. PICK r \in Ins(E) : r.at = n /\ Passes(r.type, f) /\ e = FromIn(r)
      BY <2>1
    <3>2. PICK x \in E : r = In(x)
      BY <1>3
    <3>3. e = x
      BY <1>2, <3>1, <3>2
    <3> QED
      BY <1>4, <1>5, <3>1, <3>2, <3>3
  <2>3. ASSUME NEW e \in Typed(g, f), e.to = n PROVE e \in Incoming(g, n, f)
    <3>1. e \in E /\ Passes(e.type, f) /\ In(e) \in Ins(E)
      BY <1>3, <1>5
    <3>2. In(e).at = n /\ Passes(In(e).type, f) /\ e = FromIn(In(e))
      BY <1>2, <1>4, <2>3, <3>1
    <3> QED
      BY <2>1, <3>1, <3>2
  <2> QED
    BY <2>2, <2>3
<1> QED
  BY <1>6, <1>7

LEMMA PeersAreNeighbors ==
  ASSUME NEW g, NEW E, Holds(g, E), NEW dir \in Direction, NEW f, NEW n \in Id
  PROVE  \A m : m \in Neighbors(g, n, dir, f) <=> \E e \in GetEdges(g, n, dir, f) : m = Peer(dir, e, n)
<1>1. Typed(g, f) \in SUBSET Edge
  BY HeldEdges DEF Typed, Holds
<1>2. \A m : m \in Neighbors(g, n, dir, f) <=>
        \/ dir # "incoming" /\ \E e \in Typed(g, f) : e.from = n /\ e.to = m
        \/ dir # "outgoing" /\ \E e \in Typed(g, f) : e.to = n /\ e.from = m
  <2>1. \A m : <<n, m>> \in Steps(g, dir, f) <=>
          \/ dir # "incoming" /\ \E e \in Typed(g, f) : e.from = n /\ e.to = m
          \/ dir # "outgoing" /\ \E e \in Typed(g, f) : e.to = n /\ e.from = m
    BY DEF Steps
  <2>2. \A e \in Typed(g, f) : e.from \in Id /\ e.to \in Id
    BY <1>1 DEF Edge
  <2>3. \A m : m \in Neighbors(g, n, dir, f) <=> m \in Id /\ <<n, m>> \in Steps(g, dir, f)
    BY NeighborsAreSteps
  <2> QED
    BY <2>1, <2>2, <2>3
<1>3. \A e : e \in GetEdges(g, n, dir, f) <=>
        /\ e \in Typed(g, f)
        /\ \/ dir # "incoming" /\ e.from = n
           \/ dir = "incoming" /\ e.to = n
           \/ dir = "both" /\ e.to = n /\ e.from # e.to
  BY EdgesAt DEF GetEdges, Direction
<1>4. CASE dir = "incoming"
  BY <1>2, <1>3, <1>4 DEF Peer
<1>5. CASE dir = "outgoing"
  BY <1>2, <1>3, <1>5 DEF Peer
<1>6. CASE dir = "both"
  BY <1>2, <1>3, <1>6 DEF Peer
<1> QED
  BY <1>4, <1>5, <1>6 DEF Direction

\* traverse_edges discovers a node at the length of the shortest walks to it.
LEMMA HitsAtDistance ==
  ASSUME NEW g, NEW E, Holds(g, E), NEW dir \in Direction, NEW f, NEW i \in Id,
         NEW depth \in Nat
  PROVE  {<<h.id, h.depth>> : h \in DiscoveryHits(g, i, dir, depth, f)}
           = {<<End(p), Len(p) - 1>> :
                p \in {q \in Shortest(Walks(Steps(g, dir, f), i, depth)) : Len(q) > 1}}
<1> DEFINE steps == Steps(g, dir, f)
           search == Visited(g, i, dir, depth, f)
           Hit(e, n, d) == [id |-> Peer(dir, e, n), depth |-> d, edge |-> e]
<1>1. \A h : h \in DiscoveryHits(g, i, dir, depth, f) <=>
        \E d \in 1..depth : \E n \in search[d - 1].front : \E e \in GetEdges(g, n, dir, f) :
          Peer(dir, e, n) \notin search[d - 1].seen /\ h = Hit(e, n, d)
  <2> DEFINE HitsAt(d) == UNION {{Hit(e, n, d) :
                                    e \in {x \in GetEdges(g, n, dir, f) :
                                             Peer(dir, x, n) \notin search[d - 1].seen}} :
                                  n \in search[d - 1].front}
  <2>1. DiscoveryHits(g, i, dir, depth, f) = UNION {HitsAt(d) : d \in 1..depth}
    BY DEF DiscoveryHits, Peer
  <2>2. ASSUME NEW d
        PROVE  \A h : h \in HitsAt(d) <=>
                 \E n \in search[d - 1].front : \E e \in GetEdges(g, n, dir, f) :
                   Peer(dir, e, n) \notin search[d - 1].seen /\ h = Hit(e, n, d)
    <3> HIDE DEF search, Hit
    <3> QED
      OBVIOUS
  <2> HIDE DEF HitsAt, search, Hit
  <2> QED
    BY <2>1, <2>2
<1>2. ASSUME NEW d \in 1..depth
      PROVE  \A x : x \in Discovered(steps, i, d) <=>
               \E n \in search[d - 1].front : \E e \in GetEdges(g, n, dir, f) :
                 Peer(dir, e, n) \notin search[d - 1].seen /\ x = Peer(dir, e, n)
  <2>1. d \in Nat \ {0} /\ d - 1 \in 0..depth /\ (d - 1) + 1 = d
    OBVIOUS
  <2>2. /\ search[d - 1].front = Discovered(steps, i, d - 1)
        /\ search[d - 1].seen = Within(steps, i, d)
    <3>1. /\ search[d - 1].front = Discovered(steps, i, d - 1)
          /\ search[d - 1].seen = Within(steps, i, (d - 1) + 1)
      BY <2>1, SearchLevels
    <3> QED
      BY <2>1, <3>1
  <2>3. Discovered(steps, i, d - 1) \in SUBSET Id
    BY DEF Discovered, Reached, WalksOf
  <2> HIDE DEF steps, search
  <2>4. \A x : x \in Discovered(steps, i, d) <=>
               /\ x \in Id /\ x \notin Within(steps, i, d)
               /\ \E n \in Discovered(steps, i, d - 1) : <<n, x>> \in steps
    BY <2>1, DiscoveredNext
  <2>5. \A n \in Discovered(steps, i, d - 1) : \A x :
           x \in Id /\ <<n, x>> \in steps <=> \E e \in GetEdges(g, n, dir, f) : x = Peer(dir, e, n)
    <3> TAKE n \in Discovered(steps, i, d - 1)
    <3>1. n \in Id
      BY <2>3
    <3>2. \A x : x \in Neighbors(g, n, dir, f) <=> x \in Id /\ <<n, x>> \in steps
      BY <3>1, NeighborsAreSteps DEF steps
    <3>3. \A x : x \in Neighbors(g, n, dir, f) <=> \E e \in GetEdges(g, n, dir, f) : x = Peer(dir, e, n)
      BY <3>1, PeersAreNeighbors
    <3> QED
      BY <3>2, <3>3
  <2>6. ASSUME NEW x \in Discovered(steps, i, d)
        PROVE  \E n \in search[d - 1].front : \E e \in GetEdges(g, n, dir, f) :
                 Peer(dir, e, n) \notin search[d - 1].seen /\ x = Peer(dir, e, n)
    <3>1. PICK n \in Discovered(steps, i, d - 1) : x \in Id /\ <<n, x>> \in steps
      BY <2>4
    <3>2. PICK e \in GetEdges(g, n, dir, f) : x = Peer(dir, e, n)
      BY <2>5, <3>1
    <3>3. x \notin search[d - 1].seen
      BY <2>2, <2>4
    <3> QED
      BY <2>2, <3>2, <3>3
  <2>7. ASSUME NEW n \in search[d - 1].front, NEW e \in GetEdges(g, n, dir, f),
               Peer(dir, e, n) \notin search[d - 1].seen
        PROVE  Peer(dir, e, n) \in Discovered(steps, i, d)
    <3>1. PICK x : x = Peer(dir, e, n)
      OBVIOUS
    <3>2. n \in Discovered(steps, i, d - 1) /\ x \notin Within(steps, i, d)
      BY <2>2, <2>7, <3>1
    <3>3. x \in Id /\ <<n, x>> \in steps
      BY <2>5, <3>1, <3>2
    <3> QED
      BY <2>4, <3>1, <3>2, <3>3
  <2> QED
    BY <2>6, <2>7
<1>3. \A x, d : (\E h \in DiscoveryHits(g, i, dir, depth, f) : h.id = x /\ h.depth = d) <=>
                d \in 1..depth /\ x \in Discovered(steps, i, d)
  <2>1. \A e, n, d : Hit(e, n, d).id = Peer(dir, e, n) /\ Hit(e, n, d).depth = d
    OBVIOUS
  <2> HIDE DEF steps, search, Hit
  <2>2. ASSUME NEW h \in DiscoveryHits(g, i, dir, depth, f)
        PROVE  h.depth \in 1..depth /\ h.id \in Discovered(steps, i, h.depth)
    <3>1. PICK d \in 1..depth : \E n \in search[d - 1].front : \E e \in GetEdges(g, n, dir, f) :
             Peer(dir, e, n) \notin search[d - 1].seen /\ h = Hit(e, n, d)
      BY <1>1
    <3>2. h.depth = d /\ h.id \in Discovered(steps, i, d)
      BY <1>2, <2>1, <3>1
    <3> QED
      BY <3>2
  <2>3. ASSUME NEW d \in 1..depth, NEW x \in Discovered(steps, i, d)
        PROVE  \E h \in DiscoveryHits(g, i, dir, depth, f) : h.id = x /\ h.depth = d
    <3>1. PICK n \in search[d - 1].front : \E e \in GetEdges(g, n, dir, f) :
             Peer(dir, e, n) \notin search[d - 1].seen /\ x = Peer(dir, e, n)
      BY <1>2
    <3>2. PICK e \in GetEdges(g, n, dir, f) :
             Peer(dir, e, n) \notin search[d - 1].seen /\ x = Peer(dir, e, n)
      BY <3>1
    <3>3. Hit(e, n, d) \in DiscoveryHits(g, i, dir, depth, f)
      BY <1>1, <3>2
    <3> QED
      BY <2>1, <3>2, <3>3
  <2> QED
    BY <2>2, <2>3
<1>4. \A x, d : (\E p \in Shortest(Walks(steps, i, depth)) : Len(p) > 1 /\ x = End(p) /\ d = Len(p) - 1) <=>
                d \in 1..depth /\ x \in Discovered(steps, i, d)
  <2> HIDE DEF steps
  <2>1. ASSUME NEW p \in Shortest(Walks(steps, i, depth)), Len(p) > 1
        PROVE  Len(p) - 1 \in 1..depth /\ End(p) \in Discovered(steps, i, Len(p) - 1)
    <3>1. PICK d \in 0..depth : p \in Direct(steps, i, d)
      BY ShortestWalks
    <3>2. Len(p) = d + 1 /\ End(p) = p[d + 1]
      BY <3>1, ShortestWalks
    <3>3. Len(p) - 1 = d /\ d \in 1..depth
      BY <2>1, <3>2
    <3> QED
      BY <3>1, <3>2, <3>3 DEF Direct
  <2>2. ASSUME NEW d \in 1..depth, NEW x \in Discovered(steps, i, d)
        PROVE  \E p \in Shortest(Walks(steps, i, depth)) : Len(p) > 1 /\ x = End(p) /\ d = Len(p) - 1
    <3>1. PICK p \in WalksOf(steps, i, d + 1) : p[d + 1] = x
      BY DEF Discovered, Reached
    <3>2. p \in Direct(steps, i, d) /\ d \in 0..depth
      BY <3>1 DEF Direct
    <3>3. p \in Shortest(Walks(steps, i, depth)) /\ Len(p) = d + 1 /\ End(p) = p[d + 1]
      BY <3>2, ShortestWalks
    <3> QED
      BY <3>1, <3>3
  <2> QED
    BY <2>1, <2>2
<1> DEFINE Hits == DiscoveryHits(g, i, dir, depth, f)
           Paths == Shortest(Walks(steps, i, depth))
<1>5. ASSUME NEW h \in Hits
      PROVE  \E p \in Paths : Len(p) > 1 /\ h.id = End(p) /\ h.depth = Len(p) - 1
  <2> DEFINE x == h.id
             d == h.depth
  <2>1. \E k \in Hits : k.id = x /\ k.depth = d
    OBVIOUS
  <2> HIDE DEF x, d
  <2>2. d \in 1..depth /\ x \in Discovered(steps, i, d)
    BY <1>3, <2>1
  <2>3. \E p \in Paths : Len(p) > 1 /\ x = End(p) /\ d = Len(p) - 1
    BY <1>4, <2>2
  <2> QED
    BY <2>3 DEF x, d
<1>6. ASSUME NEW p \in Paths, Len(p) > 1
      PROVE  \E h \in Hits : h.id = End(p) /\ h.depth = Len(p) - 1
  <2> DEFINE x == End(p)
             d == Len(p) - 1
  <2>1. \E q \in Paths : Len(q) > 1 /\ x = End(q) /\ d = Len(q) - 1
    BY <1>6
  <2> HIDE DEF x, d
  <2>2. d \in 1..depth /\ x \in Discovered(steps, i, d)
    BY <1>4, <2>1
  <2>3. \E h \in Hits : h.id = x /\ h.depth = d
    BY <1>3, <2>2
  <2> QED
    BY <2>3 DEF x, d
<1> HIDE DEF Hits, Paths
<1>7. {<<h.id, h.depth>> : h \in Hits} = {<<End(p), Len(p) - 1>> : p \in {q \in Paths : Len(q) > 1}}
  BY <1>5, <1>6
<1> QED
  BY <1>7 DEF Hits, Paths

\* subgraph: the nodes of the walks, and the edges between them.
Induced(g, f, nodes) ==
  [nodes |-> nodes, edges |-> {e \in Typed(g, f) : {e.from, e.to} \subseteq nodes}]

LEMMA SubgraphSpans ==
  ASSUME NEW g, NEW E, Holds(g, E), NEW dir \in Direction, NEW f, NEW i \in Id,
         NEW depth \in Nat, NEW nodes, nodes = Traverse(g, i, dir, depth, f) \cup {i}
  PROVE  Subgraph(g, i, depth, dir, f) = Induced(g, f, nodes)
<1> DEFINE Spanned(records) == {r \in records : {r.at, r.peer} \subseteq nodes /\ Passes(r.type, f)}
           inner == {e \in Typed(g, f) : {e.from, e.to} \subseteq nodes}
           outs == {FromOut(r) : r \in Spanned(g.outgoing)}
           ins == {FromIn(r) : r \in Spanned(g.incoming)}
<1>1. Subgraph(g, i, depth, dir, f)
        = [nodes |-> nodes, edges |-> outs \cup (IF dir = "outgoing" THEN {} ELSE ins)]
  BY DEF Subgraph
<1>2. AllEdges(g) = E /\ E \in SUBSET Edge /\ g.outgoing = Outs(E) /\ g.incoming = Ins(E)
  BY HeldEdges DEF Holds
<1>3. \A e \in E : FromOut(Out(e)) = e /\ FromIn(In(e)) = e
  BY <1>2, RecordOfEdge
<1>4. /\ \A r : r \in Outs(E) <=> \E e \in E : r = Out(e)
      /\ \A r : r \in Ins(E) <=> \E e \in E : r = In(e)
  BY DEF Outs, Ins
<1>5. \A e : /\ Out(e).at = e.from /\ Out(e).peer = e.to /\ Out(e).type = e.type
             /\ In(e).at = e.to /\ In(e).peer = e.from /\ In(e).type = e.type
  BY DEF Out, In
<1>6. \A e : e \in inner <=> e \in E /\ Passes(e.type, f) /\ e.from \in nodes /\ e.to \in nodes
  BY <1>2 DEF Typed
<1> HIDE DEF inner
<1>7. outs = inner
  <2>1. ASSUME NEW e \in outs PROVE e \in inner
    <3>1. PICK r \in Outs(E) : r.at \in nodes /\ r.peer \in nodes /\ Passes(r.type, f) /\ e = FromOut(r)
      BY <1>2
    <3>2. PICK x \in E : r = Out(x)
      BY <1>4
    <3>3. e = x
      BY <1>3, <3>1, <3>2
    <3> QED
      BY <1>5, <1>6, <3>1, <3>2, <3>3
  <2>2. ASSUME NEW e \in inner PROVE e \in outs
    <3>1. Out(e) \in Outs(E) /\ e = FromOut(Out(e))
      BY <1>3, <1>4, <1>6
    <3>2. Out(e).at \in nodes /\ Out(e).peer \in nodes /\ Passes(Out(e).type, f)
      BY <1>5, <1>6
    <3>3. Out(e) \in Spanned(g.outgoing)
      BY <1>2, <3>1, <3>2
    <3> HIDE DEF Spanned
    <3> QED
      BY <3>1, <3>3
  <2> HIDE DEF outs
  <2> QED
    BY <2>1, <2>2
<1>8. ins \subseteq inner
  <2>1. ASSUME NEW e \in ins PROVE e \in inner
    <3>1. PICK r \in Ins(E) : r.at \in nodes /\ r.peer \in nodes /\ Passes(r.type, f) /\ e = FromIn(r)
      BY <1>2
    <3>2. PICK x \in E : r = In(x)
      BY <1>4
    <3>3. e = x
      BY <1>3, <3>1, <3>2
    <3> QED
      BY <1>5, <1>6, <3>1, <3>2, <3>3
  <2> HIDE DEF ins
  <2> QED
    BY <2>1
<1> HIDE DEF outs, ins
<1>9. outs \cup (IF dir = "outgoing" THEN {} ELSE ins) = inner
  BY <1>7, <1>8
<1> QED
  BY <1>1, <1>9 DEF inner, Induced

\* node_degree counts what get_edges returns.
LEMMA RecordsCounted ==
  ASSUME NEW F \in SUBSET Edge, IsFiniteSet(F)
  PROVE  /\ IsFiniteSet(Outs(F)) /\ Cardinality(Outs(F)) = Cardinality(F)
         /\ IsFiniteSet(Ins(F)) /\ Cardinality(Ins(F)) = Cardinality(F)
<1>1. IsFiniteSet(Outs(F)) /\ Cardinality(Outs(F)) = Cardinality(F)
  BY RecordsOfEdges
<1>2. IsFiniteSet(Ins(F)) /\ Cardinality(Ins(F)) = Cardinality(F)
  <2> DEFINE m == [e \in F |-> In(e)]
  <2>1. m \in [F -> Ins(F)] /\ \A r \in Ins(F) : \E e \in F : m[e] = r
    BY DEF Ins
  <2>2. \A e, x \in F : m[e] = m[x] => e = x
    BY RecordOfEdge
  <2>3. m \in Bijection(F, Ins(F))
    BY <2>1, <2>2 DEF Bijection, Injection, IsInjective, Surjection
  <2> QED
    BY <2>3, FS_Bijection DEF ExistsBijection
<1> QED
  BY <1>1, <1>2

LEMMA DegreeCounts ==
  ASSUME NEW g, NEW E, Holds(g, E), NEW dir \in Direction, NEW f, NEW i \in Id
  PROVE  NodeDegree(g, i, dir, f) = Cardinality(GetEdges(g, i, dir, f))
<1> DEFINE leaving  == {e \in E : e.from = i /\ Passes(e.type, f)}
           entering == {e \in E : e.to = i /\ Passes(e.type, f)}
           turning  == {e \in entering : e.from = i}
<1>1. AllEdges(g) = E /\ E \in SUBSET Edge /\ g.outgoing = Outs(E) /\ g.incoming = Ins(E) /\ IsFiniteSet(E)
  BY HeldEdges DEF Holds
<1>2. /\ leaving \in SUBSET Edge /\ IsFiniteSet(leaving)
      /\ entering \in SUBSET Edge /\ IsFiniteSet(entering)
      /\ turning \in SUBSET Edge /\ IsFiniteSet(turning)
      /\ IsFiniteSet(entering \ turning)
  <2>1. leaving \subseteq E /\ entering \subseteq E /\ turning \subseteq E /\ entering \ turning \subseteq E
    OBVIOUS
  <2> HIDE DEF leaving, entering, turning
  <2> QED
    BY <1>1, <2>1, FS_Subset
<1>3. \A e : /\ Out(e).at = e.from /\ Out(e).peer = e.to /\ Out(e).type = e.type
             /\ In(e).at = e.to /\ In(e).peer = e.from /\ In(e).type = e.type
  BY DEF Out, In
<1>4. /\ {r \in g.outgoing : r.at = i /\ Passes(r.type, f)} = Outs(leaving)
      /\ {r \in g.incoming : r.at = i /\ Passes(r.type, f)} = Ins(entering)
      /\ {r \in Ins(entering) : r.peer = i} = Ins(turning)
  <2>1. \A S, x : /\ x \in Outs(S) <=> \E e \in S : x = Out(e)
                  /\ x \in Ins(S) <=> \E e \in S : x = In(e)
    BY DEF Outs, Ins
  <2>2. \A x : x \in {r \in g.outgoing : r.at = i /\ Passes(r.type, f)} <=> x \in Outs(leaving)
    <3>1. ASSUME NEW x \in Outs(E), x.at = i, Passes(x.type, f)
          PROVE  x \in Outs(leaving)
      <4>1. PICK e \in E : x = Out(e)
        BY <2>1
      <4>2. e \in leaving
        BY <1>3, <3>1, <4>1
      <4> QED
        BY <2>1, <4>1, <4>2
    <3>2. ASSUME NEW x \in Outs(leaving)
          PROVE  x \in Outs(E) /\ x.at = i /\ Passes(x.type, f)
      <4>1. PICK e \in leaving : x = Out(e)
        BY <2>1
      <4>2. e \in E
        OBVIOUS
      <4> QED
        BY <1>3, <2>1, <4>1, <4>2
    <3> HIDE DEF leaving
    <3> QED
      BY <1>1, <3>1, <3>2
  <2>3. \A x : x \in {r \in g.incoming : r.at = i /\ Passes(r.type, f)} <=> x \in Ins(entering)
    <3>1. ASSUME NEW x \in Ins(E), x.at = i, Passes(x.type, f)
          PROVE  x \in Ins(entering)
      <4>1. PICK e \in E : x = In(e)
        BY <2>1
      <4>2. e \in entering
        BY <1>3, <3>1, <4>1
      <4> QED
        BY <2>1, <4>1, <4>2
    <3>2. ASSUME NEW x \in Ins(entering)
          PROVE  x \in Ins(E) /\ x.at = i /\ Passes(x.type, f)
      <4>1. PICK e \in entering : x = In(e)
        BY <2>1
      <4>2. e \in E
        OBVIOUS
      <4> QED
        BY <1>3, <2>1, <4>1, <4>2
    <3> HIDE DEF entering
    <3> QED
      BY <1>1, <3>1, <3>2
  <2>4. \A x : x \in {r \in Ins(entering) : r.peer = i} <=> x \in Ins(turning)
    <3>1. ASSUME NEW x \in Ins(entering), x.peer = i
          PROVE  x \in Ins(turning)
      <4>1. PICK e \in entering : x = In(e)
        BY <2>1
      <4>2. e \in turning
        BY <1>3, <3>1, <4>1
      <4> QED
        BY <2>1, <4>1, <4>2
    <3>2. ASSUME NEW x \in Ins(turning)
          PROVE  x \in Ins(entering) /\ x.peer = i
      <4>1. PICK e \in turning : x = In(e)
        BY <2>1
      <4>2. e \in entering
        OBVIOUS
      <4> QED
        BY <1>3, <2>1, <4>1, <4>2
    <3> HIDE DEF turning, entering
    <3> QED
      BY <3>1, <3>2
  <2> HIDE DEF leaving, entering, turning
  <2>5. {r \in g.outgoing : r.at = i /\ Passes(r.type, f)} = Outs(leaving)
    BY <2>2
  <2>6. {r \in g.incoming : r.at = i /\ Passes(r.type, f)} = Ins(entering)
    BY <2>3
  <2>7. {r \in Ins(entering) : r.peer = i} = Ins(turning)
    BY <2>4
  <2> QED
    BY <2>5, <2>6, <2>7
<1>5. Outgoing(g, i, f) = leaving /\ Incoming(g, i, f) = entering
  BY <1>1, EdgesAt DEF Typed
<1>6. NodeDegree(g, i, dir, f) = CASE dir = "outgoing" -> Cardinality(leaving)
                                  [] dir = "incoming" -> Cardinality(entering)
                                  [] dir = "both" -> Cardinality(leaving) + Cardinality(entering)
                                                       - Cardinality(turning)
  <2>1. NodeDegree(g, i, dir, f) = CASE dir = "outgoing" -> Cardinality(Outs(leaving))
                                    [] dir = "incoming" -> Cardinality(Ins(entering))
                                    [] dir = "both" -> Cardinality(Outs(leaving)) + Cardinality(Ins(entering))
                                                         - Cardinality(Ins(turning))
    BY <1>4 DEF NodeDegree
  <2> HIDE DEF leaving, entering, turning
  <2> QED
    BY <1>2, <2>1, RecordsCounted
<1>7. CASE dir = "both"
  <2> DEFINE others == entering \ turning
  <2>1. leaving \cap others = {}
    OBVIOUS
  <2>2. GetEdges(g, i, dir, f) = leaving \cup others
    <3>1. {e \in entering : e.from # e.to} = others
      OBVIOUS
    <3> HIDE DEF leaving, entering, turning
    <3> QED
      BY <1>5, <1>7, <3>1 DEF GetEdges
  <2>3. turning \subseteq entering
    OBVIOUS
  <2> HIDE DEF leaving, entering, turning
  <2>4. Cardinality(others) = Cardinality(entering) - Cardinality(turning)
    <3>1. entering \cap turning = turning
      BY <2>3
    <3>2. Cardinality(entering \ turning) = Cardinality(entering) - Cardinality(entering \cap turning)
      BY <1>2, FS_Difference
    <3> QED
      BY <3>1, <3>2
  <2> HIDE DEF others
  <2>5. Cardinality(leaving \cup others)
          = Cardinality(leaving) + Cardinality(others) - Cardinality({})
    BY <1>2, <2>1, FS_Union DEF others
  <2>6. Cardinality(leaving) \in Nat /\ Cardinality(entering) \in Nat /\ Cardinality(turning) \in Nat
        /\ Cardinality({}) = 0
    BY <1>2, FS_CardinalityType, FS_EmptySet
  <2> QED
    <3>1. NodeDegree(g, i, dir, f) = Cardinality(leaving) + Cardinality(entering) - Cardinality(turning)
      BY <1>6, <1>7
    <3> QED
      BY <2>2, <2>4, <2>5, <2>6, <3>1
<1>8. CASE dir # "both"
  <2> HIDE DEF leaving, entering, turning
  <2> QED
    BY <1>5, <1>6, <1>8 DEF GetEdges, Direction
<1> QED
  BY <1>7, <1>8

\* What a graph answers to the searches from a node, and to an expansion from several.
LEMMA SearchesAnswer ==
  ASSUME NEW g, NEW E, Holds(g, E), NEW dir \in Direction, NEW f, NEW i \in Id,
         NEW depth \in Nat
  PROVE  SearchesAgree(g, i, dir, depth, f)
<1> DEFINE steps == Steps(g, dir, f)
           walks == Walks(steps, i, depth)
           ends == {End(p) : p \in walks}
           paths == Shortest(walks)
<1>1. ends = Within(steps, i, depth + 1)
  BY EndsOfWalks
<1>2. i \in ends
  <2>1. 1 \in 1..depth + 1 /\ i \in Reached(steps, i, 1)
    BY ReachedFirst
  <2> HIDE DEF steps, ends
  <2> QED
    BY <1>1, <2>1 DEF Within
<1>3. Traverse(g, i, dir, depth, f) = ends \ {i}
  <2>1. depth \in 0..depth
    OBVIOUS
  <2>2. Visited(g, i, dir, depth, f)[depth].seen = Within(steps, i, depth + 1)
    BY <2>1, SearchLevels
  <2> HIDE DEF steps, ends
  <2> QED
    BY <1>1, <2>2 DEF Traverse
<1>4. {<<h.id, h.depth>> : h \in DiscoveryHits(g, i, dir, depth, f)}
        = {<<End(p), Len(p) - 1>> : p \in {q \in paths : Len(q) > 1}}
  BY HitsAtDistance
<1>5. \A j \in Id : ShortestPaths(g, i, j, dir, depth, f) = {p \in paths : End(p) = j}
  BY PathsAreShortest
<1>6. Subgraph(g, i, depth, dir, f) = Induced(g, f, ends)
  <2> HIDE DEF ends
  <2>1. ends = Traverse(g, i, dir, depth, f) \cup {i}
    BY <1>2, <1>3
  <2> QED
    BY <2>1, SubgraphSpans
<1>7. \A j \in Id : HasPath(g, i, j, dir, depth, f) <=> j \in ends
  <2> HIDE DEF ends
  <2> QED
    BY <1>2, <1>3 DEF HasPath
<1> QED
  BY <1>3, <1>4, <1>5, <1>6, <1>7 DEF SearchesAgree, Induced

LEMMA ExpansionTyped ==
  ASSUME NEW g, NEW E, Holds(g, E), NEW dir \in Direction, NEW f, NEW depth \in Nat,
         NEW seeds \in SUBSET Id
  PROVE  ExpandGraph(g, seeds, depth, dir, f).edges \subseteq Typed(g, f)
<1>1. \A i \in seeds : Subgraph(g, i, depth, dir, f).edges \subseteq Typed(g, f)
  <2> TAKE i \in seeds
  <2> DEFINE nodes == Traverse(g, i, dir, depth, f) \cup {i}
  <2>1. i \in Id /\ nodes = Traverse(g, i, dir, depth, f) \cup {i}
    OBVIOUS
  <2> HIDE DEF nodes
  <2>2. Subgraph(g, i, depth, dir, f) = Induced(g, f, nodes)
    BY <2>1, SubgraphSpans
  <2> QED
    BY <2>2 DEF Induced
<1>2. ExpandGraph(g, seeds, depth, dir, f).edges
        = UNION {x.edges : x \in {Subgraph(g, i, depth, dir, f) : i \in seeds}}
  BY DEF ExpandGraph
<1> QED
  BY <1>1, <1>2

\* At every state, and for any depth, every query answers what the set of edges says:
\* a search finds what walks reach, at the length of the shortest and over those.
THEOREM QueriesCorrect == Spec => []QueriesAgree
<1>1. ASSUME IInv PROVE QueriesAgree
  <2> SUFFICES ASSUME NEW dir \in Direction, NEW f \in Type, NEW depth \in 1..MaxAdds
               PROVE  /\ \A i \in Id :
                           /\ SearchesAgree(mem.graph, i, dir, depth, f)
                           /\ NodeDegree(mem.graph, i, dir, f)
                                = Cardinality(GetEdges(mem.graph, i, dir, f))
                      /\ \A seeds \in SUBSET Id :
                           ExpandGraph(mem.graph, seeds, depth, dir, f).edges
                             \subseteq Typed(mem.graph, f)
    BY DEF QueriesAgree
  <2>1. PICK g : g = mem.graph
    OBVIOUS
  <2>2. Holds(g, AllEdges(g)) /\ depth \in Nat
    BY <1>1, <2>1, BoundAssumption DEF IInv, Fit
  <2>3. \A i \in Id : /\ SearchesAgree(g, i, dir, depth, f)
                      /\ NodeDegree(g, i, dir, f) = Cardinality(GetEdges(g, i, dir, f))
    BY <2>2, SearchesAnswer, DegreeCounts
  <2>4. \A seeds \in SUBSET Id : ExpandGraph(g, seeds, depth, dir, f).edges \subseteq Typed(g, f)
    BY <2>2, ExpansionTyped
  <2> QED
    BY <2>1, <2>3, <2>4
<1>2. IInv => QueriesAgree
  BY <1>1
<1> QED
  BY <1>2, Invariance, PTL
=============================================================================
