------------------------------- MODULE MCHnsw -------------------------------
(***************************************************************************)
(* Hnsw on points of the plane under L2, which compares squared distances: *)
(* three close together on a line, one far out on it, and one off it.      *)
(***************************************************************************)
EXTENDS Hnsw

OnAxis == {<<0, 0>>, <<1, 0>>, <<2, 0>>, <<5, 0>>}
OffAxis == <<1, -3>>

Plane == OnAxis \cup {OffAxis}

Squared(x, y) == (x[1] - y[1]) * (x[1] - y[1]) + (x[2] - y[2]) * (x[2] - y[2])

\* Bound: at most two nodes have the same vector.  With one off the axis all vectors are
\* different, and all nodes on the bottom layer.
FewRepeated ==
  /\ Cardinality(Range(graph.vec)) >= Size(graph) - 1
  /\ OffAxis \in Range(graph.vec) =>
       IsInjective(graph.vec) /\ \A n \in 1..Size(graph) : graph.level[n] = 0
=============================================================================
