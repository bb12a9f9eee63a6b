----------------------------- MODULE EdgeStore -----------------------------
(***************************************************************************)
(* EdgeStore (src/vector/store/edge_store.rs): typed directed edges between *)
(* document ids, kept twice, as the outgoing records of one end and the    *)
(* incoming records of the other, with a cached count.  Every operator is  *)
(* what a method makes of a store g, or returns from it.                   *)
(*                                                                         *)
(* An adjacency is a set of records [at, peer, type, data]: the lists of   *)
(* the code without their order, on which only the choice among equally    *)
(* short paths depends.  data is the weight and the metadata.              *)
(***************************************************************************)
EXTENDS Integers, FiniteSets, Sequences

CONSTANTS Id,      \* document ids
          Type,    \* edge types
          Datum,   \* weight and metadata of an edge
          AnyType  \* the absent type filter

ASSUME AnyTypeAssumption == AnyType \notin Type

Direction == {"outgoing", "incoming", "both"}

Edge == [from : Id, to : Id, type : Type, data : Datum]

EdgeRecord == [at : Id, peer : Id, type : Type, data : Datum]

\* The two adjacencies, the ids that have a list in each (lists are not dropped
\* when they become empty), and the edge count.
Graph == [outgoing : SUBSET EdgeRecord, incoming : SUBSET EdgeRecord,
          outKeys : SUBSET Id, inKeys : SUBSET Id, count : Nat]

NoEdges == [outgoing |-> {}, incoming |-> {}, outKeys |-> {}, inKeys |-> {}, count |-> 0]

Out(e) == [at |-> e.from, peer |-> e.to, type |-> e.type, data |-> e.data]
In(e)  == [at |-> e.to, peer |-> e.from, type |-> e.type, data |-> e.data]

\* The edge that an outgoing, or an incoming, record stands for.
FromOut(r) == [from |-> r.at, to |-> r.peer, type |-> r.type, data |-> r.data]
FromIn(r)  == [from |-> r.peer, to |-> r.at, type |-> r.type, data |-> r.data]

SameEdge(r, s) == r.at = s.at /\ r.peer = s.peer /\ r.type = s.type

\* The records among R of the edges of a set, and the others.  (`position' finds the
\* first record of an edge; there is one at most, see GraphStore!Mirrored.)
Without(R, gone) == {r \in R : ~\E s \in gone : SameEdge(r, s)}

HasEdge(g, e) == \E r \in g.outgoing : SameEdge(r, Out(e))

Outs(S) == {Out(e) : e \in S}
Ins(S)  == {In(e) : e \in S}

-----------------------------------------------------------------------------
\* Updates.  Loops over edges of different ends or types are one operator: their
\* rounds commute.

\* (Mutation of Added: the incoming record of an edge that is replaced stays.)
AddedOutOnly(g, S) ==
  LET new == {e \in S : ~HasEdge(g, e)}
  IN  [g EXCEPT !.outgoing = Without(@, Outs(S)) \cup Outs(S),
                !.incoming = @ \cup Ins(new),
                !.outKeys = @ \cup {e.from : e \in S},
                !.inKeys = @ \cup {e.to : e \in S},
                !.count = @ + Cardinality(new)]

\* add_edge for the edges of S: an edge of the same type between the same ends is
\* replaced in both lists.
Added(g, S) ==
  LET new   == {e \in S : ~HasEdge(g, e)}
      found == {e \in S : \E r \in g.incoming : SameEdge(r, In(e))}
  IN  [g EXCEPT !.outgoing = Without(@, Outs(S)) \cup Outs(S),
                !.incoming = Without(@, Ins(S \ new)) \cup Ins(new \cup found),
                !.outKeys = @ \cup {e.from : e \in S},
                !.inKeys = @ \cup {e.to : e \in S},
                !.count = @ + Cardinality(new)]

\* usize::saturating_sub
Less(n, k) == IF k > n THEN 0 ELSE n - k

\* (Mutation of Dropped: an edge that was not there is counted, without a floor.)
DroppedUnknown(g, S) ==
  LET known == {r \in g.outgoing : \E e \in S : SameEdge(r, Out(e))}
  IN  [g EXCEPT !.outgoing = @ \ known,
                !.incoming = Without(@, {In(FromOut(r)) : r \in known}),
                !.count = @ - Cardinality(S)]

\* remove_edge for the edges of S: one that is not found outgoing is left alone.
Dropped(g, S) ==
  LET known == {r \in g.outgoing : \E e \in S : SameEdge(r, Out(e))}
  IN  [g EXCEPT !.outgoing = @ \ known,
                !.incoming = Without(@, {In(FromOut(r)) : r \in known}),
                !.count = Less(@, Cardinality(known))]

\* remove_all_for takes the outgoing list of i, with the mirror of each of its
\* records, and then what is left of the incoming list, likewise.
Detached(g, i) ==
  LET outs == {FromOut(r) : r \in {s \in g.outgoing : s.at = i}}
      mid  == [Dropped(g, outs) EXCEPT !.outKeys = @ \ {i}]
      ins  == {FromIn(r) : r \in {s \in mid.incoming : s.at = i}}
  IN  [mid EXCEPT !.incoming = @ \ Ins(ins),
                  !.outgoing = Without(@, Outs(ins)),
                  !.inKeys = @ \ {i},
                  !.count = Less(@, Cardinality(ins))]

\* all_edges, and to_bytes, which writes the same records.
AllEdges(g) == {FromOut(r) : r \in g.outgoing}

\* from_bytes
FromBytes(edges) == Added(NoEdges, edges)

\* gc_orphaned: remove_edge for every edge with an end that is not live.
Collected(g, live) ==
  Dropped(g, {e \in AllEdges(g) : ~({e.from, e.to} \subseteq live)})

\* edges_involving: what a cascade delete logs.
EdgesInvolving(g, i) ==
  {FromOut(r) : r \in {s \in g.outgoing : s.at = i}} \cup
  {FromIn(r) : r \in {s \in g.incoming : s.at = i /\ s.peer # i}}

-----------------------------------------------------------------------------
\* Queries.

Passes(type, filter) == filter \in {AnyType, type}

\* get_outgoing, get_incoming
Outgoing(g, i, f) == {FromOut(r) : r \in {s \in g.outgoing : s.at = i /\ Passes(s.type, f)}}
Incoming(g, i, f) == {FromIn(r) : r \in {s \in g.incoming : s.at = i /\ Passes(s.type, f)}}

\* get_edges: a self-loop is returned once.
GetEdges(g, i, dir, f) ==
  (IF dir \in {"outgoing", "both"} THEN Outgoing(g, i, f) ELSE {}) \cup
  (CASE dir = "incoming" -> Incoming(g, i, f)
     [] dir = "both" -> {e \in Incoming(g, i, f) : e.from # e.to}
     [] OTHER -> {})

GetEdge(g, i, j, t) == {FromOut(r) : r \in {s \in g.outgoing : s.at = i /\ s.peer = j /\ s.type = t}}

\* node_degree counts list entries.
NodeDegree(g, i, dir, f) ==
  LET outs  == {r \in g.outgoing : r.at = i /\ Passes(r.type, f)}
      ins   == {r \in g.incoming : r.at = i /\ Passes(r.type, f)}
      loops == {r \in ins : r.peer = i}
  IN  CASE dir = "outgoing" -> Cardinality(outs)
        [] dir = "incoming" -> Cardinality(ins)
        [] dir = "both" -> Cardinality(outs) + Cardinality(ins) - Cardinality(loops)

\* neighbors
Neighbors(g, i, dir, f) ==
  {r.peer : r \in {s \in (IF dir = "incoming" THEN {} ELSE g.outgoing) \cup
                         (IF dir = "outgoing" THEN {} ELSE g.incoming) :
                     s.at = i /\ Passes(s.type, f)}}

\* The breadth-first search of traverse, has_path, shortest_path and
\* traverse_edges, level by level: the nodes visited, and those last discovered.
Visited(g, start, dir, depth, f) ==
  LET search[d \in 0..depth] ==
        IF d = 0 THEN [seen |-> {start}, front |-> {start}]
        ELSE LET last == search[d - 1]
                 new  == (UNION {Neighbors(g, n, dir, f) : n \in last.front}) \ last.seen
             IN  [seen |-> last.seen \cup new, front |-> new]
  IN  search

\* (Mutation of Traverse: one level too few.)
TraverseShallow(g, start, dir, depth, f) ==
  Visited(g, start, dir, depth, f)[Less(depth, 1)].seen \ {start}

Traverse(g, start, dir, depth, f) == Visited(g, start, dir, depth, f)[depth].seen \ {start}

HasPath(g, i, j, dir, depth, f) == i = j \/ j \in Traverse(g, i, dir, depth, f)

\* shortest_path: the paths that parent pointers can give, one for each order of
\* the lists; none if j is not reached.
ShortestPaths(g, i, j, dir, depth, f) ==
  LET search == Visited(g, i, dir, depth, f)
      Onward(p, d) == Neighbors(g, p[d], dir, f) \cap search[d].front
      trails[d \in 0..depth] ==
        IF d = 0 THEN {<<i>>}
        ELSE UNION {{Append(p, n) : n \in Onward(p, d)} : p \in trails[d - 1]}
  IN  {p \in UNION {trails[d] : d \in 0..depth} : p[Len(p)] = j}

\* traverse_edges: the edges over which a node may be discovered, at its depth.
DiscoveryHits(g, start, dir, depth, f) ==
  LET search == Visited(g, start, dir, depth, f)
      Peer(e, n) == CASE dir = "incoming" -> e.from
                      [] dir = "outgoing" -> e.to
                      [] dir = "both" -> IF e.to = n THEN e.from ELSE e.to
      HitsAt(d) == UNION {{[id |-> Peer(e, n), depth |-> d, edge |-> e] :
                             e \in {x \in GetEdges(g, n, dir, f) :
                                      Peer(x, n) \notin search[d - 1].seen}} :
                           n \in search[d - 1].front}
  IN  UNION {HitsAt(d) : d \in 1..depth}

\* subgraph: the nodes within reach and the edges found in their lists.
Subgraph(g, i, depth, dir, f) ==
  LET nodes == Traverse(g, i, dir, depth, f) \cup {i}
      Within(records) == {r \in records : {r.at, r.peer} \subseteq nodes /\ Passes(r.type, f)}
  IN  [nodes |-> nodes,
       edges |-> {FromOut(r) : r \in Within(g.outgoing)} \cup
                 (IF dir = "outgoing" THEN {} ELSE {FromIn(r) : r \in Within(g.incoming)})]

\* QueryPlanner::expand_graph: the subgraphs of the seeds together.
ExpandGraph(g, seeds, depth, dir, f) ==
  LET found == {Subgraph(g, i, depth, dir, f) : i \in seeds}
  IN  [nodes |-> UNION {x.nodes : x \in found}, edges |-> UNION {x.edges : x \in found}]

EdgeTypes(g) == {r.type : r \in g.outgoing}

\* node_ids: the ids that have a list, even an empty one.
NodeIds(g) == g.outKeys \cup g.inKeys
=============================================================================
