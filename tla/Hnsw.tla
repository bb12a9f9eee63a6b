-------------------------------- MODULE Hnsw --------------------------------
(***************************************************************************)
(* HNSWIndex (src/vector/hnsw/index and storage): the layered graph of the *)
(* search engine, its insertion, which a parallel build runs on several    *)
(* threads, and its two searches.                                          *)
(*                                                                         *)
(* Vectors are members of a set, of which only the distances matter: what  *)
(* the metric is (L2, Cosine, NegDot) is left to a constant.  A node's     *)
(* level, random in the code, is chosen with its vector.  A step of a      *)
(* worker reads or writes one row of the neighbour matrix.  A write holds  *)
(* the row's lock; a read holds none, and what it can mix of two writes of *)
(* a row, nodes of the graph all the same, is left out.                    *)
(* Equal distances are ordered by the node's number.                       *)
(***************************************************************************)
EXTENDS Integers, Sequences, FiniteSets, FiniteSetsExt, SequencesExt

CONSTANTS
  Point,      \* the vectors
  Dist(_, _), \* Distance::distance of two of them; a dot product may be negative
  MaxLevel,   \* params.max_level
  M,          \* params.m
  Ef,         \* params.ef_construction
  WarmStart,  \* PARALLEL_BUILD_WARM_START
  Worker,     \* the threads of the pool
  MaxBuilt,   \* bounds: the nodes of an index that was built in parallel
  MaxNodes,   \* and of one that was not
  None

ASSUME ParamsAssumption ==
  /\ \A x, y \in Point : Dist(x, y) \in Int
  /\ M \in Nat \ {0} /\ Ef \in Nat /\ Ef >= M
  /\ MaxLevel \in Nat \ {0}
  /\ None \notin Nat

VARIABLES
  graph,    \* [vec, level, links, entry], nodes numbered from 1
  built,    \* how many nodes build_parallel_from_refs was given
  pending,  \* the nodes that are stored and not yet linked
  work      \* what each worker does

vars == <<graph, built, pending, work>>

Level == 0..MaxLevel

EmptyRows == [lc \in Level |-> << >>]

Size(g) == Len(g.vec)

DistTo(g, q, n) == Dist(q, g.vec[n])

\* The order of Candidate: by distance and then by node.
Before(g, q, x, y) ==
  \/ DistTo(g, q, x) < DistTo(g, q, y)
  \/ DistTo(g, q, x) = DistTo(g, q, y) /\ x < y

InOrder(g, q, S) ==
  [i \in 1..Cardinality(S) |-> CHOOSE x \in S : Cardinality({y \in S : Before(g, q, y, x)}) = i - 1]

Closest(g, q, S) == CHOOSE x \in S : \A y \in S : y = x \/ Before(g, q, x, y)
Farthest(g, q, S) == CHOOSE x \in S : \A y \in S : y = x \/ Before(g, q, y, x)

\* m_for_level, and the capacity of a row.
MForLevel(lc) == IF lc = 0 THEN 2 * M ELSE M

\* add_node
WithNode(g, v, l) ==
  [g EXCEPT !.vec = Append(@, v), !.level = Append(@, l), !.links = Append(@, EmptyRows)]

-----------------------------------------------------------------------------
\* The steps of searching and linking.

Nearer(g, q, best, x) == IF DistTo(g, q, x) < DistTo(g, q, best) THEN x ELSE best

\* One pass of the greedy descent over a row.
Descended(g, q, n, lc) ==
  LET row == g.links[n][lc]
      best[i \in 0..Len(row)] == IF i = 0 THEN n ELSE Nearer(g, q, best[i - 1], row[i])
  IN  best[Len(row)]

\* A bounded heap: the ef first.
Trimmed(g, q, S, ef) == IF Cardinality(S) > ef THEN S \ {Farthest(g, q, S)} ELSE S

Admits(g, q, S, ef, x) ==
  Cardinality(S) < ef \/ DistTo(g, q, x) < DistTo(g, q, Farthest(g, q, S))

\* (Mutation of Stops: the search stops at the first node that is worse.)
StopsEarly(g, q, st, ef) ==
  \E x \in st.found : DistTo(g, q, Closest(g, q, st.frontier)) > DistTo(g, q, x)

\* The nearest open node is farther than the ef-th found.
Stops(g, q, st, ef) ==
  /\ Cardinality(st.found) >= ef
  /\ DistTo(g, q, Closest(g, q, st.frontier)) > DistTo(g, q, Farthest(g, q, st.found))

\* search_layer_for_insertion and the beam search of search_internal: the state after
\* the nearest open node's row was read.
BeamFrom(S) == [frontier |-> S, found |-> S, visited |-> S]

Visit(g, q, ef, st, x) ==
  IF x \in st.visited THEN st
  ELSE IF ~Admits(g, q, st.found, ef, x) THEN [st EXCEPT !.visited = @ \cup {x}]
  ELSE [frontier |-> st.frontier \cup {x}, found |-> Trimmed(g, q, st.found \cup {x}, ef),
        visited |-> st.visited \cup {x}]

Expanded(g, q, ef, lc, st) ==
  LET current == Closest(g, q, st.frontier)
      row     == g.links[current][lc]
      after[i \in 0..Len(row)] ==
        IF i = 0 THEN [st EXCEPT !.frontier = @ \ {current}]
        ELSE Visit(g, q, ef, after[i - 1], row[i])
  IN  IF Stops(g, q, st, ef) THEN [st EXCEPT !.frontier = {}] ELSE after[Len(row)]

\* (Mutation of SelectNeighbors: the m nearest, wherever they are.)
SelectNearest(g, q, candidates, m) ==
  LET order == InOrder(g, q, candidates) IN SubSeq(order, 1, Min({Len(order), m}))

Considered(g, q, m, selected, c) ==
  IF \/ Len(selected) = m
     \/ \E n \in DOMAIN selected : Dist(g.vec[c], g.vec[selected[n]]) < DistTo(g, q, c)
  THEN selected ELSE Append(selected, c)

\* select_neighbors_heuristic: of more than m candidates those that are not closer to
\* one selected before than to the node.
SelectNeighbors(g, q, candidates, m) ==
  LET order == InOrder(g, q, candidates)
      selected[i \in 0..Len(order)] ==
        IF i = 0 THEN << >> ELSE Considered(g, q, m, selected[i - 1], order[i])
  IN  IF Cardinality(candidates) <= m THEN order ELSE selected[Len(order)]

\* (Mutation of WithReverseLink: a full row is not pruned.)
WithReverseLinkUnpruned(g, n, node, lc) ==
  LET row == g.links[n][lc]
  IN  IF node \in Range(row) THEN g ELSE [g EXCEPT !.links[n][lc] = Append(row, node)]

\* The update of a neighbour's row: node is added, and a row that is too long selected
\* anew.
WithReverseLink(g, n, node, lc) ==
  LET row   == g.links[n][lc]
      added == IF node \in Range(row) THEN row ELSE Append(row, node)
  IN  [g EXCEPT !.links[n][lc] =
         IF Len(added) <= MForLevel(lc) THEN added
         ELSE SelectNeighbors(g, g.vec[n], Range(added), MForLevel(lc))]

-----------------------------------------------------------------------------
\* Searching: HNSWIndex::search and search_with_filter on a published view.

Strode(g, q, at) ==
  LET next == Descended(g, q, at.node, at.lc)
  IN  IF at.lc = 0 THEN at
      ELSE IF next = at.node THEN [at EXCEPT !.lc = @ - 1] ELSE [at EXCEPT !.node = next]

\* The descent to the bottom layer: a pass gets closer to q, or is the layer's last.
Greedy(g, q) ==
  LET at[k \in 0..Size(g) + MaxLevel] ==
        IF k = 0 THEN [node |-> g.entry, lc |-> g.level[g.entry]] ELSE Strode(g, q, at[k - 1])
  IN  at[Size(g) + MaxLevel]

StartOf(g, q) == Greedy(g, q).node

\* The loop over the frontier, which a node enters once.
Walked(g, q, ef, st) == IF st.frontier = {} THEN st ELSE Expanded(g, q, ef, 0, st)

Beam(g, q, ef, st) ==
  LET after[k \in 0..Size(g)] == IF k = 0 THEN st ELSE Walked(g, q, ef, after[k - 1])
  IN  after[Size(g)]

Take(seq, k) == SubSeq(seq, 1, Min({Len(seq), k}))

\* search: None for an ef that is too small.
Search(g, q, k, ef) ==
  IF g.entry = None \/ k = 0 THEN << >>
  ELSE IF ef < k THEN None
  ELSE Take(InOrder(g, q, Beam(g, q, ef, BeamFrom({StartOf(g, q)})).found), k)

\* search_internal_filtered: nodes that fail the filter are walked through, and kept
\* out of the hits.
FilteredVisit(g, q, k, ef, pass, st, x) ==
  [beam |-> Visit(g, q, ef, st.beam, x),
   hits |-> IF x \notin st.beam.visited /\ x \in pass /\ Admits(g, q, st.hits, k, x)
            THEN Trimmed(g, q, st.hits \cup {x}, k) ELSE st.hits]

FilteredWalked(g, q, k, ef, pass, st) ==
  LET current == Closest(g, q, st.beam.frontier)
      row     == g.links[current][0]
      after[i \in 0..Len(row)] ==
        IF i = 0 THEN [st EXCEPT !.beam.frontier = @ \ {current}]
        ELSE FilteredVisit(g, q, k, ef, pass, after[i - 1], row[i])
  IN  IF st.beam.frontier = {} THEN st
      ELSE IF Stops(g, q, st.beam, ef) THEN [st EXCEPT !.beam.frontier = {}]
      ELSE after[Len(row)]

FilteredBeam(g, q, k, ef, pass, st) ==
  LET after[n \in 0..Size(g)] ==
        IF n = 0 THEN st ELSE FilteredWalked(g, q, k, ef, pass, after[n - 1])
  IN  after[Size(g)]

SearchWithFilter(g, q, k, ef, pass) ==
  IF g.entry = None \/ k = 0 THEN << >>
  ELSE LET start == StartOf(g, q)
           st    == [beam |-> BeamFrom({start}), hits |-> {start} \cap pass]
       IN  InOrder(g, q, FilteredBeam(g, q, k, Max({ef, 4 * k, 100}), pass, st).hits)

-----------------------------------------------------------------------------
\* Building and inserting.

Idle == [phase |-> "idle"]

\* build_parallel_from_refs stores all nodes first; the first is the entry point.
Init ==
  /\ built \in 0..MaxBuilt
  /\ \E vec \in [1..built -> Point], level \in [1..built -> Level] :
       graph = [vec |-> vec, level |-> level, links |-> [n \in 1..built |-> EmptyRows],
                entry |-> IF built = 0 THEN None ELSE 1]
  /\ pending = 2..built
  /\ work = [w \in Worker |-> Idle]

\* The warm start and later inserts are exclusive.
Exclusive(n) == n <= WarmStart \/ n > built

Resting == pending = {} /\ \A w \in Worker : work[w] = Idle

\* insert and insert_with_slot, which ignores the slot.
Insert(v, l) ==
  /\ Resting
  /\ Size(graph) < IF built > WarmStart THEN MaxBuilt ELSE MaxNodes
  /\ LET g == WithNode(graph, v, l)
         n == Size(g)
     IN  IF graph.entry = None
         THEN graph' = [g EXCEPT !.entry = n] /\ UNCHANGED pending
         ELSE graph' = g /\ pending' = {n}
  /\ UNCHANGED <<built, work>>

\* The state of a worker that is about to search level lc from ep.
Searching(task, lc, ep) ==
  [phase |-> "search", node |-> task.node, ef |-> task.ef, lc |-> lc, beam |-> BeamFrom(ep)]

\* insert_into_graph_from_entry: the entry point is read once.
Begin(w, n) ==
  /\ work[w] = Idle /\ n \in pending
  /\ IF Exclusive(n)
     THEN n = Min(pending) /\ \A x \in Worker : work[x] = Idle
     ELSE /\ \A x \in pending : ~Exclusive(x)
          /\ \A x \in Worker : work[x] # Idle => ~Exclusive(work[x].node)
  /\ pending' = pending \ {n}
  /\ LET e    == graph.entry
         task == [node |-> n, ef |-> IF Exclusive(n) THEN Ef ELSE 2 * Ef]
     IN  work' = [work EXCEPT ![w] =
           IF graph.level[e] > graph.level[n]
           THEN [phase |-> "descend", node |-> n, ef |-> task.ef, lc |-> graph.level[e], near |-> e]
           ELSE Searching(task, graph.level[n], {e})]
  /\ UNCHANGED <<graph, built>>

Descend(w) ==
  LET t    == work[w]
      next == Descended(graph, graph.vec[t.node], t.near, t.lc)
  IN  /\ t.phase = "descend"
      /\ work' = [work EXCEPT ![w] =
           IF next # t.near THEN [t EXCEPT !.near = next]
           ELSE IF t.lc - 1 > graph.level[t.node] THEN [t EXCEPT !.lc = @ - 1]
           ELSE Searching(t, graph.level[t.node], {next})]
      /\ UNCHANGED <<graph, built, pending>>

Expand(w) ==
  LET t == work[w]
  IN  /\ t.phase = "search" /\ t.beam.frontier # {}
      /\ work' = [work EXCEPT ![w].beam = Expanded(graph, graph.vec[t.node], t.ef, t.lc, @)]
      /\ UNCHANGED <<graph, built, pending>>

\* set_neighbors: the node's row is overwritten, whatever another worker put there.
Link(w) ==
  LET t        == work[w]
      selected == SelectNeighbors(graph, graph.vec[t.node], t.beam.found, MForLevel(t.lc))
  IN  /\ t.phase = "search" /\ t.beam.frontier = {}
      /\ graph' = [graph EXCEPT !.links[t.node][t.lc] = selected]
      /\ work' = [work EXCEPT ![w] = [phase |-> "reverse", node |-> t.node, ef |-> t.ef,
                                      lc |-> t.lc, ep |-> Range(selected), left |-> selected]]
      /\ UNCHANGED <<built, pending>>

LinkBack(w) ==
  LET t == work[w]
  IN  /\ t.phase = "reverse" /\ t.left # << >>
      /\ graph' = WithReverseLink(graph, Head(t.left), t.node, t.lc)
      /\ work' = [work EXCEPT ![w].left = Tail(@)]
      /\ UNCHANGED <<built, pending>>

NextLevel(w) ==
  LET t == work[w]
  IN  /\ t.phase = "reverse" /\ t.left = << >> /\ t.lc > 0
      /\ work' = [work EXCEPT ![w] = Searching(t, t.lc - 1, t.ep)]
      /\ UNCHANGED <<graph, built, pending>>

\* (Mutation of Raised: the entry point of the warm start is kept.)
RaisedNever(g, n) == g

\* The entry point, and its level, are compared and replaced under one lock.
Raised(g, n) == IF g.level[n] > g.level[g.entry] THEN [g EXCEPT !.entry = n] ELSE g

Finish(w) ==
  LET t == work[w]
  IN  /\ t.phase = "reverse" /\ t.left = << >> /\ t.lc = 0
      /\ graph' = Raised(graph, t.node)
      /\ work' = [work EXCEPT ![w] = Idle]
      /\ UNCHANGED <<built, pending>>

Step(w) == \/ \E n \in pending : Begin(w, n)
           \/ Descend(w) \/ Expand(w) \/ Link(w) \/ LinkBack(w) \/ NextLevel(w) \/ Finish(w)

Next == \/ \E v \in Point, l \in Level : Insert(v, l)
        \/ \E w \in Worker : Step(w)

Spec == Init /\ [][Next]_vars
-----------------------------------------------------------------------------
\* Properties.

\* Rows hold existing nodes, each once, and no more than there is room for.
TypeOK ==
  /\ graph.entry \in 1..Size(graph) \cup {None}
  /\ \A n \in 1..Size(graph), lc \in Level :
       LET row == graph.links[n][lc]
       IN  /\ row \in Seq(1..Size(graph))
           /\ Len(row) <= MForLevel(lc)
           /\ Cardinality(Range(row)) = Len(row)

\* When no insertion is under way the entry point is on the top level of the graph, on
\* which every search starts: whatever the order in which the workers finished.
EntryHighest ==
  Resting /\ graph.entry # None => \A n \in 1..Size(graph) : graph.level[n] <= graph.level[graph.entry]

\* The nodes that the links of the bottom layer lead to from S.
Closed(g, C) == \A n \in C : Range(g.links[n][0]) \subseteq C

Reach(g, S) ==
  {x \in 1..Size(g) :
     \A C \in SUBSET (1..Size(g)) : S \subseteq C /\ Closed(g, C) => x \in C}

\* The vectors lie along a line, bent or straight: in some order of the nodes, of three
\* the outer ones are farther apart than either is from the one between.
AlongLine(g) ==
  \E place \in [1..Size(g) -> 1..Size(g)] :
    /\ IsInjective(place)
    /\ \A x, y, z \in 1..Size(g) : place[x] < place[y] /\ place[y] < place[z] =>
         Dist(g.vec[x], g.vec[z]) > Max({Dist(g.vec[x], g.vec[y]), Dist(g.vec[y], g.vec[z])})

\* Nodes inserted one at a time along a line, with an ef_construction that spans the
\* graph, are all within reach of the entry point: pruning a row keeps a link in either
\* direction of the line.  It is no more than that: with vectors in more directions than
\* a row has room for, select_neighbors_heuristic may leave the new node only its nearest
\* neighbour (insert.rs:92), whose full row then drops it again (insert.rs:118), and no
\* search finds it.  A parallel build gives no guarantee either: two workers may
\* overwrite each other's links.
AllReachable ==
  Resting /\ graph.entry # None /\ built <= WarmStart /\ AlongLine(graph) =>
    Reach(graph, {graph.entry}) = 1..Size(graph)

\* The k nearest of the candidates, nearest first; of equal distances any.
AreNearest(g, q, k, seq, candidates) ==
  /\ IsInjective(seq)
  /\ Len(seq) = Min({k, Cardinality(candidates)})
  /\ Range(seq) \subseteq candidates
  /\ \A i \in DOMAIN seq, x \in candidates :
       x \in Range(SubSeq(seq, 1, i)) \/ DistTo(g, q, x) >= DistTo(g, q, seq[i])

\* With an ef as large as the graph, a search is exact on what the bottom layer links
\* to the node where the descent ends: it returns the k nearest of those nodes, and a
\* filtered search the k nearest of those that pass.  With the smallest ef it still
\* returns as many hits as there are nodes to return.
SearchExact ==
  Resting /\ graph.entry # None =>
    \A q \in Point, k \in 1..Size(graph) :
      LET inReach == Reach(graph, {StartOf(graph, q)})
          all     == Size(graph)
      IN  /\ AreNearest(graph, q, k, Search(graph, q, k, all), inReach)
          /\ Len(Search(graph, q, k, k)) = Min({k, Cardinality(inReach)})
          /\ \A pass \in SUBSET (1..Size(graph)) :
               AreNearest(graph, q, k, SearchWithFilter(graph, q, k, all, pass), inReach \cap pass)
=============================================================================
