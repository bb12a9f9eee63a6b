----------------------------- MODULE GraphStore -----------------------------
(***************************************************************************)
(* The graph of a persistent store: src/vector/store/edge_ops.rs, the      *)
(* cascade of deletes in crud.rs, the collection of orphans in             *)
(* lifecycle.rs, and how edges reach the disk and come back                *)
(* (persistence.rs).                                                       *)
(*                                                                         *)
(* The files are reduced to what decides about edges: the log, the edges   *)
(* and ids of the newest snapshots, and whether a fast checkpoint (which   *)
(* leaves the edges of the manifest alone) is possible.  OmenStore has the *)
(* steps of a checkpoint; here each is one step, at the end of the call    *)
(* that finds the log full.                                                *)
(***************************************************************************)
EXTENDS EdgeStore, SequencesExt, FiniteSetsExt

CONSTANTS LogLimit,      \* wal_auto_checkpoint_entries
          Calls,         \* bound: the calls that are made
          MaxAdds,       \* bound: edges that are added
          MaxCalls,      \* bound: other calls
          MaxRestarts,   \* bound: restarts of the process
          StaleManifest  \* whether a fast checkpoint may be made while the
                         \* manifest has edges and the graph has none

ASSUME BoundAssumption == MaxCalls \in Nat /\ MaxAdds \in Nat /\ MaxRestarts \in Nat

VARIABLES mem,    \* the store in memory
          disk,   \* its files
          budget  \* what is left of the bounds

vars == <<mem, disk, budget>>

\* An edge entry of the log, and a record entry.
EdgeEntry == [op : {"edge", "unedge"}, edge : Edge]
RecordEntry == [op : {"record", "unrecord"}, id : Id]

TypeOK ==
  /\ mem \in [graph : Graph, enabled : BOOLEAN,
              live : SUBSET Id,   \* the ids that have a record
              dead : BOOLEAN,     \* some slot is a tombstone
              dirty : BOOLEAN,    \* some slot is dirty
              vecs : BOOLEAN]     \* .vecs is mapped
  /\ disk \in [log : Seq(EdgeEntry \cup RecordEntry), edges : SUBSET Edge,
               enabled : BOOLEAN, live : SUBSET Id, dead : BOOLEAN, vecs : BOOLEAN]
  /\ budget \in [calls : 0..MaxCalls, adds : 0..MaxAdds, restarts : 0..MaxRestarts]

-----------------------------------------------------------------------------
\* Checkpoints.

\* (Mutation of RequiresFull: edges do not matter.)
RequiresFullNever(m) == FALSE

RequiresFull(m) == m.graph.count > 0

HasSlots(m) == m.live # {} \/ m.dead

\* The manifest gets the edges and the schema; the log is emptied.
FullCheckpoint(m, d) ==
  [mem  |-> [m EXCEPT !.dirty = FALSE, !.vecs = HasSlots(m)],
   disk |-> [log |-> << >>, edges |-> AllEdges(m.graph), enabled |-> m.enabled,
             live |-> m.live, dead |-> m.dead, vecs |-> HasSlots(m)]]

\* Only the records are written, to the slim snapshot; the log is emptied.
FastCheckpoint(m, d) ==
  [mem  |-> [m EXCEPT !.dirty = FALSE],
   disk |-> [d EXCEPT !.log = << >>, !.live = m.live, !.dead = m.dead]]

TakesFast(m) == m.vecs /\ ~RequiresFull(m)

\* checkpoint_wal
CheckpointWal(m, d) ==
  IF ~TakesFast(m) THEN FullCheckpoint(m, d)
  ELSE IF m.dirty THEN FastCheckpoint(m, d) ELSE [mem |-> m, disk |-> d]

\* The end of a call that logged something: it makes a checkpoint if the log is full.
Return(m, d) ==
  LET full == Len(d.log) >= LogLimit
      end  == IF full THEN CheckpointWal(m, d) ELSE [mem |-> m, disk |-> d]
  IN  /\ full /\ TakesFast(m) /\ m.dirty => StaleManifest \/ d.edges = {}
      /\ mem' = end.mem
      /\ disk' = end.disk

\* A call that adds n edges, and any other call.
Adding(name, n) == /\ name \in Calls
                   /\ mem.enabled
                   /\ budget.adds >= n
                   /\ budget' = [budget EXCEPT !.adds = @ - n]

Called(name) == /\ name \in Calls
                /\ budget.calls > 0
                /\ budget' = [budget EXCEPT !.calls = @ - 1]

Log(entries) == [disk EXCEPT !.log = @ \o entries]

-----------------------------------------------------------------------------
\* Calls.

EnableGraph == /\ Called("enable")
               /\ ~mem.enabled
               /\ mem' = [mem EXCEPT !.enabled = TRUE]
               /\ UNCHANGED disk

EdgeAdded(e) == [op |-> "edge", edge |-> e]
EdgeDeleted(e) == [op |-> "unedge", edge |-> e]

AddEdge(e) == /\ Adding("add", 1)
              /\ Return([mem EXCEPT !.graph = Added(@, {e})], Log(<<EdgeAdded(e)>>))

\* A batch is logged as a whole, and then added edge by edge.  Bound: two edges
\* between the same ends.
AddEdges(e, x) == /\ e.from = x.from /\ e.to = x.to
                  /\ Adding("add_batch", 2)
                  /\ Return([mem EXCEPT !.graph = Added(Added(@, {e}), {x})],
                            Log(<<EdgeAdded(e), EdgeAdded(x)>>))

\* An edge that is not there is not logged.
RemoveEdge(e) == /\ Called("remove")
                 /\ HasEdge(mem.graph, e)
                 /\ Return([mem EXCEPT !.graph = Dropped(@, {e})], Log(<<EdgeDeleted(e)>>))

\* A set of a record: an update leaves a tombstone.  Edges are not touched.
SetRecord(i) ==
  /\ Called("set")
  /\ Return([mem EXCEPT !.live = @ \cup {i}, !.dead = @ \/ i \in mem.live, !.dirty = TRUE],
            Log(<<[op |-> "record", id |-> i]>>))

\* (Mutation of DeleteEntries: the record goes first.)
DeleteEntriesLast(g, i) ==
  {<<[op |-> "unrecord", id |-> i]>> \o s :
     s \in SetToSeqs({EdgeDeleted(e) : e \in EdgesInvolving(g, i)})}

\* What delete logs: its edges, in the order of the lists, and then the record.
DeleteEntries(g, i) ==
  {s \o <<[op |-> "unrecord", id |-> i]>> :
     s \in SetToSeqs({EdgeDeleted(e) : e \in EdgesInvolving(g, i)})}

WithoutRecord(m, i) == [m EXCEPT !.graph = Detached(@, i), !.live = @ \ {i},
                                 !.dead = TRUE, !.dirty = TRUE]

Delete(i) ==
  /\ Called("delete")
  /\ i \in mem.live
  /\ \E s \in DeleteEntries(mem.graph, i) : Return(WithoutRecord(mem, i), Log(s))

\* delete_batch collects the edges of each record in turn, and logs them before
\* any record.
DeleteBatch(i, j) ==
  LET first == WithoutRecord(mem, i)
      both  == EdgesInvolving(mem.graph, i) \cup EdgesInvolving(first.graph, j)
  IN  /\ Called("delete_batch")
      /\ i # j /\ {i, j} \subseteq mem.live
      /\ \E s \in SetToSeqs({EdgeDeleted(e) : e \in both}) :
           Return(WithoutRecord(first, j),
                  Log(s \o <<[op |-> "unrecord", id |-> i], [op |-> "unrecord", id |-> j]>>))

Packed(m) == [m EXCEPT !.graph = Collected(@, m.live), !.dead = FALSE, !.dirty = m.live # {}]

Compact == /\ Called("compact")
           /\ mem.dead
           /\ mem' = Packed(mem)
           /\ UNCHANGED disk

\* A flush compacts first if too many slots are tombstones.
Flush == /\ Called("flush")
         /\ \E m \in {mem} \cup {Packed(x) : x \in {y \in {mem} : y.dead}} :
              LET end == FullCheckpoint(m, disk)
              IN  mem' = end.mem /\ disk' = end.disk

-----------------------------------------------------------------------------
\* Recovery.

\* replay_wal_into_records: inserts and deletes of edges are collected apart; an
\* insert that is deleted again is dropped.
Replayed(delta, e) ==
  CASE e.op = "edge"     -> [delta EXCEPT !.upserts = Added(@, {e.edge}), !.any = TRUE]
    [] e.op = "unedge"   -> [delta EXCEPT !.upserts = Dropped(@, {e.edge}),
                                          !.deletes = @ \cup {e.edge}]
    [] e.op = "record"   -> [delta EXCEPT !.live = @ \cup {e.id}, !.dirty = TRUE,
                                          !.dead = @ \/ e.id \in delta.live]
    [] e.op = "unrecord" -> IF e.id \in delta.live
                            THEN [delta EXCEPT !.live = @ \ {e.id}, !.dirty = TRUE, !.dead = TRUE]
                            ELSE delta

Replay(d) ==
  LET start == [upserts |-> NoEdges, deletes |-> {}, any |-> FALSE,
                live |-> d.live, dead |-> d.dead, dirty |-> FALSE]
      after[n \in 0..Len(d.log)] ==
        IF n = 0 THEN start ELSE Replayed(after[n - 1], d.log[n])
  IN  after[Len(d.log)]

\* initialize_ancillary_indexes: the deletes are applied to the edges of the
\* manifest, and then the upserts.
MergedEdges(saved, delta) ==
  Added(Dropped(FromBytes(saved), delta.deletes), AllEdges(delta.upserts))

\* What a restart would find.  (The delta is named, so that TLC replays the log once.)
SavedEdges(d) == UNION {AllEdges(MergedEdges(d.edges, delta)) : delta \in {Replay(d)}}

\* A schema without a graph is taken for one with a graph if there is an edge store.
Recovered(d) ==
  LET delta == Replay(d)
  IN  [graph |-> MergedEdges(d.edges, delta),
       enabled |-> d.enabled \/ d.edges # {} \/ delta.any,
       live |-> delta.live, dead |-> delta.dead, dirty |-> delta.dirty, vecs |-> d.vecs]

RestartFrom(d) == /\ budget.restarts > 0
                  /\ budget' = [budget EXCEPT !.restarts = @ - 1]
                  /\ disk' = d
                  /\ mem' = Recovered(d)

Restart == RestartFrom(disk)

\* A call that logs several entries is interrupted before its fsync: the log ends
\* after any of them.
DieInDelete(i) ==
  /\ "delete" \in Calls /\ i \in mem.live
  /\ \E s \in DeleteEntries(mem.graph, i) :
       \E n \in 1..Len(s) : RestartFrom(Log(SubSeq(s, 1, n)))

\* Bound: while an edge may still be added.
DieInAddEdges(e) ==
  /\ "add_batch" \in Calls /\ mem.enabled /\ budget.adds > 0
  /\ RestartFrom(Log(<<EdgeAdded(e)>>))

-----------------------------------------------------------------------------
\* A store that was created, with a graph in its schema or without one, and that may
\* have been filled with records and flushed since.
Init == /\ \E graph \in BOOLEAN, live \in {{}, Id} :
             disk = [log |-> << >>, edges |-> {}, enabled |-> graph, live |-> live,
                     dead |-> FALSE, vecs |-> live # {}]
        /\ mem = Recovered(disk)
        /\ budget = [calls |-> MaxCalls, adds |-> MaxAdds, restarts |-> MaxRestarts]

Next == \/ EnableGraph
        \/ \E e \in Edge : AddEdge(e) \/ DieInAddEdges(e)
        \/ \E e, x \in Edge : AddEdges(e, x)
        \/ \E e \in AllEdges(mem.graph) : RemoveEdge(e)
        \/ \E i \in Id : SetRecord(i) \/ Delete(i) \/ DieInDelete(i)
        \/ \E i, j \in Id : DeleteBatch(i, j)
        \/ Compact
        \/ Flush
        \/ Restart

Spec == Init /\ [][Next]_vars

-----------------------------------------------------------------------------
\* Properties.

\* The two adjacencies of a graph hold the same edges, one of a type between two
\* ends, the lists exist, and the cached count is right.
IsMirrored(g) ==
  /\ {FromOut(r) : r \in g.outgoing} = {FromIn(r) : r \in g.incoming}
  /\ \A r, s \in g.outgoing : SameEdge(r, s) => r = s
  /\ {r.at : r \in g.outgoing} \subseteq g.outKeys
  /\ {r.at : r \in g.incoming} \subseteq g.inKeys
  /\ g.count = Cardinality(g.outgoing)

\* Through replacements, cascades over self-loops and parallel edges, collections
\* and every recovery, the adjacencies mirror each other.
Mirrored == IsMirrored(mem.graph)

\* The edges of a type, the steps that they allow, and the walks from i that take at
\* most depth of them, as the nodes passed; where walks end, and the shortest to each end.
Typed(g, f) == {e \in AllEdges(g) : Passes(e.type, f)}

Steps(g, dir, f) ==
  {<<e.from, e.to>> : e \in {x \in Typed(g, f) : dir # "incoming"}}
    \cup {<<e.to, e.from>> : e \in {x \in Typed(g, f) : dir # "outgoing"}}

Walks(steps, i, depth) ==
  {p \in UNION {[1..n -> Id] : n \in 1..depth + 1} :
     p[1] = i /\ \A k \in 1..Len(p) - 1 : <<p[k], p[k + 1]>> \in steps}

End(p) == p[Len(p)]

Shortest(walks) == {p \in walks : \A q \in walks : End(q) = End(p) => Len(p) <= Len(q)}

\* What is traversed, at what distance and over which paths are the ends and the lengths
\* of walks, and a subgraph has the edges between its nodes, whichever direction found them.
SearchesAgree(g, i, dir, depth, f) ==
  LET walks == Walks(Steps(g, dir, f), i, depth)
      ends  == {End(p) : p \in walks}
      paths == Shortest(walks)
  IN  /\ Traverse(g, i, dir, depth, f) = ends \ {i}
      /\ Subgraph(g, i, depth, dir, f) =
           [nodes |-> ends, edges |-> {e \in Typed(g, f) : {e.from, e.to} \subseteq ends}]
      /\ {<<h.id, h.depth>> : h \in DiscoveryHits(g, i, dir, depth, f)}
           = {<<End(p), Len(p) - 1>> : p \in {q \in paths : Len(q) > 1}}
      /\ \A j \in Id :
           /\ HasPath(g, i, j, dir, depth, f) <=> j \in ends
           /\ ShortestPaths(g, i, j, dir, depth, f) = {p \in paths : End(p) = j}

\* The queries, which walk lists that calls have replaced, emptied and cascaded over,
\* agree with the set of edges.  (Bound: as long as a call is left.)
QueriesAgree ==
  budget.calls > 0 => \A dir \in Direction, f \in Type, depth \in 1..MaxAdds :
    LET g == mem.graph
    IN  /\ \A i \in Id :
             /\ SearchesAgree(g, i, dir, depth, f)
             /\ NodeDegree(g, i, dir, f) = Cardinality(GetEdges(g, i, dir, f))
        /\ \A seeds \in SUBSET Id :
             ExpandGraph(g, seeds, depth, dir, f).edges \subseteq Typed(g, f)

\* The edges that only the files have: a compaction collected them, and a restart
\* would bring them back.
Lingering == SavedEdges(disk) \ AllEdges(mem.graph)

\* However a delete of i is interrupted, the reopened store does not lack the
\* record and yet have an edge of it that was there before.
NoHalfDelete ==
  [][ budget'.restarts < budget.restarts =>
        \A i \in mem.live \ mem'.live :
          DieInDelete(i) => EdgesInvolving(mem'.graph, i) \subseteq Lingering ]_vars

Map == INSTANCE EdgeMap
         WITH edges <- AllEdges(mem.graph), count <- mem.graph.count,
              lingering <- Lingering, restarts <- MaxRestarts - budget.restarts

\* What each call, and a restart between two calls or inside one, must do to the edges.
EachAdd == \A e \in Edge : AddEdge(e) => Map!Put(e)

EachBatch == \A e, x \in Edge : AddEdges(e, x) => Map!PutBoth(e, x)

EachOther ==
  /\ \A e \in AllEdges(mem.graph) : RemoveEdge(e) => Map!Drop(e)
  /\ \A i \in Id : /\ SetRecord(i) => Map!Keep
                   /\ Delete(i) => Map!DropNodes({i})
                   /\ \A j \in Id : DeleteBatch(i, j) => Map!DropNodes({i, j})
  /\ EnableGraph => Map!Keep
  /\ Compact => Map!Collect(mem.live)
  /\ Flush => Map!Keep \/ Map!Collect(mem.live)

EachRestart ==
  /\ Restart => Map!Restart
  /\ \A i \in Id : DieInDelete(i) => Map!RestartInDrop(i)
  /\ \A e \in Edge : DieInAddEdges(e) => Map!RestartInPut(e)

\* A step is held against the calls that take from the bounds what it took.
EachCall == /\ budget'.adds = budget.adds - 1 => EachAdd
            /\ budget'.adds = budget.adds - 2 => EachBatch
            /\ budget'.calls < budget.calls => EachOther
            /\ budget'.restarts < budget.restarts => EachRestart

\* Every call does to the set of edges what the call is for, whatever checkpoint it
\* ends in, and a restart loses no edge and brings none back, but those of the one call
\* it interrupts and those a compaction collected and no checkpoint has forgotten.
ImplementsEdgeMap == Map!Spec /\ [][EachCall]_vars
=============================================================================
