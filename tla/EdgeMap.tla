------------------------------ MODULE EdgeMap ------------------------------
(***************************************************************************)
(* What the graph of a persistent store promises: a set of edges, at most  *)
(* one of a type between two ends, that a restart leaves as it is, except  *)
(* for the edges a compaction collected and no checkpoint has forgotten    *)
(* yet, and for those of a call that was interrupted.  Which of these      *)
(* operations a call must be is said in GraphStore, call by call.          *)
(***************************************************************************)
EXTENDS Naturals, FiniteSets

CONSTANTS Id, Type, Datum

VARIABLES edges,      \* the edges a caller sees
          lingering,  \* edges collected, which a restart would bring back
          count,      \* what edge_count returns
          restarts    \* how often the process was restarted, so that no
                      \* restart passes for a call

Edge == [from : Id, to : Id, type : Type, data : Datum]

SameEnds(e, x) == e.from = x.from /\ e.to = x.to /\ e.type = x.type

TypeOK == /\ edges \subseteq Edge
          /\ lingering \subseteq Edge
          /\ count \in Nat
          /\ restarts \in Nat

Init == edges = {} /\ lingering = {} /\ count = 0 /\ restarts = 0

With(set, e) == {x \in set : ~SameEnds(e, x)} \cup {e}

Touching(i) == {e \in edges : i \in {e.from, e.to}}

-----------------------------------------------------------------------------
\* Calls.

\* A call that leaves the edges of a set.  It may end in a checkpoint, which forgets
\* edges that linger.
Leave(set) == /\ edges' = set
              /\ lingering' \subseteq lingering
              /\ UNCHANGED restarts

Keep == Leave(edges)

Put(e) == Leave(With(edges, e))

PutBoth(e, x) == Leave(With(With(edges, e), x))

Drop(e) == e \in edges /\ Leave(edges \ {e})

DropNodes(I) == Leave({e \in edges : {e.from, e.to} \cap I = {}})

\* Compaction drops edges whose ends are not both records.
Collect(L) == /\ edges' = {e \in edges : {e.from, e.to} \subseteq L}
              /\ lingering' \subseteq lingering \cup (edges \ edges')
              /\ UNCHANGED restarts

-----------------------------------------------------------------------------
\* Restarts.

\* A restart that finds the edges of a set: an edge that lingers comes back unless one
\* in its place was found.
RestartWith(set) ==
  /\ edges' = set \cup {x \in lingering : \A e \in set : ~SameEnds(e, x)}
  /\ lingering' = {}
  /\ restarts' = restarts + 1

\* Between calls: nothing is lost.
Restart == RestartWith(edges)

\* In a call that takes a node away: some of the node's edges may be gone already.
RestartInDrop(i) == \E S \in SUBSET Touching(i) : RestartWith(edges \ S)

\* In a call that adds several edges: the first of them may be in.
RestartInPut(e) == RestartWith(With(edges, e))

Next == /\ \/ \E e, x \in edges' : PutBoth(e, x)
           \/ Keep
           \/ \E e \in edges : Drop(e)
           \/ \E I \in SUBSET Id : DropNodes(I)
           \/ \E L \in SUBSET Id : Collect(L)
           \/ Restart
           \/ \E i \in Id : RestartInDrop(i)
           \/ \E e \in edges' : RestartInPut(e)
        /\ edges' \subseteq Edge
        /\ count' = Cardinality(edges')

Spec == Init /\ [][Next]_<<edges, lingering, count, restarts>>
=============================================================================
