-------------------------- MODULE ConcurrentStore --------------------------
(***************************************************************************)
(* Threads that share one VectorStore through ThreadSafeVectorStore        *)
(* (src/vector/store/thread_safe.rs): the calls of crud.rs, search.rs and  *)
(* lifecycle.rs as the sequences of lock operations and accesses that they *)
(* are, interleaved.                                                       *)
(*                                                                         *)
(* A thread has a list of instructions left to do.  The locks are the ones *)
(* that some call holds while it waits for another: write_lock ("gate"),   *)
(* the record store's deleted and slots, engine, metadata_index, sparse    *)
(* index and storage.  The id map is a concurrent map: every access to it  *)
(* is atomic.                                                              *)
(***************************************************************************)
EXTENDS Integers, Sequences, FiniteSets, SequencesExt

CONSTANTS Thread,      \* threads
          Id,          \* record ids
          None,        \* no thread, no slot, no result
          Calls,       \* bound: the calls that are made
          MaxCalls,    \* bound: how many
          LogLimit,    \* wal_auto_checkpoint_entries
          Persistent   \* whether the store has storage; a set of Booleans

ASSUME ConcurrencyAssumption ==
  /\ None \notin Thread \cup Id \cup Nat
  /\ IsFiniteSet(Id) /\ Id # {}
  /\ Calls \subseteq {"set", "set_batch", "update", "delete", "get", "search", "compact"}
  /\ Persistent \subseteq BOOLEAN
  /\ LogLimit \in Nat

VARIABLES locks,       \* who holds what
          todo,        \* the instructions each thread has left
          reg,         \* the local variables of its call
          store,       \* the record store and the indexes
          log,         \* the log, and what the last checkpoint saved
          calls,       \* how many calls were made
          persistent,  \* whether the store has storage
          raced        \* whether two calls ever wrote one id at a time (a history variable)

vars == <<locks, todo, reg, store, log, calls, persistent, raced>>

Lock == {"gate", "deleted", "slots", "engine", "meta", "sparse", "storage"}

-----------------------------------------------------------------------------
\* Locks (parking_lot::RwLock).

\* A writer first claims the lock, which keeps new readers out, even one that
\* holds the lock already; it is inside once the readers have left.
Claim(t, l) == /\ locks[l].writer = None
               /\ locks' = [locks EXCEPT ![l].writer = t]

Read(t, l) == /\ locks[l].writer = None
              /\ locks' = [locks EXCEPT ![l].readers[t] = @ + 1]

Inside(t) == \A l \in Lock : locks[l].writer = t =>
               \A u \in Thread : locks[l].readers[u] = 0

\* The locks after t has left k.
Left(t, k) ==
  IF k = "none" THEN locks
  ELSE IF locks[k].writer = t THEN [locks EXCEPT ![k].writer = None]
  ELSE [locks EXCEPT ![k].readers[t] = @ - 1]

\* Instructions: to lock, and to access what is locked and then unlock.
R(l) == << <<"read", l>> >>
W(l) == << <<"claim", l>> >>
Do(name) == << <<"do", name, "none">> >>
U(l) == << <<"do", "nothing", l>> >>

\* An access under one lock.
Reading(l, name) == R(l) \o << <<"do", name, l>> >>
Writing(l, name) == W(l) \o << <<"do", name, l>> >>

-----------------------------------------------------------------------------
\* Calls.

\* (Mutation of Upsert: the tombstone lock is let go before the push.)
UpsertUnlocked == Do("find") \o Writing("deleted", "bury") \o Writing("slots", "push")

\* (Mutation of Upsert: the guard of the read that carries payloads over is kept.)
UpsertUpgrading == Do("find") \o R("slots") \o W("deleted") \o Do("bury") \o
                   Writing("slots", "push") \o U("deleted")

\* RecordStore::set and upsert.
Upsert == Do("find") \o W("deleted") \o Do("bury") \o
          Writing("slots", "push") \o U("deleted")

\* The vector is given to the engine with the slots locked.  insert_with_slot ignores
\* the slot it is told: the node gets the next number.
ToEngine == R("slots") \o Writing("engine", "insert") \o U("slots")

\* The vector is borrowed from the slots while the record is logged; get_sparse
\* and get_multi lock the slots again.
Logging(name) ==
  R("slots") \o W("storage") \o R("slots") \o U("slots") \o R("slots") \o U("slots") \o
  Do(name) \o U("storage") \o U("slots")

IfPersistent(program) == IF persistent THEN program ELSE << >>

\* (Mutation of Moved: the sparse postings stay.)
MovedMetadataOnly == Writing("meta", "unindex")

\* What set does after ToEngine if there was a record.
Moved == Writing("meta", "unindex") \o Writing("sparse", "remap")

SetCall == R("gate") \o W("engine") \o U("engine") \o Do("look") \o Upsert \o
           ToEngine \o Do("moved") \o Writing("meta", "index") \o
           IfPersistent(Logging("log")) \o U("gate") \o Do("checkpoint?")

\* set_batch of one id.  For a known id it holds the indexes and the engine over
\* the upsert; for a new one it holds the metadata index.  It logs nothing.
BatchUpdate == W("meta") \o W("sparse") \o W("engine") \o
               Upsert \o Reading("slots", "insert") \o Do("unindex") \o Do("remap") \o
               Do("index") \o U("engine") \o U("sparse") \o U("meta")

BatchInsert == R("engine") \o U("engine") \o W("meta") \o Upsert \o Do("index") \o
               ToEngine \o U("meta")

SetBatchCall == R("gate") \o Do("look") \o Do("split") \o
                IfPersistent(Reading("storage", "full?")) \o U("gate") \o Do("checkpoint?")

\* update of the metadata.
UpdateCall == R("gate") \o Do("look") \o Do("known?") \o
              R("deleted") \o Reading("slots", "live?") \o U("deleted") \o
              Do("dead?") \o Reading("slots", "vector") \o
              IfPersistent(W("storage") \o R("slots") \o U("slots") \o R("slots") \o
                           U("slots") \o Do("log") \o U("storage")) \o
              Writing("meta", "unindex") \o Writing("meta", "index") \o
              Writing("slots", "rewrite") \o U("gate") \o Do("checkpoint?")

DeleteCall == R("gate") \o Do("look") \o Do("known?") \o
              W("deleted") \o Do("delete") \o U("deleted") \o Do("dead?") \o
              Writing("meta", "unindex") \o Writing("sparse", "drop") \o
              IfPersistent(Writing("storage", "unlog")) \o U("gate") \o Do("checkpoint?")

\* get, which takes no gate.
GetCall == Do("look") \o Do("known?") \o Reading("deleted", "buried?") \o Do("dead?") \o
           Reading("slots", "record")

\* search: a hit of the published view, and its id, if its slot is live.
SearchCall == Do("view") \o Do("known?") \o Reading("deleted", "buried?") \o Do("dead?") \o
              Reading("slots", "id")

\* (Mutation of CheckpointCall: it does not wait for the calls under way.)
CheckpointAmongCalls == IfPersistent(W("storage") \o Reading("slots", "save") \o U("storage"))

CheckpointCall == W("gate") \o IfPersistent(R("storage") \o U("storage") \o
                    R("sparse") \o U("sparse") \o W("storage") \o
                    Reading("slots", "save") \o U("storage")) \o U("gate")

\* RecordStore::compact, and then the indexes over it.
CompactCall == W("gate") \o R("slots") \o Reading("deleted", "pack") \o U("slots") \o
               Writing("slots", "replace") \o Do("clear") \o Do("fill") \o
               Writing("deleted", "exhume") \o Writing("sparse", "renumber") \o
               R("slots") \o Writing("engine", "rebuild") \o U("slots") \o
               Writing("meta", "forget") \o Reading("slots", "collect") \o
               Writing("meta", "restore") \o U("gate")

Program(call) ==
  CASE call = "set" -> SetCall
    [] call = "set_batch" -> SetBatchCall
    [] call = "update" -> UpdateCall
    [] call = "delete" -> DeleteCall
    [] call = "get" -> GetCall
    [] call = "search" -> SearchCall
    [] call = "compact" -> CompactCall

-----------------------------------------------------------------------------
\* Accesses.  r is the local state of a call, s the store, l the log.  Slots are
\* numbered from 1.  A vector or metadata is named by the call that wrote it.

LiveIn(s) == DOMAIN s.slots \ s.dead

\* The live slots in order.
LiveSeq(s) ==
  CHOOSE q \in [1..Cardinality(LiveIn(s)) -> LiveIn(s)] :
    \A m, n \in DOMAIN q : m < n => q[m] < q[n]

\* What a lookup finds.
RecordAt(s, i) == IF s.ids[i] \in DOMAIN s.slots THEN s.slots[s.ids[i]] ELSE None

Contents(s) == [i \in Id |-> RecordAt(s, i)]

\* What the call keeps of what it reads.
Registers(name, r, s, l) ==
  CASE name = "look"    -> [r EXCEPT !.old = s.ids[r.id], !.slot = s.ids[r.id]]
    [] name = "find"    -> [r EXCEPT !.cur = s.ids[r.id]]
    [] name = "carry"   -> [r EXCEPT !.sparse = s.slots[r.cur].sparse]
    [] name = "push"    -> [r EXCEPT !.slot = Len(s.slots) + 1]
    [] name \in {"live?", "buried?", "delete"} -> [r EXCEPT !.ok = r.old \notin s.dead]
    [] name \in {"log", "unlog"} -> [r EXCEPT !.full = Len(l.entries) + 1 >= LogLimit]
    [] name = "full?"   -> [r EXCEPT !.full = Len(l.entries) >= LogLimit]
    [] name = "pack"    -> [r EXCEPT !.order = LiveSeq(s)]
    [] OTHER            -> r

Pushed(r) == [id |-> r.id, val |-> [id |-> r.id, by |-> r.n], meta |-> r.n, sparse |-> r.sparse]

\* What becomes of the store.
Changed(name, r, s) ==
  CASE name = "bury"     -> [s EXCEPT !.dead = @ \cup ({s.ids[r.id]} \ {None})]
    [] name = "push"     -> [s EXCEPT !.slots = Append(@, Pushed(r)),
                                      !.ids[r.id] = Len(s.slots) + 1]
    [] name = "rewrite"  -> [s EXCEPT !.slots[r.old].meta = r.n]
    [] name = "delete"   -> IF r.old \in s.dead THEN s
                            ELSE [s EXCEPT !.dead = @ \cup {r.old}, !.ids[r.id] = None]
    [] name = "insert"   -> [s EXCEPT !.engine = Append(@, s.slots[r.slot].val)]
    [] name = "unindex"  -> [s EXCEPT !.meta = {m \in @ : m.slot # r.old}]
    [] name = "index"    -> [s EXCEPT !.meta = @ \cup {[slot |-> r.slot, meta |-> r.n]}]
    [] name = "remap"    -> [s EXCEPT !.sparse = IF r.old \in @ THEN (@ \ {r.old}) \cup {r.slot} ELSE @]
    [] name = "drop"     -> [s EXCEPT !.sparse = @ \ {r.old}]
    [] name = "replace"  -> [s EXCEPT !.slots = [n \in DOMAIN r.order |-> @[r.order[n]]]]
    [] name = "clear"    -> [s EXCEPT !.ids = [i \in Id |-> None]]
    [] name = "fill"     -> [s EXCEPT !.ids = [i \in Id |->
                               IF \E n \in DOMAIN s.slots : s.slots[n].id = i
                               THEN CHOOSE n \in DOMAIN s.slots : s.slots[n].id = i ELSE None]]
    [] name = "exhume"   -> [s EXCEPT !.dead = {}]
    [] name = "renumber" -> [s EXCEPT !.sparse = {n \in DOMAIN r.order : r.order[n] \in s.sparse}]
    [] name = "rebuild"  -> [s EXCEPT !.engine = [n \in DOMAIN s.slots |-> s.slots[n].val]]
    [] name = "forget"   -> [s EXCEPT !.meta = {}]
    [] name = "restore"  -> [s EXCEPT !.meta = {[slot |-> n, meta |-> s.slots[n].meta] : n \in DOMAIN s.slots}]
    [] OTHER             -> s

\* What becomes of the log: an entry has the record of the slot, with the metadata
\* of the call.  A batch is not logged, and then the log is not whole.
Logged(name, r, s, l) ==
  CASE name = "log"   -> [l EXCEPT !.entries =
                            Append(@, [id |-> r.id, record |-> [s.slots[r.slot] EXCEPT !.meta = r.n]])]
    [] name = "unlog" -> [l EXCEPT !.entries = Append(@, [id |-> r.id, record |-> None])]
    [] name = "push" /\ r.call = "set_batch" -> [l EXCEPT !.whole = FALSE]
    [] name = "save"  -> [saved |-> Contents(s), entries |-> << >>, whole |-> TRUE]
    [] OTHER          -> l

\* (Mutation of Abandon: the guard is leaked.)
AbandonHolding(t) == << >>

\* The end of a call that found nothing: a guard of write_lock is dropped.
Abandon(t) == IF locks["gate"].readers[t] > 0 THEN U("gate") ELSE << >>

\* What is left to do after an access: a branch of the call, or the next instruction.
Rest(t, name, r, s) ==
  CASE name = "known?" /\ r.old = None      -> Abandon(t)
    [] name = "dead?" /\ ~r.ok              -> Abandon(t)
    [] name = "find" /\ s.ids[r.id] # None  -> Reading("slots", "carry") \o Tail(todo[t])
    [] name = "split"                       -> (IF r.old = None THEN BatchInsert ELSE BatchUpdate)
                                               \o Tail(todo[t])
    [] name = "moved" /\ r.old # None       -> Moved \o Tail(todo[t])
    [] name = "checkpoint?" /\ r.full       -> CheckpointCall
    [] OTHER                                -> Tail(todo[t])

-----------------------------------------------------------------------------
Idle(t) == todo[t] = << >>

Writes(call) == call \in {"set", "set_batch", "update", "delete"}

Fresh(call, i, n) == [call |-> call, id |-> i, n |-> n, old |-> None, cur |-> None, slot |-> None,
                      sparse |-> FALSE, ok |-> FALSE, full |-> FALSE, order |-> << >>]

\* A thread makes a call; the first call is made by a thread that stands for any.
Start(t) ==
  /\ Idle(t) /\ calls < MaxCalls
  /\ calls = 0 => t = CHOOSE u \in Thread : TRUE
  /\ \E c \in Calls, i \in Id :
       /\ reg' = [reg EXCEPT ![t] = Fresh(c, i, calls + 1)]
       /\ todo' = [todo EXCEPT ![t] = Program(c)]
       /\ raced' = \/ raced
                   \/ /\ Writes(c)
                      /\ \E u \in Thread : ~Idle(u) /\ reg[u].id = i /\ Writes(reg[u].call)
  /\ calls' = calls + 1
  /\ UNCHANGED <<locks, store, log, persistent>>

Locking(t) ==
  /\ ~Idle(t) /\ Inside(t)
  /\ \/ Head(todo[t])[1] = "claim" /\ Claim(t, Head(todo[t])[2])
     \/ Head(todo[t])[1] = "read" /\ Read(t, Head(todo[t])[2])
  /\ todo' = [todo EXCEPT ![t] = Tail(@)]
  /\ UNCHANGED <<reg, store, log, calls, persistent, raced>>

Access(t) ==
  /\ ~Idle(t) /\ Inside(t)
  /\ Head(todo[t])[1] = "do" /\ Head(todo[t])[2] # "view"
  /\ LET name == Head(todo[t])[2]
         r    == Registers(name, reg[t], store, log)
     IN  /\ reg' = [reg EXCEPT ![t] = r]
         /\ store' = Changed(name, r, store)
         /\ log' = Logged(name, r, store, log)
         /\ todo' = [todo EXCEPT ![t] = Rest(t, name, r, store)]
         /\ locks' = Left(t, Head(todo[t])[3])
  /\ UNCHANGED <<calls, persistent, raced>>

\* A search loads the published view, and is about to resolve one of its hits: node
\* n, which it takes for slot n.
View(t) ==
  /\ ~Idle(t) /\ Head(todo[t])[2] = "view"
  /\ \/ \E n \in DOMAIN store.engine : reg' = [reg EXCEPT ![t].old = n]
     \/ UNCHANGED reg
  /\ todo' = [todo EXCEPT ![t] = Tail(@)]
  /\ UNCHANGED <<locks, store, log, calls, persistent, raced>>

\* A store in which every id was set, with a sparse vector, and one of them again.
Init ==
    LET slots == <<CHOOSE i \in Id : TRUE>> \o SetToSeq(Id)
        s == [ids    |-> [j \in Id |-> CHOOSE n \in 2..Len(slots) : slots[n] = j],
              slots  |-> [n \in DOMAIN slots |-> [id |-> slots[n], val |-> [id |-> slots[n], by |-> 0],
                                                 meta |-> 0, sparse |-> TRUE]],
              dead   |-> {1},
              engine |-> [n \in DOMAIN slots |-> [id |-> slots[n], by |-> 0]],
              meta   |-> {[slot |-> n, meta |-> 0] : n \in 2..Len(slots)},
              sparse |-> 2..Len(slots)]
    IN  /\ store = s
        /\ log = [saved |-> Contents(s), entries |-> << >>, whole |-> TRUE]
        /\ locks = [l \in Lock |-> [writer |-> None, readers |-> [t \in Thread |-> 0]]]
        /\ todo = [t \in Thread |-> << >>]
        /\ reg = [t \in Thread |-> Fresh("none", None, 0)]
        /\ calls = 0
        /\ persistent \in Persistent
        /\ raced = FALSE

Step(t) == Locking(t) \/ Access(t) \/ View(t)

Next == \E t \in Thread : Start(t) \/ Step(t)

\* A thread is scheduled; parking_lot locks are eventually fair.
Fairness == \A t \in Thread : WF_vars(Step(t))

Spec == Init /\ [][Next]_vars /\ Fairness

-----------------------------------------------------------------------------
\* Properties.

Quiescent == \A t \in Thread : Idle(t)

TypeOK ==
  /\ \A l \in Lock : locks[l].writer \in Thread \cup {None}
  /\ \A t \in Thread : \A l \in Lock : locks[l].readers[t] \in 0..2
  /\ \A i \in Id : store.ids[i] \in DOMAIN store.slots \cup {None} \/ ~Quiescent
  /\ Quiescent => locks = [l \in Lock |-> [writer |-> None, readers |-> [t \in Thread |-> 0]]]

\* Whatever calls overlapped, once they are done the id map names exactly the live
\* slots, and every live record is in the engine and in the metadata index.
Coherent ==
  Quiescent =>
    /\ \A i \in Id : store.ids[i] # None =>
         store.ids[i] \in LiveIn(store) /\ store.slots[store.ids[i]].id = i
    /\ \A n \in LiveIn(store) : /\ store.ids[store.slots[n].id] = n
                                 /\ store.slots[n].val \in ToSet(store.engine)
                                 /\ \E m \in store.meta : m.slot = n

\* If no two calls wrote one id at a time, the indexes have exactly the live
\* records: their metadata, and the sparse vectors that sets carried over.
IndexesAgree ==
  Quiescent /\ ~raced =>
    /\ store.meta = {[slot |-> n, meta |-> store.slots[n].meta] : n \in LiveIn(store)}
    /\ store.sparse = {n \in LiveIn(store) : store.slots[n].sparse}

\* What a reopened store has.
Replay(saved, entries) ==
  LET after[n \in 0..Len(entries)] ==
        IF n = 0 THEN saved
        ELSE [after[n - 1] EXCEPT ![entries[n].id] = entries[n].record]
  IN  after[Len(entries)]

Replayed == Replay(log.saved, log.entries)

\* Under the same condition, and if no batch was written since the last checkpoint,
\* replaying the log gives the records that memory has, whichever calls the
\* checkpoint ran between.
LogAgrees == Quiescent /\ ~raced /\ persistent /\ log.whole => Replayed = Contents(store)

Batching == \E t \in Thread : ~Idle(t) /\ reg[t].call = "set_batch"

\* A call on a store in memory ends, unless it meets a set_batch: no two calls wait
\* for each other.
CallsEnd == \A t \in Thread : (~persistent /\ ~Idle(t)) ~> (Idle(t) \/ Batching)

\* Every call ends.
EveryCallEnds == \A t \in Thread : ~Idle(t) ~> Idle(t)
=============================================================================
