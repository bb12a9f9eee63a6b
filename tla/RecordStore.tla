---------------------------- MODULE RecordStore ----------------------------
(***************************************************************************)
(* RecordStore (src/vector/store/record_store.rs) as a state machine: slot *)
(* storage with tombstones, the id map, the cached live count and the set  *)
(* of slots dirty since the last checkpoint, with the part of a checkpoint *)
(* that decides what becomes of the dirty set (flush_internal and          *)
(* checkpoint_wal_locked in src/vector/store/persistence.rs).              *)
(*                                                                         *)
(* image is what the .vecs file holds, slot by slot, when no checkpoint is *)
(* under way; OmenStore models the file while it is being written.         *)
(***************************************************************************)
EXTENDS Records

CONSTANTS MaxSlots,  \* bound: no record is appended beyond this many slots
          Zero       \* what a checkpoint writes for a slot with no live vector

ASSUME MaxSlotsAssumption == MaxSlots \in Nat

VARIABLES store,     \* the RecordStore
          flushing,  \* write_lock is held exclusively by a checkpoint
          inflight,  \* the slots take_dirty_slots handed to that checkpoint
          image      \* the vectors in the .vecs file

vars == <<store, flushing, inflight, image>>

TypeOK == /\ store \in Store
          /\ flushing \in BOOLEAN
          /\ inflight \in SUBSET Slot
          /\ image \in Seq(Vec \cup {Zero})

Init == /\ store = EmptyStore
        /\ flushing = FALSE
        /\ inflight = {}
        /\ image = << >>

-----------------------------------------------------------------------------
\* Mutators.  Each takes write_lock shared (or &mut self), so none runs while
\* a checkpoint holds it.

Mutate(new) == /\ ~flushing
               /\ store' = new
               /\ UNCHANGED <<flushing, inflight, image>>

CanAppend == Len(store.slots) < MaxSlots

Set(i, v, m) == CanAppend /\ Mutate(WithVector(store, i, v, m))

SetWithoutVector(i, m) == CanAppend /\ Mutate(WithoutVector(store, i, m))

Delete(i) == Deletable(store, i) /\ Mutate(Removed(store, i))

\* The slot is one its caller looked up earlier, so it may be tombstoned by now.
UpdateMetadata(s, m) == Writable(store, s) /\ Mutate(WithMeta(store, s, m))

UpdateAux(s, x) == Writable(store, s) /\ Mutate(WithAux(store, s, x))

\* compact_locked returns early when nothing is deleted.
Compact == store.deleted # {} /\ Mutate(Compacted(store))

-----------------------------------------------------------------------------
\* A checkpoint, as the record store sees it.

BeginCheckpoint == /\ ~flushing
                   /\ flushing' = TRUE
                   /\ inflight' = store.dirty
                   /\ store' = DirtyTaken(store)
                   /\ UNCHANGED image

\* What the checkpoint writes at slot s.
Written(st, s) == IF s \in LiveSlots(st) /\ st.slots[s].vec # NoVec
                  THEN st.slots[s].vec ELSE Zero

\* The file after the slots in `taken' are written: grown with zeroes, never shrunk.
ImageAfter(st, taken, img) ==
  [s \in 1..(IF Len(img) > Len(st.slots) THEN Len(img) ELSE Len(st.slots)) |->
     IF s \in taken THEN Written(st, s)
     ELSE IF s \in DOMAIN img THEN img[s] ELSE Zero]

FinishCheckpoint == /\ flushing
                    /\ image' = ImageAfter(store, inflight, image)
                    /\ flushing' = FALSE
                    /\ inflight' = {}
                    /\ UNCHANGED store

\* The checkpoint returns an error: the slots up to some k, which it writes in
\* ascending order, may have reached the file.
FailCheckpoint == /\ flushing
                  /\ \E k \in 0..Len(store.slots) :
                       image' = ImageAfter(store, {s \in inflight : s <= k}, image)
                  /\ store' = DirtyRestored(store, inflight)
                  /\ flushing' = FALSE
                  /\ inflight' = {}

\* A reopen after a complete checkpoint: build_initial_records leaves None in
\* every tombstoned slot and rebuilds the id map and the count from the rest.
\* (What it makes of vectors beyond the last slot is OmenStore's subject.)
SnapshotSlots(st) ==
  [s \in DOMAIN st.slots |-> IF s \in LiveSlots(st) THEN st.slots[s] ELSE NoRecord]

Reopen == /\ ~flushing
          /\ store.dirty = {}
          /\ store' = Restored(SnapshotSlots(store), store.deleted,
                               Cardinality(LiveSlots(store)))
          /\ UNCHANGED <<flushing, inflight, image>>

Next == \/ \E i \in Id, v \in Vec, m \in Meta \cup {NoMeta} : Set(i, v, m)
        \/ \E i \in Id, m \in Meta \cup {NoMeta} : SetWithoutVector(i, m)
        \/ \E i \in Id : Delete(i)
        \/ \E s \in 1..Len(store.slots), m \in Meta : UpdateMetadata(s, m)
        \/ \E s \in 1..Len(store.slots), x \in Aux \cup {NoAux} : UpdateAux(s, x)
        \/ Compact
        \/ BeginCheckpoint
        \/ FinishCheckpoint
        \/ FailCheckpoint
        \/ Reopen

Spec == Init /\ [][Next]_vars

-----------------------------------------------------------------------------
\* Properties.

\* The id map, the tombstones, the slots and the cached live count stay
\* consistent through every upsert, delete, compaction, failed checkpoint and
\* reopen of record_store.rs: no id is left on a tombstone, no two live slots
\* share an id, and the cached count, adjusted by upsert and delete and left
\* alone by a compaction, never drifts from the number of live records.
IndexInv == Consistent(store)

\* A slot that is neither dirty nor in the hands of a running checkpoint has
\* its live vector in the .vecs file: an incremental checkpoint, which writes
\* dirty slots only, leaves no live vector behind, even after a failed
\* checkpoint or a renumbering compaction.
DirtyCoversDelta ==
  \A s \in LiveSlots(store) \ (store.dirty \cup inflight) :
    s \in DOMAIN image /\ image[s] = Written(store, s)

\* No slot takes another id, comes back from the dead or vanishes.
SlotsKept ==
  \A s \in DOMAIN store.slots :
    /\ s \in DOMAIN store'.slots
    /\ s \in store.deleted => s \in store'.deleted
    /\ s \in LiveSlots(store') => /\ s \in LiveSlots(store)
                                  /\ store'.slots[s].id = store.slots[s].id

\* Between compactions a slot never changes the id it holds and a tombstone is
\* never lifted: the HNSW graph, which names vectors by slot, can at worst
\* return a tombstone, never another id's record.
SlotIdentity == [][Compact \/ SlotsKept]_vars

Contents == ContentsOf(store)

Map == INSTANCE RecordMap WITH recs <- Contents, Absent <- NoRecord

\* A write in place to slot s is the operation op of the map if a live record is
\* there, and is not seen if a tombstone is.
InPlace(s, op) == IF s \in LiveSlots(store) THEN op ELSE UNCHANGED Contents

\* What each call of the record store must do to the map: its own operation on the
\* record it names, and nothing at all for the calls that only reorganise the store.
EachCall ==
  /\ \A i \in Id, m \in Meta \cup {NoMeta} :
       /\ SetWithoutVector(i, m) => Map!SetWithoutVector(i, m)
       /\ \A v \in Vec : Set(i, v, m) => Map!Set(i, v, m)
  /\ \A i \in Id : Delete(i) => Map!Delete(i)
  /\ \A s \in 1..Len(store.slots), m \in Meta :
       UpdateMetadata(s, m) => InPlace(s, Map!UpdateMetadata(store.slots[s].id, m))
  /\ \A s \in 1..Len(store.slots), x \in Aux \cup {NoAux} :
       UpdateAux(s, x) => InPlace(s, Map!UpdateAux(store.slots[s].id, x))
  /\ Compact \/ BeginCheckpoint \/ FinishCheckpoint \/ FailCheckpoint \/ Reopen =>
       UNCHANGED Contents

\* Every method changes the record of the id it names, as the map's operation of
\* that name does, and no other; a compaction, the steps of a checkpoint and a
\* reopen change none: no renumbering drops a record, swaps two or loses a payload.
ImplementsMap == Map!Spec /\ [][EachCall]_vars
=============================================================================
