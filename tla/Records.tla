------------------------------ MODULE Records ------------------------------
(***************************************************************************)
(* The value a RecordStore holds and what each of its methods makes of it  *)
(* (src/vector/store/record_store.rs).  Every operator is a pure function  *)
(* of a store, so that the state machine RecordStore, and OmenStore, which *)
(* replays a write-ahead log through the same methods, share one           *)
(* translation of the code.                                                *)
(*                                                                         *)
(* Slot s stands for the code's slot index s - 1, so that the slot vector  *)
(* is a sequence and NoSlot == 0 is no slot.  `aux' stands for the pair of *)
(* optional payloads (sparse vector, multi-vector tokens), which the store *)
(* always carries together.  All dense vectors have the store's dimension. *)
(***************************************************************************)
EXTENDS Integers, Sequences, FiniteSets

CONSTANTS Id,         \* user-visible record names
          Vec,        \* what the dense-vector field of a record can hold
          Aux,        \* sparse and multi-vector payloads
          Meta,       \* JSON metadata values
          NoVec, NoAux, NoMeta,     \* the None of each optional field
          NoRecord    \* the None of a slot

Record == [id : Id, vec : Vec \cup {NoVec}, aux : Aux \cup {NoAux},
           meta : Meta \cup {NoMeta}]

ASSUME NoRecordAssumption == NoRecord \notin Record

Fields == [vec : Vec \cup {NoVec}, aux : Aux \cup {NoAux}, meta : Meta \cup {NoMeta}]

ASSUME NoFieldsAssumption == NoRecord \notin Fields

NoSlot == 0

Slot == Nat \ {NoSlot}

Store == [slots : Seq(Record \cup {NoRecord}), deleted : SUBSET Slot,
          idToSlot : [Id -> Nat], liveCount : Int, dirty : SUBSET Slot]

EmptyStore == [slots |-> << >>, deleted |-> {}, idToSlot |-> [i \in Id |-> NoSlot],
               liveCount |-> 0, dirty |-> {}]

-----------------------------------------------------------------------------
\* Reading a store.

LiveSlots(st) ==
  {s \in DOMAIN st.slots : s \notin st.deleted /\ st.slots[s] # NoRecord}

\* get(id): None unless the id is mapped to a slot that is not tombstoned and
\* holds a record.
Found(st, i) == st.idToSlot[i] \in LiveSlots(st)

RecordOf(st, i) == IF Found(st, i) THEN st.slots[st.idToSlot[i]] ELSE NoRecord

\* The map from names to records that callers see.
FieldsOf(rec) == [vec |-> rec.vec, aux |-> rec.aux, meta |-> rec.meta]

ContentsOf(st) ==
  [i \in Id |-> IF Found(st, i) THEN FieldsOf(RecordOf(st, i)) ELSE NoRecord]

\* What set and set_without_vector carry over from the slot the id maps to,
\* whether or not that slot is tombstoned.
Carried(st, i) ==
  LET s == st.idToSlot[i]
  IN  IF s \in DOMAIN st.slots /\ st.slots[s] # NoRecord
      THEN st.slots[s]
      ELSE [id |-> i, vec |-> NoVec, aux |-> NoAux, meta |-> NoMeta]

-----------------------------------------------------------------------------
\* Writing a store.

\* (Mutation of Tombstoned: the live count is not adjusted.)
TombstonedStillCounted(st, s) ==
  [st EXCEPT !.deleted = @ \cup {s}, !.dirty = @ \cup {s}]

Tombstoned(st, s) ==
  [st EXCEPT !.deleted = @ \cup {s}, !.dirty = @ \cup {s}, !.liveCount = @ - 1]

\* (Mutation of Appended: the slot is numbered after the push's old length.)
AppendedOffByOne(st, rec) ==
  LET s == Len(st.slots)
  IN  [st EXCEPT !.slots = Append(@, rec), !.idToSlot[rec.id] = s,
                 !.liveCount = @ + 1, !.dirty = @ \cup {s}]

\* (Mutation of Appended: a tombstoned slot is reused.)
AppendedInFreeSlot(st, rec) ==
  LET s == IF st.deleted = {} THEN Len(st.slots) + 1 ELSE CHOOSE d \in st.deleted : TRUE
  IN  [st EXCEPT !.slots = IF s > Len(@) THEN Append(@, rec) ELSE [@ EXCEPT ![s] = rec],
                 !.idToSlot[rec.id] = s, !.deleted = @ \ {s},
                 !.liveCount = @ + 1, !.dirty = @ \cup {s}]

Appended(st, rec) ==
  LET s == Len(st.slots) + 1
  IN  [st EXCEPT !.slots = Append(@, rec), !.idToSlot[rec.id] = s,
                 !.liveCount = @ + 1, !.dirty = @ \cup {s}]

\* upsert: an update is a tombstone for the old slot and a record in a new one.
Upserted(st, rec) ==
  LET old == st.idToSlot[rec.id]
  IN  Appended(IF old # NoSlot /\ old \notin st.deleted THEN Tombstoned(st, old) ELSE st,
               rec)

\* set: a new dense vector and metadata; the auxiliary payloads are kept.
WithVector(st, i, v, m) ==
  Upserted(st, [id |-> i, vec |-> v, aux |-> Carried(st, i).aux, meta |-> m])

\* set_without_vector: new metadata; vector and auxiliary payloads are kept.
WithoutVector(st, i, m) ==
  Upserted(st, [id |-> i, vec |-> Carried(st, i).vec, aux |-> Carried(st, i).aux,
                meta |-> m])

\* delete returns None, and changes nothing, unless this holds.
Deletable(st, i) == st.idToSlot[i] # NoSlot /\ st.idToSlot[i] \notin st.deleted

\* (Mutation of Removed: the id stays mapped.)
RemovedStillMapped(st, i) == Tombstoned(st, st.idToSlot[i])

Removed(st, i) ==
  [Tombstoned(st, st.idToSlot[i]) EXCEPT !.idToSlot[i] = NoSlot]

\* update_metadata, update_sparse and update_multi write the record in place,
\* in any slot that holds one, tombstoned or not.
Writable(st, s) == s \in DOMAIN st.slots /\ st.slots[s] # NoRecord

WithMeta(st, s, m) ==
  [st EXCEPT !.slots[s] = [@ EXCEPT !.meta = m], !.dirty = @ \cup {s}]

WithAux(st, s, x) ==
  [st EXCEPT !.slots[s] = [@ EXCEPT !.aux = x], !.dirty = @ \cup {s}]

\* take_dirty_slots and restore_dirty_slots, around a checkpoint.
DirtyTaken(st) == [st EXCEPT !.dirty = {}]

\* (Mutation of DirtyRestored: a failed checkpoint forgets what it took.)
DirtyForgotten(st, taken) == st

DirtyRestored(st, taken) == [st EXCEPT !.dirty = @ \cup taken]

-----------------------------------------------------------------------------
\* Renumbering and rebuilding.

\* How many members of S are at most s: the new number of a live slot.
Rank(S, s) == Cardinality({t \in S : t <= s})

Unranked(S, n) == CHOOSE s \in S : Rank(S, s) = n

\* rebuild_indexes_from_slots: a scan in slot order, the last live slot of an
\* id wins.
IndexOf(slots, dead) ==
  [i \in Id |->
     LET own == {s \in DOMAIN slots : s \notin dead /\ slots[s] # NoRecord
                                      /\ slots[s].id = i}
     IN  IF own = {} THEN NoSlot ELSE CHOOSE s \in own : \A t \in own : t <= s]

PackedSlots(st) ==
  LET L == LiveSlots(st)
  IN  [n \in 1..Cardinality(L) |-> st.slots[Unranked(L, n)]]

\* (Mutation of Compacted: the id map keeps the old slot numbers.)
CompactedUnmapped(st) ==
  LET packed == PackedSlots(st)
  IN  [st EXCEPT !.slots = packed, !.deleted = {}, !.dirty = DOMAIN packed]

\* (Mutation of Compacted: a record is moved without its auxiliary payloads.)
CompactedWithoutAux(st) ==
  LET packed == [s \in DOMAIN PackedSlots(st) |-> [PackedSlots(st)[s] EXCEPT !.aux = NoAux]]
  IN  [st EXCEPT !.slots = packed, !.idToSlot = IndexOf(packed, {}),
                 !.deleted = {}, !.dirty = DOMAIN packed]

\* compact: the live records in slot order, renumbered from the first slot on,
\* every new slot dirty; live_count is not written.
Compacted(st) ==
  LET packed == PackedSlots(st)
  IN  [st EXCEPT !.slots = packed, !.idToSlot = IndexOf(packed, {}),
                 !.deleted = {}, !.dirty = DOMAIN packed]

\* restore_snapshot_records: a store rebuilt from persisted slots and tombstones.
Restored(slots, dead, count) ==
  [slots |-> slots, deleted |-> dead, idToSlot |-> IndexOf(slots, dead),
   liveCount |-> count, dirty |-> {}]

-----------------------------------------------------------------------------
\* What the parts of a store must agree on.

\* A mapped id is mapped to the live slot that holds its record ...
IdMapSound(st) ==
  \A i \in Id : st.idToSlot[i] # NoSlot =>
    st.idToSlot[i] \in LiveSlots(st) /\ st.slots[st.idToSlot[i]].id = i

\* ... and every live slot is the one its id is mapped to.
LiveSlotsMapped(st) ==
  \A s \in LiveSlots(st) : st.idToSlot[st.slots[s].id] = s

LiveCountExact(st) == st.liveCount = Cardinality(LiveSlots(st))

DeletedInRange(st) == st.deleted \subseteq DOMAIN st.slots

Consistent(st) == /\ IdMapSound(st)
                  /\ LiveSlotsMapped(st)
                  /\ LiveCountExact(st)
                  /\ DeletedInRange(st)
=============================================================================
