-------------------------- MODULE OmenStoreProofs --------------------------
(***************************************************************************)
(* Proofs about OmenStore, for every choice of names and values and all    *)
(* bounds: what recovery makes of any files, and that files and records    *)
(* have their types, whatever is called, fails or stops; what a store      *)
(* keeps over checkpoints, errors and restarts, and what readers see; and, *)
(* in the last part, that it implements the durable map.                   *)
(***************************************************************************)
EXTENDS OmenStore, Recursion, SequenceTheorems

-----------------------------------------------------------------------------
(* The methods of a RecordStore, on the records a persistent store holds.  *)

Facts == INSTANCE RecordStoreProofs
           WITH Id <- Name, Vec <- Val \cup {Zero} \cup View, Aux <- {}, Meta <- Val,
                NoVec <- None, NoAux <- None, NoMeta <- None, NoRecord <- None,
                MaxSlots <- SlotLimit, flushing <- step # "idle", inflight <- job.taken,
                image <- disk.vecs

\* The operators of that instance of Records are the ones OmenFiles uses.
LEMMA SameReaders ==
  /\ Facts!Record = Record
  /\ Facts!Slot = Slot
  /\ Facts!NoSlot = NoSlot
  /\ Facts!Store = Store
  /\ \A st : Facts!LiveSlots(st) = LiveSlots(st)
  /\ \A st : Facts!Consistent(st) <=> Consistent(st)
<1>1. Facts!Record = Record
  BY DEF Record, Facts!Record
<1>2. Facts!NoSlot = NoSlot /\ Facts!Slot = Slot
  BY DEF Slot, Facts!Slot, NoSlot, Facts!NoSlot
<1>3. Facts!Store = Store
  BY <1>1, <1>2 DEF Store, Facts!Store
<1>4. \A st : Facts!LiveSlots(st) = LiveSlots(st)
  BY DEF LiveSlots, Facts!LiveSlots
<1>5. \A S : Facts!Cardinality(S) = Cardinality(S)
  BY DEF Cardinality, Facts!Cardinality
<1>6. ASSUME NEW st
      PROVE  Facts!Consistent(st) <=> Consistent(st)
  BY <1>2, <1>4, <1>5
     DEF Consistent, Facts!Consistent, IdMapSound, Facts!IdMapSound,
         LiveSlotsMapped, Facts!LiveSlotsMapped, LiveCountExact, Facts!LiveCountExact,
         DeletedInRange, Facts!DeletedInRange
<1> QED
  BY <1>1, <1>2, <1>3, <1>4, <1>6

LEMMA SameWriters ==
  /\ \A st, rec : Facts!Upserted(st, rec) = Upserted(st, rec)
  /\ \A st, i : Facts!Deletable(st, i) <=> Deletable(st, i)
  /\ \A st, i : Facts!Removed(st, i) = Removed(st, i)
  /\ \A st, s : Facts!Writable(st, s) <=> Writable(st, s)
  /\ \A st, s, m : Facts!WithMeta(st, s, m) = WithMeta(st, s, m)
  /\ \A slots, dead : Facts!IndexOf(slots, dead) = IndexOf(slots, dead)
  /\ \A slots, dead, count : Facts!Restored(slots, dead, count) = Restored(slots, dead, count)
<1>1. \A st, s : Facts!Tombstoned(st, s) = Tombstoned(st, s)
  BY DEF Tombstoned, Facts!Tombstoned
<1>2. \A st, rec : Facts!Appended(st, rec) = Appended(st, rec)
  BY DEF Appended, Facts!Appended
<1>3. \A st, rec : Facts!Upserted(st, rec) = Upserted(st, rec)
  BY <1>1, <1>2, SameReaders DEF Upserted, Facts!Upserted
<1>4. \A st, i : Facts!Deletable(st, i) <=> Deletable(st, i)
  BY SameReaders DEF Deletable, Facts!Deletable
<1>5. \A st, i : Facts!Removed(st, i) = Removed(st, i)
  BY <1>1, SameReaders DEF Removed, Facts!Removed
<1>6. \A st, s : Facts!Writable(st, s) <=> Writable(st, s)
  BY DEF Writable, Facts!Writable
<1>7. \A st, s, m : Facts!WithMeta(st, s, m) = WithMeta(st, s, m)
  BY DEF WithMeta, Facts!WithMeta
<1>8. \A slots, dead : Facts!IndexOf(slots, dead) = IndexOf(slots, dead)
  BY SameReaders DEF IndexOf, Facts!IndexOf
<1>9. \A slots, dead, count : Facts!Restored(slots, dead, count) = Restored(slots, dead, count)
  BY <1>8 DEF Restored, Facts!Restored
<1> QED
  BY <1>3, <1>4, <1>5, <1>6, <1>7, <1>8, <1>9

LEMMA SameCompaction ==
  \A st : Facts!Compacted(st) = Compacted(st) /\ Facts!PackedSlots(st) = PackedSlots(st)
<1>1. \A S : Facts!Cardinality(S) = Cardinality(S)
  BY DEF Cardinality, Facts!Cardinality
<1>2. \A S, s : Facts!Rank(S, s) = Rank(S, s)
  BY <1>1 DEF Rank, Facts!Rank
<1>3. \A S, n : Facts!Unranked(S, n) = Unranked(S, n)
  BY <1>2 DEF Unranked, Facts!Unranked
<1>4. \A st : Facts!PackedSlots(st) = PackedSlots(st)
  BY <1>1, <1>3, SameReaders DEF PackedSlots, Facts!PackedSlots
<1> QED
  BY <1>4, SameWriters DEF Compacted, Facts!Compacted

\* What the lemmas about Records assume of the constants.
LEMMA NoneApart == None \notin Facts!Record /\ None \notin Facts!Fields /\ SlotLimit \in Nat
BY NoneAssumption, SlotLimitAssumption, SameReaders DEF Fields, Facts!Fields

\* A write or a delete leaves a store a store, and a consistent one consistent.
LEMMA UpsertKeeps ==
  ASSUME NEW st \in Store, NEW rec \in Record
  PROVE  /\ Upserted(st, rec) \in Store
         /\ Consistent(st) => Consistent(Upserted(st, rec))
<1>1. Upserted(st, rec) \in Store
  BY SameReaders, SameWriters, NoneApart, Facts!UpsertedType
<1>2. ASSUME Consistent(st)
      PROVE  Consistent(Upserted(st, rec))
  BY <1>2, SameReaders, SameWriters, NoneApart, Facts!UpsertedConsistent
<1> QED
  BY <1>1, <1>2

LEMMA RemoveKeeps ==
  ASSUME NEW st \in Store, NEW i \in Name, Deletable(st, i)
  PROVE  /\ Removed(st, i) \in Store
         /\ Consistent(st) => Consistent(Removed(st, i))
<1>1. Removed(st, i) \in Store
  BY SameReaders, SameWriters, NoneApart, Facts!RemovedType
<1>2. ASSUME Consistent(st)
      PROVE  Consistent(Removed(st, i))
  BY <1>2, SameReaders, SameWriters, NoneApart, Facts!RemovedConsistent
<1> QED
  BY <1>1, <1>2

\* What an upsert leaves, and what a delete does.
LEMMA UpsertEffect ==
  ASSUME NEW st \in Store, Consistent(st), NEW rec \in Record
  PROVE  Facts!Moved(st, rec, Upserted(st, rec), st.idToSlot[rec.id], Len(st.slots) + 1)
BY SameReaders, SameWriters, NoneApart, Facts!UpsertedEffect

LEMMA RemoveEffect ==
  ASSUME NEW st \in Store, Consistent(st), NEW i \in Name, Deletable(st, i)
  PROVE  Facts!Gone(st, i, Removed(st, i), st.idToSlot[i])
BY SameReaders, SameWriters, NoneApart, Facts!RemovedEffect

\* Live slots are slots that hold a record.
LEMMA LiveSlotsType ==
  ASSUME NEW st \in Store
  PROVE  /\ st.slots \in Seq(Record \cup {None}) /\ Len(st.slots) \in Nat
         /\ DOMAIN st.slots = 1..Len(st.slots)
         /\ LiveSlots(st) \subseteq DOMAIN st.slots
         /\ LiveSlots(st) \in SUBSET Slot
         /\ NoSlot \notin LiveSlots(st)
         /\ IsFiniteSet(LiveSlots(st))
         /\ \A s \in LiveSlots(st) : st.slots[s] \in Record /\ s \notin st.deleted
<1>1. st.slots \in Seq(Record \cup {None}) /\ Len(st.slots) \in Nat
      /\ DOMAIN st.slots = 1..Len(st.slots)
  BY DEF Store
<1>2. IsFiniteSet(LiveSlots(st)) /\ NoSlot \notin LiveSlots(st)
  <2>1. LiveSlots(st) \subseteq 1..Len(st.slots)
    BY <1>1 DEF LiveSlots
  <2>2. IsFiniteSet(1..Len(st.slots))
    BY <1>1, FS_Interval
  <2>3. IsFiniteSet(LiveSlots(st))
    BY <2>1, <2>2, FS_Subset
  <2> QED
    BY <1>1, <2>1, <2>3 DEF NoSlot
<1>3. \A s \in LiveSlots(st) : s \in DOMAIN st.slots /\ st.slots[s] # None /\ s \notin st.deleted
  BY DEF LiveSlots
<1>4. \A s \in DOMAIN st.slots : st.slots[s] \in Record \cup {None}
  BY <1>1
<1> QED
  BY <1>1, <1>2, <1>3, <1>4 DEF Slot, NoSlot

\* New metadata changes neither which slots are live nor whose.
MetaWritten(st, s, m, new) ==
  /\ new \in Store
  /\ new.slots = [st.slots EXCEPT ![s] = [@ EXCEPT !.meta = m]]
  /\ new.deleted = st.deleted /\ new.idToSlot = st.idToSlot
  /\ new.dirty = st.dirty \cup {s}
  /\ DOMAIN new.slots = DOMAIN st.slots
  /\ LiveSlots(new) = LiveSlots(st)
  /\ Consistent(st) => Consistent(new)

LEMMA WithMetaKeeps ==
  ASSUME NEW st \in Store, NEW s \in LiveSlots(st), NEW m \in Val
  PROVE  MetaWritten(st, s, m, WithMeta(st, s, m))
<1> DEFINE new == WithMeta(st, s, m)
<1>1. Writable(st, s)
  BY DEF Writable, LiveSlots
<1>2. new \in Store
  BY <1>1, SameReaders, SameWriters, NoneApart, Facts!WrittenInPlaceType
<1>3. Facts!SameShape(st, new)
  BY <1>1, SameReaders, SameWriters, NoneApart, Facts!WrittenInPlaceShape
<1>4. Consistent(st) => Consistent(new)
  BY <1>3, SameReaders, SameWriters, NoneApart, Facts!SameShapeConsistent
<1>5. new.slots = [st.slots EXCEPT ![s] = [@ EXCEPT !.meta = m]]
      /\ new.dirty = st.dirty \cup {s}
  BY DEF WithMeta, Store
<1> QED
  BY <1>2, <1>3, <1>4, <1>5, SameReaders DEF Facts!SameShape, MetaWritten

\* Compaction leaves a store.
LEMMA CompactKeeps ==
  ASSUME NEW st \in Store
  PROVE  /\ Compacted(st) \in Store
         /\ Len(Compacted(st).slots) <= Len(st.slots)
         /\ Compacted(st).idToSlot = IndexOf(Compacted(st).slots, {})
<1>1. Compacted(st) \in Store
  BY SameReaders, SameCompaction, NoneApart, Facts!CompactedType
<1>2. /\ Compacted(st).slots = PackedSlots(st)
      /\ Compacted(st).idToSlot = IndexOf(PackedSlots(st), {})
  BY SameReaders, SameWriters, SameCompaction, NoneApart, Facts!CompactedEffect
<1>3. Len(PackedSlots(st)) = Facts!Cardinality(LiveSlots(st))
  BY SameReaders, SameCompaction, NoneApart, Facts!PackedSlotsLive
<1>4. LiveSlots(st) \subseteq 1..Len(st.slots) /\ Len(st.slots) \in Nat
  BY LiveSlotsType
<1>5. IsFiniteSet(1..Len(st.slots)) /\ Cardinality(1..Len(st.slots)) = Len(st.slots)
  BY <1>4, FS_Interval
<1>6. Cardinality(LiveSlots(st)) <= Len(st.slots)
  BY <1>4, <1>5, FS_Subset
<1>7. \A S : Facts!Cardinality(S) = Cardinality(S)
  BY DEF Cardinality, Facts!Cardinality
<1> QED
  BY <1>1, <1>2, <1>3, <1>6, <1>7

\* A rebuilt id map sends a name to a live slot that holds it, or nowhere.
LEMMA IndexOfSlot ==
  ASSUME NEW slots \in Seq(Record \cup {None}), NEW dead
  PROVE  /\ IndexOf(slots, dead) \in [Name -> Nat]
         /\ \A i \in Name :
              LET own == {s \in DOMAIN slots : s \notin dead /\ slots[s] # None /\ slots[s].id = i}
              IN  IF own = {} THEN IndexOf(slots, dead)[i] = NoSlot
                  ELSE IndexOf(slots, dead)[i] \in own
<1>1. IndexOf(slots, dead) \in [Name -> Nat]
  BY SameReaders, SameWriters, NoneApart, Facts!IndexOfType
<1>2. ASSUME NEW i \in Name
      PROVE  IF Facts!Own(slots, dead, i) = {} THEN IndexOf(slots, dead)[i] = NoSlot
             ELSE IndexOf(slots, dead)[i] \in Facts!Own(slots, dead, i)
  BY SameReaders, SameWriters, NoneApart, Facts!IndexOfOwn
<1> QED
  BY <1>1, <1>2 DEF Facts!Own

\* A rebuilt store is a store, and has nothing dirty.
Rebuilt(st, slots, dead) ==
  /\ st \in Store
  /\ st.slots = slots /\ st.deleted = dead /\ st.dirty = {}
  /\ st.idToSlot = IndexOf(slots, dead)

LEMMA RestoredStore ==
  ASSUME NEW slots \in Seq(Record \cup {None}), NEW dead \in SUBSET Slot, NEW count \in Int
  PROVE  Rebuilt(Restored(slots, dead, count), slots, dead)
<1>1. Restored(slots, dead, count) \in Store
  BY SameReaders, SameWriters, NoneApart, Facts!RestoredType
<1> QED
  BY <1>1 DEF Restored, Rebuilt

\* A rebuilt store whose live slots have different names is consistent.
LEMMA RestoredKeeps ==
  ASSUME NEW slots \in Seq(Record \cup {None}), NEW dead \in SUBSET Slot, NEW count \in Int
  PROVE  LET new == Restored(slots, dead, count)
         IN  /\ new \in Store
             /\ new.slots = slots /\ new.deleted = dead /\ new.dirty = {}
             /\ new.idToSlot = IndexOf(slots, dead)
             /\ /\ dead \subseteq DOMAIN slots
                /\ count = Cardinality(LiveSlots(new))
                /\ \A s, t \in LiveSlots(new) : slots[s].id = slots[t].id => s = t
                => Consistent(new)
<1> DEFINE new == Restored(slots, dead, count)
<1>1. new \in Store
  BY SameReaders, SameWriters, NoneApart, Facts!RestoredType
<1>2. /\ new.slots = slots /\ new.deleted = dead /\ new.dirty = {}
      /\ new.idToSlot = IndexOf(slots, dead) /\ new.liveCount = count
  BY DEF Restored
<1>3. ASSUME dead \subseteq DOMAIN slots, count = Cardinality(LiveSlots(new)),
             \A s, t \in LiveSlots(new) : slots[s].id = slots[t].id => s = t
      PROVE  Consistent(new)
  <2> HIDE DEF new
  <2>1. \A S : Facts!Cardinality(S) = Cardinality(S)
    BY DEF Cardinality, Facts!Cardinality
  <2>2. /\ new \in Facts!Store
        /\ new.idToSlot = Facts!IndexOf(new.slots, new.deleted)
        /\ new.deleted \subseteq DOMAIN new.slots
        /\ new.liveCount = Facts!Cardinality(Facts!LiveSlots(new))
        /\ \A s, t \in Facts!LiveSlots(new) : new.slots[s].id = new.slots[t].id => s = t
    BY <1>1, <1>2, <1>3, <2>1, SameReaders, SameWriters
  <2> QED
    BY <2>2, SameReaders, NoneApart, Facts!RebuiltConsistent
<1> QED
  BY <1>1, <1>2, <1>3

\* Whatever the store, an upsert pushes a slot and maps the name to it, and a delete
\* unmaps the name.
LEMMA WritesPush ==
  ASSUME NEW st \in Store
  PROVE  /\ \A rec \in Record :
              /\ Upserted(st, rec).slots = Append(st.slots, rec)
              /\ Len(Upserted(st, rec).slots) = Len(st.slots) + 1
              /\ Upserted(st, rec).idToSlot = [st.idToSlot EXCEPT ![rec.id] = Len(st.slots) + 1]
         /\ \A i \in Name :
              /\ Removed(st, i).slots = st.slots
              /\ Removed(st, i).idToSlot = [st.idToSlot EXCEPT ![i] = NoSlot]
<1>1. \A s : /\ Tombstoned(st, s).slots = st.slots
             /\ Tombstoned(st, s).idToSlot = st.idToSlot
             /\ Tombstoned(st, s) = [Tombstoned(st, s) EXCEPT !.slots = st.slots]
  BY DEF Tombstoned, Store
<1>2. ASSUME NEW rec \in Record
      PROVE  /\ Upserted(st, rec).slots = Append(st.slots, rec)
             /\ Upserted(st, rec).idToSlot = [st.idToSlot EXCEPT ![rec.id] = Len(st.slots) + 1]
  <2> DEFINE Base(x) == x.slots = st.slots /\ x.idToSlot = st.idToSlot
                        /\ "slots" \in DOMAIN x /\ "idToSlot" \in DOMAIN x
  <2>1. ASSUME NEW x, Base(x)
        PROVE  /\ Appended(x, rec).slots = Append(st.slots, rec)
               /\ Appended(x, rec).idToSlot = [st.idToSlot EXCEPT ![rec.id] = Len(st.slots) + 1]
    BY <2>1 DEF Appended
  <2>2. Base(st) /\ \A s : Base(Tombstoned(st, s))
    BY DEF Tombstoned, Store
  <2> HIDE DEF Base
  <2> QED
    BY <2>1, <2>2 DEF Upserted
<1>3. ASSUME NEW rec \in Record
      PROVE  Len(Append(st.slots, rec)) = Len(st.slots) + 1
  BY LiveSlotsType, AppendProperties
<1>4. ASSUME NEW i \in Name
      PROVE  /\ Removed(st, i).slots = st.slots
             /\ Removed(st, i).idToSlot = [st.idToSlot EXCEPT ![i] = NoSlot]
  BY DEF Removed, Tombstoned, Store
<1> QED
  BY <1>2, <1>3, <1>4

-----------------------------------------------------------------------------
(* The records that a snapshot and .vecs give.                             *)

InRange(ids, n) == \A i \in Name : ids[i] <= n

\* The greatest of a set of slots up to some bound.
LEMMA MaxOf ==
  ASSUME NEW n \in Nat, NEW S \in SUBSET (0..n), S # {}
  PROVE  Max(S) \in S /\ \A s \in S : s <= Max(S)
<1>1. S \in SUBSET Nat
  OBVIOUS
<1>2. IsFiniteSet(S)
  <2>1. IsFiniteSet(0..n)
    BY FS_Interval
  <2> QED
    BY <2>1, FS_Subset
<1>3. \E s \in S : \A t \in S : t <= s
  <2>1. Facts!IsFiniteSet(S)
    BY <1>2 DEF IsFiniteSet, Facts!IsFiniteSet
  <2> QED
    BY <1>1, <2>1, NoneApart, Facts!GreatestSlot
<1>4. \E s \in S : \A t \in S : s >= t
  BY <1>1, <1>3
<1>5. Max(S) \in S /\ \A t \in S : Max(S) >= t
  BY <1>4 DEF Max
<1> QED
  BY <1>1, <1>5

\* The chosen snapshot is one, and the slots it maps are up to its bound.
LEMMA ChosenType ==
  ASSUME NEW d \in Disk
  PROVE  /\ Chosen(d) \in Snapshot
         /\ d.manifest \in Snapshot
         /\ UsesSlim(d) => d.slim \in Snapshot
BY DEF Disk, Chosen, UsesSlim

LEMMA MappedType ==
  ASSUME NEW snap \in Snapshot, NEW n \in Nat, InRange(snap.ids, n)
  PROVE  /\ Mapped(snap) \subseteq 1..n
         /\ \A s \in Mapped(snap) : \E i \in Name : snap.ids[i] = s
<1>1. snap.ids \in [Name -> Nat]
  BY DEF Snapshot
<1> QED
  BY <1>1 DEF Mapped, InRange, NoSlot

\* What build_initial_records puts into slot s, and how many slots it makes.
VecAt(d, s) == IF s \in Usable(d) THEN s ELSE None

MetaAt(snap, s) == IF s \in DOMAIN snap.meta THEN snap.meta[s] ELSE None

InitialRecord(d, i, s) ==
  [id |-> i, vec |-> VecAt(d, s), aux |-> None, meta |-> MetaAt(Chosen(d), s)]

InitialSlot(d, s) ==
  IF s \in Chosen(d).deleted THEN None
  ELSE IF s \in Mapped(Chosen(d))
  THEN InitialRecord(d, CHOOSE i \in Name : Chosen(d).ids[i] = s, s)
  ELSE IF VecAt(d, s) # None THEN InitialRecord(d, s, s) ELSE None

LastSlot(d) ==
  Max({0} \cup Mapped(Chosen(d)) \cup (IF d.vecFile THEN DOMAIN d.vecs ELSE {}))

InitialSlots(d) == [s \in 1..LastSlot(d) |-> InitialSlot(d, s)]

LEMMA InitialUnfolds ==
  ASSUME NEW d
  PROVE  InitialRecords(d)
           = Restored(InitialSlots(d), Chosen(d).deleted,
                      Cardinality({s \in 1..LastSlot(d) : InitialSlots(d)[s] # None}))
BY DEF InitialRecords, InitialSlots, InitialSlot, InitialRecord, VecAt, MetaAt, LastSlot

\* The slots reach as far as the snapshot's and the vectors do.
LEMMA LastSlotType ==
  ASSUME NEW d \in Disk, NEW n \in Nat, Len(d.vecs) <= n, InRange(Chosen(d).ids, n)
  PROVE  /\ LastSlot(d) \in 0..n
         /\ Mapped(Chosen(d)) \subseteq 1..LastSlot(d)
         /\ d.vecFile => DOMAIN d.vecs \subseteq 1..LastSlot(d)
         /\ LastSlot(d) \in {0} \cup Mapped(Chosen(d)) \cup (IF d.vecFile THEN DOMAIN d.vecs ELSE {})
<1> DEFINE S == {0} \cup Mapped(Chosen(d)) \cup (IF d.vecFile THEN DOMAIN d.vecs ELSE {})
<1>1. Mapped(Chosen(d)) \subseteq 1..n
  BY ChosenType, MappedType
<1>2. DOMAIN d.vecs = 1..Len(d.vecs) /\ Len(d.vecs) \in Nat
  BY DEF Disk
<1>3. DOMAIN d.vecs \subseteq 1..n
  BY <1>2
<1>4. S \in SUBSET (0..n) /\ 0 \in S
  BY <1>1, <1>3
<1>5. LastSlot(d) = Max(S)
  BY DEF LastSlot
<1> HIDE DEF S
<1>6. LastSlot(d) \in S /\ \A s \in S : s <= LastSlot(d)
  BY <1>4, <1>5, MaxOf
<1> QED
  BY <1>1, <1>3, <1>4, <1>6 DEF S

\* A usable vector is one of .vecs.
LEMMA UsableInFile ==
  ASSUME NEW d \in Disk
  PROVE  Usable(d) \subseteq DOMAIN d.vecs /\ (~d.vecFile => Usable(d) = {})
BY DEF Usable, Loaded

\* Each slot holds a record or nothing.
LEMMA InitialSlotType ==
  ASSUME NEW d \in Disk, Len(d.vecs) <= SlotLimit, NEW s \in Slot
  PROVE  /\ InitialSlot(d, s) \in Record \cup {None}
         /\ \A i \in Name : InitialRecord(d, i, s) \in Record
<1>1. Chosen(d).meta \in Seq(Val \cup {None}) /\ Chosen(d).ids \in [Name -> Nat]
  BY ChosenType DEF Snapshot
<1>2. MetaAt(Chosen(d), s) \in Val \cup {None}
  BY <1>1 DEF MetaAt
<1>3. DOMAIN d.vecs = 1..Len(d.vecs) /\ Len(d.vecs) \in Nat
  BY DEF Disk
<1>4. s \in Usable(d) => s \in View /\ s \in PhantomName
  BY <1>3, UsableInFile, SlotLimitAssumption DEF View, PhantomName
<1>5. VecAt(d, s) \in View \cup {None}
  BY <1>4 DEF VecAt
<1>6. ASSUME NEW i \in Name
      PROVE  InitialRecord(d, i, s) \in Record
  BY <1>2, <1>5 DEF InitialRecord, Record
<1>7. s \in Mapped(Chosen(d)) => (CHOOSE i \in Name : Chosen(d).ids[i] = s) \in Name
  BY DEF Mapped
<1>8. VecAt(d, s) # None => s \in Name
  BY <1>4 DEF VecAt, Name
<1> QED
  BY <1>6, <1>7, <1>8 DEF InitialSlot

\* A rebuilt id map stays within the slots.
LEMMA IndexInRange ==
  ASSUME NEW slots \in Seq(Record \cup {None}), NEW dead
  PROVE  InRange(IndexOf(slots, dead), Len(slots))
<1>1. DOMAIN slots = 1..Len(slots) /\ Len(slots) \in Nat
  OBVIOUS
<1> SUFFICES ASSUME NEW i \in Name PROVE IndexOf(slots, dead)[i] <= Len(slots)
  BY DEF InRange
<1> DEFINE own == {s \in DOMAIN slots : s \notin dead /\ slots[s] # None /\ slots[s].id = i}
<1>2. IF own = {} THEN IndexOf(slots, dead)[i] = NoSlot ELSE IndexOf(slots, dead)[i] \in own
  BY IndexOfSlot
<1> QED
  BY <1>1, <1>2 DEF NoSlot

\* What build_initial_records makes is a store, within the bound.
LEMMA InitialType ==
  ASSUME NEW d \in Disk, NEW n \in 0..SlotLimit, Len(d.vecs) <= n, InRange(Chosen(d).ids, n)
  PROVE  LET new == InitialRecords(d)
         IN  /\ new \in Store
             /\ new.slots = InitialSlots(d) /\ Len(new.slots) = LastSlot(d)
             /\ new.deleted = Chosen(d).deleted /\ new.dirty = {}
             /\ new.idToSlot = IndexOf(InitialSlots(d), Chosen(d).deleted)
             /\ Len(new.slots) <= n
<1> DEFINE count == Cardinality({s \in 1..LastSlot(d) : InitialSlots(d)[s] # None})
<1>1. n \in Nat /\ n <= SlotLimit /\ LastSlot(d) \in 0..n
  BY LastSlotType, SlotLimitAssumption
<1>2. Len(d.vecs) \in Nat /\ Len(d.vecs) <= SlotLimit
  BY <1>1, SlotLimitAssumption DEF Disk
<1>3. InitialSlots(d) \in [1..LastSlot(d) -> Record \cup {None}]
  BY <1>1, <1>2, InitialSlotType DEF InitialSlots, Slot, NoSlot
<1>4. InitialSlots(d) \in Seq(Record \cup {None}) /\ Len(InitialSlots(d)) = LastSlot(d)
  BY <1>1, <1>3
<1>5. count \in Int
  <2>1. IsFiniteSet(1..LastSlot(d))
    BY <1>1, FS_Interval
  <2>2. IsFiniteSet({s \in 1..LastSlot(d) : InitialSlots(d)[s] # None})
    BY <2>1, FS_Subset
  <2> QED
    BY <2>2, FS_CardinalityType
<1>6. Chosen(d).deleted \in SUBSET Slot
  BY ChosenType DEF Snapshot
<1>7. InitialRecords(d) = Restored(InitialSlots(d), Chosen(d).deleted, count)
  BY InitialUnfolds
<1> HIDE DEF count
<1>8. Rebuilt(InitialRecords(d), InitialSlots(d), Chosen(d).deleted)
  BY <1>4, <1>5, <1>6, <1>7, RestoredStore
<1> QED
  BY <1>1, <1>4, <1>8 DEF Rebuilt

-----------------------------------------------------------------------------
(* The replay of the log.                                                  *)

\* The record that the replay of an upsert writes.
RecordIn(e) == [id |-> e.id, vec |-> e.vec, aux |-> None, meta |-> e.meta]

LEMMA EntryType ==
  ASSUME NEW e \in Entry
  PROVE  /\ e.op \in {"upsert", "delete"} /\ e.id \in Key /\ e.id \in Name
         /\ e.op = "upsert" => RecordIn(e) \in Record
BY DEF Entry, Record, RecordIn, Name

LEMMA ReplayedType ==
  ASSUME NEW st \in Store, NEW e \in Entry
  PROVE  /\ Replayed(st, e) \in Store
         /\ Len(Replayed(st, e).slots) <= Len(st.slots) + 1
         /\ InRange(st.idToSlot, Len(st.slots))
              => InRange(Replayed(st, e).idToSlot, Len(Replayed(st, e).slots))
<1>1. Len(st.slots) \in Nat /\ st.idToSlot \in [Name -> Nat]
  BY LiveSlotsType DEF Store
<1>2. CASE e.op = "upsert"
  <2>1. Replayed(st, e) = Upserted(st, RecordIn(e)) /\ RecordIn(e) \in Record
    BY <1>2, EntryType DEF Replayed, RecordIn
  <2>2. Upserted(st, RecordIn(e)) \in Store
    BY <2>1, UpsertKeeps
  <2>3. /\ Len(Upserted(st, RecordIn(e)).slots) = Len(st.slots) + 1
        /\ Upserted(st, RecordIn(e)).idToSlot
             = [st.idToSlot EXCEPT ![RecordIn(e).id] = Len(st.slots) + 1]
    BY <2>1, WritesPush
  <2> QED
    BY <1>1, <2>1, <2>2, <2>3 DEF InRange
<1>3. CASE e.op # "upsert" /\ Deletable(st, e.id)
  <2>1. Replayed(st, e) = Removed(st, e.id) /\ e.id \in Name
    BY <1>3, EntryType DEF Replayed
  <2>2. Removed(st, e.id) \in Store
    BY <1>3, <2>1, RemoveKeeps
  <2>3. /\ Removed(st, e.id).slots = st.slots
        /\ Removed(st, e.id).idToSlot = [st.idToSlot EXCEPT ![e.id] = NoSlot]
    BY <2>1, WritesPush
  <2> QED
    BY <1>1, <2>1, <2>2, <2>3 DEF InRange, NoSlot
<1>4. CASE e.op # "upsert" /\ ~Deletable(st, e.id)
  BY <1>1, <1>4 DEF Replayed
<1> QED
  BY <1>2, <1>3, <1>4

LEMMA ReplayedUnlessCoveredType ==
  ASSUME NEW d \in Disk, NEW st \in Store, NEW n \in 1..Len(d.wal)
  PROVE  /\ d.wal[n].entry \in Entry
         /\ ReplayedUnlessCovered(d, st, d.wal[n]) \in Store
<1>1. d.wal[n] \in [ts : Nat, entry : Entry]
  BY ElementOfSeq DEF Disk
<1> QED
  BY <1>1, ReplayedType DEF ReplayedUnlessCovered

\* What holds of the initial records, and of each further entry's if it held before
\* it, holds of the recovered store.
LEMMA RecoveredInduction ==
  ASSUME NEW d \in Disk, NEW P \in SUBSET (Nat \X Store),
         <<0, InitialRecords(d)>> \in P,
         \A n \in 1..Len(d.wal), st \in Store :
           <<n - 1, st>> \in P => <<n, ReplayedUnlessCovered(d, st, d.wal[n])>> \in P
  PROVE  <<Len(d.wal), Recovered(d)>> \in P
<1> DEFINE N == Len(d.wal)
           start == InitialRecords(d)
           step_ == [x \in Store \X (1..N) |-> ReplayedUnlessCovered(d, x[1], d.wal[x[2]])]
           Fits(h) == h = [n \in 0..N |-> IF n = 0 THEN InitialRecords(d)
                                          ELSE ReplayedUnlessCovered(d, h[n - 1], d.wal[n])]
           after == CHOOSE h : Fits(h)
<1>1. N \in Nat
  BY LenProperties DEF Disk
<1>2. start \in Store
  OBVIOUS
<1>3. step_ \in [Store \X (1..N) -> Store]
  <2>1. \A x \in Store \X (1..N) : x[1] \in Store /\ x[2] \in 1..N
    OBVIOUS
  <2> QED
    BY <2>1, ReplayedUnlessCoveredType
<1>4. PICK f \in [0..N -> Store] :
           f[0] = start /\ \A n \in 1..N : f[n] = step_[<<f[n - 1], n>>]
  <2> HIDE DEF N, step_, start
  <2>1. Runs(Store, start, N, step_) # {}
    BY <1>1, <1>2, <1>3, RecursionExists
  <2> QED
    BY <2>1 DEF Runs
<1>5. \A n \in 1..N : f[n - 1] \in Store
                      /\ f[n] = ReplayedUnlessCovered(d, f[n - 1], d.wal[n])
  <2> TAKE n \in 1..N
  <2>1. f[n - 1] \in Store
    BY <1>1
  <2> QED
    BY <1>4, <2>1
<1>6. Fits(f)
  <2>1. \A n \in 0..N : f[n] = IF n = 0 THEN InitialRecords(d)
                               ELSE ReplayedUnlessCovered(d, f[n - 1], d.wal[n])
    BY <1>1, <1>4, <1>5
  <2> HIDE DEF N
  <2> QED
    BY <1>4, <2>1
<1>7. Fits(after)
  BY <1>6
<1>8. /\ after[0] = InitialRecords(d)
      /\ \A n \in 1..N : after[n] = ReplayedUnlessCovered(d, after[n - 1], d.wal[n])
  <2> HIDE DEF after, N
  <2>1. \A n \in 0..N : after[n] = IF n = 0 THEN InitialRecords(d)
                                   ELSE ReplayedUnlessCovered(d, after[n - 1], d.wal[n])
    BY <1>7
  <2> QED
    BY <1>1, <2>1
<1>9. \A n \in 0..N : after[n] = f[n] /\ <<n, after[n]>> \in P
  <2> DEFINE Good == {n \in Nat : after[n] = f[n] /\ <<n, after[n]>> \in P}
  <2>1. 0 \in Good
    <3> HIDE DEF after, N
    <3> QED
      BY <1>4, <1>8
  <2>2. \A n \in 1..N : n - 1 \in Good => n \in Good
    <3> SUFFICES ASSUME NEW n \in 1..N, n - 1 \in Good PROVE n \in Good
      OBVIOUS
    <3>1. after[n - 1] = f[n - 1] /\ <<n - 1, after[n - 1]>> \in P /\ n \in Nat
      BY <1>1
    <3> HIDE DEF after
    <3>2. <<n, ReplayedUnlessCovered(d, after[n - 1], d.wal[n])>> \in P
      BY <1>5, <3>1
    <3>3. after[n] = ReplayedUnlessCovered(d, after[n - 1], d.wal[n])
      BY <1>8
    <3> QED
      BY <1>5, <3>1, <3>2, <3>3
  <2>3. \A n \in 0..N : n \in Good
    <3> HIDE DEF after, N, Good
    <3> QED
      BY <1>1, <2>1, <2>2, IntervalInduction
  <2> QED
    BY <2>3
<1>10. Recovered(d) = after[N]
  BY DEF Recovered
<1>11. N \in 0..N
  BY <1>1
<1> HIDE DEF after, N
<1> QED
  BY <1>9, <1>10, <1>11 DEF N

\* What is recovered from a disk is a store, longer than what the snapshot and .vecs
\* give by the entries of the log at most.
LEMMA RecoveredType ==
  ASSUME NEW d \in Disk, NEW n \in 0..SlotLimit, Len(d.vecs) <= n, InRange(Chosen(d).ids, n)
  PROVE  /\ Recovered(d) \in Store
         /\ Len(Recovered(d).slots) <= n + Len(d.wal)
         /\ InRange(Recovered(d).idToSlot, Len(Recovered(d).slots))
<1> DEFINE Fits(m, st) == /\ Len(st.slots) <= n + m
                          /\ InRange(st.idToSlot, Len(st.slots))
           P == {x \in Nat \X Store : Fits(x[1], x[2])}
<1>1. n \in Nat /\ n <= SlotLimit /\ SlotLimit \in Nat
  BY SlotLimitAssumption
<1>2. <<0, InitialRecords(d)>> \in P
  <2>1. /\ InitialRecords(d) \in Store
        /\ Len(InitialRecords(d).slots) <= n
        /\ InitialRecords(d).idToSlot = IndexOf(InitialRecords(d).slots, Chosen(d).deleted)
    BY InitialType
  <2>2. InRange(InitialRecords(d).idToSlot, Len(InitialRecords(d).slots))
    BY <2>1, LiveSlotsType, IndexInRange
  <2> QED
    BY <1>1, <2>1, <2>2
<1>3. \A m \in 1..Len(d.wal), st \in Store :
           <<m - 1, st>> \in P => <<m, ReplayedUnlessCovered(d, st, d.wal[m])>> \in P
  <2> TAKE m \in 1..Len(d.wal), st \in Store
  <2> HAVE <<m - 1, st>> \in P
  <2> DEFINE new == ReplayedUnlessCovered(d, st, d.wal[m])
  <2>1. Len(d.wal) \in Nat /\ m \in Nat /\ m - 1 \in Nat
    BY LenProperties DEF Disk
  <2>2. Fits(m - 1, st)
    OBVIOUS
  <2>3. d.wal[m].entry \in Entry /\ new \in Store
    BY ReplayedUnlessCoveredType
  <2>4. Len(new.slots) <= Len(st.slots) + 1
        /\ (InRange(st.idToSlot, Len(st.slots)) => InRange(new.idToSlot, Len(new.slots)))
    BY <2>3, LiveSlotsType, ReplayedType DEF ReplayedUnlessCovered
  <2>5. Len(st.slots) \in Nat /\ Len(new.slots) \in Nat
    <3> HIDE DEF new
    <3> QED
      BY <2>3, LiveSlotsType
  <2> HIDE DEF new
  <2>6. Fits(m, new)
    BY <1>1, <2>1, <2>2, <2>4, <2>5
  <2> QED
    BY <2>1, <2>3, <2>6 DEF new
<1>4. <<Len(d.wal), Recovered(d)>> \in P
  <2>1. P \in SUBSET (Nat \X Store)
    OBVIOUS
  <2> HIDE DEF P
  <2> QED
    BY <1>2, <1>3, <2>1, RecoveredInduction
<1> QED
  BY <1>4

-----------------------------------------------------------------------------
(* Type correctness.  The types hold for every choice of the constants: a  *)
(* slot that is viewed needs a name, so the invariant bounds the slots of  *)
(* the store, of .vecs and of both snapshots by the calls made so far.     *)

Made == MaxCalls - budget.calls

Bound == Made * (MaxRestarts - budget.restarts + 1)

Sized(d, st, n) ==
  /\ Len(st.slots) <= n /\ Len(d.vecs) <= n
  /\ InRange(st.idToSlot, Len(st.slots))
  /\ InRange(d.manifest.ids, n)
  /\ d.slim # None => InRange(d.slim.ids, n)

TInv == /\ TypeOK
        /\ Len(disk.wal) <= Made
        /\ Sized(disk, store, Bound)

LEMMA Products ==
  ASSUME NEW a \in Nat, NEW b \in Nat, NEW m \in Nat, NEW r \in Nat, a <= m, b <= r
  PROVE  /\ a * (b + 1) \in Nat
         /\ a * (b + 1) <= m * (r + 1)
         /\ (a + 1) * (b + 1) >= a * (b + 1) + 1
         /\ a * (b + 1 + 1) = a * (b + 1) + a
<1>1. a * (b + 1) <= a * (r + 1)
  <2>1. a * (r + 1) - a * (b + 1) = a * (r - b) /\ r - b \in Nat
    OBVIOUS
  <2>2. a * (r - b) >= 0
    BY <2>1
  <2> QED
    BY <2>1, <2>2
<1>2. a * (r + 1) <= m * (r + 1)
  <2>1. m * (r + 1) - a * (r + 1) = (m - a) * (r + 1) /\ m - a \in Nat
    OBVIOUS
  <2>2. (m - a) * (r + 1) >= 0
    BY <2>1
  <2> QED
    BY <2>1, <2>2
<1>3. a * (b + 1) \in Nat /\ a * (r + 1) \in Int /\ m * (r + 1) \in Int
  OBVIOUS
<1>4. (a + 1) * (b + 1) = a * (b + 1) + (b + 1)
  OBVIOUS
<1>5. a * (b + 1 + 1) = a * (b + 1) + a
  OBVIOUS
<1> QED
  BY <1>1, <1>2, <1>3, <1>4, <1>5

LEMMA BudgetType ==
  ASSUME TInv
  PROVE  /\ Made \in Nat /\ Bound \in 0..SlotLimit
         /\ Made <= MaxCalls
         /\ budget.restarts \in 0..MaxRestarts
<1>1. budget \in [calls : 0..MaxCalls, restarts : 0..MaxRestarts, errors : 0..MaxErrors]
  BY DEF TInv, TypeOK
<1>2. Made \in Nat /\ MaxRestarts - budget.restarts \in Nat
      /\ Made <= MaxCalls /\ MaxRestarts - budget.restarts <= MaxRestarts
      /\ budget.restarts \in 0..MaxRestarts
  BY <1>1, BoundsAssumption DEF Made
<1>3. Bound \in Nat /\ Bound <= MaxCalls * (MaxRestarts + 1)
  <2> HIDE DEF Made
  <2> QED
    BY <1>2, BoundsAssumption, Products DEF Bound
<1>4. MaxCalls * (MaxRestarts + 1) \in Nat
  BY BoundsAssumption
<1> QED
  BY <1>2, <1>3, <1>4, SlotLimitAssumption, SlotLimitCoversRuns

\* A larger bound.
LEMMA SizedUp ==
  ASSUME NEW d \in Disk, NEW st \in Store, NEW n \in Nat, NEW m \in Nat, n <= m,
         Sized(d, st, n)
  PROVE  Sized(d, st, m)
<1>1. d.manifest.ids \in [Name -> Nat] /\ (d.slim # None => d.slim.ids \in [Name -> Nat])
  BY DEF Disk, Snapshot
<1>2. Len(d.vecs) \in Nat /\ Len(st.slots) \in Nat
  BY LiveSlotsType DEF Disk
<1> QED
  BY <1>1, <1>2 DEF Sized, InRange

\* A call counts, and makes room for a slot and an entry.
LEMMA CalledBounds ==
  ASSUME TInv, NEW name, Called(name)
  PROVE  /\ budget' \in [calls : 0..MaxCalls, restarts : 0..MaxRestarts, errors : 0..MaxErrors]
         /\ Made' = Made + 1
         /\ Bound \in Nat /\ Bound' \in Nat /\ Bound' >= Bound + 1
         /\ step = "idle"
<1>1. budget \in [calls : 0..MaxCalls, restarts : 0..MaxRestarts, errors : 0..MaxErrors]
  BY DEF TInv, TypeOK
<1>2. budget.calls > 0 /\ budget' = [budget EXCEPT !.calls = @ - 1] /\ step = "idle"
  BY DEF Called
<1>3. budget' \in [calls : 0..MaxCalls, restarts : 0..MaxRestarts, errors : 0..MaxErrors]
      /\ budget'.calls = budget.calls - 1 /\ budget'.restarts = budget.restarts
  BY <1>1, <1>2, BoundsAssumption
<1>4. Made' = Made + 1 /\ Made' \in Nat /\ Made \in Nat /\ Made' <= MaxCalls
  BY <1>1, <1>2, <1>3, BoundsAssumption DEF Made
<1>5. MaxRestarts - budget.restarts \in Nat /\ MaxRestarts \in Nat /\ MaxCalls \in Nat
      /\ MaxRestarts - budget.restarts <= MaxRestarts
  BY <1>1, BoundsAssumption
<1> DEFINE r == MaxRestarts - budget.restarts
<1>6. Bound = Made * (r + 1) /\ Bound' = (Made + 1) * (r + 1)
  <2> HIDE DEF Made
  <2> QED
    BY <1>3, <1>4 DEF Bound
<1>7. Bound \in Nat /\ Bound' >= Bound + 1
  <2> HIDE DEF r, Made, Bound
  <2>1. Made <= MaxCalls
    BY <1>4, <1>5
  <2>2. r \in Nat /\ r <= MaxRestarts
    BY <1>5 DEF r
  <2>3. Made * (r + 1) \in Nat /\ (Made + 1) * (r + 1) >= Made * (r + 1) + 1
    BY <1>4, <1>5, <2>1, <2>2, Products
  <2> QED
    BY <1>6, <2>3
<1>8. Bound' \in Nat
  <2> HIDE DEF r, Made, Bound
  <2>1. r \in Nat /\ r <= MaxRestarts
    BY <1>5 DEF r
  <2>2. (Made + 1) * (r + 1) \in Nat
    BY <1>4, <1>5, <2>1, Products
  <2> QED
    BY <1>6, <2>2
<1> QED
  BY <1>2, <1>3, <1>4, <1>7, <1>8

\* Steps that make no call and leave the budget's calls and restarts alone.
LEMMA SameBounds ==
  ASSUME TInv, budget'.calls = budget.calls, budget'.restarts = budget.restarts
  PROVE  Made' = Made /\ Bound' = Bound
BY DEF Made, Bound

\* A log with one entry more.
WithEntry(d, ts, e, new) ==
  /\ new \in Disk
  /\ new.wal = Append(d.wal, [ts |-> ts, entry |-> e])
  /\ Len(d.wal) \in Nat /\ Len(new.wal) = Len(d.wal) + 1
  /\ new.vecs = d.vecs /\ new.vecFile = d.vecFile
  /\ new.manifest = d.manifest /\ new.maxTs = d.maxTs
  /\ new.slim = d.slim /\ new.slimNewer = d.slimNewer
  /\ new.metaEpoch = d.metaEpoch

LEMMA LoggedEffect ==
  ASSUME NEW d \in Disk, NEW ts \in Nat, NEW e \in Entry
  PROVE  WithEntry(d, ts, e, Logged(d, ts, e))
<1>1. d.wal \in Seq([ts : Nat, entry : Entry]) /\ [ts |-> ts, entry |-> e] \in [ts : Nat, entry : Entry]
  BY DEF Disk
<1>2. /\ Append(d.wal, [ts |-> ts, entry |-> e]) \in Seq([ts : Nat, entry : Entry])
      /\ Len(Append(d.wal, [ts |-> ts, entry |-> e])) = Len(d.wal) + 1
      /\ Len(d.wal) \in Nat
  BY <1>1, AppendProperties, LenProperties
<1> QED
  BY <1>2 DEF Logged, Disk, WithEntry

\* What a call makes of the records fits in the slot that it has room for.
Follows(st, new) ==
  /\ new \in Store
  /\ Len(new.slots) <= Len(st.slots) + 1
  /\ InRange(st.idToSlot, Len(st.slots)) => InRange(new.idToSlot, Len(new.slots))

LEMMA NewRecordType ==
  ASSUME NEW st \in Store, NEW k \in Key, NEW v \in Val
  PROVE  /\ k \in Name
         /\ Carried(st, k).aux = None
         /\ [id |-> k, vec |-> v, aux |-> None, meta |-> v] \in Record
<1>1. k \in Name
  BY DEF Name
<1>2. Carried(st, k).aux = None
  <2>1. \A s \in DOMAIN st.slots : st.slots[s] \in Record \cup {None}
    BY LiveSlotsType
  <2> QED
    BY <2>1 DEF Carried, Record
<1> QED
  BY <1>1, <1>2 DEF Record

LEMMA SetFollows ==
  ASSUME NEW st \in Store, NEW k \in Key, NEW v \in Val
  PROVE  /\ WithVector(st, k, v, v) = Upserted(st, [id |-> k, vec |-> v, aux |-> None, meta |-> v])
         /\ Follows(st, WithVector(st, k, v, v))
<1> DEFINE rec == [id |-> k, vec |-> v, aux |-> None, meta |-> v]
<1>1. rec \in Record /\ WithVector(st, k, v, v) = Upserted(st, rec)
  BY NewRecordType DEF WithVector
<1>2. Upserted(st, rec) \in Store
  <2> HIDE DEF rec
  <2> QED
    BY <1>1, UpsertKeeps
<1>3. /\ Len(Upserted(st, rec).slots) = Len(st.slots) + 1
      /\ Upserted(st, rec).idToSlot = [st.idToSlot EXCEPT ![rec.id] = Len(st.slots) + 1]
  <2> HIDE DEF rec
  <2> QED
    BY <1>1, WritesPush
<1>4. Len(st.slots) \in Nat /\ st.idToSlot \in [Name -> Nat]
  BY LiveSlotsType DEF Store
<1> HIDE DEF rec
<1> QED
  BY <1>1, <1>2, <1>3, <1>4 DEF Follows, InRange, rec

LEMMA DeleteFollows ==
  ASSUME NEW st \in Store, NEW k \in Key, Deletable(st, k)
  PROVE  Follows(st, Removed(st, k))
<1>1. k \in Name
  BY DEF Name
<1>2. Removed(st, k) \in Store
  BY <1>1, RemoveKeeps
<1>3. /\ Removed(st, k).slots = st.slots
      /\ Removed(st, k).idToSlot = [st.idToSlot EXCEPT ![k] = NoSlot]
  BY <1>1, WritesPush
<1>4. Len(st.slots) \in Nat /\ st.idToSlot \in [Name -> Nat]
  BY LiveSlotsType DEF Store
<1> QED
  BY <1>2, <1>3, <1>4 DEF Follows, InRange, NoSlot

LEMMA UpdateFollows ==
  ASSUME NEW st \in Store, NEW s \in LiveSlots(st), NEW m \in Val
  PROVE  Follows(st, WithMeta(st, s, m))
<1> DEFINE new == WithMeta(st, s, m)
<1>1. new \in Store /\ DOMAIN new.slots = DOMAIN st.slots /\ new.idToSlot = st.idToSlot
  <2>1. MetaWritten(st, s, m, new)
    BY WithMetaKeeps
  <2> QED
    BY <2>1 DEF MetaWritten
<1> HIDE DEF new
<1>2. Len(st.slots) \in Nat /\ Len(new.slots) \in Nat
      /\ DOMAIN st.slots = 1..Len(st.slots) /\ DOMAIN new.slots = 1..Len(new.slots)
  BY <1>1, LiveSlotsType
<1>3. Len(new.slots) = Len(st.slots)
  BY <1>1, <1>2
<1> QED
  BY <1>1, <1>2, <1>3 DEF Follows, new

LEMMA CompactFollows ==
  ASSUME NEW st \in Store
  PROVE  /\ Follows(st, Compacted(st))
         /\ Len(Compacted(st).slots) <= Len(st.slots)
<1>1. /\ Compacted(st) \in Store
      /\ Len(Compacted(st).slots) <= Len(st.slots)
      /\ Compacted(st).idToSlot = IndexOf(Compacted(st).slots, {})
  BY CompactKeeps
<1>2. Len(Compacted(st).slots) \in Nat /\ Compacted(st).slots \in Seq(Record \cup {None})
      /\ Len(st.slots) \in Nat
  BY <1>1, LiveSlotsType
<1>3. InRange(Compacted(st).idToSlot, Len(Compacted(st).slots))
  BY <1>1, <1>2, IndexInRange
<1> QED
  BY <1>1, <1>2, <1>3 DEF Follows

LEMMA SizedCall ==
  ASSUME NEW d \in Disk, NEW e \in Disk, NEW st \in Store, NEW new \in Store,
         NEW n \in Nat, NEW m \in Nat, n + 1 <= m,
         Sized(d, st, n), Follows(st, new),
         e.vecs = d.vecs, e.manifest = d.manifest, e.slim = d.slim
  PROVE  Sized(e, new, m)
<1>1. d.manifest.ids \in [Name -> Nat] /\ (d.slim # None => d.slim.ids \in [Name -> Nat])
  BY DEF Disk, Snapshot
<1>2. Len(d.vecs) \in Nat /\ Len(st.slots) \in Nat /\ Len(new.slots) \in Nat
  BY LiveSlotsType DEF Disk
<1>3. Len(new.slots) <= m /\ Len(e.vecs) <= m
  BY <1>2 DEF Sized, Follows
<1>4. InRange(new.idToSlot, Len(new.slots))
  BY DEF Sized, Follows
<1>5. InRange(e.manifest.ids, m) /\ (e.slim # None => InRange(e.slim.ids, m))
  BY <1>1 DEF Sized, InRange
<1> QED
  BY <1>3, <1>4, <1>5 DEF Sized

\* A call that leaves the checkpoint to its triggers.
LEMMA CallType ==
  ASSUME TInv, NEW name, Called(name),
         disk' \in Disk, Len(disk'.wal) <= Len(disk.wal) + 1,
         disk'.vecs = disk.vecs, disk'.manifest = disk.manifest, disk'.slim = disk.slim,
         Follows(store, store'),
         nextTs' \in Nat, step' \in {"idle", "due", "flush"}, UNCHANGED <<epoch, vecOpen, job>>
  PROVE  TInv'
<1>1. /\ budget' \in [calls : 0..MaxCalls, restarts : 0..MaxRestarts, errors : 0..MaxErrors]
      /\ Made' = Made + 1
      /\ Bound \in Nat /\ Bound' \in Nat /\ Bound' >= Bound + 1
      /\ step = "idle"
  BY CalledBounds
<1>2. TypeOK /\ Len(disk.wal) <= Made /\ Sized(disk, store, Bound)
  BY DEF TInv
<1>3. store' \in Store
  BY DEF Follows
<1>4. TypeOK'
  BY <1>1, <1>2, <1>3 DEF TypeOK, Steps
<1>5. /\ Len(disk.wal) \in Nat /\ Len(disk'.wal) \in Nat /\ Len(disk.vecs) \in Nat
      /\ disk.manifest.ids \in [Name -> Nat]
      /\ disk.slim # None => disk.slim.ids \in [Name -> Nat]
  BY <1>2, LenProperties DEF TypeOK, Disk, Snapshot
<1>6. Len(store.slots) \in Nat /\ Len(store'.slots) \in Nat
  <2>1. store \in Store
    BY <1>2 DEF TypeOK
  <2> QED
    BY <1>3, <2>1, LiveSlotsType
<1>7. Made \in Nat
  BY BudgetType
<1>8. Len(disk'.wal) <= Made'
  <2> HIDE DEF Made
  <2> QED
    BY <1>1, <1>2, <1>5, <1>7
<1>9. Sized(disk', store', Bound')
  <2>1. disk \in Disk /\ store \in Store
    BY <1>2 DEF TypeOK
  <2>2. Bound \in Nat /\ Bound' \in Nat /\ Bound + 1 <= Bound'
    BY <1>1
  <2>3. PICK d \in Disk, e \in Disk, st \in Store, new \in Store, n \in Nat, m \in Nat :
          d = disk /\ e = disk' /\ st = store /\ new = store' /\ n = Bound /\ m = Bound'
    BY <1>3, <2>1, <2>2
  <2>4. Sized(d, st, n) /\ Follows(st, new) /\ n + 1 <= m
        /\ e.vecs = d.vecs /\ e.manifest = d.manifest /\ e.slim = d.slim
    BY <1>2, <2>2, <2>3
  <2>5. Sized(e, new, m)
    BY <2>4, SizedCall
  <2> QED
    BY <2>3, <2>5
<1> QED
  BY <1>4, <1>8, <1>9 DEF TInv

LEMMA LoggedWriteType ==
  ASSUME TInv, NEW name, Called(name), NEW k, NEW new, NEW e \in Entry,
         Follows(store, new), LoggedWrite(k, new, e)
  PROVE  TInv'
<1>1. TypeOK
  BY DEF TInv
<1>2. disk \in Disk /\ nextTs \in Nat
  BY <1>1 DEF TypeOK
<1>3. /\ store' = new /\ disk' = Logged(disk, nextTs, e) /\ nextTs' = nextTs + 1
      /\ step' \in {"idle", "due"} /\ UNCHANGED <<epoch, vecOpen, job>>
  BY DEF LoggedWrite
<1>4. /\ disk' \in Disk /\ Len(disk'.wal) <= Len(disk.wal) + 1
      /\ disk'.vecs = disk.vecs /\ disk'.manifest = disk.manifest /\ disk'.slim = disk.slim
  <2>1. WithEntry(disk, nextTs, e, disk')
    BY <1>2, <1>3, LoggedEffect
  <2> QED
    BY <2>1 DEF WithEntry
<1>5. nextTs' \in Nat /\ Follows(store, store') /\ step' \in {"idle", "due", "flush"}
  BY <1>2, <1>3
<1> QED
  BY <1>3, <1>4, <1>5, CallType

\* A call that leaves the files and the clock alone.
LEMMA UnloggedType ==
  ASSUME TInv, NEW name, Called(name), Follows(store, store'),
         step' \in {"idle", "due", "flush"}, UNCHANGED <<disk, nextTs, epoch, vecOpen, job>>
  PROVE  TInv'
<1>1. TypeOK
  BY DEF TInv
<1>2. disk \in Disk /\ nextTs \in Nat
  BY <1>1 DEF TypeOK
<1>3. Len(disk.wal) \in Nat
  BY <1>2, LenProperties DEF Disk
<1>4. /\ disk' \in Disk /\ Len(disk'.wal) <= Len(disk.wal) + 1
      /\ disk'.vecs = disk.vecs /\ disk'.manifest = disk.manifest /\ disk'.slim = disk.slim
      /\ nextTs' \in Nat /\ UNCHANGED <<epoch, vecOpen, job>>
  BY <1>2, <1>3
<1> QED
  BY <1>4, CallType

LEMMA SetEntryType ==
  ASSUME NEW k \in Key, NEW v \in Val \cup {Zero}, NEW m \in Val
  PROVE  UpsertEntry(k, v, m) \in Entry /\ DeleteEntry(k) \in Entry
BY DEF UpsertEntry, DeleteEntry, Entry

LEMMA SameFollows ==
  ASSUME NEW st \in Store
  PROVE  Follows(st, st)
<1>1. Len(st.slots) \in Nat
  BY LiveSlotsType
<1> QED
  BY <1>1 DEF Follows

\* What a reader sees of a record's vector.
LEMMA SeenType ==
  ASSUME NEW d \in Disk, NEW st \in Store, NEW s \in LiveSlots(st)
  PROVE  /\ st.slots[s].vec \in Val \cup {Zero} \cup View \cup {None}
         /\ Seen(st.slots[s].vec, d.vecs) \in Val \cup {Zero, None}
         /\ Seen(st.slots[s].vec, d.vecs) = None <=> st.slots[s].vec = None
         /\ st.slots[s].meta \in Val \cup {None}
<1>1. st.slots[s].vec \in Val \cup {Zero} \cup View \cup {None}
      /\ st.slots[s].meta \in Val \cup {None}
  BY LiveSlotsType DEF Record
<1>2. None \notin View /\ None \notin Val /\ None # Zero
  BY NoneAssumption DEF View
<1>3. \A s_1 \in DOMAIN d.vecs : d.vecs[s_1] \in Val \cup {Zero}
  BY DEF Disk
<1> QED
  BY <1>1, <1>2, <1>3 DEF Seen

LEMMA FoundSlot ==
  ASSUME NEW st, NEW k, Found(st, k)
  PROVE  st.idToSlot[k] \in LiveSlots(st) /\ RecordOf(st, k) = st.slots[st.idToSlot[k]]
BY DEF Found, RecordOf

LEMMA WritesType ==
  ASSUME TInv, NEW k \in Key, NEW v \in Val, Set(k, v) \/ SetBatch(k, v) \/ Update(k, v)
  PROVE  TInv'
<1>1. store \in Store /\ disk \in Disk
  BY DEF TInv, TypeOK
<1>2. Follows(store, WithVector(store, k, v, v))
  BY <1>1, SetFollows
<1>3. CASE Set(k, v)
  <2>1. Called("set") /\ LoggedWrite(k, WithVector(store, k, v, v), UpsertEntry(k, v, v))
    BY <1>3 DEF Set
  <2>2. UpsertEntry(k, v, v) \in Entry
    BY SetEntryType
  <2> QED
    BY <1>2, <2>1, <2>2, LoggedWriteType
<1>4. CASE SetBatch(k, v)
  <2>1. /\ Called("set_batch") /\ store' = WithVector(store, k, v, v)
        /\ step' \in {"idle", "due"} /\ UNCHANGED <<disk, epoch, nextTs, vecOpen, job>>
    BY <1>4 DEF SetBatch, UnloggedWrite
  <2>2. Follows(store, store') /\ step' \in {"idle", "due", "flush"}
        /\ UNCHANGED <<disk, nextTs, epoch, vecOpen, job>>
    BY <1>2, <2>1
  <2> QED
    BY <2>1, <2>2, UnloggedType
<1>5. CASE Update(k, v)
  <2> DEFINE s == store.idToSlot[k]
             new == WithMeta(store, s, v)
             seen == Seen(RecordOf(store, k).vec, disk.vecs)
  <2>1. /\ Called("update") /\ Found(store, k)
        /\ IF seen # None THEN LoggedWrite(k, new, UpsertEntry(k, seen, v))
           ELSE UnloggedWrite(k, new, "idle")
    BY <1>5 DEF Update
  <2>2. s \in LiveSlots(store) /\ seen = Seen(store.slots[s].vec, disk.vecs)
    BY <2>1, FoundSlot
  <2>3. Follows(store, new)
    <3> HIDE DEF s
    <3> QED
      BY <1>1, <2>2, UpdateFollows
  <2>4. seen \in Val \cup {Zero, None}
    <3> HIDE DEF s, seen
    <3> QED
      BY <1>1, <2>2, SeenType
  <2> HIDE DEF s, new, seen
  <2>5. CASE seen # None
    <3>1. UpsertEntry(k, seen, v) \in Entry
      BY <2>4, <2>5, SetEntryType
    <3> QED
      BY <2>1, <2>3, <2>5, <3>1, LoggedWriteType
  <2>6. CASE seen = None
    <3>1. UnloggedWrite(k, new, "idle")
      BY <2>1, <2>6
    <3>2. store' = new /\ step' \in {"idle", "due", "flush"}
          /\ UNCHANGED <<disk, nextTs, epoch, vecOpen, job>>
      BY <3>1 DEF UnloggedWrite
    <3> QED
      BY <2>1, <2>3, <3>2, UnloggedType
  <2> QED
    BY <2>5, <2>6
<1> QED
  BY <1>3, <1>4, <1>5

LEMMA DeleteTypes ==
  ASSUME TInv, NEW k \in Key, Delete(k)
  PROVE  TInv'
<1>1. store \in Store
  BY DEF TInv, TypeOK
<1>2. /\ Called("delete") /\ Deletable(store, k)
      /\ LoggedWrite(k, Removed(store, k), DeleteEntry(k))
  BY DEF Delete
<1>3. DeleteEntry(k) \in Entry
  BY DEF DeleteEntry, Entry
<1>4. Follows(store, Removed(store, k))
  BY <1>1, <1>2, DeleteFollows
<1> QED
  BY <1>2, <1>3, <1>4, LoggedWriteType

LEMMA OtherCallsType ==
  ASSUME TInv, DeleteNone \/ Compact \/ Flush
  PROVE  TInv'
<1>1. store \in Store /\ step \in Steps
  BY DEF TInv, TypeOK
<1>2. Follows(store, store) /\ Follows(store, Compacted(store))
  BY <1>1, SameFollows, CompactFollows
<1>3. CASE DeleteNone
  <2>1. Called("delete_batch") /\ Follows(store, store')
        /\ step' \in {"idle", "due", "flush"} /\ UNCHANGED <<disk, nextTs, epoch, vecOpen, job>>
    BY <1>2, <1>3 DEF DeleteNone
  <2> QED
    BY <2>1, UnloggedType
<1>4. CASE Compact
  <2>1. Called("compact") /\ Follows(store, store')
        /\ step' \in {"idle", "due", "flush"} /\ UNCHANGED <<disk, nextTs, epoch, vecOpen, job>>
    BY <1>2, <1>4 DEF Compact, Called
  <2> QED
    BY <2>1, UnloggedType
<1>5. CASE Flush
  <2>1. Called("flush") /\ Follows(store, store')
        /\ step' \in {"idle", "due", "flush"} /\ UNCHANGED <<disk, nextTs, epoch, vecOpen, job>>
    BY <1>2, <1>5 DEF Flush
  <2> QED
    BY <2>1, UnloggedType
<1> QED
  BY <1>3, <1>4, <1>5

\* A step of a checkpoint, or its failure.
SameSize(d, st, e, new, n) ==
  /\ e \in Disk /\ new \in Store
  /\ Len(e.wal) <= Len(d.wal)
  /\ new.slots = st.slots /\ new.idToSlot = st.idToSlot
  /\ Len(e.vecs) <= n
  /\ e.manifest = d.manifest \/ e.manifest.ids = st.idToSlot
  /\ e.slim = d.slim \/ e.slim.ids = st.idToSlot

LEMMA SizedStep ==
  ASSUME NEW d \in Disk, NEW st \in Store, NEW n \in Nat, NEW e, NEW new,
         Sized(d, st, n), SameSize(d, st, e, new, n)
  PROVE  Sized(e, new, n)
<1>1. Len(st.slots) \in Nat
  BY LiveSlotsType
<1>2. /\ Len(st.slots) <= n /\ Len(d.vecs) <= n
      /\ InRange(st.idToSlot, Len(st.slots))
      /\ InRange(d.manifest.ids, n)
      /\ d.slim # None => InRange(d.slim.ids, n)
  BY DEF Sized
<1>3. /\ new.slots = st.slots /\ new.idToSlot = st.idToSlot
      /\ Len(e.vecs) <= n
      /\ e.manifest = d.manifest \/ e.manifest.ids = st.idToSlot
      /\ e.slim = d.slim \/ e.slim.ids = st.idToSlot
  BY DEF SameSize
<1>4. st.idToSlot \in [Name -> Nat]
  BY DEF Store
<1>5. InRange(st.idToSlot, n)
  BY <1>1, <1>2, <1>4 DEF InRange
<1> QED
  BY <1>2, <1>3, <1>5 DEF Sized

LEMMA StepType ==
  ASSUME TInv, SameSize(disk, store, disk', store', Bound),
         step' \in Steps, epoch' \in Nat, nextTs' = nextTs, vecOpen' \in BOOLEAN,
         job' \in [kind : {"none", "fast", "full", "incremental"}, taken : SUBSET Slot,
                   todo : SUBSET Slot],
         step' # "write" => job'.todo = {},
         \/ budget' = budget
         \/ budget.errors > 0 /\ budget' = [budget EXCEPT !.errors = @ - 1]
  PROVE  TInv'
<1>1. TypeOK /\ Len(disk.wal) <= Made /\ Sized(disk, store, Bound)
  BY DEF TInv
<1>2. /\ budget' \in [calls : 0..MaxCalls, restarts : 0..MaxRestarts, errors : 0..MaxErrors]
      /\ budget'.calls = budget.calls /\ budget'.restarts = budget.restarts
  BY <1>1, BoundsAssumption DEF TypeOK
<1>3. Made' = Made /\ Bound' = Bound
  BY <1>2 DEF Made, Bound
<1>4. disk' \in Disk /\ store' \in Store /\ Len(disk'.wal) <= Len(disk.wal)
  BY DEF SameSize
<1>5. TypeOK'
  BY <1>1, <1>2, <1>4 DEF TypeOK
<1>6. Made \in Nat /\ Bound \in Nat /\ disk \in Disk /\ store \in Store
  BY <1>1, BudgetType DEF TypeOK
<1>7. Len(disk.wal) \in Nat /\ Len(disk'.wal) \in Nat
  BY <1>4, <1>6, LenProperties DEF Disk
<1>8. Len(disk'.wal) <= Made'
  BY <1>1, <1>3, <1>4, <1>6, <1>7
<1>9. PICK d \in Disk, st \in Store, n \in Nat, e \in Disk, new \in Store :
         d = disk /\ st = store /\ n = Bound /\ e = disk' /\ new = store'
  BY <1>4, <1>6
<1>10. Sized(d, st, n) /\ SameSize(d, st, e, new, n)
  BY <1>1, <1>9
<1>11. Sized(e, new, n)
  BY <1>10, SizedStep
<1>12. Sized(disk', store', Bound')
  BY <1>3, <1>9, <1>11
<1> QED
  BY <1>5, <1>8, <1>12 DEF TInv

\* The snapshots that are taken are of their type.
LEMMA SnapshotType ==
  ASSUME NEW st \in Store, NEW n \in Nat \cup {None}
  PROVE  /\ SnapshotOf(st, n) \in Snapshot
         /\ SnapshotOf(st, n).ids = st.idToSlot
<1>1. /\ st.slots \in Seq(Record \cup {None}) /\ Len(st.slots) \in Nat
      /\ DOMAIN st.slots = 1..Len(st.slots)
      /\ LiveSlots(st) \in SUBSET Slot
      /\ \A s \in DOMAIN st.slots : st.slots[s] \in Record \cup {None}
  BY LiveSlotsType
<1> DEFINE meta == [s \in DOMAIN st.slots |-> IF st.slots[s] = None THEN None ELSE st.slots[s].meta]
           dense == {s \in LiveSlots(st) : st.slots[s].vec # None}
<1>2. meta \in Seq(Val \cup {None})
  <2>1. \A s \in 1..Len(st.slots) : meta[s] \in Val \cup {None}
    BY <1>1 DEF Record
  <2>2. meta \in [1..Len(st.slots) -> Val \cup {None}]
    BY <1>1, <2>1
  <2> HIDE DEF meta
  <2> QED
    BY <1>1, <2>2
<1>3. dense \in SUBSET Slot
  BY <1>1
<1>4. st.idToSlot \in [Name -> Nat] /\ st.deleted \in SUBSET Slot
  BY DEF Store
<1>5. SnapshotOf(st, n) = [ids |-> st.idToSlot, deleted |-> st.deleted, dense |-> dense,
                           meta |-> meta, epoch |-> n]
  BY DEF SnapshotOf
<1> HIDE DEF meta, dense
<1> QED
  BY <1>2, <1>3, <1>4, <1>5 DEF Snapshot

\* Taking the dirty slots, and giving them back.
LEMMA DirtyType ==
  ASSUME NEW st \in Store, NEW taken \in SUBSET Slot
  PROVE  /\ DirtyTaken(st) \in Store /\ DirtyRestored(st, taken) \in Store
         /\ DirtyTaken(st) = [st EXCEPT !.dirty = {}]
         /\ DirtyTaken(st).slots = st.slots /\ DirtyTaken(st).idToSlot = st.idToSlot
         /\ DirtyTaken(st).deleted = st.deleted /\ DirtyTaken(st).dirty = {}
         /\ DirtyTaken(st).liveCount = st.liveCount
         /\ DirtyRestored(st, taken).slots = st.slots
         /\ DirtyRestored(st, taken).idToSlot = st.idToSlot
         /\ DirtyRestored(st, taken).deleted = st.deleted
         /\ DirtyRestored(st, taken).dirty = st.dirty \cup taken
         /\ DirtyRestored(st, taken).liveCount = st.liveCount
BY DEF DirtyTaken, DirtyRestored, Store

LEMMA BeginType ==
  ASSUME TInv, NEW kind \in {"fast", "full", "incremental"}, NEW todo \in SUBSET Slot, NEW vecs,
         vecs \in Seq(Val \cup {Zero}), Len(vecs) <= Bound,
         Begin(kind, todo, vecs)
  PROVE  TInv'
<1>1. store \in Store /\ disk \in Disk /\ epoch \in Nat
  BY DEF TInv, TypeOK
<1>2. /\ job' = [kind |-> kind, taken |-> store.dirty, todo |-> todo]
      /\ disk' = [disk EXCEPT !.vecs = vecs] /\ vecOpen' = (store.slots # << >>)
      /\ store' = DirtyTaken(store) /\ step' = "write"
      /\ UNCHANGED <<epoch, nextTs, survivors, budget>>
  BY DEF Begin
<1>3. disk' \in Disk /\ disk'.wal = disk.wal /\ disk'.vecs = vecs
      /\ disk'.manifest = disk.manifest /\ disk'.slim = disk.slim
  BY <1>1, <1>2 DEF Disk
<1>4. store' \in Store /\ store'.slots = store.slots /\ store'.idToSlot = store.idToSlot
  BY <1>1, <1>2, DirtyType
<1>5. Len(disk.wal) \in Nat
  BY <1>1, LenProperties DEF Disk
<1>6. SameSize(disk, store, disk', store', Bound)
  BY <1>3, <1>4, <1>5 DEF SameSize
<1>7. job' \in [kind : {"none", "fast", "full", "incremental"}, taken : SUBSET Slot,
                todo : SUBSET Slot]
  BY <1>1, <1>2 DEF Store
<1>8. step' \in Steps /\ step' = "write" /\ epoch' \in Nat /\ nextTs' = nextTs
      /\ vecOpen' \in BOOLEAN /\ budget' = budget
  BY <1>1, <1>2 DEF Steps
<1> QED
  BY <1>6, <1>7, <1>8, StepType

LEMMA MaxOfTwo ==
  ASSUME NEW a \in Nat, NEW b \in Nat
  PROVE  Max({a, b}) = IF a <= b THEN b ELSE a
<1> DEFINE n == IF a <= b THEN b ELSE a
<1>1. n \in Nat /\ a <= n /\ b <= n /\ n \in {a, b}
  OBVIOUS
<1>2. {a, b} \in SUBSET (0..n) /\ {a, b} # {}
  BY <1>1
<1>3. Max({a, b}) \in {a, b} /\ \A s \in {a, b} : s <= Max({a, b})
  <2> HIDE DEF n
  <2> QED
    BY <1>1, <1>2, MaxOf
<1> QED
  BY <1>3

\* .vecs is grown to the store's slots, and its vectors are kept.
LEMMA GrownType ==
  ASSUME TInv
  PROVE  /\ Grown(disk.vecs) \in Seq(Val \cup {Zero})
         /\ Len(Grown(disk.vecs)) = IF Len(store.slots) <= Len(disk.vecs) THEN Len(disk.vecs)
                                    ELSE Len(store.slots)
         /\ \A s \in DOMAIN disk.vecs : s \in DOMAIN Grown(disk.vecs)
                                        /\ Grown(disk.vecs)[s] = disk.vecs[s]
<1> DEFINE a == Len(store.slots)
           b == Len(disk.vecs)
           n == IF a <= b THEN b ELSE a
<1>1. store \in Store /\ disk \in Disk
  BY DEF TInv, TypeOK
<1>2. a \in Nat /\ b \in Nat /\ n \in Nat /\ b <= n
  BY <1>1, LiveSlotsType DEF Disk
<1>3. Max({a, b}) = n
  <2> HIDE DEF a, b
  <2> QED
    BY <1>2, MaxOfTwo
<1>4. DOMAIN disk.vecs = 1..b /\ \A s \in DOMAIN disk.vecs : disk.vecs[s] \in Val \cup {Zero}
  BY <1>1 DEF Disk
<1>5. Grown(disk.vecs) = [s \in 1..n |-> IF s \in DOMAIN disk.vecs THEN disk.vecs[s] ELSE Zero]
  BY <1>3 DEF Grown
<1> HIDE DEF n
<1>6. Grown(disk.vecs) \in [1..n -> Val \cup {Zero}]
  BY <1>4, <1>5
<1>7. Grown(disk.vecs) \in Seq(Val \cup {Zero}) /\ Len(Grown(disk.vecs)) = n
  BY <1>2, <1>6
<1>8. \A s \in DOMAIN disk.vecs : s \in 1..n
  BY <1>2, <1>4
<1> QED
  BY <1>5, <1>7, <1>8 DEF n

LEMMA BeginsType ==
  ASSUME TInv, BeginFull \/ BeginFast \/ BeginIncremental
  PROVE  TInv'
<1>1. store \in Store /\ disk \in Disk /\ Bound \in Nat /\ Sized(disk, store, Bound)
  BY BudgetType DEF TInv, TypeOK
<1>2. /\ DOMAIN store.slots = 1..Len(store.slots) /\ Len(store.slots) \in Nat
      /\ Len(store.slots) <= Bound /\ Len(disk.vecs) <= Bound /\ Len(disk.vecs) \in Nat
      /\ disk.vecs \in Seq(Val \cup {Zero})
  BY <1>1, LiveSlotsType DEF Sized, Disk
<1>3. DOMAIN store.slots \in SUBSET Slot /\ store.dirty \in SUBSET Slot
  BY <1>1, <1>2 DEF Slot, NoSlot, Store
<1>4. Grown(disk.vecs) \in Seq(Val \cup {Zero}) /\ Len(Grown(disk.vecs)) <= Bound
  BY <1>2, GrownType
<1>5. << >> \in Seq(Val \cup {Zero}) /\ Len(<< >>) <= Bound
  BY <1>1
<1>6. CASE BeginFull
  <2> DEFINE zeros == [s \in DOMAIN store.slots |-> Zero]
             vecs == IF store.slots = << >> THEN disk.vecs ELSE zeros
  <2>1. zeros \in Seq(Val \cup {Zero}) /\ Len(zeros) = Len(store.slots)
    <3>1. zeros \in [1..Len(store.slots) -> Val \cup {Zero}]
      BY <1>2
    <3> HIDE DEF zeros
    <3> QED
      BY <1>2, <3>1
  <2>2. Begin("full", DOMAIN store.slots, vecs)
    BY <1>6 DEF BeginFull
  <2> HIDE DEF zeros
  <2>3. vecs \in Seq(Val \cup {Zero}) /\ Len(vecs) <= Bound
    BY <1>2, <2>1
  <2> QED
    BY <1>3, <2>2, <2>3, BeginType
<1>7. CASE BeginFast
  <2>1. Begin("fast", store.dirty, Grown(disk.vecs))
    BY <1>7 DEF BeginFast
  <2> QED
    BY <1>3, <1>4, <2>1, BeginType
<1>8. CASE BeginIncremental
  <2> DEFINE vecs == IF store.slots = << >> THEN << >> ELSE Grown(disk.vecs)
  <2>1. Begin("incremental", store.dirty, vecs)
    BY <1>8 DEF BeginIncremental
  <2>2. vecs \in Seq(Val \cup {Zero}) /\ Len(vecs) <= Bound
    BY <1>4, <1>5
  <2> QED
    BY <1>3, <2>1, <2>2, BeginType
<1> QED
  BY <1>6, <1>7, <1>8

\* What a step that writes neither records nor snapshots leaves.
LEMMA SameSizes ==
  ASSUME TInv
  PROVE  /\ store \in Store /\ disk \in Disk /\ epoch \in Nat /\ nextTs \in Nat
         /\ vecOpen \in BOOLEAN /\ step \in Steps /\ (step # "write" => job.todo = {})
         /\ job \in [kind : {"none", "fast", "full", "incremental"}, taken : SUBSET Slot,
                     todo : SUBSET Slot]
         /\ Len(disk.wal) \in Nat /\ Len(disk.vecs) <= Bound
         /\ disk.wal \in Seq([ts : Nat, entry : Entry])
         /\ disk.vecs \in Seq(Val \cup {Zero})
         /\ NoJob \in [kind : {"none", "fast", "full", "incremental"}, taken : SUBSET Slot,
                       todo : SUBSET Slot]
         /\ NoJob.todo = {} /\ NoJob.taken = {}
<1>1. /\ store \in Store /\ disk \in Disk /\ epoch \in Nat /\ nextTs \in Nat
      /\ vecOpen \in BOOLEAN /\ step \in Steps /\ (step # "write" => job.todo = {})
      /\ job \in [kind : {"none", "fast", "full", "incremental"}, taken : SUBSET Slot,
                  todo : SUBSET Slot]
      /\ Len(disk.vecs) <= Bound
  BY DEF TInv, TypeOK, Sized
<1>2. disk.wal \in Seq([ts : Nat, entry : Entry]) /\ disk.vecs \in Seq(Val \cup {Zero})
  BY <1>1 DEF Disk
<1>3. Len(disk.wal) \in Nat
  BY <1>2, LenProperties
<1>4. NoJob \in [kind : {"none", "fast", "full", "incremental"}, taken : SUBSET Slot,
                 todo : SUBSET Slot]
      /\ NoJob.todo = {} /\ NoJob.taken = {}
  BY DEF NoJob
<1> QED
  BY <1>1, <1>2, <1>3, <1>4

LEMMA FailuresType ==
  ASSUME TInv, FailToStat \/ FailToGrow \/ FailToPublish \/ FailToStamp
  PROVE  TInv'
<1>1. /\ store \in Store /\ disk \in Disk /\ epoch \in Nat /\ nextTs \in Nat
      /\ vecOpen \in BOOLEAN /\ step \in Steps /\ (step # "write" => job.todo = {})
      /\ job \in [kind : {"none", "fast", "full", "incremental"}, taken : SUBSET Slot,
                  todo : SUBSET Slot]
      /\ Len(disk.wal) \in Nat /\ Len(disk.vecs) <= Bound
      /\ NoJob \in [kind : {"none", "fast", "full", "incremental"}, taken : SUBSET Slot,
                    todo : SUBSET Slot]
      /\ NoJob.todo = {}
  BY SameSizes
<1>2. store.dirty \in SUBSET Slot /\ job.taken \in SUBSET Slot
  BY <1>1 DEF Store
<1>3. ASSUME NEW error, FailToStart(error), vecOpen' \in BOOLEAN
      PROVE  TInv'
  <2>1. /\ store' = DirtyRestored(DirtyTaken(store), store.dirty)
        /\ step' = "idle" /\ step \in {"due", "flush"}
        /\ budget.errors > 0 /\ budget' = [budget EXCEPT !.errors = @ - 1]
        /\ UNCHANGED <<disk, epoch, nextTs, job, survivors>>
    BY <1>3 DEF FailToStart
  <2>2. DirtyTaken(store) \in Store /\ DirtyTaken(store).slots = store.slots
        /\ DirtyTaken(store).idToSlot = store.idToSlot
    BY <1>1, DirtyType
  <2>3. store' \in Store /\ store'.slots = store.slots /\ store'.idToSlot = store.idToSlot
    BY <1>2, <2>1, <2>2, DirtyType
  <2>4. SameSize(disk, store, disk', store', Bound)
    BY <1>1, <2>1, <2>3 DEF SameSize
  <2>5. /\ step' \in Steps /\ (step' # "write" => job'.todo = {})
        /\ job' \in [kind : {"none", "fast", "full", "incremental"}, taken : SUBSET Slot,
                     todo : SUBSET Slot]
        /\ epoch' \in Nat /\ nextTs' = nextTs
    BY <1>1, <2>1 DEF Steps
  <2> QED
    BY <1>3, <2>1, <2>4, <2>5, StepType
<1>4. CASE FailToStat
  BY <1>1, <1>3, <1>4 DEF FailToStat
<1>5. CASE FailToGrow
  BY <1>3, <1>5 DEF FailToGrow
<1>6. ASSUME /\ store' = DirtyRestored(store, job.taken) /\ step' = "idle" /\ job' = NoJob
             /\ budget.errors > 0 /\ budget' = [budget EXCEPT !.errors = @ - 1]
             /\ disk' \in Disk /\ disk'.wal = disk.wal /\ disk'.vecs = disk.vecs
             /\ disk'.manifest = disk.manifest /\ disk'.slim = disk.slim
             /\ UNCHANGED <<epoch, nextTs, vecOpen, survivors>>
      PROVE  TInv'
  <2>1. store' \in Store /\ store'.slots = store.slots /\ store'.idToSlot = store.idToSlot
    BY <1>1, <1>2, <1>6, DirtyType
  <2>2. SameSize(disk, store, disk', store', Bound)
    BY <1>1, <1>6, <2>1 DEF SameSize
  <2>3. /\ step' \in Steps /\ (step' # "write" => job'.todo = {})
        /\ job' \in [kind : {"none", "fast", "full", "incremental"}, taken : SUBSET Slot,
                     todo : SUBSET Slot]
        /\ epoch' \in Nat /\ nextTs' = nextTs /\ vecOpen' \in BOOLEAN
    BY <1>1, <1>6 DEF Steps
  <2> QED
    BY <1>6, <2>2, <2>3, StepType
<1>7. CASE FailToPublish
  <2>1. disk' = disk /\ disk' \in Disk
    BY <1>1, <1>7 DEF FailToPublish
  <2> QED
    BY <1>6, <1>7, <2>1 DEF FailToPublish
<1>8. CASE FailToStamp
  <2>1. PICK e \in {disk.metaEpoch, epoch + 1} : disk' = [disk EXCEPT !.metaEpoch = e]
    BY <1>8 DEF FailToStamp
  <2>2. e \in Nat
    BY <1>1, <2>1 DEF Disk
  <2>3. disk' \in Disk /\ disk'.wal = disk.wal /\ disk'.vecs = disk.vecs
        /\ disk'.manifest = disk.manifest /\ disk'.slim = disk.slim
    BY <1>1, <2>1, <2>2 DEF Disk
  <2> QED
    BY <1>6, <1>8, <2>3 DEF FailToStamp
<1> QED
  BY <1>4, <1>5, <1>7, <1>8

LEMMA WriteSlotType ==
  ASSUME TInv, WriteSlot
  PROVE  TInv'
<1>1. /\ store \in Store /\ disk \in Disk /\ epoch \in Nat /\ nextTs \in Nat
      /\ vecOpen \in BOOLEAN /\ step \in Steps
      /\ job \in [kind : {"none", "fast", "full", "incremental"}, taken : SUBSET Slot,
                  todo : SUBSET Slot]
      /\ Len(disk.wal) \in Nat /\ Len(disk.vecs) <= Bound
      /\ disk.vecs \in Seq(Val \cup {Zero})
  BY SameSizes
<1> DEFINE s == Min(job.todo)
           v == VectorToWrite(s)
<1>2. /\ step = "write"
      /\ disk' = [disk EXCEPT !.vecs[s] = v]
      /\ job' = [job EXCEPT !.todo = @ \ {s}]
      /\ UNCHANGED <<store, epoch, nextTs, vecOpen, step, survivors, budget>>
  BY DEF WriteSlot
<1>3. v \in Val \cup {Zero}
  <2> HIDE DEF s
  <2>1. CASE s \in LiveSlots(store) /\ store.slots[s].vec # None
    <3>1. v = Seen(store.slots[s].vec, disk.vecs)
      BY <2>1 DEF VectorToWrite
    <3>2. Seen(store.slots[s].vec, disk.vecs) \in Val \cup {Zero}
      BY <1>1, <2>1, SeenType
    <3> QED
      BY <3>1, <3>2
  <2>2. CASE ~(s \in LiveSlots(store) /\ store.slots[s].vec # None)
    BY <2>2 DEF VectorToWrite
  <2> QED
    BY <2>1, <2>2
<1> HIDE DEF s, v
<1>4. /\ [disk.vecs EXCEPT ![s] = v] \in Seq(Val \cup {Zero})
      /\ Len([disk.vecs EXCEPT ![s] = v]) = Len(disk.vecs)
  <2>1. disk.vecs \in [1..Len(disk.vecs) -> Val \cup {Zero}] /\ Len(disk.vecs) \in Nat
    BY <1>1, LenProperties
  <2>2. [disk.vecs EXCEPT ![s] = v] \in [1..Len(disk.vecs) -> Val \cup {Zero}]
    BY <1>3, <2>1
  <2> QED
    BY <2>1, <2>2
<1>5. disk' = [disk EXCEPT !.vecs = [disk.vecs EXCEPT ![s] = v]]
  BY <1>2
<1>6. disk' \in Disk /\ disk'.wal = disk.wal /\ disk'.vecs = [disk.vecs EXCEPT ![s] = v]
      /\ disk'.manifest = disk.manifest /\ disk'.slim = disk.slim
  BY <1>1, <1>4, <1>5 DEF Disk
<1>7. SameSize(disk, store, disk', store', Bound)
  BY <1>1, <1>2, <1>4, <1>6 DEF SameSize
<1>8. job' \in [kind : {"none", "fast", "full", "incremental"}, taken : SUBSET Slot,
                todo : SUBSET Slot]
  BY <1>1, <1>2
<1>9. /\ step' \in Steps /\ step' = "write"
      /\ epoch' \in Nat /\ nextTs' = nextTs /\ vecOpen' \in BOOLEAN /\ budget' = budget
  BY <1>1, <1>2
<1> QED
  BY <1>7, <1>8, <1>9, StepType

\* The timestamp that a manifest covers.
LEMMA CutoffType ==
  ASSUME NEW d, NEW n \in Nat
  PROVE  MaxTimestamp(d, n) \in Int \cup {None}
BY DEF MaxTimestamp

LEMMA PublishType ==
  ASSUME TInv, PublishSlim \/ PublishManifest
  PROVE  TInv'
<1>1. /\ store \in Store /\ disk \in Disk /\ epoch \in Nat /\ nextTs \in Nat
      /\ vecOpen \in BOOLEAN
      /\ job \in [kind : {"none", "fast", "full", "incremental"}, taken : SUBSET Slot,
                  todo : SUBSET Slot]
      /\ Len(disk.wal) \in Nat /\ Len(disk.vecs) <= Bound
  BY SameSizes
<1> DEFINE snap == SnapshotOf(store, epoch)
<1>2. snap \in Snapshot /\ snap.ids = store.idToSlot
  BY <1>1, SnapshotType
<1>3. MaxTimestamp(disk, nextTs) \in Int \cup {None}
  BY <1>1, CutoffType
<1> HIDE DEF snap
<1>4. /\ job.todo = {} /\ step' = "truncate"
      /\ UNCHANGED <<store, epoch, nextTs, vecOpen, job, survivors, budget>>
  BY DEF PublishSlim, PublishManifest
<1>5. /\ disk' \in Disk /\ disk'.wal = disk.wal /\ disk'.vecs = disk.vecs
      /\ disk'.manifest = disk.manifest \/ disk'.manifest = snap
      /\ disk'.slim = disk.slim \/ disk'.slim = snap
  <2>1. CASE PublishSlim
    <3>1. disk' = [disk EXCEPT !.slim = snap, !.slimNewer = TRUE]
      BY <2>1 DEF PublishSlim, snap
    <3> QED
      BY <1>1, <1>2, <3>1 DEF Disk
  <2>2. CASE PublishManifest
    <3>1. disk' = [disk EXCEPT !.manifest = snap, !.maxTs = MaxTimestamp(disk, nextTs),
                               !.vecFile = vecOpen, !.slimNewer = FALSE]
      BY <2>2 DEF PublishManifest, snap
    <3> QED
      BY <1>1, <1>2, <1>3, <3>1 DEF Disk
  <2> QED
    BY <2>1, <2>2
<1>6. SameSize(disk, store, disk', store', Bound)
  BY <1>1, <1>2, <1>4, <1>5 DEF SameSize
<1>7. /\ step' \in Steps /\ (step' # "write" => job'.todo = {})
      /\ job' \in [kind : {"none", "fast", "full", "incremental"}, taken : SUBSET Slot,
                   todo : SUBSET Slot]
      /\ epoch' \in Nat /\ nextTs' = nextTs /\ vecOpen' \in BOOLEAN /\ budget' = budget
  BY <1>1, <1>4 DEF Steps
<1> QED
  BY <1>6, <1>7, StepType

LEMMA TruncateType ==
  ASSUME TInv, NothingDirty \/ EmptyWal \/ StampEpoch
  PROVE  TInv'
<1>1. /\ store \in Store /\ disk \in Disk /\ epoch \in Nat /\ nextTs \in Nat
      /\ vecOpen \in BOOLEAN /\ step \in Steps /\ (step # "write" => job.todo = {})
      /\ job \in [kind : {"none", "fast", "full", "incremental"}, taken : SUBSET Slot,
                  todo : SUBSET Slot]
      /\ Len(disk.wal) \in Nat /\ Len(disk.vecs) <= Bound
      /\ NoJob \in [kind : {"none", "fast", "full", "incremental"}, taken : SUBSET Slot,
                    todo : SUBSET Slot]
      /\ NoJob.todo = {}
  BY SameSizes
<1>2. /\ store' = store /\ nextTs' = nextTs /\ vecOpen' = vecOpen /\ budget' = budget
      /\ step' \in {"idle", "stamp"} /\ job' \in {job, NoJob} /\ step # "write"
      /\ epoch' \in {epoch, epoch + 1}
  BY DEF NothingDirty, EmptyWal, StampEpoch
<1>3. /\ disk' \in Disk /\ Len(disk'.wal) <= Len(disk.wal) /\ disk'.vecs = disk.vecs
      /\ disk'.manifest = disk.manifest /\ disk'.slim = disk.slim
  <2>1. CASE NothingDirty
    BY <1>1, <2>1 DEF NothingDirty
  <2>2. CASE EmptyWal
    <3>1. disk' = [disk EXCEPT !.wal = << >>]
      BY <2>2 DEF EmptyWal
    <3>2. << >> \in Seq([ts : Nat, entry : Entry]) /\ Len(<< >>) = 0
      OBVIOUS
    <3>3. disk' \in Disk /\ disk'.wal = << >> /\ disk'.vecs = disk.vecs
          /\ disk'.manifest = disk.manifest /\ disk'.slim = disk.slim
      BY <1>1, <3>1, <3>2 DEF Disk
    <3> QED
      BY <1>1, <3>2, <3>3
  <2>3. CASE StampEpoch
    <3>1. PICK n \in Nat : disk' = [disk EXCEPT !.metaEpoch = n]
      <4>1. epoch + 1 \in Nat
        BY <1>1
      <4>2. disk' = [disk EXCEPT !.metaEpoch = epoch + 1]
        BY <2>3 DEF StampEpoch
      <4> QED
        BY <4>1, <4>2
    <3>2. disk' \in Disk /\ disk'.wal = disk.wal /\ disk'.vecs = disk.vecs
          /\ disk'.manifest = disk.manifest /\ disk'.slim = disk.slim
      BY <1>1, <3>1 DEF Disk
    <3> QED
      BY <1>1, <3>2
  <2> QED
    BY <2>1, <2>2, <2>3
<1>4. SameSize(disk, store, disk', store', Bound)
  BY <1>1, <1>2, <1>3 DEF SameSize
<1>5. /\ step' \in Steps /\ (step' # "write" => job'.todo = {})
      /\ job' \in [kind : {"none", "fast", "full", "incremental"}, taken : SUBSET Slot,
                   todo : SUBSET Slot]
      /\ epoch' \in Nat /\ vecOpen' \in BOOLEAN
  BY <1>1, <1>2 DEF Steps
<1> QED
  BY <1>2, <1>4, <1>5, StepType

\* The clock that a log gives.
LEMMA WalClock ==
  ASSUME NEW d \in Disk
  PROVE  WalTime(d) \in Nat /\ WalEpoch(d) \in Nat
<1>1. d.wal \in Seq([ts : Nat, entry : Entry]) /\ d.metaEpoch \in Nat
  BY DEF Disk
<1>2. ASSUME d.wal # << >>
      PROVE  Last(d.wal).ts \in Nat
  <2>1. Len(d.wal) \in 1..Len(d.wal)
    <3>1. Len(d.wal) \in Nat /\ Len(d.wal) # 0
      BY <1>1, <1>2, EmptySeq, LenProperties
    <3> QED
      BY <3>1
  <2>2. d.wal[Len(d.wal)] \in [ts : Nat, entry : Entry]
    BY <1>1, <2>1, ElementOfSeq
  <2> QED
    BY <2>2 DEF Last
<1> QED
  BY <1>1, <1>2 DEF WalTime, WalEpoch

LEMMA RestartType ==
  ASSUME TInv, Restart
  PROVE  TInv'
<1>1. TypeOK /\ Len(disk.wal) <= Made /\ Sized(disk, store, Bound)
  BY DEF TInv
<1>2. disk \in Disk /\ store \in Store
  BY <1>1 DEF TypeOK
<1>3. /\ step' = "idle" /\ job' = NoJob /\ disk' = disk
      /\ store' = Recovered(disk) /\ epoch' = WalEpoch(disk) /\ nextTs' = WalTime(disk)
      /\ vecOpen' = OpensVecs(disk)
      /\ budget.restarts > 0 /\ budget' = [budget EXCEPT !.restarts = @ - 1]
  BY DEF Restart
<1>4. /\ budget' \in [calls : 0..MaxCalls, restarts : 0..MaxRestarts, errors : 0..MaxErrors]
      /\ budget'.calls = budget.calls /\ budget'.restarts = budget.restarts - 1
  BY <1>1, <1>3, BoundsAssumption DEF TypeOK
<1>5. /\ Made \in Nat /\ Made <= MaxCalls /\ Bound \in 0..SlotLimit /\ Bound \in Nat
      /\ budget.restarts \in 0..MaxRestarts
  BY BudgetType, SlotLimitAssumption
<1>6. Made' = Made
  BY <1>4 DEF Made
<1>7. Bound' = Bound + Made /\ Bound' \in Nat
  <2> DEFINE b == MaxRestarts - budget.restarts
  <2>1. Bound = Made * (b + 1) /\ Bound' = Made * (b + 1 + 1)
    <3>1. MaxRestarts - budget'.restarts + 1 = b + 1 + 1
      BY <1>4, <1>5, BoundsAssumption
    <3>2. Bound' = Made' * (MaxRestarts - budget'.restarts + 1)
      BY DEF Bound
    <3> QED
      BY <1>6, <3>1, <3>2 DEF Bound
  <2>2. b \in Nat /\ b <= MaxRestarts /\ MaxRestarts \in Nat /\ MaxCalls \in Nat
    BY <1>5, BoundsAssumption
  <2> HIDE DEF b
  <2>3. Made * (b + 1 + 1) = Made * (b + 1) + Made
    BY <1>5, <2>2, Products
  <2>4. Bound' = Bound + Made
    BY <2>1, <2>3
  <2> QED
    BY <1>5, <2>4
<1>8. /\ Len(disk.vecs) <= Bound /\ InRange(Chosen(disk).ids, Bound)
      /\ InRange(disk.manifest.ids, Bound)
      /\ disk.slim # None => InRange(disk.slim.ids, Bound)
  BY <1>1 DEF Sized, Chosen, UsesSlim
<1>9. /\ Recovered(disk) \in Store
      /\ Len(Recovered(disk).slots) <= Bound + Len(disk.wal)
      /\ InRange(Recovered(disk).idToSlot, Len(Recovered(disk).slots))
  <2>1. PICK d \in Disk, n \in 0..SlotLimit : d = disk /\ n = Bound
    BY <1>2, <1>5
  <2>2. Len(d.vecs) <= n /\ InRange(Chosen(d).ids, n)
    BY <1>8, <2>1
  <2>3. /\ Recovered(d) \in Store
        /\ Len(Recovered(d).slots) <= n + Len(d.wal)
        /\ InRange(Recovered(d).idToSlot, Len(Recovered(d).slots))
    BY <2>2, RecoveredType
  <2> QED
    BY <2>1, <2>3
<1>10. Len(disk.wal) \in Nat /\ Len(disk.vecs) \in Nat /\ Len(Recovered(disk).slots) \in Nat
       /\ disk.manifest.ids \in [Name -> Nat] /\ (disk.slim # None => disk.slim.ids \in [Name -> Nat])
  <2>1. Len(Recovered(disk).slots) \in Nat
    BY <1>9, LiveSlotsType
  <2> QED
    BY <1>2, <2>1, LenProperties DEF Disk, Snapshot
<1>11. Len(disk'.wal) <= Made'
  BY <1>1, <1>3, <1>6
<1>12. Sized(disk', store', Bound')
  <2>1. PICK n \in Nat, m \in Nat : n = Bound /\ m = Bound' /\ m = n + Made
    BY <1>5, <1>7
  <2>2. Len(disk.wal) <= Made /\ Len(disk.vecs) <= n
        /\ Len(Recovered(disk).slots) <= n + Len(disk.wal)
    BY <1>1, <1>8, <1>9, <2>1
  <2>3. Len(Recovered(disk).slots) <= m /\ Len(disk.vecs) <= m /\ n <= m
    BY <1>5, <1>10, <2>1, <2>2
  <2>4. InRange(disk.manifest.ids, n) /\ (disk.slim # None => InRange(disk.slim.ids, n))
    BY <1>8, <2>1
  <2>5. InRange(disk.manifest.ids, m) /\ (disk.slim # None => InRange(disk.slim.ids, m))
    BY <1>10, <2>3, <2>4 DEF InRange
  <2> QED
    BY <1>3, <1>9, <2>1, <2>3, <2>5 DEF Sized
<1>13. OpensVecs(disk) \in BOOLEAN
  BY <1>2 DEF OpensVecs, Disk
<1>14. WalTime(disk) \in Nat /\ WalEpoch(disk) \in Nat
  BY <1>2, WalClock
<1>15. TypeOK'
  BY <1>2, <1>3, <1>4, <1>9, <1>13, <1>14 DEF TypeOK, Steps, NoJob
<1> QED
  BY <1>11, <1>12, <1>15 DEF TInv

LEMMA EmptyType ==
  /\ EmptyDisk \in Disk /\ EmptyStore \in Store
  /\ EmptyDisk.vecs = << >> /\ EmptyDisk.wal = << >> /\ EmptyDisk.slim = None
  /\ EmptyStore.slots = << >> /\ EmptyStore.deleted = {} /\ EmptyStore.dirty = {}
  /\ EmptyStore.idToSlot = [i \in Name |-> NoSlot]
  /\ EmptyDisk.manifest = SnapshotOf(EmptyStore, None)
  /\ EmptyDisk.manifest.ids = [i \in Name |-> NoSlot]
<1>1. << >> \in Seq(Record \cup {None}) /\ << >> \in Seq(Val \cup {Zero})
      /\ << >> \in Seq([ts : Nat, entry : Entry])
  OBVIOUS
<1>2. /\ EmptyStore \in Store
      /\ EmptyStore.slots = << >> /\ EmptyStore.deleted = {} /\ EmptyStore.dirty = {}
      /\ EmptyStore.idToSlot = [i \in Name |-> NoSlot]
  BY <1>1 DEF EmptyStore, Store, NoSlot
<1>3. SnapshotOf(EmptyStore, None) \in Snapshot
      /\ SnapshotOf(EmptyStore, None).ids = EmptyStore.idToSlot
  BY <1>2, SnapshotType
<1>4. EmptyDisk \in Disk
  BY <1>1, <1>3 DEF EmptyDisk, Disk
<1> QED
  BY <1>2, <1>3, <1>4 DEF EmptyDisk

LEMMA InitType == Init => TInv
<1> SUFFICES ASSUME Init PROVE TInv
  OBVIOUS
<1>1. /\ disk = EmptyDisk /\ store = EmptyStore /\ epoch = 0 /\ nextTs = 0 /\ vecOpen = FALSE
      /\ step = "idle" /\ job = NoJob
      /\ budget = [calls |-> MaxCalls, restarts |-> MaxRestarts, errors |-> MaxErrors]
  BY DEF Init
<1>2. TypeOK
  <2>1. disk \in Disk /\ store \in Store
    BY <1>1, EmptyType
  <2>2. budget \in [calls : 0..MaxCalls, restarts : 0..MaxRestarts, errors : 0..MaxErrors]
    BY <1>1, BoundsAssumption
  <2> QED
    BY <1>1, <2>1, <2>2 DEF TypeOK, Steps, NoJob
<1>3. Made = 0 /\ Bound = 0
  BY <1>1, BoundsAssumption DEF Made, Bound
<1>4. Len(<< >>) = 0
  OBVIOUS
<1>5. Len(disk.wal) <= Made
  BY <1>1, <1>3, <1>4, EmptyType
<1>6. Sized(disk, store, Bound)
  BY <1>1, <1>3, <1>4, EmptyType DEF Sized, InRange, NoSlot
<1> QED
  BY <1>2, <1>5, <1>6 DEF TInv

LEMMA NextType == TInv /\ [Next]_vars => TInv'
<1> SUFFICES ASSUME TInv, [Next]_vars PROVE TInv'
  OBVIOUS
<1>1. CASE \E k \in Key, v \in Val : Set(k, v) \/ SetBatch(k, v) \/ Update(k, v)
  BY <1>1, WritesType
<1>2. CASE \E k \in Key : Delete(k)
  BY <1>2, DeleteTypes
<1>3. CASE DeleteNone \/ Compact \/ Flush
  BY <1>3, OtherCallsType
<1>4. CASE BeginFull \/ BeginFast \/ BeginIncremental
  BY <1>4, BeginsType
<1>5. CASE FailToStat \/ FailToGrow \/ FailToPublish \/ FailToStamp
  BY <1>5, FailuresType
<1>6. CASE WriteSlot
  BY <1>6, WriteSlotType
<1>7. CASE PublishSlim \/ PublishManifest
  BY <1>7, PublishType
<1>8. CASE NothingDirty \/ EmptyWal \/ StampEpoch
  BY <1>8, TruncateType
<1>9. CASE Restart
  BY <1>9, RestartType
<1>10. CASE UNCHANGED vars
  BY <1>10 DEF vars, TInv, TypeOK, Sized, Made, Bound
<1> QED
  BY <1>1, <1>2, <1>3, <1>4, <1>5, <1>6, <1>7, <1>8, <1>9, <1>10 DEF Next

\* The files, the records and the step of the call under way have their types
\* whatever is called, fails or stops.
THEOREM TypeCorrect == Spec => []TypeOK
<1>1. TInv => TypeOK
  BY DEF TInv
<1> QED
  BY <1>1, InitType, NextType, PTL DEF Spec

-----------------------------------------------------------------------------
(* What a persistent store keeps over checkpoints, errors and restarts.    *)
(* Each theorem is about the behaviours without the few kinds of step that *)
(* break it in the code: README lists what each of them does, and gives    *)
(* the instance on which TLC shows it.  Everything else may happen in any  *)
(* order: every call, every checkpoint, every error, every restart.        *)

\* A compaction gives the records new slots, in the store and not yet in the files.
Renumbers == Compact \/ (Flush /\ CompactionDue)

\* A restart has made a record of a vector that no name claims.
PhantomLives == \E s \in LiveSlots(store) : store.slots[s].id \notin Key

\* A fast checkpoint over a manifest that declares no .vecs: recovery will not open
\* the vectors it has written.
Unbacked == PublishSlim /\ ~disk.vecFile

\* A checkpoint has emptied the .vecs that the old manifest declares, and has not
\* replaced the manifest yet.
Emptied == /\ step = "write" /\ disk.vecFile
           /\ (job.kind = "full" \/ (job.kind = "incremental" /\ store.slots = << >>))

Disputed == \/ Unbacked
            \/ (PhantomLives /\ Renumbers)
            \/ (Emptied /\ (Restart \/ FailToPublish))

-----------------------------------------------------------------------------
(* The inductive invariant of a consistent store: the id map and the       *)
(* tombstones of the snapshot that recovery will choose are within .vecs,  *)
(* and a phantom is in the slot that it is named for, so that no record is *)
(* ever recovered under its name.                                          *)

Homes(ids) == \A p \in PhantomName : ids[p] \in {NoSlot, p}

NamesHome(d) == Homes(d.manifest.ids) /\ (d.slim # None => Homes(d.slim.ids))

Covers(vecs, snap) == Mapped(snap) \cup snap.deleted \subseteq DOMAIN vecs

FilesFit(d) ==
  /\ NamesHome(d)
  /\ IF d.vecFile
     THEN d.vecs # << >> /\ Covers(d.vecs, d.manifest)
     ELSE Mapped(d.manifest) = {} /\ d.manifest.deleted = {}
  /\ UsesSlim(d) => d.vecFile /\ Covers(d.vecs, d.slim)

MappingFits ==
  step = "write" => /\ vecOpen <=> store.slots # << >>
                    /\ Len(store.slots) <= Len(disk.vecs)

CInv == /\ Consistent(store)
        /\ Homes(store.idToSlot)
        /\ NamesHome(disk)
        /\ ~Emptied => FilesFit(disk)
        /\ MappingFits

\* Consistency is about the slots, the id map, the tombstones and the count.
LEMMA SameRecordsConsistent ==
  ASSUME NEW st \in Store, Consistent(st), NEW new \in Store,
         new.slots = st.slots, new.idToSlot = st.idToSlot, new.deleted = st.deleted,
         new.liveCount = st.liveCount
  PROVE  Consistent(new) /\ LiveSlots(new) = LiveSlots(st)
<1>1. LiveSlots(new) = LiveSlots(st)
  BY DEF LiveSlots
<1> QED
  BY <1>1 DEF Consistent, IdMapSound, LiveSlotsMapped, LiveCountExact, DeletedInRange

\* No name is mapped in a store without slots, and no tombstone is in it.
LEMMA MappedInStore ==
  ASSUME NEW st \in Store, Consistent(st), NEW n \in Nat \cup {None}
  PROVE  /\ Mapped(SnapshotOf(st, n)) \subseteq LiveSlots(st)
         /\ Mapped(SnapshotOf(st, n)) \subseteq DOMAIN st.slots
         /\ SnapshotOf(st, n).deleted = st.deleted
         /\ st.deleted \subseteq DOMAIN st.slots
         /\ DOMAIN st.slots = 1..Len(st.slots) /\ Len(st.slots) \in Nat
         /\ st.slots = << >> <=> Len(st.slots) = 0
         /\ \A k \in Name : st.idToSlot[k] # NoSlot =>
              st.idToSlot[k] \in LiveSlots(st) /\ st.slots[st.idToSlot[k]].id = k
<1>1. SnapshotOf(st, n).ids = st.idToSlot
  BY SnapshotType
<1>2. SnapshotOf(st, n).deleted = st.deleted
  BY DEF SnapshotOf
<1>3. \A k \in Name : st.idToSlot[k] # NoSlot =>
         st.idToSlot[k] \in LiveSlots(st) /\ st.slots[st.idToSlot[k]].id = k
  BY DEF Consistent, IdMapSound
<1>4. Mapped(SnapshotOf(st, n)) \subseteq LiveSlots(st)
  BY <1>1, <1>3 DEF Mapped
<1>5. st.deleted \subseteq DOMAIN st.slots
  BY DEF Consistent, DeletedInRange
<1>6. /\ DOMAIN st.slots = 1..Len(st.slots) /\ Len(st.slots) \in Nat
      /\ LiveSlots(st) \subseteq DOMAIN st.slots /\ st.slots \in Seq(Record \cup {None})
  BY LiveSlotsType
<1>7. st.slots = << >> <=> Len(st.slots) = 0
  BY <1>6, EmptySeq
<1> QED
  BY <1>2, <1>3, <1>4, <1>5, <1>6, <1>7

-----------------------------------------------------------------------------
(* Recovery makes a consistent store of files that fit.                    *)

\* The name of each recovered record, and the slots of each name.
LEMMA InitialSlotName ==
  ASSUME NEW d \in Disk, Len(d.vecs) <= SlotLimit, NEW s \in Slot, Homes(Chosen(d).ids),
         InitialSlot(d, s) # None
  PROVE  /\ s \notin Chosen(d).deleted
         /\ InitialSlot(d, s).id \in Name
         /\ InitialSlot(d, s).id \in PhantomName => InitialSlot(d, s).id = s
         /\ s \in Mapped(Chosen(d)) => Chosen(d).ids[InitialSlot(d, s).id] = s
         /\ s \notin Mapped(Chosen(d)) => InitialSlot(d, s).id = s /\ s \in PhantomName
<1>1. s \notin Chosen(d).deleted
  BY DEF InitialSlot
<1>2. s # NoSlot
  BY DEF Slot
<1>3. CASE s \in Mapped(Chosen(d))
  <2> DEFINE i == CHOOSE i \in Name : Chosen(d).ids[i] = s
  <2>1. i \in Name /\ Chosen(d).ids[i] = s
    BY <1>3 DEF Mapped
  <2>2. InitialSlot(d, s).id = i
    BY <1>1, <1>3 DEF InitialSlot, InitialRecord
  <2> HIDE DEF i
  <2>3. i \in PhantomName => i = s
    BY <1>2, <2>1 DEF Homes
  <2> QED
    BY <1>1, <1>3, <2>1, <2>2, <2>3
<1>4. CASE s \notin Mapped(Chosen(d))
  <2>1. VecAt(d, s) # None /\ InitialSlot(d, s) = InitialRecord(d, s, s)
    BY <1>1, <1>4 DEF InitialSlot
  <2>2. s \in Usable(d)
    BY <2>1 DEF VecAt
  <2>3. DOMAIN d.vecs = 1..Len(d.vecs) /\ Len(d.vecs) \in Nat
    BY DEF Disk
  <2>4. s \in PhantomName /\ s \in Name
    BY <2>2, <2>3, UsableInFile, SlotLimitAssumption DEF PhantomName, Name
  <2> QED
    BY <1>1, <1>4, <2>1, <2>4 DEF InitialRecord
<1> QED
  BY <1>3, <1>4

\* The tombstones of the chosen snapshot are slots that recovery makes.
LEMMA ChosenFits ==
  ASSUME NEW d \in Disk, FilesFit(d)
  PROVE  /\ Homes(Chosen(d).ids)
         /\ d.vecFile => Chosen(d).deleted \subseteq DOMAIN d.vecs /\ d.vecs # << >>
         /\ ~d.vecFile => Chosen(d).deleted = {}
         /\ d.vecFile => Mapped(Chosen(d)) \subseteq DOMAIN d.vecs
         /\ ~d.vecFile => Mapped(Chosen(d)) = {}
BY DEF FilesFit, NamesHome, Chosen, UsesSlim, Covers

Sound(st) == st \in Store /\ Consistent(st) /\ Homes(st.idToSlot)

LEMMA InitialConsistent ==
  ASSUME NEW d \in Disk, NEW n \in 0..SlotLimit, Len(d.vecs) <= n, InRange(Chosen(d).ids, n),
         FilesFit(d)
  PROVE  Sound(InitialRecords(d))
<1> DEFINE slots == InitialSlots(d)
           dead == Chosen(d).deleted
           count == Cardinality({s \in 1..LastSlot(d) : slots[s] # None})
           new == Restored(slots, dead, count)
<1>1. /\ InitialRecords(d) \in Store /\ InitialRecords(d).slots = slots
      /\ Len(slots) = LastSlot(d)
      /\ InitialRecords(d).idToSlot = IndexOf(slots, dead)
  BY InitialType
<1>2. slots \in Seq(Record \cup {None}) /\ DOMAIN slots = 1..Len(slots) /\ Len(slots) \in Nat
  BY <1>1, LiveSlotsType
<1>3. dead \in SUBSET Slot
  BY ChosenType DEF Snapshot
<1>4. Len(d.vecs) <= SlotLimit /\ n \in Nat /\ Len(d.vecs) \in Nat
      /\ DOMAIN d.vecs = 1..Len(d.vecs)
  BY SlotLimitAssumption DEF Disk
<1>5. Homes(Chosen(d).ids)
  BY ChosenFits
<1>6. \A s \in 1..LastSlot(d) : slots[s] = InitialSlot(d, s) /\ s \in Slot
  BY <1>1, <1>2 DEF InitialSlots, Slot, NoSlot
<1>7. d.vecFile => DOMAIN d.vecs \subseteq DOMAIN slots
  BY <1>1, <1>2, <1>4, LastSlotType
<1>8. dead \subseteq DOMAIN slots
  BY <1>7, ChosenFits
<1>9. \A s \in DOMAIN slots : slots[s] # None =>
        /\ s \notin dead
        /\ slots[s].id \in PhantomName => slots[s].id = s
        /\ s \in Mapped(Chosen(d)) => Chosen(d).ids[slots[s].id] = s
        /\ s \notin Mapped(Chosen(d)) => slots[s].id = s /\ s \in PhantomName
  <2> SUFFICES ASSUME NEW s \in DOMAIN slots, slots[s] # None
               PROVE  /\ s \notin dead
                      /\ slots[s].id \in PhantomName => slots[s].id = s
                      /\ s \in Mapped(Chosen(d)) => Chosen(d).ids[slots[s].id] = s
                      /\ s \notin Mapped(Chosen(d)) => slots[s].id = s /\ s \in PhantomName
    OBVIOUS
  <2>1. slots[s] = InitialSlot(d, s) /\ s \in Slot
    BY <1>1, <1>2, <1>6
  <2>2. InitialSlot(d, s) # None
    BY <2>1
  <2>3. /\ s \notin Chosen(d).deleted
        /\ InitialSlot(d, s).id \in PhantomName => InitialSlot(d, s).id = s
        /\ s \in Mapped(Chosen(d)) => Chosen(d).ids[InitialSlot(d, s).id] = s
        /\ s \notin Mapped(Chosen(d)) => InitialSlot(d, s).id = s /\ s \in PhantomName
    BY <1>4, <1>5, <2>1, <2>2, InitialSlotName
  <2> QED
    BY <2>1, <2>3
<1>10. \A s, t \in DOMAIN slots :
         slots[s] # None /\ slots[t] # None /\ slots[s].id = slots[t].id => s = t
  BY <1>9
<1>11. count \in Int
  <2>1. IsFiniteSet(1..LastSlot(d))
    BY <1>1, <1>2, FS_Interval
  <2>2. IsFiniteSet({s \in 1..LastSlot(d) : slots[s] # None})
    BY <2>1, FS_Subset
  <2> QED
    BY <2>2, FS_CardinalityType
<1>12. new.slots = slots /\ new.deleted = dead
  BY DEF Restored
<1>13. LiveSlots(new) = {s \in 1..LastSlot(d) : slots[s] # None}
  BY <1>1, <1>2, <1>9, <1>12 DEF LiveSlots
<1>14. count = Cardinality(LiveSlots(new))
  BY <1>13
<1>15. \A s, t \in LiveSlots(new) : slots[s].id = slots[t].id => s = t
  BY <1>1, <1>2, <1>10, <1>13
<1>16. InitialRecords(d) = new
  BY InitialUnfolds
<1>17. Consistent(new)
  <2> HIDE DEF slots, dead, count
  <2> QED
    BY <1>2, <1>3, <1>8, <1>11, <1>14, <1>15, RestoredKeeps
<1>18. Homes(IndexOf(slots, dead))
  <2> SUFFICES ASSUME NEW p \in PhantomName PROVE IndexOf(slots, dead)[p] \in {NoSlot, p}
    BY DEF Homes
  <2> DEFINE own == {s \in DOMAIN slots : s \notin dead /\ slots[s] # None /\ slots[s].id = p}
  <2>1. p \in Name
    BY DEF Name
  <2>2. IF own = {} THEN IndexOf(slots, dead)[p] = NoSlot ELSE IndexOf(slots, dead)[p] \in own
    <3> HIDE DEF slots, dead
    <3> QED
      BY <1>2, <2>1, IndexOfSlot
  <2>3. \A s \in own : s = p
    BY <1>9
  <2> QED
    BY <2>2, <2>3
<1> QED
  BY <1>1, <1>16, <1>17, <1>18 DEF Sound

LEMMA KeyNoPhantom ==
  ASSUME NEW k \in Key
  PROVE  k \in Name /\ k \notin PhantomName
BY KeyAssumption DEF Name

LEMMA UpsertSound ==
  ASSUME NEW st, Sound(st), NEW rec \in Record, rec.id \in Key
  PROVE  Sound(Upserted(st, rec))
<1>1. st \in Store /\ Consistent(st) /\ Homes(st.idToSlot) /\ st.idToSlot \in [Name -> Nat]
  BY DEF Sound, Store
<1>2. Upserted(st, rec) \in Store /\ Consistent(Upserted(st, rec))
  BY <1>1, UpsertKeeps
<1>3. Upserted(st, rec).idToSlot = [st.idToSlot EXCEPT ![rec.id] = Len(st.slots) + 1]
  BY <1>1, WritesPush
<1>4. \A p \in PhantomName : p \in Name /\ p # rec.id
  BY KeyNoPhantom DEF Name
<1>5. Homes(Upserted(st, rec).idToSlot)
  BY <1>1, <1>3, <1>4 DEF Homes
<1> QED
  BY <1>2, <1>5 DEF Sound

LEMMA RemoveSound ==
  ASSUME NEW st, Sound(st), NEW k \in Key, Deletable(st, k)
  PROVE  Sound(Removed(st, k))
<1>1. st \in Store /\ Consistent(st) /\ Homes(st.idToSlot) /\ st.idToSlot \in [Name -> Nat]
  BY DEF Sound, Store
<1>2. k \in Name
  BY KeyNoPhantom
<1>3. Removed(st, k) \in Store /\ Consistent(Removed(st, k))
  BY <1>1, <1>2, RemoveKeeps
<1>4. Removed(st, k).idToSlot = [st.idToSlot EXCEPT ![k] = NoSlot]
  BY <1>1, <1>2, WritesPush
<1>5. \A p \in PhantomName : p \in Name /\ p # k
  BY KeyNoPhantom DEF Name
<1>6. Homes(Removed(st, k).idToSlot)
  BY <1>1, <1>4, <1>5 DEF Homes
<1> QED
  BY <1>3, <1>6 DEF Sound

LEMMA MetaSound ==
  ASSUME NEW st, Sound(st), NEW s \in LiveSlots(st), NEW m \in Val
  PROVE  Sound(WithMeta(st, s, m))
<1>1. st \in Store
  BY DEF Sound
<1>2. MetaWritten(st, s, m, WithMeta(st, s, m))
  BY <1>1, WithMetaKeeps
<1> DEFINE new == WithMeta(st, s, m)
<1>3. new \in Store /\ new.idToSlot = st.idToSlot /\ (Consistent(st) => Consistent(new))
  BY <1>2 DEF MetaWritten
<1> HIDE DEF new
<1>4. Sound(new)
  BY <1>3 DEF Sound
<1> QED
  BY <1>4 DEF new

\* A compaction packs the live records, and makes every slot dirty.
Repacked(st, new) ==
  /\ new \in Store /\ Consistent(new)
  /\ LiveSlots(new) \subseteq new.dirty
  /\ \A n \in LiveSlots(new) : \E s \in LiveSlots(st) : new.slots[n] = st.slots[s]
  /\ \A s \in LiveSlots(st) : \E n \in LiveSlots(new) : new.slots[n] = st.slots[s]

LEMMA CompactRepacks ==
  ASSUME NEW st \in Store, Consistent(st)
  PROVE  Repacked(st, Compacted(st))
<1> DEFINE new == Compacted(st)
           L == LiveSlots(st)
<1>1. new \in Store
  BY CompactKeeps
<1>2. Consistent(new)
  BY SameReaders, SameCompaction, NoneApart, Facts!CompactedConsistent
<1>3. /\ new.slots = PackedSlots(st) /\ new.dirty = DOMAIN PackedSlots(st)
      /\ LiveSlots(new) = 1..Facts!Cardinality(L)
  BY SameReaders, SameCompaction, NoneApart, Facts!CompactedEffect
<1>4. /\ DOMAIN PackedSlots(st) = 1..Facts!Cardinality(L)
      /\ \A n \in DOMAIN PackedSlots(st) :
           /\ Facts!Unranked(L, n) \in L
           /\ PackedSlots(st)[n] = st.slots[Facts!Unranked(L, n)]
      /\ \A s \in L : /\ Facts!Rank(L, s) \in DOMAIN PackedSlots(st)
                      /\ PackedSlots(st)[Facts!Rank(L, s)] = st.slots[s]
  BY SameReaders, SameCompaction, NoneApart, Facts!PackedSlotsLive
<1> HIDE DEF new, L
<1>5. Repacked(st, new)
  BY <1>1, <1>2, <1>3, <1>4 DEF Repacked, L
<1> QED
  BY <1>5 DEF new

LEMMA CompactSound ==
  ASSUME NEW st, Sound(st), \A s \in LiveSlots(st) : st.slots[s].id \in Key
  PROVE  Sound(Compacted(st))
<1> DEFINE new == Compacted(st)
<1>1. Repacked(st, new)
  BY CompactRepacks DEF Sound
<1> HIDE DEF new
<1>2. \A n \in LiveSlots(new) : new.slots[n].id \in Key
  BY <1>1 DEF Repacked
<1>3. \A i \in Name : new.idToSlot[i] # NoSlot =>
        new.idToSlot[i] \in LiveSlots(new) /\ new.slots[new.idToSlot[i]].id = i
  BY <1>1 DEF Repacked, Consistent, IdMapSound
<1>4. Homes(new.idToSlot)
  BY <1>2, <1>3, KeyAssumption DEF Homes, Name
<1>5. Sound(new)
  BY <1>1, <1>4 DEF Sound, Repacked
<1> QED
  BY <1>5 DEF new

LEMMA ReplayedSound ==
  ASSUME NEW st, Sound(st), NEW e \in Entry
  PROVE  Sound(Replayed(st, e))
<1>1. e.op \in {"upsert", "delete"} /\ e.id \in Key /\ (e.op = "upsert" => RecordIn(e) \in Record)
      /\ RecordIn(e).id = e.id
  BY EntryType DEF RecordIn
<1>2. CASE e.op = "upsert"
  <2>1. Replayed(st, e) = Upserted(st, RecordIn(e))
    BY <1>2 DEF Replayed, RecordIn
  <2> QED
    BY <1>1, <1>2, <2>1, UpsertSound
<1>3. CASE e.op # "upsert" /\ Deletable(st, e.id)
  <2>1. Replayed(st, e) = Removed(st, e.id)
    BY <1>3 DEF Replayed
  <2> QED
    BY <1>1, <1>3, <2>1, RemoveSound
<1>4. CASE e.op # "upsert" /\ ~Deletable(st, e.id)
  <2>1. Replayed(st, e) = st
    BY <1>4 DEF Replayed
  <2> QED
    BY <2>1
<1> QED
  BY <1>2, <1>3, <1>4

LEMMA RecoveredSound ==
  ASSUME NEW d \in Disk, NEW n \in 0..SlotLimit, Len(d.vecs) <= n, InRange(Chosen(d).ids, n),
         FilesFit(d)
  PROVE  Sound(Recovered(d))
<1> DEFINE P == {x \in Nat \X Store : Sound(x[2])}
<1>1. <<0, InitialRecords(d)>> \in P
  BY InitialConsistent DEF Sound
<1>2. \A m \in 1..Len(d.wal), x \in Store :
           <<m - 1, x>> \in P => <<m, ReplayedUnlessCovered(d, x, d.wal[m])>> \in P
  <2> SUFFICES ASSUME NEW m \in 1..Len(d.wal), NEW x \in Store, Sound(x)
               PROVE  /\ m \in Nat /\ ReplayedUnlessCovered(d, x, d.wal[m]) \in Store
                      /\ Sound(ReplayedUnlessCovered(d, x, d.wal[m]))
    BY Zenon
  <2>1. Len(d.wal) \in Nat /\ m \in Nat
    BY LenProperties DEF Disk
  <2>2. d.wal[m].entry \in Entry /\ ReplayedUnlessCovered(d, x, d.wal[m]) \in Store
    BY ReplayedUnlessCoveredType
  <2>3. Sound(Replayed(x, d.wal[m].entry))
    BY <2>2, ReplayedSound
  <2> QED
    BY <2>1, <2>2, <2>3 DEF ReplayedUnlessCovered
<1>3. <<Len(d.wal), Recovered(d)>> \in P
  <2>1. P \in SUBSET (Nat \X Store)
    OBVIOUS
  <2> HIDE DEF P
  <2> QED
    BY <1>1, <1>2, <2>1, RecoveredInduction
<1> QED
  BY <1>3

-----------------------------------------------------------------------------
(* Each step keeps the store consistent and the files fitting.             *)

\* Where the invariant is proved, everything has its type.
LEMMA StateTypes ==
  ASSUME TInv, CInv
  PROVE  /\ store \in Store /\ disk \in Disk
         /\ Sound(store) /\ Consistent(store) /\ Homes(store.idToSlot)
         /\ ~Emptied => FilesFit(disk)
         /\ step # "write" => FilesFit(disk)
         /\ epoch \in Nat /\ nextTs \in Nat /\ vecOpen \in BOOLEAN
         /\ job.taken \in SUBSET Slot /\ job.todo \in SUBSET Slot
BY SameSizes DEF CInv, Sound, Emptied

\* The files that a step left alone, but for the vectors in .vecs, or the log.
LEMMA SameFit ==
  ASSUME NEW d \in Disk, NEW e \in Disk, NamesHome(d),
         DOMAIN d.vecs \subseteq DOMAIN e.vecs, e.manifest = d.manifest,
         e.vecFile = d.vecFile, e.slim = d.slim, e.slimNewer = d.slimNewer
  PROVE  NamesHome(e) /\ (FilesFit(d) => FilesFit(e))
<1>1. NamesHome(e)
  BY DEF NamesHome
<1>2. d.vecs # << >> => e.vecs # << >>
  <2>1. d.vecs \in Seq(Val \cup {Zero})
    BY DEF Disk
  <2>2. d.vecs # << >> => Len(d.vecs) # 0 /\ Len(d.vecs) \in Nat /\ DOMAIN d.vecs = 1..Len(d.vecs)
    BY <2>1, EmptySeq
  <2>3. d.vecs # << >> => 1 \in DOMAIN d.vecs
    BY <2>2
  <2>4. 1 \notin DOMAIN << >>
    OBVIOUS
  <2> QED
    BY <2>3, <2>4
<1>3. UsesSlim(e) <=> UsesSlim(d)
  BY DEF UsesSlim
<1> QED
  BY <1>1, <1>2, <1>3 DEF FilesFit, Covers

\* A call, or a step of a checkpoint that writes neither .vecs nor a snapshot.
LEMMA QuietKeeps ==
  ASSUME TInv, TInv', CInv, ~Emptied, Sound(store'), step' # "write",
         disk'.vecs = disk.vecs, disk'.manifest = disk.manifest, disk'.vecFile = disk.vecFile,
         disk'.slim = disk.slim, disk'.slimNewer = disk.slimNewer
  PROVE  CInv'
<1>1. disk \in Disk /\ disk' \in Disk
  BY DEF TInv, TypeOK
<1>2. NamesHome(disk) /\ FilesFit(disk)
  BY DEF CInv
<1>3. NamesHome(disk') /\ FilesFit(disk')
  <2>1. PICK d \in Disk, e \in Disk : d = disk /\ e = disk'
    BY <1>1
  <2>2. /\ DOMAIN d.vecs \subseteq DOMAIN e.vecs /\ e.manifest = d.manifest
        /\ e.vecFile = d.vecFile /\ e.slim = d.slim /\ e.slimNewer = d.slimNewer
        /\ NamesHome(d) /\ FilesFit(d)
    BY <1>2, <2>1
  <2>3. NamesHome(e) /\ FilesFit(e)
    BY <2>2, SameFit
  <2> QED
    BY <2>1, <2>3
<1> QED
  BY <1>3 DEF CInv, Sound, MappingFits

\* Giving dirty slots back, or taking them, changes no record.
LEMMA DirtySound ==
  ASSUME NEW st, Sound(st), NEW taken \in SUBSET Slot
  PROVE  Sound(DirtyTaken(st)) /\ Sound(DirtyRestored(st, taken))
<1>1. st \in Store /\ Consistent(st) /\ Homes(st.idToSlot)
  BY DEF Sound
<1>2. ASSUME NEW new \in Store, new.slots = st.slots, new.idToSlot = st.idToSlot,
             new.deleted = st.deleted, new.liveCount = st.liveCount
      PROVE  Sound(new)
  BY <1>1, <1>2, SameRecordsConsistent DEF Sound
<1>3. Sound(DirtyTaken(st))
  BY <1>1, <1>2, DirtyType
<1>4. Sound(DirtyRestored(st, taken))
  BY <1>1, <1>2, DirtyType
<1> QED
  BY <1>3, <1>4

\* What the calls that write make of the records.
LEMMA WritesSound ==
  ASSUME TInv, CInv, NEW k \in Key, NEW v \in Val, Set(k, v) \/ SetBatch(k, v) \/ Update(k, v)
  PROVE  Sound(store')
<1>1. store \in Store /\ disk \in Disk /\ Sound(store)
  BY StateTypes
<1> DEFINE rec == [id |-> k, vec |-> v, aux |-> None, meta |-> v]
<1>2. rec \in Record /\ rec.id \in Key
  BY <1>1, NewRecordType
<1>3. WithVector(store, k, v, v) = Upserted(store, rec)
  BY <1>1, SetFollows
<1>4. Sound(WithVector(store, k, v, v))
  <2> HIDE DEF rec
  <2> QED
    BY <1>1, <1>2, <1>3, UpsertSound
<1>5. Set(k, v) => Sound(store')
  BY <1>4 DEF Set, LoggedWrite
<1>6. SetBatch(k, v) => Sound(store')
  BY <1>4 DEF SetBatch, UnloggedWrite
<1>7. ASSUME Update(k, v)
      PROVE  Sound(store')
  <2>1. Found(store, k) /\ store' = WithMeta(store, store.idToSlot[k], v)
    BY <1>7 DEF Update, LoggedWrite, UnloggedWrite
  <2>2. PICK s \in LiveSlots(store) : s = store.idToSlot[k]
    BY <2>1, FoundSlot
  <2>3. Sound(WithMeta(store, s, v))
    BY <1>1, MetaSound
  <2> QED
    BY <2>1, <2>2, <2>3
<1> QED
  BY <1>5, <1>6, <1>7

LEMMA DeleteSound ==
  ASSUME TInv, CInv, NEW k \in Key, Delete(k)
  PROVE  Sound(store')
<1>1. Deletable(store, k) /\ store' = Removed(store, k)
  BY DEF Delete, LoggedWrite
<1> QED
  BY <1>1, StateTypes, RemoveSound

\* What they write to the files.
LEMMA WritesQuiet ==
  ASSUME TInv, NEW k, NEW v, Set(k, v) \/ SetBatch(k, v) \/ Update(k, v) \/ Delete(k)
  PROVE  /\ step = "idle" /\ step' \in {"idle", "due"} /\ UNCHANGED <<epoch, vecOpen, job>>
         /\ disk'.vecs = disk.vecs /\ disk'.manifest = disk.manifest
         /\ disk'.maxTs = disk.maxTs /\ disk'.vecFile = disk.vecFile
         /\ disk'.slim = disk.slim /\ disk'.slimNewer = disk.slimNewer
         /\ disk'.metaEpoch = disk.metaEpoch
<1>1. disk \in Disk
  BY DEF TInv, TypeOK
<1>2. \/ disk' = disk
      \/ \E e : disk' = Logged(disk, nextTs, e)
  BY DEF Set, SetBatch, Update, Delete, LoggedWrite, UnloggedWrite
<1>3. step = "idle" /\ step' \in {"idle", "due"} /\ UNCHANGED <<epoch, vecOpen, job>>
  BY DEF Set, SetBatch, Update, Delete, LoggedWrite, UnloggedWrite, Called
<1> QED
  BY <1>1, <1>2, <1>3 DEF Logged, Disk

LEMMA CallsKeep ==
  ASSUME TInv, TInv', CInv, NEW k \in Key,
         Delete(k) \/ \E v \in Val : Set(k, v) \/ SetBatch(k, v) \/ Update(k, v)
  PROVE  CInv'
<1>1. Sound(store')
  BY WritesSound, DeleteSound
<1>2. /\ step = "idle" /\ step' \in {"idle", "due"}
      /\ disk'.vecs = disk.vecs /\ disk'.manifest = disk.manifest
      /\ disk'.vecFile = disk.vecFile
      /\ disk'.slim = disk.slim /\ disk'.slimNewer = disk.slimNewer
  BY WritesQuiet
<1>3. ~Emptied
  BY <1>2 DEF Emptied
<1> QED
  BY <1>1, <1>2, <1>3, QuietKeeps

LEMMA OthersKeep ==
  ASSUME TInv, TInv', CInv, ~(PhantomLives /\ Renumbers),
         DeleteNone \/ Compact \/ Flush \/ NothingDirty
  PROVE  CInv'
<1>1. disk' = disk /\ step \in {"idle", "due"} /\ step' \in {"due", "flush", "idle"}
  BY DEF DeleteNone, Compact, Flush, NothingDirty, Called
<1>2. \/ store' = store
      \/ store' = Compacted(store) /\ Renumbers
  BY DEF DeleteNone, Compact, Flush, NothingDirty, Renumbers
<1>3. Sound(store')
  BY <1>2, StateTypes, CompactSound DEF PhantomLives
<1>4. ~Emptied
  BY <1>1 DEF Emptied
<1> QED
  BY <1>1, <1>3, <1>4, QuietKeeps

LEMMA FailuresKeep ==
  ASSUME TInv, TInv', CInv, ~(Emptied /\ FailToPublish),
         FailToStat \/ FailToGrow \/ FailToPublish \/ FailToStamp
  PROVE  CInv'
<1>1. Sound(store) /\ job.taken \in SUBSET Slot /\ store.dirty \in SUBSET Slot /\ disk \in Disk
  BY StateTypes DEF Store
<1>2. Sound(store')
  <2>1. CASE FailToStat \/ FailToGrow
    <3>1. store' = DirtyRestored(DirtyTaken(store), store.dirty)
      BY <2>1 DEF FailToStat, FailToGrow, FailToStart
    <3>2. Sound(DirtyTaken(store))
      BY <1>1, DirtySound
    <3> QED
      BY <1>1, <3>1, <3>2, DirtySound
  <2>2. CASE FailToPublish \/ FailToStamp
    <3>1. store' = DirtyRestored(store, job.taken)
      BY <2>2 DEF FailToPublish, FailToStamp
    <3> QED
      BY <1>1, <3>1, DirtySound
  <2> QED
    BY <2>1, <2>2
<1>3. step' # "write"
  BY DEF FailToStat, FailToGrow, FailToStart, FailToPublish, FailToStamp
<1>4. \/ disk' = disk
      \/ \E e : disk' = [disk EXCEPT !.metaEpoch = e]
  BY DEF FailToStat, FailToGrow, FailToStart, FailToPublish, FailToStamp
<1>5. /\ disk'.vecs = disk.vecs /\ disk'.manifest = disk.manifest
      /\ disk'.vecFile = disk.vecFile
      /\ disk'.slim = disk.slim /\ disk'.slimNewer = disk.slimNewer
  BY <1>1, <1>4 DEF Disk
<1>6. ~Emptied
  BY DEF Emptied, FailToStat, FailToGrow, FailToStart, FailToStamp
<1> QED
  BY <1>2, <1>3, <1>5, <1>6, QuietKeeps

LEMMA TruncateKeeps ==
  ASSUME TInv, TInv', CInv, EmptyWal \/ StampEpoch
  PROVE  CInv'
<1>1. store' = store /\ step # "write" /\ step' # "write"
  BY DEF EmptyWal, StampEpoch
<1>2. \/ \E w : disk' = [disk EXCEPT !.wal = w]
      \/ \E e : disk' = [disk EXCEPT !.metaEpoch = e]
  BY DEF EmptyWal, StampEpoch
<1>3. /\ disk'.vecs = disk.vecs /\ disk'.manifest = disk.manifest
      /\ disk'.vecFile = disk.vecFile
      /\ disk'.slim = disk.slim /\ disk'.slimNewer = disk.slimNewer
  BY <1>2, StateTypes DEF Disk
<1>4. Sound(store') /\ ~Emptied
  BY <1>1, StateTypes DEF Emptied
<1> QED
  BY <1>1, <1>3, <1>4, QuietKeeps

\* A checkpoint begins: .vecs has a slot for each of the store's, and every slot it
\* had, unless it was emptied.
LEMMA BeginKeeps ==
  ASSUME TInv, TInv', CInv, step # "write", NEW kind, NEW todo, NEW vecs,
         vecs \in Seq(Val \cup {Zero}), Begin(kind, todo, vecs),
         Len(store.slots) <= Len(vecs),
         \/ ~disk.vecFile
         \/ kind = "full" \/ (kind = "incremental" /\ store.slots = << >>)
         \/ DOMAIN disk.vecs \subseteq DOMAIN vecs
  PROVE  CInv'
<1>1. disk \in Disk /\ disk' \in Disk /\ store \in Store /\ Sound(store)
      /\ FilesFit(disk) /\ NamesHome(disk)
  BY StateTypes DEF CInv, TInv, TypeOK
<1>2. /\ disk' = [disk EXCEPT !.vecs = vecs] /\ vecOpen' = (store.slots # << >>)
      /\ store' = DirtyTaken(store) /\ step' = "write" /\ job'.kind = kind
  BY DEF Begin
<1>3. /\ disk'.vecs = vecs /\ disk'.manifest = disk.manifest /\ disk'.vecFile = disk.vecFile
      /\ disk'.slim = disk.slim /\ disk'.slimNewer = disk.slimNewer
      /\ store'.slots = store.slots
  BY <1>1, <1>2, DirtyType DEF Disk
<1>4. Sound(store')
  <2>1. {} \in SUBSET Slot
    OBVIOUS
  <2> QED
    BY <1>1, <1>2, <2>1, DirtySound
<1>5. MappingFits'
  BY <1>2, <1>3 DEF MappingFits
<1>6. NamesHome(disk')
  BY <1>1, <1>3 DEF NamesHome
<1>7. ASSUME ~Emptied'
      PROVE  FilesFit(disk')
  <2>1. CASE ~disk.vecFile
    <3>1. UsesSlim(disk') <=> UsesSlim(disk)
      BY <1>3 DEF UsesSlim
    <3> QED
      BY <1>1, <1>3, <1>6, <2>1, <3>1 DEF FilesFit
  <2>2. CASE disk.vecFile
    <3>1. DOMAIN disk.vecs \subseteq DOMAIN vecs
      BY <1>2, <1>3, <1>7, <2>2 DEF Emptied
    <3>2. PICK d \in Disk, e \in Disk : d = disk /\ e = disk'
      BY <1>1
    <3>3. /\ DOMAIN d.vecs \subseteq DOMAIN e.vecs /\ e.manifest = d.manifest
          /\ e.vecFile = d.vecFile /\ e.slim = d.slim /\ e.slimNewer = d.slimNewer
          /\ NamesHome(d) /\ FilesFit(d)
      BY <1>1, <1>3, <3>1, <3>2
    <3>4. FilesFit(e)
      BY <3>3, SameFit
    <3> QED
      BY <3>2, <3>4
  <2> QED
    BY <2>1, <2>2
<1> QED
  BY <1>4, <1>5, <1>6, <1>7 DEF CInv, Sound

\* The new .vecs of a full checkpoint.
LEMMA ZerosType ==
  ASSUME NEW st \in Store
  PROVE  /\ [s \in DOMAIN st.slots |-> Zero] \in Seq(Val \cup {Zero})
         /\ Len([s \in DOMAIN st.slots |-> Zero]) = Len(st.slots)
<1> DEFINE zeros == [s \in DOMAIN st.slots |-> Zero]
<1>1. DOMAIN st.slots = 1..Len(st.slots) /\ Len(st.slots) \in Nat
  BY LiveSlotsType
<1>2. zeros \in [1..Len(st.slots) -> Val \cup {Zero}]
  BY <1>1
<1> HIDE DEF zeros
<1>3. zeros \in Seq(Val \cup {Zero}) /\ Len(zeros) = Len(st.slots)
  BY <1>1, <1>2
<1> QED
  BY <1>3 DEF zeros

LEMMA BeginsKeep ==
  ASSUME TInv, TInv', CInv, BeginFull \/ BeginFast \/ BeginIncremental
  PROVE  CInv'
<1>1. store \in Store /\ disk \in Disk /\ step # "write"
  BY StateTypes DEF BeginFull, BeginFast, BeginIncremental
<1>2. /\ Len(store.slots) \in Nat /\ Len(disk.vecs) \in Nat
      /\ disk.vecs \in Seq(Val \cup {Zero}) /\ << >> \in Seq(Val \cup {Zero})
      /\ Len(<< >>) = 0
      /\ store.slots = << >> => Len(store.slots) = 0
  BY <1>1, LiveSlotsType DEF Disk
<1>3. /\ Grown(disk.vecs) \in Seq(Val \cup {Zero})
      /\ Len(store.slots) <= Len(Grown(disk.vecs))
      /\ DOMAIN disk.vecs \subseteq DOMAIN Grown(disk.vecs)
  BY <1>2, GrownType
<1>4. CASE BeginFull
  <2> DEFINE zeros == [s \in DOMAIN store.slots |-> Zero]
             vecs == IF store.slots = << >> THEN disk.vecs ELSE zeros
  <2>1. zeros \in Seq(Val \cup {Zero}) /\ Len(zeros) = Len(store.slots)
    BY <1>1, ZerosType
  <2>2. Begin("full", DOMAIN store.slots, vecs)
    BY <1>4 DEF BeginFull
  <2> HIDE DEF zeros
  <2>3. vecs \in Seq(Val \cup {Zero}) /\ Len(store.slots) <= Len(vecs)
    BY <1>2, <2>1
  <2> HIDE DEF vecs
  <2> QED
    BY <1>1, <2>2, <2>3, BeginKeeps
<1>5. CASE BeginFast
  <2>1. Begin("fast", store.dirty, Grown(disk.vecs))
    BY <1>5 DEF BeginFast
  <2> QED
    BY <1>1, <1>3, <2>1, BeginKeeps
<1>6. CASE BeginIncremental
  <2> DEFINE vecs == IF store.slots = << >> THEN << >> ELSE Grown(disk.vecs)
  <2>1. Begin("incremental", store.dirty, vecs)
    BY <1>6 DEF BeginIncremental
  <2>2. vecs \in Seq(Val \cup {Zero}) /\ Len(store.slots) <= Len(vecs)
    BY <1>2, <1>3
  <2>3. store.slots = << >> \/ DOMAIN disk.vecs \subseteq DOMAIN vecs
    BY <1>3
  <2> HIDE DEF vecs
  <2> QED
    BY <1>1, <2>1, <2>2, <2>3, BeginKeeps
<1> QED
  BY <1>4, <1>5, <1>6

\* Sequences over the same slots have the same length.
LEMMA SameLength ==
  ASSUME NEW S, NEW T, NEW old \in Seq(S), NEW new \in Seq(T), DOMAIN new = DOMAIN old
  PROVE  Len(new) = Len(old)
<1>1. PICK a \in Nat, b \in Nat : a = Len(old) /\ b = Len(new)
  BY LenProperties
<1>2. 1..a = 1..b
  BY <1>1, LenProperties
<1>3. a = b
  <2>1. a >= 1 => a \in 1..b
    BY <1>2
  <2>2. b >= 1 => b \in 1..a
    BY <1>2
  <2> QED
    BY <2>1, <2>2
<1> QED
  BY <1>1, <1>3

LEMMA WriteSlotKeeps ==
  ASSUME TInv, TInv', CInv, WriteSlot
  PROVE  CInv'
<1>1. disk \in Disk /\ disk' \in Disk /\ job' \in [kind : {"none", "fast", "full", "incremental"},
                                                 taken : SUBSET Slot, todo : SUBSET Slot]
      /\ NamesHome(disk) /\ (~Emptied => FilesFit(disk)) /\ MappingFits
      /\ Consistent(store) /\ Homes(store.idToSlot)
  BY DEF CInv, TInv, TypeOK
<1>2. /\ store' = store /\ vecOpen' = vecOpen /\ step' = step
      /\ \E s, v : disk' = [disk EXCEPT !.vecs[s] = v]
      /\ \E s : job' = [job EXCEPT !.todo = @ \ {s}]
  BY DEF WriteSlot
<1>3. /\ DOMAIN disk'.vecs = DOMAIN disk.vecs /\ disk'.manifest = disk.manifest
      /\ disk'.vecFile = disk.vecFile /\ disk'.slim = disk.slim
      /\ disk'.slimNewer = disk.slimNewer
  BY <1>1, <1>2 DEF Disk
<1>4. job'.kind = job.kind
  BY <1>2 DEF TInv, TypeOK
<1>5. Emptied' <=> Emptied
  BY <1>2, <1>3, <1>4 DEF Emptied
<1>6. NamesHome(disk') /\ (FilesFit(disk) => FilesFit(disk'))
  <2>1. PICK d \in Disk, e \in Disk : d = disk /\ e = disk'
    BY <1>1
  <2>2. /\ DOMAIN d.vecs \subseteq DOMAIN e.vecs /\ e.manifest = d.manifest
        /\ e.vecFile = d.vecFile /\ e.slim = d.slim /\ e.slimNewer = d.slimNewer
        /\ NamesHome(d)
    BY <1>1, <1>3, <2>1
  <2>3. NamesHome(e) /\ (FilesFit(d) => FilesFit(e))
    BY <2>2, SameFit
  <2> QED
    BY <2>1, <2>3
<1>7. Len(disk'.vecs) = Len(disk.vecs)
  <2>1. disk.vecs \in Seq(Val \cup {Zero}) /\ disk'.vecs \in Seq(Val \cup {Zero})
    BY <1>1 DEF Disk
  <2>2. PICK old \in Seq(Val \cup {Zero}), new \in Seq(Val \cup {Zero}) :
            old = disk.vecs /\ new = disk'.vecs
    BY <2>1
  <2>3. Len(new) = Len(old)
    BY <1>3, <2>2, SameLength
  <2> QED
    BY <2>2, <2>3
<1>8. MappingFits'
  BY <1>1, <1>2, <1>7 DEF MappingFits
<1> QED
  BY <1>1, <1>2, <1>5, <1>6, <1>8 DEF CInv

\* A new snapshot is of a store that .vecs has a slot for each slot of.
LEMMA PublishKeeps ==
  ASSUME TInv, TInv', CInv, ~Unbacked, PublishSlim \/ PublishManifest
  PROVE  CInv'
<1>1. /\ store \in Store /\ disk \in Disk /\ Consistent(store)
      /\ Homes(store.idToSlot) /\ NamesHome(disk) /\ MappingFits /\ epoch \in Nat
      /\ vecOpen \in BOOLEAN
  BY StateTypes DEF CInv
<1>2. step = "write" /\ step' = "truncate" /\ store' = store /\ vecOpen' = vecOpen
  BY DEF PublishSlim, PublishManifest
<1> DEFINE snap == SnapshotOf(store, epoch)
<1>3. /\ Mapped(snap) \subseteq DOMAIN store.slots
      /\ snap.deleted \subseteq DOMAIN store.slots
      /\ DOMAIN store.slots = 1..Len(store.slots) /\ Len(store.slots) \in Nat
      /\ store.slots = << >> <=> Len(store.slots) = 0
  BY <1>1, MappedInStore
<1>4. snap.ids = store.idToSlot /\ Homes(snap.ids) /\ snap # None
  <2>1. snap \in Snapshot /\ snap.ids = store.idToSlot
    BY <1>1, SnapshotType
  <2> QED
    BY <1>1, <2>1, NoneAssumption
<1>5. /\ DOMAIN disk.vecs = 1..Len(disk.vecs) /\ Len(disk.vecs) \in Nat
      /\ disk.vecs # << >> <=> Len(disk.vecs) # 0
  <2>1. disk.vecs \in Seq(Val \cup {Zero})
    BY <1>1 DEF Disk
  <2> QED
    BY <2>1, EmptySeq
<1> HIDE DEF snap
<1>6. Covers(disk.vecs, snap) /\ (vecOpen => disk.vecs # << >>)
      /\ (~vecOpen => Mapped(snap) = {} /\ snap.deleted = {})
  BY <1>1, <1>2, <1>3, <1>5 DEF MappingFits, Covers
<1>7. NamesHome(disk') /\ FilesFit(disk')
  <2>1. CASE PublishSlim
    <3>1. disk' = [disk EXCEPT !.slim = snap, !.slimNewer = TRUE] /\ disk.vecFile
      BY <2>1 DEF PublishSlim, Unbacked, snap
    <3>2. /\ disk'.slim = snap /\ disk'.vecs = disk.vecs /\ disk'.manifest = disk.manifest
          /\ disk'.vecFile = disk.vecFile
      BY <1>1, <3>1 DEF Disk
    <3>3. FilesFit(disk)
      BY <2>1, StateTypes DEF Emptied, PublishSlim
    <3> QED
      BY <1>1, <1>4, <1>6, <3>1, <3>2, <3>3 DEF FilesFit, NamesHome
  <2>2. CASE PublishManifest
    <3>1. disk' = [disk EXCEPT !.manifest = snap, !.maxTs = MaxTimestamp(disk, nextTs),
                               !.vecFile = vecOpen, !.slimNewer = FALSE]
      BY <2>2 DEF PublishManifest, snap
    <3>2. /\ disk'.slim = disk.slim /\ disk'.vecs = disk.vecs /\ disk'.manifest = snap
          /\ disk'.vecFile = vecOpen /\ disk'.slimNewer = FALSE
      BY <1>1, <3>1 DEF Disk
    <3> QED
      BY <1>1, <1>4, <1>6, <3>2 DEF FilesFit, NamesHome, UsesSlim
  <2> QED
    BY <2>1, <2>2
<1>8. MappingFits'
  BY <1>2 DEF MappingFits
<1> QED
  BY <1>1, <1>2, <1>7, <1>8 DEF CInv

\* What recovery needs to know of the files.
LEMMA FilesToRecover ==
  ASSUME TInv
  PROVE  \E n \in 0..SlotLimit : n = Bound /\ Len(disk.vecs) <= n /\ InRange(Chosen(disk).ids, n)
<1>1. Bound \in 0..SlotLimit
  BY BudgetType
<1>2. Len(disk.vecs) <= Bound /\ InRange(Chosen(disk).ids, Bound)
  BY DEF TInv, Sized, Chosen, UsesSlim
<1> QED
  BY <1>1, <1>2

LEMMA RestartKeeps ==
  ASSUME TInv, TInv', CInv, ~Emptied, Restart
  PROVE  CInv'
<1>1. disk \in Disk /\ FilesFit(disk) /\ NamesHome(disk)
  BY StateTypes DEF CInv
<1>2. step' = "idle" /\ disk' = disk /\ store' = Recovered(disk)
  BY DEF Restart
<1>3. PICK d \in Disk, n \in 0..SlotLimit :
         d = disk /\ Len(d.vecs) <= n /\ InRange(Chosen(d).ids, n)
  BY <1>1, FilesToRecover
<1>4. Sound(Recovered(d))
  BY <1>1, <1>3, RecoveredSound
<1> QED
  BY <1>1, <1>2, <1>3, <1>4 DEF CInv, Sound, MappingFits

LEMMA InitConsistent == Init => CInv
<1> SUFFICES ASSUME Init PROVE CInv
  OBVIOUS
<1>1. disk = EmptyDisk /\ store = EmptyStore /\ vecOpen = FALSE /\ step = "idle"
  BY DEF Init
<1>2. LiveSlots(EmptyStore) = {} /\ EmptyStore.liveCount = 0
  BY DEF LiveSlots, EmptyStore
<1>3. Cardinality({}) = 0
  BY FS_EmptySet
<1>4. Consistent(EmptyStore)
  BY <1>2, <1>3, EmptyType
     DEF Consistent, IdMapSound, LiveSlotsMapped, LiveCountExact, DeletedInRange
<1>5. Homes([i \in Name |-> NoSlot])
  BY DEF Homes, Name
<1>6. /\ EmptyDisk.vecFile = FALSE /\ Mapped(EmptyDisk.manifest) = {}
      /\ EmptyDisk.manifest.deleted = {} /\ ~UsesSlim(EmptyDisk)
  <2>1. EmptyDisk.manifest.ids = [i \in Name |-> NoSlot] /\ EmptyDisk.slim = None
        /\ EmptyDisk.manifest = SnapshotOf(EmptyStore, None) /\ EmptyStore.deleted = {}
    BY EmptyType
  <2>2. Mapped(EmptyDisk.manifest) = {}
    BY <2>1 DEF Mapped
  <2> QED
    BY <2>1, <2>2 DEF EmptyDisk, SnapshotOf, UsesSlim
<1>7. NamesHome(EmptyDisk) /\ FilesFit(EmptyDisk)
  BY <1>5, <1>6, EmptyType DEF FilesFit, NamesHome
<1> QED
  BY <1>1, <1>4, <1>5, <1>7, EmptyType DEF CInv, MappingFits

LEMMA NextConsistent ==
  TInv /\ CInv /\ [Next]_vars /\ [~Disputed]_vars /\ TInv' => CInv'
<1> SUFFICES ASSUME TInv, CInv, [Next]_vars, [~Disputed]_vars, TInv' PROVE CInv'
  OBVIOUS
<1>1. CASE UNCHANGED vars
  BY <1>1 DEF vars, CInv, MappingFits, Emptied
<1>2. CASE Next /\ ~Disputed
  <2>1. CASE \E k \in Key, v \in Val : Set(k, v) \/ SetBatch(k, v) \/ Update(k, v)
    BY <2>1, CallsKeep
  <2>2. CASE \E k \in Key : Delete(k)
    BY <2>2, CallsKeep
  <2>3. CASE DeleteNone \/ Compact \/ Flush \/ NothingDirty
    BY <1>2, <2>3, OthersKeep DEF Disputed
  <2>4. CASE BeginFull \/ BeginFast \/ BeginIncremental
    BY <2>4, BeginsKeep
  <2>5. CASE FailToStat \/ FailToGrow \/ FailToPublish \/ FailToStamp
    BY <1>2, <2>5, FailuresKeep DEF Disputed
  <2>6. CASE WriteSlot
    BY <2>6, WriteSlotKeeps
  <2>7. CASE PublishSlim \/ PublishManifest
    BY <1>2, <2>7, PublishKeeps DEF Disputed
  <2>8. CASE EmptyWal \/ StampEpoch
    BY <2>8, TruncateKeeps
  <2>9. CASE Restart
    BY <1>2, <2>9, RestartKeeps DEF Disputed
  <2> QED
    BY <1>2, <2>1, <2>2, <2>3, <2>4, <2>5, <2>6, <2>7, <2>8, <2>9 DEF Next
<1> QED
  BY <1>1, <1>2

\* A store recovered from its files, after any writes, compactions, checkpoints,
\* errors and restarts, has a consistent id map, tombstones and live count, unless a
\* step was Disputed: a fast checkpoint over a manifest that declares no .vecs, a
\* compaction of a store with a phantom, or a stop or an error while the .vecs that the
\* manifest declares is emptied.
THEOREM RecoveredStaysConsistent ==
  Spec /\ [][~Disputed]_vars => []RecoveredConsistent
<1>1. CInv => RecoveredConsistent
  BY DEF CInv, RecoveredConsistent
<1> QED
  BY <1>1, InitType, NextType, InitConsistent, NextConsistent, PTL DEF Spec

-----------------------------------------------------------------------------
(* No phantoms.  Between checkpoints every slot of .vecs is claimed by the *)
(* snapshot that recovery will choose, as a record's or as a tombstone.    *)

\* .vecs has slots that the snapshot which recovery will choose knows nothing of.
Strays(d) == /\ d.vecFile
             /\ ~(DOMAIN d.vecs \subseteq Mapped(Chosen(d)) \cup Chosen(d).deleted)

\* A compaction of a store over a .vecs that it leaves with more slots than the store.
Shortens == Renumbers /\ vecOpen /\ Len(Compacted(store).slots) < Len(disk.vecs)

\* A step that disputes the records other than by a phantom.
Unsettled == Unbacked \/ (Emptied /\ (Restart \/ FailToPublish))

Straying == \/ Shortens
            \/ (step = "write" /\ Strays(disk) /\ (Restart \/ FailToPublish))

KeysOnly(ids) == \A p \in PhantomName : ids[p] = NoSlot

Claimed(st) ==
  \A s \in DOMAIN st.slots \ st.deleted : st.slots[s] # None /\ st.slots[s].id \in Key

PInv == /\ Claimed(store)
        /\ KeysOnly(disk.manifest.ids)
        /\ disk.slim # None => KeysOnly(disk.slim.ids)
        /\ step # "write" => ~Strays(disk)
        /\ vecOpen \/ (step = "write" /\ job.kind = "fast") =>
             Len(disk.vecs) <= Len(store.slots)

\* What a snapshot of such a store says: nothing is mapped to the names that recovery
\* gives, and every slot is a record's or a tombstone.
LEMMA ClaimedSnapshot ==
  ASSUME NEW st \in Store, Consistent(st), Claimed(st), NEW n \in Nat \cup {None}
  PROVE  /\ KeysOnly(SnapshotOf(st, n).ids)
         /\ DOMAIN st.slots \subseteq Mapped(SnapshotOf(st, n)) \cup SnapshotOf(st, n).deleted
         /\ \A s \in LiveSlots(st) : st.slots[s].id \in Key
<1> DEFINE snap == SnapshotOf(st, n)
<1>1. snap.ids = st.idToSlot /\ snap.deleted = st.deleted
  BY SnapshotType DEF SnapshotOf
<1>2. \A s \in LiveSlots(st) : s \in DOMAIN st.slots /\ s \notin st.deleted /\ s # NoSlot
  BY LiveSlotsType
<1>3. \A s \in LiveSlots(st) : st.slots[s].id \in Key
  BY <1>2 DEF Claimed
<1>4. \A i \in Name : st.idToSlot[i] # NoSlot =>
        st.idToSlot[i] \in LiveSlots(st) /\ st.slots[st.idToSlot[i]].id = i
  BY DEF Consistent, IdMapSound
<1>5. KeysOnly(st.idToSlot)
  BY <1>3, <1>4, KeyAssumption DEF KeysOnly, Name
<1>6. \A s \in DOMAIN st.slots \ st.deleted : s \in LiveSlots(st)
  BY DEF Claimed, LiveSlots
<1>7. \A s \in LiveSlots(st) : st.slots[s].id \in Name /\ st.idToSlot[st.slots[s].id] = s
  BY <1>3 DEF Consistent, LiveSlotsMapped, Name
<1> HIDE DEF snap
<1>8. \A s \in LiveSlots(st) : s \in Mapped(snap)
  BY <1>1, <1>2, <1>7 DEF Mapped
<1>9. KeysOnly(snap.ids) /\ DOMAIN st.slots \subseteq Mapped(snap) \cup snap.deleted
  BY <1>1, <1>5, <1>6, <1>8
<1> QED
  BY <1>3, <1>9 DEF snap

\* A store that grows, as the calls and the replay make it grow.
Grows(st, new) == Claimed(new) /\ Len(st.slots) <= Len(new.slots)

LEMMA UpsertClaims ==
  ASSUME NEW st \in Store, Consistent(st), Claimed(st), NEW rec \in Record, rec.id \in Key
  PROVE  Grows(st, Upserted(st, rec))
<1> DEFINE new == Upserted(st, rec)
           n == Len(st.slots) + 1
           old == st.idToSlot[rec.id]
<1>1. /\ new.deleted = IF old = NoSlot THEN st.deleted ELSE st.deleted \cup {old}
      /\ \A s \in DOMAIN st.slots : new.slots[s] = st.slots[s]
      /\ new.slots[n] = rec
  <2>1. Facts!Moved(st, rec, new, old, n)
    BY UpsertEffect
  <2> HIDE DEF new, n, old
  <2> QED
    BY <2>1, SameReaders DEF Facts!Moved
<1>2. new \in Store /\ Len(new.slots) = n
  BY UpsertKeeps, WritesPush
<1>3. DOMAIN new.slots = 1..n /\ DOMAIN st.slots = 1..Len(st.slots) /\ Len(st.slots) \in Nat
  BY <1>2, LiveSlotsType
<1>4. DOMAIN new.slots = DOMAIN st.slots \cup {n} /\ Len(st.slots) <= n
  BY <1>3
<1>5. rec # None
  BY NoneAssumption
<1> HIDE DEF new, n, old
<1>6. Grows(st, new)
  BY <1>1, <1>2, <1>4, <1>5 DEF Grows, Claimed
<1> QED
  BY <1>6 DEF new

LEMMA RemoveClaims ==
  ASSUME NEW st \in Store, Consistent(st), Claimed(st), NEW k \in Name, Deletable(st, k)
  PROVE  Grows(st, Removed(st, k))
<1> DEFINE new == Removed(st, k)
           old == st.idToSlot[k]
<1>1. new.slots = st.slots /\ new.deleted = st.deleted \cup {old}
  <2>1. Facts!Gone(st, k, new, old)
    BY RemoveEffect
  <2> HIDE DEF new, old
  <2> QED
    BY <2>1 DEF Facts!Gone
<1>2. Len(st.slots) \in Nat
  BY LiveSlotsType
<1> HIDE DEF new, old
<1>3. Grows(st, new)
  BY <1>1, <1>2 DEF Grows, Claimed
<1> QED
  BY <1>3 DEF new

LEMMA MetaClaims ==
  ASSUME NEW st \in Store, Claimed(st), NEW s \in LiveSlots(st), NEW m \in Val
  PROVE  Grows(st, WithMeta(st, s, m))
<1> DEFINE new == WithMeta(st, s, m)
<1>1. /\ new.slots = [st.slots EXCEPT ![s] = [@ EXCEPT !.meta = m]]
      /\ new.deleted = st.deleted /\ DOMAIN new.slots = DOMAIN st.slots /\ new \in Store
  <2>1. MetaWritten(st, s, m, new)
    BY WithMetaKeeps
  <2> QED
    BY <2>1 DEF MetaWritten
<1>2. s \in DOMAIN st.slots /\ st.slots[s] \in Record
  BY LiveSlotsType
<1>3. new.slots[s] \in Record \cup {None} /\ new.slots[s].id = st.slots[s].id
      /\ new.slots[s] # None
  <2>1. new.slots[s] = [st.slots[s] EXCEPT !.meta = m]
    BY <1>1, <1>2
  <2>2. m \in Val \cup {None}
    OBVIOUS
  <2>3. [st.slots[s] EXCEPT !.meta = m] \in Record
        /\ [st.slots[s] EXCEPT !.meta = m].id = st.slots[s].id
    BY <1>2, <2>2 DEF Record
  <2> QED
    BY <2>1, <2>3, NoneAssumption
<1>4. Len(new.slots) = Len(st.slots) /\ Len(st.slots) \in Nat
  <2>1. st.slots \in Seq(Record \cup {None}) /\ new.slots \in Seq(Record \cup {None})
        /\ Len(st.slots) \in Nat
    BY <1>1, LiveSlotsType
  <2> QED
    BY <1>1, <2>1, SameLength
<1>5. \A t \in DOMAIN st.slots : t # s => new.slots[t] = st.slots[t]
  BY <1>1
<1>6. st.slots[s].id \in Key
  BY <1>2, LiveSlotsType DEF Claimed
<1> HIDE DEF new
<1>7. Grows(st, new)
  BY <1>1, <1>3, <1>4, <1>5, <1>6 DEF Grows, Claimed
<1> QED
  BY <1>7 DEF new

LEMMA CompactClaims ==
  ASSUME NEW st \in Store, Consistent(st), Claimed(st)
  PROVE  Claimed(Compacted(st))
<1> DEFINE new == Compacted(st)
           L == LiveSlots(st)
<1>1. new.slots = PackedSlots(st)
  BY SameReaders, SameCompaction, NoneApart, Facts!CompactedEffect
<1>2. \A n \in DOMAIN PackedSlots(st) :
        Facts!Unranked(L, n) \in L /\ PackedSlots(st)[n] = st.slots[Facts!Unranked(L, n)]
  BY SameReaders, SameCompaction, NoneApart, Facts!PackedSlotsLive
<1>3. \A s \in L : st.slots[s] # None /\ st.slots[s].id \in Key
  BY DEF Claimed, LiveSlots
<1> HIDE DEF new, L
<1>4. Claimed(new)
  BY <1>1, <1>2, <1>3 DEF Claimed
<1> QED
  BY <1>4 DEF new

LEMMA ReplayedClaims ==
  ASSUME NEW st \in Store, Consistent(st), Claimed(st), NEW e \in Entry
  PROVE  Grows(st, Replayed(st, e))
<1>1. /\ e.op \in {"upsert", "delete"} /\ e.id \in Key /\ e.id \in Name
      /\ e.op = "upsert" => RecordIn(e) \in Record
      /\ RecordIn(e).id = e.id
  BY EntryType DEF RecordIn
<1>2. CASE e.op = "upsert"
  <2>1. Replayed(st, e) = Upserted(st, RecordIn(e))
    BY <1>2 DEF Replayed, RecordIn
  <2> QED
    BY <1>1, <1>2, <2>1, UpsertClaims
<1>3. CASE e.op # "upsert" /\ Deletable(st, e.id)
  <2>1. Replayed(st, e) = Removed(st, e.id)
    BY <1>3 DEF Replayed
  <2> QED
    BY <1>1, <1>3, <2>1, RemoveClaims
<1>4. CASE e.op # "upsert" /\ ~Deletable(st, e.id)
  <2>1. Replayed(st, e) = st
    BY <1>4 DEF Replayed
  <2>2. Len(st.slots) \in Nat
    BY LiveSlotsType
  <2> QED
    BY <2>1, <2>2 DEF Grows
<1> QED
  BY <1>2, <1>3, <1>4

\* Files without strays are recovered without phantoms.
LEMMA InitialClaims ==
  ASSUME NEW d \in Disk, NEW n \in 0..SlotLimit, Len(d.vecs) <= n, InRange(Chosen(d).ids, n),
         FilesFit(d), ~Strays(d), KeysOnly(Chosen(d).ids)
  PROVE  Claimed(InitialRecords(d)) /\ (d.vecFile => Len(d.vecs) <= Len(InitialRecords(d).slots))
<1> DEFINE first == InitialRecords(d)
<1>1. /\ first \in Store /\ first.slots = InitialSlots(d) /\ Len(first.slots) = LastSlot(d)
      /\ first.deleted = Chosen(d).deleted
  BY InitialType
<1>2. DOMAIN first.slots = 1..LastSlot(d) /\ LastSlot(d) \in Nat
  BY <1>1, LiveSlotsType
<1>3. n \in Nat /\ Len(d.vecs) \in Nat /\ DOMAIN d.vecs = 1..Len(d.vecs) /\ Len(d.vecs) <= SlotLimit
  BY SlotLimitAssumption DEF Disk
<1>4. /\ d.vecFile => DOMAIN d.vecs \subseteq 1..LastSlot(d)
      /\ LastSlot(d) \in {0} \cup Mapped(Chosen(d)) \cup (IF d.vecFile THEN DOMAIN d.vecs ELSE {})
  BY <1>3, LastSlotType
<1>5. /\ d.vecFile => Mapped(Chosen(d)) \subseteq DOMAIN d.vecs
      /\ ~d.vecFile => Mapped(Chosen(d)) = {}
  BY ChosenFits
<1>6. 1..LastSlot(d) \subseteq Mapped(Chosen(d)) \cup Chosen(d).deleted
  <2>1. CASE d.vecFile
    <3>1. LastSlot(d) = 0 \/ LastSlot(d) \in 1..Len(d.vecs)
      BY <1>3, <1>4, <1>5, <2>1
    <3>2. 1..LastSlot(d) \subseteq 1..Len(d.vecs)
      BY <1>2, <1>3, <3>1
    <3> QED
      BY <1>3, <2>1, <3>2 DEF Strays
  <2>2. CASE ~d.vecFile
    <3>1. LastSlot(d) = 0
      BY <1>4, <1>5, <2>2
    <3> QED
      BY <3>1
  <2> QED
    BY <2>1, <2>2
<1>7. \A s \in 1..LastSlot(d) : first.slots[s] = InitialSlot(d, s) /\ s \in Slot
  BY <1>1, <1>2 DEF InitialSlots, Slot, NoSlot
<1>8. \A s \in DOMAIN first.slots \ first.deleted :
        first.slots[s] # None /\ first.slots[s].id \in Key
  <2> SUFFICES ASSUME NEW s \in DOMAIN first.slots \ first.deleted
               PROVE  first.slots[s] # None /\ first.slots[s].id \in Key
    OBVIOUS
  <2>1. s \in Mapped(Chosen(d)) /\ s \notin Chosen(d).deleted /\ s \in Slot
        /\ first.slots[s] = InitialSlot(d, s)
    BY <1>1, <1>2, <1>6, <1>7
  <2> DEFINE i == CHOOSE i \in Name : Chosen(d).ids[i] = s
  <2>2. i \in Name /\ Chosen(d).ids[i] = s /\ s # NoSlot
    BY <2>1 DEF Mapped
  <2>3. first.slots[s] = InitialRecord(d, i, s)
    BY <2>1 DEF InitialSlot
  <2> HIDE DEF i, first
  <2>4. i \in Key
    BY <2>2 DEF KeysOnly, Name
  <2>5. InitialRecord(d, i, s) \in Record /\ InitialRecord(d, i, s).id = i
    BY <1>3, <2>1, <2>2, InitialSlotType DEF InitialRecord
  <2> QED
    BY <2>3, <2>4, <2>5, NoneAssumption
<1>9. d.vecFile => Len(d.vecs) <= LastSlot(d)
  <2>1. PICK a \in Nat, b \in Nat : a = Len(d.vecs) /\ b = LastSlot(d)
    BY <1>2, <1>3
  <2>2. d.vecFile => 1..a \subseteq 1..b
    BY <1>3, <1>4, <2>1
  <2>3. d.vecFile => a <= b
    <3>1. a >= 1 => a \in 1..a
      OBVIOUS
    <3> QED
      BY <2>2, <3>1
  <2> QED
    BY <2>1, <2>3
<1> QED
  BY <1>1, <1>8, <1>9 DEF Claimed

CoversFile(d, st) == Claimed(st) /\ (d.vecFile => Len(d.vecs) <= Len(st.slots))

LEMMA RecoveredClaims ==
  ASSUME NEW d \in Disk, NEW n \in 0..SlotLimit, Len(d.vecs) <= n, InRange(Chosen(d).ids, n),
         FilesFit(d), ~Strays(d), KeysOnly(Chosen(d).ids)
  PROVE  CoversFile(d, Recovered(d))
<1> DEFINE P == {x \in Nat \X Store : Sound(x[2]) /\ CoversFile(d, x[2])}
<1>1. <<0, InitialRecords(d)>> \in P
  BY InitialConsistent, InitialClaims DEF Sound, CoversFile
<1>2. \A m \in 1..Len(d.wal), x \in Store :
           <<m - 1, x>> \in P => <<m, ReplayedUnlessCovered(d, x, d.wal[m])>> \in P
  <2> SUFFICES ASSUME NEW m \in 1..Len(d.wal), NEW x \in Store, Sound(x), CoversFile(d, x)
               PROVE  /\ m \in Nat /\ ReplayedUnlessCovered(d, x, d.wal[m]) \in Store
                      /\ Sound(ReplayedUnlessCovered(d, x, d.wal[m]))
                      /\ CoversFile(d, ReplayedUnlessCovered(d, x, d.wal[m]))
    BY Zenon
  <2>1. Len(d.wal) \in Nat /\ m \in Nat
    BY LenProperties DEF Disk
  <2>2. d.wal[m].entry \in Entry /\ ReplayedUnlessCovered(d, x, d.wal[m]) \in Store
    BY ReplayedUnlessCoveredType
  <2>3. Sound(Replayed(x, d.wal[m].entry)) /\ Grows(x, Replayed(x, d.wal[m].entry))
    BY <2>2, ReplayedSound, ReplayedClaims DEF Sound, CoversFile
  <2>4. Sound(ReplayedUnlessCovered(d, x, d.wal[m]))
    BY <2>3 DEF ReplayedUnlessCovered
  <2>5. CoversFile(d, Replayed(x, d.wal[m].entry))
    <3>1. PICK st \in Store : st = Replayed(x, d.wal[m].entry)
      BY <2>3 DEF Sound
    <3>2. Grows(x, st)
      BY <2>3, <3>1
    <3>3. Len(d.vecs) \in Nat /\ Len(x.slots) \in Nat /\ Len(st.slots) \in Nat
      BY LiveSlotsType DEF Disk
    <3>4. CoversFile(d, st)
      BY <3>2, <3>3 DEF CoversFile, Grows
    <3> QED
      BY <3>1, <3>4
  <2>6. CoversFile(d, ReplayedUnlessCovered(d, x, d.wal[m]))
    BY <2>5 DEF ReplayedUnlessCovered
  <2> QED
    BY <2>1, <2>2, <2>4, <2>6
<1>3. <<Len(d.wal), Recovered(d)>> \in P
  <2>1. P \in SUBSET (Nat \X Store)
    OBVIOUS
  <2> HIDE DEF P
  <2> QED
    BY <1>1, <1>2, <2>1, RecoveredInduction
<1> QED
  BY <1>3
-----------------------------------------------------------------------------
(* Each step keeps .vecs claimed.                                          *)

\* A call, or a step of a checkpoint that writes neither .vecs nor a snapshot.
LEMMA QuietClaims ==
  ASSUME TInv, CInv, PInv, ~Strays(disk), step' # "write", Claimed(store'),
         disk'.vecs = disk.vecs, disk'.manifest = disk.manifest, disk'.vecFile = disk.vecFile,
         disk'.slim = disk.slim, disk'.slimNewer = disk.slimNewer,
         vecOpen' => Len(disk.vecs) <= Len(store'.slots)
  PROVE  PInv'
<1>1. UsesSlim(disk') <=> UsesSlim(disk)
  BY DEF UsesSlim
<1>2. Chosen(disk') = Chosen(disk)
  BY <1>1 DEF Chosen
<1>3. ~Strays(disk')
  BY <1>2 DEF Strays
<1> QED
  BY <1>3 DEF PInv

\* The store grew, or a compaction did not shorten it below .vecs.
LEMMA GrowsOver ==
  ASSUME NEW st \in Store, NEW new \in Store, Grows(st, new), NEW n \in Nat,
         n <= Len(st.slots)
  PROVE  n <= Len(new.slots)
<1>1. Len(st.slots) \in Nat /\ Len(new.slots) \in Nat
  BY LiveSlotsType
<1> QED
  BY <1>1 DEF Grows

LEMMA WritesClaim ==
  ASSUME TInv, CInv, PInv, NEW k \in Key,
         Delete(k) \/ \E v \in Val : Set(k, v) \/ SetBatch(k, v) \/ Update(k, v)
  PROVE  Grows(store, store')
<1>1. store \in Store /\ disk \in Disk /\ Consistent(store) /\ Claimed(store)
  BY StateTypes DEF PInv
<1>2. ASSUME NEW v \in Val
      PROVE  Grows(store, WithVector(store, k, v, v))
  <2> DEFINE rec == [id |-> k, vec |-> v, aux |-> None, meta |-> v]
  <2>1. rec \in Record /\ rec.id \in Key
    BY <1>1, NewRecordType
  <2>2. WithVector(store, k, v, v) = Upserted(store, rec)
    BY <1>1, SetFollows
  <2> HIDE DEF rec
  <2> QED
    BY <1>1, <2>1, <2>2, UpsertClaims
<1>3. ASSUME NEW v \in Val, Set(k, v)
      PROVE  Grows(store, store')
  BY <1>2, <1>3 DEF Set, LoggedWrite
<1>4. ASSUME NEW v \in Val, SetBatch(k, v)
      PROVE  Grows(store, store')
  BY <1>2, <1>4 DEF SetBatch, UnloggedWrite
<1>5. ASSUME NEW v \in Val, Update(k, v)
      PROVE  Grows(store, store')
  <2>1. Found(store, k) /\ store' = WithMeta(store, store.idToSlot[k], v)
    BY <1>5 DEF Update, LoggedWrite, UnloggedWrite
  <2>2. PICK s \in LiveSlots(store) : s = store.idToSlot[k]
    BY <2>1, FoundSlot
  <2>3. Grows(store, WithMeta(store, s, v))
    BY <1>1, MetaClaims
  <2> QED
    BY <2>1, <2>2, <2>3
<1>6. ASSUME Delete(k)
      PROVE  Grows(store, store')
  <2>1. Deletable(store, k) /\ store' = Removed(store, k)
    BY <1>6 DEF Delete, LoggedWrite
  <2> QED
    BY <1>1, <2>1, KeyNoPhantom, RemoveClaims
<1> QED
  BY <1>3, <1>4, <1>5, <1>6

LEMMA CallsClaim ==
  ASSUME TInv, TInv', CInv, PInv, NEW k \in Key,
         Delete(k) \/ \E v \in Val : Set(k, v) \/ SetBatch(k, v) \/ Update(k, v)
  PROVE  PInv'
<1>1. Grows(store, store')
  BY WritesClaim
<1>2. /\ step = "idle" /\ step' \in {"idle", "due"} /\ vecOpen' = vecOpen
      /\ disk'.vecs = disk.vecs /\ disk'.manifest = disk.manifest
      /\ disk'.vecFile = disk.vecFile
      /\ disk'.slim = disk.slim /\ disk'.slimNewer = disk.slimNewer
  BY WritesQuiet
<1>3. vecOpen' => Len(disk.vecs) <= Len(store'.slots)
  <2>1. store \in Store /\ store' \in Store /\ Len(disk.vecs) \in Nat
    BY DEF TInv, TypeOK, Disk
  <2>2. PICK st \in Store, new \in Store : st = store /\ new = store'
    BY <2>1
  <2>3. PICK n \in Nat : n = Len(disk.vecs)
    BY <2>1
  <2>4. Grows(st, new) /\ (vecOpen' => n <= Len(st.slots))
    BY <1>1, <1>2, <2>2, <2>3 DEF PInv
  <2>5. vecOpen' => n <= Len(new.slots)
    BY <2>4, GrowsOver
  <2> QED
    BY <2>2, <2>3, <2>5
<1>4. ~Strays(disk) /\ Claimed(store')
  BY <1>1, <1>2 DEF PInv, Grows
<1> QED
  BY <1>2, <1>3, <1>4, QuietClaims

LEMMA OthersClaim ==
  ASSUME TInv, TInv', CInv, PInv, ~Shortens,
         DeleteNone \/ Compact \/ Flush \/ NothingDirty
  PROVE  PInv'
<1>1. disk' = disk /\ step \in {"idle", "due"} /\ step' \in {"due", "flush", "idle"}
      /\ vecOpen' = vecOpen
  BY DEF DeleteNone, Compact, Flush, NothingDirty, Called
<1>2. \/ store' = store
      \/ store' = Compacted(store) /\ Renumbers
  BY DEF DeleteNone, Compact, Flush, NothingDirty, Renumbers
<1>3. store \in Store /\ Consistent(store) /\ Claimed(store) /\ Len(disk.vecs) \in Nat
  BY StateTypes DEF PInv, Disk
<1>4. Claimed(store')
  BY <1>2, <1>3, CompactClaims
<1>5. vecOpen' => Len(disk.vecs) <= Len(store'.slots)
  <2>1. CASE store' = store
    BY <1>1, <2>1 DEF PInv
  <2>2. CASE store' = Compacted(store) /\ Renumbers
    <3>1. vecOpen => ~(Len(Compacted(store).slots) < Len(disk.vecs))
      BY <2>2 DEF Shortens
    <3>2. Len(store'.slots) \in Nat
      BY LiveSlotsType DEF TInv, TypeOK, Store
    <3> QED
      BY <1>1, <1>3, <2>2, <3>1, <3>2
  <2> QED
    BY <1>2, <2>1, <2>2
<1>6. ~Strays(disk)
  BY <1>1 DEF PInv
<1> QED
  BY <1>1, <1>4, <1>5, <1>6, QuietClaims

LEMMA FailuresClaim ==
  ASSUME TInv, TInv', CInv, PInv, ~(step = "write" /\ Strays(disk) /\ FailToPublish),
         FailToStat \/ FailToGrow \/ FailToPublish \/ FailToStamp
  PROVE  PInv'
<1>1. /\ store \in Store /\ disk \in Disk
      /\ store.dirty \in SUBSET Slot /\ job.taken \in SUBSET Slot
  BY StateTypes DEF Store
<1>2. store'.slots = store.slots /\ store'.deleted = store.deleted
  <2>1. CASE FailToStat \/ FailToGrow
    <3>1. store' = DirtyRestored(DirtyTaken(store), store.dirty)
      BY <2>1 DEF FailToStat, FailToGrow, FailToStart
    <3>2. /\ DirtyTaken(store) \in Store
          /\ DirtyTaken(store).slots = store.slots /\ DirtyTaken(store).deleted = store.deleted
      BY <1>1, DirtyType
    <3> QED
      BY <1>1, <3>1, <3>2, DirtyType
  <2>2. CASE FailToPublish \/ FailToStamp
    <3>1. store' = DirtyRestored(store, job.taken)
      BY <2>2 DEF FailToPublish, FailToStamp
    <3> QED
      BY <1>1, <3>1, DirtyType
  <2> QED
    BY <2>1, <2>2
<1>3. Claimed(store')
  BY <1>2 DEF PInv, Claimed
<1>4. \/ disk' = disk
      \/ \E e : disk' = [disk EXCEPT !.metaEpoch = e]
  BY DEF FailToStat, FailToGrow, FailToStart, FailToPublish, FailToStamp
<1>5. /\ disk'.vecs = disk.vecs /\ disk'.manifest = disk.manifest
      /\ disk'.vecFile = disk.vecFile
      /\ disk'.slim = disk.slim /\ disk'.slimNewer = disk.slimNewer
  BY <1>1, <1>4 DEF Disk
<1>6. step' # "write" /\ (vecOpen' => vecOpen)
  BY DEF FailToStat, FailToGrow, FailToStart, FailToPublish, FailToStamp
<1>7. vecOpen' => Len(disk.vecs) <= Len(store'.slots)
  BY <1>2, <1>6 DEF PInv
<1>8. ~Strays(disk)
  <2>1. CASE step = "write"
    BY <2>1 DEF FailToStat, FailToGrow, FailToStart, FailToStamp
  <2>2. CASE step # "write"
    BY <2>2 DEF PInv
  <2> QED
    BY <2>1, <2>2
<1> QED
  BY <1>3, <1>5, <1>6, <1>7, <1>8, QuietClaims

LEMMA TruncateClaims ==
  ASSUME TInv, TInv', CInv, PInv, EmptyWal \/ StampEpoch
  PROVE  PInv'
<1>1. store' = store /\ vecOpen' = vecOpen /\ step # "write" /\ step' # "write"
  BY DEF EmptyWal, StampEpoch
<1>2. \/ \E w : disk' = [disk EXCEPT !.wal = w]
      \/ \E e : disk' = [disk EXCEPT !.metaEpoch = e]
  BY DEF EmptyWal, StampEpoch
<1>3. /\ disk'.vecs = disk.vecs /\ disk'.manifest = disk.manifest
      /\ disk'.vecFile = disk.vecFile
      /\ disk'.slim = disk.slim /\ disk'.slimNewer = disk.slimNewer
  BY <1>2, StateTypes DEF Disk
<1>4. ~Strays(disk) /\ Claimed(store') /\ (vecOpen' => Len(disk.vecs) <= Len(store'.slots))
  BY <1>1 DEF PInv
<1> QED
  BY <1>1, <1>3, <1>4, QuietClaims

\* A checkpoint begins: .vecs has as many slots as the store, if it is mapped.
LEMMA BeginClaims ==
  ASSUME TInv, TInv', CInv, PInv, NEW kind, NEW todo, NEW vecs, Begin(kind, todo, vecs),
         store.slots # << >> \/ kind = "fast" => Len(vecs) <= Len(store.slots)
  PROVE  PInv'
<1>1. disk \in Disk /\ store \in Store
  BY StateTypes
<1>2. /\ disk' = [disk EXCEPT !.vecs = vecs] /\ vecOpen' = (store.slots # << >>)
      /\ store' = DirtyTaken(store) /\ step' = "write" /\ job'.kind = kind
  BY DEF Begin
<1>3. disk'.vecs = vecs /\ disk'.manifest = disk.manifest /\ disk'.slim = disk.slim
  BY <1>1, <1>2 DEF Disk
<1>4. store'.slots = store.slots /\ store'.deleted = store.deleted
  <2>1. {} \in SUBSET Slot
    OBVIOUS
  <2> QED
    BY <1>1, <1>2, <2>1, DirtyType
<1> QED
  BY <1>2, <1>3, <1>4 DEF PInv, Claimed

LEMMA BeginsClaim ==
  ASSUME TInv, TInv', CInv, PInv, BeginFull \/ BeginFast \/ BeginIncremental
  PROVE  PInv'
<1>1. store \in Store /\ disk \in Disk
  BY StateTypes
<1>2. Len(store.slots) \in Nat /\ Len(disk.vecs) \in Nat
  BY <1>1, LiveSlotsType DEF Disk
<1>3. Len(Grown(disk.vecs)) = IF Len(store.slots) <= Len(disk.vecs) THEN Len(disk.vecs)
                              ELSE Len(store.slots)
  BY GrownType
<1>4. CASE BeginFull
  <2> DEFINE zeros == [s \in DOMAIN store.slots |-> Zero]
             vecs == IF store.slots = << >> THEN disk.vecs ELSE zeros
  <2>1. Len(zeros) = Len(store.slots)
    BY <1>1, ZerosType
  <2>2. Begin("full", DOMAIN store.slots, vecs)
    BY <1>4 DEF BeginFull
  <2> HIDE DEF zeros
  <2>3. store.slots # << >> => Len(vecs) <= Len(store.slots)
    BY <1>2, <2>1
  <2> HIDE DEF vecs
  <2> QED
    BY <2>2, <2>3, BeginClaims
<1>5. ASSUME vecOpen
      PROVE  Len(Grown(disk.vecs)) <= Len(store.slots)
  <2>1. Len(disk.vecs) <= Len(store.slots)
    BY <1>5 DEF PInv
  <2> QED
    BY <1>2, <1>3, <2>1
<1>6. CASE BeginFast
  <2>1. Begin("fast", store.dirty, Grown(disk.vecs)) /\ vecOpen
    BY <1>6 DEF BeginFast
  <2> QED
    BY <1>5, <2>1, BeginClaims
<1>7. CASE BeginIncremental
  <2> DEFINE vecs == IF store.slots = << >> THEN << >> ELSE Grown(disk.vecs)
  <2>1. Begin("incremental", store.dirty, vecs) /\ vecOpen
    BY <1>7 DEF BeginIncremental
  <2>2. store.slots # << >> => Len(vecs) <= Len(store.slots)
    BY <1>5, <2>1
  <2> HIDE DEF vecs
  <2> QED
    BY <2>1, <2>2, BeginClaims
<1> QED
  BY <1>4, <1>6, <1>7
LEMMA WriteSlotClaims ==
  ASSUME TInv, TInv', CInv, PInv, WriteSlot
  PROVE  PInv'
<1>1. disk \in Disk /\ disk' \in Disk
  BY DEF TInv, TypeOK
<1>2. /\ store' = store /\ vecOpen' = vecOpen /\ step' = step /\ step = "write"
      /\ \E s, v : disk' = [disk EXCEPT !.vecs[s] = v]
      /\ \E s : job' = [job EXCEPT !.todo = @ \ {s}]
  BY DEF WriteSlot
<1>3. /\ DOMAIN disk'.vecs = DOMAIN disk.vecs /\ disk'.manifest = disk.manifest
      /\ disk'.slim = disk.slim
  BY <1>1, <1>2 DEF Disk
<1>4. job'.kind = job.kind
  BY <1>2 DEF TInv, TypeOK
<1>5. Len(disk'.vecs) = Len(disk.vecs)
  <2>1. disk.vecs \in Seq(Val \cup {Zero}) /\ disk'.vecs \in Seq(Val \cup {Zero})
    BY <1>1 DEF Disk
  <2>2. PICK old \in Seq(Val \cup {Zero}), new \in Seq(Val \cup {Zero}) :
            old = disk.vecs /\ new = disk'.vecs
    BY <2>1
  <2>3. Len(new) = Len(old)
    BY <1>3, <2>2, SameLength
  <2> QED
    BY <2>2, <2>3
<1> QED
  BY <1>2, <1>3, <1>4, <1>5 DEF PInv

\* A new snapshot claims every slot of .vecs.
LEMMA PublishClaims ==
  ASSUME TInv, TInv', CInv, PInv, ~Unbacked, PublishSlim \/ PublishManifest
  PROVE  PInv'
<1>1. /\ store \in Store /\ disk \in Disk /\ Consistent(store) /\ Claimed(store)
      /\ epoch \in Nat /\ vecOpen \in BOOLEAN
  BY StateTypes DEF PInv
<1>2. step = "write" /\ step' = "truncate" /\ store' = store /\ vecOpen' = vecOpen
  BY DEF PublishSlim, PublishManifest
<1> DEFINE snap == SnapshotOf(store, epoch)
<1>3. KeysOnly(snap.ids) /\ DOMAIN store.slots \subseteq Mapped(snap) \cup snap.deleted
  BY <1>1, ClaimedSnapshot
<1>4. snap # None
  <2>1. snap \in Snapshot
    BY <1>1, SnapshotType
  <2> QED
    BY <2>1, NoneAssumption
<1>5. /\ DOMAIN disk.vecs = 1..Len(disk.vecs) /\ Len(disk.vecs) \in Nat
      /\ DOMAIN store.slots = 1..Len(store.slots) /\ Len(store.slots) \in Nat
  BY <1>1, LiveSlotsType DEF Disk
<1>6. Len(disk.vecs) <= Len(store.slots) => DOMAIN disk.vecs \subseteq DOMAIN store.slots
  BY <1>5
<1> HIDE DEF snap
<1>7. CASE PublishSlim
  <2>1. disk' = [disk EXCEPT !.slim = snap, !.slimNewer = TRUE] /\ job.kind = "fast"
    BY <1>7 DEF PublishSlim, snap
  <2>2. /\ disk'.slim = snap /\ disk'.vecs = disk.vecs /\ disk'.manifest = disk.manifest
        /\ disk'.slimNewer = TRUE
    BY <1>1, <2>1 DEF Disk
  <2>3. Chosen(disk') = snap
    BY <1>4, <2>2 DEF Chosen, UsesSlim
  <2>4. Len(disk.vecs) <= Len(store.slots)
    BY <1>2, <2>1 DEF PInv
  <2>5. ~Strays(disk')
    BY <1>3, <1>6, <2>2, <2>3, <2>4 DEF Strays
  <2> QED
    BY <1>2, <1>3, <2>2, <2>4, <2>5 DEF PInv
<1>8. CASE PublishManifest
  <2>1. disk' = [disk EXCEPT !.manifest = snap, !.maxTs = MaxTimestamp(disk, nextTs),
                             !.vecFile = vecOpen, !.slimNewer = FALSE]
    BY <1>8 DEF PublishManifest, snap
  <2>2. /\ disk'.slim = disk.slim /\ disk'.vecs = disk.vecs /\ disk'.manifest = snap
        /\ disk'.vecFile = vecOpen /\ disk'.slimNewer = FALSE
    BY <1>1, <2>1 DEF Disk
  <2>3. Chosen(disk') = snap
    BY <2>2 DEF Chosen, UsesSlim
  <2>4. vecOpen => Len(disk.vecs) <= Len(store.slots)
    BY DEF PInv
  <2>5. ~Strays(disk')
    BY <1>3, <1>6, <2>2, <2>3, <2>4 DEF Strays
  <2> QED
    BY <1>2, <1>3, <2>2, <2>4, <2>5 DEF PInv
<1> QED
  BY <1>7, <1>8

LEMMA RestartClaims ==
  ASSUME TInv, TInv', CInv, PInv, ~Emptied, ~(step = "write" /\ Strays(disk)), Restart
  PROVE  PInv'
<1>1. disk \in Disk /\ FilesFit(disk) /\ ~Strays(disk)
  BY StateTypes DEF PInv
<1>2. step' = "idle" /\ disk' = disk /\ store' = Recovered(disk) /\ vecOpen' = OpensVecs(disk)
  BY DEF Restart
<1>3. KeysOnly(Chosen(disk).ids)
  BY DEF PInv, Chosen, UsesSlim
<1>4. PICK d \in Disk, n \in 0..SlotLimit :
         d = disk /\ Len(d.vecs) <= n /\ InRange(Chosen(d).ids, n)
  BY <1>1, FilesToRecover
<1>5. CoversFile(d, Recovered(d))
  BY <1>1, <1>3, <1>4, RecoveredClaims
<1>6. Claimed(store') /\ (vecOpen' => Len(disk.vecs) <= Len(store'.slots))
  BY <1>2, <1>4, <1>5 DEF CoversFile, OpensVecs
<1> QED
  BY <1>1, <1>2, <1>6, QuietClaims

LEMMA InitClaims == Init => PInv
<1> SUFFICES ASSUME Init PROVE PInv
  OBVIOUS
<1>1. disk = EmptyDisk /\ store = EmptyStore /\ vecOpen = FALSE /\ step = "idle"
  BY DEF Init
<1>2. Claimed(EmptyStore)
  BY EmptyType DEF Claimed
<1>3. KeysOnly(EmptyDisk.manifest.ids) /\ EmptyDisk.slim = None
  BY EmptyType DEF KeysOnly, Name
<1>4. ~Strays(EmptyDisk)
  BY DEF Strays, EmptyDisk
<1> QED
  BY <1>1, <1>2, <1>3, <1>4 DEF PInv

LEMMA NextClaims ==
  TInv /\ CInv /\ PInv /\ [Next]_vars /\ [~Unsettled]_vars /\ [~Straying]_vars /\ TInv' => PInv'
<1> SUFFICES ASSUME TInv, CInv, PInv, [Next]_vars, [~Unsettled]_vars, [~Straying]_vars, TInv'
             PROVE  PInv'
  OBVIOUS
<1>1. CASE UNCHANGED vars
  BY <1>1 DEF vars, PInv
<1>2. CASE Next /\ ~Unsettled /\ ~Straying
  <2>1. CASE \E k \in Key, v \in Val : Set(k, v) \/ SetBatch(k, v) \/ Update(k, v)
    BY <2>1, CallsClaim
  <2>2. CASE \E k \in Key : Delete(k)
    BY <2>2, CallsClaim
  <2>3. CASE DeleteNone \/ Compact \/ Flush \/ NothingDirty
    BY <1>2, <2>3, OthersClaim DEF Straying
  <2>4. CASE BeginFull \/ BeginFast \/ BeginIncremental
    BY <2>4, BeginsClaim
  <2>5. CASE FailToStat \/ FailToGrow \/ FailToPublish \/ FailToStamp
    BY <1>2, <2>5, FailuresClaim DEF Straying
  <2>6. CASE WriteSlot
    BY <2>6, WriteSlotClaims
  <2>7. CASE PublishSlim \/ PublishManifest
    BY <1>2, <2>7, PublishClaims DEF Unsettled
  <2>8. CASE EmptyWal \/ StampEpoch
    BY <2>8, TruncateClaims
  <2>9. CASE Restart
    BY <1>2, <2>9, RestartClaims DEF Unsettled, Straying
  <2> QED
    BY <1>2, <2>1, <2>2, <2>3, <2>4, <2>5, <2>6, <2>7, <2>8, <2>9 DEF Next
<1> QED
  BY <1>1, <1>2

LEMMA NoPhantomLives ==
  TInv /\ CInv /\ PInv => NoPhantoms /\ ~PhantomLives
<1> SUFFICES ASSUME TInv, CInv, PInv PROVE NoPhantoms
  BY DEF NoPhantoms, PhantomLives
<1>1. \A s \in LiveSlots(store) : s \in DOMAIN store.slots \ store.deleted
  BY StateTypes, LiveSlotsType
<1> QED
  BY <1>1 DEF PInv, Claimed, NoPhantoms

\* No record appears under a name that no caller gave it, and a recovered store stays
\* consistent, after any writes, compactions, checkpoints, errors and restarts, unless a
\* step was Unsettled or Straying: a compaction that leaves .vecs longer than the store,
\* or a stop or a failed rename while .vecs has slots that the old snapshot knows
\* nothing of.
THEOREM PhantomsNeverLive ==
  Spec /\ [][~Unsettled]_vars /\ [][~Straying]_vars => [](NoPhantoms /\ RecoveredConsistent)
<1>1. TInv /\ CInv /\ PInv => NoPhantoms /\ RecoveredConsistent
  BY NoPhantomLives DEF CInv, RecoveredConsistent
<1>2. TInv /\ CInv /\ PInv /\ [~Unsettled]_vars => [~Disputed]_vars
  BY NoPhantomLives DEF Disputed, Unsettled
<1> QED
  BY <1>1, <1>2, InitType, NextType, InitConsistent, NextConsistent, InitClaims, NextClaims,
     PTL DEF Spec

-----------------------------------------------------------------------------
(* What readers see.  A record's vector is in memory, or in the slot of    *)
(* .vecs that has the record's own number; every live record has one; and  *)
(* what is neither dirty nor still to be written is in .vecs.              *)

\* A record looks into .vecs, as the records of a reopened store do.
ViewLives == \E s \in LiveSlots(store) : store.slots[s].vec \in View

\* A fast checkpoint over a manifest with tombstones that are no longer the store's,
\* which recovery will take for tombstones all the same.
Overlaid == PublishSlim /\ ~(disk.manifest.deleted \subseteq store.deleted)

Detaching == \/ Disputed
             \/ Overlaid
             \/ (ViewLives /\ (Renumbers \/ FailToGrow))

Dense(st, open) ==
  \A s \in LiveSlots(st) : /\ st.slots[s].vec # None
                           /\ st.slots[s].vec \in View => st.slots[s].vec = s /\ open

Saved(st, vecs, s) == s \in DOMAIN vecs /\ vecs[s] = Seen(st.slots[s].vec, vecs)

Kept(st, vecs, todo) ==
  \A s \in LiveSlots(st) : s \in st.dirty \cup todo \/ Saved(st, vecs, s)

\* The snapshot has a vector for every slot it maps a name to, and one name for each.
Whole(snap) ==
  /\ Mapped(snap) \subseteq snap.dense
  /\ Mapped(snap) \cap snap.deleted = {}
  /\ Mapped(snap) \subseteq DOMAIN snap.meta
  /\ \A i, j \in Name : snap.ids[i] = snap.ids[j] /\ snap.ids[i] # NoSlot => i = j

SnapshotsWhole(d) ==
  /\ Whole(d.manifest)
  /\ UsesSlim(d) => Whole(d.slim) /\ d.manifest.deleted \subseteq d.slim.deleted

DInv ==
  /\ Dense(store, vecOpen)
  /\ Kept(store, disk.vecs, job.todo)
  /\ SnapshotsWhole(disk)
  /\ step \in {"write", "truncate", "stamp"} => store.dirty = {}
  /\ step \in {"truncate", "stamp"} => Chosen(disk) = SnapshotOf(store, epoch)
  /\ step = "stamp" => disk.wal = << >>

\* What the calls and the replay make of a store: a live slot is new and dirty, with a
\* vector of its own, or has the vector that it had.
Continues(st, new) ==
  \A s \in LiveSlots(new) :
    \/ s \in new.dirty /\ new.slots[s].vec \in Val \cup {Zero}
    \/ /\ s \in LiveSlots(st) /\ new.slots[s].vec = st.slots[s].vec
       /\ s \in st.dirty => s \in new.dirty

LEMMA SameContinues ==
  ASSUME NEW st
  PROVE  Continues(st, st)
BY DEF Continues

LEMMA ContinuesOn ==
  ASSUME NEW a, NEW b, NEW c, Continues(a, b), Continues(b, c)
  PROVE  Continues(a, c)
BY DEF Continues

LEMMA UpsertContinues ==
  ASSUME NEW st \in Store, Consistent(st), NEW rec \in Record, rec.vec \in Val \cup {Zero}
  PROVE  Continues(st, Upserted(st, rec))
<1> DEFINE new == Upserted(st, rec)
           n == Len(st.slots) + 1
           old == st.idToSlot[rec.id]
<1>1. /\ new.deleted = IF old = NoSlot THEN st.deleted ELSE st.deleted \cup {old}
      /\ new.dirty = (IF old = NoSlot THEN st.dirty ELSE st.dirty \cup {old}) \cup {n}
      /\ LiveSlots(new) = (LiveSlots(st) \ {old}) \cup {n}
      /\ \A s \in DOMAIN st.slots : new.slots[s] = st.slots[s]
      /\ new.slots[n] = rec
  <2>1. Facts!Moved(st, rec, new, old, n)
    BY UpsertEffect
  <2> HIDE DEF new, n, old
  <2> QED
    BY <2>1, SameReaders DEF Facts!Moved
<1>2. LiveSlots(st) \subseteq DOMAIN st.slots
  BY LiveSlotsType
<1> HIDE DEF new, n, old
<1>3. Continues(st, new)
  BY <1>1, <1>2 DEF Continues
<1> QED
  BY <1>3 DEF new

LEMMA RemoveContinues ==
  ASSUME NEW st \in Store, Consistent(st), NEW k \in Name, Deletable(st, k)
  PROVE  Continues(st, Removed(st, k))
<1> DEFINE new == Removed(st, k)
           old == st.idToSlot[k]
<1>1. /\ new.slots = st.slots /\ new.deleted = st.deleted \cup {old}
      /\ new.dirty = st.dirty \cup {old} /\ LiveSlots(new) = LiveSlots(st) \ {old}
  <2>1. Facts!Gone(st, k, new, old)
    BY RemoveEffect
  <2> HIDE DEF new, old
  <2> QED
    BY <2>1, SameReaders DEF Facts!Gone
<1> HIDE DEF new, old
<1>2. Continues(st, new)
  BY <1>1 DEF Continues
<1> QED
  BY <1>2 DEF new

LEMMA MetaContinues ==
  ASSUME NEW st \in Store, NEW s \in LiveSlots(st), NEW m \in Val
  PROVE  Continues(st, WithMeta(st, s, m))
<1> DEFINE new == WithMeta(st, s, m)
<1>1. /\ new.slots = [st.slots EXCEPT ![s] = [@ EXCEPT !.meta = m]]
      /\ new.deleted = st.deleted /\ new.dirty = st.dirty \cup {s}
      /\ LiveSlots(new) = LiveSlots(st)
  <2>1. MetaWritten(st, s, m, new)
    BY WithMetaKeeps
  <2> QED
    BY <2>1 DEF MetaWritten
<1>2. \A t \in LiveSlots(st) : t \in DOMAIN st.slots /\ st.slots[t] \in Record
  BY LiveSlotsType DEF LiveSlots
<1> HIDE DEF new
<1>3. \A t \in LiveSlots(st) : new.slots[t].vec = st.slots[t].vec
  BY <1>1, <1>2 DEF Record
<1>4. Continues(st, new)
  BY <1>1, <1>3 DEF Continues
<1> QED
  BY <1>4 DEF new

LEMMA ReplayedContinues ==
  ASSUME NEW st \in Store, Consistent(st), NEW e \in Entry
  PROVE  Continues(st, Replayed(st, e))
<1>1. e.op \in {"upsert", "delete"} /\ e.id \in Name /\ (e.op = "upsert" => RecordIn(e) \in Record)
      /\ (e.op = "upsert" => RecordIn(e).vec \in Val \cup {Zero})
  BY EntryType DEF RecordIn, Entry
<1>2. CASE e.op = "upsert"
  <2>1. Replayed(st, e) = Upserted(st, RecordIn(e))
    BY <1>2 DEF Replayed, RecordIn
  <2> QED
    BY <1>1, <1>2, <2>1, UpsertContinues
<1>3. CASE e.op # "upsert" /\ Deletable(st, e.id)
  <2>1. Replayed(st, e) = Removed(st, e.id)
    BY <1>3 DEF Replayed
  <2> QED
    BY <1>1, <1>3, <2>1, RemoveContinues
<1>4. CASE e.op # "upsert" /\ ~Deletable(st, e.id)
  <2>1. Replayed(st, e) = st
    BY <1>4 DEF Replayed
  <2> QED
    BY <2>1, SameContinues
<1> QED
  BY <1>2, <1>3, <1>4

LEMMA RecoveredContinues ==
  ASSUME NEW d \in Disk, NEW n \in 0..SlotLimit, Len(d.vecs) <= n, InRange(Chosen(d).ids, n),
         FilesFit(d)
  PROVE  Continues(InitialRecords(d), Recovered(d))
<1> DEFINE first == InitialRecords(d)
           P == {x \in Nat \X Store : Sound(x[2]) /\ Continues(first, x[2])}
<1>1. <<0, first>> \in P
  BY InitialConsistent, SameContinues DEF Sound
<1>2. \A m \in 1..Len(d.wal), x \in Store :
           <<m - 1, x>> \in P => <<m, ReplayedUnlessCovered(d, x, d.wal[m])>> \in P
  <2> SUFFICES ASSUME NEW m \in 1..Len(d.wal), NEW x \in Store, Sound(x), Continues(first, x)
               PROVE  /\ m \in Nat /\ ReplayedUnlessCovered(d, x, d.wal[m]) \in Store
                      /\ Sound(ReplayedUnlessCovered(d, x, d.wal[m]))
                      /\ Continues(first, ReplayedUnlessCovered(d, x, d.wal[m]))
    BY Zenon
  <2>1. Len(d.wal) \in Nat /\ m \in Nat
    BY LenProperties DEF Disk
  <2>2. d.wal[m].entry \in Entry /\ ReplayedUnlessCovered(d, x, d.wal[m]) \in Store
    BY ReplayedUnlessCoveredType
  <2>3. Sound(Replayed(x, d.wal[m].entry)) /\ Continues(x, x)
        /\ Continues(x, Replayed(x, d.wal[m].entry))
    BY <2>2, ReplayedSound, SameContinues, ReplayedContinues DEF Sound
  <2>4. Sound(ReplayedUnlessCovered(d, x, d.wal[m]))
        /\ Continues(x, ReplayedUnlessCovered(d, x, d.wal[m]))
    BY <2>3 DEF ReplayedUnlessCovered
  <2>5. Continues(first, ReplayedUnlessCovered(d, x, d.wal[m]))
    BY <2>4, ContinuesOn
  <2> QED
    BY <2>1, <2>2, <2>4, <2>5
<1>3. <<Len(d.wal), Recovered(d)>> \in P
  <2>1. P \in SUBSET (Nat \X Store)
    OBVIOUS
  <2> HIDE DEF P
  <2> QED
    BY <1>1, <1>2, <2>1, RecoveredInduction
<1> QED
  BY <1>3

\* Continuing keeps the vectors where they were.
LEMMA ContinuesKeeps ==
  ASSUME NEW st, NEW new, NEW open, NEW vecs, Continues(st, new),
         Dense(st, open), Kept(st, vecs, {})
  PROVE  Dense(new, open) /\ Kept(new, vecs, {})
<1>1. None \notin Val \cup {Zero} /\ (Val \cup {Zero}) \cap View = {}
  BY NoneAssumption, ValAssumption
<1>2. Dense(new, open)
  <2> SUFFICES ASSUME NEW s \in LiveSlots(new)
               PROVE  /\ new.slots[s].vec # None
                      /\ new.slots[s].vec \in View => new.slots[s].vec = s /\ open
    BY DEF Dense
  <2>1. CASE new.slots[s].vec \in Val \cup {Zero}
    BY <1>1, <2>1
  <2>2. CASE s \in LiveSlots(st) /\ new.slots[s].vec = st.slots[s].vec
    BY <2>2 DEF Dense
  <2> QED
    BY <2>1, <2>2 DEF Continues
<1>3. Kept(new, vecs, {})
  <2> SUFFICES ASSUME NEW s \in LiveSlots(new), s \notin new.dirty
               PROVE  Saved(new, vecs, s)
    BY DEF Kept
  <2>1. s \in LiveSlots(st) /\ new.slots[s].vec = st.slots[s].vec /\ s \notin st.dirty
    BY DEF Continues
  <2>2. Saved(st, vecs, s)
    BY <2>1 DEF Kept
  <2> QED
    BY <2>1, <2>2 DEF Saved
<1> QED
  BY <1>2, <1>3

\* A recovered record views the slot of .vecs that is its own.
LEMMA InitialDense ==
  ASSUME NEW d \in Disk, NEW n \in 0..SlotLimit, Len(d.vecs) <= n, InRange(Chosen(d).ids, n),
         FilesFit(d), SnapshotsWhole(d)
  PROVE  /\ \A s \in LiveSlots(InitialRecords(d)) :
              s \in DOMAIN d.vecs /\ InitialRecords(d).slots[s].vec = s /\ s \in View
         /\ \A s \in Mapped(Chosen(d)) : s \in LiveSlots(InitialRecords(d))
         /\ Dense(InitialRecords(d), OpensVecs(d))
         /\ Kept(InitialRecords(d), d.vecs, {})
<1> DEFINE first == InitialRecords(d)
<1>1. /\ first \in Store /\ first.slots = InitialSlots(d) /\ Len(first.slots) = LastSlot(d)
      /\ first.deleted = Chosen(d).deleted /\ first.dirty = {}
  BY InitialType
<1>2. DOMAIN first.slots = 1..LastSlot(d) /\ LastSlot(d) \in Nat
  BY <1>1, LiveSlotsType
<1>3. Mapped(Chosen(d)) \subseteq 1..LastSlot(d)
  BY LastSlotType, SlotLimitAssumption
<1>4. /\ Whole(Chosen(d)) /\ d.manifest.deleted \subseteq Chosen(d).deleted
  BY DEF SnapshotsWhole, Chosen
<1>5. d.vecFile => Mapped(Chosen(d)) \subseteq DOMAIN d.vecs /\ d.vecs # << >>
  BY ChosenFits
<1>6. ~d.vecFile => Mapped(Chosen(d)) = {}
  BY ChosenFits
<1>7. Mapped(Chosen(d)) \subseteq Usable(d)
  <2> SUFFICES ASSUME NEW s \in Mapped(Chosen(d)) PROVE s \in Usable(d)
    OBVIOUS
  <2>1. d.vecFile /\ s \in DOMAIN d.vecs
    BY <1>5, <1>6
  <2>2. s \notin d.manifest.deleted
    BY <1>4 DEF Whole
  <2>3. CASE UsesSlim(d)
    <3>1. Chosen(d) = d.slim /\ s \in d.slim.dense
      BY <1>4, <2>3 DEF Chosen, Whole
    <3>2. s \in Loaded(d)
      BY <2>1, <2>2, <2>3, <3>1 DEF Loaded
    <3> QED
      BY <2>3, <3>2 DEF Usable, DropsUnclaimed
  <2>4. CASE ~UsesSlim(d)
    <3>1. Chosen(d) = d.manifest /\ s \in d.manifest.dense /\ s \in Mapped(d.manifest)
      BY <1>4, <2>4 DEF Chosen, Whole
    <3>2. s \in Loaded(d)
      BY <2>1, <2>2, <2>4, <3>1 DEF Loaded
    <3> QED
      BY <2>4, <3>1, <3>2 DEF Usable
  <2> QED
    BY <2>3, <2>4
<1>8. \A s \in 1..LastSlot(d) : first.slots[s] = InitialSlot(d, s)
  BY <1>1 DEF InitialSlots
<1>9. \A s \in LiveSlots(first) : s \in Usable(d) /\ first.slots[s].vec = s
  <2> SUFFICES ASSUME NEW s \in LiveSlots(first)
               PROVE  s \in Usable(d) /\ first.slots[s].vec = s
    OBVIOUS
  <2>1. s \in 1..LastSlot(d) /\ first.slots[s] # None /\ first.slots[s] = InitialSlot(d, s)
    BY <1>2, <1>8 DEF LiveSlots
  <2>2. s \in Mapped(Chosen(d)) => s \in Usable(d)
    BY <1>7
  <2>3. s \notin Mapped(Chosen(d)) => s \in Usable(d) /\ InitialSlot(d, s) = InitialRecord(d, s, s)
    BY <2>1 DEF InitialSlot, VecAt
  <2>4. s \in Mapped(Chosen(d)) =>
          InitialSlot(d, s) = InitialRecord(d, CHOOSE i \in Name : Chosen(d).ids[i] = s, s)
    BY <2>1 DEF InitialSlot
  <2> QED
    BY <2>1, <2>2, <2>3, <2>4 DEF InitialRecord, VecAt
<1>10. Len(d.vecs) \in Nat /\ DOMAIN d.vecs = 1..Len(d.vecs) /\ n \in Nat /\ n <= SlotLimit
       /\ SlotLimit \in Nat
  BY SlotLimitAssumption DEF Disk
<1>11. \A s \in Usable(d) : s \in DOMAIN d.vecs /\ s \in View /\ d.vecFile
  BY <1>10, UsableInFile DEF View
<1>12. \A s \in Mapped(Chosen(d)) : s \in LiveSlots(first)
  <2> SUFFICES ASSUME NEW s \in Mapped(Chosen(d)) PROVE s \in LiveSlots(first)
    OBVIOUS
  <2>1. s \in 1..LastSlot(d) /\ s \notin first.deleted
    BY <1>1, <1>3, <1>4 DEF Whole
  <2>2. first.slots[s] = InitialRecord(d, CHOOSE i \in Name : Chosen(d).ids[i] = s, s)
    BY <1>1, <1>8, <2>1 DEF InitialSlot
  <2>3. first.slots[s] # None
    <3>1. (CHOOSE i \in Name : Chosen(d).ids[i] = s) \in Name
      BY DEF Mapped
    <3>2. s \in Slot /\ Len(d.vecs) <= SlotLimit
      BY <1>10, <2>1 DEF Slot, NoSlot
    <3>3. first.slots[s] \in Record
      BY <2>2, <3>1, <3>2, InitialSlotType
    <3> QED
      BY <3>3, NoneAssumption
  <2> QED
    BY <1>2, <2>1, <2>3 DEF LiveSlots
<1> HIDE DEF first
<1>13. \A s \in LiveSlots(first) : s \in DOMAIN d.vecs /\ s \in View /\ d.vecFile
                                   /\ first.slots[s].vec = s
  BY <1>9, <1>11
<1>14. Dense(first, OpensVecs(d))
  <2>1. \A s \in View : s # None
    BY NoneAssumption DEF View
  <2> QED
    BY <1>5, <1>10, <1>13, <2>1, EmptySeq DEF Dense, OpensVecs
<1>15. Kept(first, d.vecs, {})
  BY <1>13 DEF Kept, Saved, Seen
<1> QED
  BY <1>12, <1>13, <1>14, <1>15 DEF first

-----------------------------------------------------------------------------
(* Each step keeps the vectors, and what readers see of them.              *)

\* What the snapshot of a consistent store without lost vectors says.
LEMMA SnapshotWhole ==
  ASSUME NEW st \in Store, Consistent(st), NEW open, Dense(st, open), NEW n \in Nat \cup {None}
  PROVE  /\ Whole(SnapshotOf(st, n)) /\ SnapshotOf(st, n).ids = st.idToSlot
         /\ SnapshotOf(st, n).deleted = st.deleted /\ SnapshotOf(st, n) # None
<1> DEFINE snap == SnapshotOf(st, n)
<1>1. /\ Mapped(snap) \subseteq LiveSlots(st) /\ snap.deleted = st.deleted
      /\ \A k \in Name : st.idToSlot[k] # NoSlot =>
           st.idToSlot[k] \in LiveSlots(st) /\ st.slots[st.idToSlot[k]].id = k
  BY MappedInStore
<1>2. snap.ids = st.idToSlot /\ snap # None
  BY SnapshotType, NoneAssumption
<1>3. snap.dense = {s \in LiveSlots(st) : st.slots[s].vec # None}
      /\ DOMAIN snap.meta = DOMAIN st.slots
  BY DEF SnapshotOf
<1> HIDE DEF snap
<1>4. Mapped(snap) \subseteq snap.dense
  BY <1>1, <1>3 DEF Dense
<1>5. Mapped(snap) \cap snap.deleted = {} /\ Mapped(snap) \subseteq DOMAIN snap.meta
  BY <1>1, <1>3 DEF LiveSlots
<1>6. \A i, j \in Name : snap.ids[i] = snap.ids[j] /\ snap.ids[i] # NoSlot => i = j
  BY <1>1, <1>2
<1> QED
  BY <1>1, <1>2, <1>4, <1>5, <1>6 DEF Whole, snap

\* The same vectors in the same slots.
SameSight(st, vecs, grown) ==
  \A s \in LiveSlots(st) : Seen(st.slots[s].vec, grown) = Seen(st.slots[s].vec, vecs)

LEMMA SameMap ==
  ASSUME NEW st, NEW new, NEW vecs, NEW grown, SameSight(st, vecs, grown),
         new.slots = st.slots, new.idToSlot = st.idToSlot, new.deleted = st.deleted
  PROVE  MapOf(new, grown) = MapOf(st, vecs)
<1>1. LiveSlots(new) = LiveSlots(st)
  BY DEF LiveSlots
<1>2. ASSUME NEW k
      PROVE  Document(new, grown, k) = Document(st, vecs, k)
  <2>1. CASE Found(st, k)
    <3>1. Found(new, k) /\ RecordOf(new, k) = RecordOf(st, k)
          /\ RecordOf(st, k) = st.slots[st.idToSlot[k]] /\ st.idToSlot[k] \in LiveSlots(st)
      BY <1>1, <2>1 DEF Found, RecordOf
    <3>2. Seen(RecordOf(st, k).vec, grown) = Seen(RecordOf(st, k).vec, vecs)
      BY <3>1 DEF SameSight
    <3> QED
      BY <3>1, <3>2 DEF Document
  <2>2. CASE ~Found(st, k)
    <3>1. RecordOf(new, k) = None /\ RecordOf(st, k) = None
      BY <1>1, <2>2 DEF Found, RecordOf
    <3> QED
      BY <3>1 DEF Document
  <2> QED
    BY <2>1, <2>2
<1> QED
  BY <1>2 DEF MapOf

\* A call, or the end of a checkpoint, that leaves .vecs and the snapshots alone.
LEMMA SettledKeeps ==
  ASSUME TInv, TInv', DInv, Continues(store, store'), job.todo = {},
         step' \notin {"write", "truncate", "stamp"},
         disk'.vecs = disk.vecs, disk'.manifest = disk.manifest, disk'.vecFile = disk.vecFile,
         disk'.slim = disk.slim, disk'.slimNewer = disk.slimNewer,
         vecOpen' = vecOpen \/ ~ViewLives
  PROVE  DInv'
<1>1. step' # "write" /\ job'.todo = {}
  BY DEF TInv, TypeOK
<1>2. Dense(store, vecOpen') /\ Kept(store, disk.vecs, {}) /\ SnapshotsWhole(disk)
  BY DEF DInv, Dense, ViewLives
<1>3. Dense(store', vecOpen') /\ Kept(store', disk'.vecs, job'.todo)
  <2>1. PICK st, new, open, vecs : st = store /\ new = store' /\ open = vecOpen' /\ vecs = disk.vecs
    OBVIOUS
  <2>2. Continues(st, new) /\ Dense(st, open) /\ Kept(st, vecs, {})
    BY <1>2, <2>1
  <2>3. Dense(new, open) /\ Kept(new, vecs, {})
    BY <2>2, ContinuesKeeps
  <2> QED
    BY <1>1, <2>1, <2>3
<1>4. SnapshotsWhole(disk')
  BY <1>2 DEF SnapshotsWhole, UsesSlim
<1> QED
  BY <1>2, <1>3, <1>4 DEF DInv

LEMMA WritesContinue ==
  ASSUME TInv, CInv, NEW k \in Key, NEW v \in Val, Set(k, v) \/ SetBatch(k, v) \/ Update(k, v)
  PROVE  Continues(store, store')
<1>1. store \in Store /\ disk \in Disk /\ Consistent(store)
  BY StateTypes
<1> DEFINE rec == [id |-> k, vec |-> v, aux |-> None, meta |-> v]
<1>2. rec \in Record /\ rec.vec \in Val \cup {Zero}
  BY <1>1, NewRecordType
<1>3. WithVector(store, k, v, v) = Upserted(store, rec)
  BY <1>1, SetFollows
<1>4. Continues(store, WithVector(store, k, v, v))
  <2> HIDE DEF rec
  <2> QED
    BY <1>1, <1>2, <1>3, UpsertContinues
<1>5. Set(k, v) => Continues(store, store')
  BY <1>4 DEF Set, LoggedWrite
<1>6. SetBatch(k, v) => Continues(store, store')
  BY <1>4 DEF SetBatch, UnloggedWrite
<1>7. ASSUME Update(k, v)
      PROVE  Continues(store, store')
  <2>1. Found(store, k) /\ store' = WithMeta(store, store.idToSlot[k], v)
    BY <1>7 DEF Update, LoggedWrite, UnloggedWrite
  <2>2. PICK s \in LiveSlots(store) : s = store.idToSlot[k]
    BY <2>1, FoundSlot
  <2>3. Continues(store, WithMeta(store, s, v))
    BY <1>1, MetaContinues
  <2> QED
    BY <2>1, <2>2, <2>3
<1> QED
  BY <1>5, <1>6, <1>7

LEMMA DeleteContinues ==
  ASSUME TInv, CInv, NEW k \in Key, Delete(k)
  PROVE  Continues(store, store')
<1>1. Deletable(store, k) /\ store' = Removed(store, k)
  BY DEF Delete, LoggedWrite
<1> QED
  BY <1>1, StateTypes, KeyNoPhantom, RemoveContinues

LEMMA WritesKeepSight ==
  ASSUME TInv, TInv', CInv, DInv, NEW k \in Key,
         Delete(k) \/ \E v \in Val : Set(k, v) \/ SetBatch(k, v) \/ Update(k, v)
  PROVE  DInv' /\ step = "idle" /\ step' \in {"idle", "due"}
<1>1. Continues(store, store')
  BY WritesContinue, DeleteContinues
<1>2. /\ step = "idle" /\ step' \in {"idle", "due"} /\ vecOpen' = vecOpen
      /\ disk'.vecs = disk.vecs /\ disk'.manifest = disk.manifest
      /\ disk'.vecFile = disk.vecFile
      /\ disk'.slim = disk.slim /\ disk'.slimNewer = disk.slimNewer
  BY WritesQuiet
<1>3. job.todo = {}
  BY <1>2 DEF TInv, TypeOK
<1> QED
  BY <1>1, <1>2, <1>3, SettledKeeps

\* The dirty slots change hands: neither records nor readers notice.
LEMMA DirtyContinues ==
  ASSUME NEW st \in Store, NEW taken \in SUBSET Slot, NEW new,
         new = DirtyRestored(st, taken) \/ new = DirtyRestored(DirtyTaken(st), st.dirty)
  PROVE  /\ Continues(st, new)
         /\ new.slots = st.slots /\ new.idToSlot = st.idToSlot /\ new.deleted = st.deleted
<1>1. st.dirty \in SUBSET Slot
  BY DEF Store
<1>2. /\ new.slots = st.slots /\ new.idToSlot = st.idToSlot /\ new.deleted = st.deleted
      /\ st.dirty \subseteq new.dirty
  <2>1. CASE new = DirtyRestored(st, taken)
    BY <2>1, DirtyType
  <2>2. CASE new = DirtyRestored(DirtyTaken(st), st.dirty)
    <3>1. /\ DirtyTaken(st) \in Store
          /\ DirtyTaken(st).slots = st.slots /\ DirtyTaken(st).idToSlot = st.idToSlot
          /\ DirtyTaken(st).deleted = st.deleted
      BY <1>1, DirtyType
    <3>2. PICK free \in Store : free = DirtyTaken(st)
      BY <3>1
    <3>3. /\ new.slots = free.slots /\ new.idToSlot = free.idToSlot
          /\ new.deleted = free.deleted /\ new.dirty = free.dirty \cup st.dirty
      BY <1>1, <2>2, <3>2, DirtyType
    <3> QED
      BY <3>1, <3>2, <3>3
  <2> QED
    BY <2>1, <2>2
<1>3. LiveSlots(new) = LiveSlots(st)
  BY <1>2 DEF LiveSlots
<1> QED
  BY <1>2, <1>3 DEF Continues

\* A step of a checkpoint, an error, or a call that writes nothing.
LEMMA OthersKeepSight ==
  ASSUME TInv, TInv', CInv, DInv, ~Renumbers, ~(ViewLives /\ FailToGrow),
         \/ DeleteNone \/ Compact \/ Flush \/ NothingDirty
         \/ FailToStat \/ FailToGrow \/ FailToPublish \/ FailToStamp \/ StampEpoch
  PROVE  DInv' /\ Current' = Current
<1>1. store \in Store /\ disk \in Disk /\ job.taken \in SUBSET Slot /\ store.dirty \in SUBSET Slot
  BY StateTypes DEF Store
<1>2. /\ step' \notin {"write", "truncate", "stamp"} /\ job.todo = {}
      /\ vecOpen' = vecOpen \/ ~ViewLives
      /\ \/ store' = store
         \/ store' = DirtyRestored(store, job.taken)
         \/ store' = DirtyRestored(DirtyTaken(store), store.dirty)
      /\ \/ disk' = disk
         \/ \E e : disk' = [disk EXCEPT !.metaEpoch = e]
  BY DEF TInv, TypeOK, DeleteNone, Compact, Flush, NothingDirty, FailToStat, FailToGrow,
         FailToStart, FailToPublish, FailToStamp, StampEpoch, Called, Renumbers
<1>3. /\ disk'.vecs = disk.vecs /\ disk'.manifest = disk.manifest
      /\ disk'.vecFile = disk.vecFile
      /\ disk'.slim = disk.slim /\ disk'.slimNewer = disk.slimNewer
  BY <1>1, <1>2 DEF Disk
<1>4. /\ Continues(store, store')
      /\ store'.slots = store.slots /\ store'.idToSlot = store.idToSlot
      /\ store'.deleted = store.deleted
  <2>1. CASE store' = store
    BY <2>1, SameContinues
  <2>2. CASE store' # store
    <3>1. PICK st \in Store, taken \in SUBSET Slot, new \in Store :
             st = store /\ taken = job.taken /\ new = store'
      BY <1>1 DEF TInv, TypeOK
    <3>2. new = DirtyRestored(st, taken) \/ new = DirtyRestored(DirtyTaken(st), st.dirty)
      BY <1>2, <2>2, <3>1
    <3>3. /\ Continues(st, new)
          /\ new.slots = st.slots /\ new.idToSlot = st.idToSlot /\ new.deleted = st.deleted
      BY <3>2, DirtyContinues
    <3> QED
      BY <3>1, <3>3
  <2> QED
    BY <2>1, <2>2
<1>5. SameSight(store, disk.vecs, disk'.vecs)
  BY <1>3 DEF SameSight
<1>6. Current' = Current
  BY <1>4, <1>5, SameMap DEF Current
<1> QED
  BY <1>2, <1>3, <1>4, <1>6, SettledKeeps

\* A compaction moves the records that no caller has: each key keeps its own.
LEMMA RepackedMap ==
  ASSUME NEW st \in Store, Consistent(st), NEW new, Repacked(st, new), NEW vecs
  PROVE  MapOf(new, vecs) = MapOf(st, vecs)
<1>1. /\ \A s \in LiveSlots(st) : st.slots[s] \in Record /\ s # NoSlot
      /\ \A i \in Name : st.idToSlot[i] # NoSlot =>
           st.idToSlot[i] \in LiveSlots(st) /\ st.slots[st.idToSlot[i]].id = i
      /\ \A s \in LiveSlots(st) : st.idToSlot[st.slots[s].id] = s
  BY LiveSlotsType DEF Consistent, IdMapSound, LiveSlotsMapped
<1>2. /\ \A s \in LiveSlots(new) : new.slots[s] \in Record /\ s # NoSlot
      /\ \A i \in Name : new.idToSlot[i] # NoSlot =>
           new.idToSlot[i] \in LiveSlots(new) /\ new.slots[new.idToSlot[i]].id = i
      /\ \A s \in LiveSlots(new) : new.idToSlot[new.slots[s].id] = s
  BY LiveSlotsType DEF Repacked, Consistent, IdMapSound, LiveSlotsMapped
<1>3. ASSUME NEW k \in Key
      PROVE  RecordOf(new, k) = RecordOf(st, k)
  <2>1. k \in Name
    BY KeyNoPhantom
  <2>2. CASE Found(st, k)
    <3>1. st.idToSlot[k] \in LiveSlots(st) /\ st.slots[st.idToSlot[k]].id = k
      BY <1>1, <2>1, <2>2 DEF Found
    <3>2. PICK n \in LiveSlots(new) : new.slots[n] = st.slots[st.idToSlot[k]]
      BY <3>1 DEF Repacked
    <3>3. new.idToSlot[k] = n
      BY <1>2, <3>1, <3>2
    <3> QED
      BY <2>2, <3>2, <3>3 DEF Found, RecordOf
  <2>3. CASE ~Found(st, k)
    <3>1. ~Found(new, k)
      <4>1. SUFFICES ASSUME Found(new, k) PROVE FALSE
        OBVIOUS
      <4>2. new.idToSlot[k] \in LiveSlots(new) /\ new.slots[new.idToSlot[k]].id = k
        BY <1>2, <2>1, <4>1 DEF Found
      <4>3. PICK s \in LiveSlots(st) : new.slots[new.idToSlot[k]] = st.slots[s]
        BY <4>2 DEF Repacked
      <4>4. st.idToSlot[k] = s
        BY <1>1, <4>2, <4>3
      <4> QED
        BY <2>3, <4>4 DEF Found
    <3> QED
      BY <2>3, <3>1 DEF RecordOf
  <2> QED
    BY <2>2, <2>3
<1> QED
  BY <1>3 DEF MapOf, Document

LEMMA CompactKeepsSight ==
  ASSUME TInv, TInv', CInv, DInv, Renumbers, ~ViewLives
  PROVE  DInv' /\ Current' = Current
<1>1. store \in Store /\ Consistent(store) /\ Dense(store, vecOpen) /\ SnapshotsWhole(disk)
  BY StateTypes DEF DInv
<1>2. store' = Compacted(store) /\ disk' = disk /\ vecOpen' = vecOpen
      /\ step' \in {"idle", "flush"} /\ job'.todo = {}
  BY DEF TInv, TypeOK, Renumbers, Compact, Flush, Called
<1>3. PICK st \in Store, new \in Store : st = store /\ new = Compacted(store) /\ Repacked(st, new)
  BY <1>1, CompactRepacks DEF Repacked
<1>4. MapOf(new, disk.vecs) = MapOf(st, disk.vecs)
  BY <1>1, <1>3, RepackedMap
<1>5. Dense(new, vecOpen)
  <2>1. \A s \in LiveSlots(st) : st.slots[s].vec # None /\ st.slots[s].vec \notin View
    BY <1>1, <1>3 DEF Dense, ViewLives
  <2> QED
    BY <1>3, <2>1 DEF Dense, Repacked
<1>6. Kept(new, disk.vecs, {})
  BY <1>3 DEF Kept, Repacked
<1>7. DInv'
  BY <1>1, <1>2, <1>3, <1>5, <1>6 DEF DInv
<1>8. Current' = Current
  BY <1>2, <1>3, <1>4 DEF Current
<1> QED
  BY <1>7, <1>8

LEMMA EmptyWalKeepsSight ==
  ASSUME TInv, TInv', CInv, DInv, EmptyWal
  PROVE  DInv' /\ Current' = Current
<1>1. disk \in Disk /\ job.todo = {}
  BY DEF TInv, TypeOK, EmptyWal
<1>2. /\ step = "truncate" /\ step' = "stamp" /\ disk' = [disk EXCEPT !.wal = << >>]
      /\ store' = store /\ vecOpen' = vecOpen /\ job' = job /\ epoch' = epoch
  BY DEF EmptyWal
<1>3. /\ disk'.vecs = disk.vecs /\ disk'.manifest = disk.manifest
      /\ disk'.vecFile = disk.vecFile /\ disk'.wal = << >>
      /\ disk'.slim = disk.slim /\ disk'.slimNewer = disk.slimNewer
  BY <1>1, <1>2 DEF Disk
<1>4. Chosen(disk') = Chosen(disk) /\ (SnapshotsWhole(disk) => SnapshotsWhole(disk'))
  BY <1>3 DEF Chosen, UsesSlim, SnapshotsWhole
<1>5. Current' = Current
  BY <1>2, <1>3 DEF Current
<1> QED
  BY <1>2, <1>3, <1>4, <1>5 DEF DInv

\* .vecs is longer, and each vector that is read stays what it was.
LEMMA GrownSight ==
  ASSUME TInv
  PROVE  \A v : Seen(v, Grown(disk.vecs)) = Seen(v, disk.vecs)
<1>1. \A s \in DOMAIN disk.vecs : s \in DOMAIN Grown(disk.vecs)
                                  /\ Grown(disk.vecs)[s] = disk.vecs[s]
  BY GrownType
<1>2. \A s \in DOMAIN Grown(disk.vecs) : s \notin DOMAIN disk.vecs => Grown(disk.vecs)[s] = Zero
  BY DEF Grown
<1> QED
  BY <1>1, <1>2 DEF Seen

LEMMA BeginKeepsSight ==
  ASSUME TInv, CInv, DInv, NEW kind, NEW todo, NEW vecs, vecs \in Seq(Val \cup {Zero}),
         Begin(kind, todo, vecs),
         SameSight(store, disk.vecs, vecs),
         \A s \in LiveSlots(store) : s \in todo \/ Saved(store, vecs, s),
         Dense(store, store.slots # << >>)
  PROVE  DInv' /\ Current' = Current
<1>1. store \in Store /\ disk \in Disk
  BY StateTypes
<1>2. /\ disk' = [disk EXCEPT !.vecs = vecs] /\ vecOpen' = (store.slots # << >>)
      /\ store' = DirtyTaken(store) /\ step' = "write" /\ job'.todo = todo
  BY DEF Begin
<1>3. /\ disk'.vecs = vecs /\ disk'.manifest = disk.manifest /\ disk'.vecFile = disk.vecFile
      /\ disk'.slim = disk.slim /\ disk'.slimNewer = disk.slimNewer
  BY <1>1, <1>2 DEF Disk
<1>4. /\ store'.slots = store.slots /\ store'.idToSlot = store.idToSlot
      /\ store'.deleted = store.deleted /\ store'.dirty = {}
  BY <1>1, <1>2, DirtyType
<1>5. LiveSlots(store') = LiveSlots(store)
  BY <1>4 DEF LiveSlots
<1>6. Dense(store', vecOpen')
  BY <1>2, <1>4, <1>5 DEF Dense
<1>7. Kept(store', disk'.vecs, job'.todo)
  BY <1>2, <1>3, <1>4, <1>5 DEF Kept, Saved
<1>8. SnapshotsWhole(disk')
  BY <1>3 DEF SnapshotsWhole, UsesSlim, DInv
<1>9. Current' = Current
  BY <1>3, <1>4, SameMap DEF Current
<1> QED
  BY <1>2, <1>3, <1>4, <1>6, <1>7, <1>8, <1>9 DEF DInv

LEMMA BeginsKeepSight ==
  ASSUME TInv, CInv, DInv, BeginFull \/ BeginFast \/ BeginIncremental
  PROVE  DInv' /\ Current' = Current
<1>1. store \in Store /\ disk \in Disk /\ Dense(store, vecOpen) /\ vecOpen \in BOOLEAN
      /\ Kept(store, disk.vecs, job.todo)
  BY StateTypes DEF DInv
<1>2. job.todo = {}
  BY DEF TInv, TypeOK, BeginFull, BeginFast, BeginIncremental
<1>3. /\ LiveSlots(store) \subseteq DOMAIN store.slots
      /\ disk.vecs \in Seq(Val \cup {Zero}) /\ << >> \in Seq(Val \cup {Zero})
      /\ store.slots = << >> => LiveSlots(store) = {}
  BY <1>1, LiveSlotsType DEF Disk
<1>4. CASE BeginFull
  <2> DEFINE zeros == [s \in DOMAIN store.slots |-> Zero]
             vecs == IF store.slots = << >> THEN disk.vecs ELSE zeros
  <2>1. zeros \in Seq(Val \cup {Zero})
    BY <1>1, ZerosType
  <2>2. Begin("full", DOMAIN store.slots, vecs) /\ ~vecOpen
    BY <1>4 DEF BeginFull
  <2> HIDE DEF zeros
  <2>3. vecs \in Seq(Val \cup {Zero})
    BY <1>3, <2>1
  <2>4. \A s \in LiveSlots(store) : store.slots[s].vec \notin View
    BY <1>1, <2>2 DEF Dense
  <2>5. SameSight(store, disk.vecs, vecs)
    BY <2>4 DEF SameSight, Seen
  <2>6. \A s \in LiveSlots(store) : s \in DOMAIN store.slots
    BY <1>3
  <2>7. Dense(store, store.slots # << >>)
    BY <1>1, <2>4 DEF Dense
  <2> HIDE DEF vecs
  <2> QED
    BY <2>2, <2>3, <2>5, <2>6, <2>7, BeginKeepsSight
<1>5. CASE BeginIncremental /\ store.slots = << >>
  <2>1. Begin("incremental", store.dirty, << >>)
    BY <1>5 DEF BeginIncremental
  <2>2. SameSight(store, disk.vecs, << >>) /\ Dense(store, store.slots # << >>)
    BY <1>3, <1>5 DEF SameSight, Dense
  <2>3. \A s \in LiveSlots(store) : s \in store.dirty \/ Saved(store, << >>, s)
    BY <1>3, <1>5
  <2> QED
    BY <1>3, <2>1, <2>2, <2>3, BeginKeepsSight
<1>6. CASE BeginFast \/ (BeginIncremental /\ store.slots # << >>)
  <2>1. vecOpen /\ \E kind : Begin(kind, store.dirty, Grown(disk.vecs))
    BY <1>6 DEF BeginFast, BeginIncremental
  <2>2. Grown(disk.vecs) \in Seq(Val \cup {Zero})
    BY GrownType
  <2>3. SameSight(store, disk.vecs, Grown(disk.vecs))
    BY GrownSight DEF SameSight
  <2>4. \A s \in LiveSlots(store) : s \in store.dirty \/ Saved(store, Grown(disk.vecs), s)
    <3>1. \A s \in LiveSlots(store) : s \in store.dirty \/ Saved(store, disk.vecs, s)
      BY <1>1, <1>2 DEF Kept
    <3>2. \A s \in DOMAIN disk.vecs : s \in DOMAIN Grown(disk.vecs)
                                      /\ Grown(disk.vecs)[s] = disk.vecs[s]
      BY GrownType
    <3> QED
      BY <2>3, <3>1, <3>2 DEF Saved, SameSight
  <2>5. Dense(store, store.slots # << >>)
    BY <1>1, <1>3, <2>1 DEF Dense
  <2> QED
    BY <2>1, <2>2, <2>3, <2>4, <2>5, BeginKeepsSight
<1> QED
  BY <1>4, <1>5, <1>6

\* A slot is written with what readers see in it, be it a view of that very slot.
LEMMA WriteSlotKeepsSight ==
  ASSUME TInv, TInv', CInv, DInv, WriteSlot
  PROVE  DInv' /\ Current' = Current
<1>1. store \in Store /\ disk \in Disk /\ MappingFits /\ Dense(store, vecOpen)
      /\ Kept(store, disk.vecs, job.todo)
  BY StateTypes DEF CInv, DInv
<1> DEFINE s == Min(job.todo)
<1>2. /\ step = "write" /\ disk' = [disk EXCEPT !.vecs[s] = VectorToWrite(s)]
      /\ job' = [job EXCEPT !.todo = @ \ {s}]
      /\ UNCHANGED <<store, epoch, nextTs, vecOpen, step, survivors, budget>>
  BY DEF WriteSlot
<1> HIDE DEF s
<1>3. /\ disk'.manifest = disk.manifest
      /\ disk'.vecFile = disk.vecFile /\ disk'.slim = disk.slim
      /\ disk'.slimNewer = disk.slimNewer
      /\ disk'.vecs = [disk.vecs EXCEPT ![s] = VectorToWrite(s)]
  BY <1>1, <1>2 DEF Disk
<1>4. job'.todo = job.todo \ {s}
  BY <1>2 DEF TInv, TypeOK
<1>5. LiveSlots(store) \subseteq DOMAIN disk.vecs
  <2>1. /\ LiveSlots(store) \subseteq 1..Len(store.slots) /\ Len(store.slots) \in Nat
        /\ DOMAIN disk.vecs = 1..Len(disk.vecs) /\ Len(disk.vecs) \in Nat
    BY <1>1, LiveSlotsType DEF Disk
  <2>2. Len(store.slots) <= Len(disk.vecs)
    BY <1>1, <1>2 DEF MappingFits
  <2> QED
    BY <2>1, <2>2
<1>6. s \in LiveSlots(store) => VectorToWrite(s) = Seen(store.slots[s].vec, disk.vecs)
  BY <1>1 DEF VectorToWrite, Dense
<1>7. SameSight(store, disk.vecs, disk'.vecs)
  <2> SUFFICES ASSUME NEW t \in LiveSlots(store)
               PROVE  Seen(store.slots[t].vec, disk'.vecs) = Seen(store.slots[t].vec, disk.vecs)
    BY DEF SameSight
  <2>1. CASE store.slots[t].vec \notin View
    BY <2>1 DEF Seen
  <2>2. CASE store.slots[t].vec \in View
    <3>1. store.slots[t].vec = t /\ t \in DOMAIN disk.vecs
      BY <1>1, <1>5, <2>2 DEF Dense
    <3>2. Seen(store.slots[t].vec, disk.vecs) = disk.vecs[t]
          /\ Seen(store.slots[t].vec, disk'.vecs) = disk'.vecs[t]
      BY <1>3, <2>2, <3>1 DEF Seen
    <3>3. disk'.vecs[t] = disk.vecs[t]
      BY <1>3, <1>6, <3>1, <3>2
    <3> QED
      BY <3>2, <3>3
  <2> QED
    BY <2>1, <2>2
<1>8. Kept(store', disk'.vecs, job'.todo)
  <2> SUFFICES ASSUME NEW t \in LiveSlots(store), t \notin store.dirty, t \notin job.todo \ {s}
               PROVE  Saved(store, disk'.vecs, t)
    BY <1>2, <1>4 DEF Kept
  <2>1. t \in DOMAIN disk'.vecs /\ Seen(store.slots[t].vec, disk'.vecs) = Seen(store.slots[t].vec, disk.vecs)
    BY <1>3, <1>5, <1>7 DEF SameSight
  <2>2. CASE t = s
    <3>1. disk'.vecs[t] = Seen(store.slots[t].vec, disk.vecs)
      BY <1>3, <1>5, <1>6, <2>2
    <3> QED
      BY <2>1, <3>1 DEF Saved
  <2>3. CASE t # s
    <3>1. Saved(store, disk.vecs, t)
      BY <1>1, <2>3 DEF Kept
    <3>2. disk'.vecs[t] = disk.vecs[t]
      BY <1>3, <1>5, <2>3
    <3> QED
      BY <2>1, <3>1, <3>2 DEF Saved
  <2> QED
    BY <2>2, <2>3
<1>9. SnapshotsWhole(disk')
  BY <1>3 DEF SnapshotsWhole, UsesSlim, DInv
<1>10. Current' = Current
  BY <1>2, <1>7, SameMap DEF Current
<1> QED
  BY <1>2, <1>3, <1>8, <1>9, <1>10 DEF DInv

LEMMA PublishKeepsSight ==
  ASSUME TInv, TInv', CInv, DInv, ~Overlaid, PublishSlim \/ PublishManifest
  PROVE  DInv' /\ Current' = Current
<1>1. store \in Store /\ disk \in Disk /\ Consistent(store) /\ epoch \in Nat
      /\ Dense(store, vecOpen)
  BY StateTypes DEF DInv
<1>2. step = "write" /\ step' = "truncate" /\ job.todo = {}
      /\ UNCHANGED <<store, epoch, vecOpen, job>>
  BY DEF PublishSlim, PublishManifest
<1> DEFINE snap == SnapshotOf(store, epoch)
<1>3. Whole(snap) /\ snap.deleted = store.deleted /\ snap # None
  BY <1>1, SnapshotWhole
<1> HIDE DEF snap
<1>4. disk'.vecs = disk.vecs
  BY <1>1 DEF Disk, PublishSlim, PublishManifest
<1>5. SnapshotsWhole(disk') /\ Chosen(disk') = snap
  <2>1. CASE PublishSlim
    <3>1. disk' = [disk EXCEPT !.slim = snap, !.slimNewer = TRUE]
      BY <2>1 DEF PublishSlim, snap
    <3>2. /\ disk'.slim = snap /\ disk'.slimNewer = TRUE
          /\ disk'.manifest = disk.manifest /\ disk'.vecFile = disk.vecFile
      BY <1>1, <3>1 DEF Disk
    <3>3. disk.manifest.deleted \subseteq store.deleted
      BY <2>1 DEF Overlaid
    <3> QED
      BY <1>3, <3>2, <3>3 DEF SnapshotsWhole, UsesSlim, Chosen, DInv
  <2>2. CASE PublishManifest
    <3>1. disk' = [disk EXCEPT !.manifest = snap, !.maxTs = MaxTimestamp(disk, nextTs),
                               !.vecFile = vecOpen, !.slimNewer = FALSE]
      BY <2>2 DEF PublishManifest, snap
    <3>2. /\ disk'.manifest = snap /\ disk'.slimNewer = FALSE /\ disk'.vecFile = vecOpen
      BY <1>1, <3>1 DEF Disk
    <3> QED
      BY <1>3, <3>2 DEF SnapshotsWhole, UsesSlim, Chosen
  <2> QED
    BY <2>1, <2>2
<1>6. Current' = Current
  BY <1>2, <1>4 DEF Current
<1>7. SnapshotOf(store', epoch') = snap
  BY <1>2 DEF snap
<1> QED
  BY <1>2, <1>4, <1>5, <1>6, <1>7 DEF DInv

LEMMA RestartKeepsSight ==
  ASSUME TInv, TInv', CInv, DInv, ~Emptied, Restart
  PROVE  DInv'
<1>1. disk \in Disk /\ FilesFit(disk) /\ SnapshotsWhole(disk)
  BY StateTypes DEF DInv
<1>2. step' = "idle" /\ disk' = disk /\ store' = Recovered(disk) /\ vecOpen' = OpensVecs(disk)
      /\ job'.todo = {}
  BY DEF Restart, NoJob
<1>3. PICK d \in Disk, n \in 0..SlotLimit :
         d = disk /\ Len(d.vecs) <= n /\ InRange(Chosen(d).ids, n)
  BY <1>1, FilesToRecover
<1>4. FilesFit(d) /\ SnapshotsWhole(d)
  BY <1>1, <1>3
<1>5. Dense(InitialRecords(d), OpensVecs(d)) /\ Kept(InitialRecords(d), d.vecs, {})
  BY <1>3, <1>4, InitialDense
<1>6. Continues(InitialRecords(d), Recovered(d))
  BY <1>3, <1>4, RecoveredContinues
<1>7. Dense(Recovered(d), OpensVecs(d)) /\ Kept(Recovered(d), d.vecs, {})
  BY <1>5, <1>6, ContinuesKeeps
<1> QED
  BY <1>2, <1>3, <1>4, <1>7 DEF DInv

LEMMA InitSight == Init => DInv
<1> SUFFICES ASSUME Init PROVE DInv
  OBVIOUS
<1>1. disk = EmptyDisk /\ store = EmptyStore /\ vecOpen = FALSE /\ step = "idle"
  BY DEF Init
<1>2. LiveSlots(EmptyStore) = {}
  BY DEF LiveSlots, EmptyStore
<1>3. /\ disk.manifest = SnapshotOf(EmptyStore, None) /\ disk.slim = None
      /\ disk.vecFile = FALSE
      /\ disk.manifest.ids = [i \in Name |-> NoSlot]
  BY <1>1, EmptyType DEF EmptyDisk
<1>5. Mapped(disk.manifest) = {}
  BY <1>3 DEF Mapped
<1>6. Whole(disk.manifest)
  BY <1>3, <1>5 DEF Whole
<1> QED
  BY <1>1, <1>2, <1>3, <1>6 DEF DInv, Dense, Kept, SnapshotsWhole, UsesSlim

\* Steps that are no calls, and those calls that readers must not notice.
Undisturbed == step # "idle" \/ Compact \/ Flush => Restart \/ Current' = Current

LEMMA NextSight ==
  TInv /\ CInv /\ DInv /\ TInv' /\ [Next]_vars /\ [~Detaching]_vars
    => DInv' /\ [Undisturbed]_vars
<1> SUFFICES ASSUME TInv, CInv, DInv, TInv', [Next]_vars, [~Detaching]_vars
             PROVE  DInv' /\ [Undisturbed]_vars
  OBVIOUS
<1>1. CASE UNCHANGED vars
  BY <1>1 DEF vars, DInv
<1>2. CASE Next /\ ~Detaching
  <2>1. CASE Renumbers
    BY <1>2, <2>1, CompactKeepsSight DEF Detaching, Undisturbed
  <2>2. CASE /\ ~Renumbers
             /\ \/ DeleteNone \/ Compact \/ Flush \/ NothingDirty
                \/ FailToStat \/ FailToGrow \/ FailToPublish \/ FailToStamp \/ StampEpoch
    BY <1>2, <2>2, OthersKeepSight DEF Detaching, Undisturbed
  <2>3. ASSUME ~Compact, ~Flush, NEW k \in Key,
               Delete(k) \/ \E v \in Val : Set(k, v) \/ SetBatch(k, v) \/ Update(k, v)
        PROVE  DInv' /\ Undisturbed
    BY <2>3, WritesKeepSight DEF Undisturbed
  <2>4. CASE BeginFull \/ BeginFast \/ BeginIncremental
    BY <2>4, BeginsKeepSight DEF Undisturbed
  <2>5. CASE WriteSlot
    BY <2>5, WriteSlotKeepsSight DEF Undisturbed
  <2>6. CASE PublishSlim \/ PublishManifest
    BY <1>2, <2>6, PublishKeepsSight DEF Detaching, Undisturbed
  <2>7. CASE EmptyWal
    BY <2>7, EmptyWalKeepsSight DEF Undisturbed
  <2>8. CASE Restart
    BY <1>2, <2>8, RestartKeepsSight DEF Detaching, Disputed, Undisturbed
  <2> QED
    BY <1>2, <2>1, <2>2, <2>3, <2>4, <2>5, <2>6, <2>7, <2>8 DEF Next
<1> QED
  BY <1>1, <1>2

LEMMA DetachingDisputes == [~Detaching]_vars => [~Disputed]_vars
BY DEF Detaching

\* Checkpoints, compactions and the steps of both change nothing a reader sees,
\* whatever fails and restarts between them, unless a step is Detaching.
THEOREM ReadersCorrect ==
  Spec /\ [][~Detaching]_vars => ReadersUndisturbed
<1>1. [Undisturbed]_vars
        => [step # "idle" \/ Compact \/ Flush => Restart \/ Current' = Current]_vars
  BY DEF Undisturbed
<1> QED
  BY <1>1, DetachingDisputes, InitType, NextType, InitConsistent, NextConsistent, InitSight,
     NextSight, PTL DEF Spec, ReadersUndisturbed

-----------------------------------------------------------------------------
(* What a finished checkpoint leaves in the files.                         *)

LEMMA EmptyWalRecovers ==
  ASSUME NEW d \in Disk, NEW n \in 0..SlotLimit, Len(d.vecs) <= n, InRange(Chosen(d).ids, n),
         d.wal = << >>
  PROVE  Recovered(d) = InitialRecords(d)
<1> DEFINE P == {x \in Nat \X Store : x[2] = InitialRecords(d)}
<1>1. <<0, InitialRecords(d)>> \in P
  BY InitialType
<1>2. Len(d.wal) = 0
  OBVIOUS
<1>3. \A m \in 1..Len(d.wal), st \in Store :
        <<m - 1, st>> \in P => <<m, ReplayedUnlessCovered(d, st, d.wal[m])>> \in P
  BY <1>2
<1>4. <<Len(d.wal), Recovered(d)>> \in P
  <2>1. P \in SUBSET (Nat \X Store)
    OBVIOUS
  <2> HIDE DEF P
  <2> QED
    BY <1>1, <1>3, <2>1, RecoveredInduction
<1> QED
  BY <1>4

\* The names, and the slots of the names, are those of the snapshot.
LEMMA InitialNames ==
  ASSUME NEW d \in Disk, NEW n \in 0..SlotLimit, Len(d.vecs) <= n, InRange(Chosen(d).ids, n),
         FilesFit(d), SnapshotsWhole(d), NEW k \in Key
  PROVE  /\ Found(InitialRecords(d), k) <=> Chosen(d).ids[k] # NoSlot
         /\ Found(InitialRecords(d), k) => InitialRecords(d).idToSlot[k] = Chosen(d).ids[k]
<1> DEFINE first == InitialRecords(d)
           ids == Chosen(d).ids
<1>1. /\ first \in Store /\ Consistent(first) /\ first.slots = InitialSlots(d)
      /\ Len(first.slots) = LastSlot(d)
  BY InitialType, InitialConsistent DEF Sound
<1>2. /\ LiveSlots(first) \subseteq DOMAIN first.slots /\ LiveSlots(first) \subseteq Slot
      /\ DOMAIN first.slots = 1..Len(first.slots)
      /\ \A s \in LiveSlots(first) : first.slots[s] # None
  BY <1>1, LiveSlotsType DEF LiveSlots
<1>3. Homes(ids) /\ Len(d.vecs) <= SlotLimit
  <2>1. Len(d.vecs) \in Nat
    BY DEF Disk
  <2> QED
    BY <2>1, ChosenFits, SlotLimitAssumption
<1>4. k \in Name /\ k \notin PhantomName
  BY KeyNoPhantom
<1>5. \A s \in LiveSlots(first) :
        /\ s \in Mapped(Chosen(d)) => ids[first.slots[s].id] = s
        /\ s \notin Mapped(Chosen(d)) => first.slots[s].id \in PhantomName
  <2> SUFFICES ASSUME NEW s \in LiveSlots(first)
               PROVE  /\ s \in Mapped(Chosen(d)) => ids[first.slots[s].id] = s
                      /\ s \notin Mapped(Chosen(d)) => first.slots[s].id \in PhantomName
    OBVIOUS
  <2>1. s \in Slot /\ first.slots[s] = InitialSlot(d, s) /\ InitialSlot(d, s) # None
    BY <1>1, <1>2 DEF InitialSlots
  <2> QED
    BY <1>3, <2>1, InitialSlotName
<1>6. \A s \in LiveSlots(first) : first.idToSlot[first.slots[s].id] = s /\ first.slots[s].id \in Name
  <2>1. \A s \in LiveSlots(first) : first.slots[s] \in Record
    BY <1>1, LiveSlotsType
  <2> QED
    BY <1>1, <2>1 DEF Consistent, LiveSlotsMapped, Record
<1>7. \A i \in Name : first.idToSlot[i] # NoSlot =>
        first.idToSlot[i] \in LiveSlots(first) /\ first.slots[first.idToSlot[i]].id = i
  BY <1>1 DEF Consistent, IdMapSound
<1>8. /\ \A i, j \in Name : ids[i] = ids[j] /\ ids[i] # NoSlot => i = j
      /\ \A i \in Name : ids[i] # NoSlot => ids[i] \in Mapped(Chosen(d))
      /\ \A s \in Mapped(Chosen(d)) : s \in LiveSlots(first) /\ s # NoSlot
  BY InitialDense DEF SnapshotsWhole, Chosen, Whole, Mapped
<1> HIDE DEF first, ids
<1>9. ASSUME Found(first, k)
      PROVE  first.idToSlot[k] = ids[k] /\ ids[k] # NoSlot
  <2>1. first.idToSlot[k] \in LiveSlots(first) /\ first.idToSlot[k] # NoSlot
    BY <1>2, <1>9 DEF Found, Slot
  <2>2. first.slots[first.idToSlot[k]].id = k
    BY <1>4, <1>7, <2>1
  <2> QED
    BY <1>4, <1>5, <2>1, <2>2
<1>10. ASSUME ids[k] # NoSlot
       PROVE  Found(first, k)
  <2>1. ids[k] \in LiveSlots(first) /\ ids[k] \in Mapped(Chosen(d))
    BY <1>4, <1>8, <1>10
  <2>2. ids[first.slots[ids[k]].id] = ids[k] /\ first.slots[ids[k]].id \in Name
    BY <1>5, <1>6, <2>1
  <2>3. first.slots[ids[k]].id = k
    BY <1>4, <1>8, <1>10, <2>2
  <2>4. first.idToSlot[k] = ids[k]
    BY <1>6, <2>1, <2>3
  <2> QED
    BY <2>1, <2>4 DEF Found
<1> QED
  BY <1>9, <1>10 DEF first, ids

\* A saved store reads back as it was.
LEMMA ReadBack ==
  ASSUME NEW d \in Disk, NEW n \in 0..SlotLimit, Len(d.vecs) <= n, InRange(Chosen(d).ids, n),
         NEW st \in Store, Consistent(st), FilesFit(d), SnapshotsWhole(d),
         NEW e \in Nat, Chosen(d) = SnapshotOf(st, e),
         \A s \in LiveSlots(st) : Saved(st, d.vecs, s)
  PROVE  MapOf(InitialRecords(d), d.vecs) = MapOf(st, d.vecs)
<1> DEFINE first == InitialRecords(d)
           snap == SnapshotOf(st, e)
<1>1. /\ snap.ids = st.idToSlot
      /\ \A k \in Name : st.idToSlot[k] # NoSlot =>
           st.idToSlot[k] \in LiveSlots(st) /\ st.slots[st.idToSlot[k]].id = k
  BY MappedInStore, SnapshotType
<1>2. \A s \in LiveSlots(st) : s # NoSlot /\ s \in DOMAIN st.slots /\ st.slots[s] # None
  BY LiveSlotsType DEF LiveSlots, Slot
<1>3. \A s \in LiveSlots(st) : MetaAt(snap, s) = st.slots[s].meta
  BY <1>2 DEF MetaAt, SnapshotOf
<1>4. \A s \in LiveSlots(first) : s \in DOMAIN d.vecs /\ first.slots[s].vec = s /\ s \in View
  BY InitialDense
<1>5. \A s \in LiveSlots(first) : first.slots[s].meta = MetaAt(snap, s)
  <2> SUFFICES ASSUME NEW s \in LiveSlots(first)
               PROVE  first.slots[s].meta = MetaAt(Chosen(d), s)
    OBVIOUS
  <2>1. /\ first.slots = InitialSlots(d) /\ s \in DOMAIN first.slots /\ first.slots[s] # None
    BY InitialType DEF LiveSlots
  <2>2. first.slots[s] = InitialSlot(d, s) /\ InitialSlot(d, s) # None
    BY <2>1 DEF InitialSlots
  <2> HIDE DEF first
  <2> QED
    BY <2>2 DEF InitialSlot, InitialRecord
<1>6. \A k \in Key : /\ Found(first, k) <=> st.idToSlot[k] # NoSlot
                     /\ Found(first, k) => first.idToSlot[k] = st.idToSlot[k]
  BY <1>1, InitialNames
<1> HIDE DEF first, snap
<1>7. ASSUME NEW k \in Key
      PROVE  Document(first, d.vecs, k) = Document(st, d.vecs, k)
  <2>1. k \in Name
    BY KeyNoPhantom
  <2>2. CASE st.idToSlot[k] = NoSlot
    <3>1. ~Found(st, k) /\ ~Found(first, k)
      BY <1>2, <1>6, <2>2 DEF Found
    <3> QED
      BY <3>1 DEF Document, RecordOf
  <2>3. CASE st.idToSlot[k] # NoSlot
    <3> DEFINE s == st.idToSlot[k]
    <3>1. /\ Found(st, k) /\ Found(first, k) /\ s \in LiveSlots(st)
          /\ s \in LiveSlots(first) /\ first.idToSlot[k] = s
      BY <1>1, <1>6, <2>1, <2>3 DEF Found
    <3> HIDE DEF s
    <3>2. RecordOf(first, k) = first.slots[s] /\ RecordOf(st, k) = st.slots[s]
      BY <3>1 DEF RecordOf, s
    <3>3. first.slots[s].meta = st.slots[s].meta
      BY <1>3, <1>5, <3>1
    <3>4. Seen(first.slots[s].vec, d.vecs) = Seen(st.slots[s].vec, d.vecs)
      <4>1. Saved(st, d.vecs, s) /\ first.slots[s].vec = s /\ s \in View /\ s \in DOMAIN d.vecs
        BY <1>4, <3>1
      <4>2. Seen(s, d.vecs) = d.vecs[s]
        BY <4>1 DEF Seen
      <4> QED
        BY <4>1, <4>2 DEF Saved
    <3>5. first.slots[s] # None /\ st.slots[s] # None
      BY <1>2, <3>1 DEF LiveSlots
    <3> QED
      BY <3>2, <3>3, <3>4, <3>5 DEF Document
  <2> QED
    BY <2>2, <2>3
<1>8. MapOf(first, d.vecs) = MapOf(st, d.vecs)
  BY <1>7 DEF MapOf
<1> QED
  BY <1>8 DEF first

LEMMA StampedComplete ==
  ASSUME TInv, TInv', CInv, DInv, StampEpoch
  PROVE  MapOf(Recovered(disk'), disk'.vecs) = Current
<1>1. /\ disk \in Disk /\ disk' \in Disk /\ store \in Store /\ Consistent(store)
      /\ NamesHome(disk) /\ FilesFit(disk) /\ epoch \in Nat
  BY StateTypes DEF TInv, TypeOK, CInv, StampEpoch
<1>2. step = "stamp" /\ disk' = [disk EXCEPT !.metaEpoch = epoch + 1] /\ job.todo = {}
  BY DEF TInv, TypeOK, StampEpoch
<1>3. /\ disk'.vecs = disk.vecs /\ disk'.manifest = disk.manifest
      /\ disk'.vecFile = disk.vecFile /\ disk'.wal = << >>
      /\ disk'.slim = disk.slim /\ disk'.slimNewer = disk.slimNewer
  BY <1>1, <1>2 DEF Disk, DInv
<1>4. Chosen(disk') = Chosen(disk) /\ Chosen(disk) = SnapshotOf(store, epoch)
      /\ SnapshotsWhole(disk')
  BY <1>2, <1>3 DEF Chosen, UsesSlim, SnapshotsWhole, DInv
<1>5. \A s \in LiveSlots(store) : Saved(store, disk.vecs, s)
  BY <1>2 DEF DInv, Kept
<1>6. PICK d \in Disk, old \in Disk, st \in Store, n \in 0..SlotLimit, e \in Nat :
         /\ d = disk' /\ old = disk /\ st = store /\ e = epoch
         /\ Len(old.vecs) <= n /\ InRange(Chosen(old).ids, n)
  BY <1>1, FilesToRecover
<1>7. Len(d.vecs) <= n /\ InRange(Chosen(d).ids, n) /\ d.wal = << >> /\ SnapshotsWhole(d)
      /\ Chosen(d) = SnapshotOf(st, e) /\ Consistent(st)
      /\ \A s \in LiveSlots(st) : Saved(st, d.vecs, s)
  BY <1>1, <1>3, <1>4, <1>5, <1>6
<1>8. FilesFit(d)
  <2>1. /\ FilesFit(old) /\ NamesHome(old) /\ DOMAIN old.vecs \subseteq DOMAIN d.vecs
        /\ d.manifest = old.manifest
        /\ d.vecFile = old.vecFile /\ d.slim = old.slim /\ d.slimNewer = old.slimNewer
    BY <1>1, <1>3, <1>6
  <2> QED
    BY <2>1, SameFit
<1>9. Recovered(d) = InitialRecords(d)
  BY <1>7, EmptyWalRecovers
<1>10. MapOf(Recovered(d), d.vecs) = MapOf(st, d.vecs)
  BY <1>7, <1>8, <1>9, ReadBack
<1> QED
  BY <1>3, <1>6, <1>10 DEF Current

\* A checkpoint that succeeds has everything in the files, whatever failed, restarted
\* or was never written before it, unless a step was Detaching.
THEOREM CheckpointsCorrect ==
  Spec /\ [][~Detaching]_vars => CheckpointsComplete
<1>1. TInv /\ TInv' /\ CInv /\ DInv /\ [Next]_vars
        => [StampEpoch => MapOf(Recovered(disk'), disk'.vecs) = Current]_vars
  <2> SUFFICES ASSUME TInv, TInv', CInv, DInv, StampEpoch
               PROVE  MapOf(Recovered(disk'), disk'.vecs) = Current
    OBVIOUS
  <2> QED
    BY StampedComplete
<1> QED
  BY <1>1, DetachingDisputes, InitType, NextType, InitConsistent, NextConsistent, InitSight,
     NextSight, PTL DEF Spec, CheckpointsComplete

-----------------------------------------------------------------------------
(* The persistent store implements the durable map: whatever fails and     *)
(* restarts, each key keeps a document that a restart may leave.  The      *)
(* proof follows, for every key, what the files hold for it: the last      *)
(* entry of the log that recovery replays, or else what the snapshot and   *)
(* .vecs say.                                                              *)

-----------------------------------------------------------------------------
(* What the writes make of the documents.                                  *)

LEMMA DocumentFound ==
  ASSUME NEW st \in Store, NEW vecs, NEW k
  PROVE  /\ Found(st, k) =>
              Document(st, vecs, k) = [vec |-> Seen(st.slots[st.idToSlot[k]].vec, vecs),
                                       meta |-> st.slots[st.idToSlot[k]].meta]
         /\ ~Found(st, k) => Document(st, vecs, k) = None
<1>1. Found(st, k) => RecordOf(st, k) = st.slots[st.idToSlot[k]] /\ RecordOf(st, k) # None
  BY DEF Found, RecordOf, LiveSlots
<1> QED
  BY <1>1 DEF Document, RecordOf

\* A record that stays in its slot under its name keeps its document.
LEMMA SameDocument ==
  ASSUME NEW st \in Store, NEW new \in Store, NEW vecs, NEW k,
         Found(new, k) <=> Found(st, k),
         Found(st, k) => new.idToSlot[k] = st.idToSlot[k]
                         /\ new.slots[st.idToSlot[k]] = st.slots[st.idToSlot[k]]
  PROVE  Document(new, vecs, k) = Document(st, vecs, k)
BY DocumentFound

LEMMA UpsertDocument ==
  ASSUME NEW st \in Store, Consistent(st), NEW rec \in Record, NEW vecs, NEW k \in Name
  PROVE  Document(Upserted(st, rec), vecs, k)
           = IF k = rec.id THEN [vec |-> Seen(rec.vec, vecs), meta |-> rec.meta]
             ELSE Document(st, vecs, k)
<1> DEFINE new == Upserted(st, rec)
           n == Len(st.slots) + 1
           old == st.idToSlot[rec.id]
<1>1. new \in Store
  BY UpsertKeeps
<1>2. /\ new.idToSlot = [st.idToSlot EXCEPT ![rec.id] = n]
      /\ LiveSlots(new) = (LiveSlots(st) \ {old}) \cup {n}
      /\ n \notin LiveSlots(st)
      /\ \A s \in DOMAIN st.slots : new.slots[s] = st.slots[s]
      /\ new.slots[n] = rec
  <2>1. Facts!Moved(st, rec, new, old, n)
    BY UpsertEffect
  <2> HIDE DEF new, n, old
  <2> QED
    BY <2>1, SameReaders DEF Facts!Moved
<1>3. LiveSlots(st) \subseteq DOMAIN st.slots /\ NoSlot \notin LiveSlots(st)
      /\ Len(st.slots) \in Nat /\ st.idToSlot \in [Name -> Nat] /\ rec.id \in Name
  BY LiveSlotsType DEF Store, Record
<1>4. \A i \in Name : st.idToSlot[i] # NoSlot =>
        st.idToSlot[i] \in LiveSlots(st) /\ st.slots[st.idToSlot[i]].id = i
  BY DEF Consistent, IdMapSound
<1>5. n # NoSlot
  BY <1>3 DEF NoSlot
<1> HIDE DEF new, n
<1>6. CASE k = rec.id
  <2>1. Found(new, k) /\ new.idToSlot[k] = n
    BY <1>2, <1>3, <1>6 DEF Found
  <2>2. new.slots[new.idToSlot[k]] = rec
    BY <1>2, <2>1
  <2>3. Document(new, vecs, k) = [vec |-> Seen(new.slots[new.idToSlot[k]].vec, vecs),
                                  meta |-> new.slots[new.idToSlot[k]].meta]
    BY <1>1, <2>1, DocumentFound
  <2> QED
    BY <1>6, <2>2, <2>3 DEF new
<1>7. CASE k # rec.id
  <2>1. new.idToSlot[k] = st.idToSlot[k]
    BY <1>2, <1>3, <1>7
  <2>2. Found(st, k) => st.idToSlot[k] # old
    BY <1>3, <1>4, <1>7 DEF Found
  <2>3. Found(new, k) <=> Found(st, k)
    <3>1. st.idToSlot[k] # n
      BY <1>2, <1>4, <1>5
    <3> QED
      BY <1>2, <2>1, <2>2, <3>1 DEF Found
  <2>4. Found(st, k) => new.slots[st.idToSlot[k]] = st.slots[st.idToSlot[k]]
    BY <1>2, <1>3 DEF Found
  <2>5. Document(new, vecs, k) = Document(st, vecs, k)
    BY <1>1, <2>1, <2>3, <2>4, SameDocument
  <2> QED
    BY <1>7, <2>5 DEF new
<1> QED
  BY <1>6, <1>7

LEMMA RemoveDocument ==
  ASSUME NEW st \in Store, Consistent(st), NEW i \in Name, Deletable(st, i), NEW vecs,
         NEW k \in Name
  PROVE  Document(Removed(st, i), vecs, k) = IF k = i THEN None ELSE Document(st, vecs, k)
<1> DEFINE new == Removed(st, i)
           old == st.idToSlot[i]
<1>1. new \in Store
  BY RemoveKeeps
<1>2. /\ new.slots = st.slots
      /\ new.idToSlot = [st.idToSlot EXCEPT ![i] = NoSlot]
      /\ LiveSlots(new) = LiveSlots(st) \ {old}
      /\ old \in LiveSlots(st) /\ st.slots[old].id = i
  <2>1. Facts!Gone(st, i, new, old)
    BY RemoveEffect
  <2> HIDE DEF new, old
  <2> QED
    BY <2>1, SameReaders DEF Facts!Gone
<1>3. NoSlot \notin LiveSlots(st) /\ st.idToSlot \in [Name -> Nat]
  BY LiveSlotsType DEF Store
<1>4. \A j \in Name : st.idToSlot[j] # NoSlot => st.slots[st.idToSlot[j]].id = j
  BY DEF Consistent, IdMapSound
<1> HIDE DEF new, old
<1>5. CASE k = i
  <2>1. ~Found(new, k)
    BY <1>2, <1>3, <1>5 DEF Found
  <2> QED
    BY <1>1, <1>5, <2>1, DocumentFound DEF new
<1>6. CASE k # i
  <2>1. new.idToSlot[k] = st.idToSlot[k]
    BY <1>2, <1>3, <1>6
  <2>2. Found(st, k) => st.idToSlot[k] # old
    BY <1>2, <1>3, <1>4, <1>6 DEF Found
  <2>3. Found(new, k) <=> Found(st, k)
    BY <1>2, <2>1, <2>2 DEF Found
  <2>4. new.slots[st.idToSlot[k]] = st.slots[st.idToSlot[k]]
    BY <1>2
  <2>5. Document(new, vecs, k) = Document(st, vecs, k)
    BY <1>1, <2>1, <2>3, <2>4, SameDocument
  <2> QED
    BY <1>6, <2>5 DEF new
<1> QED
  BY <1>5, <1>6

LEMMA MetaDocument ==
  ASSUME NEW st \in Store, Consistent(st), NEW i \in Name, Found(st, i), NEW m \in Val, NEW vecs,
         NEW k \in Name
  PROVE  Document(WithMeta(st, st.idToSlot[i], m), vecs, k)
           = IF k = i THEN [vec |-> Document(st, vecs, i).vec, meta |-> m]
             ELSE Document(st, vecs, k)
<1> DEFINE s == st.idToSlot[i]
           new == WithMeta(st, s, m)
<1>1. s \in LiveSlots(st)
  BY DEF Found
<1>2. /\ new \in Store /\ new.slots = [st.slots EXCEPT ![s] = [@ EXCEPT !.meta = m]]
      /\ new.idToSlot = st.idToSlot /\ LiveSlots(new) = LiveSlots(st)
  <2> HIDE DEF s
  <2>1. MetaWritten(st, s, m, new)
    BY <1>1, WithMetaKeeps
  <2> HIDE DEF new
  <2> QED
    BY <2>1 DEF MetaWritten
<1>3. /\ s \in DOMAIN st.slots /\ st.slots[s] \in Record
      /\ \A t \in LiveSlots(st) : t \in DOMAIN st.slots /\ t # NoSlot
  BY <1>1, LiveSlotsType
<1>4. \A j \in Name : st.idToSlot[j] # NoSlot => st.slots[st.idToSlot[j]].id = j
  BY DEF Consistent, IdMapSound
<1>5. new.slots[s].vec = st.slots[s].vec /\ new.slots[s].meta = m
  <2> HIDE DEF s, new
  <2> QED
    BY <1>2, <1>3 DEF Record
<1>6. Found(new, k) <=> Found(st, k)
  <2> HIDE DEF new
  <2> QED
    BY <1>2 DEF Found
<1>7. CASE k = i
  <2>1. Document(st, vecs, i).vec = Seen(st.slots[s].vec, vecs)
    BY DocumentFound
  <2>2. Document(new, vecs, i) = [vec |-> Seen(new.slots[s].vec, vecs), meta |-> new.slots[s].meta]
    <3> HIDE DEF new
    <3>1. new \in Store /\ Found(new, i) /\ new.idToSlot[i] = s
      BY <1>2, <1>6, <1>7
    <3> HIDE DEF s
    <3> QED
      BY <3>1, DocumentFound
  <2> HIDE DEF new
  <2>3. Document(new, vecs, i) = [vec |-> Document(st, vecs, i).vec, meta |-> m]
    BY <1>5, <2>1, <2>2
  <2> QED
    BY <1>7, <2>3 DEF new
<1>8. CASE k # i
  <2>1. Found(st, k) => st.idToSlot[k] # s
    BY <1>3, <1>4, <1>8 DEF Found
  <2>2. Found(st, k) => new.slots[st.idToSlot[k]] = st.slots[st.idToSlot[k]]
    <3> HIDE DEF s, new
    <3> QED
      BY <1>2, <1>3, <2>1 DEF Found
  <2>3. Document(new, vecs, k) = Document(st, vecs, k)
    <3> HIDE DEF new
    <3>1. new \in Store /\ new.idToSlot[k] = st.idToSlot[k]
      BY <1>2
    <3> QED
      BY <1>6, <2>2, <3>1, SameDocument
  <2> QED
    BY <1>8, <2>3
<1> QED
  BY <1>7, <1>8

-----------------------------------------------------------------------------
(* What the files hold for a key.                                          *)

\* The log entries that recovery replays, the last one of each name among them, and
\* the keys that have none.
Replays(d) == {n \in DOMAIN d.wal : ~Covered(d, d.wal[n])}

LastOf(d) == {n \in Replays(d) :
                \A m \in Replays(d) : m > n => d.wal[m].entry.id # d.wal[n].entry.id}

Unlogged(d) == {k \in Key : \A n \in Replays(d) : d.wal[n].entry.id # k}

\* The document that the replay of an entry leaves.
DocOf(e) == IF e.op = "upsert" THEN [vec |-> e.vec, meta |-> e.meta] ELSE None

\* The document that the chosen snapshot and .vecs hold.
SnapDoc(d, k) ==
  IF Chosen(d).ids[k] = NoSlot THEN None
  ELSE [vec |-> d.vecs[Chosen(d).ids[k]], meta |-> Chosen(d).meta[Chosen(d).ids[k]]]

LEMMA ReplayedDocument ==
  ASSUME NEW st, Sound(st), NEW e \in Entry, NEW vecs, NEW k \in Key
  PROVE  Document(Replayed(st, e), vecs, k)
           = IF k = e.id THEN DocOf(e) ELSE Document(st, vecs, k)
<1>1. st \in Store /\ Consistent(st) /\ k \in Name
  BY KeyNoPhantom DEF Sound
<1>2. e.op \in {"upsert", "delete"} /\ e.id \in Name /\ (e.op = "upsert" => RecordIn(e) \in Record)
  BY EntryType
<1>3. CASE e.op = "upsert"
  <2>1. Replayed(st, e) = Upserted(st, RecordIn(e))
    BY <1>3 DEF Replayed, RecordIn
  <2>2. RecordIn(e).id = e.id /\ RecordIn(e).vec = e.vec /\ RecordIn(e).meta = e.meta
    BY DEF RecordIn
  <2>3. e.vec \in Val \cup {Zero} /\ e.vec \notin View
    BY <1>3, ValAssumption DEF Entry
  <2>4. Seen(e.vec, vecs) = e.vec
    BY <2>3 DEF Seen
  <2>5. Document(Upserted(st, RecordIn(e)), vecs, k)
          = IF k = RecordIn(e).id THEN [vec |-> Seen(RecordIn(e).vec, vecs), meta |-> RecordIn(e).meta]
            ELSE Document(st, vecs, k)
    BY <1>1, <1>2, <1>3, UpsertDocument
  <2> QED
    BY <1>3, <2>1, <2>2, <2>4, <2>5 DEF DocOf
<1>4. CASE e.op # "upsert" /\ Deletable(st, e.id)
  <2>1. Replayed(st, e) = Removed(st, e.id)
    BY <1>4 DEF Replayed
  <2>2. Document(Removed(st, e.id), vecs, k) = IF k = e.id THEN None ELSE Document(st, vecs, k)
    BY <1>1, <1>2, <1>4, RemoveDocument
  <2> QED
    BY <1>4, <2>1, <2>2 DEF DocOf
<1>5. CASE e.op # "upsert" /\ ~Deletable(st, e.id)
  <2>1. Replayed(st, e) = st
    BY <1>5 DEF Replayed
  <2>2. ~Found(st, e.id)
    <3>1. \A s \in LiveSlots(st) : s # NoSlot /\ s \notin st.deleted
      BY <1>1, LiveSlotsType
    <3> QED
      BY <1>5, <3>1 DEF Deletable, Found
  <2>3. Document(st, vecs, e.id) = None
    BY <1>1, <2>2, DocumentFound
  <2> QED
    BY <1>5, <2>1, <2>3 DEF DocOf
<1> QED
  BY <1>3, <1>4, <1>5

LEMMA InitialDocument ==
  ASSUME NEW d \in Disk, NEW n \in 0..SlotLimit, Len(d.vecs) <= n, InRange(Chosen(d).ids, n),
         FilesFit(d), SnapshotsWhole(d), NEW k \in Key
  PROVE  Document(InitialRecords(d), d.vecs, k) = SnapDoc(d, k)
<1> DEFINE first == InitialRecords(d)
           snap == Chosen(d)
<1>1. first \in Store /\ first.slots = InitialSlots(d)
  BY InitialType
<1>2. \A s \in LiveSlots(first) : s \in DOMAIN d.vecs /\ first.slots[s].vec = s /\ s \in View
  BY InitialDense
<1>3. \A s \in LiveSlots(first) : first.slots[s].meta = MetaAt(snap, s)
  <2> SUFFICES ASSUME NEW s \in LiveSlots(first)
               PROVE  first.slots[s].meta = MetaAt(Chosen(d), s)
    OBVIOUS
  <2>1. s \in DOMAIN first.slots /\ first.slots[s] # None
    BY DEF LiveSlots
  <2>2. first.slots[s] = InitialSlot(d, s) /\ InitialSlot(d, s) # None
    BY <1>1, <2>1 DEF InitialSlots
  <2> HIDE DEF first
  <2> QED
    BY <2>2 DEF InitialSlot, InitialRecord
<1>4. /\ Found(first, k) <=> snap.ids[k] # NoSlot
      /\ Found(first, k) => first.idToSlot[k] = snap.ids[k]
  BY InitialNames
<1>5. snap.ids[k] # NoSlot => snap.ids[k] \in DOMAIN snap.meta
  <2>1. Whole(snap) /\ k \in Name
    BY KeyNoPhantom DEF SnapshotsWhole, Chosen
  <2> HIDE DEF snap
  <2> QED
    BY <2>1 DEF Whole, Mapped
<1> HIDE DEF first, snap
<1>6. CASE Found(first, k)
  <2>1. snap.ids[k] \in LiveSlots(first)
    BY <1>4, <1>6 DEF Found
  <2>2. Seen(first.slots[snap.ids[k]].vec, d.vecs) = d.vecs[snap.ids[k]]
    BY <1>2, <2>1 DEF Seen
  <2>3. first.slots[snap.ids[k]].meta = snap.meta[snap.ids[k]]
    BY <1>3, <1>4, <1>5, <1>6, <2>1 DEF MetaAt
  <2>4. Document(first, d.vecs, k) = [vec |-> Seen(first.slots[first.idToSlot[k]].vec, d.vecs),
                                      meta |-> first.slots[first.idToSlot[k]].meta]
    BY <1>1, <1>6, DocumentFound
  <2> QED
    BY <1>4, <1>6, <2>2, <2>3, <2>4 DEF SnapDoc, first, snap
<1>7. CASE ~Found(first, k)
  <2>1. Document(first, d.vecs, k) = None
    BY <1>1, <1>7, DocumentFound
  <2> QED
    BY <1>4, <1>7, <2>1 DEF SnapDoc, first, snap
<1> QED
  BY <1>6, <1>7

\* What the first m entries of the log make of the snapshot.
Agrees(d, m, st) ==
  \A k \in Key :
    /\ (\A n \in Replays(d) : n <= m => d.wal[n].entry.id # k)
         => Document(st, d.vecs, k) = SnapDoc(d, k)
    /\ \A n \in Replays(d) :
         n <= m /\ d.wal[n].entry.id = k
         /\ (\A j \in Replays(d) : n < j /\ j <= m => d.wal[j].entry.id # k)
           => Document(st, d.vecs, k) = DocOf(d.wal[n].entry)

LEMMA ReplayAgrees ==
  ASSUME NEW d \in Disk, NEW m \in 1..Len(d.wal), NEW st \in Store, Sound(st),
         Agrees(d, m - 1, st)
  PROVE  Agrees(d, m, ReplayedUnlessCovered(d, st, d.wal[m]))
<1> DEFINE new == ReplayedUnlessCovered(d, st, d.wal[m])
           e == d.wal[m].entry
<1>1. Len(d.wal) \in Nat /\ DOMAIN d.wal = 1..Len(d.wal) /\ e \in Entry
  BY LenProperties, ReplayedUnlessCoveredType DEF Disk
<1>2. Replays(d) \subseteq Nat /\ m \in Nat
  BY <1>1 DEF Replays
<1>3. \A n \in Replays(d) : n <= m <=> n <= m - 1 \/ n = m
  BY <1>2
<1>4. CASE m \notin Replays(d)
  <2>1. new = st
    BY <1>1, <1>4 DEF Replays, ReplayedUnlessCovered
  <2>2. \A n \in Replays(d) : n <= m <=> n <= m - 1
    BY <1>3, <1>4
  <2>3. Agrees(d, m, st)
    BY <2>2 DEF Agrees
  <2> QED
    BY <2>1, <2>3
<1>5. CASE m \in Replays(d)
  <2>1. new = Replayed(st, e)
    BY <1>5 DEF Replays, ReplayedUnlessCovered
  <2> HIDE DEF new, e
  <2> SUFFICES ASSUME NEW k \in Key
               PROVE  /\ (\A n \in Replays(d) : n <= m => d.wal[n].entry.id # k)
                           => Document(new, d.vecs, k) = SnapDoc(d, k)
                      /\ \A n \in Replays(d) :
                           n <= m /\ d.wal[n].entry.id = k
                           /\ (\A j \in Replays(d) : n < j /\ j <= m => d.wal[j].entry.id # k)
                             => Document(new, d.vecs, k) = DocOf(d.wal[n].entry)
    BY DEF Agrees, new
  <2>2. Document(new, d.vecs, k) = IF k = e.id THEN DocOf(e) ELSE Document(st, d.vecs, k)
    BY <1>1, <2>1, ReplayedDocument
  <2>3. CASE k = e.id
    <3>1. \A n \in Replays(d) :
            n <= m /\ (\A j \in Replays(d) : n < j /\ j <= m => d.wal[j].entry.id # k) => n = m
      <4> SUFFICES ASSUME NEW n \in Replays(d), n <= m, n # m,
                          \A j \in Replays(d) : n < j /\ j <= m => d.wal[j].entry.id # k
                   PROVE  FALSE
        OBVIOUS
      <4>1. n < m /\ m <= m
        BY <1>2
      <4> QED
        BY <1>5, <2>3, <4>1 DEF e
    <3>2. m <= m
      BY <1>2
    <3> QED
      BY <1>5, <2>2, <2>3, <3>1, <3>2 DEF e
  <2>4. CASE k # e.id
    <3>1. Document(new, d.vecs, k) = Document(st, d.vecs, k)
      BY <2>2, <2>4
    <3>2. \A n \in Replays(d) : d.wal[n].entry.id = k /\ n <= m => n <= m - 1
      BY <1>3, <2>4 DEF e
    <3>3. \A n \in Replays(d) : n <= m - 1 => n <= m
      BY <1>3
    <3> QED
      BY <3>1, <3>2, <3>3 DEF Agrees
  <2> QED
    BY <2>3, <2>4
<1> QED
  BY <1>4, <1>5

\* What recovery makes of the files, key by key.
LEMMA RecoveredDocument ==
  ASSUME NEW d \in Disk, NEW n \in 0..SlotLimit, Len(d.vecs) <= n, InRange(Chosen(d).ids, n),
         FilesFit(d), SnapshotsWhole(d)
  PROVE  /\ \A k \in Unlogged(d) : Document(Recovered(d), d.vecs, k) = SnapDoc(d, k)
         /\ \A m \in LastOf(d) : Document(Recovered(d), d.vecs, d.wal[m].entry.id)
                                   = DocOf(d.wal[m].entry)
<1> DEFINE P == {x \in Nat \X Store : Sound(x[2]) /\ Agrees(d, x[1], x[2])}
<1>1. Len(d.wal) \in Nat /\ DOMAIN d.wal = 1..Len(d.wal)
  BY LenProperties DEF Disk
<1>2. \A m \in Replays(d) : m \in 1..Len(d.wal) /\ d.wal[m].entry \in Entry
  BY <1>1, ReplayedUnlessCoveredType, InitialType DEF Replays
<1>3. <<0, InitialRecords(d)>> \in P
  <2>1. Sound(InitialRecords(d))
    BY InitialConsistent
  <2>2. \A m \in Replays(d) : ~(m <= 0)
    BY <1>1, <1>2
  <2>3. Agrees(d, 0, InitialRecords(d))
    BY <2>2, InitialDocument DEF Agrees
  <2> QED
    BY <2>1, <2>3 DEF Sound
<1>4. \A m \in 1..Len(d.wal), st \in Store :
           <<m - 1, st>> \in P => <<m, ReplayedUnlessCovered(d, st, d.wal[m])>> \in P
  <2> SUFFICES ASSUME NEW m \in 1..Len(d.wal), NEW st \in Store, Sound(st), Agrees(d, m - 1, st)
               PROVE  /\ m \in Nat /\ ReplayedUnlessCovered(d, st, d.wal[m]) \in Store
                      /\ Sound(ReplayedUnlessCovered(d, st, d.wal[m]))
                      /\ Agrees(d, m, ReplayedUnlessCovered(d, st, d.wal[m]))
    BY Zenon
  <2>1. d.wal[m].entry \in Entry /\ ReplayedUnlessCovered(d, st, d.wal[m]) \in Store
    BY ReplayedUnlessCoveredType
  <2>2. Sound(Replayed(st, d.wal[m].entry))
    BY <2>1, ReplayedSound
  <2>3. Agrees(d, m, ReplayedUnlessCovered(d, st, d.wal[m]))
    BY ReplayAgrees
  <2> QED
    BY <1>1, <2>1, <2>2, <2>3 DEF ReplayedUnlessCovered
<1>5. <<Len(d.wal), Recovered(d)>> \in P
  <2>1. P \in SUBSET (Nat \X Store)
    OBVIOUS
  <2> HIDE DEF P
  <2> QED
    BY <1>3, <1>4, <2>1, RecoveredInduction
<1>6. Agrees(d, Len(d.wal), Recovered(d))
  BY <1>5
<1>7. \A m \in Replays(d) : m <= Len(d.wal) /\ d.wal[m].entry.id \in Key
  BY <1>1, <1>2, EntryType
<1>8. \A k \in Unlogged(d) : Document(Recovered(d), d.vecs, k) = SnapDoc(d, k)
  BY <1>6 DEF Agrees, Unlogged
<1>9. ASSUME NEW m \in LastOf(d)
      PROVE  Document(Recovered(d), d.vecs, d.wal[m].entry.id) = DocOf(d.wal[m].entry)
  <2>1. /\ m \in Replays(d) /\ m <= Len(d.wal) /\ d.wal[m].entry.id \in Key
        /\ \A j \in Replays(d) : m < j => d.wal[j].entry.id # d.wal[m].entry.id
    <3>1. m \in Replays(d) /\ Replays(d) \subseteq Nat
      BY <1>1 DEF LastOf, Replays
    <3>2. \A j \in Replays(d) : m < j <=> j > m
      BY <3>1
    <3> QED
      BY <1>7, <3>1, <3>2 DEF LastOf
  <2> QED
    BY <1>6, <2>1 DEF Agrees
<1> QED
  BY <1>8, <1>9

\* A key that some entry names has a last one.
LEMMA LoggedOrNot ==
  ASSUME NEW d \in Disk, NEW k \in Key \ Unlogged(d)
  PROVE  \E n \in LastOf(d) : d.wal[n].entry.id = k
<1> DEFINE N == Len(d.wal)
           From(n) == \E m \in Replays(d) : m = N - n /\ d.wal[m].entry.id = k
           S == {n \in Nat : From(n)}
<1>1. N \in Nat /\ Replays(d) \subseteq 1..N
  BY LenProperties DEF Disk, Replays
<1> HIDE DEF N
<1>2. S # {}
  <2>1. PICK m \in Replays(d) : d.wal[m].entry.id = k
    BY DEF Unlogged
  <2>2. m \in 1..N
    BY <1>1
  <2>3. N - m \in Nat /\ m = N - (N - m)
    BY <1>1, <2>2
  <2>4. N - m \in S
    BY <2>1, <2>3
  <2> QED
    BY <2>4
<1>3. PICK n \in S : \A m \in S : n <= m
  <2>1. S \in SUBSET Nat
    OBVIOUS
  <2> HIDE DEF S
  <2> QED
    BY <1>2, <2>1, LeastNatural
<1>4. PICK last \in Replays(d) : last = N - n /\ d.wal[last].entry.id = k
  OBVIOUS
<1>5. ASSUME NEW m \in Replays(d), m > last, d.wal[m].entry.id = k
      PROVE  FALSE
  <2>1. m \in 1..N /\ last \in 1..N /\ n \in Nat
    BY <1>1
  <2>2. N - m \in Nat /\ m = N - (N - m) /\ N - m < n
    BY <1>1, <1>4, <1>5, <2>1
  <2>3. N - m \in S
    BY <1>5, <2>2
  <2> HIDE DEF S
  <2>4. n <= N - m
    BY <1>3, <2>3
  <2> QED
    BY <1>1, <2>1, <2>2, <2>4
<1>6. last \in LastOf(d)
  BY <1>4, <1>5 DEF LastOf
<1> QED
  BY <1>4, <1>6

\* An entry that is appended, and replayed, is the last one of its name.
Lengthened(d, new, n, e) ==
  /\ Replays(new) = Replays(d) \cup {n}
  /\ LastOf(new) = {m \in LastOf(d) : d.wal[m].entry.id # e.id} \cup {n}
  /\ Unlogged(new) = Unlogged(d) \ {e.id}
  /\ DOMAIN d.wal = 1..(n - 1) /\ DOMAIN new.wal = 1..n
  /\ \A m \in DOMAIN d.wal : new.wal[m] = d.wal[m]
  /\ \A k : SnapDoc(new, k) = SnapDoc(d, k)

LEMMA AppendLengthens ==
  ASSUME NEW d \in Disk, NEW new \in Disk, NEW ts, NEW e, WithEntry(d, ts, e, new),
         NEW n \in Nat, n = Len(d.wal) + 1, ~Covered(new, new.wal[n])
  PROVE  Lengthened(d, new, n, e) /\ new.wal[n] = [ts |-> ts, entry |-> e]
<1>1. /\ Len(d.wal) \in Nat /\ DOMAIN d.wal = 1..Len(d.wal)
      /\ DOMAIN new.wal = 1..Len(new.wal) /\ Len(new.wal) = n
      /\ new.wal = Append(d.wal, [ts |-> ts, entry |-> e])
      /\ d.wal \in Seq([ts : Nat, entry : Entry])
  BY LenProperties DEF WithEntry, Disk
<1>2. new.wal[n] = [ts |-> ts, entry |-> e] /\ \A m \in DOMAIN d.wal : new.wal[m] = d.wal[m]
  BY <1>1
<1>3. DOMAIN d.wal = 1..(n - 1) /\ DOMAIN new.wal = 1..n
      /\ DOMAIN new.wal = DOMAIN d.wal \cup {n} /\ \A m \in DOMAIN d.wal : m \in Nat /\ m < n
  BY <1>1
<1>4. \A m \in DOMAIN d.wal : Covered(new, d.wal[m]) <=> Covered(d, d.wal[m])
  <2>1. new.wal # << >>
    <3>1. 1 \in DOMAIN new.wal
      BY <1>3
    <3>2. 1 \notin DOMAIN << >>
      OBVIOUS
    <3> QED
      BY <3>1, <3>2
  <2>2. DOMAIN d.wal # {} => d.wal # << >>
    OBVIOUS
  <2>3. DOMAIN d.wal # {} => WalEpoch(new) = WalEpoch(d)
    BY <2>1, <2>2 DEF WalEpoch, WithEntry
  <2> QED
    BY <2>3 DEF Covered, UsesSlim, WithEntry
<1>5. Replays(new) = Replays(d) \cup {n}
  BY <1>2, <1>3, <1>4 DEF Replays
<1>6. Replays(d) \subseteq DOMAIN d.wal /\ LastOf(d) \subseteq Replays(d)
  BY DEF Replays, LastOf
<1>7. new.wal[n].entry = e /\ \A m \in Replays(d) : new.wal[m].entry = d.wal[m].entry
  BY <1>2, <1>6
<1>8. LastOf(new) = {m \in LastOf(d) : d.wal[m].entry.id # e.id} \cup {n}
  <2>1. \A m \in Replays(d) : n > m /\ ~(m > n) /\ ~(n > n) /\ m # n
    BY <1>3, <1>6
  <2>2. n \in LastOf(new)
    <3>1. \A m \in Replays(new) : ~(m > n)
      BY <1>5, <2>1
    <3> QED
      BY <1>5, <3>1 DEF LastOf
  <2>3. \A m \in Replays(d) : m \in LastOf(new) <=> m \in LastOf(d) /\ d.wal[m].entry.id # e.id
    BY <1>5, <1>7, <2>1 DEF LastOf
  <2>4. LastOf(new) \subseteq Replays(d) \cup {n}
    BY <1>5 DEF LastOf
  <2> QED
    BY <1>6, <2>2, <2>3, <2>4
<1>9. Unlogged(new) = Unlogged(d) \ {e.id}
  BY <1>5, <1>7 DEF Unlogged
<1>10. Chosen(new) = Chosen(d) /\ new.vecs = d.vecs
  BY DEF WithEntry, Chosen, UsesSlim
<1>11. \A k : SnapDoc(new, k) = SnapDoc(d, k)
  BY <1>10 DEF SnapDoc
<1> QED
  BY <1>2, <1>3, <1>5, <1>8, <1>9, <1>11 DEF Lengthened

-----------------------------------------------------------------------------
(* The inductive invariant of durability.                                  *)

\* A checkpoint writes into a slot that the old snapshot gives to a key without an
\* entry in the log.
Torn == step = "write" /\ \E k \in Unlogged(disk) : Chosen(disk).ids[k] \in job.taken

\* A write is logged in an epoch, or at a time, that the chosen snapshot claims.
Unheard == /\ step = "idle"
           /\ Len(disk'.wal) = Len(disk.wal) + 1
           /\ Covered(disk', disk'.wal[Len(disk'.wal)])

Losing == \/ Detaching
          \/ Torn /\ (Restart \/ FailToPublish)
          \/ Unheard

Contents == [vec : Val, meta : Val] \cup {None}

\* No checkpoint has published its snapshot and not yet returned.
Open == step \in {"idle", "due", "flush", "write"}

\* The slots that have changed since the last checkpoint.
Unsaved == IF step = "write" THEN job.taken ELSE store.dirty

\* What the files hold for a key: the document of its last entry, or that of the
\* snapshot, unless a checkpoint is overwriting it.
Logs(d, k) == {DocOf(d.wal[n].entry) : n \in {m \in LastOf(d) : d.wal[m].entry.id = k}}

Intact(k) == /\ k \in Unlogged(disk)
             /\ Open
             /\ step = "write" => ~Emptied /\ Chosen(disk).ids[k] \notin job.taken

Held(k) == Logs(disk, k) \cup (IF Intact(k) THEN {SnapDoc(disk, k)} ELSE {})

LogOrdered ==
  /\ Open /\ Replays(disk) # DOMAIN disk.wal => epoch = disk.metaEpoch
  /\ \A n \in DOMAIN disk.wal : disk.wal[n].ts < nextTs
  /\ \A n \in DOMAIN disk.wal : \A m \in DOMAIN disk.wal :
       m <= n => disk.wal[m].ts <= disk.wal[n].ts

LInv ==
  /\ survivors \in [Key -> SUBSET Contents]
  /\ \A k \in Key : Current[k] \in survivors[k]
  /\ \A k \in Key : Held(k) \subseteq survivors[k]
  /\ Open => \A k \in Key : Unsaved = {} \/ Current[k] = None => Held(k) \subseteq {Current[k]}
  /\ LogOrdered
  /\ step = "write" => job.kind = "full" \/ job.todo \subseteq job.taken

\* The same log over the same claims.
SameLog(d, e) ==
  /\ e.wal = d.wal /\ e.metaEpoch = d.metaEpoch
  /\ e.manifest = d.manifest /\ e.maxTs = d.maxTs
  /\ e.slim = d.slim /\ e.slimNewer = d.slimNewer

LEMMA SameLogHolds ==
  ASSUME NEW d, NEW e, SameLog(d, e)
  PROVE  /\ Replays(e) = Replays(d) /\ LastOf(e) = LastOf(d) /\ Unlogged(e) = Unlogged(d)
         /\ Chosen(e) = Chosen(d)
         /\ \A k : Logs(e, k) = Logs(d, k)
<1>1. \A x : Covered(e, x) <=> Covered(d, x)
  BY DEF SameLog, Covered, WalEpoch, UsesSlim
<1>2. Replays(e) = Replays(d) /\ e.wal = d.wal
  BY <1>1 DEF SameLog, Replays
<1>3. LastOf(e) = LastOf(d) /\ Unlogged(e) = Unlogged(d)
  BY <1>2 DEF LastOf, Unlogged
<1> QED
  BY <1>2, <1>3 DEF SameLog, Chosen, UsesSlim, Logs

-----------------------------------------------------------------------------
(* Each step keeps what the files hold, or makes it what readers see.      *)

\* Steps that change no document, neither in memory nor in the files, but those of
\* the slots that they take.
LEMMA StillHeld ==
  ASSUME LInv, Open, Open', SameLog(disk, disk'), survivors' = survivors,
         Current' = Current, nextTs' = nextTs, epoch' = epoch,
         \A k \in Key : Intact(k)' => Intact(k) /\ SnapDoc(disk', k) = SnapDoc(disk, k),
         Unsaved' = {} => Unsaved = {} \/ \A k \in Key : Current[k] = None,
         step' = "write" => job'.kind = "full" \/ job'.todo \subseteq job'.taken
  PROVE  LInv'
<1>1. /\ Replays(disk') = Replays(disk) /\ \A k : Logs(disk', k) = Logs(disk, k)
      /\ disk'.wal = disk.wal /\ disk'.metaEpoch = disk.metaEpoch
  <2>1. PICK d, e : d = disk /\ e = disk'
    OBVIOUS
  <2>2. SameLog(d, e)
    BY <2>1
  <2> QED
    BY <2>1, <2>2, SameLogHolds DEF SameLog
<1>2. \A k \in Key : Held(k)' \subseteq Held(k)
  BY <1>1 DEF Held
<1>3. LogOrdered'
  BY <1>1 DEF LInv, LogOrdered
<1>4. \A k \in Key : Unsaved' = {} \/ Current'[k] = None => Held(k)' \subseteq {Current'[k]}
  <2> SUFFICES ASSUME NEW k \in Key, Unsaved' = {} \/ Current'[k] = None
               PROVE  Held(k)' \subseteq {Current'[k]}
    OBVIOUS
  <2>1. Unsaved = {} \/ Current[k] = None
    OBVIOUS
  <2>2. Held(k) \subseteq {Current[k]}
    BY <2>1 DEF LInv
  <2> QED
    BY <1>2, <2>2
<1>5. \A k \in Key : Current'[k] \in survivors'[k] /\ Held(k)' \subseteq survivors'[k]
  BY <1>2 DEF LInv
<1> QED
  BY <1>3, <1>4, <1>5 DEF LInv

\* A store without a live slot has no document.
LEMMA NothingLives ==
  ASSUME NEW st \in Store, LiveSlots(st) = {}, NEW vecs, NEW k
  PROVE  Document(st, vecs, k) = None
BY DocumentFound DEF Found

LEMMA CallsHold ==
  ASSUME TInv, CInv, LInv, Current' = Current,
         DeleteNone \/ Compact \/ Flush \/ FailToStat \/ FailToGrow
  PROVE  LInv'
<1>1. /\ disk' = disk /\ UNCHANGED <<epoch, nextTs, survivors>>
      /\ step \in {"idle", "due", "flush"} /\ step' \in {"idle", "due", "flush"}
      /\ \/ store' = store
         \/ store' = Compacted(store)
         \/ store' = DirtyRestored(DirtyTaken(store), store.dirty)
  BY DEF DeleteNone, Compact, Flush, FailToStat, FailToGrow, FailToStart, Called
<1>2. store \in Store /\ Consistent(store) /\ store.dirty \in SUBSET Slot
  BY StateTypes DEF Store
<1>3. Unsaved' = {} => Unsaved = {} \/ \A k \in Key : Current[k] = None
  <2>1. Unsaved' = store'.dirty /\ Unsaved = store.dirty
    BY <1>1 DEF Unsaved
  <2>2. CASE store' = store
    BY <2>1, <2>2
  <2>3. CASE store' = DirtyRestored(DirtyTaken(store), store.dirty)
    <3>1. PICK st \in Store, taken \in SUBSET Slot : st = store /\ taken = store.dirty
      BY <1>2
    <3>2. DirtyTaken(st) \in Store /\ DirtyTaken(st).dirty = {}
      BY DirtyType
    <3>3. DirtyRestored(DirtyTaken(st), taken).dirty = DirtyTaken(st).dirty \cup taken
      BY <3>2, DirtyType
    <3> QED
      BY <2>1, <2>3, <3>1, <3>2, <3>3
  <2>4. CASE store' = Compacted(store)
    <3> SUFFICES ASSUME store'.dirty = {} PROVE \A k \in Key : Current[k] = None
      BY <2>1
    <3>1. PICK new \in Store : new = store' /\ LiveSlots(new) \subseteq new.dirty
      BY <1>2, <2>4, CompactRepacks DEF Repacked
    <3>2. \A k : Document(new, disk.vecs, k) = None
      BY <3>1, NothingLives
    <3>3. \A k \in Key : Current'[k] = None
      BY <1>1, <3>1, <3>2 DEF Current, MapOf
    <3> QED
      BY <3>3
  <2> QED
    BY <1>1, <2>2, <2>3, <2>4
<1>4. SameLog(disk, disk') /\ Open /\ Open' /\ step' # "write"
      /\ \A k \in Key : Intact(k)' => Intact(k) /\ SnapDoc(disk', k) = SnapDoc(disk, k)
  BY <1>1 DEF SameLog, Open, Intact
<1> QED
  BY <1>1, <1>3, <1>4, StillHeld

\* A checkpoint begins: the slots it takes are no longer the snapshot's.
LEMMA BeginHolds ==
  ASSUME TInv, CInv, LInv, Current' = Current, NEW kind, NEW todo, NEW vecs,
         step \in {"due", "flush"}, Begin(kind, todo, vecs),
         kind = "full" \/ todo = store.dirty,
         \/ ~disk.vecFile
         \/ Emptied'
         \/ \A s \in DOMAIN disk.vecs : vecs[s] = disk.vecs[s]
  PROVE  LInv'
<1>1. disk \in Disk /\ store.dirty \in SUBSET Slot /\ FilesFit(disk)
  BY StateTypes DEF Store
<1>2. /\ disk' = [disk EXCEPT !.vecs = vecs]
      /\ job' = [kind |-> kind, taken |-> store.dirty, todo |-> todo]
      /\ step' = "write" /\ UNCHANGED <<epoch, nextTs, survivors>>
  BY DEF Begin
<1>3. SameLog(disk, disk') /\ disk'.vecs = vecs /\ disk'.vecFile = disk.vecFile
  BY <1>1, <1>2 DEF SameLog, Disk
<1>4. Open /\ Open' /\ Unsaved' = Unsaved
  BY <1>2 DEF Open, Unsaved
<1>5. Chosen(disk') = Chosen(disk) /\ Unlogged(disk') = Unlogged(disk)
  <2>1. PICK d, e : d = disk /\ e = disk'
    OBVIOUS
  <2> QED
    BY <1>3, <2>1, SameLogHolds
<1>6. ASSUME NEW k \in Key, Intact(k)'
      PROVE  Intact(k) /\ SnapDoc(disk', k) = SnapDoc(disk, k)
  <2>1. Intact(k) /\ ~Emptied'
    BY <1>2, <1>4, <1>5, <1>6 DEF Intact
  <2>2. CASE Chosen(disk).ids[k] = NoSlot
    BY <1>5, <2>1, <2>2 DEF SnapDoc
  <2>3. CASE Chosen(disk).ids[k] # NoSlot
    <3>1. Chosen(disk).ids[k] \in Mapped(Chosen(disk))
      BY <2>3, KeyNoPhantom DEF Mapped
    <3>2. disk.vecFile /\ Chosen(disk).ids[k] \in DOMAIN disk.vecs
      <4>1. PICK d \in Disk : d = disk
        BY <1>1
      <4>2. /\ d.vecFile => Mapped(Chosen(d)) \subseteq DOMAIN d.vecs
            /\ ~d.vecFile => Mapped(Chosen(d)) = {}
        BY <1>1, <4>1, ChosenFits
      <4> QED
        BY <3>1, <4>1, <4>2 DEF Disk
    <3> QED
      BY <1>3, <1>5, <2>1, <2>3, <3>2 DEF SnapDoc
  <2> QED
    BY <2>2, <2>3
<1>7. step' = "write" => job'.kind = "full" \/ job'.todo \subseteq job'.taken
  BY <1>2
<1> QED
  BY <1>2, <1>3, <1>4, <1>6, <1>7, StillHeld

LEMMA BeginsHold ==
  ASSUME TInv, CInv, LInv, Current' = Current, BeginFull \/ BeginFast \/ BeginIncremental
  PROVE  LInv'
<1>1. disk \in Disk
  BY StateTypes
<1>2. CASE BeginFull
  <2> DEFINE vecs == IF store.slots = << >> THEN disk.vecs ELSE [s \in DOMAIN store.slots |-> Zero]
  <2>1. Begin("full", DOMAIN store.slots, vecs) /\ step \in {"due", "flush"}
    BY <1>2 DEF BeginFull
  <2> HIDE DEF vecs
  <2>2. ~disk.vecFile \/ Emptied'
    BY <1>1, <2>1 DEF Begin, Emptied, Disk
  <2> QED
    BY <2>1, <2>2, BeginHolds
<1>3. CASE BeginIncremental /\ store.slots = << >>
  <2>1. Begin("incremental", store.dirty, << >>) /\ step \in {"due", "flush"}
    BY <1>3 DEF BeginIncremental
  <2>2. store'.slots = << >>
    <3>1. store \in Store /\ store' = DirtyTaken(store)
      BY <2>1, StateTypes DEF Begin
    <3> QED
      BY <1>3, <3>1 DEF DirtyTaken, Store
  <2>3. ~disk.vecFile \/ Emptied'
    BY <1>1, <2>1, <2>2 DEF Begin, Emptied, Disk
  <2> QED
    BY <2>1, <2>3, BeginHolds
<1>4. CASE BeginFast \/ (BeginIncremental /\ store.slots # << >>)
  <2>1. step \in {"due", "flush"} /\ \E kind : Begin(kind, store.dirty, Grown(disk.vecs))
    BY <1>4 DEF BeginFast, BeginIncremental
  <2>2. \A s \in DOMAIN disk.vecs : Grown(disk.vecs)[s] = disk.vecs[s]
    BY GrownType
  <2> QED
    BY <2>1, <2>2, BeginHolds
<1> QED
  BY <1>2, <1>3, <1>4

\* A slot is written that the checkpoint has taken, or that no snapshot gives to a key.
LEMMA WriteSlotHolds ==
  ASSUME TInv, CInv, LInv, Current' = Current, WriteSlot
  PROVE  LInv'
<1> DEFINE s == Min(job.todo)
<1>1. disk \in Disk /\ (~Emptied => FilesFit(disk)) /\ job.todo \in SUBSET Slot
  BY StateTypes
<1>2. s \in job.todo
  <2>1. job.todo # {} /\ job.todo \in SUBSET Nat
    BY <1>1 DEF WriteSlot, Slot
  <2>2. \E m \in job.todo : \A n \in job.todo : m <= n
    BY <2>1, LeastNatural
  <2> QED
    BY <2>2 DEF Min
<1>3. /\ step = "write" /\ disk' = [disk EXCEPT !.vecs[s] = VectorToWrite(s)]
      /\ job' = [job EXCEPT !.todo = @ \ {s}]
      /\ UNCHANGED <<store, epoch, nextTs, step, survivors>>
  BY DEF WriteSlot
<1> HIDE DEF s
<1>4. SameLog(disk, disk') /\ disk'.vecFile = disk.vecFile
      /\ disk'.vecs = [disk.vecs EXCEPT ![s] = VectorToWrite(s)]
  BY <1>1, <1>3 DEF SameLog, Disk
<1>5. job'.kind = job.kind /\ job'.taken = job.taken /\ job'.todo = job.todo \ {s}
  BY <1>3 DEF TInv, TypeOK
<1>6. Open /\ Open' /\ Unsaved' = Unsaved /\ (Emptied' <=> Emptied)
  BY <1>3, <1>4, <1>5 DEF Open, Unsaved, Emptied
<1>7. Chosen(disk') = Chosen(disk) /\ Unlogged(disk') = Unlogged(disk)
  <2>1. PICK d, e : d = disk /\ e = disk'
    OBVIOUS
  <2> QED
    BY <1>4, <2>1, SameLogHolds
<1>8. ASSUME NEW k \in Key, Intact(k)'
      PROVE  Intact(k) /\ SnapDoc(disk', k) = SnapDoc(disk, k)
  <2>1. Intact(k) /\ ~Emptied /\ Chosen(disk).ids[k] \notin job.taken
    BY <1>3, <1>5, <1>6, <1>7, <1>8 DEF Intact
  <2>2. CASE Chosen(disk).ids[k] = NoSlot
    BY <1>7, <2>1, <2>2 DEF SnapDoc
  <2>3. CASE Chosen(disk).ids[k] # NoSlot
    <3>1. disk.vecFile
      <4>1. PICK d \in Disk : d = disk
        BY <1>1
      <4>2. ~d.vecFile => Mapped(Chosen(d)) = {}
        BY <1>1, <2>1, <4>1, ChosenFits
      <4>3. Chosen(disk).ids[k] \in Mapped(Chosen(disk))
        BY <2>3, KeyNoPhantom DEF Mapped
      <4> QED
        BY <4>1, <4>2, <4>3 DEF Disk
    <3>2. job.todo \subseteq job.taken
      BY <1>3, <2>1, <3>1 DEF Emptied, LInv
    <3>3. s # Chosen(disk).ids[k]
      BY <1>2, <2>1, <3>2
    <3>4. disk'.vecs[Chosen(disk).ids[k]] = disk.vecs[Chosen(disk).ids[k]]
      BY <1>1, <1>4, <3>3 DEF Disk
    <3> QED
      BY <1>7, <2>1, <2>3, <3>4 DEF SnapDoc
  <2> QED
    BY <2>2, <2>3
<1>9. job'.kind = "full" \/ job'.todo \subseteq job'.taken
  BY <1>3, <1>5 DEF LInv
<1> QED
  BY <1>3, <1>4, <1>6, <1>8, <1>9, StillHeld

\* A checkpoint that cannot publish leaves the snapshot that it has not torn.
LEMMA UnpublishedHolds ==
  ASSUME TInv, CInv, DInv, LInv, Current' = Current, FailToPublish, ~Emptied, ~Torn
  PROVE  LInv'
<1>1. /\ disk' = disk /\ UNCHANGED <<epoch, nextTs, survivors>>
      /\ step = "write" /\ step' = "idle" /\ store' = DirtyRestored(store, job.taken)
  BY DEF FailToPublish
<1>2. Open /\ Open' /\ SameLog(disk, disk')
  BY <1>1 DEF Open, SameLog
<1>3. Unsaved' = Unsaved
  <2>1. store'.dirty = store.dirty \cup job.taken
    <3>1. PICK st \in Store, taken \in SUBSET Slot : st = store /\ taken = job.taken
      BY StateTypes
    <3> QED
      BY <1>1, <3>1, DirtyType
  <2> QED
    BY <1>1, <2>1 DEF Unsaved, DInv
<1>4. \A k \in Key : Intact(k)' => Intact(k) /\ SnapDoc(disk', k) = SnapDoc(disk, k)
  BY <1>1 DEF Intact, Torn, Open
<1> QED
  BY <1>1, <1>2, <1>3, <1>4, StillHeld

\* A snapshot of a store whose vectors are saved holds what readers see.
LEMMA SnapshotDocument ==
  ASSUME NEW d, NEW st \in Store, Consistent(st), NEW n \in Nat \cup {None},
         Chosen(d) = SnapshotOf(st, n), \A s \in LiveSlots(st) : Saved(st, d.vecs, s),
         NEW k \in Key
  PROVE  SnapDoc(d, k) = Document(st, d.vecs, k)
<1>1. Chosen(d).ids = st.idToSlot /\ k \in Name
  BY SnapshotType, KeyNoPhantom
<1>2. CASE st.idToSlot[k] = NoSlot
  <2>1. ~Found(st, k)
    BY <1>2, LiveSlotsType DEF Found
  <2> QED
    BY <1>1, <1>2, <2>1, DocumentFound DEF SnapDoc
<1>3. CASE st.idToSlot[k] # NoSlot
  <2> DEFINE s == st.idToSlot[k]
  <2>1. s \in LiveSlots(st)
    BY <1>1, <1>3, MappedInStore
  <2>2. s \in DOMAIN st.slots /\ st.slots[s] # None
    BY <2>1 DEF LiveSlots
  <2>3. SnapshotOf(st, n).meta[s] = st.slots[s].meta
    BY <2>2 DEF SnapshotOf
  <2>4. d.vecs[s] = Seen(st.slots[s].vec, d.vecs)
    BY <2>1 DEF Saved
  <2>5. Document(st, d.vecs, k) = [vec |-> Seen(st.slots[s].vec, d.vecs), meta |-> st.slots[s].meta]
    BY <2>1, DocumentFound DEF Found
  <2> QED
    BY <1>1, <1>3, <2>3, <2>4, <2>5 DEF SnapDoc
<1> QED
  BY <1>2, <1>3

LEMMA CurrentDocument == \A k \in Key : Current[k] = Document(store, disk.vecs, k)
BY DEF Current, MapOf

LEMMA PublishedDocuments ==
  ASSUME TInv, CInv, DInv, step \in {"truncate", "stamp"}, NEW k \in Key
  PROVE  SnapDoc(disk, k) = Current[k]
<1>1. store \in Store /\ Consistent(store) /\ epoch \in Nat
  BY StateTypes
<1>2. Chosen(disk) = SnapshotOf(store, epoch)
  BY DEF DInv
<1>3. \A s \in LiveSlots(store) : Saved(store, disk.vecs, s)
  <2>1. job.todo = {} /\ store.dirty = {}
    BY DEF TInv, TypeOK, DInv
  <2> QED
    BY <2>1 DEF DInv, Kept
<1>4. PICK d \in Disk, st \in Store, n \in Nat : d = disk /\ st = store /\ n = epoch
  BY <1>1, StateTypes
<1>5. SnapDoc(d, k) = Document(st, d.vecs, k)
  BY <1>1, <1>2, <1>3, <1>4, SnapshotDocument
<1> QED
  BY <1>4, <1>5, CurrentDocument

\* Steps that make what readers see the only document that may survive.
LEMMA PersistHolds ==
  ASSUME TInv, CInv, DInv, LInv, Current' = Current, NothingDirty
  PROVE  LInv'
<1>1. /\ disk' = disk /\ store' = store /\ step = "due" /\ step' = "idle" /\ store.dirty = {}
      /\ survivors' = [k \in Key |-> {Current[k]}] /\ UNCHANGED <<epoch, nextTs>>
  BY DEF NothingDirty, Persisted
<1>2. \A k \in Key : Held(k)' = Held(k)
  BY <1>1 DEF Held, Intact, Open
<1>3. \A k \in Key : Held(k) \subseteq {Current[k]} /\ Current[k] \in Contents
  BY <1>1 DEF LInv, Open, Unsaved
<1>4. LogOrdered'
  BY <1>1 DEF LInv, LogOrdered, Open
<1> QED
  BY <1>1, <1>2, <1>3, <1>4 DEF LInv

LEMMA EmptyLog ==
  ASSUME NEW d, d.wal = << >>
  PROVE  /\ Replays(d) = {} /\ LastOf(d) = {} /\ DOMAIN d.wal = {}
         /\ \A k : Logs(d, k) = {}
<1>1. DOMAIN d.wal = {}
  OBVIOUS
<1>2. Replays(d) = {}
  BY <1>1 DEF Replays
<1> QED
  BY <1>1, <1>2 DEF LastOf, Logs

LEMMA EmptyWalHolds ==
  ASSUME TInv, CInv, LInv, Current' = Current, EmptyWal
  PROVE  LInv'
<1>1. disk \in Disk
  BY StateTypes
<1>2. disk' = [disk EXCEPT !.wal = << >>] /\ step' = "stamp" /\ survivors' = survivors
  BY DEF EmptyWal
<1>3. disk'.wal = << >>
  BY <1>1, <1>2 DEF Disk
<1>4. DOMAIN disk'.wal = {} /\ \A k : Logs(disk', k) = {}
  BY <1>3, EmptyLog
<1>5. \A k \in Key : Held(k)' = {}
  BY <1>2, <1>4 DEF Held, Intact, Open
<1> QED
  BY <1>2, <1>4, <1>5 DEF LInv, LogOrdered, Open

LEMMA StampHolds ==
  ASSUME TInv, CInv, DInv, LInv, Current' = Current, StampEpoch \/ FailToStamp
  PROVE  LInv'
<1>1. disk \in Disk
  BY StateTypes
<1>2. /\ step = "stamp" /\ step' = "idle"
      /\ \E e : disk' = [disk EXCEPT !.metaEpoch = e]
  BY DEF StampEpoch, FailToStamp
<1>3. /\ disk'.wal = disk.wal /\ disk'.vecs = disk.vecs /\ disk'.manifest = disk.manifest
      /\ disk'.slim = disk.slim /\ disk'.slimNewer = disk.slimNewer
  BY <1>1, <1>2 DEF Disk
<1>4. disk'.wal = << >>
  BY <1>2, <1>3 DEF DInv
<1>5. DOMAIN disk'.wal = {} /\ Replays(disk') = {} /\ \A k : Logs(disk', k) = {}
  BY <1>4, EmptyLog
<1>6. \A k \in Key : SnapDoc(disk', k) = Current[k]
  <2>1. \A k \in Key : SnapDoc(disk', k) = SnapDoc(disk, k)
    BY <1>3 DEF SnapDoc, Chosen, UsesSlim
  <2> QED
    BY <1>2, <2>1, PublishedDocuments
<1>7. \A k \in Key : Held(k)' \subseteq {Current'[k]}
  BY <1>5, <1>6 DEF Held
<1>8. /\ survivors' \in [Key -> SUBSET Contents]
      /\ \A k \in Key : Current'[k] \in survivors'[k]
  <2>1. survivors' = survivors \/ survivors' = [k \in Key |-> {Current[k]}]
    BY DEF StampEpoch, FailToStamp, Persisted
  <2> QED
    BY <2>1 DEF LInv
<1>9. LogOrdered'
  BY <1>5 DEF LogOrdered
<1>10. \A k \in Key : Held(k)' \subseteq survivors'[k]
  BY <1>7, <1>8
<1> QED
  BY <1>2, <1>7, <1>8, <1>9, <1>10 DEF LInv

\* A snapshot is published: what the log still holds is what it held, or nothing.
LEMMA PublishHolds ==
  ASSUME TInv, CInv, LInv, Current' = Current, PublishSlim \/ PublishManifest
  PROVE  LInv'
<1>1. /\ disk \in Disk /\ store \in Store /\ epoch \in Nat /\ nextTs \in Nat
      /\ SnapshotOf(store, epoch) # None /\ SnapshotOf(store, epoch).epoch = epoch
  <2>1. store \in Store /\ epoch \in Nat
    BY StateTypes
  <2>2. PICK st \in Store, n \in Nat : st = store /\ n = epoch
    BY <2>1
  <2>3. SnapshotOf(st, n) # None /\ SnapshotOf(st, n).epoch = n
    BY SnapshotType, NoneAssumption DEF SnapshotOf
  <2> QED
    BY <2>2, <2>3, StateTypes
<1>2. /\ step = "write" /\ step' = "truncate" /\ UNCHANGED <<epoch, nextTs, survivors>>
      /\ disk'.wal = disk.wal /\ disk'.metaEpoch = disk.metaEpoch
  BY <1>1 DEF PublishSlim, PublishManifest, Disk
<1>3. WalEpoch(disk') = WalEpoch(disk)
      /\ (disk.wal # << >> => WalEpoch(disk) = disk.metaEpoch)
  BY <1>2 DEF WalEpoch
<1>4. \/ \A n \in DOMAIN disk.wal : Covered(disk', disk.wal[n])
      \/ epoch # disk.metaEpoch /\ \A n \in DOMAIN disk.wal : ~Covered(disk', disk.wal[n])
  <2>1. CASE PublishSlim
    <3>1. UsesSlim(disk') /\ disk'.slim.epoch = epoch
      BY <1>1, <2>1 DEF PublishSlim, UsesSlim, Disk
    <3>2. \A x : Covered(disk', x) <=> WalEpoch(disk) <= epoch
      BY <1>3, <3>1 DEF Covered
    <3>3. disk.metaEpoch \in Nat
      BY <1>1 DEF Disk
    <3>4. DOMAIN disk.wal # {} => WalEpoch(disk) = disk.metaEpoch
      <4>1. DOMAIN disk.wal # {} => disk.wal # << >>
        OBVIOUS
      <4> QED
        BY <1>3, <4>1
    <3>5. epoch = disk.metaEpoch => disk.metaEpoch <= epoch
      BY <1>1
    <3> QED
      BY <3>2, <3>4, <3>5
  <2>2. CASE PublishManifest
    <3>1. /\ ~UsesSlim(disk') /\ disk'.manifest.epoch = epoch
          /\ disk'.maxTs = MaxTimestamp(disk, nextTs)
      BY <1>1, <2>2 DEF PublishManifest, UsesSlim, Disk
    <3>2. epoch # None
      BY <1>1, NoneAssumption
    <3>3. \A x : Covered(disk', x) <=> /\ WalEpoch(disk) = epoch
                                       /\ disk'.maxTs # None /\ x.ts <= disk'.maxTs
      BY <1>3, <3>1, <3>2 DEF Covered
    <3>4. \A n \in DOMAIN disk.wal :
             /\ WalEpoch(disk) = disk.metaEpoch /\ disk'.maxTs = nextTs - 1
             /\ disk'.maxTs # None /\ disk.wal[n].ts <= disk'.maxTs
      <4> SUFFICES ASSUME NEW n \in DOMAIN disk.wal
                   PROVE  /\ WalEpoch(disk) = disk.metaEpoch /\ disk'.maxTs = nextTs - 1
                          /\ disk'.maxTs # None /\ disk.wal[n].ts <= disk'.maxTs
        OBVIOUS
      <4>1. disk.wal # << >>
        OBVIOUS
      <4>2. disk'.maxTs = nextTs - 1
        BY <3>1, <4>1 DEF MaxTimestamp
      <4>3. disk.wal[n].ts \in Nat /\ disk.wal[n].ts < nextTs
        <5>1. disk.wal \in Seq([ts : Nat, entry : Entry])
          BY <1>1 DEF Disk
        <5>2. disk.wal[n] \in [ts : Nat, entry : Entry]
          BY <5>1, LenProperties, ElementOfSeq
        <5> QED
          BY <5>2 DEF LInv, LogOrdered
      <4>4. nextTs - 1 \in Int /\ disk.wal[n].ts <= nextTs - 1
        BY <1>1, <4>3
      <4> QED
        BY <1>3, <4>1, <4>2, <4>4, NoneAssumption
    <3> QED
      BY <3>3, <3>4
  <2> QED
    BY <2>1, <2>2
<1>5. Replays(disk') = {} \/ Replays(disk') = Replays(disk)
  <2>1. CASE \A n \in DOMAIN disk.wal : Covered(disk', disk.wal[n])
    BY <1>2, <2>1 DEF Replays
  <2>2. CASE epoch # disk.metaEpoch /\ \A n \in DOMAIN disk.wal : ~Covered(disk', disk.wal[n])
    <3>1. Replays(disk') = DOMAIN disk.wal
      BY <1>2, <2>2 DEF Replays
    <3>2. Replays(disk) = DOMAIN disk.wal
      BY <1>2, <2>2 DEF LInv, LogOrdered, Open
    <3> QED
      BY <3>1, <3>2
  <2> QED
    BY <1>4, <2>1, <2>2
<1>6. \A k : Logs(disk', k) \subseteq Logs(disk, k)
  BY <1>2, <1>5 DEF Logs, LastOf
<1>7. \A k \in Key : Held(k)' \subseteq Held(k)
  BY <1>2, <1>6 DEF Held, Intact, Open
<1>8. LogOrdered'
  BY <1>2 DEF LInv, LogOrdered, Open
<1> QED
  BY <1>2, <1>7, <1>8 DEF LInv, Open

\* A write changes the document of one key, and what may survive under it.
Written(k) ==
  /\ Current'[k] \in Contents
  /\ Current' = [Current EXCEPT ![k] = Current'[k]]
  /\ \/ survivors' = [survivors EXCEPT ![k] = {Current'[k]}]
     \/ survivors' = [survivors EXCEPT ![k] = @ \cup {Current'[k]}]

\* A logged write is the only document that its key can then come back with.
LEMMA LengthenedLogs ==
  ASSUME NEW d, NEW new, NEW n, NEW e, NEW ts, Lengthened(d, new, n, e),
         new.wal[n] = [ts |-> ts, entry |-> e], NEW k
  PROVE  Logs(new, k) = IF k = e.id THEN {DocOf(e)} ELSE Logs(d, k)
<1> DEFINE Of(x) == {m \in LastOf(x) : x.wal[m].entry.id = k}
<1>1. /\ LastOf(new) = {m \in LastOf(d) : d.wal[m].entry.id # e.id} \cup {n}
      /\ new.wal[n].entry = e
      /\ \A m \in LastOf(d) : new.wal[m] = d.wal[m]
  BY DEF Lengthened, LastOf, Replays
<1>2. CASE k = e.id
  <2>1. Of(new) = {n}
    BY <1>1, <1>2
  <2> QED
    BY <1>1, <1>2, <2>1 DEF Logs
<1>3. CASE k # e.id
  <2>1. Of(new) = Of(d)
    BY <1>1, <1>3
  <2>2. \A m \in Of(d) : new.wal[m] = d.wal[m]
    BY <1>1
  <2> QED
    BY <1>3, <2>1, <2>2 DEF Logs
<1> QED
  BY <1>2, <1>3

LEMMA LoggedHolds ==
  ASSUME TInv, CInv, LInv, step = "idle", ~Unheard,
         NEW k \in Key, NEW new \in Store, NEW e \in Entry, e.id = k, LoggedWrite(k, new, e),
         DocOf(e) = Document(new, disk.vecs, k), DocOf(e) \in Contents,
         \A j \in Key : j # k => Document(new, disk.vecs, j) = Current[j],
         new.dirty # {}
  PROVE  LInv' /\ Written(k)
<1>1. disk \in Disk /\ nextTs \in Nat
  BY StateTypes
<1>2. /\ store' = new /\ disk' = Logged(disk, nextTs, e) /\ nextTs' = nextTs + 1
      /\ step' \in {"idle", "due"} /\ UNCHANGED epoch
      /\ \E old \in {{}, survivors[k]} :
           survivors' = [survivors EXCEPT ![k] = old \cup {DocOf(e)}]
  BY DEF LoggedWrite
<1>3. /\ survivors' \in [Key -> SUBSET Contents] /\ DocOf(e) \in survivors'[k]
      /\ \A j \in Key : j # k => survivors'[j] = survivors[j]
  BY <1>2 DEF LInv
<1>4. PICK d, grown \in Disk, ts, n \in Nat :
        d = disk /\ grown = disk' /\ ts = nextTs /\ n = Len(disk.wal) + 1
        /\ WithEntry(d, ts, e, grown)
  <2>1. PICK d \in Disk, ts \in Nat : d = disk /\ ts = nextTs
    BY <1>1
  <2>2. WithEntry(d, ts, e, Logged(d, ts, e))
    BY LoggedEffect
  <2>3. Logged(d, ts, e) \in Disk /\ Len(d.wal) + 1 \in Nat
    BY <2>2 DEF WithEntry
  <2> QED
    BY <1>2, <2>1, <2>2, <2>3
<1>5. ~Covered(grown, grown.wal[n])
  <2>1. Len(disk'.wal) = n
    BY <1>4 DEF WithEntry
  <2> QED
    BY <1>4, <2>1 DEF Unheard
<1>6. Lengthened(d, grown, n, e) /\ grown.wal[n] = [ts |-> ts, entry |-> e]
  <2>1. n = Len(d.wal) + 1 /\ WithEntry(d, ts, e, grown)
    BY <1>4
  <2> QED
    BY <1>5, <2>1, AppendLengthens
<1>7. \A j : Logs(grown, j) = IF j = e.id THEN {DocOf(e)} ELSE Logs(d, j)
  BY <1>6, LengthenedLogs
<1>8. /\ Held(k)' = {DocOf(e)}
      /\ \A j \in Key : j # k => Held(j)' \subseteq Held(j)
  <2>1. Unlogged(disk') = Unlogged(disk) \ {k} /\ \A j : SnapDoc(disk', j) = SnapDoc(disk, j)
    BY <1>4, <1>6 DEF Lengthened
  <2>2. \A j \in Key : Intact(j)' => j # k /\ Intact(j)
    BY <1>2, <2>1 DEF Intact, Open
  <2> QED
    BY <1>4, <1>7, <2>1, <2>2 DEF Held
<1>9. Current'[k] = DocOf(e) /\ \A j \in Key : j # k => Current'[j] = Current[j]
  <2>1. disk'.vecs = disk.vecs
    BY <1>4 DEF WithEntry
  <2>2. \A j \in Key : Current'[j] = Document(store', disk'.vecs, j)
    BY DEF Current, MapOf
  <2> QED
    BY <1>2, <2>1, <2>2
<1>10. \A j \in Key : Unsaved' = {} \/ Current'[j] = None => Held(j)' \subseteq {Current'[j]}
  <2>1. Unsaved' # {}
    BY <1>2 DEF Unsaved
  <2>2. \A j \in Key : Current[j] = None => Held(j) \subseteq {Current[j]}
    BY DEF LInv, Open
  <2> QED
    BY <1>8, <1>9, <2>1, <2>2
<1>11. LogOrdered'
  <2>1. /\ DOMAIN grown.wal = 1..n /\ DOMAIN d.wal = 1..(n - 1)
        /\ \A m \in DOMAIN d.wal : grown.wal[m] = d.wal[m]
        /\ grown.wal[n].ts = ts
        /\ Replays(grown) = Replays(d) \cup {n}
    BY <1>6 DEF Lengthened
  <2>2. \A m \in 1..n : m \in 1..(n - 1) \/ m = n
    BY <1>4
  <2>3. \A m \in DOMAIN d.wal : d.wal[m].ts \in Nat
    <3>1. d.wal \in Seq([ts : Nat, entry : Entry])
      BY DEF Disk
    <3>2. \A m \in DOMAIN d.wal : d.wal[m] \in [ts : Nat, entry : Entry]
      BY <3>1, LenProperties, ElementOfSeq
    <3> QED
      BY <3>2
  <2>4. \A m \in DOMAIN d.wal : d.wal[m].ts < ts
    BY <1>4 DEF LInv, LogOrdered
  <2>5. \A m \in DOMAIN grown.wal : grown.wal[m].ts < nextTs'
    <3>1. \A m \in DOMAIN d.wal : d.wal[m].ts < ts + 1
      BY <2>3, <2>4
    <3>2. ts < ts + 1
      OBVIOUS
    <3> QED
      BY <1>2, <1>4, <2>1, <2>2, <3>1, <3>2
  <2>6. \A i \in DOMAIN grown.wal : \A j \in DOMAIN grown.wal :
          j <= i => grown.wal[j].ts <= grown.wal[i].ts
    <3> SUFFICES ASSUME NEW i \in 1..n, NEW j \in 1..n, j <= i
                 PROVE  grown.wal[j].ts <= grown.wal[i].ts
      BY <2>1
    <3>1. CASE i = n /\ j = n
      BY <2>1, <3>1
    <3>2. CASE i = n /\ j # n
      BY <2>1, <2>2, <2>3, <2>4, <3>2
    <3>3. CASE i # n
      <4>1. j # n
        BY <1>4, <3>3
      <4>2. i \in DOMAIN d.wal /\ j \in DOMAIN d.wal
        BY <2>1, <2>2, <3>3, <4>1
      <4>3. d.wal[j].ts <= d.wal[i].ts
        BY <1>4, <4>2 DEF LInv, LogOrdered
      <4> QED
        BY <2>1, <4>2, <4>3
    <3> QED
      BY <3>1, <3>2, <3>3
  <2>7. Replays(grown) # DOMAIN grown.wal => epoch = disk.metaEpoch
    <3>1. Replays(d) = DOMAIN d.wal => Replays(grown) = DOMAIN grown.wal
      BY <1>4, <2>1, <2>2
    <3> QED
      BY <1>4, <3>1 DEF LInv, LogOrdered, Open
  <2>8. disk'.metaEpoch = disk.metaEpoch
    BY <1>4 DEF WithEntry
  <2> QED
    BY <1>2, <1>4, <2>5, <2>6, <2>7, <2>8 DEF LogOrdered
<1>12. \A j \in Key : Current'[j] \in survivors'[j] /\ Held(j)' \subseteq survivors'[j]
  BY <1>3, <1>8, <1>9 DEF LInv
<1>13. Written(k)
  <2>1. \/ survivors' = [survivors EXCEPT ![k] = {DocOf(e)}]
        \/ survivors' = [survivors EXCEPT ![k] = @ \cup {DocOf(e)}]
    BY DEF LoggedWrite
  <2>2. Current' = [Current EXCEPT ![k] = DocOf(e)]
    BY <1>9 DEF Current, MapOf
  <2> QED
    BY <1>9, <2>1, <2>2 DEF Written
<1> QED
  BY <1>2, <1>3, <1>10, <1>11, <1>12, <1>13 DEF LInv

\* A write that is not logged leaves the files as they are.
LEMMA UnloggedHolds ==
  ASSUME TInv, CInv, LInv, step = "idle", NEW k \in Key, NEW new \in Store,
         NEW next \in {"idle", "due"}, UnloggedWrite(k, new, next),
         Document(new, disk.vecs, k) \in Contents \ {None},
         \A j \in Key : j # k => Document(new, disk.vecs, j) = Current[j],
         new.dirty # {}
  PROVE  LInv' /\ Written(k)
<1>1. /\ store' = new /\ step' \in {"idle", "due"} /\ disk' = disk /\ UNCHANGED <<epoch, nextTs>>
      /\ survivors' = [survivors EXCEPT ![k] = @ \cup {Document(new, disk.vecs, k)}]
  BY DEF UnloggedWrite
<1>2. /\ survivors' \in [Key -> SUBSET Contents]
      /\ survivors'[k] = survivors[k] \cup {Document(new, disk.vecs, k)}
      /\ \A j \in Key : j # k => survivors'[j] = survivors[j]
  BY <1>1 DEF LInv
<1>3. \A j \in Key : Current'[j] = Document(new, disk.vecs, j)
  BY <1>1 DEF Current, MapOf
<1>4. \A j \in Key : Held(j)' = Held(j)
  BY <1>1 DEF Held, Intact, Open
<1>5. Unsaved' # {}
  BY <1>1 DEF Unsaved
<1>6. \A j \in Key : Current'[j] = None => Held(j)' \subseteq {Current'[j]}
  BY <1>3, <1>4 DEF LInv, Open
<1>7. LogOrdered'
  BY <1>1 DEF LInv, LogOrdered, Open
<1>8. \A j \in Key : Current'[j] \in survivors'[j] /\ Held(j)' \subseteq survivors'[j]
  BY <1>2, <1>3, <1>4 DEF LInv
<1>9. Written(k)
  <2>1. Current' = [Current EXCEPT ![k] = Document(new, disk.vecs, k)]
    <3>1. \A j \in Key : j # k => Current'[j] = Current[j]
      BY <1>3
    <3> QED
      BY <1>3, <3>1 DEF Current, MapOf
  <2> QED
    BY <1>1, <1>3, <2>1 DEF Written
<1> QED
  BY <1>1, <1>2, <1>5, <1>6, <1>7, <1>8, <1>9 DEF LInv

\* What the calls that write make of the documents.
LEMMA SetDocument ==
  ASSUME NEW st \in Store, Consistent(st), NEW k \in Key, NEW v \in Val, NEW vecs
  PROVE  /\ WithVector(st, k, v, v) \in Store /\ WithVector(st, k, v, v).dirty # {}
         /\ Document(WithVector(st, k, v, v), vecs, k) = [vec |-> v, meta |-> v]
         /\ \A j \in Key : j # k =>
              Document(WithVector(st, k, v, v), vecs, j) = Document(st, vecs, j)
<1> DEFINE rec == [id |-> k, vec |-> v, aux |-> None, meta |-> v]
           new == Upserted(st, rec)
<1>1. rec \in Record /\ WithVector(st, k, v, v) = new /\ rec.id = k /\ rec.vec = v /\ rec.meta = v
  BY NewRecordType, SetFollows
<1>2. Seen(v, vecs) = v
  BY ValAssumption DEF Seen
<1>3. \A j \in Key : j \in Name
  BY KeyNoPhantom
<1> HIDE DEF rec
<1>4. new \in Store
  BY <1>1, UpsertKeeps
<1>5. new.dirty # {}
  <2>1. Facts!Moved(st, rec, new, st.idToSlot[rec.id], Len(st.slots) + 1)
    BY <1>1, UpsertEffect
  <2> HIDE DEF new
  <2> QED
    BY <2>1 DEF Facts!Moved
<1>6. \A j \in Key : Document(new, vecs, j)
                       = IF j = rec.id THEN [vec |-> Seen(rec.vec, vecs), meta |-> rec.meta]
                         ELSE Document(st, vecs, j)
  BY <1>1, <1>3, UpsertDocument
<1> HIDE DEF new
<1> QED
  BY <1>1, <1>2, <1>4, <1>5, <1>6

LEMMA SetsHold ==
  ASSUME TInv, CInv, LInv, ~Unheard, NEW k \in Key, NEW v \in Val, Set(k, v) \/ SetBatch(k, v)
  PROVE  LInv' /\ Written(k)
<1> DEFINE new == WithVector(store, k, v, v)
<1>1. store \in Store /\ Consistent(store) /\ step = "idle"
  BY StateTypes DEF Set, SetBatch, Called
<1>2. /\ new \in Store /\ new.dirty # {}
      /\ Document(new, disk.vecs, k) = [vec |-> v, meta |-> v]
      /\ \A j \in Key : j # k => Document(new, disk.vecs, j) = Document(store, disk.vecs, j)
  BY <1>1, SetDocument
<1>3. [vec |-> v, meta |-> v] \in Contents \ {None}
  BY DocumentAssumption DEF Contents
<1>4. \A j \in Key : j # k => Document(new, disk.vecs, j) = Current[j]
  BY <1>2, CurrentDocument
<1>5. CASE Set(k, v)
  <2> DEFINE e == UpsertEntry(k, v, v)
  <2>1. LoggedWrite(k, new, e)
    BY <1>5 DEF Set
  <2>2. e \in Entry /\ e.id = k /\ DocOf(e) = [vec |-> v, meta |-> v]
    BY SetEntryType DEF UpsertEntry, DocOf
  <2> HIDE DEF new, e
  <2> QED
    BY <1>1, <1>2, <1>3, <1>4, <2>1, <2>2, LoggedHolds
<1>6. CASE SetBatch(k, v)
  <2> DEFINE next == IF Len(disk.wal) >= WalThreshold THEN "due" ELSE "idle"
  <2>1. UnloggedWrite(k, new, next) /\ next \in {"idle", "due"}
    BY <1>6 DEF SetBatch
  <2> HIDE DEF new, next
  <2> QED
    BY <1>1, <1>2, <1>3, <1>4, <2>1, UnloggedHolds
<1> QED
  BY <1>5, <1>6

LEMMA DeleteHolds ==
  ASSUME TInv, CInv, LInv, ~Unheard, NEW k \in Key, Delete(k)
  PROVE  LInv' /\ Written(k)
<1> DEFINE new == Removed(store, k)
           e == DeleteEntry(k)
<1>1. store \in Store /\ Consistent(store) /\ step = "idle" /\ Deletable(store, k)
      /\ LoggedWrite(k, new, e)
  BY StateTypes DEF Delete, Called
<1>2. \A j \in Key : j \in Name
  BY KeyNoPhantom
<1>3. /\ e \in Entry /\ e.id = k /\ DocOf(e) = None /\ None \in Contents
  BY DEF DeleteEntry, Entry, DocOf, Contents
<1>4. new \in Store
  BY <1>1, <1>2, RemoveKeeps
<1>5. new.dirty # {}
  <2>1. Facts!Gone(store, k, new, store.idToSlot[k])
    BY <1>1, <1>2, RemoveEffect
  <2> HIDE DEF new
  <2> QED
    BY <2>1 DEF Facts!Gone
<1>6. \A j \in Key : Document(new, disk.vecs, j) = IF j = k THEN None ELSE Document(store, disk.vecs, j)
  BY <1>1, <1>2, RemoveDocument
<1>7. \A j \in Key : j # k => Document(new, disk.vecs, j) = Current[j]
  BY <1>6, CurrentDocument
<1> HIDE DEF new, e
<1> QED
  BY <1>1, <1>3, <1>4, <1>5, <1>6, <1>7, LoggedHolds

LEMMA UpdateHolds ==
  ASSUME TInv, CInv, DInv, LInv, ~Unheard, NEW k \in Key, NEW m \in Val, Update(k, m)
  PROVE  LInv' /\ Written(k)
<1> DEFINE s == store.idToSlot[k]
           new == WithMeta(store, s, m)
           v == Seen(RecordOf(store, k).vec, disk.vecs)
           e == UpsertEntry(k, v, m)
<1>1. store \in Store /\ Consistent(store) /\ disk \in Disk /\ step = "idle" /\ Found(store, k)
      /\ (v # None => LoggedWrite(k, new, e))
  BY StateTypes DEF Update, Called
<1>2. s \in LiveSlots(store) /\ RecordOf(store, k) = store.slots[s]
  BY <1>1, FoundSlot
<1>3. v \in Val \cup {Zero} /\ store.slots[s].meta \in Val \cup {None}
  <2>1. store.slots[s].vec # None
    BY <1>2 DEF DInv, Dense
  <2> HIDE DEF s
  <2> QED
    BY <1>1, <1>2, <2>1, SeenType
<1>4. Document(store, disk.vecs, k) = [vec |-> v, meta |-> store.slots[s].meta]
  BY <1>1, <1>2, DocumentFound
<1>5. v \in Val /\ v # None
  <2> HIDE DEF v, s
  <2>1. [vec |-> v, meta |-> store.slots[s].meta] \in Contents
    <3>1. Document(store, disk.vecs, k) \in survivors[k] /\ survivors[k] \in SUBSET Contents
      BY CurrentDocument DEF LInv
    <3> QED
      BY <1>4, <3>1
  <2>2. [vec |-> v, meta |-> store.slots[s].meta] # None
    BY <1>3, DocumentAssumption
  <2>3. [vec |-> v, meta |-> store.slots[s].meta].vec \in Val
    BY <2>1, <2>2 DEF Contents
  <2> QED
    BY <2>3, NoneAssumption
<1>6. LoggedWrite(k, new, e)
  BY <1>1, <1>5
<1>7. /\ e \in Entry /\ e.id = k /\ DocOf(e) = [vec |-> v, meta |-> m] /\ DocOf(e) \in Contents
  <2> HIDE DEF v
  <2> QED
    BY <1>5, SetEntryType DEF UpsertEntry, DocOf, Contents
<1>8. new \in Store /\ new.dirty # {}
  <2> HIDE DEF s
  <2>1. MetaWritten(store, s, m, new)
    BY <1>1, <1>2, WithMetaKeeps
  <2> HIDE DEF new
  <2> QED
    BY <2>1 DEF MetaWritten
<1>9. \A j \in Key : Document(new, disk.vecs, j)
                       = IF j = k THEN [vec |-> v, meta |-> m] ELSE Document(store, disk.vecs, j)
  <2>1. \A j \in Key : j \in Name
    BY KeyNoPhantom
  <2>2. \A j \in Key : Document(new, disk.vecs, j)
                         = IF j = k THEN [vec |-> Document(store, disk.vecs, k).vec, meta |-> m]
                           ELSE Document(store, disk.vecs, j)
    BY <1>1, <2>1, MetaDocument
  <2> HIDE DEF new, v, s
  <2> QED
    BY <1>4, <2>2
<1>10. \A j \in Key : j # k => Document(new, disk.vecs, j) = Current[j]
  BY <1>9, CurrentDocument
<1> HIDE DEF new, e, v, s
<1> QED
  BY <1>1, <1>6, <1>7, <1>8, <1>9, <1>10, LoggedHolds

-----------------------------------------------------------------------------
(* What a restart leaves is what may survive.                              *)

LEMMA Recovers ==
  ASSUME TInv, CInv, DInv, ~Emptied
  PROVE  /\ \A k \in Unlogged(disk) :
              Document(Recovered(disk), disk.vecs, k) = SnapDoc(disk, k)
         /\ \A m \in LastOf(disk) :
              Document(Recovered(disk), disk.vecs, disk.wal[m].entry.id) = DocOf(disk.wal[m].entry)
         /\ \A k \in Key \ Unlogged(disk) : \E m \in LastOf(disk) : disk.wal[m].entry.id = k
<1>1. disk \in Disk /\ FilesFit(disk) /\ SnapshotsWhole(disk)
  BY StateTypes DEF DInv
<1>2. PICK d \in Disk, n \in 0..SlotLimit :
         d = disk /\ Len(d.vecs) <= n /\ InRange(Chosen(d).ids, n)
  BY <1>1, FilesToRecover
<1>3. FilesFit(d) /\ SnapshotsWhole(d)
  BY <1>1, <1>2
<1>4. /\ \A k \in Unlogged(d) : Document(Recovered(d), d.vecs, k) = SnapDoc(d, k)
      /\ \A m \in LastOf(d) :
           Document(Recovered(d), d.vecs, d.wal[m].entry.id) = DocOf(d.wal[m].entry)
  BY <1>2, <1>3, RecoveredDocument
<1>5. \A k \in Key \ Unlogged(d) : \E m \in LastOf(d) : d.wal[m].entry.id = k
  BY LoggedOrNot
<1> QED
  BY <1>2, <1>4, <1>5

LEMMA Survives ==
  ASSUME TInv, CInv, DInv, LInv, ~Emptied, ~Torn, NEW k \in Key
  PROVE  Document(Recovered(disk), disk.vecs, k) \in survivors[k]
<1>1. CASE k \in Unlogged(disk) /\ Open
  <2>1. Intact(k)
    BY <1>1 DEF Intact, Torn
  <2>2. SnapDoc(disk, k) \in survivors[k]
    BY <2>1 DEF Held, LInv
  <2> QED
    BY <1>1, <2>2, Recovers
<1>2. CASE k \in Unlogged(disk) /\ ~Open
  <2>1. step \in {"truncate", "stamp"}
    BY <1>2 DEF Open, TInv, TypeOK, Steps
  <2>2. SnapDoc(disk, k) = Current[k]
    BY <2>1, PublishedDocuments
  <2>3. Current[k] \in survivors[k]
    BY DEF LInv
  <2> QED
    BY <1>2, <2>2, <2>3, Recovers
<1>3. CASE k \notin Unlogged(disk)
  <2>1. PICK m \in LastOf(disk) : disk.wal[m].entry.id = k
    BY <1>3, Recovers
  <2>2. DocOf(disk.wal[m].entry) \in Held(k)
    BY <2>1 DEF Held, Logs
  <2>3. DocOf(disk.wal[m].entry) \in survivors[k]
    BY <2>2 DEF LInv
  <2> QED
    BY <2>1, <2>3, Recovers
<1> QED
  BY <1>1, <1>2, <1>3

\* The clock goes on from the last entry of the log.
LEMMA LastEntry ==
  ASSUME NEW d \in Disk, NEW n \in DOMAIN d.wal,
         \A i \in DOMAIN d.wal : \A j \in DOMAIN d.wal : j <= i => d.wal[j].ts <= d.wal[i].ts
  PROVE  d.wal[n].ts < WalTime(d) /\ WalEpoch(d) = d.metaEpoch
<1>1. d.wal \in Seq([ts : Nat, entry : Entry])
  BY DEF Disk
<1>2. DOMAIN d.wal = 1..Len(d.wal) /\ Len(d.wal) \in Nat
  BY <1>1, LenProperties
<1>3. d.wal # << >>
  OBVIOUS
<1>4. n <= Len(d.wal) /\ Len(d.wal) \in DOMAIN d.wal
  BY <1>2
<1>5. d.wal[n] \in [ts : Nat, entry : Entry] /\ d.wal[Len(d.wal)] \in [ts : Nat, entry : Entry]
  BY <1>1, <1>2, <1>4, ElementOfSeq
<1>6. WalTime(d) = d.wal[Len(d.wal)].ts + 1
  BY <1>3 DEF WalTime, Last
<1>7. d.wal[n].ts <= d.wal[Len(d.wal)].ts
  BY <1>4
<1> QED
  BY <1>3, <1>5, <1>6, <1>7 DEF WalEpoch

LEMMA RestartHolds ==
  ASSUME TInv, CInv, DInv, LInv, ~Emptied, ~Torn, Restart
  PROVE  LInv'
<1>1. /\ disk' = disk /\ store' = Recovered(disk) /\ step' = "idle"
      /\ epoch' = WalEpoch(disk) /\ nextTs' = WalTime(disk)
      /\ survivors' = [k \in Key |-> {Document(Recovered(disk), disk.vecs, k)}]
  BY DEF Restart
<1>2. disk \in Disk
  BY StateTypes
<1>3. \A k \in Key : Current'[k] = Document(Recovered(disk), disk.vecs, k)
  BY <1>1 DEF Current, MapOf
<1>4. \A k \in Key : Document(Recovered(disk), disk.vecs, k) \in Contents
  <2>1. \A k \in Key : survivors[k] \subseteq Contents
    BY DEF LInv
  <2> QED
    BY <2>1, Survives
<1>5. \A k \in Key : Held(k)' \subseteq {Current'[k]}
  <2> SUFFICES ASSUME NEW k \in Key, NEW doc \in Held(k)'
               PROVE  doc = Document(Recovered(disk), disk.vecs, k)
    BY <1>3
  <2>1. CASE doc \in Logs(disk, k)
    BY <2>1, Recovers DEF Logs
  <2>2. CASE k \in Unlogged(disk) /\ doc = SnapDoc(disk, k)
    BY <2>2, Recovers
  <2> QED
    BY <1>1, <2>1, <2>2 DEF Held, Intact
<1>6. LogOrdered'
  <2>1. PICK d \in Disk : d = disk
    BY <1>2
  <2>2. \A i \in DOMAIN d.wal : \A j \in DOMAIN d.wal : j <= i => d.wal[j].ts <= d.wal[i].ts
    BY <2>1 DEF LInv, LogOrdered
  <2>3. \A n \in DOMAIN d.wal : d.wal[n].ts < WalTime(d) /\ WalEpoch(d) = d.metaEpoch
    BY <2>2, LastEntry
  <2>4. Replays(d) # DOMAIN d.wal => \E n : n \in DOMAIN d.wal
    BY DEF Replays
  <2>5. Replays(d) # DOMAIN d.wal => WalEpoch(d) = d.metaEpoch
    BY <2>3, <2>4
  <2> QED
    BY <1>1, <2>1, <2>2, <2>3, <2>5 DEF LogOrdered
<1> QED
  BY <1>1, <1>3, <1>4, <1>5, <1>6 DEF LInv

-----------------------------------------------------------------------------
(* Every step is one of the durable map, or changes nothing it shows.      *)

Restarted == MaxRestarts - budget.restarts

LEMMA RestartsCounted ==
  ASSUME TInv, Next
  PROVE  Restarted' = IF Restart THEN Restarted + 1 ELSE Restarted
<1>1. budget.restarts \in Int /\ MaxRestarts \in Int
      /\ budget \in [calls : 0..MaxCalls, restarts : 0..MaxRestarts, errors : 0..MaxErrors]
  BY BoundsAssumption DEF TInv, TypeOK
<1>2. CASE Restart
  <2>1. budget'.restarts = budget.restarts - 1
    BY <1>1, <1>2 DEF Restart
  <2> QED
    BY <1>1, <1>2, <2>1 DEF Restarted
<1>3. CASE ~Restart
  <2>1. \/ budget' = budget
        \/ budget' = [budget EXCEPT !.calls = @ - 1]
        \/ budget' = [budget EXCEPT !.errors = @ - 1]
    BY <1>3 DEF Next, Set, SetBatch, Update, Delete, DeleteNone, Compact, Flush, Called,
         BeginFull, BeginFast, BeginIncremental, Begin, NothingDirty, FailToStat, FailToGrow,
         FailToStart, WriteSlot, PublishSlim, PublishManifest, FailToPublish, EmptyWal,
         StampEpoch, FailToStamp
  <2>2. budget'.restarts = budget.restarts
    BY <1>1, <2>1
  <2> QED
    BY <1>3, <2>2 DEF Restarted
<1> QED
  BY <1>2, <1>3

\* What a step does to the documents and to those that may survive.
Allowed ==
  \/ \E k \in Key : Written(k) /\ ~Restart
  \/ Current' = Current /\ survivors' = survivors /\ ~Restart
  \/ Current' = Current /\ survivors' = [k \in Key |-> {Current[k]}] /\ ~Restart
  \/ /\ Restart /\ Current' \in [Key -> Contents]
     /\ \A k \in Key : Current'[k] \in survivors[k]
     /\ survivors' = [k \in Key |-> {Current'[k]}]

LEMMA AllowedImplements ==
  ASSUME TInv, Next, Allowed
  PROVE  [Durable!Next]_<<Current, survivors, Restarted>>
<1>1. Restarted' = IF Restart THEN Restarted + 1 ELSE Restarted
  BY RestartsCounted
<1>2. CASE \E k \in Key : Written(k) /\ ~Restart
  <2>1. PICK k \in Key : Written(k) /\ ~Restart
    BY <1>2
  <2>2. PICK doc \in [vec : Val, meta : Val] \cup {None} : doc = Current'[k]
    BY <2>1 DEF Written, Contents
  <2>3. Durable!Commit(k, doc) \/ Durable!Write(k, doc)
    BY <1>1, <2>1, <2>2 DEF Written, Restarted, Durable!Commit, Durable!Write
  <2> QED
    BY <2>3 DEF Durable!Next
<1>3. CASE Current' = Current /\ survivors' = survivors /\ ~Restart
  BY <1>1, <1>3
<1>4. CASE Current' = Current /\ survivors' = [k \in Key |-> {Current[k]}] /\ ~Restart
  <2>1. Durable!Persist
    BY <1>1, <1>4 DEF Restarted, Durable!Persist
  <2> QED
    BY <2>1 DEF Durable!Next
<1>5. CASE /\ Restart /\ Current' \in [Key -> Contents]
           /\ \A k \in Key : Current'[k] \in survivors[k]
           /\ survivors' = [k \in Key |-> {Current'[k]}]
  <2>1. Durable!Restart
    BY <1>1, <1>5 DEF Restarted, Contents, Durable!Restart
  <2> QED
    BY <2>1 DEF Durable!Next
<1> QED
  BY <1>2, <1>3, <1>4, <1>5 DEF Allowed

LEMMA QuietSteps ==
  ASSUME TInv, CInv, DInv, LInv, ~Losing, ~Restart, Current' = Current,
         \/ DeleteNone \/ Compact \/ Flush
         \/ BeginFull \/ BeginFast \/ BeginIncremental \/ NothingDirty
         \/ FailToStat \/ FailToGrow
         \/ WriteSlot \/ PublishSlim \/ PublishManifest \/ FailToPublish
         \/ EmptyWal \/ StampEpoch \/ FailToStamp
  PROVE  LInv' /\ Allowed
<1>1. LInv'
  <2>1. FailToPublish => ~Emptied /\ ~Torn
    BY DEF Losing, Detaching, Disputed
  <2> QED
    BY <2>1, CallsHold, BeginsHold, PersistHolds, WriteSlotHolds, PublishHolds,
       UnpublishedHolds, EmptyWalHolds, StampHolds
<1>2. survivors' = survivors \/ survivors' = [k \in Key |-> {Current[k]}]
  BY DEF DeleteNone, Compact, Flush, BeginFull, BeginFast, BeginIncremental, Begin,
         NothingDirty, FailToStat, FailToGrow, FailToStart, WriteSlot, PublishSlim,
         PublishManifest, FailToPublish, EmptyWal, StampEpoch, FailToStamp, Persisted
<1> QED
  BY <1>1, <1>2 DEF Allowed

LEMMA WriteSteps ==
  ASSUME TInv, CInv, DInv, LInv, ~Losing, ~Restart, NEW k \in Key,
         Delete(k) \/ \E v \in Val : Set(k, v) \/ SetBatch(k, v) \/ Update(k, v)
  PROVE  LInv' /\ Allowed
<1>1. ~Unheard
  BY DEF Losing
<1>2. LInv' /\ Written(k)
  BY <1>1, SetsHold, DeleteHolds, UpdateHolds
<1> QED
  BY <1>2 DEF Allowed

LEMMA RestartStep ==
  ASSUME TInv, CInv, DInv, LInv, ~Losing, Restart
  PROVE  LInv' /\ Allowed
<1>1. ~Emptied /\ ~Torn
  BY DEF Losing, Detaching, Disputed
<1>2. LInv'
  BY <1>1, RestartHolds
<1>3. /\ \A k \in Key : Current'[k] = Document(Recovered(disk), disk.vecs, k)
      /\ survivors' = [k \in Key |-> {Document(Recovered(disk), disk.vecs, k)}]
  BY DEF Restart, Current, MapOf
<1>4. survivors' = [k \in Key |-> {Current'[k]}]
  BY <1>3
<1>5. \A k \in Key : Current'[k] \in survivors[k]
  BY <1>1, <1>3, Survives
<1>6. Current' \in [Key -> Contents]
  <2>1. \A k \in Key : Current'[k] \in Contents
    BY <1>2 DEF LInv
  <2> QED
    BY <2>1 DEF Current, MapOf
<1> QED
  BY <1>2, <1>4, <1>5, <1>6 DEF Allowed

LEMMA NextHolds ==
  TInv /\ CInv /\ DInv /\ LInv /\ TInv' /\ [Next]_vars /\ [~Losing]_vars
    => LInv' /\ [Durable!Next]_<<Current, survivors, Restarted>>
<1> SUFFICES ASSUME TInv, CInv, DInv, LInv, TInv', [Next]_vars, [~Losing]_vars
             PROVE  LInv' /\ [Durable!Next]_<<Current, survivors, Restarted>>
  OBVIOUS
<1>1. CASE UNCHANGED vars
  <2>1. UNCHANGED <<Current, survivors, Restarted>>
    BY <1>1 DEF vars, Current, Restarted
  <2>2. LInv'
    BY <1>1, <2>1
       DEF vars, LInv, LogOrdered, Held, Intact, Open, Unsaved, Emptied
  <2> QED
    BY <2>1, <2>2
<1>2. CASE Next /\ ~Losing
  <2>1. [Undisturbed]_vars /\ ~Detaching
    <3>1. [~Detaching]_vars /\ ~Detaching
      BY <1>2 DEF Losing
    <3> QED
      BY <3>1, NextSight
  <2>2. CASE Restart
    BY <1>2, <2>2, RestartStep, AllowedImplements
  <2>3. ASSUME ~Restart, NEW k \in Key,
               Delete(k) \/ \E v \in Val : Set(k, v) \/ SetBatch(k, v) \/ Update(k, v)
        PROVE  LInv' /\ Allowed
    BY <1>2, <2>3, WriteSteps
  <2>4. ASSUME ~Restart,
               \/ DeleteNone \/ Compact \/ Flush
               \/ BeginFull \/ BeginFast \/ BeginIncremental \/ NothingDirty
               \/ FailToStat \/ FailToGrow
               \/ WriteSlot \/ PublishSlim \/ PublishManifest \/ FailToPublish
               \/ EmptyWal \/ StampEpoch \/ FailToStamp
        PROVE  LInv' /\ Allowed
    <3>1. Current' = Current
      <4>1. CASE DeleteNone
        BY <4>1 DEF DeleteNone, Current
      <4>2. CASE UNCHANGED vars
        BY <4>2 DEF vars, Current
      <4>3. CASE ~DeleteNone /\ ~UNCHANGED vars
        <5>1. step # "idle" \/ Compact \/ Flush
          BY <2>4, <4>3 DEF BeginFull, BeginFast, BeginIncremental, NothingDirty,
               FailToStat, FailToGrow, FailToStart, WriteSlot, PublishSlim,
               PublishManifest, FailToPublish, EmptyWal, StampEpoch, FailToStamp
        <5> QED
          BY <2>1, <2>4, <4>3, <5>1 DEF Undisturbed
      <4> QED
        BY <4>1, <4>2, <4>3
    <3> QED
      BY <1>2, <2>4, <3>1, QuietSteps
  <2>5. LInv' /\ (Restart \/ Allowed)
    BY <1>2, <2>2, <2>3, <2>4 DEF Next
  <2> QED
    BY <1>2, <2>2, <2>5, AllowedImplements
<1> QED
  BY <1>1, <1>2

LEMMA InitHolds == Init => LInv /\ Durable!Init
<1> SUFFICES ASSUME Init PROVE LInv /\ Durable!Init
  OBVIOUS
<1>1. /\ disk = EmptyDisk /\ store = EmptyStore /\ step = "idle" /\ epoch = 0 /\ nextTs = 0
      /\ survivors = [k \in Key |-> {None}]
      /\ budget = [calls |-> MaxCalls, restarts |-> MaxRestarts, errors |-> MaxErrors]
  BY DEF Init
<1>2. LiveSlots(EmptyStore) = {} /\ EmptyStore \in Store
  BY EmptyType DEF LiveSlots, EmptyStore
<1>3. \A k \in Key : Current[k] = None
  <2>1. \A k \in Key : Document(EmptyStore, disk.vecs, k) = None
    BY <1>2, NothingLives
  <2> QED
    BY <1>1, <2>1, CurrentDocument
<1>4. disk.wal = << >> /\ disk.slim = None /\ disk.manifest.ids = [i \in Name |-> NoSlot]
  BY <1>1, EmptyType DEF EmptyDisk
<1>5. DOMAIN disk.wal = {} /\ Replays(disk) = {} /\ \A k : Logs(disk, k) = {}
  BY <1>4, EmptyLog
<1>6. \A k \in Key : SnapDoc(disk, k) = None
  <2>1. Chosen(disk) = disk.manifest
    BY <1>4 DEF Chosen, UsesSlim
  <2> QED
    BY <1>4, <2>1, KeyNoPhantom DEF SnapDoc
<1>7. \A k \in Key : Held(k) \subseteq {None}
  BY <1>5, <1>6 DEF Held
<1>8. LogOrdered
  BY <1>5 DEF LogOrdered
<1>9. LInv
  <2>1. None \in Contents
    BY DEF Contents
  <2> QED
    BY <1>1, <1>3, <1>7, <1>8, <2>1 DEF LInv
<1>10. Durable!Init
  <2>1. Current = [k \in Key |-> None]
    BY <1>3 DEF Current, MapOf
  <2>2. MaxRestarts - budget.restarts = 0
    BY <1>1, BoundsAssumption
  <2> QED
    BY <1>1, <2>1, <2>2 DEF Durable!Init
<1> QED
  BY <1>9, <1>10

LEMMA LosingDetaches == [~Losing]_vars => [~Detaching]_vars
BY DEF Losing

\* Every write, checkpoint, error and restart is one the durable map allows, unless a
\* step was Losing: an acknowledged write survives every restart, and no restart invents
\* or mixes documents.
THEOREM DurableMapImplemented ==
  Spec /\ [][~Losing]_vars => ImplementsDurableMap
<1>1. Init => Durable!Init
  BY InitHolds
<1>2. Init => LInv
  BY InitHolds
<1>3. TInv /\ CInv /\ DInv /\ LInv /\ TInv' /\ [Next]_vars /\ [~Losing]_vars
        => LInv' /\ [Durable!Next]_<<Current, survivors, MaxRestarts - budget.restarts>>
  BY NextHolds DEF Restarted
<1> QED
  BY <1>1, <1>2, <1>3, LosingDetaches, DetachingDisputes, InitType, NextType, InitConsistent,
     NextConsistent, InitSight, NextSight, PTL DEF Spec, ImplementsDurableMap, Durable!Spec

\* At every instant at which the process may stop without losing anything, the files hold
\* for every key a document that a restart may leave.
THEOREM FilesRecoverable ==
  Spec /\ [][~Losing]_vars => [](Emptied \/ Torn \/ Recoverable)
<1>1. TInv /\ CInv /\ DInv /\ LInv => Emptied \/ Torn \/ Recoverable
  BY Survives DEF Recoverable
<1>2. Init => LInv
  BY InitHolds
<1>3. TInv /\ CInv /\ DInv /\ LInv /\ TInv' /\ [Next]_vars /\ [~Losing]_vars => LInv'
  BY NextHolds
<1> QED
  BY <1>1, <1>2, <1>3, LosingDetaches, DetachingDisputes, InitType, NextType, InitConsistent,
     NextConsistent, InitSight, NextSight, PTL DEF Spec
=============================================================================
