------------------------- MODULE RecordStoreProofs -------------------------
(***************************************************************************)
(* Proofs about RecordStore, for every choice of names, payloads and bound *)
(* on the slots.  First the operators of Records: each method leaves a     *)
(* store a store, and a consistent one consistent; OmenStoreProofs takes   *)
(* these lemmas for the records a persistent store holds.  Then the state  *)
(* machine: type correctness, the consistency of the id map with the       *)
(* slots, that an incremental checkpoint misses no live vector, that slots *)
(* keep their identity, and that the store implements RecordMap.           *)
(***************************************************************************)
EXTENDS RecordStore, FiniteSetTheorems, TLAPS

-----------------------------------------------------------------------------
(* Renumbering: Rank is an order-preserving bijection from a finite set of  *)
(* slots to an initial segment of the slots.                               *)

\* The members of a finite set of slots up to any bound form a finite set, and
\* they are as many as the rank says.
LEMMA RankType ==
  ASSUME NEW S \in SUBSET Nat, IsFiniteSet(S), NEW s \in S
  PROVE  /\ IsFiniteSet({t \in S : t <= s})
         /\ Rank(S, s) \in 1..Cardinality(S)
<1> DEFINE U == {t \in S : t <= s}
<1>1. U \in SUBSET S /\ s \in U
  OBVIOUS
<1>2. IsFiniteSet(U) /\ Cardinality(U) <= Cardinality(S)
  BY <1>1, FS_Subset
<1>3. Cardinality(U) \in Nat /\ Cardinality(S) \in Nat
  BY <1>2, FS_CardinalityType
<1>4. Cardinality(U) # 0
  BY <1>1, <1>2, FS_EmptySet
<1> QED
  BY <1>2, <1>3, <1>4 DEF Rank

\* A greater slot has a greater rank: compaction keeps the records in order.
LEMMA RankMonotonic ==
  ASSUME NEW S \in SUBSET Nat, IsFiniteSet(S), NEW s \in S, NEW t \in S, s < t
  PROVE  Rank(S, s) < Rank(S, t)
<1> DEFINE Us == {x \in S : x <= s}
           Ut == {x \in S : x <= t}
<1>1. Us \in SUBSET Ut /\ t \in Ut /\ t \notin Us
  <2>1. \A x \in S : x <= s => x <= t
    OBVIOUS
  <2>2. ~(t <= s) /\ t <= t
    OBVIOUS
  <2> QED
    BY <2>1, <2>2
<1>2. IsFiniteSet(Ut)
  BY RankType
<1>3. IsFiniteSet(Us) /\ Cardinality(Us) <= Cardinality(Ut)
      /\ (Cardinality(Us) = Cardinality(Ut) => Us = Ut)
  <2>1. Us \in SUBSET Ut
    BY <1>1
  <2> HIDE DEF Us, Ut
  <2> QED
    BY <2>1, <1>2, FS_Subset
<1>4. Cardinality(Us) \in Nat /\ Cardinality(Ut) \in Nat
  BY <1>2, <1>3, FS_CardinalityType
<1>5. Cardinality(Us) # Cardinality(Ut)
  BY <1>1, <1>3
<1> QED
  BY <1>3, <1>4, <1>5 DEF Rank

\* Every number up to the size of the set is the rank of exactly one member.
LEMMA RankBijective ==
  ASSUME NEW S \in SUBSET Nat, IsFiniteSet(S)
  PROVE  /\ Cardinality(S) \in Nat
         /\ \A n \in 1..Cardinality(S) :
              Unranked(S, n) \in S /\ Rank(S, Unranked(S, n)) = n
         /\ \A s \in S : Unranked(S, Rank(S, s)) = s
<1> DEFINE k == Cardinality(S)
           f == [s \in S |-> Rank(S, s)]
<1>1. k \in Nat
  BY FS_CardinalityType
<1>2. \A s \in S : Rank(S, s) \in 1..k
  BY RankType
<1>3. \A s, t \in S : Rank(S, s) = Rank(S, t) => s = t
  <2> SUFFICES ASSUME NEW s \in S, NEW t \in S, Rank(S, s) = Rank(S, t), s # t
               PROVE  FALSE
    OBVIOUS
  <2>1. s < t \/ t < s
    OBVIOUS
  <2>2. Rank(S, s) < Rank(S, t) \/ Rank(S, t) < Rank(S, s)
    BY <2>1, RankMonotonic
  <2>3. Rank(S, s) \in Int /\ Rank(S, t) \in Int
    BY <1>1, <1>2
  <2> QED
    BY <2>2, <2>3
<1>4. IsFiniteSet(1..k) /\ Cardinality(1..k) = k
  BY <1>1, FS_Interval
<1>5. f \in Surjection(S, 1..k)
  <2>1. f \in Injection(S, 1..k)
    <3>1. f \in [S -> 1..k]
      BY <1>2
    <3>2. \A s, t \in S : f[s] = f[t] => s = t
      BY <1>3
    <3> QED
      BY <3>1, <3>2 DEF Injection, IsInjective
  <2> HIDE DEF f
  <2> QED
    BY <2>1, <1>4, FS_Injection
<1>6. \A n \in 1..k : \E s \in S : Rank(S, s) = n
  BY <1>5 DEF Surjection
<1>7. \A n \in 1..k : Unranked(S, n) \in S /\ Rank(S, Unranked(S, n)) = n
  BY <1>6 DEF Unranked
<1>8. \A s \in S : Unranked(S, Rank(S, s)) = s
  BY <1>2, <1>3, <1>7
<1> QED
  BY <1>1, <1>7, <1>8

-----------------------------------------------------------------------------
(* Types: every operator of Records maps stores to stores.                 *)

\* The live slots are finitely many slot numbers.
LEMMA LiveSlotsFinite ==
  ASSUME NEW st \in Store
  PROVE  /\ LiveSlots(st) \in SUBSET Nat
         /\ LiveSlots(st) \subseteq 1..Len(st.slots)
         /\ LiveSlots(st) \subseteq DOMAIN st.slots
         /\ NoSlot \notin LiveSlots(st)
         /\ IsFiniteSet(LiveSlots(st))
         /\ Cardinality(LiveSlots(st)) \in Nat
<1>1. st.slots \in Seq(Record \cup {NoRecord}) /\ Len(st.slots) \in Nat
      /\ DOMAIN st.slots = 1..Len(st.slots)
  BY DEF Store
<1>2. LiveSlots(st) \in SUBSET (1..Len(st.slots))
  BY <1>1 DEF LiveSlots
<1>3. IsFiniteSet(1..Len(st.slots))
  BY <1>1, FS_Interval
<1>4. IsFiniteSet(LiveSlots(st))
  BY <1>2, <1>3, FS_Subset
<1>5. NoSlot \notin 1..Len(st.slots)
  BY <1>1 DEF NoSlot
<1> QED
  BY <1>1, <1>2, <1>4, <1>5, FS_CardinalityType

\* What is carried over from an earlier record is a record.
LEMMA CarriedType ==
  ASSUME NEW st \in Store, NEW i \in Id
  PROVE  Carried(st, i) \in Record
<1> DEFINE s == st.idToSlot[i]
<1>1. CASE s \in DOMAIN st.slots /\ st.slots[s] # NoRecord
  <2>1. st.slots[s] \in Record \cup {NoRecord}
    BY <1>1 DEF Store
  <2> QED
    BY <1>1, <2>1 DEF Carried
<1>2. CASE ~(s \in DOMAIN st.slots /\ st.slots[s] # NoRecord)
  BY <1>2 DEF Carried, Record
<1> QED
  BY <1>1, <1>2

\* A tombstone leaves a store a store.
LEMMA TombstonedType ==
  ASSUME NEW st \in Store, NEW s \in Slot
  PROVE  Tombstoned(st, s) \in Store
<1>1. st.deleted \cup {s} \in SUBSET Slot /\ st.dirty \cup {s} \in SUBSET Slot
  BY DEF Store
<1>2. st.liveCount - 1 \in Int
  BY DEF Store
<1> QED
  BY <1>1, <1>2 DEF Tombstoned, Store

\* So does a push of a record at the end.
LEMMA AppendedType ==
  ASSUME NEW st \in Store, NEW rec \in Record
  PROVE  Appended(st, rec) \in Store
<1> DEFINE s == Len(st.slots) + 1
<1>1. s \in Slot
  BY DEF Store, Slot, NoSlot
<1>2. Append(st.slots, rec) \in Seq(Record \cup {NoRecord})
  BY DEF Store
<1>3. [st.idToSlot EXCEPT ![rec.id] = s] \in [Id -> Nat]
  BY <1>1 DEF Store, Slot
<1>4. st.liveCount + 1 \in Int /\ st.dirty \cup {s} \in SUBSET Slot
  BY <1>1 DEF Store
<1> QED
  BY <1>2, <1>3, <1>4 DEF Appended, Store

\* So does an upsert, which is the one or the other and then a push.
LEMMA UpsertedType ==
  ASSUME NEW st \in Store, NEW rec \in Record
  PROVE  Upserted(st, rec) \in Store
<1> DEFINE old == st.idToSlot[rec.id]
<1>1. rec.id \in Id /\ old \in Nat
  BY DEF Record, Store
<1>2. old # NoSlot => Tombstoned(st, old) \in Store
  BY <1>1, TombstonedType DEF Slot
<1> QED
  BY <1>2, AppendedType DEF Upserted

\* So does a delete of a name that is mapped to a slot.
LEMMA RemovedType ==
  ASSUME NEW st \in Store, NEW i \in Id, Deletable(st, i)
  PROVE  Removed(st, i) \in Store
<1>1. st.idToSlot[i] \in Slot
  BY DEF Store, Deletable, Slot
<1>2. Tombstoned(st, st.idToSlot[i]) \in Store
  BY <1>1, TombstonedType
<1> QED
  BY <1>2 DEF Removed, Store, NoSlot

\* Writing metadata or auxiliary payloads in place yields a store.
LEMMA WrittenInPlaceType ==
  ASSUME NEW st \in Store, NEW s, Writable(st, s)
  PROVE  /\ \A m \in Meta : WithMeta(st, s, m) \in Store
         /\ \A x \in Aux \cup {NoAux} : WithAux(st, s, x) \in Store
<1>1. s \in Slot /\ s \in 1..Len(st.slots) /\ st.slots[s] \in Record
  BY DEF Store, Writable, Slot, NoSlot
<1>2. ASSUME NEW m \in Meta
      PROVE  WithMeta(st, s, m) \in Store
  <2>1. [st.slots[s] EXCEPT !.meta = m] \in Record
    BY <1>1 DEF Record
  <2>2. [st.slots EXCEPT ![s] = [st.slots[s] EXCEPT !.meta = m]]
          \in Seq(Record \cup {NoRecord})
    BY <1>1, <2>1 DEF Store
  <2> QED
    BY <1>1, <2>2 DEF WithMeta, Store
<1>3. ASSUME NEW x \in Aux \cup {NoAux}
      PROVE  WithAux(st, s, x) \in Store
  <2>1. [st.slots[s] EXCEPT !.aux = x] \in Record
    BY <1>1 DEF Record
  <2>2. [st.slots EXCEPT ![s] = [st.slots[s] EXCEPT !.aux = x]]
          \in Seq(Record \cup {NoRecord})
    BY <1>1, <2>1 DEF Store
  <2> QED
    BY <1>1, <2>2 DEF WithAux, Store
<1> QED
  BY <1>2, <1>3

-----------------------------------------------------------------------------
(* Rebuilding the id map and compacting.                                   *)

Own(slots, dead, i) ==
  {s \in DOMAIN slots : s \notin dead /\ slots[s] # NoRecord /\ slots[s].id = i}

\* A finite nonempty set of slots has a greatest member: the one of top rank.
LEMMA GreatestSlot ==
  ASSUME NEW S \in SUBSET Nat, IsFiniteSet(S), S # {}
  PROVE  \E s \in S : \A t \in S : t <= s
<1> DEFINE k == Cardinality(S)
           m == Unranked(S, k)
<1>1. k \in Nat /\ k # 0
  BY FS_CardinalityType, FS_EmptySet
<1>2. m \in S /\ Rank(S, m) = k
  BY <1>1, RankBijective
<1> HIDE DEF m
<1>3. ASSUME NEW t \in S, ~(t <= m)
      PROVE  FALSE
  <2>1. m < t
    <3>1. m \in Nat /\ t \in Nat
      BY <1>2
    <3> QED
      BY <3>1, <1>3
  <2>2. Rank(S, m) < Rank(S, t) /\ Rank(S, t) \in 1..k
    BY <1>2, <2>1, RankMonotonic, RankType
  <2> QED
    BY <1>1, <1>2, <2>2
<1> QED
  BY <1>2, <1>3

\* rebuild_indexes_from_slots maps an id to a live slot holding it, if any does.
LEMMA IndexOfOwn ==
  ASSUME NEW slots \in Seq(Record \cup {NoRecord}), NEW dead, NEW i \in Id
  PROVE  IF Own(slots, dead, i) = {} THEN IndexOf(slots, dead)[i] = NoSlot
         ELSE IndexOf(slots, dead)[i] \in Own(slots, dead, i)
<1> DEFINE S == Own(slots, dead, i)
<1>1. IndexOf(slots, dead)[i]
        = IF S = {} THEN NoSlot ELSE CHOOSE s \in S : \A t \in S : t <= s
  BY DEF IndexOf, Own
<1>2. S \in SUBSET (1..Len(slots)) /\ Len(slots) \in Nat
  BY DEF Own
<1>3. IsFiniteSet(S)
  <2>1. IsFiniteSet(1..Len(slots))
    BY <1>2, FS_Interval
  <2> HIDE DEF S
  <2> QED
    BY <1>2, <2>1, FS_Subset
<1>4. S \in SUBSET Nat
  BY <1>2
<1>5. S # {} => \E s \in S : \A t \in S : t <= s
  <2> HIDE DEF S
  <2> QED
    BY <1>3, <1>4, GreatestSlot
<1> QED
  BY <1>1, <1>5

\* A rebuilt id map gives every name a slot number, or none.
LEMMA IndexOfType ==
  ASSUME NEW slots \in Seq(Record \cup {NoRecord}), NEW dead
  PROVE  IndexOf(slots, dead) \in [Id -> Nat]
<1>1. ASSUME NEW i \in Id
      PROVE  IndexOf(slots, dead)[i] \in Nat
  <2>1. Own(slots, dead, i) \subseteq Nat
    BY DEF Own
  <2> QED
    BY <2>1, IndexOfOwn DEF NoSlot
<1>2. IndexOf(slots, dead) = [i \in Id |-> IndexOf(slots, dead)[i]]
  BY DEF IndexOf
<1> QED
  BY <1>1, <1>2

\* The packed slots are the live records, each once, in slot order: the live
\* slot s becomes slot Rank(LiveSlots, s), and every packed slot comes from one.
LEMMA PackedSlotsLive ==
  ASSUME NEW st \in Store
  PROVE  /\ PackedSlots(st) \in Seq(Record)
         /\ Len(PackedSlots(st)) = Cardinality(LiveSlots(st))
         /\ DOMAIN PackedSlots(st) = 1..Cardinality(LiveSlots(st))
         /\ \A n \in DOMAIN PackedSlots(st) :
              /\ Unranked(LiveSlots(st), n) \in LiveSlots(st)
              /\ PackedSlots(st)[n] = st.slots[Unranked(LiveSlots(st), n)]
              /\ PackedSlots(st)[n] # NoRecord
         /\ \A s \in LiveSlots(st) :
              /\ Rank(LiveSlots(st), s) \in DOMAIN PackedSlots(st)
              /\ PackedSlots(st)[Rank(LiveSlots(st), s)] = st.slots[s]
<1> DEFINE L == LiveSlots(st)
           k == Cardinality(L)
           p == PackedSlots(st)
<1>1. L \in SUBSET Nat /\ IsFiniteSet(L) /\ k \in Nat
  BY LiveSlotsFinite
<1>2. p = [n \in 1..k |-> st.slots[Unranked(L, n)]]
  BY DEF PackedSlots
<1>3. \A s \in L : st.slots[s] \in Record /\ st.slots[s] # NoRecord
  BY LiveSlotsFinite DEF LiveSlots, Store
<1>4. \A n \in 1..k : Unranked(L, n) \in L
  BY <1>1, RankBijective
<1>5. \A s \in L : Rank(L, s) \in 1..k /\ Unranked(L, Rank(L, s)) = s
  BY <1>1, RankType, RankBijective
<1>6. p \in [1..k -> Record]
  BY <1>2, <1>3, <1>4
<1>7. p \in Seq(Record) /\ Len(p) = k /\ DOMAIN p = 1..k
  BY <1>1, <1>6
<1> HIDE DEF p, k, L
<1>8. \A n \in 1..k : p[n] = st.slots[Unranked(L, n)] /\ p[n] # NoRecord
  BY <1>2, <1>3, <1>4
<1>9. \A s \in L : p[Rank(L, s)] = st.slots[s]
  BY <1>2, <1>5
<1> QED
  BY <1>4, <1>5, <1>7, <1>8, <1>9 DEF p, k, L

\* A compaction leaves a store a store.
LEMMA CompactedType ==
  ASSUME NEW st \in Store
  PROVE  Compacted(st) \in Store
<1> DEFINE p == PackedSlots(st)
<1>1. p \in Seq(Record) /\ DOMAIN p = 1..Len(p) /\ Len(p) \in Nat
  BY PackedSlotsLive
<1> HIDE DEF p
<1>2. p \in Seq(Record \cup {NoRecord})
  BY <1>1
<1>3. IndexOf(p, {}) \in [Id -> Nat]
  BY <1>2, IndexOfType
<1>4. DOMAIN p \in SUBSET Slot
  BY <1>1 DEF Slot, NoSlot
<1>5. Compacted(st) = [st EXCEPT !.slots = p, !.idToSlot = IndexOf(p, {}),
                                 !.deleted = {}, !.dirty = DOMAIN p]
  BY DEF Compacted, p
<1> QED
  BY <1>2, <1>3, <1>4, <1>5 DEF Store

\* A store restored from slots and tombstones is a store.
LEMMA RestoredType ==
  ASSUME NEW slots \in Seq(Record \cup {NoRecord}), NEW dead \in SUBSET Slot,
         NEW count \in Int
  PROVE  Restored(slots, dead, count) \in Store
BY IndexOfType DEF Restored, Store

-----------------------------------------------------------------------------
(* Consistency: every operator keeps a consistent store consistent.        *)

\* In a consistent store the slot an upsert would tombstone is live or absent.
LEMMA OldSlot ==
  ASSUME NEW st \in Store, Consistent(st), NEW i \in Id
  PROVE  \/ st.idToSlot[i] = NoSlot /\ \A s \in LiveSlots(st) : st.slots[s].id # i
         \/ /\ st.idToSlot[i] \in LiveSlots(st)
            /\ st.idToSlot[i] # NoSlot
            /\ st.idToSlot[i] \notin st.deleted
            /\ st.slots[st.idToSlot[i]].id = i
            /\ \A s \in LiveSlots(st) : st.slots[s].id = i => s = st.idToSlot[i]
<1>1. \A s \in LiveSlots(st) : s # NoSlot /\ s \notin st.deleted
  BY LiveSlotsFinite DEF LiveSlots
<1>2. \A s \in LiveSlots(st) : st.slots[s].id = i => s = st.idToSlot[i]
  BY DEF Consistent, LiveSlotsMapped
<1> QED
  BY <1>1, <1>2 DEF Consistent, IdMapSound

\* An upsert moves the id to a fresh slot beyond the old ones and tombstones
\* the slot it leaves; every other slot is as it was.
Moved(st, rec, new, old, n) ==
  /\ new.slots = Append(st.slots, rec)
  /\ new.idToSlot = [st.idToSlot EXCEPT ![rec.id] = n]
  /\ new.deleted = IF old = NoSlot THEN st.deleted ELSE st.deleted \cup {old}
  /\ new.liveCount = IF old = NoSlot THEN st.liveCount + 1 ELSE st.liveCount
  /\ new.dirty = (IF old = NoSlot THEN st.dirty ELSE st.dirty \cup {old}) \cup {n}
  /\ LiveSlots(new) = (LiveSlots(st) \ {old}) \cup {n}
  /\ n \notin LiveSlots(st)
  /\ DOMAIN new.slots = DOMAIN st.slots \cup {n}
  /\ \A s \in DOMAIN st.slots : new.slots[s] = st.slots[s]
  /\ new.slots[n] = rec

\* What an upsert leaves: the old slot dead, the new one live, every other slot and
\* every other name as they were.
LEMMA UpsertedEffect ==
  ASSUME NEW st \in Store, Consistent(st), NEW rec \in Record
  PROVE  Moved(st, rec, Upserted(st, rec), st.idToSlot[rec.id], Len(st.slots) + 1)
<1> DEFINE new == Upserted(st, rec)
           old == st.idToSlot[rec.id]
           n == Len(st.slots) + 1
           mid == IF old = NoSlot THEN st ELSE Tombstoned(st, old)
<1>1. rec.id \in Id
  BY DEF Record
<1>2. old # NoSlot => old \notin st.deleted
  BY <1>1, OldSlot
<1>3. new = Appended(mid, rec)
  BY <1>2 DEF Upserted
<1>4. /\ mid.slots = st.slots /\ mid.idToSlot = st.idToSlot
      /\ mid.deleted = IF old = NoSlot THEN st.deleted ELSE st.deleted \cup {old}
      /\ mid.liveCount = IF old = NoSlot THEN st.liveCount ELSE st.liveCount - 1
      /\ mid.dirty = IF old = NoSlot THEN st.dirty ELSE st.dirty \cup {old}
      /\ mid \in [slots : {mid.slots}, deleted : {mid.deleted}, idToSlot : {mid.idToSlot},
                  liveCount : {mid.liveCount}, dirty : {mid.dirty}]
  BY DEF Tombstoned, Store
<1> HIDE DEF mid
<1>5. /\ new.slots = Append(st.slots, rec)
      /\ new.idToSlot = [st.idToSlot EXCEPT ![rec.id] = n]
      /\ new.deleted = mid.deleted
      /\ new.liveCount = mid.liveCount + 1
      /\ new.dirty = mid.dirty \cup {n}
  BY <1>3, <1>4 DEF Appended
<1>6. st.liveCount \in Int /\ Len(st.slots) \in Nat
      /\ st.slots \in Seq(Record \cup {NoRecord}) /\ DOMAIN st.slots = 1..Len(st.slots)
  BY DEF Store
<1>7. new.liveCount = IF old = NoSlot THEN st.liveCount + 1 ELSE st.liveCount
  BY <1>4, <1>5, <1>6
<1>8. /\ DOMAIN new.slots = DOMAIN st.slots \cup {n}
      /\ \A s \in DOMAIN st.slots : new.slots[s] = st.slots[s]
      /\ new.slots[n] = rec
      /\ n \notin DOMAIN st.slots
  BY <1>5, <1>6
<1>9. n \notin LiveSlots(st) /\ n \notin st.deleted
  BY <1>8 DEF LiveSlots, Consistent, DeletedInRange
<1>10. n # old
  <2>1. old = NoSlot \/ old \in LiveSlots(st)
    BY <1>1, OldSlot
  <2> QED
    BY <2>1, <1>6, <1>9 DEF NoSlot
<1>11. rec # NoRecord
  BY NoRecordAssumption
<1>12. LiveSlots(new) = (LiveSlots(st) \ {old}) \cup {n}
  <2>1. NoSlot \notin LiveSlots(st)
    BY LiveSlotsFinite
  <2>2. new.deleted = IF old = NoSlot THEN st.deleted ELSE st.deleted \cup {old}
    BY <1>4, <1>5
  <2>3. LiveSlots(new) = {s \in DOMAIN new.slots : s \notin new.deleted
                                                   /\ new.slots[s] # NoRecord}
    BY DEF LiveSlots
  <2> HIDE DEF new, old, n
  <2> QED
    BY <2>1, <2>2, <2>3, <1>8, <1>9, <1>10, <1>11 DEF LiveSlots
<1> HIDE DEF new, old, n
<1>13. /\ new.deleted = IF old = NoSlot THEN st.deleted ELSE st.deleted \cup {old}
       /\ new.dirty = (IF old = NoSlot THEN st.dirty ELSE st.dirty \cup {old}) \cup {n}
  BY <1>4, <1>5
<1> QED
  BY <1>5, <1>7, <1>8, <1>9, <1>12, <1>13 DEF Moved, new, old, n

\* An upsert keeps id map, tombstones, slots and live count consistent.
LEMMA UpsertedConsistent ==
  ASSUME NEW st \in Store, Consistent(st), NEW rec \in Record
  PROVE  Consistent(Upserted(st, rec))
<1> DEFINE new == Upserted(st, rec)
           old == st.idToSlot[rec.id]
           n == Len(st.slots) + 1
           L == LiveSlots(st)
<1>1. rec.id \in Id /\ st.idToSlot \in [Id -> Nat]
      /\ \A s \in L : st.slots[s] \in Record
  BY LiveSlotsFinite DEF Record, Store, LiveSlots
<1>2. /\ new.idToSlot = [st.idToSlot EXCEPT ![rec.id] = n]
      /\ new.deleted = IF old = NoSlot THEN st.deleted ELSE st.deleted \cup {old}
      /\ new.liveCount = IF old = NoSlot THEN st.liveCount + 1 ELSE st.liveCount
      /\ LiveSlots(new) = (L \ {old}) \cup {n}
      /\ n \notin L
      /\ DOMAIN new.slots = DOMAIN st.slots \cup {n}
      /\ \A s \in DOMAIN st.slots : new.slots[s] = st.slots[s]
      /\ new.slots[n] = rec
  <2>1. Moved(st, rec, new, old, n)
    BY UpsertedEffect
  <2> HIDE DEF new, old, n
  <2> QED
    BY <2>1 DEF Moved
<1>3. \/ old = NoSlot /\ \A s \in L : st.slots[s].id # rec.id
      \/ old \in L /\ old # NoSlot /\ \A s \in L : st.slots[s].id = rec.id => s = old
  BY <1>1, OldSlot
<1>4. L \subseteq DOMAIN st.slots /\ NoSlot \notin L
  BY LiveSlotsFinite
<1>5. \A i \in Id : st.idToSlot[i] # NoSlot =>
         st.idToSlot[i] \in L /\ st.slots[st.idToSlot[i]].id = i
  BY DEF Consistent, IdMapSound
<1>6. \A s \in L : st.idToSlot[st.slots[s].id] = s
  BY DEF Consistent, LiveSlotsMapped
<1>7. IdMapSound(new)
  <2> SUFFICES ASSUME NEW i \in Id, new.idToSlot[i] # NoSlot
               PROVE  new.idToSlot[i] \in LiveSlots(new)
                      /\ new.slots[new.idToSlot[i]].id = i
    BY DEF IdMapSound
  <2>1. CASE i = rec.id
    BY <2>1, <1>1, <1>2
  <2>2. CASE i # rec.id
    <3>1. new.idToSlot[i] = st.idToSlot[i]
      BY <2>2, <1>1, <1>2
    <3>2. st.idToSlot[i] \in L /\ st.slots[st.idToSlot[i]].id = i
      BY <3>1, <1>5
    <3>3. st.idToSlot[i] # old
      <4>1. old # NoSlot => st.slots[old].id = rec.id
        BY <1>1, <1>5
      <4> HIDE DEF old
      <4> QED
        BY <4>1, <3>1, <3>2, <2>2
    <3> HIDE DEF new, old, n, L
    <3> QED
      BY <3>1, <3>2, <3>3, <1>2, <1>4
  <2> QED
    BY <2>1, <2>2
<1>8. LiveSlotsMapped(new)
  <2> SUFFICES ASSUME NEW s \in LiveSlots(new)
               PROVE  new.idToSlot[new.slots[s].id] = s
    BY DEF LiveSlotsMapped
  <2>1. CASE s = n
    BY <2>1, <1>1, <1>2
  <2>2. CASE s # n
    <3>1. s \in L /\ s # old /\ new.slots[s] = st.slots[s]
      BY <2>2, <1>2, <1>4
    <3>2. st.slots[s].id # rec.id
      BY <3>1, <1>3
    <3>3. st.slots[s].id \in Id
      BY <3>1, <1>1 DEF Record
    <3> QED
      BY <3>1, <3>2, <3>3, <1>1, <1>2, <1>6
  <2> QED
    BY <2>1, <2>2
<1>9. LiveCountExact(new)
  <2>1. IsFiniteSet(L) /\ Cardinality(L) \in Nat
    BY LiveSlotsFinite
  <2>2. /\ IsFiniteSet(L \ {old})
        /\ Cardinality(L \ {old}) = IF old \in L THEN Cardinality(L) - 1 ELSE Cardinality(L)
    BY <2>1, FS_RemoveElement
  <2>3. n \notin L \ {old}
    BY <1>2
  <2>4. Cardinality((L \ {old}) \cup {n}) = Cardinality(L \ {old}) + 1
    BY <2>2, <2>3, FS_AddElement
  <2>5. st.liveCount = Cardinality(L)
    BY DEF Consistent, LiveCountExact
  <2> HIDE DEF new, old, n, L
  <2> QED
    BY <2>1, <2>2, <2>4, <2>5, <1>2, <1>3, <1>4 DEF LiveCountExact
<1>10. DeletedInRange(new)
  <2>1. st.deleted \subseteq DOMAIN st.slots
    BY DEF Consistent, DeletedInRange
  <2>2. old = NoSlot \/ old \in DOMAIN st.slots
    BY <1>3, <1>4
  <2> HIDE DEF new, old, n, L
  <2> QED
    BY <2>1, <2>2, <1>2 DEF DeletedInRange
<1> QED
  BY <1>7, <1>8, <1>9, <1>10 DEF Consistent

\* A delete tombstones the slot of its id and unmaps the id.
Gone(st, i, new, old) ==
  /\ new.slots = st.slots
  /\ new.idToSlot = [st.idToSlot EXCEPT ![i] = NoSlot]
  /\ new.deleted = st.deleted \cup {old}
  /\ new.dirty = st.dirty \cup {old}
  /\ new.liveCount = st.liveCount - 1
  /\ LiveSlots(new) = LiveSlots(st) \ {old}
  /\ old \in LiveSlots(st)
  /\ st.slots[old].id = i

\* What a delete leaves: the name's slot dead and the name unmapped.
LEMMA RemovedEffect ==
  ASSUME NEW st \in Store, Consistent(st), NEW i \in Id, Deletable(st, i)
  PROVE  Gone(st, i, Removed(st, i), st.idToSlot[i])
<1>1. st.idToSlot[i] \in LiveSlots(st) /\ st.slots[st.idToSlot[i]].id = i
  BY DEF Consistent, IdMapSound, Deletable
<1>2. /\ Removed(st, i).slots = st.slots
      /\ Removed(st, i).idToSlot = [st.idToSlot EXCEPT ![i] = NoSlot]
      /\ Removed(st, i).deleted = st.deleted \cup {st.idToSlot[i]}
      /\ Removed(st, i).dirty = st.dirty \cup {st.idToSlot[i]}
      /\ Removed(st, i).liveCount = st.liveCount - 1
  BY DEF Removed, Tombstoned, Store
<1>3. LiveSlots(Removed(st, i)) = LiveSlots(st) \ {st.idToSlot[i]}
  BY <1>2 DEF LiveSlots
<1> QED
  BY <1>1, <1>2, <1>3 DEF Gone

\* A delete keeps id map, tombstones, slots and live count consistent.
LEMMA RemovedConsistent ==
  ASSUME NEW st \in Store, Consistent(st), NEW i \in Id, Deletable(st, i)
  PROVE  Consistent(Removed(st, i))
<1> DEFINE new == Removed(st, i)
           old == st.idToSlot[i]
           L == LiveSlots(st)
<1>1. /\ new.slots = st.slots
      /\ new.idToSlot = [st.idToSlot EXCEPT ![i] = NoSlot]
      /\ new.deleted = st.deleted \cup {old}
      /\ new.liveCount = st.liveCount - 1
      /\ LiveSlots(new) = L \ {old}
      /\ old \in L
      /\ st.slots[old].id = i
  BY RemovedEffect DEF Gone
<1>2. \A j \in Id : st.idToSlot[j] # NoSlot =>
         st.idToSlot[j] \in L /\ st.slots[st.idToSlot[j]].id = j
  BY DEF Consistent, IdMapSound
<1>3. \A s \in L : st.idToSlot[st.slots[s].id] = s
  BY DEF Consistent, LiveSlotsMapped
<1>4. st.idToSlot \in [Id -> Nat] /\ \A s \in L : st.slots[s].id \in Id
  BY LiveSlotsFinite DEF Store, LiveSlots, Record
<1>5. IdMapSound(new)
  <2> SUFFICES ASSUME NEW j \in Id, new.idToSlot[j] # NoSlot
               PROVE  new.idToSlot[j] \in LiveSlots(new)
                      /\ new.slots[new.idToSlot[j]].id = j
    BY DEF IdMapSound
  <2>1. j # i /\ new.idToSlot[j] = st.idToSlot[j]
    BY <1>1, <1>4
  <2>2. st.idToSlot[j] \in L /\ st.slots[st.idToSlot[j]].id = j
    BY <2>1, <1>2
  <2>3. st.idToSlot[j] # old
    BY <2>1, <2>2, <1>1
  <2> HIDE DEF new, old, L
  <2> QED
    BY <2>1, <2>2, <2>3, <1>1
<1>6. LiveSlotsMapped(new)
  <2> SUFFICES ASSUME NEW s \in LiveSlots(new)
               PROVE  new.idToSlot[new.slots[s].id] = s
    BY DEF LiveSlotsMapped
  <2>1. s \in L /\ s # old
    BY <1>1
  <2>2. st.slots[s].id # i
    BY <2>1, <1>3
  <2> QED
    BY <2>1, <2>2, <1>1, <1>3, <1>4
<1>7. LiveCountExact(new)
  <2>1. IsFiniteSet(L) /\ Cardinality(L) \in Nat
    BY LiveSlotsFinite
  <2>2. Cardinality(L \ {old}) = Cardinality(L) - 1
    BY <2>1, <1>1, FS_RemoveElement
  <2>3. st.liveCount = Cardinality(L)
    BY DEF Consistent, LiveCountExact
  <2> QED
    BY <2>2, <2>3, <1>1 DEF LiveCountExact
<1>8. DeletedInRange(new)
  <2>1. st.deleted \subseteq DOMAIN st.slots /\ old \in DOMAIN st.slots
    BY <1>1 DEF Consistent, DeletedInRange, LiveSlots
  <2> HIDE DEF new, old, L
  <2> QED
    BY <2>1, <1>1 DEF DeletedInRange
<1> QED
  BY <1>5, <1>6, <1>7, <1>8 DEF Consistent

\* Writing a payload in place changes neither which slots are live nor whose.
SameShape(st, new) ==
  /\ new.deleted = st.deleted
  /\ new.idToSlot = st.idToSlot
  /\ new.liveCount = st.liveCount
  /\ DOMAIN new.slots = DOMAIN st.slots
  /\ LiveSlots(new) = LiveSlots(st)
  /\ \A s \in LiveSlots(st) : new.slots[s].id = st.slots[s].id

\* Consistency depends on the ids in the slots only, not on their payloads.
LEMMA SameShapeConsistent ==
  ASSUME NEW st \in Store, Consistent(st), NEW new, SameShape(st, new)
  PROVE  Consistent(new)
<1>1. IdMapSound(new)
  BY DEF Consistent, IdMapSound, SameShape
<1>2. LiveSlotsMapped(new)
  BY DEF Consistent, LiveSlotsMapped, SameShape
<1>3. LiveCountExact(new) /\ DeletedInRange(new)
  BY DEF Consistent, LiveCountExact, DeletedInRange, SameShape
<1> QED
  BY <1>1, <1>2, <1>3 DEF Consistent

\* A record written in place keeps its slot, its name and its liveness.
LEMMA WrittenInPlaceShape ==
  ASSUME NEW st \in Store, NEW s, Writable(st, s)
  PROVE  /\ \A m \in Meta : SameShape(st, WithMeta(st, s, m))
         /\ \A x \in Aux \cup {NoAux} : SameShape(st, WithAux(st, s, x))
<1>1. s \in DOMAIN st.slots /\ st.slots[s] \in Record /\ st.slots[s] # NoRecord
  BY DEF Store, Writable
<1>2. ASSUME NEW rec \in Record, rec.id = st.slots[s].id,
             NEW new, new.slots = [st.slots EXCEPT ![s] = rec],
             new.deleted = st.deleted, new.idToSlot = st.idToSlot,
             new.liveCount = st.liveCount
      PROVE  SameShape(st, new)
  <2>1. rec # NoRecord
    BY NoRecordAssumption
  <2>2. DOMAIN new.slots = DOMAIN st.slots
        /\ \A t \in DOMAIN st.slots :
             /\ t = s => new.slots[t] = rec
             /\ t # s => new.slots[t] = st.slots[t]
    BY <1>1, <1>2
  <2>3. LiveSlots(new) = LiveSlots(st)
    BY <1>1, <1>2, <2>1, <2>2 DEF LiveSlots
  <2>4. \A t \in LiveSlots(st) : new.slots[t].id = st.slots[t].id
    BY <1>2, <2>2 DEF LiveSlots
  <2> QED
    BY <1>2, <2>2, <2>3, <2>4 DEF SameShape
<1>3. ASSUME NEW m \in Meta
      PROVE  SameShape(st, WithMeta(st, s, m))
  <2>1. [st.slots[s] EXCEPT !.meta = m] \in Record
        /\ [st.slots[s] EXCEPT !.meta = m].id = st.slots[s].id
    BY <1>1 DEF Record
  <2>2. /\ WithMeta(st, s, m).slots = [st.slots EXCEPT ![s] = [st.slots[s] EXCEPT !.meta = m]]
        /\ WithMeta(st, s, m).deleted = st.deleted
        /\ WithMeta(st, s, m).idToSlot = st.idToSlot
        /\ WithMeta(st, s, m).liveCount = st.liveCount
    BY DEF WithMeta, Store
  <2> QED
    BY <1>2, <2>1, <2>2
<1>4. ASSUME NEW x \in Aux \cup {NoAux}
      PROVE  SameShape(st, WithAux(st, s, x))
  <2>1. [st.slots[s] EXCEPT !.aux = x] \in Record
        /\ [st.slots[s] EXCEPT !.aux = x].id = st.slots[s].id
    BY <1>1 DEF Record
  <2>2. /\ WithAux(st, s, x).slots = [st.slots EXCEPT ![s] = [st.slots[s] EXCEPT !.aux = x]]
        /\ WithAux(st, s, x).deleted = st.deleted
        /\ WithAux(st, s, x).idToSlot = st.idToSlot
        /\ WithAux(st, s, x).liveCount = st.liveCount
    BY DEF WithAux, Store
  <2> QED
    BY <1>2, <2>1, <2>2
<1> QED
  BY <1>3, <1>4

\* A store whose id map was rebuilt from its slots is consistent when no id has
\* two live slots and the count is right.
LEMMA RebuiltConsistent ==
  ASSUME NEW new \in Store,
         new.idToSlot = IndexOf(new.slots, new.deleted),
         new.deleted \subseteq DOMAIN new.slots,
         new.liveCount = Cardinality(LiveSlots(new)),
         \A s, t \in LiveSlots(new) : new.slots[s].id = new.slots[t].id => s = t
  PROVE  Consistent(new)
<1>1. new.slots \in Seq(Record \cup {NoRecord})
  BY DEF Store
<1>2. \A i \in Id : Own(new.slots, new.deleted, i)
                      = {s \in LiveSlots(new) : new.slots[s].id = i}
  BY DEF Own, LiveSlots
<1>3. NoSlot \notin LiveSlots(new)
  BY LiveSlotsFinite
<1>4. \A s \in LiveSlots(new) : new.slots[s].id \in Id
  BY DEF LiveSlots, Store, Record
<1>5. \A i \in Id : \/ new.idToSlot[i] = NoSlot /\ \A s \in LiveSlots(new) : new.slots[s].id # i
                    \/ new.idToSlot[i] \in LiveSlots(new) /\ new.slots[new.idToSlot[i]].id = i
  <2> TAKE i \in Id
  <2>1. CASE Own(new.slots, new.deleted, i) = {}
    <3>1. new.idToSlot[i] = NoSlot
      BY <2>1, <1>1, IndexOfOwn
    <3> QED
      BY <3>1, <2>1, <1>2
  <2>2. CASE Own(new.slots, new.deleted, i) # {}
    <3>1. new.idToSlot[i] \in Own(new.slots, new.deleted, i)
      BY <2>2, <1>1, IndexOfOwn
    <3> QED
      BY <3>1, <1>2
  <2> QED
    BY <2>1, <2>2
<1>6. IdMapSound(new)
  BY <1>5 DEF IdMapSound
<1>7. LiveSlotsMapped(new)
  <2> SUFFICES ASSUME NEW s \in LiveSlots(new)
               PROVE  new.idToSlot[new.slots[s].id] = s
    BY DEF LiveSlotsMapped
  <2>1. new.slots[s].id \in Id
    BY <1>4
  <2>2. new.idToSlot[new.slots[s].id] \in LiveSlots(new)
        /\ new.slots[new.idToSlot[new.slots[s].id]].id = new.slots[s].id
    BY <2>1, <1>5
  <2> QED
    BY <2>2
<1> QED
  BY <1>6, <1>7 DEF Consistent, LiveCountExact, DeletedInRange

\* After a compaction every slot is live and every slot is dirty.
LEMMA CompactedEffect ==
  ASSUME NEW st \in Store
  PROVE  /\ Compacted(st).slots = PackedSlots(st)
         /\ Compacted(st).deleted = {}
         /\ Compacted(st).idToSlot = IndexOf(PackedSlots(st), {})
         /\ Compacted(st).liveCount = st.liveCount
         /\ Compacted(st).dirty = DOMAIN PackedSlots(st)
         /\ LiveSlots(Compacted(st)) = 1..Cardinality(LiveSlots(st))
<1>1. /\ Compacted(st).slots = PackedSlots(st)
      /\ Compacted(st).deleted = {}
      /\ Compacted(st).idToSlot = IndexOf(PackedSlots(st), {})
      /\ Compacted(st).liveCount = st.liveCount
      /\ Compacted(st).dirty = DOMAIN PackedSlots(st)
  BY DEF Compacted, Store
<1>2. /\ DOMAIN PackedSlots(st) = 1..Cardinality(LiveSlots(st))
      /\ \A n \in DOMAIN PackedSlots(st) : PackedSlots(st)[n] # NoRecord
  BY PackedSlotsLive
<1>3. LiveSlots(Compacted(st)) = 1..Cardinality(LiveSlots(st))
  BY <1>1, <1>2 DEF LiveSlots
<1> QED
  BY <1>1, <1>3

\* A compaction keeps id map, tombstones, slots and the untouched live count consistent.
LEMMA CompactedConsistent ==
  ASSUME NEW st \in Store, Consistent(st)
  PROVE  Consistent(Compacted(st))
<1> DEFINE new == Compacted(st)
           L == LiveSlots(st)
           k == Cardinality(L)
<1>1. new \in Store
  BY CompactedType
<1>2. /\ new.slots = PackedSlots(st)
      /\ new.deleted = {}
      /\ new.idToSlot = IndexOf(new.slots, new.deleted)
      /\ new.liveCount = st.liveCount
      /\ LiveSlots(new) = 1..k
  BY CompactedEffect
<1>3. L \in SUBSET Nat /\ IsFiniteSet(L) /\ k \in Nat
  BY LiveSlotsFinite
<1>4. new.liveCount = Cardinality(LiveSlots(new))
  <2>1. Cardinality(1..k) = k
    BY <1>3, FS_Interval
  <2> QED
    BY <2>1, <1>2 DEF Consistent, LiveCountExact
<1>5. ASSUME NEW m \in LiveSlots(new), NEW n \in LiveSlots(new),
             new.slots[m].id = new.slots[n].id
      PROVE  m = n
  <2> DEFINE s == Unranked(L, m)
             t == Unranked(L, n)
  <2>1. s \in L /\ t \in L /\ Rank(L, s) = m /\ Rank(L, t) = n
    BY <1>2, <1>3, RankBijective
  <2>2. new.slots[m] = st.slots[s] /\ new.slots[n] = st.slots[t]
    BY <1>2, PackedSlotsLive
  <2>3. s = t
    <3> HIDE DEF s, t, new, L
    <3>1. \A x \in L : st.idToSlot[st.slots[x].id] = x
      BY DEF Consistent, LiveSlotsMapped, L
    <3> QED
      BY <2>1, <2>2, <3>1, <1>5
  <2> QED
    BY <2>1, <2>3
<1>6. new.deleted \subseteq DOMAIN new.slots
  BY <1>2
<1> HIDE DEF new
<1> QED
  BY <1>1, <1>2, <1>4, <1>5, <1>6, RebuiltConsistent DEF new

-----------------------------------------------------------------------------
(* Reopening.                                                              *)

\* Reopening keeps the live slots, empties the others and rebuilds the id map.
LEMMA SnapshotType ==
  ASSUME NEW st \in Store
  PROVE  /\ SnapshotSlots(st) \in Seq(Record \cup {NoRecord})
         /\ DOMAIN SnapshotSlots(st) = DOMAIN st.slots
         /\ \A s \in LiveSlots(st) : SnapshotSlots(st)[s] = st.slots[s]
         /\ {s \in DOMAIN st.slots : s \notin st.deleted /\ SnapshotSlots(st)[s] # NoRecord}
              = LiveSlots(st)
<1>1. st.slots \in Seq(Record \cup {NoRecord}) /\ DOMAIN st.slots = 1..Len(st.slots)
      /\ Len(st.slots) \in Nat
  BY DEF Store
<1>2. SnapshotSlots(st) \in [1..Len(st.slots) -> Record \cup {NoRecord}]
  BY <1>1 DEF SnapshotSlots
<1>3. SnapshotSlots(st) \in Seq(Record \cup {NoRecord})
  BY <1>1, <1>2
<1>4. \A s \in DOMAIN st.slots :
         SnapshotSlots(st)[s] = IF s \in LiveSlots(st) THEN st.slots[s] ELSE NoRecord
  BY DEF SnapshotSlots
<1>5. \A s \in LiveSlots(st) : s \in DOMAIN st.slots /\ s \notin st.deleted
                               /\ st.slots[s] # NoRecord
  BY DEF LiveSlots
<1> QED
  BY <1>1, <1>2, <1>3, <1>4, <1>5

\* A store rebuilt from the slots and tombstones of a consistent one is consistent.
LEMMA ReopenedConsistent ==
  ASSUME NEW st \in Store, Consistent(st),
         NEW new, new = Restored(SnapshotSlots(st), st.deleted, Cardinality(LiveSlots(st)))
  PROVE  /\ new \in Store
         /\ Consistent(new)
         /\ LiveSlots(new) = LiveSlots(st)
         /\ \A s \in LiveSlots(st) : new.slots[s] = st.slots[s]
<1>1. st.deleted \in SUBSET Slot /\ Cardinality(LiveSlots(st)) \in Int
      /\ st.deleted \subseteq DOMAIN st.slots
  BY LiveSlotsFinite DEF Store, Consistent, DeletedInRange
<1>2. new \in Store
  BY <1>1, SnapshotType, RestoredType
<1>3. /\ new.slots = SnapshotSlots(st)
      /\ new.deleted = st.deleted
      /\ new.idToSlot = IndexOf(new.slots, new.deleted)
      /\ new.liveCount = Cardinality(LiveSlots(st))
  BY DEF Restored
<1>4. LiveSlots(new) = LiveSlots(st) /\ DOMAIN new.slots = DOMAIN st.slots
      /\ \A s \in LiveSlots(st) : new.slots[s] = st.slots[s]
  BY <1>3, SnapshotType DEF LiveSlots
<1>5. \A s, t \in LiveSlots(new) : new.slots[s].id = new.slots[t].id => s = t
  BY <1>4 DEF Consistent, LiveSlotsMapped
<1>6. Consistent(new)
  BY <1>1, <1>2, <1>3, <1>4, <1>5, RebuiltConsistent
<1> QED
  BY <1>2, <1>4, <1>6

-----------------------------------------------------------------------------
(* The inductive invariant of the state machine.                           *)

\* What a checkpoint took is empty while none runs; with the type invariant and
\* the two properties proved it is inductive.
IInv == /\ TypeOK
        /\ Consistent(store)
        /\ ~flushing => inflight = {}
        /\ DirtyCoversDelta

\* The records Set and SetWithoutVector build are records.
LEMMA SetRecordType ==
  ASSUME store \in Store, NEW i \in Id, NEW m \in Meta \cup {NoMeta}
  PROVE  /\ \A v \in Vec : [id |-> i, vec |-> v, aux |-> Carried(store, i).aux, meta |-> m] \in Record
         /\ [id |-> i, vec |-> Carried(store, i).vec, aux |-> Carried(store, i).aux,
             meta |-> m] \in Record
BY CarriedType DEF Record

\* The file after a checkpoint covers every slot, and holds what was written or was there.
LEMMA ImageAfterType ==
  ASSUME NEW st \in Store, NEW img \in Seq(Vec \cup {Zero}), NEW taken
  PROVE  /\ ImageAfter(st, taken, img) \in Seq(Vec \cup {Zero})
         /\ DOMAIN st.slots \subseteq DOMAIN ImageAfter(st, taken, img)
         /\ DOMAIN img \subseteq DOMAIN ImageAfter(st, taken, img)
         /\ \A s \in DOMAIN ImageAfter(st, taken, img) :
              ImageAfter(st, taken, img)[s] =
                IF s \in taken THEN Written(st, s)
                ELSE IF s \in DOMAIN img THEN img[s] ELSE Zero
<1> DEFINE n == IF Len(img) > Len(st.slots) THEN Len(img) ELSE Len(st.slots)
           f == ImageAfter(st, taken, img)
<1>1. /\ Len(img) \in Nat /\ Len(st.slots) \in Nat
      /\ DOMAIN img = 1..Len(img) /\ DOMAIN st.slots = 1..Len(st.slots)
  BY DEF Store
<1>2. n \in Nat /\ DOMAIN img \subseteq 1..n /\ DOMAIN st.slots \subseteq 1..n
  BY <1>1
<1>3. \A s : Written(st, s) \in Vec \cup {Zero}
  <2> SUFFICES ASSUME NEW s, s \in LiveSlots(st), st.slots[s].vec # NoVec
               PROVE  st.slots[s].vec \in Vec
    BY DEF Written
  <2>1. st.slots[s] \in Record
    BY DEF LiveSlots, Store
  <2> QED
    BY <2>1 DEF Record
<1> HIDE DEF n
<1>4. f = [s \in 1..n |-> IF s \in taken THEN Written(st, s)
                          ELSE IF s \in DOMAIN img THEN img[s] ELSE Zero]
  BY DEF ImageAfter, n
<1>5. f \in [1..n -> Vec \cup {Zero}]
  BY <1>1, <1>3, <1>4
<1>6. f \in Seq(Vec \cup {Zero}) /\ DOMAIN f = 1..n
  BY <1>2, <1>5
<1> HIDE DEF f
<1> QED
  BY <1>2, <1>4, <1>6 DEF f

\* The empty store satisfies the inductive invariant.
LEMMA InitInv == Init => IInv
<1> SUFFICES ASSUME Init PROVE IInv
  OBVIOUS
<1>1. store = EmptyStore /\ flushing = FALSE /\ inflight = {} /\ image = << >>
  BY DEF Init
<1>2. EmptyStore \in Store
  BY DEF EmptyStore, Store, NoSlot
<1>3. LiveSlots(EmptyStore) = {}
  BY DEF LiveSlots, EmptyStore
<1>4. Consistent(EmptyStore)
  <2>1. Cardinality(LiveSlots(EmptyStore)) = 0
    BY <1>3, FS_EmptySet
  <2> QED
    BY <2>1, <1>3 DEF Consistent, IdMapSound, LiveSlotsMapped, LiveCountExact,
                      DeletedInRange, EmptyStore, NoSlot
<1>5. TypeOK
  <2>1. << >> \in Seq(Vec \cup {Zero})
    OBVIOUS
  <2>2. {} \in SUBSET Slot /\ FALSE \in BOOLEAN
    OBVIOUS
  <2> QED
    BY <1>1, <1>2, <2>1, <2>2 DEF TypeOK
<1>6. DirtyCoversDelta
  BY <1>1, <1>3 DEF DirtyCoversDelta
<1> QED
  BY <1>1, <1>4, <1>5, <1>6 DEF IInv

\* An operation that leaves every live, clean slot as it was, or makes it dirty,
\* leaves the checkpointed image covering the clean slots.
LEMMA CleanSlotsKept ==
  ASSUME DirtyCoversDelta, NEW new,
         UNCHANGED <<flushing, inflight, image>>, store' = new,
         \A s \in LiveSlots(new) \ new.dirty :
            /\ s \in LiveSlots(store) /\ s \notin store.dirty
            /\ new.slots[s] = store.slots[s]
  PROVE  DirtyCoversDelta'
<1> SUFFICES ASSUME NEW s \in LiveSlots(new), s \notin new.dirty, s \notin inflight
             PROVE  s \in DOMAIN image /\ image[s] = Written(new, s)
  BY DEF DirtyCoversDelta
<1>1. s \in DOMAIN image /\ image[s] = Written(store, s)
  BY DEF DirtyCoversDelta
<1>2. Written(new, s) = Written(store, s)
  BY DEF Written
<1> QED
  BY <1>1, <1>2

\* An upsert preserves the invariant: Set and SetWithoutVector are upserts.
LEMMA UpsertInv ==
  ASSUME IInv, NEW rec \in Record, Mutate(Upserted(store, rec))
  PROVE  IInv'
<1> DEFINE new == Upserted(store, rec)
<1>1. store \in Store /\ Consistent(store) /\ store' = new
      /\ UNCHANGED <<flushing, inflight, image>>
  BY DEF IInv, TypeOK, Mutate
<1>2. new \in Store /\ Consistent(new)
  BY <1>1, UpsertedType, UpsertedConsistent
<1>3. TypeOK'
  BY <1>1, <1>2 DEF IInv, TypeOK
<1>4. DirtyCoversDelta'
  <2>1. Moved(store, rec, new, store.idToSlot[rec.id], Len(store.slots) + 1)
    BY <1>1, UpsertedEffect
  <2>2. LiveSlots(store) \subseteq DOMAIN store.slots
    BY <1>1, LiveSlotsFinite
  <2> HIDE DEF new
  <2>3. \A s \in LiveSlots(new) \ new.dirty :
            /\ s \in LiveSlots(store) /\ s \notin store.dirty
            /\ new.slots[s] = store.slots[s]
    BY <2>1, <2>2 DEF Moved
  <2> QED
    BY <2>3, <1>1, CleanSlotsKept DEF IInv
<1> QED
  BY <1>1, <1>2, <1>3, <1>4 DEF IInv

\* set preserves the inductive invariant.
LEMMA SetInv ==
  ASSUME IInv, NEW i \in Id, NEW v \in Vec, NEW m \in Meta \cup {NoMeta}, Set(i, v, m)
  PROVE  IInv'
<1>1. [id |-> i, vec |-> v, aux |-> Carried(store, i).aux, meta |-> m] \in Record
  BY SetRecordType DEF IInv, TypeOK
<1> QED
  BY <1>1, UpsertInv DEF Set, WithVector

\* set_without_vector preserves the inductive invariant.
LEMMA SetWithoutVectorInv ==
  ASSUME IInv, NEW i \in Id, NEW m \in Meta \cup {NoMeta}, SetWithoutVector(i, m)
  PROVE  IInv'
<1>1. [id |-> i, vec |-> Carried(store, i).vec, aux |-> Carried(store, i).aux, meta |-> m]
        \in Record
  BY SetRecordType DEF IInv, TypeOK
<1> QED
  BY <1>1, UpsertInv DEF SetWithoutVector, WithoutVector

\* delete preserves the inductive invariant.
LEMMA DeleteInv ==
  ASSUME IInv, NEW i \in Id, Delete(i)
  PROVE  IInv'
<1> DEFINE new == Removed(store, i)
<1>1. store \in Store /\ Consistent(store) /\ store' = new /\ Deletable(store, i)
      /\ UNCHANGED <<flushing, inflight, image>>
  BY DEF IInv, TypeOK, Delete, Mutate
<1>2. new \in Store /\ Consistent(new)
  BY <1>1, RemovedType, RemovedConsistent
<1>3. TypeOK'
  BY <1>1, <1>2 DEF IInv, TypeOK
<1>4. \A s \in LiveSlots(new) \ new.dirty :
        s \in LiveSlots(store) /\ s \notin store.dirty /\ new.slots[s] = store.slots[s]
  <2>1. Gone(store, i, new, store.idToSlot[i])
    BY <1>1, RemovedEffect
  <2> HIDE DEF new
  <2> QED
    BY <2>1 DEF Gone
<1> HIDE DEF new
<1>5. DirtyCoversDelta'
  BY <1>1, <1>4, CleanSlotsKept DEF IInv
<1> QED
  BY <1>1, <1>2, <1>3, <1>5 DEF IInv

\* Writing a payload in place makes the slot dirty and leaves the others alone.
LEMMA WriteInPlaceInv ==
  ASSUME IInv, NEW s, Writable(store, s), NEW new \in Store, Mutate(new),
         SameShape(store, new), new.dirty = store.dirty \cup {s},
         \A t \in DOMAIN store.slots : t # s => new.slots[t] = store.slots[t]
  PROVE  IInv'
<1>1. store \in Store /\ Consistent(store) /\ store' = new
      /\ UNCHANGED <<flushing, inflight, image>>
  BY DEF IInv, TypeOK, Mutate
<1>2. Consistent(new)
  BY <1>1, SameShapeConsistent
<1>3. TypeOK'
  BY <1>1 DEF IInv, TypeOK
<1>4. \A t \in LiveSlots(new) \ new.dirty :
        t \in LiveSlots(store) /\ t \notin store.dirty /\ new.slots[t] = store.slots[t]
  BY <1>1, LiveSlotsFinite DEF SameShape
<1>5. DirtyCoversDelta'
  BY <1>1, <1>4, CleanSlotsKept DEF IInv
<1> QED
  BY <1>1, <1>2, <1>3, <1>5 DEF IInv

\* update_metadata preserves the inductive invariant.
LEMMA UpdateMetadataInv ==
  ASSUME IInv, NEW s \in 1..Len(store.slots), NEW m \in Meta, UpdateMetadata(s, m)
  PROVE  IInv'
<1> DEFINE new == WithMeta(store, s, m)
<1>1. store \in Store /\ Writable(store, s) /\ Mutate(new)
  BY DEF IInv, TypeOK, UpdateMetadata
<1>2. new \in Store /\ SameShape(store, new)
  BY <1>1, WrittenInPlaceType, WrittenInPlaceShape
<1>3. new.dirty = store.dirty \cup {s}
      /\ \A t \in DOMAIN store.slots : t # s => new.slots[t] = store.slots[t]
  BY <1>1 DEF WithMeta, Store
<1> HIDE DEF new
<1> QED
  BY <1>1, <1>2, <1>3, WriteInPlaceInv

\* update_sparse and update_multi preserve the inductive invariant.
LEMMA UpdateAuxInv ==
  ASSUME IInv, NEW s \in 1..Len(store.slots), NEW x \in Aux \cup {NoAux}, UpdateAux(s, x)
  PROVE  IInv'
<1> DEFINE new == WithAux(store, s, x)
<1>1. store \in Store /\ Writable(store, s) /\ Mutate(new)
  BY DEF IInv, TypeOK, UpdateAux
<1>2. new \in Store /\ SameShape(store, new)
  BY <1>1, WrittenInPlaceType, WrittenInPlaceShape
<1>3. new.dirty = store.dirty \cup {s}
      /\ \A t \in DOMAIN store.slots : t # s => new.slots[t] = store.slots[t]
  BY <1>1 DEF WithAux, Store
<1> HIDE DEF new
<1> QED
  BY <1>1, <1>2, <1>3, WriteInPlaceInv

\* compact preserves the inductive invariant: every slot it fills is dirty.
LEMMA CompactInv ==
  ASSUME IInv, Compact
  PROVE  IInv'
<1> DEFINE new == Compacted(store)
<1>1. store \in Store /\ Consistent(store) /\ store' = new
      /\ UNCHANGED <<flushing, inflight, image>>
  BY DEF IInv, TypeOK, Compact, Mutate
<1>2. new \in Store /\ Consistent(new)
  BY <1>1, CompactedType, CompactedConsistent
<1>3. TypeOK'
  BY <1>1, <1>2 DEF IInv, TypeOK
<1>4. LiveSlots(new) \ new.dirty = {}
  BY <1>1, CompactedEffect, PackedSlotsLive
<1> HIDE DEF new
<1>5. DirtyCoversDelta'
  BY <1>1, <1>4, CleanSlotsKept DEF IInv
<1> QED
  BY <1>1, <1>2, <1>3, <1>5 DEF IInv

\* take_dirty_slots preserves it: what was dirty is in flight.
LEMMA BeginCheckpointInv ==
  ASSUME IInv, BeginCheckpoint
  PROVE  IInv'
<1> DEFINE new == DirtyTaken(store)
<1>1. store \in Store /\ Consistent(store) /\ store' = new
      /\ inflight' = store.dirty /\ inflight = {} /\ image' = image /\ flushing' = TRUE
  BY DEF IInv, TypeOK, BeginCheckpoint
<1>2. /\ new \in Store /\ new.slots = store.slots /\ new.deleted = store.deleted
      /\ new.idToSlot = store.idToSlot /\ new.liveCount = store.liveCount
      /\ new.dirty = {}
  BY <1>1 DEF DirtyTaken, Store
<1> HIDE DEF new
<1>3. SameShape(store, new)
  BY <1>2 DEF SameShape, LiveSlots
<1>4. Consistent(new)
  BY <1>1, <1>3, SameShapeConsistent
<1>5. TypeOK'
  <2>1. store.dirty \in SUBSET Slot /\ image \in Seq(Vec \cup {Zero})
    BY DEF IInv, TypeOK, Store
  <2>2. TRUE \in BOOLEAN
    OBVIOUS
  <2> QED
    BY <1>1, <1>2, <2>1, <2>2 DEF TypeOK
<1>6. DirtyCoversDelta'
  <2> SUFFICES ASSUME NEW s \in LiveSlots(new), s \notin inflight'
               PROVE  s \in DOMAIN image /\ image[s] = Written(new, s)
    BY <1>1, <1>2 DEF DirtyCoversDelta
  <2>1. s \in LiveSlots(store) \ (store.dirty \cup inflight)
    BY <1>1, <1>3 DEF SameShape
  <2>2. s \in DOMAIN image /\ image[s] = Written(store, s)
    BY <2>1 DEF IInv, DirtyCoversDelta
  <2>3. Written(new, s) = Written(store, s)
    BY <2>1, <1>2, <1>3 DEF Written, SameShape
  <2> QED
    BY <2>2, <2>3
<1> QED
  BY <1>1, <1>4, <1>5, <1>6 DEF IInv

\* A checkpoint that writes some of the slots it took, and gives the others back,
\* leaves the file covering the clean slots.
LEMMA WrittenSlotsCovered ==
  ASSUME IInv, NEW new \in Store, SameShape(store, new), new.slots = store.slots,
         NEW taken, taken \subseteq inflight,
         new.dirty \subseteq Slot, store.dirty \subseteq new.dirty,
         inflight \ taken \subseteq new.dirty,
         store' = new, inflight' = {}, image' = ImageAfter(store, taken, image)
  PROVE  DirtyCoversDelta'
<1>1. store \in Store /\ image \in Seq(Vec \cup {Zero})
  BY DEF IInv, TypeOK
<1>2. /\ DOMAIN store.slots \subseteq DOMAIN image'
      /\ \A s \in DOMAIN image' :
           image'[s] = IF s \in taken THEN Written(store, s)
                       ELSE IF s \in DOMAIN image THEN image[s] ELSE Zero
  BY <1>1, ImageAfterType
<1> SUFFICES ASSUME NEW s \in LiveSlots(new), s \notin new.dirty
             PROVE  s \in DOMAIN image' /\ image'[s] = Written(new, s)
  BY DEF DirtyCoversDelta
<1>3. s \in LiveSlots(store) /\ s \in DOMAIN store.slots
  BY DEF SameShape, LiveSlots
<1>4. Written(new, s) = Written(store, s)
  BY <1>3 DEF Written, SameShape
<1>5. CASE s \in taken
  BY <1>2, <1>3, <1>4, <1>5
<1>6. CASE s \notin taken
  <2>1. s \notin store.dirty \cup inflight
    BY <1>6
  <2>2. s \in DOMAIN image /\ image[s] = Written(store, s)
    BY <2>1, <1>3 DEF IInv, DirtyCoversDelta
  <2> QED
    BY <2>2, <1>2, <1>3, <1>4, <1>6
<1> QED
  BY <1>5, <1>6

\* A checkpoint that succeeds preserves it: what was in flight is in the file.
LEMMA FinishCheckpointInv ==
  ASSUME IInv, FinishCheckpoint
  PROVE  IInv'
<1>1. /\ store \in Store /\ Consistent(store) /\ image \in Seq(Vec \cup {Zero})
      /\ store' = store /\ inflight' = {} /\ flushing' = FALSE
      /\ image' = ImageAfter(store, inflight, image)
  BY DEF IInv, TypeOK, FinishCheckpoint
<1>2. SameShape(store, store) /\ store.dirty \subseteq Slot
  BY <1>1 DEF SameShape, Store
<1>3. DirtyCoversDelta'
  BY <1>1, <1>2, WrittenSlotsCovered
<1>4. TypeOK'
  <2>1. image' \in Seq(Vec \cup {Zero})
    BY <1>1, ImageAfterType
  <2>2. FALSE \in BOOLEAN /\ {} \in SUBSET Slot
    OBVIOUS
  <2> QED
    BY <1>1, <2>1, <2>2 DEF TypeOK
<1> QED
  BY <1>1, <1>3, <1>4 DEF IInv

\* A checkpoint that fails preserves it: restore_dirty_slots gives back what it took.
LEMMA FailCheckpointInv ==
  ASSUME IInv, FailCheckpoint
  PROVE  IInv'
<1> DEFINE new == DirtyRestored(store, inflight)
<1>1. /\ store \in Store /\ Consistent(store) /\ image \in Seq(Vec \cup {Zero})
      /\ inflight \in SUBSET Slot
      /\ store' = new /\ inflight' = {} /\ flushing' = FALSE
  BY DEF IInv, TypeOK, FailCheckpoint
<1>2. /\ new \in Store /\ new.slots = store.slots /\ new.deleted = store.deleted
      /\ new.idToSlot = store.idToSlot /\ new.liveCount = store.liveCount
      /\ new.dirty = store.dirty \cup inflight
  BY <1>1 DEF DirtyRestored, Store
<1>3. PICK k \in 0..Len(store.slots) :
        image' = ImageAfter(store, {s \in inflight : s <= k}, image)
  BY DEF FailCheckpoint
<1> DEFINE taken == {s \in inflight : s <= k}
<1> HIDE DEF new
<1>4. SameShape(store, new)
  BY <1>2 DEF SameShape, LiveSlots
<1>5. Consistent(new)
  BY <1>1, <1>4, SameShapeConsistent
<1>6. DirtyCoversDelta'
  <2>1. /\ taken \subseteq inflight /\ inflight \ taken \subseteq new.dirty
        /\ store.dirty \subseteq new.dirty /\ new.dirty \subseteq Slot
    BY <1>1, <1>2 DEF Store
  <2>2. image' = ImageAfter(store, taken, image)
    BY <1>3
  <2> HIDE DEF taken
  <2> QED
    BY <1>1, <1>2, <1>4, <2>1, <2>2, WrittenSlotsCovered
<1>7. TypeOK'
  <2>1. image' \in Seq(Vec \cup {Zero})
    BY <1>1, <1>3, ImageAfterType
  <2>2. FALSE \in BOOLEAN /\ {} \in SUBSET Slot
    OBVIOUS
  <2> QED
    BY <1>1, <1>2, <2>1, <2>2 DEF TypeOK
<1> QED
  BY <1>1, <1>5, <1>6, <1>7 DEF IInv

\* Reopening a clean store preserves the inductive invariant.
LEMMA ReopenInv ==
  ASSUME IInv, Reopen
  PROVE  IInv'
<1> DEFINE new == Restored(SnapshotSlots(store), store.deleted, Cardinality(LiveSlots(store)))
<1>1. /\ store \in Store /\ Consistent(store) /\ store' = new /\ store.dirty = {}
      /\ UNCHANGED <<flushing, inflight, image>>
  BY DEF IInv, TypeOK, Reopen
<1>2. /\ new \in Store /\ Consistent(new) /\ LiveSlots(new) = LiveSlots(store)
      /\ \A s \in LiveSlots(store) : new.slots[s] = store.slots[s]
  BY <1>1, ReopenedConsistent
<1>3. TypeOK'
  BY <1>1, <1>2 DEF IInv, TypeOK
<1> HIDE DEF new
<1>4. \A s \in LiveSlots(new) \ new.dirty :
        s \in LiveSlots(store) /\ s \notin store.dirty /\ new.slots[s] = store.slots[s]
  BY <1>1, <1>2
<1>5. DirtyCoversDelta'
  BY <1>1, <1>4, CleanSlotsKept DEF IInv
<1> QED
  BY <1>1, <1>2, <1>3, <1>5 DEF IInv

\* Every step of the record store preserves the inductive invariant.
LEMMA NextInv == IInv /\ [Next]_vars => IInv'
<1> SUFFICES ASSUME IInv, [Next]_vars
             PROVE  IInv'
  OBVIOUS
<1>1. ASSUME NEW i \in Id, NEW v \in Vec, NEW m \in Meta \cup {NoMeta}, Set(i, v, m)
      PROVE  IInv'
  BY <1>1, SetInv
<1>2. ASSUME NEW i \in Id, NEW m \in Meta \cup {NoMeta}, SetWithoutVector(i, m)
      PROVE  IInv'
  BY <1>2, SetWithoutVectorInv
<1>3. ASSUME NEW i \in Id, Delete(i)
      PROVE  IInv'
  BY <1>3, DeleteInv
<1>4. ASSUME NEW s \in 1..Len(store.slots), NEW m \in Meta, UpdateMetadata(s, m)
      PROVE  IInv'
  BY <1>4, UpdateMetadataInv
<1>5. ASSUME NEW s \in 1..Len(store.slots), NEW x \in Aux \cup {NoAux}, UpdateAux(s, x)
      PROVE  IInv'
  BY <1>5, UpdateAuxInv
<1>6. CASE Compact
  BY <1>6, CompactInv
<1>7. CASE BeginCheckpoint
  BY <1>7, BeginCheckpointInv
<1>8. CASE FinishCheckpoint
  BY <1>8, FinishCheckpointInv
<1>9. CASE FailCheckpoint
  BY <1>9, FailCheckpointInv
<1>10. CASE Reopen
  BY <1>10, ReopenInv
<1>11. CASE UNCHANGED vars
  BY <1>11 DEF vars, IInv, TypeOK, DirtyCoversDelta
<1> QED
  BY <1>1, <1>2, <1>3, <1>4, <1>5, <1>6, <1>7, <1>8, <1>9, <1>10, <1>11 DEF Next

\* The inductive invariant holds of every reachable state: types, consistent indexes,
\* a file that covers the clean slots, and nothing in flight outside a checkpoint.
THEOREM Invariance == Spec => []IInv
<1>1. Init => IInv
  BY InitInv
<1>2. IInv /\ [Next]_vars => IInv'
  BY NextInv
<1> QED
  BY <1>1, <1>2, PTL DEF Spec

\* Every field of the record store keeps its type, whatever the constants.
THEOREM TypeCorrect == Spec => []TypeOK
<1>1. IInv => TypeOK
  BY DEF IInv
<1> QED
  BY <1>1, Invariance, PTL

\* The id map, the tombstones, the slots and the cached live count of
\* record_store.rs stay consistent for any number of ids, slots and checkpoints.
THEOREM IndexCorrect == Spec => []IndexInv
<1>1. IInv => IndexInv
  BY DEF IInv, IndexInv
<1> QED
  BY <1>1, Invariance, PTL

\* An incremental checkpoint, which writes dirty slots only, never leaves a live
\* vector out of the file, however many checkpoints failed before it.
THEOREM DirtyTrackingCorrect == Spec => []DirtyCoversDelta
<1>1. IInv => DirtyCoversDelta
  BY DEF IInv
<1> QED
  BY <1>1, Invariance, PTL

-----------------------------------------------------------------------------
(* What callers see of a consistent store is determined by its set of live *)
(* records, so each operator is described by what it does to that set.     *)

LiveRecords(st) == {st.slots[s] : s \in LiveSlots(st)}

\* The live records that a record named i does not replace.
Others(st, i) == {r \in LiveRecords(st) : r.id # i}

-----------------------------------------------------------------------------
(* What callers see, from the live records.                                *)

\* Live records are records.
LEMMA LiveRecordsType ==
  ASSUME NEW st \in Store
  PROVE  LiveRecords(st) \subseteq Record
BY DEF LiveRecords, LiveSlots, Store

\* A live record is what callers see under its name.
LEMMA ContentsOfLive ==
  ASSUME NEW st \in Store, Consistent(st), NEW rec \in LiveRecords(st)
  PROVE  /\ rec.id \in Id
         /\ RecordOf(st, rec.id) = rec
         /\ ContentsOf(st)[rec.id] = FieldsOf(rec)
<1>1. PICK s \in LiveSlots(st) : st.slots[s] = rec
  BY DEF LiveRecords
<1>2. rec.id \in Id
  BY LiveRecordsType DEF Record
<1>3. st.idToSlot[rec.id] = s
  BY <1>1 DEF Consistent, LiveSlotsMapped
<1>4. Found(st, rec.id) /\ RecordOf(st, rec.id) = rec
  BY <1>1, <1>3 DEF Found, RecordOf
<1> QED
  BY <1>2, <1>4 DEF ContentsOf

\* Under a name that no live record has, callers see nothing.
LEMMA ContentsOfAbsent ==
  ASSUME NEW st \in Store, Consistent(st), NEW i \in Id,
         \A r \in LiveRecords(st) : r.id # i
  PROVE  ~Found(st, i) /\ st.idToSlot[i] = NoSlot /\ ContentsOf(st)[i] = NoRecord
<1>1. st.idToSlot[i] = NoSlot
  BY DEF Consistent, IdMapSound, LiveRecords
<1>2. ~Found(st, i)
  BY <1>1, LiveSlotsFinite DEF Found
<1> QED
  BY <1>1, <1>2 DEF ContentsOf

\* Consistent stores with the same live records show the same.
LEMMA SameContents ==
  ASSUME NEW st \in Store, Consistent(st), NEW new \in Store, Consistent(new),
         LiveRecords(new) = LiveRecords(st)
  PROVE  ContentsOf(new) = ContentsOf(st)
<1>1. ASSUME NEW i \in Id
      PROVE  ContentsOf(new)[i] = ContentsOf(st)[i]
  <2>1. CASE \A r \in LiveRecords(st) : r.id # i
    BY <2>1, ContentsOfAbsent
  <2>2. CASE \E r \in LiveRecords(st) : r.id = i
    <3>1. PICK r \in LiveRecords(st) : r.id = i
      BY <2>2
    <3> QED
      BY <3>1, ContentsOfLive
  <2> QED
    BY <2>1, <2>2
<1> QED
  BY <1>1 DEF ContentsOf

\* A record that replaces the one of its name changes what is seen there only.
LEMMA ReplacedContents ==
  ASSUME NEW st \in Store, Consistent(st), NEW new \in Store, Consistent(new),
         NEW rec, LiveRecords(new) = Others(st, rec.id) \cup {rec}
  PROVE  ContentsOf(new) = [ContentsOf(st) EXCEPT ![rec.id] = FieldsOf(rec)]
<1>1. rec.id \in Id /\ ContentsOf(new)[rec.id] = FieldsOf(rec)
  BY ContentsOfLive
<1>2. ASSUME NEW i \in Id, i # rec.id
      PROVE  ContentsOf(new)[i] = ContentsOf(st)[i]
  <2>1. CASE \A r \in LiveRecords(st) : r.id # i
    <3>1. \A r \in LiveRecords(new) : r.id # i
      BY <2>1, <1>2 DEF Others
    <3> QED
      BY <3>1, <2>1, ContentsOfAbsent
  <2>2. CASE \E r \in LiveRecords(st) : r.id = i
    <3>1. PICK r \in LiveRecords(st) : r.id = i
      BY <2>2
    <3>2. r \in LiveRecords(new)
      BY <3>1, <1>2 DEF Others
    <3> QED
      BY <3>1, <3>2, ContentsOfLive
  <2> QED
    BY <2>1, <2>2
<1> QED
  BY <1>1, <1>2 DEF ContentsOf

\* A record taken away leaves nothing under its name.
LEMMA ErasedContents ==
  ASSUME NEW st \in Store, Consistent(st), NEW new \in Store, Consistent(new),
         NEW i \in Id, LiveRecords(new) = Others(st, i)
  PROVE  ContentsOf(new) = [ContentsOf(st) EXCEPT ![i] = NoRecord]
<1>1. ContentsOf(new)[i] = NoRecord
  BY ContentsOfAbsent DEF Others
<1>2. ASSUME NEW j \in Id, j # i
      PROVE  ContentsOf(new)[j] = ContentsOf(st)[j]
  <2>1. CASE \A r \in LiveRecords(st) : r.id # j
    <3>1. \A r \in LiveRecords(new) : r.id # j
      BY <2>1 DEF Others
    <3> QED
      BY <3>1, <2>1, ContentsOfAbsent
  <2>2. CASE \E r \in LiveRecords(st) : r.id = j
    <3>1. PICK r \in LiveRecords(st) : r.id = j
      BY <2>2
    <3>2. r \in LiveRecords(new)
      BY <3>1, <1>2 DEF Others
    <3> QED
      BY <3>1, <3>2, ContentsOfLive
  <2> QED
    BY <2>1, <2>2
<1> QED
  BY <1>1, <1>2 DEF ContentsOf

-----------------------------------------------------------------------------
(* What each operation makes of the live records.                          *)

\* An upsert replaces the live record of its name.
LEMMA UpsertedRecords ==
  ASSUME NEW st \in Store, Consistent(st), NEW rec \in Record
  PROVE  LiveRecords(Upserted(st, rec)) = Others(st, rec.id) \cup {rec}
<1> DEFINE new == Upserted(st, rec)
           old == st.idToSlot[rec.id]
           n == Len(st.slots) + 1
<1>1. /\ LiveSlots(new) = (LiveSlots(st) \ {old}) \cup {n}
      /\ n \notin LiveSlots(st)
      /\ \A s \in DOMAIN st.slots : new.slots[s] = st.slots[s]
      /\ new.slots[n] = rec
  <2>1. Moved(st, rec, new, old, n)
    BY UpsertedEffect
  <2> HIDE DEF new, old, n
  <2> QED
    BY <2>1 DEF Moved
<1>2. \A s \in LiveSlots(st) : st.slots[s].id = rec.id <=> s = old
  <2>1. rec.id \in Id
    BY DEF Record
  <2> QED
    BY <2>1, OldSlot, LiveSlotsFinite
<1> HIDE DEF new, old, n
<1>3. LiveSlots(st) \subseteq DOMAIN st.slots
  BY LiveSlotsFinite
<1>4. ASSUME NEW r \in LiveRecords(new)
      PROVE  r \in Others(st, rec.id) \cup {rec}
  BY <1>1, <1>2, <1>3, <1>4 DEF LiveRecords, Others
<1>5. ASSUME NEW r \in Others(st, rec.id) \cup {rec}
      PROVE  r \in LiveRecords(new)
  <2>1. CASE r = rec
    BY <1>1, <2>1 DEF LiveRecords
  <2>2. CASE r \in Others(st, rec.id)
    <3>1. PICK s \in LiveSlots(st) : st.slots[s] = r /\ r.id # rec.id
      BY <2>2 DEF Others, LiveRecords
    <3>2. s \in LiveSlots(new) /\ new.slots[s] = r
      BY <3>1, <1>1, <1>2, <1>3
    <3> QED
      BY <3>2 DEF LiveRecords
  <2> QED
    BY <1>5, <2>1, <2>2
<1> QED
  BY <1>4, <1>5 DEF new

\* A delete takes the live record of its name away.
LEMMA RemovedRecords ==
  ASSUME NEW st \in Store, Consistent(st), NEW i \in Id, Deletable(st, i)
  PROVE  LiveRecords(Removed(st, i)) = Others(st, i)
<1> DEFINE new == Removed(st, i)
           old == st.idToSlot[i]
<1>1. /\ LiveSlots(new) = LiveSlots(st) \ {old}
      /\ new.slots = st.slots
  <2>1. Gone(st, i, new, old)
    BY RemovedEffect
  <2> HIDE DEF new, old
  <2> QED
    BY <2>1 DEF Gone
<1>2. \A s \in LiveSlots(st) : st.slots[s].id = i <=> s = old
  BY OldSlot, LiveSlotsFinite
<1> HIDE DEF new, old
<1> QED
  BY <1>1, <1>2 DEF LiveRecords, Others, new

\* A record written in place: if its slot is live it replaces the one of its
\* name, and if its slot is a tombstone no live record changes.
LEMMA WrittenInPlaceRecords ==
  ASSUME NEW st \in Store, Consistent(st), NEW s \in DOMAIN st.slots,
         NEW rec \in Record, rec.id = st.slots[s].id,
         NEW new \in Store, SameShape(st, new), new.slots = [st.slots EXCEPT ![s] = rec]
  PROVE  LiveRecords(new) = IF s \in LiveSlots(st) THEN Others(st, rec.id) \cup {rec}
                                                   ELSE LiveRecords(st)
<1>1. LiveSlots(new) = LiveSlots(st)
  BY DEF SameShape
<1>2. \A t \in DOMAIN st.slots : new.slots[t] = IF t = s THEN rec ELSE st.slots[t]
  OBVIOUS
<1>3. LiveSlots(st) \subseteq DOMAIN st.slots
  BY LiveSlotsFinite
<1>4. CASE s \in LiveSlots(st)
  <2>1. \A t \in LiveSlots(st) : st.slots[t].id = rec.id <=> t = s
    BY <1>4 DEF Consistent, LiveSlotsMapped
  <2>2. ASSUME NEW r \in LiveRecords(new)
        PROVE  r \in Others(st, rec.id) \cup {rec}
    BY <2>1, <2>2, <1>1, <1>2, <1>3 DEF LiveRecords, Others
  <2>3. rec \in LiveRecords(new)
    BY <1>1, <1>2, <1>4 DEF LiveRecords
  <2>4. ASSUME NEW r \in Others(st, rec.id)
        PROVE  r \in LiveRecords(new)
    <3>1. PICK t \in LiveSlots(st) : st.slots[t] = r /\ r.id # rec.id
      BY <2>4 DEF Others, LiveRecords
    <3>2. new.slots[t] = r
      BY <3>1, <1>2, <1>3
    <3> QED
      BY <3>1, <3>2, <1>1 DEF LiveRecords
  <2> QED
    BY <1>4, <2>2, <2>3, <2>4
<1>5. CASE s \notin LiveSlots(st)
  BY <1>1, <1>2, <1>3, <1>5 DEF LiveRecords
<1> QED
  BY <1>4, <1>5

\* A compaction moves the live records and keeps them.
LEMMA CompactedRecords ==
  ASSUME NEW st \in Store
  PROVE  LiveRecords(Compacted(st)) = LiveRecords(st)
<1> DEFINE L == LiveSlots(st)
           p == PackedSlots(st)
<1>1. Compacted(st).slots = p /\ LiveSlots(Compacted(st)) = DOMAIN p
  BY CompactedEffect, PackedSlotsLive
<1>2. \A n \in DOMAIN p : \E s \in L : p[n] = st.slots[s]
  BY PackedSlotsLive
<1>3. \A s \in L : \E n \in DOMAIN p : p[n] = st.slots[s]
  BY PackedSlotsLive
<1> HIDE DEF p
<1> QED
  BY <1>1, <1>2, <1>3 DEF LiveRecords

-----------------------------------------------------------------------------
(* Every step is a step of the map, or leaves it alone.                    *)

\* What set carries over from the slot its name maps to is what callers see.
LEMMA KeptIsCarried ==
  ASSUME store \in Store, Consistent(store), NEW i \in Id
  PROVE  Map!Kept(i) = FieldsOf(Carried(store, i))
<1>1. CASE \A r \in LiveRecords(store) : r.id # i
  <2>1. store.idToSlot[i] = NoSlot /\ Contents[i] = NoRecord
    BY <1>1, ContentsOfAbsent DEF Contents
  <2>2. NoSlot \notin DOMAIN store.slots
    BY DEF NoSlot, Store
  <2> QED
    BY <2>1, <2>2 DEF Map!Kept, Carried, FieldsOf
<1>2. CASE \E r \in LiveRecords(store) : r.id = i
  <2>1. PICK r \in LiveRecords(store) : r.id = i
    BY <1>2
  <2>2. RecordOf(store, i) = r /\ Contents[i] = FieldsOf(r)
    BY <2>1, ContentsOfLive DEF Contents
  <2>3. r \in Record /\ r # NoRecord
    BY LiveRecordsType, NoRecordAssumption
  <2>4. store.idToSlot[i] \in LiveSlots(store) /\ store.slots[store.idToSlot[i]] = r
    BY <2>2, <2>3 DEF RecordOf, Found
  <2>5. Carried(store, i) = r
    BY <2>3, <2>4, LiveSlotsFinite DEF Carried
  <2>6. FieldsOf(r) # NoRecord
    BY <2>3, NoFieldsAssumption DEF FieldsOf, Fields, Record
  <2> QED
    BY <2>2, <2>5, <2>6 DEF Map!Kept
<1> QED
  BY <1>1, <1>2

\* An upsert replaces what callers see under the name of its record.
LEMMA UpsertReplaces ==
  ASSUME IInv, NEW rec \in Record, Mutate(Upserted(store, rec))
  PROVE  Map!Replace(rec.id, FieldsOf(rec))
<1> DEFINE new == Upserted(store, rec)
<1>1. store \in Store /\ Consistent(store) /\ store' = new
  BY DEF IInv, TypeOK, Mutate
<1>2. new \in Store /\ Consistent(new) /\ LiveRecords(new) = Others(store, rec.id) \cup {rec}
  BY <1>1, UpsertedType, UpsertedConsistent, UpsertedRecords
<1> HIDE DEF new
<1>3. ContentsOf(new) = [ContentsOf(store) EXCEPT ![rec.id] = FieldsOf(rec)]
  BY <1>1, <1>2, ReplacedContents
<1> QED
  BY <1>1, <1>3 DEF Map!Replace, Contents

\* set is the map's Set.
LEMMA SetStep ==
  ASSUME IInv, NEW i \in Id, NEW v \in Vec, NEW m \in Meta \cup {NoMeta}, Set(i, v, m)
  PROVE  Map!Set(i, v, m)
<1> DEFINE rec == [id |-> i, vec |-> v, aux |-> Carried(store, i).aux, meta |-> m]
<1>1. rec \in Record /\ Mutate(Upserted(store, rec))
  BY SetRecordType DEF IInv, TypeOK, Set, WithVector
<1>2. Map!Kept(i) = FieldsOf(Carried(store, i))
  BY KeptIsCarried DEF IInv, TypeOK
<1>3. rec.id = i /\ FieldsOf(rec) = [vec |-> v, aux |-> Map!Kept(i).aux, meta |-> m]
  BY <1>2 DEF FieldsOf
<1> HIDE DEF rec
<1>4. Map!Replace(i, [vec |-> v, aux |-> Map!Kept(i).aux, meta |-> m])
  BY <1>1, <1>3, UpsertReplaces
<1> QED
  BY <1>4 DEF Map!Set

\* set_without_vector is the map's SetWithoutVector.
LEMMA SetWithoutVectorStep ==
  ASSUME IInv, NEW i \in Id, NEW m \in Meta \cup {NoMeta}, SetWithoutVector(i, m)
  PROVE  Map!SetWithoutVector(i, m)
<1> DEFINE rec == [id |-> i, vec |-> Carried(store, i).vec, aux |-> Carried(store, i).aux,
                   meta |-> m]
<1>1. rec \in Record /\ Mutate(Upserted(store, rec))
  BY SetRecordType DEF IInv, TypeOK, SetWithoutVector, WithoutVector
<1>2. Map!Kept(i) = FieldsOf(Carried(store, i))
  BY KeptIsCarried DEF IInv, TypeOK
<1>3. rec.id = i
      /\ FieldsOf(rec) = [vec |-> Map!Kept(i).vec, aux |-> Map!Kept(i).aux, meta |-> m]
  BY <1>2 DEF FieldsOf
<1> HIDE DEF rec
<1>4. Map!Replace(i, [vec |-> Map!Kept(i).vec, aux |-> Map!Kept(i).aux, meta |-> m])
  BY <1>1, <1>3, UpsertReplaces
<1> QED
  BY <1>4 DEF Map!SetWithoutVector

\* delete is the map's Delete.
LEMMA DeleteStep ==
  ASSUME IInv, NEW i \in Id, Delete(i)
  PROVE  Map!Delete(i)
<1> DEFINE new == Removed(store, i)
<1>1. store \in Store /\ Consistent(store) /\ store' = new /\ Deletable(store, i)
  BY DEF IInv, TypeOK, Delete, Mutate
<1>2. new \in Store /\ Consistent(new) /\ LiveRecords(new) = Others(store, i)
  BY <1>1, RemovedType, RemovedConsistent, RemovedRecords
<1> HIDE DEF new
<1>3. ContentsOf(new) = [ContentsOf(store) EXCEPT ![i] = NoRecord]
  BY <1>1, <1>2, ErasedContents
<1>4. ContentsOf(store)[i] # NoRecord
  <2>1. \E r \in LiveRecords(store) : r.id = i
    BY <1>1, ContentsOfAbsent DEF Deletable
  <2>2. PICK r \in LiveRecords(store) : r.id = i
    BY <2>1
  <2>3. ContentsOf(store)[i] = FieldsOf(r) /\ r \in Record
    BY <1>1, <2>2, ContentsOfLive, LiveRecordsType
  <2> QED
    BY <2>3, NoFieldsAssumption DEF FieldsOf, Fields, Record
<1> QED
  BY <1>1, <1>3, <1>4 DEF Map!Delete, Contents

\* A record written in place is replaced in the map if its slot is live, and the
\* map does not notice if its slot is a tombstone.
LEMMA WriteInPlaceStep ==
  ASSUME IInv, NEW s \in DOMAIN store.slots, NEW rec \in Record,
         rec.id = store.slots[s].id, store.slots[s] \in Record,
         NEW new \in Store, SameShape(store, new), new.slots = [store.slots EXCEPT ![s] = rec],
         Mutate(new)
  PROVE  /\ s \in LiveSlots(store) => /\ Contents[rec.id] = FieldsOf(store.slots[s])
                                      /\ Contents[rec.id] # NoRecord
                                      /\ Map!Replace(rec.id, FieldsOf(rec))
         /\ s \notin LiveSlots(store) => UNCHANGED Contents
<1>1. store \in Store /\ Consistent(store) /\ store' = new
  BY DEF IInv, TypeOK, Mutate
<1>2. Consistent(new)
  BY <1>1, SameShapeConsistent
<1>3. CASE s \in LiveSlots(store)
  <2>1. LiveRecords(new) = Others(store, rec.id) \cup {rec}
    BY <1>1, <1>3, WrittenInPlaceRecords
  <2>2. ContentsOf(new) = [ContentsOf(store) EXCEPT ![rec.id] = FieldsOf(rec)]
    BY <1>1, <1>2, <2>1, ReplacedContents
  <2>3. store.slots[s] \in LiveRecords(store)
    BY <1>3 DEF LiveRecords
  <2>4. rec.id \in Id /\ Contents[rec.id] = FieldsOf(store.slots[s])
    BY <1>1, <2>3, ContentsOfLive DEF Contents
  <2>5. FieldsOf(store.slots[s]) # NoRecord
    BY NoFieldsAssumption DEF FieldsOf, Fields, Record
  <2> QED
    BY <1>1, <1>3, <2>2, <2>4, <2>5 DEF Map!Replace, Contents
<1>4. CASE s \notin LiveSlots(store)
  <2>1. LiveRecords(new) = LiveRecords(store)
    BY <1>1, <1>4, WrittenInPlaceRecords
  <2> QED
    BY <1>1, <1>2, <1>4, <2>1, SameContents DEF Contents
<1> QED
  BY <1>3, <1>4

\* update_metadata is the map's UpdateMetadata of the name in the slot, or nothing.
LEMMA UpdateMetadataStep ==
  ASSUME IInv, NEW s \in 1..Len(store.slots), NEW m \in Meta, UpdateMetadata(s, m)
  PROVE  InPlace(s, Map!UpdateMetadata(store.slots[s].id, m))
<1> DEFINE new == WithMeta(store, s, m)
           rec == [store.slots[s] EXCEPT !.meta = m]
<1>1. store \in Store /\ Writable(store, s) /\ Mutate(new)
  BY DEF IInv, TypeOK, UpdateMetadata
<1>2. new \in Store /\ SameShape(store, new)
  BY <1>1, WrittenInPlaceType, WrittenInPlaceShape
<1>3. s \in DOMAIN store.slots /\ store.slots[s] \in Record
  BY <1>1 DEF Store, Writable
<1>4. /\ rec \in Record /\ rec.id = store.slots[s].id
      /\ FieldsOf(rec) = [FieldsOf(store.slots[s]) EXCEPT !.meta = m]
  BY <1>3 DEF Record, FieldsOf
<1>5. new.slots = [store.slots EXCEPT ![s] = rec]
  BY <1>1 DEF WithMeta, Store
<1> HIDE DEF new, rec
<1>6. /\ s \in LiveSlots(store) => /\ Contents[rec.id] = FieldsOf(store.slots[s])
                                   /\ Contents[rec.id] # NoRecord
                                   /\ Map!Replace(rec.id, FieldsOf(rec))
      /\ s \notin LiveSlots(store) => UNCHANGED Contents
  BY <1>1, <1>2, <1>3, <1>4, <1>5, WriteInPlaceStep
<1> QED
  BY <1>4, <1>6 DEF Map!UpdateMetadata, InPlace

\* update_sparse and update_multi are the map's UpdateAux, or nothing.
LEMMA UpdateAuxStep ==
  ASSUME IInv, NEW s \in 1..Len(store.slots), NEW x \in Aux \cup {NoAux}, UpdateAux(s, x)
  PROVE  InPlace(s, Map!UpdateAux(store.slots[s].id, x))
<1> DEFINE new == WithAux(store, s, x)
           rec == [store.slots[s] EXCEPT !.aux = x]
<1>1. store \in Store /\ Writable(store, s) /\ Mutate(new)
  BY DEF IInv, TypeOK, UpdateAux
<1>2. new \in Store /\ SameShape(store, new)
  BY <1>1, WrittenInPlaceType, WrittenInPlaceShape
<1>3. s \in DOMAIN store.slots /\ store.slots[s] \in Record
  BY <1>1 DEF Store, Writable
<1>4. /\ rec \in Record /\ rec.id = store.slots[s].id
      /\ FieldsOf(rec) = [FieldsOf(store.slots[s]) EXCEPT !.aux = x]
  BY <1>3 DEF Record, FieldsOf
<1>5. new.slots = [store.slots EXCEPT ![s] = rec]
  BY <1>1 DEF WithAux, Store
<1> HIDE DEF new, rec
<1>6. /\ s \in LiveSlots(store) => /\ Contents[rec.id] = FieldsOf(store.slots[s])
                                   /\ Contents[rec.id] # NoRecord
                                   /\ Map!Replace(rec.id, FieldsOf(rec))
      /\ s \notin LiveSlots(store) => UNCHANGED Contents
  BY <1>1, <1>2, <1>3, <1>4, <1>5, WriteInPlaceStep
<1> QED
  BY <1>4, <1>6 DEF Map!UpdateAux, InPlace

\* A compaction, a checkpoint and a reopen leave the map alone.
LEMMA UnseenSteps ==
  ASSUME IInv, Compact \/ BeginCheckpoint \/ FinishCheckpoint \/ FailCheckpoint \/ Reopen
  PROVE  UNCHANGED Contents
<1>1. store \in Store /\ Consistent(store)
  BY DEF IInv, TypeOK
<1>2. IInv'
  BY NextInv DEF Next
<1>3. store' \in Store /\ Consistent(store')
  BY <1>2 DEF IInv, TypeOK
<1>4. LiveRecords(store') = LiveRecords(store)
  <2>1. CASE Compact
    BY <2>1, <1>1, CompactedRecords DEF Compact, Mutate
  <2>2. CASE BeginCheckpoint
    BY <2>2, <1>1 DEF BeginCheckpoint, DirtyTaken, Store, LiveRecords, LiveSlots
  <2>3. CASE FinishCheckpoint
    BY <2>3 DEF FinishCheckpoint
  <2>4. CASE FailCheckpoint
    BY <2>4, <1>1 DEF FailCheckpoint, DirtyRestored, Store, LiveRecords, LiveSlots
  <2>5. CASE Reopen
    <3>1. /\ LiveSlots(store') = LiveSlots(store)
          /\ \A s \in LiveSlots(store) : store'.slots[s] = store.slots[s]
      BY <2>5, <1>1, ReopenedConsistent DEF Reopen
    <3> QED
      BY <3>1 DEF LiveRecords
  <2> QED
    BY <2>1, <2>2, <2>3, <2>4, <2>5
<1> QED
  BY <1>1, <1>3, <1>4, SameContents DEF Contents

\* An empty store shows an empty map, ...
LEMMA InitMaps == Init => Map!Init
<1> SUFFICES ASSUME Init PROVE Map!Init
  OBVIOUS
<1>1. store.idToSlot = [i \in Id |-> NoSlot] /\ store.slots = << >>
  BY DEF Init, EmptyStore
<1>2. \A i \in Id : ~Found(store, i)
  BY <1>1 DEF Found, LiveSlots
<1> QED
  BY <1>2 DEF Map!Init, Contents, ContentsOf

\* ... every call is the map's operation it should be, ...
LEMMA CallsMap == IInv => EachCall
<1> SUFFICES ASSUME IInv PROVE EachCall
  OBVIOUS
<1>1. \A i \in Id, m \in Meta \cup {NoMeta} :
        /\ SetWithoutVector(i, m) => Map!SetWithoutVector(i, m)
        /\ \A v \in Vec : Set(i, v, m) => Map!Set(i, v, m)
  BY SetStep, SetWithoutVectorStep
<1>2. \A i \in Id : Delete(i) => Map!Delete(i)
  BY DeleteStep
<1>3. \A s \in 1..Len(store.slots), m \in Meta :
        UpdateMetadata(s, m) => InPlace(s, Map!UpdateMetadata(store.slots[s].id, m))
  BY UpdateMetadataStep
<1>4. \A s \in 1..Len(store.slots), x \in Aux \cup {NoAux} :
        UpdateAux(s, x) => InPlace(s, Map!UpdateAux(store.slots[s].id, x))
  BY UpdateAuxStep
<1>5. Compact \/ BeginCheckpoint \/ FinishCheckpoint \/ FailCheckpoint \/ Reopen =>
        UNCHANGED Contents
  BY UnseenSteps
<1> QED
  BY <1>1, <1>2, <1>3, <1>4, <1>5 DEF EachCall

\* ... a write in place, wherever it lands, is a step of the map or is not seen, ...
LEMMA InPlaceSteps ==
  ASSUME IInv, NEW s \in 1..Len(store.slots)
  PROVE  /\ \A m \in Meta : UpdateMetadata(s, m) => Map!Next \/ UNCHANGED Contents
         /\ \A x \in Aux \cup {NoAux} : UpdateAux(s, x) => Map!Next \/ UNCHANGED Contents
<1>1. s \in LiveSlots(store) => store.slots[s].id \in Id
  BY DEF IInv, TypeOK, Store, LiveSlots, Record
<1>2. ASSUME NEW m \in Meta, UpdateMetadata(s, m)
      PROVE  Map!Next \/ UNCHANGED Contents
  BY <1>1, <1>2, UpdateMetadataStep DEF InPlace, Map!Next
<1>3. ASSUME NEW x \in Aux \cup {NoAux}, UpdateAux(s, x)
      PROVE  Map!Next \/ UNCHANGED Contents
  BY <1>1, <1>3, UpdateAuxStep DEF InPlace, Map!Next
<1> QED
  BY <1>2, <1>3

\* ... and so is every step of the store.
LEMMA NextMaps == IInv /\ [Next]_vars => [Map!Next]_Contents
<1> SUFFICES ASSUME IInv, [Next]_vars PROVE [Map!Next]_Contents
  OBVIOUS
<1>1. ASSUME NEW i \in Id, NEW v \in Vec, NEW m \in Meta \cup {NoMeta}, Set(i, v, m)
      PROVE  Map!Next
  BY <1>1, SetStep DEF Map!Next
<1>2. ASSUME NEW i \in Id, NEW m \in Meta \cup {NoMeta}, SetWithoutVector(i, m)
      PROVE  Map!Next
  BY <1>2, SetWithoutVectorStep DEF Map!Next
<1>3. ASSUME NEW i \in Id, Delete(i)
      PROVE  Map!Next
  BY <1>3, DeleteStep DEF Map!Next
<1>4. ASSUME NEW s \in 1..Len(store.slots), NEW m \in Meta, UpdateMetadata(s, m)
      PROVE  Map!Next \/ UNCHANGED Contents
  BY <1>4, InPlaceSteps
<1>5. ASSUME NEW s \in 1..Len(store.slots), NEW x \in Aux \cup {NoAux}, UpdateAux(s, x)
      PROVE  Map!Next \/ UNCHANGED Contents
  BY <1>5, InPlaceSteps
<1>6. CASE Compact \/ BeginCheckpoint \/ FinishCheckpoint \/ FailCheckpoint \/ Reopen
  BY <1>6, UnseenSteps
<1>7. CASE UNCHANGED vars
  BY <1>7 DEF vars, Contents
<1> QED
  BY <1>1, <1>2, <1>3, <1>4, <1>5, <1>6, <1>7 DEF Next

\* The record store implements the map from names to records, call by call: whatever
\* the number of ids and slots, an upsert, a delete and a payload update are the
\* map's operation on the id they name, an update that reaches a tombstone changes
\* nothing, and compactions, checkpoints and reopens leave every record as it was.
THEOREM MapImplemented == Spec => ImplementsMap
<1>1. Init => Map!Init
  BY InitMaps
<1>2. IInv /\ [Next]_vars => [Map!Next]_Contents
  BY NextMaps
<1>3. IInv /\ [Next]_vars => [EachCall]_vars
  BY CallsMap
<1> QED
  BY <1>1, <1>2, <1>3, Invariance, PTL DEF Spec, ImplementsMap, Map!Spec

-----------------------------------------------------------------------------
(* Slots keep their identity.                                              *)

\* An upsert fills a slot that did not exist.
LEMMA UpsertKeepsSlots ==
  ASSUME IInv, NEW rec \in Record, Mutate(Upserted(store, rec))
  PROVE  SlotsKept
<1> DEFINE new == Upserted(store, rec)
<1>1. store \in Store /\ Consistent(store) /\ store' = new
  BY DEF IInv, TypeOK, Mutate
<1>2. Moved(store, rec, new, store.idToSlot[rec.id], Len(store.slots) + 1)
  BY <1>1, UpsertedEffect
<1>3. Len(store.slots) + 1 \notin DOMAIN store.slots
  BY <1>1 DEF Store
<1> HIDE DEF new
<1> QED
  BY <1>1, <1>2, <1>3 DEF Moved, SlotsKept

\* A step that keeps the shape of the store keeps its slots.
LEMMA SameShapeKeepsSlots ==
  ASSUME SameShape(store, store')
  PROVE  SlotsKept
BY DEF SameShape, SlotsKept

\* Every step but a compaction keeps the slots.
LEMMA StepKeepsSlots == IInv /\ [Next]_vars => Compact \/ SlotsKept
<1> SUFFICES ASSUME IInv, [Next]_vars PROVE Compact \/ SlotsKept
  OBVIOUS
<1>1. store \in Store /\ Consistent(store)
  BY DEF IInv, TypeOK
<1>2. ASSUME NEW i \in Id, NEW v \in Vec, NEW m \in Meta \cup {NoMeta}, Set(i, v, m)
      PROVE  SlotsKept
  BY <1>1, <1>2, SetRecordType, UpsertKeepsSlots DEF Set, WithVector
<1>3. ASSUME NEW i \in Id, NEW m \in Meta \cup {NoMeta}, SetWithoutVector(i, m)
      PROVE  SlotsKept
  BY <1>1, <1>3, SetRecordType, UpsertKeepsSlots DEF SetWithoutVector, WithoutVector
<1>4. ASSUME NEW i \in Id, Delete(i)
      PROVE  SlotsKept
  <2>1. Gone(store, i, store', store.idToSlot[i])
    BY <1>1, <1>4, RemovedEffect DEF Delete, Mutate
  <2> QED
    BY <2>1 DEF Gone, SlotsKept
<1>5. ASSUME NEW s \in 1..Len(store.slots), NEW m \in Meta, UpdateMetadata(s, m)
      PROVE  SlotsKept
  <2>1. SameShape(store, store')
    BY <1>1, <1>5, WrittenInPlaceShape DEF UpdateMetadata, Mutate
  <2> QED
    BY <2>1, SameShapeKeepsSlots
<1>6. ASSUME NEW s \in 1..Len(store.slots), NEW x \in Aux \cup {NoAux}, UpdateAux(s, x)
      PROVE  SlotsKept
  <2>1. SameShape(store, store')
    BY <1>1, <1>6, WrittenInPlaceShape DEF UpdateAux, Mutate
  <2> QED
    BY <2>1, SameShapeKeepsSlots
<1>7. CASE BeginCheckpoint
  <2>1. SameShape(store, store')
    BY <1>7, <1>1 DEF BeginCheckpoint, DirtyTaken, Store, SameShape, LiveSlots
  <2> QED
    BY <2>1, SameShapeKeepsSlots
<1>8. CASE FinishCheckpoint
  BY <1>8 DEF FinishCheckpoint, SlotsKept
<1>9. CASE FailCheckpoint
  <2>1. SameShape(store, store')
    BY <1>9, <1>1 DEF FailCheckpoint, DirtyRestored, Store, SameShape, LiveSlots
  <2> QED
    BY <2>1, SameShapeKeepsSlots
<1>10. CASE Reopen
  <2>1. /\ store'.deleted = store.deleted
        /\ DOMAIN store'.slots = DOMAIN store.slots
    BY <1>10, <1>1, SnapshotType DEF Reopen, Restored
  <2>2. /\ LiveSlots(store') = LiveSlots(store)
        /\ \A s \in LiveSlots(store) : store'.slots[s] = store.slots[s]
    BY <1>10, <1>1, ReopenedConsistent DEF Reopen
  <2> QED
    BY <2>1, <2>2 DEF SlotsKept
<1>11. CASE UNCHANGED vars
  BY <1>11 DEF vars, SlotsKept
<1> QED
  BY <1>2, <1>3, <1>4, <1>5, <1>6, <1>7, <1>8, <1>9, <1>10, <1>11 DEF Next

\* Between two compactions a slot number names one record for ever, or nothing: an
\* HNSW graph that names vectors by slot never leads to another id's record.
THEOREM SlotIdentityCorrect == Spec => SlotIdentity
<1>1. IInv /\ [Next]_vars => Compact \/ SlotsKept
  BY StepKeepsSlots
<1>2. IInv /\ [Next]_vars => [Compact \/ SlotsKept]_vars
  BY <1>1
<1> QED
  BY <1>2, Invariance, PTL DEF Spec, SlotIdentity
=============================================================================
