------------------------ MODULE ConcurrentStoreProofs ------------------------
(***************************************************************************)
(* Proofs about ConcurrentStore, for any number of threads, ids and calls: *)
(* that the locks are held the way the calls are written; that, however    *)
(* the calls interleave, the id map, the slots, the engine and the indexes *)
(* are left consistent, and the log too where no two calls write one id;   *)
(* and that, in a store in memory and while no batch is written, the calls *)
(* never all wait for each other.  The invariant, IInv, and the points of  *)
(* the calls are those of ConcurrentStorePoints.                           *)
(***************************************************************************)
EXTENDS ConcurrentStorePoints

-----------------------------------------------------------------------------
(* The accesses, one by one.                                               *)

\* A thread accesses the store and goes on, and the invariant goes on to hold.
Accesses(at, bt, t, name) ==
  /\ Goes(at, bt, t)
  /\ reg'[t] = Registers(name, reg[t], store, log)
  /\ store' = Changed(name, reg'[t], store)
  /\ log' = Logged(name, reg'[t], store, log)
  /\ UNCHANGED persistent

Preserved(at, bt, t) ==
  /\ Consistent(bt)'
  /\ Unraced(at) => Unraced(bt)'
  /\ reg'[t] \in Local /\ store' \in Stores /\ log' \in Logs

\* A call looks up the slot of its id.
LEMMA LookKeeps ==
  ASSUME Typed, NEW at, NEW bt, NEW t \in Thread, Placed(at), Consistent(at),
         Accesses(at, bt, t, "look"), at[t] \in {104, 202, 302, 402}, bt[t] = at[t] + 1
  PROVE  Preserved(at, bt, t)
<1> DEFINE n == at[t]
           m == bt[t]
           o == reg[t]
           r == reg'[t]
<1>1. n \in {104, 202, 302, 402} /\ m = n + 1 /\ Goes(at, bt, t) /\ UNCHANGED persistent
  BY DEF Accesses
<1>2. o \in Local /\ store \in Stores /\ log \in Logs
  BY LocalTyped
<1>3. /\ r = [o EXCEPT !.old = store.ids[o.id], !.slot = store.ids[o.id]]
      /\ store' = store
      /\ log' = log
  <2>1. r = Registers("look", o, store, log) /\ store' = Changed("look", r, store) /\ log' = Logged("look", r, store, log)
    BY DEF Accesses
  <2> HIDE DEF n, m, o, r
  <2>2. r = [o EXCEPT !.old = store.ids[o.id], !.slot = store.ids[o.id]]
    BY <2>1 DEF Registers
  <2>3. store' = store
    BY <2>1 DEF Changed
  <2>4. log' = log
    BY <2>1 DEF Logged
  <2> QED
    BY <2>2, <2>3, <2>4
<1>4. /\ SameCall(o, r) /\ r.old = store.ids[o.id] /\ r.slot = store.ids[o.id] /\ r.cur = o.cur
      /\ r.sparse = o.sparse /\ r.ok = o.ok /\ r.order = o.order
      /\ store' = store /\ log' = log
      /\ Kept(store'.slots, store.slots) /\ store.dead \subseteq store'.dead /\ store.sparse \subseteq store'.sparse
  BY <1>2, <1>3, KeptSame DEF Local, Stores, Logs, SameCall
<1>5. /\ Alone(at) /\ Held(at) /\ n \in GateReading /\ NoneAt(at, Excluding) /\ NoneAt(at, Replacing)
      /\ NoneAt(at, Unindexed) /\ NoneAt(at, Renumbering) /\ NoneAt(at, Cleared)
      /\ n \in Modifying /\ o.id \in Id
  <2>1. n \in GateReading
    BY <1>1 DEF GateReading
  <2>2. n \in Modifying
    BY <1>1 DEF Modifying, OfSet, OfBatch, OfUpdate, OfDelete
  <2>3. o.id \in Id
    BY <2>2, BusyId DEF Consistent
  <2>4. /\ NoneAt(at, Excluding) /\ NoneAt(at, Replacing)
        /\ NoneAt(at, Unindexed) /\ NoneAt(at, Renumbering) /\ NoneAt(at, Cleared)
    BY <2>1, Gated DEF Placed
  <2> QED
    BY <2>1, <2>2, <2>3, <2>4 DEF Placed
<1>6. /\ CalledPasses(n, m, o, r)
      /\ SlotPasses(n, m, o, r)
      /\ IdsPass(n, m, o, r)
      /\ EnginePasses(n, m, o, r)
      /\ IndexPasses(n, m, o, r)
      /\ CompactPasses(n, m, o, r)
      /\ CarriedPasses(n, m, o, r)
      /\ MetaPasses(n, m, o, r)
      /\ SparsePasses(n, m, o, r)
      /\ LogPasses(n, m, o, r)
  <2> HIDE DEF n, m, o, r
  <2>1. CalledPasses(n, m, o, r)
    BY <1>1, <1>4 DEF CalledPasses, OfSet, OfBatch, OfUpdate, OfDelete
  <2>2. SlotPasses(n, m, o, r)
    BY <1>1, <1>4 DEF SlotPasses, Burying, AfterPush, Deleted
  <2>3. IdsPass(n, m, o, r)
    BY <1>1, <1>4 DEF IdsPass, Replacing, Burying
  <2>4. EnginePasses(n, m, o, r)
    BY <1>1, <1>4 DEF EnginePasses, Replacing, Inserting
  <2>5. IndexPasses(n, m, o, r)
    BY <1>1, <1>4 DEF IndexPasses, Unindexed, Indexing
  <2>6. CompactPasses(n, m, o, r)
    BY <1>1, <1>4 DEF CompactPasses, Packed, Replacing, Emptied, Refilled, Exhumed
  <2>7. CarriedPasses(n, m, o, r)
    BY <1>1, <1>4 DEF CarriedPasses, Plain, Laden, Landed, Relocating
  <2>8. MetaPasses(n, m, o, r)
    BY <1>1, <1>4 DEF MetaPasses, Unindexed, Unindexing, Rewriting, Indexing
  <2>9. SparsePasses(n, m, o, r)
    BY <1>1, <1>4 DEF SparsePasses, Renumbering, Dropping, Placing
  <2>10. LogPasses(n, m, o, r)
    BY <1>1, <1>4 DEF LogPasses, Cleared, Unlogged, LoggedFirst
  <2> QED
    BY <2>1, <2>2, <2>3, <2>4, <2>5, <2>6, <2>7, <2>8, <2>9, <2>10
<1>7. Consistent(bt)'
  <2>1. Called(bt)'
    BY <1>1, <1>4, <1>5, <1>6, CalledFrame DEF Consistent
  <2>2. OldFits(bt)'
    <3>2. r.old # None => r.old \in DOMAIN store.slots /\ store.slots[r.old].id = r.id
      BY <1>4, <1>5 DEF Consistent, IdsFit, SameCall
    <3>3. m \notin Known /\ m \notin Unknown /\ m \notin Carrying
      <4> HIDE DEF m, n
      <4> QED
        BY <1>1 DEF Known, Unknown, Carrying
    <3>4. \A u \in Thread : u # t => bt[u] = at[u] /\ reg'[u] = reg[u]
      BY <1>1 DEF Goes
    <3> QED
      BY <1>4, <3>2, <3>3, <3>4 DEF OldFits, Consistent
  <2>3. SlotFits(bt)'
    BY <1>1, <1>4, <1>5, <1>6, SlotFrame DEF Consistent
  <2>4. IdsFit(bt)'
    BY <1>1, <1>4, <1>5, <1>6, IdsFrame DEF Consistent
  <2>5. InEngine(bt)'
    BY <1>1, <1>4, <1>5, <1>6, EngineFrame DEF Consistent
  <2>6. Indexed(bt)'
    BY <1>1, <1>4, <1>5, <1>6, IndexFrame DEF Consistent
  <2>7. Compacting(bt)'
    BY <1>1, <1>4, <1>5, <1>6, CompactFrame DEF Consistent
  <2> QED
    BY <2>1, <2>2, <2>3, <2>4, <2>5, <2>6, <2>7 DEF Consistent
<1>8. ASSUME Unraced(at)
      PROVE  Unraced(bt)'
  <2>1. Apart(bt)'
    BY <1>1, <1>4, <1>5, <1>6, <1>8, ApartFrame DEF Unraced, Consistent
  <2>2. Sole(bt)'
    <3>1. m \notin Carrying /\ m \notin AfterPush /\ m \notin Deleted /\ m \notin Deciding
      <4> HIDE DEF m, n
      <4> QED
        BY <1>1 DEF Carrying, AfterPush, Deleted, Deciding
    <3>2. \A u \in Thread : u # t => bt[u] = at[u] /\ reg'[u] = reg[u]
      BY <1>1 DEF Goes
    <3>3. Sole(at)
      BY <1>8 DEF Unraced
    <3> QED
      BY <1>4, <3>1, <3>2, <3>3 DEF Sole, SameCall
  <2>3. Carried(bt)'
    BY <1>1, <1>4, <1>5, <1>6, <1>8, CarriedFrame DEF Unraced, Consistent
  <2>4. MetaExact(bt)'
    BY <1>1, <1>4, <1>5, <1>6, <1>8, MetaFrame DEF Unraced, Consistent
  <2>5. SparseExact(bt)'
    BY <1>1, <1>4, <1>5, <1>6, <1>8, SparseFrame DEF Unraced, Consistent
  <2>6. LogExact(bt)'
    BY <1>1, <1>4, <1>5, <1>6, <1>8, LogFrame DEF Unraced, Consistent
  <2> QED
    BY <2>1, <2>2, <2>3, <2>4, <2>5, <2>6 DEF Unraced
<1>9. r \in Local /\ store' \in Stores /\ log' \in Logs
  <2>2. store.ids[o.id] \in Nat \cup {None}
    BY <1>2, <1>5 DEF Stores
  <2>3. r \in Local
    <3> HIDE DEF o, r
    <3> QED
      BY <1>2, <1>3, <2>2, ZenonT(60) DEF Local
  <2> QED
    BY <1>2, <1>3, <2>3
<1> QED
  BY <1>7, <1>8, <1>9 DEF Preserved

\* upsert finds what slot the id has, to carry over what it has.
LEMMA FindKeeps ==
  ASSUME Typed, NEW at, NEW bt, NEW t \in Thread, Placed(at), Consistent(at),
         Accesses(at, bt, t, "find"), at[t] \in FindAt, bt[t] = IF store.ids[reg[t].id] # None THEN at[t] + 1 ELSE at[t] + 3
  PROVE  Preserved(at, bt, t)
<1> DEFINE n == at[t]
           m == bt[t]
           o == reg[t]
           r == reg'[t]
<1>1. n \in FindAt /\ (m = IF store.ids[o.id] # None THEN n + 1 ELSE n + 3) /\ Goes(at, bt, t) /\ UNCHANGED persistent
  BY DEF Accesses
<1>2. o \in Local /\ store \in Stores /\ log \in Logs
  BY LocalTyped
<1>3. /\ r = [o EXCEPT !.cur = store.ids[o.id]]
      /\ store' = store
      /\ log' = log
  <2>1. r = Registers("find", o, store, log) /\ store' = Changed("find", r, store) /\ log' = Logged("find", r, store, log)
    BY DEF Accesses
  <2> HIDE DEF n, m, o, r
  <2>2. r = [o EXCEPT !.cur = store.ids[o.id]]
    BY <2>1 DEF Registers
  <2>3. store' = store
    BY <2>1 DEF Changed
  <2>4. log' = log
    BY <2>1 DEF Logged
  <2> QED
    BY <2>2, <2>3, <2>4
<1>4. /\ SameCall(o, r) /\ r.old = o.old /\ r.slot = o.slot /\ r.cur = store.ids[o.id]
      /\ r.sparse = o.sparse /\ r.ok = o.ok /\ r.order = o.order
      /\ store' = store /\ log' = log
      /\ Kept(store'.slots, store.slots) /\ store.dead \subseteq store'.dead /\ store.sparse \subseteq store'.sparse
  BY <1>2, <1>3, KeptSame DEF Local, Stores, Logs, SameCall
<1>5. /\ Alone(at) /\ Held(at) /\ n \in GateReading /\ NoneAt(at, Excluding) /\ NoneAt(at, Replacing)
      /\ NoneAt(at, Unindexed) /\ NoneAt(at, Renumbering) /\ NoneAt(at, Cleared)
      /\ n \in Modifying /\ o.id \in Id
  <2>1. n \in GateReading
    BY <1>1 DEF GateReading, FindAt
  <2>2. n \in Modifying
    BY <1>1 DEF Modifying, OfSet, OfBatch, OfUpdate, OfDelete, FindAt
  <2>3. o.id \in Id
    BY <2>2, BusyId DEF Consistent
  <2>4. /\ NoneAt(at, Excluding) /\ NoneAt(at, Replacing)
        /\ NoneAt(at, Unindexed) /\ NoneAt(at, Renumbering) /\ NoneAt(at, Cleared)
    BY <2>1, Gated DEF Placed
  <2> QED
    BY <2>1, <2>2, <2>3, <2>4 DEF Placed
<1>6. /\ CalledPasses(n, m, o, r)
      /\ SlotPasses(n, m, o, r)
      /\ IdsPass(n, m, o, r)
      /\ EnginePasses(n, m, o, r)
      /\ IndexPasses(n, m, o, r)
      /\ CompactPasses(n, m, o, r)
      /\ MetaPasses(n, m, o, r)
      /\ SparsePasses(n, m, o, r)
      /\ LogPasses(n, m, o, r)
  <2> HIDE DEF n, m, o, r
  <2>1. CalledPasses(n, m, o, r)
    BY <1>1, <1>4 DEF CalledPasses, OfSet, OfBatch, OfUpdate, OfDelete, FindAt
  <2>2. SlotPasses(n, m, o, r)
    BY <1>1, <1>4 DEF SlotPasses, Burying, AfterPush, Deleted, FindAt
  <2>3. IdsPass(n, m, o, r)
    BY <1>1, <1>4 DEF IdsPass, Replacing, Burying, FindAt
  <2>4. EnginePasses(n, m, o, r)
    BY <1>1, <1>4 DEF EnginePasses, Replacing, Inserting, FindAt
  <2>5. IndexPasses(n, m, o, r)
    BY <1>1, <1>4 DEF IndexPasses, Unindexed, Indexing, FindAt
  <2>6. CompactPasses(n, m, o, r)
    BY <1>1, <1>4 DEF CompactPasses, Packed, Replacing, Emptied, Refilled, Exhumed, FindAt
  <2>7. MetaPasses(n, m, o, r)
    BY <1>1, <1>4 DEF MetaPasses, Unindexed, Unindexing, Rewriting, Indexing, FindAt
  <2>8. SparsePasses(n, m, o, r)
    BY <1>1, <1>4 DEF SparsePasses, Renumbering, Dropping, Placing, FindAt
  <2>9. LogPasses(n, m, o, r)
    BY <1>1, <1>4 DEF LogPasses, Cleared, Unlogged, LoggedFirst, FindAt
  <2> QED
    BY <2>1, <2>2, <2>3, <2>4, <2>5, <2>6, <2>7, <2>8, <2>9
<1>7. Consistent(bt)'
  <2>1. Called(bt)'
    BY <1>1, <1>4, <1>5, <1>6, CalledFrame DEF Consistent
  <2>2. OldFits(bt)'
    <3>1. /\ n \in LookedUp /\ m \notin Known /\ m \notin InPlace /\ (m \in Unknown => n \in Unknown)
          /\ m \in Carrying => store.ids[o.id] # None
      <4> HIDE DEF n, m, o, r
      <4> QED
        BY <1>1, <1>4 DEF Known, Unknown, InPlace, Carrying, LookedUp, FindAt
    <3>2. \A u \in Thread : u # t => bt[u] = at[u] /\ reg'[u] = reg[u]
      BY <1>1 DEF Goes
    <3>3. store.ids[o.id] # None => r.cur \in DOMAIN store.slots
      BY <1>4, <1>5, SMTT(30) DEF Consistent, IdsFit
    <3> QED
      BY <1>4, <3>1, <3>2, <3>3 DEF OldFits, Consistent, SameCall
  <2>3. SlotFits(bt)'
    BY <1>1, <1>4, <1>5, <1>6, SlotFrame, SMTT(30) DEF Consistent
  <2>4. IdsFit(bt)'
    BY <1>1, <1>4, <1>5, <1>6, IdsFrame, SMTT(30) DEF Consistent
  <2>5. InEngine(bt)'
    BY <1>1, <1>4, <1>5, <1>6, EngineFrame, SMTT(30) DEF Consistent
  <2>6. Indexed(bt)'
    BY <1>1, <1>4, <1>5, <1>6, IndexFrame, SMTT(30) DEF Consistent
  <2>7. Compacting(bt)'
    BY <1>1, <1>4, <1>5, <1>6, CompactFrame DEF Consistent
  <2> QED
    BY <2>1, <2>2, <2>3, <2>4, <2>5, <2>6, <2>7, SMTT(30) DEF Consistent
<1>8. ASSUME Unraced(at)
      PROVE  Unraced(bt)'
  <2>1. Apart(bt)'
    BY <1>1, <1>4, <1>5, <1>6, <1>8, ApartFrame DEF Unraced, Consistent
  <2>2. Sole(bt)'
    <3>1. /\ n \in Finding /\ m \notin AfterPush /\ m \notin Deleted /\ m \notin Deciding
      <4> HIDE DEF n, m, o, r
      <4> QED
        BY <1>1, <1>4 DEF Finding, AfterPush, Deleted, Deciding, FindAt
    <3>2. \A u \in Thread : u # t => bt[u] = at[u] /\ reg'[u] = reg[u]
      BY <1>1 DEF Goes
    <3>3. Sole(at)
      BY <1>8 DEF Unraced
    <3>4. store.ids[o.id] = o.old
      BY <3>1, <3>3 DEF Sole
    <3> QED
      BY <1>4, <3>1, <3>2, <3>3, <3>4 DEF Sole, SameCall
  <2>3. Carried(bt)'
    <3>1. /\ n \in Finding /\ n \in Plain /\ m \notin Landed /\ m \notin Relocating /\ (m \in Laden => store.ids[o.id] = None)
      <4> HIDE DEF n, m, o, r
      <4> QED
        BY <1>1, <1>4 DEF Finding, Plain, Landed, Relocating, Laden, FindAt
    <3>2. \A u \in Thread : u # t => bt[u] = at[u] /\ reg'[u] = reg[u]
      BY <1>1 DEF Goes
    <3>3. Sole(at) /\ Carried(at)
      BY <1>8 DEF Unraced
    <3>4. store.ids[o.id] = o.old /\ ~o.sparse
      BY <3>1, <3>3, SMTT(30) DEF Sole, Carried
    <3> QED
      BY <1>2, <1>4, <3>1, <3>2, <3>3, <3>4 DEF Carried, CarriesSparse, Local
  <2>4. MetaExact(bt)'
    BY <1>1, <1>4, <1>5, <1>6, <1>8, MetaFrame, SMTT(30) DEF Unraced, Consistent
  <2>5. SparseExact(bt)'
    BY <1>1, <1>4, <1>5, <1>6, <1>8, SparseFrame, SMTT(30) DEF Unraced, Consistent
  <2>6. LogExact(bt)'
    BY <1>1, <1>4, <1>5, <1>6, <1>8, LogFrame DEF Unraced, Consistent
  <2> QED
    BY <2>1, <2>2, <2>3, <2>4, <2>5, <2>6, SMTT(30) DEF Unraced
<1>9. r \in Local /\ store' \in Stores /\ log' \in Logs
  <2>2. store.ids[o.id] \in Nat \cup {None}
    BY <1>2, <1>5 DEF Stores
  <2>3. r \in Local
    <3> HIDE DEF o, r
    <3> QED
      BY <1>2, <1>3, <2>2 DEF Local
  <2> QED
    BY <1>2, <1>3, <2>3
<1> QED
  BY <1>7, <1>8, <1>9 DEF Preserved

\* It carries the sparse vector over.
LEMMA CarryKeeps ==
  ASSUME Typed, NEW at, NEW bt, NEW t \in Thread, Placed(at), Consistent(at),
         Accesses(at, bt, t, "carry"), at[t] \in CarryAt, bt[t] = at[t] + 1
  PROVE  Preserved(at, bt, t)
<1> DEFINE n == at[t]
           m == bt[t]
           o == reg[t]
           r == reg'[t]
<1>1. n \in CarryAt /\ m = n + 1 /\ Goes(at, bt, t) /\ UNCHANGED persistent
  BY DEF Accesses
<1>2. o \in Local /\ store \in Stores /\ log \in Logs
  BY LocalTyped
<1>3. /\ r = [o EXCEPT !.sparse = store.slots[o.cur].sparse]
      /\ store' = store
      /\ log' = log
  <2>1. r = Registers("carry", o, store, log) /\ store' = Changed("carry", r, store) /\ log' = Logged("carry", r, store, log)
    BY DEF Accesses
  <2> HIDE DEF n, m, o, r
  <2>2. r = [o EXCEPT !.sparse = store.slots[o.cur].sparse]
    BY <2>1 DEF Registers
  <2>3. store' = store
    BY <2>1 DEF Changed
  <2>4. log' = log
    BY <2>1 DEF Logged
  <2> QED
    BY <2>2, <2>3, <2>4
<1>4. /\ SameCall(o, r) /\ r.old = o.old /\ r.slot = o.slot /\ r.cur = o.cur
      /\ r.sparse = store.slots[o.cur].sparse /\ r.ok = o.ok /\ r.order = o.order
      /\ store' = store /\ log' = log
      /\ Kept(store'.slots, store.slots) /\ store.dead \subseteq store'.dead /\ store.sparse \subseteq store'.sparse
  BY <1>2, <1>3, KeptSame DEF Local, Stores, Logs, SameCall
<1>5. /\ Alone(at) /\ Held(at) /\ n \in GateReading /\ NoneAt(at, Excluding) /\ NoneAt(at, Replacing)
      /\ NoneAt(at, Unindexed) /\ NoneAt(at, Renumbering) /\ NoneAt(at, Cleared)
      /\ n \in Modifying /\ o.id \in Id
  <2>1. n \in GateReading
    BY <1>1 DEF GateReading, CarryAt
  <2>2. n \in Modifying
    BY <1>1 DEF Modifying, OfSet, OfBatch, OfUpdate, OfDelete, CarryAt
  <2>3. o.id \in Id
    BY <2>2, BusyId DEF Consistent
  <2>4. /\ NoneAt(at, Excluding) /\ NoneAt(at, Replacing)
        /\ NoneAt(at, Unindexed) /\ NoneAt(at, Renumbering) /\ NoneAt(at, Cleared)
    BY <2>1, Gated DEF Placed
  <2> QED
    BY <2>1, <2>2, <2>3, <2>4 DEF Placed
<1>6. /\ CalledPasses(n, m, o, r)
      /\ OldPasses(n, m, o, r)
      /\ SlotPasses(n, m, o, r)
      /\ IdsPass(n, m, o, r)
      /\ EnginePasses(n, m, o, r)
      /\ IndexPasses(n, m, o, r)
      /\ CompactPasses(n, m, o, r)
      /\ SolePasses(n, m, o, r)
      /\ MetaPasses(n, m, o, r)
      /\ SparsePasses(n, m, o, r)
      /\ LogPasses(n, m, o, r)
  <2> HIDE DEF n, m, o, r
  <2>1. CalledPasses(n, m, o, r)
    BY <1>1, <1>4 DEF CalledPasses, OfSet, OfBatch, OfUpdate, OfDelete, CarryAt
  <2>2. OldPasses(n, m, o, r)
    BY <1>1, <1>4 DEF OldPasses, LookedUp, Known, Unknown, InPlace, Carrying, CarryAt
  <2>3. SlotPasses(n, m, o, r)
    BY <1>1, <1>4 DEF SlotPasses, Burying, AfterPush, Deleted, CarryAt
  <2>4. IdsPass(n, m, o, r)
    BY <1>1, <1>4 DEF IdsPass, Replacing, Burying, CarryAt
  <2>5. EnginePasses(n, m, o, r)
    BY <1>1, <1>4 DEF EnginePasses, Replacing, Inserting, CarryAt
  <2>6. IndexPasses(n, m, o, r)
    BY <1>1, <1>4 DEF IndexPasses, Unindexed, Indexing, CarryAt
  <2>7. CompactPasses(n, m, o, r)
    BY <1>1, <1>4 DEF CompactPasses, Packed, Replacing, Emptied, Refilled, Exhumed, CarryAt
  <2>8. SolePasses(n, m, o, r)
    BY <1>1, <1>4 DEF SolePasses, Finding, Carrying, AfterPush, Deleted, Deciding, CarryAt
  <2>9. MetaPasses(n, m, o, r)
    BY <1>1, <1>4 DEF MetaPasses, Unindexed, Unindexing, Rewriting, Indexing, CarryAt
  <2>10. SparsePasses(n, m, o, r)
    BY <1>1, <1>4 DEF SparsePasses, Renumbering, Dropping, Placing, CarryAt
  <2>11. LogPasses(n, m, o, r)
    BY <1>1, <1>4 DEF LogPasses, Cleared, Unlogged, LoggedFirst, CarryAt
  <2> QED
    BY <2>1, <2>2, <2>3, <2>4, <2>5, <2>6, <2>7, <2>8, <2>9, <2>10, <2>11
<1>7. Consistent(bt)'
  <2>1. Called(bt)'
    BY <1>1, <1>4, <1>5, <1>6, CalledFrame DEF Consistent
  <2>2. OldFits(bt)'
    BY <1>1, <1>4, <1>5, <1>6, OldFrame DEF Consistent
  <2>3. SlotFits(bt)'
    BY <1>1, <1>4, <1>5, <1>6, SlotFrame DEF Consistent
  <2>4. IdsFit(bt)'
    BY <1>1, <1>4, <1>5, <1>6, IdsFrame DEF Consistent
  <2>5. InEngine(bt)'
    BY <1>1, <1>4, <1>5, <1>6, EngineFrame DEF Consistent
  <2>6. Indexed(bt)'
    BY <1>1, <1>4, <1>5, <1>6, IndexFrame DEF Consistent
  <2>7. Compacting(bt)'
    BY <1>1, <1>4, <1>5, <1>6, CompactFrame DEF Consistent
  <2> QED
    BY <2>1, <2>2, <2>3, <2>4, <2>5, <2>6, <2>7 DEF Consistent
<1>8. ASSUME Unraced(at)
      PROVE  Unraced(bt)'
  <2>1. Apart(bt)'
    BY <1>1, <1>4, <1>5, <1>6, <1>8, ApartFrame DEF Unraced, Consistent
  <2>2. Sole(bt)'
    BY <1>1, <1>4, <1>5, <1>6, <1>8, SoleFrame, SMTT(30) DEF Unraced, Consistent
  <2>3. Carried(bt)'
    <3>1. n \in Carrying /\ m \notin Plain /\ m \notin Landed /\ m \notin Relocating
      <4> HIDE DEF n, m, o, r
      <4> QED
        BY <1>1, <1>4 DEF Carrying, Plain, Landed, Relocating, CarryAt
    <3>2. \A u \in Thread : u # t => bt[u] = at[u] /\ reg'[u] = reg[u]
      BY <1>1 DEF Goes
    <3>3. Sole(at) /\ Carried(at)
      BY <1>8 DEF Unraced
    <3>4. o.cur = o.old /\ o.cur \in DOMAIN store.slots
      BY <3>1, <3>3 DEF Sole, Consistent, OldFits
    <3>5. o.old # None
      BY <1>2, <3>4, ConcurrencyAssumption DEF Stores
    <3>6. store.slots[o.cur].sparse \in BOOLEAN
      BY <1>2, <3>4, SlotTyped
    <3>7. r.sparse = (r.old # None /\ store'.slots[r.old].sparse)
      BY <1>4, <3>4, <3>5, <3>6
    <3>8. \A u \in Thread : u # t => (CarriesSparse(reg[u])' <=> CarriesSparse(reg[u]))
      BY <1>4, <3>2 DEF CarriesSparse
    <3> QED
      BY <1>4, <3>1, <3>2, <3>3, <3>7, <3>8 DEF Carried, CarriesSparse
  <2>4. MetaExact(bt)'
    BY <1>1, <1>4, <1>5, <1>6, <1>8, MetaFrame DEF Unraced, Consistent
  <2>5. SparseExact(bt)'
    BY <1>1, <1>4, <1>5, <1>6, <1>8, SparseFrame DEF Unraced, Consistent
  <2>6. LogExact(bt)'
    BY <1>1, <1>4, <1>5, <1>6, <1>8, LogFrame DEF Unraced, Consistent
  <2> QED
    BY <2>1, <2>2, <2>3, <2>4, <2>5, <2>6 DEF Unraced
<1>9. r \in Local /\ store' \in Stores /\ log' \in Logs
  <2>1. n \in Carrying
    BY <1>1 DEF CarryAt, Carrying
  <2>2. store.slots[o.cur].sparse \in BOOLEAN
    BY <1>2, <2>1, SlotTyped DEF Consistent, OldFits
  <2>3. r \in Local
    <3> HIDE DEF o, r
    <3> QED
      BY <1>2, <1>3, <2>2 DEF Local
  <2> QED
    BY <1>2, <1>3, <2>3
<1> QED
  BY <1>7, <1>8, <1>9 DEF Preserved

\* It buries the slot that the id has.
LEMMA BuryKeeps ==
  ASSUME Typed, NEW at, NEW bt, NEW t \in Thread, Placed(at), Consistent(at),
         Accesses(at, bt, t, "bury"), at[t] \in BuryAt, bt[t] = at[t] + 1
  PROVE  Preserved(at, bt, t)
<1> DEFINE n == at[t]
           m == bt[t]
           o == reg[t]
           r == reg'[t]
<1>1. n \in BuryAt /\ m = n + 1 /\ Goes(at, bt, t) /\ UNCHANGED persistent
  BY DEF Accesses
<1>2. o \in Local /\ store \in Stores /\ log \in Logs
  BY LocalTyped
<1>3. /\ r = o
      /\ store' = [store EXCEPT !.dead = @ \cup ({store.ids[r.id]} \ {None})]
      /\ log' = log
  <2>1. r = Registers("bury", o, store, log) /\ store' = Changed("bury", r, store) /\ log' = Logged("bury", r, store, log)
    BY DEF Accesses
  <2> HIDE DEF n, m, o, r
  <2>2. r = o
    BY <2>1 DEF Registers
  <2>3. store' = [store EXCEPT !.dead = @ \cup ({store.ids[r.id]} \ {None})]
    BY <2>1 DEF Changed
  <2>4. log' = log
    BY <2>1 DEF Logged
  <2> QED
    BY <2>2, <2>3, <2>4
<1>4. /\ SameCall(o, r) /\ r = o
      /\ store'.ids = store.ids /\ store'.slots = store.slots /\ store'.engine = store.engine
      /\ store'.meta = store.meta /\ store'.sparse = store.sparse
      /\ store'.dead = store.dead \cup ({store.ids[o.id]} \ {None})
      /\ log' = log
      /\ Kept(store'.slots, store.slots) /\ store.dead \subseteq store'.dead /\ store.sparse \subseteq store'.sparse
  BY <1>2, <1>3, KeptSame DEF Local, Stores, Logs, SameCall
<1>5. /\ Alone(at) /\ Held(at) /\ n \in GateReading /\ NoneAt(at, Excluding) /\ NoneAt(at, Replacing)
      /\ NoneAt(at, Unindexed) /\ NoneAt(at, Renumbering) /\ NoneAt(at, Cleared)
      /\ n \in Modifying /\ o.id \in Id
  <2>1. n \in GateReading
    BY <1>1 DEF GateReading, BuryAt
  <2>2. n \in Modifying
    BY <1>1 DEF Modifying, OfSet, OfBatch, OfUpdate, OfDelete, BuryAt
  <2>3. o.id \in Id
    BY <2>2, BusyId DEF Consistent
  <2>4. /\ NoneAt(at, Excluding) /\ NoneAt(at, Replacing)
        /\ NoneAt(at, Unindexed) /\ NoneAt(at, Renumbering) /\ NoneAt(at, Cleared)
    BY <2>1, Gated DEF Placed
  <2> QED
    BY <2>1, <2>2, <2>3, <2>4 DEF Placed
<1>6. /\ CalledPasses(n, m, o, r)
      /\ OldPasses(n, m, o, r)
      /\ EnginePasses(n, m, o, r)
      /\ IndexPasses(n, m, o, r)
      /\ CompactPasses(n, m, o, r)
      /\ SolePasses(n, m, o, r)
      /\ LogPasses(n, m, o, r)
  <2> HIDE DEF n, m, o, r
  <2>1. CalledPasses(n, m, o, r)
    BY <1>1, <1>4 DEF CalledPasses, OfSet, OfBatch, OfUpdate, OfDelete, BuryAt
  <2>2. OldPasses(n, m, o, r)
    BY <1>1, <1>4 DEF OldPasses, LookedUp, Known, Unknown, InPlace, Carrying, BuryAt
  <2>3. EnginePasses(n, m, o, r)
    BY <1>1, <1>4 DEF EnginePasses, Replacing, Inserting, BuryAt
  <2>4. IndexPasses(n, m, o, r)
    BY <1>1, <1>4 DEF IndexPasses, Unindexed, Indexing, BuryAt
  <2>5. CompactPasses(n, m, o, r)
    BY <1>1, <1>4 DEF CompactPasses, Packed, Replacing, Emptied, Refilled, Exhumed, BuryAt
  <2>6. SolePasses(n, m, o, r)
    BY <1>1, <1>4 DEF SolePasses, Finding, Carrying, AfterPush, Deleted, Deciding, BuryAt
  <2>7. LogPasses(n, m, o, r)
    BY <1>1, <1>4 DEF LogPasses, Cleared, Unlogged, LoggedFirst, BuryAt
  <2> QED
    BY <2>1, <2>2, <2>3, <2>4, <2>5, <2>6, <2>7
<1>7. \A u \in Thread : u # t => bt[u] = at[u] /\ reg'[u] = reg[u]
  BY <1>1 DEF Goes
<1>8. n \in Finding \ Burying /\ m \in Burying /\ m \notin AfterPush /\ m \notin Deleted
  <2> HIDE DEF n, m, o, r
  <2> QED
    BY <1>1, <1>4 DEF Finding, Burying, AfterPush, Deleted, BuryAt
<1>9. store.ids[o.id] # None => /\ store.ids[o.id] \in DOMAIN store.slots
                                /\ store.slots[store.ids[o.id]].id = o.id
  BY <1>5 DEF Consistent, IdsFit
<1>10. ASSUME Unraced(at)
       PROVE  /\ store.ids[o.id] = o.old
              /\ \A k \in store'.dead \ store.dead : /\ k = o.old /\ o.old # None /\ k \in LiveIn(store)
                                                   /\ m \in Unindexing /\ m \in Dropping
  <2>1. store.ids[o.id] = o.old
    BY <1>8, <1>10 DEF Unraced, Sole
  <2>2. o.old # None => o.old \in LiveIn(store)
    BY <1>5, <1>8, <1>10, <2>1, NotBuried DEF Unraced, Consistent
  <2>3. o.old # None => n \notin Unknown
    BY DEF Consistent, OldFits
  <2>4. n \notin Unknown => m \in Unindexing /\ m \in Dropping
    <3> HIDE DEF n, m, o, r
    <3> QED
      BY <1>1 DEF Unknown, Unindexing, Dropping, BuryAt
  <2> QED
    BY <1>4, <2>1, <2>2, <2>3, <2>4
<1>11. Consistent(bt)'
  <2>1. Called(bt)'
    BY <1>1, <1>4, <1>5, <1>6, CalledFrame DEF Consistent
  <2>2. OldFits(bt)'
    BY <1>1, <1>4, <1>5, <1>6, OldFrame DEF Consistent
  <2>3. SlotFits(bt)'
    <3>1. Kept(store'.slots, store.slots)
      BY <1>4
    <3> QED
      BY <1>4, <1>7, <1>8 DEF Consistent, SlotFits
  <2>4. IdsFit(bt)'
    <3>1. store'.dead \subseteq DOMAIN store'.slots
      BY <1>4, <1>5, <1>9 DEF Consistent, IdsFit
    <3>2. ASSUME NEW i \in Id, store'.ids[i] # None
          PROVE  /\ store'.ids[i] \in DOMAIN store'.slots
                 /\ store'.slots[store'.ids[i]].id = i
                 /\ store'.ids[i] \in store'.dead => \E u \in Thread : bt[u] \in Burying /\ reg'[u].id = i
      <4>1. /\ store.ids[i] \in DOMAIN store.slots /\ store.slots[store.ids[i]].id = i
            /\ store.ids[i] \in store.dead => \E u \in Thread : at[u] \in Burying /\ reg[u].id = i
        BY <1>4, <1>5, <3>2 DEF Consistent, IdsFit
      <4>2. CASE store.ids[i] \in store.dead
        <5>1. PICK u \in Thread : at[u] \in Burying /\ reg[u].id = i
          BY <4>1, <4>2
        <5>2. bt[u] \in Burying /\ reg'[u].id = i
          BY <1>7, <1>8, <5>1
        <5> QED
          BY <1>4, <4>1, <5>2
      <4>3. CASE store.ids[i] \notin store.dead
        <5>1. store'.ids[i] \in store'.dead => i = o.id
          BY <1>4, <1>9, <4>1, <4>3
        <5>2. bt[t] \in Burying /\ reg'[t].id = o.id
          BY <1>4, <1>8
        <5> QED
          BY <1>4, <4>1, <5>1, <5>2
      <4> QED
        BY <4>2, <4>3
    <3>3. \A k \in LiveIn(store)' : store'.ids[store'.slots[k].id] = k
      BY <1>4, <1>5 DEF Consistent, IdsFit, LiveIn
    <3> QED
      BY <3>1, <3>2, <3>3 DEF IdsFit
  <2>5. InEngine(bt)'
    BY <1>1, <1>4, <1>5, <1>6, EngineFrame DEF Consistent
  <2>6. Indexed(bt)'
    BY <1>1, <1>4, <1>5, <1>6, IndexFrame DEF Consistent
  <2>7. Compacting(bt)'
    BY <1>1, <1>4, <1>5, <1>6, CompactFrame DEF Consistent
  <2> QED
    BY <2>1, <2>2, <2>3, <2>4, <2>5, <2>6, <2>7 DEF Consistent
<1>12. ASSUME Unraced(at)
       PROVE  Unraced(bt)'
  <2>1. Apart(bt)'
    BY <1>1, <1>4, <1>5, <1>6, <1>12, ApartFrame DEF Unraced, Consistent
  <2>2. Sole(bt)'
    BY <1>1, <1>4, <1>5, <1>6, <1>12, SoleFrame DEF Unraced, Consistent
  <2>3. Carried(bt)'
    <3>1. /\ m \notin Plain /\ m \notin Landed /\ (m \in Laden => n \in Laden)
      <4> HIDE DEF n, m, o, r
      <4> QED
        BY <1>1, <1>4 DEF Plain, Landed, Laden, BuryAt
    <3>2. Carried(at) /\ SparseExact(at) /\ Sole(at) /\ Apart(at)
      BY <1>12 DEF Unraced
    <3>3. ASSUME o.old # None, store.slots[o.old].sparse
          PROVE  o.old \in store.sparse
      <4>1. o.old \in LiveIn(store)
        BY <1>5, <1>12, <1>8, <1>10, <3>3, NotBuried DEF Unraced, Consistent
      <4>2. \/ o.old \in store.sparse
            \/ \E u \in Thread : at[u] \in Placing /\ reg[u].slot = o.old
        BY <1>5, <3>2, <3>3, <4>1 DEF SparseExact
      <4>3. ASSUME NEW u \in Thread, at[u] \in Placing, reg[u].slot = o.old
            PROVE  FALSE
        <5>1. at[u] \in AfterPush /\ at[u] \in Modifying
          BY <4>3, ModifyingPoints
        <5>2. reg[u].id = o.id
          BY <1>9, <1>10, <1>12, <3>3, <4>3, <5>1 DEF Consistent, SlotFits
        <5>3. u = t
          BY <1>5, <3>2, <5>1, <5>2, Apartness DEF Consistent
        <5>4. n \notin Placing
          <6> HIDE DEF n, m, o, r
          <6> QED
            BY <1>1 DEF Placing, BuryAt
        <5> QED
          BY <4>3, <5>3, <5>4
      <4> QED
        BY <4>2, <4>3
    <3> QED
      BY <1>4, <1>7, <3>1, <3>2, <3>3 DEF Carried, CarriesSparse
  <2>4. MetaExact(bt)'
    <3>1. \A k \in store'.dead \ store.dead : \E u \in Thread : bt[u] \in Unindexing /\ reg'[u].old = k
      BY <1>4, <1>12, <1>10
    <3>2. MetaPasses(n, m, o, r)
      <4> HIDE DEF n, m, o, r
      <4> QED
        BY <1>1, <1>4 DEF MetaPasses, Unindexed, Unindexing, Rewriting, Indexing, BuryAt
    <3> QED
      BY <1>1, <1>4, <1>12, <3>1, <3>2, MetaBuried DEF Unraced
  <2>5. SparseExact(bt)'
    <3>1. \A k \in store'.dead \ store.dead : \E u \in Thread : bt[u] \in Dropping /\ reg'[u].old = k
      BY <1>4, <1>12, <1>10
    <3>2. SparsePasses(n, m, o, r)
      <4> HIDE DEF n, m, o, r
      <4> QED
        BY <1>1, <1>4 DEF SparsePasses, Renumbering, Dropping, Placing, BuryAt
    <3> QED
      BY <1>1, <1>4, <1>12, <3>1, <3>2, SparseBuried DEF Unraced
  <2>6. LogExact(bt)'
    BY <1>1, <1>4, <1>5, <1>6, <1>12, LogFrame DEF Unraced, Consistent
  <2> QED
    BY <2>1, <2>2, <2>3, <2>4, <2>5, <2>6 DEF Unraced
<1>13. r \in Local /\ store' \in Stores /\ log' \in Logs
  <2>1. store'.dead \in SUBSET Nat
    BY <1>2, <1>4, <1>5 DEF Stores
  <2>2. store' \in Stores
    BY <1>2, <1>3, <2>1 DEF Stores
  <2> QED
    BY <1>2, <1>3, <2>2
<1> QED
  BY <1>11, <1>12, <1>13 DEF Preserved

\* It pushes a new slot, and points the id to it.
LEMMA PushKeeps ==
  ASSUME Typed, NEW at, NEW bt, NEW t \in Thread, Placed(at), Consistent(at),
         Accesses(at, bt, t, "push"), at[t] \in PushAt, bt[t] = at[t] + 1
  PROVE  Preserved(at, bt, t)
<1> DEFINE n == at[t]
           m == bt[t]
           o == reg[t]
           r == reg'[t]
<1>1. n \in PushAt /\ m = n + 1 /\ Goes(at, bt, t) /\ UNCHANGED persistent
  BY DEF Accesses
<1>2. o \in Local /\ store \in Stores /\ log \in Logs
  BY LocalTyped
<1>3. /\ r = [o EXCEPT !.slot = Len(store.slots) + 1]
      /\ store' = [store EXCEPT !.slots = Append(@, Pushed(r)), !.ids[r.id] = Len(store.slots) + 1]
      /\ log' = IF r.call = "set_batch" THEN [log EXCEPT !.whole = FALSE] ELSE log
  <2>1. r = Registers("push", o, store, log) /\ store' = Changed("push", r, store) /\ log' = Logged("push", r, store, log)
    BY DEF Accesses
  <2> HIDE DEF n, m, o, r
  <2>2. r = [o EXCEPT !.slot = Len(store.slots) + 1]
    BY <2>1 DEF Registers
  <2>3. store' = [store EXCEPT !.slots = Append(@, Pushed(r)), !.ids[r.id] = Len(store.slots) + 1]
    BY <2>1 DEF Changed
  <2>4. log' = IF r.call = "set_batch" THEN [log EXCEPT !.whole = FALSE] ELSE log
    BY <2>1 DEF Logged
  <2> QED
    BY <2>2, <2>3, <2>4
<1>4. /\ SameCall(o, r) /\ r.old = o.old /\ r.slot = Len(store.slots) + 1 /\ r.cur = o.cur
      /\ r.sparse = o.sparse /\ r.ok = o.ok /\ r.order = o.order
      /\ store'.ids = [store.ids EXCEPT ![o.id] = Len(store.slots) + 1]
      /\ store'.slots = Append(store.slots, Pushed(r)) /\ store'.engine = store.engine
      /\ store'.meta = store.meta /\ store'.sparse = store.sparse /\ store'.dead = store.dead
  BY <1>2, <1>3 DEF Local, Stores, Logs, SameCall
<1>5. /\ Alone(at) /\ Held(at) /\ n \in GateReading /\ NoneAt(at, Excluding) /\ NoneAt(at, Replacing)
      /\ NoneAt(at, Unindexed) /\ NoneAt(at, Renumbering) /\ NoneAt(at, Cleared)
      /\ n \in Modifying /\ o.id \in Id
  <2>1. n \in GateReading
    BY <1>1 DEF GateReading, PushAt
  <2>2. n \in Modifying
    BY <1>1 DEF Modifying, OfSet, OfBatch, OfUpdate, OfDelete, PushAt
  <2>3. o.id \in Id
    BY <2>2, BusyId DEF Consistent
  <2>4. /\ NoneAt(at, Excluding) /\ NoneAt(at, Replacing)
        /\ NoneAt(at, Unindexed) /\ NoneAt(at, Renumbering) /\ NoneAt(at, Cleared)
    BY <2>1, Gated DEF Placed
  <2> QED
    BY <2>1, <2>2, <2>3, <2>4 DEF Placed
<1>6. /\ CalledPasses(n, m, o, r)
      /\ CompactPasses(n, m, o, r)
  <2> HIDE DEF n, m, o, r
  <2>1. CalledPasses(n, m, o, r)
    BY <1>1, <1>4 DEF CalledPasses, OfSet, OfBatch, OfUpdate, OfDelete, PushAt
  <2>2. CompactPasses(n, m, o, r)
    BY <1>1, <1>4 DEF CompactPasses, Packed, Replacing, Emptied, Refilled, Exhumed, PushAt
  <2> QED
    BY <2>1, <2>2
<1>7. \A u \in Thread : u # t => bt[u] = at[u] /\ reg'[u] = reg[u]
  BY <1>1 DEF Goes
<1> DEFINE k == Len(store.slots) + 1
<1>8. /\ k \in Nat /\ k \notin DOMAIN store.slots /\ DOMAIN store'.slots = DOMAIN store.slots \cup {k}
      /\ \A j \in DOMAIN store.slots : store'.slots[j] = store.slots[j]
      /\ store'.slots[k] = Pushed(r)
      /\ store'.slots[k].id = o.id /\ store'.slots[k].meta = o.n /\ store'.slots[k].sparse = o.sparse
  <2>1. store.slots \in Seq(SlotRecord)
    BY <1>2 DEF Stores
  <2>2. Pushed(r).id = o.id /\ Pushed(r).meta = o.n /\ Pushed(r).sparse = o.sparse
    BY <1>4 DEF Pushed, SameCall
  <2> HIDE DEF n, m, o, r
  <2> QED
    BY <1>4, <2>1, <2>2
<1>9. \A i \in Id : store'.ids[i] = IF i = o.id THEN k ELSE store.ids[i]
  <2>1. store.ids \in [Id -> Nat \cup {None}]
    BY <1>2 DEF Stores
  <2> QED
    BY <1>4, <1>5, <2>1
<1> HIDE DEF k
<1>10. r.slot = k
  BY <1>4 DEF k
<1>11. n \in Burying /\ m \in AfterPush /\ m \notin Burying /\ m \notin Deleted /\ m \in Inserting /\ m \in Indexing
  <2> HIDE DEF n, m, o, r
  <2> QED
    BY <1>1, <1>4 DEF Burying, AfterPush, Deleted, Inserting, Indexing, PushAt
<1>12. \A u \in Thread : at[u] \in Burying => u = t
  BY <1>5, <1>11, OneBuries
<1>13. Kept(store'.slots, store.slots)
  BY <1>8 DEF Kept
<1>14. LiveIn(store)' = LiveIn(store) \cup {k} /\ k \notin store.dead
  BY <1>4, <1>5, <1>8 DEF LiveIn, Consistent, IdsFit
<1>15. \A j \in LiveIn(store) : store.slots[j].id # o.id /\ j \in DOMAIN store.slots /\ j # k /\ j # None
  <2> SUFFICES ASSUME NEW j \in LiveIn(store)
               PROVE  store.slots[j].id # o.id /\ j \in DOMAIN store.slots /\ j # k /\ j # None
    OBVIOUS
  <2>1. j \in DOMAIN store.slots /\ j \notin store.dead
    BY DEF LiveIn
  <2>2. j # None
    BY <1>2, <2>1, SlotTyped, ConcurrencyAssumption
  <2>3. store.ids[store.slots[j].id] = j
    BY <1>5 DEF Consistent, IdsFit
  <2>4. store.ids[o.id] # None => store.ids[o.id] \in store.dead
    BY <1>11 DEF Consistent, SlotFits
  <2> QED
    BY <1>8, <2>1, <2>2, <2>3, <2>4
<1>16. k # None
  BY <1>8, ConcurrencyAssumption
<1>17. /\ n \in LookedUp /\ n \in Laden /\ m \notin Finding /\ m \notin Carrying /\ m \notin Plain
       /\ m \notin Laden /\ m \notin Deciding /\ n \notin Inserting /\ n \notin Indexing
       /\ (m \in Relocating => n \in Relocating) /\ (n \in Unindexing => m \in Unindexing)
       /\ n \notin Rewriting /\ m \notin Rewriting /\ m \notin Renumbering
       /\ n \notin Placing /\ (m \in Placing \/ n \in Unknown)
  <2> HIDE DEF n, m, o, r
  <2>1. /\ n \in LookedUp /\ n \in Laden /\ m \notin Finding /\ m \notin Carrying /\ m \notin Plain
        /\ m \notin Laden /\ m \notin Deciding /\ n \notin Inserting /\ n \notin Indexing
    BY <1>1 DEF LookedUp, Laden, Finding, Carrying, Plain, Deciding, Inserting, Indexing, PushAt
  <2>2. /\ (m \in Relocating => n \in Relocating) /\ (n \in Unindexing => m \in Unindexing)
        /\ n \notin Rewriting /\ m \notin Rewriting /\ m \notin Renumbering
        /\ n \notin Placing /\ (m \in Placing \/ n \in Unknown)
    BY <1>1 DEF Relocating, Unindexing, Rewriting, Renumbering, Placing, Unknown, PushAt
  <2> QED
    BY <2>1, <2>2
<1>18. n \in Dropping => m \in Dropping
  <2> HIDE DEF n, m, o, r
  <2> QED
    BY <1>1 DEF Dropping, PushAt
<1>19. Consistent(bt)'
  <2>1. Called(bt)'
    BY <1>1, <1>4, <1>5, <1>6, CalledFrame DEF Consistent
  <2>2. OldFits(bt)'
    <3>1. OldPasses(n, m, o, r)
      <4> HIDE DEF n, m, o, r
      <4> QED
        BY <1>1, <1>4 DEF OldPasses, LookedUp, Known, Unknown, InPlace, Carrying, PushAt
    <3> QED
      BY <1>1, <1>13, <3>1, OldFrame DEF Consistent
  <2>3. SlotFits(bt)'
    <3>1. o.old # None => o.old \in store.dead
      <4>1. o.old # None => o.old \in DOMAIN store.slots /\ store.slots[o.old].id = o.id
        BY <1>17 DEF Consistent, OldFits
      <4> QED
        BY <1>15, <4>1 DEF LiveIn
    <3>2. ASSUME NEW u \in Thread
          PROVE  /\ bt[u] \notin Burying
                 /\ bt[u] \in AfterPush => /\ reg'[u].slot \in DOMAIN store'.slots
                                           /\ store'.slots[reg'[u].slot].id = reg'[u].id
                                           /\ (reg'[u].old # None => reg'[u].old \in store'.dead)
                 /\ bt[u] \in Deleted => reg'[u].old \in store'.dead
      <4>1. CASE u = t
        BY <1>4, <1>8, <1>10, <1>11, <3>1, <4>1 DEF SameCall
      <4>2. CASE u # t
        BY <1>4, <1>7, <1>8, <1>12, <4>2 DEF Consistent, SlotFits
      <4> QED
        BY <4>1, <4>2
    <3> QED
      BY <3>2 DEF SlotFits
  <2>4. IdsFit(bt)'
    <3>1. store'.dead \subseteq DOMAIN store'.slots
      BY <1>4, <1>5, <1>8 DEF Consistent, IdsFit
    <3>2. ASSUME NEW i \in Id, store'.ids[i] # None
          PROVE  /\ store'.ids[i] \in DOMAIN store'.slots
                 /\ store'.slots[store'.ids[i]].id = i
                 /\ store'.ids[i] \notin store'.dead
      <4>1. CASE i = o.id
        BY <1>4, <1>8, <1>9, <1>14, <4>1
      <4>2. CASE i # o.id
        <5>1. /\ store.ids[i] \in DOMAIN store.slots /\ store.slots[store.ids[i]].id = i
              /\ store.ids[i] \in store.dead => \E u \in Thread : at[u] \in Burying /\ reg[u].id = i
          BY <1>5, <1>9, <3>2, <4>2 DEF Consistent, IdsFit
        <5>2. store.ids[i] \notin store.dead
          BY <1>12, <4>2, <5>1
        <5> QED
          BY <1>4, <1>8, <1>9, <4>2, <5>1, <5>2
      <4> QED
        BY <4>1, <4>2
    <3>3. ASSUME NEW j \in LiveIn(store)'
          PROVE  store'.ids[store'.slots[j].id] = j
      <4>1. CASE j = k
        BY <1>5, <1>8, <1>9, <4>1
      <4>2. CASE j \in LiveIn(store)
        <5>1. store.ids[store.slots[j].id] = j /\ store.slots[j].id \in Id
          BY <1>2, <1>5, <1>15, <4>2, SlotTyped DEF Consistent, IdsFit
        <5> QED
          BY <1>8, <1>9, <1>15, <4>2, <5>1
      <4> QED
        BY <1>14, <4>1, <4>2
    <3> QED
      BY <3>1, <3>2, <3>3 DEF IdsFit
  <2>5. InEngine(bt)'
    <3>1. ASSUME NEW j \in LiveIn(store)'
          PROVE  \/ store'.slots[j].val \in ToSet(store'.engine)
                 \/ \E u \in Thread : bt[u] \in Inserting /\ reg'[u].slot = j
      <4>1. CASE j = k
        BY <1>10, <1>11, <4>1
      <4>2. CASE j \in LiveIn(store)
        <5>1. \/ store.slots[j].val \in ToSet(store.engine)
              \/ \E u \in Thread : at[u] \in Inserting /\ reg[u].slot = j
          BY <1>5, <4>2 DEF Consistent, InEngine
        <5>2. store'.slots[j] = store.slots[j]
          BY <1>8, <1>15, <4>2
        <5> QED
          BY <1>4, <1>7, <1>17, <5>1, <5>2
      <4> QED
        BY <1>14, <4>1, <4>2
    <3> QED
      BY <1>4, <3>1 DEF InEngine, ToSet
  <2>6. Indexed(bt)'
    <3>1. ASSUME NEW j \in LiveIn(store)'
          PROVE  HasMeta(j)' \/ \E u \in Thread : bt[u] \in Indexing /\ reg'[u].slot = j
      <4>1. CASE j = k
        BY <1>10, <1>11, <4>1
      <4>2. CASE j \in LiveIn(store)
        BY <1>4, <1>5, <1>7, <1>17, <4>2 DEF Consistent, Indexed, HasMeta
      <4> QED
        BY <1>14, <4>1, <4>2
    <3> QED
      BY <3>1 DEF Indexed
  <2>7. Compacting(bt)'
    BY <1>1, <1>4, <1>5, <1>6, CompactFrame DEF Consistent
  <2> QED
    BY <2>1, <2>2, <2>3, <2>4, <2>5, <2>6, <2>7 DEF Consistent
<1>20. ASSUME Unraced(at)
       PROVE  Unraced(bt)'
  <2>1. Apart(bt)'
    BY <1>1, <1>4, <1>5, <1>6, <1>20, ApartFrame DEF Unraced, Consistent
  <2>2. Sole(bt)'
    <3>1. Sole(at) /\ Apart(at)
      BY <1>20 DEF Unraced
    <3>2. ASSUME NEW u \in Thread, u # t, at[u] \in Modifying
          PROVE  reg[u].id # o.id /\ reg[u].id \in Id
      BY <1>5, <3>1, <3>2, Apartness, BusyId DEF Consistent
    <3>3. ASSUME NEW u \in Thread
          PROVE  /\ bt[u] \in Finding => store'.ids[reg'[u].id] = reg'[u].old
                 /\ bt[u] \in Carrying => reg'[u].cur = reg'[u].old
                 /\ bt[u] \in AfterPush => /\ store'.ids[reg'[u].id] = reg'[u].slot
                                           /\ store'.slots[reg'[u].slot].meta = reg'[u].n
                 /\ bt[u] \in Deleted => store'.ids[reg'[u].id] = None
                 /\ bt[u] \in Deciding => reg'[u].ok
      <4>1. CASE u = t
        BY <1>4, <1>5, <1>8, <1>9, <1>10, <1>11, <1>17, <4>1 DEF SameCall
      <4>2. CASE u # t
        <5>1. bt[u] = at[u] /\ reg'[u] = reg[u]
          BY <1>7, <4>2
        <5>2. at[u] \in Modifying => store'.ids[reg[u].id] = store.ids[reg[u].id]
          BY <1>9, <3>2, <4>2
        <5>3. at[u] \in AfterPush => store'.slots[reg[u].slot] = store.slots[reg[u].slot]
          BY <1>8 DEF Consistent, SlotFits
        <5> QED
          BY <3>1, <5>1, <5>2, <5>3, ModifyingPoints DEF Sole
      <4> QED
        BY <4>1, <4>2
    <3> QED
      BY <3>3 DEF Sole
  <2>3. Carried(bt)'
    <3>1. Carried(at)
      BY <1>20 DEF Unraced
    <3>2. o.old # None => store'.slots[o.old] = store.slots[o.old]
      BY <1>8, <1>17 DEF Consistent, OldFits
    <3>3. ASSUME NEW u \in Thread
          PROVE  /\ bt[u] \in Plain => ~reg'[u].sparse
                 /\ bt[u] \in Laden => reg'[u].sparse = (reg'[u].old # None /\ store'.slots[reg'[u].old].sparse)
                 /\ bt[u] \in Landed => store'.slots[reg'[u].slot].sparse =
                                          (reg'[u].old # None /\ store'.slots[reg'[u].old].sparse)
                 /\ bt[u] \in Relocating /\ reg'[u].old # None =>
                      (store'.slots[reg'[u].old].sparse => reg'[u].old \in store'.sparse)
      <4>1. CASE u = t
        <5>1. o.sparse = (o.old # None /\ store.slots[o.old].sparse)
          BY <1>17, <3>1 DEF Carried, CarriesSparse
        <5>2. m \in Relocating /\ o.old # None => (store.slots[o.old].sparse => o.old \in store.sparse)
          BY <1>17, <3>1 DEF Carried
        <5> QED
          BY <1>4, <1>8, <1>10, <1>17, <3>2, <4>1, <5>1, <5>2
      <4>2. CASE u # t
        <5>1. bt[u] = at[u] /\ reg'[u] = reg[u]
          BY <1>7, <4>2
        <5>2. at[u] \in LookedUp /\ reg[u].old # None => store'.slots[reg[u].old] = store.slots[reg[u].old]
          BY <1>8 DEF Consistent, OldFits
        <5>3. at[u] \in AfterPush => store'.slots[reg[u].slot] = store.slots[reg[u].slot]
          BY <1>8 DEF Consistent, SlotFits
        <5>4. /\ at[u] \in Plain => ~reg[u].sparse
              /\ at[u] \in Laden => reg[u].sparse = (reg[u].old # None /\ store.slots[reg[u].old].sparse)
              /\ at[u] \in Landed => store.slots[reg[u].slot].sparse =
                                       (reg[u].old # None /\ store.slots[reg[u].old].sparse)
              /\ at[u] \in Relocating /\ reg[u].old # None =>
                   (store.slots[reg[u].old].sparse => reg[u].old \in store.sparse)
          BY <3>1 DEF Carried, CarriesSparse
        <5>5. at[u] \in Laden \cup Landed \cup Relocating => at[u] \in LookedUp
          BY ModifyingPoints
        <5>6. at[u] \in Landed => at[u] \in AfterPush
          BY ModifyingPoints
        <5>7. at[u] \in Landed => store'.slots[reg[u].slot].sparse =
                                     (reg[u].old # None /\ store'.slots[reg[u].old].sparse)
          BY <5>2, <5>3, <5>4, <5>5, <5>6
        <5>8. at[u] \in Laden => reg[u].sparse = (reg[u].old # None /\ store'.slots[reg[u].old].sparse)
          BY <5>2, <5>4, <5>5
        <5>9. at[u] \in Relocating /\ reg[u].old # None =>
                (store'.slots[reg[u].old].sparse => reg[u].old \in store'.sparse)
          BY <1>4, <5>2, <5>4, <5>5
        <5> QED
          BY <5>1, <5>4, <5>7, <5>8, <5>9
      <4> QED
        BY <4>1, <4>2
    <3> QED
      BY <3>3 DEF Carried, CarriesSparse
  <2>4. MetaExact(bt)'
    <3>1. MetaExact(at)
      BY <1>20 DEF Unraced
    <3>2. ASSUME NEW u \in Thread
          PROVE  /\ at[u] \in Unindexing => bt[u] \in Unindexing /\ reg'[u].old = reg[u].old
                 /\ bt[u] \in Rewriting <=> at[u] \in Rewriting
                 /\ at[u] \in Rewriting => reg'[u] = reg[u]
                 /\ at[u] \in Indexing \cup Rewriting => bt[u] \in Indexing \cup Rewriting /\ reg'[u].slot = reg[u].slot
                 /\ bt[u] \in Indexing /\ u # t => at[u] \in Indexing /\ reg'[u] = reg[u]
      <4>1. CASE u = t
        BY <1>4, <1>17, <4>1
      <4>2. CASE u # t
        BY <1>7, <4>2
      <4> QED
        BY <4>1, <4>2
    <3>3. ASSUME NEW e \in store'.meta
          PROVE  /\ e.slot \in DOMAIN store.slots
                 /\ e.slot \in DOMAIN store'.slots
                 /\ e.slot \in store'.dead =>
                      \E u \in Thread : bt[u] \in Unindexing /\ reg'[u].old = e.slot
                 /\ e.slot \notin store'.dead =>
                      \/ e.meta = store'.slots[e.slot].meta
                      \/ \E u \in Thread : bt[u] \in Rewriting /\ reg'[u].old = e.slot /\ reg'[u].n = e.meta
      <4>1. /\ e.slot \in DOMAIN store.slots
            /\ e.slot \in store.dead => \E u \in Thread : at[u] \in Unindexing /\ reg[u].old = e.slot
            /\ e.slot \notin store.dead =>
                 \/ e.meta = store.slots[e.slot].meta
                 \/ \E u \in Thread : at[u] \in Rewriting /\ reg[u].old = e.slot /\ reg[u].n = e.meta
        BY <1>4, <1>5, <3>1 DEF MetaExact
      <4>2. store'.slots[e.slot] = store.slots[e.slot]
        BY <1>8, <4>1
      <4> QED
        BY <1>4, <1>8, <3>2, <4>1, <4>2
    <3>4. ASSUME NEW j \in LiveIn(store)'
          PROVE  \/ [slot |-> j, meta |-> store'.slots[j].meta] \in store'.meta
                 \/ \E u \in Thread : bt[u] \in Indexing \cup Rewriting /\ reg'[u].slot = j
      <4>1. CASE j = k
        BY <1>10, <1>11, <4>1
      <4>2. CASE j \in LiveIn(store)
        <5>1. \/ [slot |-> j, meta |-> store.slots[j].meta] \in store.meta
              \/ \E u \in Thread : at[u] \in Indexing \cup Rewriting /\ reg[u].slot = j
          BY <1>5, <3>1, <4>2 DEF MetaExact
        <5>2. store'.slots[j] = store.slots[j]
          BY <1>8, <1>15, <4>2
        <5> QED
          BY <1>4, <3>2, <5>1, <5>2
      <4> QED
        BY <1>14, <4>1, <4>2
    <3>5. ASSUME NEW u \in Thread
          PROVE  /\ bt[u] \in Rewriting => /\ [slot |-> reg'[u].old, meta |-> reg'[u].n] \in store'.meta
                                           /\ \A e \in store'.meta : e.slot = reg'[u].old => e.meta = reg'[u].n
                 /\ bt[u] \in Indexing => \A e \in store'.meta : e.slot # reg'[u].slot
      <4>1. at[u] \in Rewriting => /\ [slot |-> reg[u].old, meta |-> reg[u].n] \in store.meta
                                   /\ \A e \in store.meta : e.slot = reg[u].old => e.meta = reg[u].n
        BY <1>5, <3>1 DEF MetaExact
      <4>2. at[u] \in Indexing => \A e \in store.meta : e.slot # reg[u].slot
        BY <1>5, <3>1 DEF MetaExact
      <4>3. u = t => \A e \in store'.meta : e.slot # reg'[u].slot
        BY <1>8, <1>10, <3>3
      <4> QED
        BY <1>4, <3>2, <4>1, <4>2, <4>3
    <3> QED
      BY <3>3, <3>4, <3>5 DEF MetaExact
  <2>5. SparseExact(bt)'
    <3>1. SparseExact(at) /\ Carried(at)
      BY <1>20 DEF Unraced
    <3>2. ASSUME NEW u \in Thread
          PROVE  /\ at[u] \in Dropping => bt[u] \in Dropping /\ reg'[u].old = reg[u].old
                 /\ at[u] \in Placing => bt[u] \in Placing /\ reg'[u].slot = reg[u].slot
                 /\ bt[u] \notin Renumbering
      <4>1. CASE u = t
        <5>1. n \in Dropping => m \in Dropping
          BY <1>17, <1>18
        <5> QED
          BY <1>4, <1>17, <4>1, <5>1
      <4>2. CASE u # t
        BY <1>5, <1>7, <4>2 DEF NoneAt
      <4> QED
        BY <4>1, <4>2
    <3>3. ASSUME NEW j \in store'.sparse
          PROVE  /\ j \in DOMAIN store'.slots /\ store'.slots[j].sparse
                 /\ j \in store'.dead => \E u \in Thread : bt[u] \in Dropping /\ reg'[u].old = j
      <4>1. /\ j \in DOMAIN store.slots /\ store.slots[j].sparse
            /\ j \in store.dead => \E u \in Thread : at[u] \in Dropping /\ reg[u].old = j
        BY <1>4, <1>5, <3>1 DEF SparseExact
      <4> QED
        BY <1>4, <1>8, <3>2, <4>1
    <3>4. ASSUME NEW j \in LiveIn(store)', store'.slots[j].sparse
          PROVE  \/ j \in store'.sparse
                 \/ \E u \in Thread : bt[u] \in Placing /\ reg'[u].slot = j
      <4>1. CASE j = k
        <5>1. o.sparse
          BY <1>8, <3>4, <4>1
        <5>2. o.old # None
          BY <1>17, <3>1, <5>1 DEF Carried, CarriesSparse
        <5>3. m \in Placing
          BY <1>17, <5>2 DEF Consistent, OldFits
        <5> QED
          BY <1>10, <4>1, <5>3
      <4>2. CASE j \in LiveIn(store)
        <5>1. store'.slots[j] = store.slots[j]
          BY <1>8, <1>15, <4>2
        <5>2. \/ j \in store.sparse
              \/ \E u \in Thread : at[u] \in Placing /\ reg[u].slot = j
          BY <1>5, <3>1, <3>4, <4>2, <5>1 DEF SparseExact
        <5> QED
          BY <1>4, <3>2, <5>2
      <4> QED
        BY <1>14, <4>1, <4>2
    <3> QED
      BY <3>2, <3>3, <3>4 DEF SparseExact
  <2>6. LogExact(bt)'
    <3>1. LogExact(at) /\ Apart(at)
      BY <1>20 DEF Unraced
    <3>2. CASE o.call = "set_batch"
      <4>1. ~log'.whole
        BY <1>2, <1>3, <1>4, <3>2 DEF Logs, SameCall
      <4> QED
        BY <4>1 DEF LogExact
    <3>3. CASE o.call # "set_batch"
      <4>1. log' = log
        BY <1>3, <1>4, <3>3 DEF SameCall
      <4>2. m \in Unlogged /\ m \notin LoggedFirst /\ m \notin Cleared /\ n \notin Unlogged
        <5>1. n \notin OfBatch
          BY <3>3 DEF Consistent, Called
        <5> HIDE DEF n, m, o, r
        <5> QED
          BY <1>1, <5>1 DEF OfBatch, PushAt, Unlogged, LoggedFirst, Cleared
      <4>3. Replayed' = Replayed
        BY <4>1 DEF Replayed, Replay
      <4>4. \A i \in Id : i # o.id => RecordAt(store, i)' = RecordAt(store, i)
        <5> SUFFICES ASSUME NEW i \in Id, i # o.id
                     PROVE  RecordAt(store, i)' = RecordAt(store, i)
          OBVIOUS
        <5>1. store'.ids[i] = store.ids[i]
          BY <1>9
        <5>2. store.ids[i] # k
          BY <1>5, <1>8, <1>16 DEF Consistent, IdsFit
        <5> QED
          BY <1>8, <5>1, <5>2 DEF RecordAt
      <4>5. ASSUME NEW u \in Thread
            PROVE  /\ bt[u] \notin Cleared
                   /\ at[u] \in Unlogged => bt[u] \in Unlogged /\ reg'[u].id = reg[u].id
                   /\ bt[u] \in LoggedFirst => /\ at[u] \in LoggedFirst /\ reg'[u] = reg[u]
                                              /\ store'.slots[reg[u].old] = store.slots[reg[u].old]
        <5>1. CASE u = t
          BY <4>2, <5>1
        <5>2. CASE u # t
          <6>1. bt[u] = at[u] /\ reg'[u] = reg[u] /\ at[u] \notin Cleared
            BY <1>5, <1>7, <5>2 DEF NoneAt
          <6>2. at[u] \in LoggedFirst => reg[u].old \in DOMAIN store.slots
            BY ModifyingPoints DEF Consistent, OldFits
          <6> QED
            BY <1>8, <6>1, <6>2
        <5> QED
          BY <5>1, <5>2
      <4> HIDE DEF Replayed
      <4>6. ASSUME persistent, log.whole, NEW i \in Id
            PROVE  \/ Replayed'[i] = RecordAt(store, i)'
                   \/ \E u \in Thread : bt[u] \in Unlogged /\ reg'[u].id = i
        <5>1. CASE i = o.id
          BY <1>4, <4>2, <5>1 DEF SameCall
        <5>2. CASE i # o.id
          <6>1. \/ Replayed[i] = RecordAt(store, i)
                \/ \E u \in Thread : at[u] \in Unlogged /\ reg[u].id = i
            BY <1>5, <3>1, <4>6 DEF LogExact
          <6> QED
            BY <4>3, <4>4, <4>5, <5>2, <6>1
        <5> QED
          BY <5>1, <5>2
      <4>7. ASSUME persistent, log.whole, NEW u \in Thread, bt[u] \in LoggedFirst
            PROVE  Replayed'[reg'[u].id] = [store'.slots[reg'[u].old] EXCEPT !.meta = reg'[u].n]
        <5>1. Replayed[reg[u].id] = [store.slots[reg[u].old] EXCEPT !.meta = reg[u].n]
          BY <3>1, <4>5, <4>7 DEF LogExact
        <5> QED
          BY <4>3, <4>5, <4>7, <5>1
      <4> QED
        BY <1>1, <4>1, <4>5, <4>6, <4>7 DEF LogExact
    <3> QED
      BY <3>2, <3>3
  <2> QED
    BY <2>1, <2>2, <2>3, <2>4, <2>5, <2>6 DEF Unraced
<1>21. r \in Local /\ store' \in Stores /\ log' \in Logs
  <2>1. store.slots \in Seq(SlotRecord) /\ Pushed(r) \in SlotRecord
    BY <1>2, <1>4, <1>5 DEF Stores, Pushed, SlotRecord, Local, SameCall
  <2>2. store'.slots \in Seq(SlotRecord) /\ store'.ids \in [Id -> Nat \cup {None}]
    <3>1. store.ids \in [Id -> Nat \cup {None}] /\ Len(store.slots) + 1 \in Nat
      BY <1>2, <2>1 DEF Stores
    <3>2. store'.slots = Append(store.slots, Pushed(r)) /\ store'.ids = [store.ids EXCEPT ![o.id] = Len(store.slots) + 1]
      BY <1>4
    <3> HIDE DEF n, m, o, r
    <3>3. store'.slots \in Seq(SlotRecord)
      BY <2>1, <3>2
    <3>4. store'.ids \in [Id -> Nat \cup {None}]
      BY <1>5, <3>1, <3>2
    <3> QED
      BY <3>3, <3>4
  <2>3. store' \in Stores
    <3>1. store' = [store EXCEPT !.slots = store'.slots, !.ids = store'.ids]
      BY <1>2, <1>3, <1>4 DEF Stores
    <3> QED
      BY <1>2, <2>2, <3>1 DEF Stores
  <2>4. r \in Local
    <3>1. Len(store.slots) + 1 \in Nat
      BY <2>1
    <3> HIDE DEF o, r
    <3> QED
      BY <1>2, <1>3, <3>1 DEF Local
  <2>5. log' \in Logs
    BY <1>2, <1>3 DEF Logs
  <2> QED
    BY <2>3, <2>4, <2>5
<1> QED
  BY <1>19, <1>20, <1>21 DEF Preserved

LEMMA StoreTyped ==
  ASSUME NEW s \in Stores
  PROVE  /\ \A x \in Seq(SlotRecord) : [s EXCEPT !.slots = x] \in Stores
         /\ \A x \in [Id -> Nat \cup {None}] : [s EXCEPT !.ids = x] \in Stores
         /\ \A x \in SUBSET Nat : [s EXCEPT !.dead = x] \in Stores /\ [s EXCEPT !.sparse = x] \in Stores
         /\ \A x \in Seq([id : Id, by : Nat]) : [s EXCEPT !.engine = x] \in Stores
         /\ \A x \in SUBSET [slot : Nat, meta : Nat] : [s EXCEPT !.meta = x] \in Stores
  BY DEF Stores

\* It gives the slot of an update its new metadata.
LEMMA RewriteKeeps ==
  ASSUME Typed, NEW at, NEW bt, NEW t \in Thread, Placed(at), Consistent(at),
         Accesses(at, bt, t, "rewrite"), at[t] \in {323}, bt[t] = 901
  PROVE  Preserved(at, bt, t)
<1> DEFINE n == at[t]
           m == bt[t]
           o == reg[t]
           r == reg'[t]
<1>1. n \in {323} /\ m = 901 /\ Goes(at, bt, t) /\ UNCHANGED persistent
  BY DEF Accesses
<1>2. o \in Local /\ store \in Stores /\ log \in Logs
  BY LocalTyped
<1>3. /\ r = o
      /\ store' = [store EXCEPT !.slots[r.old].meta = r.n]
      /\ log' = log
  <2>1. r = Registers("rewrite", o, store, log) /\ store' = Changed("rewrite", r, store) /\ log' = Logged("rewrite", r, store, log)
    BY DEF Accesses
  <2> HIDE DEF n, m, o, r
  <2>2. r = o
    BY <2>1 DEF Registers
  <2>3. store' = [store EXCEPT !.slots[r.old].meta = r.n]
    BY <2>1 DEF Changed
  <2>4. log' = log
    BY <2>1 DEF Logged
  <2> QED
    BY <2>2, <2>3, <2>4
<1>4. /\ SameCall(o, r) /\ r = o /\ log' = log /\ store.sparse \subseteq store'.sparse
      /\ store'.ids = store.ids /\ store'.engine = store.engine /\ store'.meta = store.meta
      /\ store'.sparse = store.sparse /\ store'.dead = store.dead /\ store.dead \subseteq store'.dead
      /\ store'.slots = [store.slots EXCEPT ![o.old].meta = o.n]
  BY <1>2, <1>3 DEF Local, Stores, Logs, SameCall
<1>5. /\ Alone(at) /\ Held(at) /\ n \in GateReading /\ NoneAt(at, Excluding) /\ NoneAt(at, Replacing)
      /\ NoneAt(at, Unindexed) /\ NoneAt(at, Renumbering) /\ NoneAt(at, Cleared)
      /\ n \in Modifying /\ o.id \in Id
  <2>1. n \in GateReading
    BY <1>1 DEF GateReading
  <2>2. n \in Modifying
    BY <1>1 DEF Modifying, OfSet, OfBatch, OfUpdate, OfDelete
  <2>3. o.id \in Id
    BY <2>2, BusyId DEF Consistent
  <2>4. /\ NoneAt(at, Excluding) /\ NoneAt(at, Replacing)
        /\ NoneAt(at, Unindexed) /\ NoneAt(at, Renumbering) /\ NoneAt(at, Cleared)
    BY <2>1, Gated DEF Placed
  <2> QED
    BY <2>1, <2>2, <2>3, <2>4 DEF Placed
<1>6. /\ CalledPasses(n, m, o, r)
      /\ OldPasses(n, m, o, r)
      /\ SlotPasses(n, m, o, r)
      /\ IdsPass(n, m, o, r)
      /\ EnginePasses(n, m, o, r)
      /\ IndexPasses(n, m, o, r)
      /\ CompactPasses(n, m, o, r)
      /\ CarriedPasses(n, m, o, r)
      /\ SparsePasses(n, m, o, r)
  <2> HIDE DEF n, m, o, r
  <2>1. CalledPasses(n, m, o, r)
    BY <1>1, <1>4 DEF CalledPasses, OfSet, OfBatch, OfUpdate, OfDelete
  <2>2. OldPasses(n, m, o, r)
    BY <1>1, <1>4 DEF OldPasses, LookedUp, Known, Unknown, InPlace, Carrying
  <2>3. SlotPasses(n, m, o, r)
    BY <1>1, <1>4 DEF SlotPasses, Burying, AfterPush, Deleted
  <2>4. IdsPass(n, m, o, r)
    BY <1>1, <1>4 DEF IdsPass, Replacing, Burying
  <2>5. EnginePasses(n, m, o, r)
    BY <1>1, <1>4 DEF EnginePasses, Replacing, Inserting
  <2>6. IndexPasses(n, m, o, r)
    BY <1>1, <1>4 DEF IndexPasses, Unindexed, Indexing
  <2>7. CompactPasses(n, m, o, r)
    BY <1>1, <1>4 DEF CompactPasses, Packed, Replacing, Emptied, Refilled, Exhumed
  <2>8. CarriedPasses(n, m, o, r)
    BY <1>1, <1>4 DEF CarriedPasses, Plain, Laden, Landed, Relocating
  <2>9. SparsePasses(n, m, o, r)
    BY <1>1, <1>4 DEF SparsePasses, Renumbering, Dropping, Placing
  <2> QED
    BY <2>1, <2>2, <2>3, <2>4, <2>5, <2>6, <2>7, <2>8, <2>9
<1>7. \A u \in Thread : u # t => bt[u] = at[u] /\ reg'[u] = reg[u]
  BY <1>1 DEF Goes
<1>8. o.old \in DOMAIN store.slots /\ store.slots[o.old].id = o.id /\ o.old # None /\ o.old \in Nat
  <2>1. n \in Known /\ n \in LookedUp
    <3> HIDE DEF n, m, o, r
    <3> QED
      BY <1>1 DEF Known, LookedUp
  <2>2. o.old \in DOMAIN store.slots /\ store.slots[o.old].id = o.id /\ o.old # None
    BY <2>1 DEF Consistent, OldFits
  <2> QED
    BY <1>2, <2>2, SlotTyped
<1>9. /\ DOMAIN store'.slots = DOMAIN store.slots
      /\ Kept(store'.slots, store.slots)
      /\ \A k \in DOMAIN store.slots : k # o.old => store'.slots[k] = store.slots[k]
      /\ store'.slots[o.old] = [store.slots[o.old] EXCEPT !.meta = o.n] /\ store'.slots[o.old].meta = o.n
  <2>1. store.slots \in Seq(SlotRecord) /\ store.slots[o.old] \in SlotRecord
    BY <1>2, <1>8, SlotTyped DEF Stores
  <2> HIDE DEF n, m, o, r
  <2>2. /\ DOMAIN store'.slots = DOMAIN store.slots
        /\ \A k \in DOMAIN store.slots : k # o.old => store'.slots[k] = store.slots[k]
        /\ store'.slots[o.old] = [store.slots[o.old] EXCEPT !.meta = o.n]
    BY <1>4, <1>8, <2>1
  <2>3. store'.slots[o.old].meta = o.n /\ store'.slots[o.old].id = store.slots[o.old].id
        /\ store'.slots[o.old].val = store.slots[o.old].val /\ store'.slots[o.old].sparse = store.slots[o.old].sparse
    BY <2>1, <2>2 DEF SlotRecord
  <2>4. Kept(store'.slots, store.slots)
    <3> SUFFICES ASSUME NEW k \in DOMAIN store.slots
        PROVE  /\ store'.slots[k].id = store.slots[k].id /\ store'.slots[k].val = store.slots[k].val
               /\ store'.slots[k].sparse = store.slots[k].sparse
      BY <2>2 DEF Kept
    <3>1. CASE k = o.old
      BY <2>3, <3>1
    <3>2. CASE k # o.old
      BY <2>2, <3>2
    <3> QED
      BY <3>1, <3>2
  <2> QED
    BY <2>2, <2>3, <2>4
<1>10. /\ n \in Finding /\ n \in Rewriting /\ n \in LoggedFirst /\ n \in InPlace /\ n \notin Unindexing
       /\ m \notin Finding /\ m \notin Carrying /\ m \notin AfterPush /\ m \notin Deleted
       /\ m \notin Deciding /\ m \notin Rewriting /\ m \notin Indexing /\ m \notin LoggedFirst
       /\ m \notin Cleared
  <2> HIDE DEF n, m, o, r
  <2> QED
    BY <1>1, <1>4 DEF Finding, Rewriting, LoggedFirst, InPlace, Unindexing, Carrying, AfterPush, Deleted, Deciding, Indexing, Cleared
<1>11. ASSUME Unraced(at), NEW u \in Thread, u # t
       PROVE  /\ at[u] \in LookedUp => reg[u].old # o.old
              /\ at[u] \in AfterPush \cup InPlace => reg[u].slot # o.old
              /\ at[u] \in Modifying => reg[u].id # o.id
  <2>1. at[u] \in LookedUp \/ at[u] \in AfterPush \cup InPlace => at[u] \in Modifying
    BY ModifyingPoints
  <2>2. at[u] \in Modifying => reg[u].id # o.id
    BY <1>5, <1>11, Apartness DEF Consistent, Unraced
  <2>3. n \in LookedUp
    BY <1>10, ModifyingPoints
  <2>4. (at[u] \in LookedUp /\ reg[u].old = o.old) \/ (at[u] \in AfterPush \cup InPlace /\ reg[u].slot = o.old)
           => reg[u].id = o.id
    BY <1>8, <2>3, SameSlot DEF Consistent
  <2> QED
    BY <2>1, <2>2, <2>4
<1>12. Consistent(bt)'
  <2>1. Called(bt)'
    BY <1>1, <1>4, <1>5, <1>6, <1>9, CalledFrame DEF Consistent
  <2>2. OldFits(bt)'
    BY <1>1, <1>4, <1>5, <1>6, <1>9, OldFrame DEF Consistent
  <2>3. SlotFits(bt)'
    BY <1>1, <1>4, <1>5, <1>6, <1>9, SlotFrame DEF Consistent
  <2>4. IdsFit(bt)'
    BY <1>1, <1>4, <1>5, <1>6, <1>9, IdsFrame DEF Consistent
  <2>5. InEngine(bt)'
    BY <1>1, <1>4, <1>5, <1>6, <1>9, EngineFrame DEF Consistent
  <2>6. Indexed(bt)'
    BY <1>1, <1>4, <1>5, <1>6, <1>9, IndexFrame DEF Consistent
  <2>7. Compacting(bt)'
    BY <1>1, <1>4, <1>5, <1>6, <1>9, CompactFrame DEF Consistent
  <2> QED
    BY <2>1, <2>2, <2>3, <2>4, <2>5, <2>6, <2>7 DEF Consistent
<1>13. ASSUME Unraced(at)
       PROVE  Unraced(bt)'
  <2>1. Apart(bt)'
    BY <1>1, <1>4, <1>5, <1>6, <1>9, <1>13, ApartFrame DEF Unraced, Consistent
  <2>2. Sole(bt)'
    <3>1. Sole(at)
      BY <1>13 DEF Unraced
    <3>2. ASSUME NEW u \in Thread
          PROVE  /\ bt[u] \in Finding => store'.ids[reg'[u].id] = reg'[u].old
                 /\ bt[u] \in Carrying => reg'[u].cur = reg'[u].old
                 /\ bt[u] \in AfterPush => /\ store'.ids[reg'[u].id] = reg'[u].slot
                                           /\ store'.slots[reg'[u].slot].meta = reg'[u].n
                 /\ bt[u] \in Deleted => store'.ids[reg'[u].id] = None
                 /\ bt[u] \in Deciding => reg'[u].ok
      <4>1. CASE u = t
        BY <1>10, <4>1
      <4>2. CASE u # t
        <5>1. bt[u] = at[u] /\ reg'[u] = reg[u]
          BY <1>7, <4>2
        <5>2. at[u] \in AfterPush => store'.slots[reg[u].slot] = store.slots[reg[u].slot]
          BY <1>13, <1>9, <1>11, <4>2 DEF Consistent, SlotFits
        <5>3. /\ at[u] \in Finding => store.ids[reg[u].id] = reg[u].old
              /\ at[u] \in Carrying => reg[u].cur = reg[u].old
              /\ at[u] \in AfterPush => store.ids[reg[u].id] = reg[u].slot /\ store.slots[reg[u].slot].meta = reg[u].n
              /\ at[u] \in Deleted => store.ids[reg[u].id] = None
              /\ at[u] \in Deciding => reg[u].ok
          BY <3>1 DEF Sole
        <5>4. store'.ids = store.ids
          BY <1>4
        <5> QED
          BY <5>1, <5>2, <5>3, <5>4
      <4> QED
        BY <4>1, <4>2
    <3> QED
      BY <3>2 DEF Sole
  <2>3. Carried(bt)'
    BY <1>1, <1>4, <1>5, <1>6, <1>9, <1>13, CarriedFrame DEF Unraced, Consistent
  <2>4. MetaExact(bt)'
    <3>1. MetaExact(at)
      BY <1>13 DEF Unraced
    <3>2. [slot |-> o.old, meta |-> o.n] \in store.meta /\ \A e \in store.meta : e.slot = o.old => e.meta = o.n
      BY <1>5, <1>10, <3>1 DEF MetaExact
    <3>3. ASSUME NEW e \in store'.meta
          PROVE  /\ e.slot \in DOMAIN store'.slots
                 /\ e.slot \in store'.dead =>
                      \E u \in Thread : bt[u] \in Unindexing /\ reg'[u].old = e.slot
                 /\ e.slot \notin store'.dead =>
                      \/ e.meta = store'.slots[e.slot].meta
                      \/ \E u \in Thread : bt[u] \in Rewriting /\ reg'[u].old = e.slot /\ reg'[u].n = e.meta
      <4>1. /\ e.slot \in DOMAIN store.slots
            /\ e.slot \in store.dead => \E u \in Thread : at[u] \in Unindexing /\ reg[u].old = e.slot
            /\ e.slot \notin store.dead =>
                 \/ e.meta = store.slots[e.slot].meta
                 \/ \E u \in Thread : at[u] \in Rewriting /\ reg[u].old = e.slot /\ reg[u].n = e.meta
        BY <1>4, <1>5, <3>1 DEF MetaExact
      <4>2. e.slot \in store'.dead => \E u \in Thread : bt[u] \in Unindexing /\ reg'[u].old = e.slot
        BY <1>4, <1>7, <1>10, <4>1
      <4>3. CASE e.slot = o.old
        <5>1. e.meta = store'.slots[e.slot].meta
          BY <1>4, <1>9, <3>2, <4>3
        <5> QED
          BY <1>9, <4>1, <4>2, <5>1
      <4>4. CASE e.slot # o.old
        <5>1. store'.slots[e.slot] = store.slots[e.slot] /\ e.slot \in DOMAIN store'.slots
          BY <1>9, <4>1, <4>4
        <5>2. ASSUME NEW u \in Thread, at[u] \in Rewriting, reg[u].old = e.slot
              PROVE  bt[u] = at[u] /\ reg'[u] = reg[u]
          BY <1>7, <4>4, <5>2
        <5>3. store'.dead = store.dead
          BY <1>4
        <5>4. e.slot \notin store.dead =>
                 \/ e.meta = store'.slots[e.slot].meta
                 \/ \E u \in Thread : bt[u] \in Rewriting /\ reg'[u].old = e.slot /\ reg'[u].n = e.meta
          BY <4>1, <5>1, <5>2
        <5> QED
          BY <4>2, <5>1, <5>3, <5>4
      <4> QED
        BY <4>3, <4>4
    <3>4. ASSUME NEW j \in LiveIn(store)'
          PROVE  \/ [slot |-> j, meta |-> store'.slots[j].meta] \in store'.meta
                 \/ \E u \in Thread : bt[u] \in Indexing \cup Rewriting /\ reg'[u].slot = j
      <4>1. CASE j = o.old
        BY <1>4, <1>9, <3>2, <4>1
      <4>2. CASE j # o.old
        <5>1. j \in LiveIn(store) /\ store'.slots[j] = store.slots[j]
          BY <1>4, <1>9, <4>2 DEF LiveIn
        <5>2. \/ [slot |-> j, meta |-> store.slots[j].meta] \in store.meta
              \/ \E u \in Thread : at[u] \in Indexing \cup Rewriting /\ reg[u].slot = j
          BY <1>5, <3>1, <5>1 DEF MetaExact
        <5>3. o.slot = o.old
          BY <1>10 DEF Consistent, OldFits
        <5>4. ASSUME NEW u \in Thread, reg[u].slot = j
              PROVE  bt[u] = at[u] /\ reg'[u] = reg[u]
          BY <1>7, <4>2, <5>3, <5>4
        <5>5. store'.meta = store.meta
          BY <1>4
        <5>6. (\E u \in Thread : at[u] \in Indexing \cup Rewriting /\ reg[u].slot = j) =>
                \E u \in Thread : bt[u] \in Indexing \cup Rewriting /\ reg'[u].slot = j
          BY <5>4
        <5> QED
          BY <5>1, <5>2, <5>5, <5>6
      <4> QED
        BY <4>1, <4>2
    <3>5. ASSUME NEW u \in Thread, bt[u] \in Rewriting
          PROVE  [slot |-> reg'[u].old, meta |-> reg'[u].n] \in store'.meta
      <4>1. bt[u] = at[u] /\ reg'[u] = reg[u] /\ store'.meta = store.meta
        BY <1>4, <1>7, <1>10, <3>5
      <4>2. [slot |-> reg[u].old, meta |-> reg[u].n] \in store.meta
        BY <1>5, <3>1, <3>5, <4>1 DEF MetaExact
      <4> QED
        BY <4>1, <4>2
    <3>6. ASSUME NEW u \in Thread, bt[u] \in Rewriting, NEW e \in store'.meta, e.slot = reg'[u].old
          PROVE  e.meta = reg'[u].n
      <4>1. bt[u] = at[u] /\ reg'[u] = reg[u] /\ store'.meta = store.meta
        BY <1>4, <1>7, <1>10, <3>6
      <4>2. \A x \in store.meta : x.slot = reg[u].old => x.meta = reg[u].n
        BY <1>5, <3>1, <3>6, <4>1 DEF MetaExact
      <4> QED
        BY <3>6, <4>1, <4>2
    <3>7. ASSUME NEW u \in Thread, bt[u] \in Indexing, NEW e \in store'.meta
          PROVE  e.slot # reg'[u].slot
      <4>1. bt[u] = at[u] /\ reg'[u] = reg[u] /\ store'.meta = store.meta
        BY <1>4, <1>7, <1>10, <3>7
      <4>2. \A x \in store.meta : x.slot # reg[u].slot
        BY <1>5, <3>1, <3>7, <4>1 DEF MetaExact
      <4> QED
        BY <3>7, <4>1, <4>2
    <3>8. \A u \in Thread : bt[u] \in Rewriting => \A e \in store'.meta : e.slot = reg'[u].old => e.meta = reg'[u].n
      BY <3>6
    <3> QED
      BY <3>3, <3>4, <3>5, <3>7, <3>8 DEF MetaExact
  <2>5. SparseExact(bt)'
    BY <1>1, <1>4, <1>5, <1>6, <1>9, <1>13, SparseFrame, SMTT(30) DEF Unraced, Consistent
  <2>6. LogExact(bt)'
    <3>1. LogExact(at) /\ Sole(at)
      BY <1>13 DEF Unraced
    <3>2. Replayed' = Replayed
      BY <1>4 DEF Replayed, Replay
    <3> HIDE DEF Replayed
    <3>3. ASSUME persistent, log.whole, NEW i \in Id
          PROVE  \/ Replayed'[i] = RecordAt(store, i)'
                 \/ \E u \in Thread : bt[u] \in Unlogged /\ reg'[u].id = i
      <4>1. CASE i = o.id
        <5>1. Replayed[i] = store'.slots[o.old]
          BY <1>9, <1>10, <3>1, <3>3, <4>1 DEF LogExact
        <5>2. store'.ids[i] = o.old
          BY <1>4, <1>10, <3>1, <4>1 DEF Sole
        <5> QED
          BY <1>8, <1>9, <3>2, <5>1, <5>2 DEF RecordAt
      <4>2. CASE i # o.id
        <5>1. \/ Replayed[i] = RecordAt(store, i)
              \/ \E u \in Thread : at[u] \in Unlogged /\ reg[u].id = i
          BY <1>5, <3>1, <3>3 DEF LogExact
        <5>2. RecordAt(store, i)' = RecordAt(store, i)
          <6>1. store.ids[i] \in DOMAIN store.slots => store.ids[i] # o.old
            <7>1. None \notin DOMAIN store.slots
              BY <1>2, SlotTyped, ConcurrencyAssumption
            <7> QED
              BY <1>5, <1>8, <4>2, <7>1 DEF Consistent, IdsFit
          <6> QED
            BY <1>4, <1>9, <6>1 DEF RecordAt
        <5>3. ASSUME NEW u \in Thread, at[u] \in Unlogged, reg[u].id = i
              PROVE  bt[u] \in Unlogged /\ reg'[u].id = i
          BY <1>7, <4>2, <5>3
        <5> QED
          BY <3>2, <5>1, <5>2, <5>3
      <4> QED
        BY <4>1, <4>2
    <3>4. ASSUME persistent, log.whole, NEW u \in Thread, bt[u] \in LoggedFirst
          PROVE  Replayed'[reg'[u].id] = [store'.slots[reg'[u].old] EXCEPT !.meta = reg'[u].n]
      <4>1. bt[u] = at[u] /\ reg'[u] = reg[u] /\ u # t
        BY <1>7, <1>10, <3>4
      <4>2. at[u] \in LookedUp /\ at[u] \in Known
        BY <3>4, <4>1, ModifyingPoints
      <4>3. store'.slots[reg[u].old] = store.slots[reg[u].old]
        BY <1>13, <1>9, <1>11, <4>1, <4>2 DEF Consistent, OldFits
      <4>4. Replayed[reg[u].id] = [store.slots[reg[u].old] EXCEPT !.meta = reg[u].n]
        BY <3>1, <3>4, <4>1 DEF LogExact
      <4> QED
        BY <3>2, <4>1, <4>3, <4>4
    <3>5. \A u \in Thread : bt[u] \notin Cleared
      BY <1>5, <1>7, <1>10 DEF NoneAt
    <3> QED
      BY <1>1, <1>4, <3>3, <3>4, <3>5 DEF LogExact
  <2> QED
    BY <2>1, <2>2, <2>3, <2>4, <2>5, <2>6 DEF Unraced
<1>14. r \in Local /\ store' \in Stores /\ log' \in Logs
  <2>1. store'.slots \in Seq(SlotRecord)
    <3>1. store.slots \in Seq(SlotRecord) /\ o.n \in Nat /\ store.slots[o.old] \in SlotRecord
      BY <1>2, <1>8, SlotTyped DEF Stores, Local
    <3>2. [store.slots[o.old] EXCEPT !.meta = o.n] \in SlotRecord
      BY <3>1, ZenonT(60) DEF SlotRecord
    <3> HIDE DEF n, m, o, r
    <3>3. store'.slots = [store.slots EXCEPT ![o.old] = [store.slots[o.old] EXCEPT !.meta = o.n]]
      BY <1>4, <1>8, <3>1
    <3> QED
      BY <1>8, <3>1, <3>2, <3>3
  <2>2. store' \in Stores
    <3>1. store' = [store EXCEPT !.slots = store'.slots]
      BY <1>2, <1>3, <1>4 DEF Stores
    <3> QED
      BY <1>2, <2>1, <3>1, StoreTyped
  <2> QED
    BY <1>2, <1>3, <2>2
<1> QED
  BY <1>12, <1>13, <1>14 DEF Preserved

\* It buries the slot of a delete, if it is live, and takes the id from the id map.
LEMMA DeleteKeeps ==
  ASSUME Typed, NEW at, NEW bt, NEW t \in Thread, Placed(at), Consistent(at),
         Accesses(at, bt, t, "delete"), at[t] \in {405}, bt[t] = 406
  PROVE  Preserved(at, bt, t)
<1> DEFINE n == at[t]
           m == bt[t]
           o == reg[t]
           r == reg'[t]
<1>1. n \in {405} /\ m = 406 /\ Goes(at, bt, t) /\ UNCHANGED persistent
  BY DEF Accesses
<1>2. o \in Local /\ store \in Stores /\ log \in Logs
  BY LocalTyped
<1>3. /\ r = [o EXCEPT !.ok = o.old \notin store.dead]
      /\ store' = IF r.old \in store.dead THEN store
         ELSE [store EXCEPT !.dead = @ \cup {r.old}, !.ids[r.id] = None]
      /\ log' = log
  <2>1. r = Registers("delete", o, store, log) /\ store' = Changed("delete", r, store) /\ log' = Logged("delete", r, store, log)
    BY DEF Accesses
  <2> HIDE DEF n, m, o, r
  <2>2. r = [o EXCEPT !.ok = o.old \notin store.dead]
    BY <2>1 DEF Registers
  <2>3. store' = IF r.old \in store.dead THEN store
                 ELSE [store EXCEPT !.dead = @ \cup {r.old}, !.ids[r.id] = None]
    BY <2>1 DEF Changed
  <2>4. log' = log
    BY <2>1 DEF Logged
  <2> QED
    BY <2>2, <2>3, <2>4
<1>4. /\ SameCall(o, r) /\ r.old = o.old /\ r.slot = o.slot /\ r.cur = o.cur /\ r.order = o.order
      /\ r.sparse = o.sparse /\ r.ok = (o.old \notin store.dead) /\ log' = log
      /\ store'.slots = store.slots /\ store'.engine = store.engine /\ store'.meta = store.meta
      /\ store'.sparse = store.sparse /\ store'.dead = store.dead \cup {o.old}
      /\ store'.ids = (IF o.old \in store.dead THEN store.ids ELSE [store.ids EXCEPT ![o.id] = None])
      /\ Kept(store'.slots, store.slots) /\ store.dead \subseteq store'.dead /\ store.sparse \subseteq store'.sparse
  BY <1>2, <1>3, KeptSame DEF Local, Stores, Logs, SameCall
<1>5. /\ Alone(at) /\ Held(at) /\ n \in GateReading /\ NoneAt(at, Excluding) /\ NoneAt(at, Replacing)
      /\ NoneAt(at, Unindexed) /\ NoneAt(at, Renumbering) /\ NoneAt(at, Cleared)
      /\ n \in Modifying /\ o.id \in Id
  <2>1. n \in GateReading
    BY <1>1 DEF GateReading
  <2>2. n \in Modifying
    BY <1>1 DEF Modifying, OfSet, OfBatch, OfUpdate, OfDelete
  <2>3. o.id \in Id
    BY <2>2, BusyId DEF Consistent
  <2>4. /\ NoneAt(at, Excluding) /\ NoneAt(at, Replacing)
        /\ NoneAt(at, Unindexed) /\ NoneAt(at, Renumbering) /\ NoneAt(at, Cleared)
    BY <2>1, Gated DEF Placed
  <2> QED
    BY <2>1, <2>2, <2>3, <2>4 DEF Placed
<1>6. /\ CalledPasses(n, m, o, r)
      /\ OldPasses(n, m, o, r)
      /\ EnginePasses(n, m, o, r)
      /\ IndexPasses(n, m, o, r)
      /\ CompactPasses(n, m, o, r)
      /\ CarriedPasses(n, m, o, r)
  <2> HIDE DEF n, m, o, r
  <2>1. CalledPasses(n, m, o, r)
    BY <1>1, <1>4 DEF CalledPasses, OfSet, OfBatch, OfUpdate, OfDelete
  <2>2. OldPasses(n, m, o, r)
    BY <1>1, <1>4 DEF OldPasses, LookedUp, Known, Unknown, InPlace, Carrying
  <2>3. EnginePasses(n, m, o, r)
    BY <1>1, <1>4 DEF EnginePasses, Replacing, Inserting
  <2>4. IndexPasses(n, m, o, r)
    BY <1>1, <1>4 DEF IndexPasses, Unindexed, Indexing
  <2>5. CompactPasses(n, m, o, r)
    BY <1>1, <1>4 DEF CompactPasses, Packed, Replacing, Emptied, Refilled, Exhumed
  <2>6. CarriedPasses(n, m, o, r)
    BY <1>1, <1>4 DEF CarriedPasses, Plain, Laden, Landed, Relocating
  <2> QED
    BY <2>1, <2>2, <2>3, <2>4, <2>5, <2>6
<1>7. \A u \in Thread : u # t => bt[u] = at[u] /\ reg'[u] = reg[u]
  BY <1>1 DEF Goes
<1>8. o.old \in DOMAIN store.slots /\ store.slots[o.old].id = o.id /\ o.old # None /\ o.old \in Nat
  <2>1. n \in Known /\ n \in LookedUp
    <3> HIDE DEF n, m, o, r
    <3> QED
      BY <1>1 DEF Known, LookedUp
  <2>2. o.old \in DOMAIN store.slots /\ store.slots[o.old].id = o.id /\ o.old # None
    BY <2>1 DEF Consistent, OldFits
  <2> QED
    BY <1>2, <2>2, SlotTyped
<1>9. o.old \notin store.dead => store.ids[o.id] = o.old
  BY <1>5, <1>8 DEF Consistent, IdsFit, LiveIn
<1>10. \A i \in Id : store'.ids[i] = IF i = o.id /\ o.old \notin store.dead THEN None ELSE store.ids[i]
  <2>1. store.ids \in [Id -> Nat \cup {None}]
    BY <1>2 DEF Stores
  <2> QED
    BY <1>4, <1>5, <2>1
<1>11. /\ n \in Finding /\ n \notin Burying /\ n \notin Unlogged /\ n \notin AfterPush
       /\ m \notin Finding /\ m \notin Carrying /\ m \notin AfterPush /\ m \notin Burying
       /\ m \in Unindexing /\ m \in Dropping /\ m \in Unlogged /\ m \notin LoggedFirst /\ m \notin Cleared
  <2> HIDE DEF n, m, o, r
  <2> QED
    BY <1>1, <1>4 DEF Finding, Burying, Unlogged, Carrying, AfterPush, Unindexing, Dropping, LoggedFirst, Cleared
<1>12. \A u \in Thread : at[u] \notin Burying
  BY <1>1, <1>5, <1>11, OneBuries
<1>13. ASSUME Unraced(at), NEW u \in Thread, u # t, at[u] \in Modifying
       PROVE  reg[u].id # o.id /\ reg[u].id \in Id
  BY <1>5, <1>13, Apartness, BusyId DEF Consistent, Unraced
<1>14. ASSUME Unraced(at)
       PROVE  store.ids[o.id] = o.old /\ o.old \notin store.dead
  <2>1. store.ids[o.id] = o.old
    BY <1>11, <1>14 DEF Unraced, Sole
  <2> QED
    BY <1>5, <1>8, <1>11, <1>14, <2>1, NotBuried DEF Unraced, Consistent, LiveIn
<1>15. Consistent(bt)'
  <2>1. Called(bt)'
    BY <1>1, <1>4, <1>5, <1>6, CalledFrame DEF Consistent
  <2>2. OldFits(bt)'
    BY <1>1, <1>4, <1>5, <1>6, OldFrame DEF Consistent
  <2>3. SlotFits(bt)'
    <3>1. ASSUME NEW u \in Thread
          PROVE  /\ bt[u] \notin Burying
                 /\ bt[u] \in AfterPush => /\ reg'[u].slot \in DOMAIN store'.slots
                                           /\ store'.slots[reg'[u].slot].id = reg'[u].id
                                           /\ (reg'[u].old # None => reg'[u].old \in store'.dead)
                 /\ bt[u] \in Deleted => reg'[u].old \in store'.dead
      <4>1. CASE u = t
        BY <1>4, <1>11, <4>1
      <4>2. CASE u # t
        BY <1>4, <1>7, <1>12, <4>2 DEF Consistent, SlotFits
      <4> QED
        BY <4>1, <4>2
    <3> QED
      BY <3>1 DEF SlotFits
  <2>4. IdsFit(bt)'
    <3>1. store'.dead \subseteq DOMAIN store'.slots
      BY <1>4, <1>5, <1>8 DEF Consistent, IdsFit
    <3>2. ASSUME NEW i \in Id, store'.ids[i] # None
          PROVE  /\ store'.ids[i] \in DOMAIN store'.slots
                 /\ store'.slots[store'.ids[i]].id = i
                 /\ store'.ids[i] \notin store'.dead
      <4>1. store'.ids[i] = store.ids[i] /\ (i = o.id => o.old \in store.dead)
        BY <1>10, <3>2
      <4>2. /\ store.ids[i] \in DOMAIN store.slots /\ store.slots[store.ids[i]].id = i
            /\ store.ids[i] \notin store.dead
        BY <1>5, <1>12, <3>2, <4>1 DEF Consistent, IdsFit
      <4>3. store.ids[i] # o.old
        BY <1>8, <4>1, <4>2
      <4> QED
        BY <1>4, <4>1, <4>2, <4>3
    <3>3. ASSUME NEW j \in LiveIn(store)'
          PROVE  store'.ids[store'.slots[j].id] = j
      <4>1. j \in LiveIn(store) /\ j # o.old /\ j \in DOMAIN store.slots
        BY <1>4 DEF LiveIn
      <4>2. store.ids[store.slots[j].id] = j /\ store.slots[j].id \in Id
        BY <1>2, <1>5, <4>1, SlotTyped DEF Consistent, IdsFit
      <4>3. store.slots[j].id = o.id => o.old \in store.dead
        BY <1>9, <4>1, <4>2
      <4> QED
        BY <1>4, <1>10, <4>2, <4>3
    <3> QED
      BY <3>1, <3>2, <3>3 DEF IdsFit
  <2>5. InEngine(bt)'
    BY <1>1, <1>4, <1>5, <1>6, EngineFrame DEF Consistent
  <2>6. Indexed(bt)'
    BY <1>1, <1>4, <1>5, <1>6, IndexFrame DEF Consistent
  <2>7. Compacting(bt)'
    BY <1>1, <1>4, <1>5, <1>6, CompactFrame DEF Consistent
  <2> QED
    BY <2>1, <2>2, <2>3, <2>4, <2>5, <2>6, <2>7 DEF Consistent
<1>16. ASSUME Unraced(at)
       PROVE  Unraced(bt)'
  <2>1. Apart(bt)'
    BY <1>1, <1>4, <1>5, <1>6, <1>16, ApartFrame DEF Unraced, Consistent
  <2>2. Sole(bt)'
    <3>1. Sole(at)
      BY <1>16 DEF Unraced
    <3>2. ASSUME NEW u \in Thread
          PROVE  /\ bt[u] \in Finding => store'.ids[reg'[u].id] = reg'[u].old
                 /\ bt[u] \in Carrying => reg'[u].cur = reg'[u].old
                 /\ bt[u] \in AfterPush => /\ store'.ids[reg'[u].id] = reg'[u].slot
                                           /\ store'.slots[reg'[u].slot].meta = reg'[u].n
                 /\ bt[u] \in Deleted => store'.ids[reg'[u].id] = None
                 /\ bt[u] \in Deciding => reg'[u].ok
      <4>1. CASE u = t
        BY <1>4, <1>5, <1>16, <1>10, <1>11, <1>14, <4>1, ZenonT(60) DEF SameCall
      <4>2. CASE u # t
        <5>1. bt[u] = at[u] /\ reg'[u] = reg[u] /\ store'.slots = store.slots
          BY <1>4, <1>7, <4>2
        <5>2. at[u] \in Modifying => store'.ids[reg[u].id] = store.ids[reg[u].id]
          BY <1>16, <1>10, <1>13, <4>2
        <5>3. /\ at[u] \in Finding => store.ids[reg[u].id] = reg[u].old
              /\ at[u] \in Carrying => reg[u].cur = reg[u].old
              /\ at[u] \in AfterPush => store.ids[reg[u].id] = reg[u].slot /\ store.slots[reg[u].slot].meta = reg[u].n
              /\ at[u] \in Deleted => store.ids[reg[u].id] = None
              /\ at[u] \in Deciding => reg[u].ok
          BY <3>1 DEF Sole
        <5> QED
          BY <5>1, <5>2, <5>3, ModifyingPoints
      <4> QED
        BY <4>1, <4>2
    <3> QED
      BY <3>2 DEF Sole
  <2>3. Carried(bt)'
    BY <1>1, <1>4, <1>5, <1>6, <1>16, CarriedFrame DEF Unraced, Consistent
  <2>4. MetaExact(bt)'
    <3>1. \A k \in store'.dead \ store.dead : \E u \in Thread : bt[u] \in Unindexing /\ reg'[u].old = k
      BY <1>4, <1>11
    <3>2. MetaPasses(n, m, o, r)
      <4> HIDE DEF n, m, o, r
      <4> QED
        BY <1>1, <1>4 DEF MetaPasses, Unindexed, Unindexing, Rewriting, Indexing
    <3> QED
      BY <1>1, <1>4, <1>16, <3>1, <3>2, MetaBuried DEF Unraced
  <2>5. SparseExact(bt)'
    <3>1. \A k \in store'.dead \ store.dead : \E u \in Thread : bt[u] \in Dropping /\ reg'[u].old = k
      BY <1>4, <1>11
    <3>2. SparsePasses(n, m, o, r)
      <4> HIDE DEF n, m, o, r
      <4> QED
        BY <1>1, <1>4 DEF SparsePasses, Renumbering, Dropping, Placing
    <3> QED
      BY <1>1, <1>4, <1>16, <3>1, <3>2, SparseBuried DEF Unraced
  <2>6. LogExact(bt)'
    <3>1. LogExact(at)
      BY <1>16 DEF Unraced
    <3>2. Replayed' = Replayed
      BY <1>4 DEF Replayed, Replay
    <3> HIDE DEF Replayed
    <3>3. ASSUME persistent, log.whole, NEW i \in Id
          PROVE  \/ Replayed'[i] = RecordAt(store, i)'
                 \/ \E u \in Thread : bt[u] \in Unlogged /\ reg'[u].id = i
      <4>1. CASE i = o.id
        BY <1>4, <1>11, <4>1 DEF SameCall
      <4>2. CASE i # o.id
        <5>1. \/ Replayed[i] = RecordAt(store, i)
              \/ \E u \in Thread : at[u] \in Unlogged /\ reg[u].id = i
          BY <1>5, <3>1, <3>3 DEF LogExact
        <5>2. RecordAt(store, i)' = RecordAt(store, i)
          BY <1>4, <1>10, <4>2 DEF RecordAt
        <5>3. ASSUME NEW u \in Thread, at[u] \in Unlogged, reg[u].id = i
              PROVE  bt[u] \in Unlogged /\ reg'[u].id = i
          BY <1>7, <4>2, <5>3
        <5> QED
          BY <3>2, <5>1, <5>2, <5>3
      <4> QED
        BY <4>1, <4>2
    <3>4. ASSUME persistent, log.whole, NEW u \in Thread, bt[u] \in LoggedFirst
          PROVE  Replayed'[reg'[u].id] = [store'.slots[reg'[u].old] EXCEPT !.meta = reg'[u].n]
      <4>1. bt[u] = at[u] /\ reg'[u] = reg[u] /\ u # t /\ store'.slots = store.slots
        BY <1>4, <1>7, <1>11, <3>4
      <4>2. Replayed[reg[u].id] = [store.slots[reg[u].old] EXCEPT !.meta = reg[u].n]
        BY <3>1, <3>4, <4>1 DEF LogExact
      <4> QED
        BY <3>2, <4>1, <4>2
    <3>5. \A u \in Thread : bt[u] \notin Cleared
      BY <1>5, <1>7, <1>11 DEF NoneAt
    <3> QED
      BY <1>1, <1>4, <3>3, <3>4, <3>5 DEF LogExact
  <2> QED
    BY <2>1, <2>2, <2>3, <2>4, <2>5, <2>6 DEF Unraced
<1>17. r \in Local /\ store' \in Stores /\ log' \in Logs
  <2>1. o.old \in Nat /\ store.dead \cup {o.old} \in SUBSET Nat
    BY <1>2, <1>8 DEF Stores
  <2>3. store' \in Stores
    <3>1. CASE o.old \in store.dead
      BY <1>2, <1>3, <1>4, <3>1
    <3>2. CASE o.old \notin store.dead
      <4> DEFINE x == [store.ids EXCEPT ![o.id] = None]
                 s == [store EXCEPT !.ids = x]
                 d == store.dead \cup {o.old}
      <4>1. store' = [store EXCEPT !.ids = x, !.dead = d]
        <5>1. r.old = o.old /\ r.id = o.id
          BY <1>4 DEF SameCall
        <5>2. store' = [store EXCEPT !.dead = @ \cup {r.old}, !.ids[r.id] = None]
          BY <1>3, <1>4, <3>2
        <5> QED
          BY <1>2, <5>1, <5>2 DEF Stores
      <4>2. x \in [Id -> Nat \cup {None}]
        BY <1>2 DEF Stores
      <4>3. s \in Stores
        <5> HIDE DEF x
        <5> QED
          BY <1>2, <4>2, StoreTyped
      <4>4. d \in SUBSET Nat
        BY <2>1
      <4>5. store' = [s EXCEPT !.dead = d]
        <5> HIDE DEF x, d
        <5> QED
          BY <1>2, <4>1 DEF Stores
      <4> HIDE DEF s, d
      <4> QED
        BY <4>3, <4>4, <4>5, StoreTyped
    <3> QED
      BY <3>1, <3>2
  <2>4. r \in Local
    <3> DEFINE b == o.old \notin store.dead
    <3>1. b \in BOOLEAN /\ r = [o EXCEPT !.ok = b]
      BY <1>3
    <3> HIDE DEF o, r, b
    <3> QED
      BY <1>2, <3>1 DEF Local
  <2> QED
    BY <1>2, <1>3, <2>3, <2>4
<1> QED
  BY <1>15, <1>16, <1>17 DEF Preserved

\* It gives the vector of its slot to the engine.
LEMMA InsertKeeps ==
  ASSUME Typed, NEW at, NEW bt, NEW t \in Thread, Placed(at), Consistent(at),
         Accesses(at, bt, t, "insert"), at[t] \in EngineAt, bt[t] = at[t] + 1
  PROVE  Preserved(at, bt, t)
<1> DEFINE n == at[t]
           m == bt[t]
           o == reg[t]
           r == reg'[t]
<1>1. n \in EngineAt /\ m = n + 1 /\ Goes(at, bt, t) /\ UNCHANGED persistent
  BY DEF Accesses
<1>2. o \in Local /\ store \in Stores /\ log \in Logs
  BY LocalTyped
<1>3. /\ r = o
      /\ store' = [store EXCEPT !.engine = Append(@, store.slots[r.slot].val)]
      /\ log' = log
  <2>1. r = Registers("insert", o, store, log) /\ store' = Changed("insert", r, store) /\ log' = Logged("insert", r, store, log)
    BY DEF Accesses
  <2> HIDE DEF n, m, o, r
  <2>2. r = o
    BY <2>1 DEF Registers
  <2>3. store' = [store EXCEPT !.engine = Append(@, store.slots[r.slot].val)]
    BY <2>1 DEF Changed
  <2>4. log' = log
    BY <2>1 DEF Logged
  <2> QED
    BY <2>2, <2>3, <2>4
<1>4. /\ SameCall(o, r) /\ r = o /\ log' = log
      /\ store'.slots = store.slots /\ store'.ids = store.ids /\ store'.meta = store.meta
      /\ store'.sparse = store.sparse /\ store'.dead = store.dead
      /\ store'.engine = Append(store.engine, store.slots[o.slot].val)
      /\ Kept(store'.slots, store.slots) /\ store.dead \subseteq store'.dead /\ store.sparse \subseteq store'.sparse
  BY <1>2, <1>3, KeptSame DEF Local, Stores, Logs, SameCall
<1>5. /\ Alone(at) /\ Held(at) /\ n \in GateReading /\ NoneAt(at, Excluding) /\ NoneAt(at, Replacing)
      /\ NoneAt(at, Unindexed) /\ NoneAt(at, Renumbering) /\ NoneAt(at, Cleared)
      /\ n \in Modifying /\ o.id \in Id
  <2>1. n \in GateReading
    BY <1>1 DEF GateReading, EngineAt
  <2>2. n \in Modifying
    BY <1>1 DEF Modifying, OfSet, OfBatch, OfUpdate, OfDelete, EngineAt
  <2>3. o.id \in Id
    BY <2>2, BusyId DEF Consistent
  <2>4. /\ NoneAt(at, Excluding) /\ NoneAt(at, Replacing)
        /\ NoneAt(at, Unindexed) /\ NoneAt(at, Renumbering) /\ NoneAt(at, Cleared)
    BY <2>1, Gated DEF Placed
  <2> QED
    BY <2>1, <2>2, <2>3, <2>4 DEF Placed
<1>6. /\ CalledPasses(n, m, o, r)
      /\ OldPasses(n, m, o, r)
      /\ SlotPasses(n, m, o, r)
      /\ IdsPass(n, m, o, r)
      /\ IndexPasses(n, m, o, r)
      /\ CompactPasses(n, m, o, r)
      /\ SolePasses(n, m, o, r)
      /\ CarriedPasses(n, m, o, r)
      /\ MetaPasses(n, m, o, r)
      /\ SparsePasses(n, m, o, r)
      /\ LogPasses(n, m, o, r)
  <2> HIDE DEF n, m, o, r
  <2>1. SameCall(o, r) /\ r = o
    BY <1>4
  <2>2. CalledPasses(n, m, o, r)
    BY <1>1, <2>1 DEF CalledPasses, OfSet, OfBatch, OfUpdate, OfDelete, EngineAt
  <2>3. OldPasses(n, m, o, r)
    BY <1>1, <2>1 DEF OldPasses, LookedUp, Known, Unknown, InPlace, Carrying, EngineAt
  <2>4. SlotPasses(n, m, o, r)
    BY <1>1, <2>1 DEF SlotPasses, Burying, AfterPush, Deleted, EngineAt
  <2>5. IdsPass(n, m, o, r)
    BY <1>1, <2>1 DEF IdsPass, Replacing, Burying, EngineAt
  <2>6. IndexPasses(n, m, o, r)
    BY <1>1, <2>1 DEF IndexPasses, Unindexed, Indexing, EngineAt
  <2>7. CompactPasses(n, m, o, r)
    BY <1>1, <2>1 DEF CompactPasses, Packed, Replacing, Emptied, Refilled, Exhumed, EngineAt
  <2>8. SolePasses(n, m, o, r)
    BY <1>1, <2>1 DEF SolePasses, Finding, Carrying, AfterPush, Deleted, Deciding, EngineAt
  <2>9. CarriedPasses(n, m, o, r)
    BY <1>1, <2>1 DEF CarriedPasses, Plain, Laden, Landed, Relocating, EngineAt
  <2>10. MetaPasses(n, m, o, r)
    BY <1>1, <2>1 DEF MetaPasses, Unindexed, Unindexing, Rewriting, Indexing, EngineAt
  <2>11. SparsePasses(n, m, o, r)
    BY <1>1, <2>1 DEF SparsePasses, Renumbering, Dropping, Placing, EngineAt
  <2>12. LogPasses(n, m, o, r)
    BY <1>1, <2>1 DEF LogPasses, Cleared, Unlogged, LoggedFirst, EngineAt
  <2> QED
    BY <2>2, <2>3, <2>4, <2>5, <2>6, <2>7, <2>8, <2>9, <2>10, <2>11, <2>12
<1>7. \A u \in Thread : u # t => bt[u] = at[u] /\ reg'[u] = reg[u]
  BY <1>1 DEF Goes
<1>8. o.slot \in DOMAIN store.slots /\ store.slots[o.slot].val \in [id : Id, by : Nat]
  <2>1. n \in AfterPush
    <3> HIDE DEF n, m, o, r
    <3> QED
      BY <1>1 DEF AfterPush, EngineAt
  <2>2. o.slot \in DOMAIN store.slots
    BY <2>1 DEF Consistent, SlotFits
  <2> QED
    BY <1>2, <2>2, SlotTyped
<1>9. /\ ToSet(store.engine) \subseteq ToSet(store'.engine)
      /\ store.slots[o.slot].val \in ToSet(store'.engine)
      /\ store'.engine \in Seq([id : Id, by : Nat])
  <2>1. store.engine \in Seq([id : Id, by : Nat])
    BY <1>2 DEF Stores
  <2> DEFINE x == store.slots[o.slot].val
  <2>2. store'.engine = Append(store.engine, x) /\ x \in [id : Id, by : Nat]
    BY <1>4, <1>8
  <2> HIDE DEF x, n, m, o, r
  <2>3. store'.engine \in Seq([id : Id, by : Nat])
    BY <2>1, <2>2
  <2>4. /\ Len(store'.engine) = Len(store.engine) + 1 /\ store'.engine[Len(store.engine) + 1] = x
        /\ \A k \in 1..Len(store.engine) : store'.engine[k] = store.engine[k]
        /\ DOMAIN store'.engine = 1..Len(store.engine) + 1 /\ DOMAIN store.engine = 1..Len(store.engine)
        /\ Len(store.engine) \in Nat
    BY <2>1, <2>2, <2>3
  <2>5. ToSet(store.engine) \subseteq ToSet(store'.engine)
    BY <2>4 DEF ToSet
  <2>6. x \in ToSet(store'.engine)
    BY <2>4 DEF ToSet
  <2> QED
    BY <2>3, <2>5, <2>6 DEF x
<1>10. Consistent(bt)'
  <2>1. Called(bt)'
    BY <1>1, <1>4, <1>5, <1>6, CalledFrame DEF Consistent
  <2>2. OldFits(bt)'
    BY <1>1, <1>4, <1>5, <1>6, OldFrame DEF Consistent
  <2>3. SlotFits(bt)'
    BY <1>1, <1>4, <1>5, <1>6, SlotFrame DEF Consistent
  <2>4. IdsFit(bt)'
    BY <1>1, <1>4, <1>5, <1>6, IdsFrame DEF Consistent
  <2>5. InEngine(bt)'
    <3>1. ASSUME NEW j \in LiveIn(store)
          PROVE  \/ store'.slots[j].val \in ToSet(store'.engine)
                 \/ \E u \in Thread : bt[u] \in Inserting /\ reg'[u].slot = j
      <4>1. \/ store.slots[j].val \in ToSet(store.engine)
            \/ \E u \in Thread : at[u] \in Inserting /\ reg[u].slot = j
        BY <1>5 DEF Consistent, InEngine
      <4>2. CASE j = o.slot
        BY <1>4, <1>9, <4>2
      <4>3. CASE j # o.slot
        <5>1. ASSUME NEW u \in Thread, reg[u].slot = j
              PROVE  bt[u] = at[u] /\ reg'[u] = reg[u]
          BY <1>7, <4>3, <5>1
        <5> QED
          BY <1>4, <1>9, <4>1, <5>1
      <4> QED
        BY <4>2, <4>3
    <3>2. LiveIn(store)' = LiveIn(store) /\ ToSet(store.engine)' = ToSet(store'.engine)
      BY <1>4 DEF LiveIn, ToSet
    <3> QED
      BY <3>1, <3>2 DEF InEngine
  <2>6. Indexed(bt)'
    BY <1>1, <1>4, <1>5, <1>6, IndexFrame DEF Consistent
  <2>7. Compacting(bt)'
    BY <1>1, <1>4, <1>5, <1>6, CompactFrame DEF Consistent
  <2> QED
    BY <2>1, <2>2, <2>3, <2>4, <2>5, <2>6, <2>7 DEF Consistent
<1>11. ASSUME Unraced(at)
       PROVE  Unraced(bt)'
  <2>1. Apart(bt)'
    BY <1>1, <1>4, <1>5, <1>6, <1>11, ApartFrame DEF Unraced, Consistent
  <2>2. Sole(bt)'
    BY <1>1, <1>4, <1>5, <1>6, <1>11, SoleFrame DEF Unraced, Consistent
  <2>3. Carried(bt)'
    BY <1>1, <1>4, <1>5, <1>6, <1>11, CarriedFrame DEF Unraced, Consistent
  <2>4. MetaExact(bt)'
    BY <1>1, <1>4, <1>5, <1>6, <1>11, MetaFrame DEF Unraced, Consistent
  <2>5. SparseExact(bt)'
    BY <1>1, <1>4, <1>5, <1>6, <1>11, SparseFrame DEF Unraced, Consistent
  <2>6. LogExact(bt)'
    BY <1>1, <1>4, <1>5, <1>6, <1>11, LogFrame DEF Unraced, Consistent
  <2> QED
    BY <2>1, <2>2, <2>3, <2>4, <2>5, <2>6 DEF Unraced
<1>12. r \in Local /\ store' \in Stores /\ log' \in Logs
  <2>1. store' = [store EXCEPT !.engine = store'.engine]
    BY <1>2, <1>3, <1>4 DEF Stores
  <2>2. store' \in Stores
    BY <1>2, <1>9, <2>1, StoreTyped
  <2> QED
    BY <1>2, <1>3, <2>2
<1> QED
  BY <1>10, <1>11, <1>12 DEF Preserved

\* It takes the metadata of the old slot from the index.
LEMMA UnindexKeeps ==
  ASSUME Typed, NEW at, NEW bt, NEW t \in Thread, Placed(at), Consistent(at),
         Accesses(at, bt, t, "unindex"), at[t] \in UnindexAt, bt[t] = at[t] + 1
  PROVE  Preserved(at, bt, t)
<1> DEFINE n == at[t]
           m == bt[t]
           o == reg[t]
           r == reg'[t]
<1>1. n \in UnindexAt /\ m = n + 1 /\ Goes(at, bt, t) /\ UNCHANGED persistent
  BY DEF Accesses
<1>2. o \in Local /\ store \in Stores /\ log \in Logs
  BY LocalTyped
<1>3. /\ r = o
      /\ store' = [store EXCEPT !.meta = {e \in @ : e.slot # r.old}]
      /\ log' = log
  <2>1. r = Registers("unindex", o, store, log) /\ store' = Changed("unindex", r, store) /\ log' = Logged("unindex", r, store, log)
    BY DEF Accesses
  <2> HIDE DEF n, m, o, r
  <2>2. r = o
    BY <2>1 DEF Registers
  <2>3. store' = [store EXCEPT !.meta = {e \in @ : e.slot # r.old}]
    BY <2>1 DEF Changed
  <2>4. log' = log
    BY <2>1 DEF Logged
  <2> QED
    BY <2>2, <2>3, <2>4
<1>4. /\ SameCall(o, r) /\ r = o /\ log' = log
      /\ store'.slots = store.slots /\ store'.ids = store.ids /\ store'.engine = store.engine
      /\ store'.sparse = store.sparse /\ store'.dead = store.dead
      /\ store'.meta = {e \in store.meta : e.slot # o.old}
      /\ Kept(store'.slots, store.slots) /\ store.dead \subseteq store'.dead /\ store.sparse \subseteq store'.sparse
  BY <1>2, <1>3, KeptSame DEF Local, Stores, Logs, SameCall
<1>5. /\ Alone(at) /\ Held(at) /\ n \in GateReading /\ NoneAt(at, Excluding) /\ NoneAt(at, Replacing)
      /\ NoneAt(at, Unindexed) /\ NoneAt(at, Renumbering) /\ NoneAt(at, Cleared)
      /\ n \in Modifying /\ o.id \in Id
  <2>1. n \in GateReading
    BY <1>1 DEF GateReading, UnindexAt
  <2>2. n \in Modifying
    BY <1>1 DEF Modifying, OfSet, OfBatch, OfUpdate, OfDelete, UnindexAt
  <2>3. o.id \in Id
    BY <2>2, BusyId DEF Consistent
  <2>4. /\ NoneAt(at, Excluding) /\ NoneAt(at, Replacing)
        /\ NoneAt(at, Unindexed) /\ NoneAt(at, Renumbering) /\ NoneAt(at, Cleared)
    BY <2>1, Gated DEF Placed
  <2> QED
    BY <2>1, <2>2, <2>3, <2>4 DEF Placed
<1>6. /\ CalledPasses(n, m, o, r)
      /\ OldPasses(n, m, o, r)
      /\ SlotPasses(n, m, o, r)
      /\ IdsPass(n, m, o, r)
      /\ EnginePasses(n, m, o, r)
      /\ CompactPasses(n, m, o, r)
      /\ SolePasses(n, m, o, r)
      /\ CarriedPasses(n, m, o, r)
      /\ SparsePasses(n, m, o, r)
      /\ LogPasses(n, m, o, r)
  <2> HIDE DEF n, m, o, r
  <2>1. CalledPasses(n, m, o, r)
    BY <1>1, <1>4 DEF CalledPasses, OfSet, OfBatch, OfUpdate, OfDelete, UnindexAt
  <2>2. OldPasses(n, m, o, r)
    BY <1>1, <1>4 DEF OldPasses, LookedUp, Known, Unknown, InPlace, Carrying, UnindexAt
  <2>3. SlotPasses(n, m, o, r)
    BY <1>1, <1>4 DEF SlotPasses, Burying, AfterPush, Deleted, UnindexAt
  <2>4. IdsPass(n, m, o, r)
    BY <1>1, <1>4 DEF IdsPass, Replacing, Burying, UnindexAt
  <2>5. EnginePasses(n, m, o, r)
    BY <1>1, <1>4 DEF EnginePasses, Replacing, Inserting, UnindexAt
  <2>6. CompactPasses(n, m, o, r)
    BY <1>1, <1>4 DEF CompactPasses, Packed, Replacing, Emptied, Refilled, Exhumed, UnindexAt
  <2>7. SolePasses(n, m, o, r)
    BY <1>1, <1>4 DEF SolePasses, Finding, Carrying, AfterPush, Deleted, Deciding, UnindexAt
  <2>8. CarriedPasses(n, m, o, r)
    BY <1>1, <1>4 DEF CarriedPasses, Plain, Laden, Landed, Relocating, UnindexAt
  <2>9. SparsePasses(n, m, o, r)
    BY <1>1, <1>4 DEF SparsePasses, Renumbering, Dropping, Placing, UnindexAt
  <2>10. LogPasses(n, m, o, r)
    BY <1>1, <1>4 DEF LogPasses, Cleared, Unlogged, LoggedFirst, UnindexAt
  <2> QED
    BY <2>1, <2>2, <2>3, <2>4, <2>5, <2>6, <2>7, <2>8, <2>9, <2>10
<1>7. \A u \in Thread : u # t => bt[u] = at[u] /\ reg'[u] = reg[u]
  BY <1>1 DEF Goes
<1>8. o.old \in LiveIn(store) => m \in Indexing /\ o.slot = o.old
  <2> SUFFICES ASSUME o.old \in LiveIn(store)
               PROVE  m \in Indexing /\ o.slot = o.old
    OBVIOUS
  <2>1. o.old # None /\ o.old \notin store.dead
    BY <1>2, SlotTyped, ConcurrencyAssumption DEF LiveIn
  <2>2. n \notin AfterPush /\ n \notin Deleted
    BY <2>1 DEF Consistent, SlotFits
  <2>3. m \in Indexing /\ n \in InPlace
    <3> HIDE DEF n, m, o, r
    <3> QED
      BY <1>1, <2>2 DEF AfterPush, Deleted, Indexing, InPlace, UnindexAt
  <2> QED
    BY <2>3 DEF Consistent, OldFits
<1>9. /\ n \in Indexing => m \in Indexing
      /\ (m \in Indexing => n \in Indexing \/ n = 319) /\ n \notin Rewriting /\ m \notin Rewriting
      /\ n \in LookedUp /\ (n = 319 => n \in InPlace)
  <2> HIDE DEF n, m, o, r
  <2> QED
    BY <1>1, <1>4 DEF Indexing, Rewriting, LookedUp, InPlace, UnindexAt
<1>10. LiveIn(store)' = LiveIn(store)
  BY <1>4 DEF LiveIn
<1>11. ASSUME NEW u \in Thread
       PROVE  /\ at[u] \in Indexing => bt[u] \in Indexing /\ reg'[u].slot = reg[u].slot
              /\ u # t => bt[u] = at[u] /\ reg'[u] = reg[u]
              /\ bt[u] \in Rewriting => u # t
  BY <1>4, <1>7, <1>9
<1>12. Consistent(bt)'
  <2>1. Called(bt)'
    BY <1>1, <1>4, <1>5, <1>6, CalledFrame DEF Consistent
  <2>2. OldFits(bt)'
    BY <1>1, <1>4, <1>5, <1>6, OldFrame DEF Consistent
  <2>3. SlotFits(bt)'
    BY <1>1, <1>4, <1>5, <1>6, SlotFrame DEF Consistent
  <2>4. IdsFit(bt)'
    BY <1>1, <1>4, <1>5, <1>6, IdsFrame DEF Consistent
  <2>5. InEngine(bt)'
    BY <1>1, <1>4, <1>5, <1>6, EngineFrame DEF Consistent
  <2>6. Indexed(bt)'
    <3>1. ASSUME NEW j \in LiveIn(store)
          PROVE  HasMeta(j)' \/ \E u \in Thread : bt[u] \in Indexing /\ reg'[u].slot = j
      <4>1. HasMeta(j) \/ \E u \in Thread : at[u] \in Indexing /\ reg[u].slot = j
        BY <1>5 DEF Consistent, Indexed
      <4>2. CASE j = o.old
        BY <1>4, <1>8, <4>2
      <4>3. CASE j # o.old
        <5>1. HasMeta(j) => HasMeta(j)'
          BY <1>4, <4>3 DEF HasMeta
        <5> QED
          BY <1>11, <4>1, <5>1
      <4> QED
        BY <4>2, <4>3
    <3> QED
      BY <1>10, <3>1 DEF Indexed
  <2>7. Compacting(bt)'
    BY <1>1, <1>4, <1>5, <1>6, CompactFrame DEF Consistent
  <2> QED
    BY <2>1, <2>2, <2>3, <2>4, <2>5, <2>6, <2>7 DEF Consistent
<1>13. ASSUME Unraced(at)
       PROVE  Unraced(bt)'
  <2>1. Apart(bt)'
    BY <1>1, <1>4, <1>5, <1>6, <1>13, ApartFrame DEF Unraced, Consistent
  <2>2. Sole(bt)'
    BY <1>1, <1>4, <1>5, <1>6, <1>13, SoleFrame DEF Unraced, Consistent
  <2>3. Carried(bt)'
    BY <1>1, <1>4, <1>5, <1>6, <1>13, CarriedFrame DEF Unraced, Consistent
  <2>4. MetaExact(bt)'
    <3>1. MetaExact(at)
      BY <1>13 DEF Unraced
    <3>2. ASSUME NEW u \in Thread, u # t, at[u] \in Rewriting
          PROVE  reg[u].old # o.old
      <4>1. at[u] \in Modifying /\ at[u] \in LookedUp /\ at[u] \in Known
        BY <3>2, ModifyingPoints
      <4>2. reg[u].id # o.id
        BY <1>5, <1>13, <3>2, <4>1, Apartness DEF Consistent, Unraced
      <4>3. reg[u].old # None /\ reg[u].old \in Nat
        BY <4>1, LocalTyped DEF Consistent, OldFits, Local
      <4> QED
        BY <1>9, <4>1, <4>2, <4>3, SameSlot DEF Consistent
    <3>3. ASSUME NEW e \in store'.meta
          PROVE  /\ e.slot \in DOMAIN store'.slots
                 /\ e.slot \in store'.dead =>
                      \E u \in Thread : bt[u] \in Unindexing /\ reg'[u].old = e.slot
                 /\ e.slot \notin store'.dead =>
                      \/ e.meta = store'.slots[e.slot].meta
                      \/ \E u \in Thread : bt[u] \in Rewriting /\ reg'[u].old = e.slot /\ reg'[u].n = e.meta
      <4>1. e \in store.meta /\ e.slot # o.old
        BY <1>4
      <4>2. /\ e.slot \in DOMAIN store.slots
            /\ e.slot \in store.dead => \E u \in Thread : at[u] \in Unindexing /\ reg[u].old = e.slot
            /\ e.slot \notin store.dead =>
                 \/ e.meta = store.slots[e.slot].meta
                 \/ \E u \in Thread : at[u] \in Rewriting /\ reg[u].old = e.slot /\ reg[u].n = e.meta
        BY <1>5, <3>1, <4>1 DEF MetaExact
      <4>3. ASSUME NEW u \in Thread, reg[u].old = e.slot
            PROVE  bt[u] = at[u] /\ reg'[u] = reg[u]
        BY <1>11, <4>1, <4>3
      <4>4. store'.slots = store.slots /\ store'.dead = store.dead
        BY <1>4
      <4> QED
        BY <4>2, <4>3, <4>4
    <3>4. ASSUME NEW j \in LiveIn(store)'
          PROVE  \/ [slot |-> j, meta |-> store'.slots[j].meta] \in store'.meta
                 \/ \E u \in Thread : bt[u] \in Indexing \cup Rewriting /\ reg'[u].slot = j
      <4>1. \/ [slot |-> j, meta |-> store.slots[j].meta] \in store.meta
            \/ \E u \in Thread : at[u] \in Indexing \cup Rewriting /\ reg[u].slot = j
        BY <1>5, <1>10, <3>1 DEF MetaExact
      <4>2. CASE j = o.old
        BY <1>4, <1>8, <1>10, <4>2
      <4>3. CASE j # o.old
        <5>1. [slot |-> j, meta |-> store.slots[j].meta] \in store.meta =>
                [slot |-> j, meta |-> store'.slots[j].meta] \in store'.meta
          BY <1>4, <4>3
        <5>2. ASSUME NEW u \in Thread, at[u] \in Indexing \cup Rewriting
              PROVE  bt[u] \in Indexing \cup Rewriting /\ reg'[u].slot = reg[u].slot
          BY <1>9, <1>11, <5>2
        <5> QED
          BY <4>1, <5>1, <5>2
      <4> QED
        BY <4>2, <4>3
    <3>5. ASSUME NEW u \in Thread, bt[u] \in Rewriting
          PROVE  [slot |-> reg'[u].old, meta |-> reg'[u].n] \in store'.meta
      <4>1. bt[u] = at[u] /\ reg'[u] = reg[u] /\ u # t
        BY <1>11, <3>5
      <4>2. [slot |-> reg[u].old, meta |-> reg[u].n] \in store.meta
        BY <1>5, <3>1, <3>5, <4>1 DEF MetaExact
      <4>3. reg[u].old # o.old
        BY <3>2, <3>5, <4>1
      <4> QED
        BY <1>4, <4>1, <4>2, <4>3
    <3>6. ASSUME NEW u \in Thread, bt[u] \in Rewriting, NEW e \in store'.meta, e.slot = reg'[u].old
          PROVE  e.meta = reg'[u].n
      <4>1. bt[u] = at[u] /\ reg'[u] = reg[u] /\ e \in store.meta
        BY <1>4, <1>11, <3>6
      <4>2. \A x \in store.meta : x.slot = reg[u].old => x.meta = reg[u].n
        BY <1>5, <3>1, <3>6, <4>1 DEF MetaExact
      <4> QED
        BY <3>6, <4>1, <4>2
    <3>7. ASSUME NEW u \in Thread, bt[u] \in Indexing, NEW e \in store'.meta
          PROVE  e.slot # reg'[u].slot
      <4>1. e \in store.meta /\ e.slot # o.old
        BY <1>4
      <4>2. CASE at[u] \in Indexing
        <5>1. \A x \in store.meta : x.slot # reg[u].slot
          BY <1>5, <3>1, <4>2 DEF MetaExact
        <5> QED
          BY <1>11, <4>1, <4>2, <5>1
      <4>3. CASE at[u] \notin Indexing
        <5>1. u = t /\ n \in InPlace
          BY <1>9, <1>11, <3>7, <4>3
        <5>2. o.slot = o.old
          BY <5>1 DEF Consistent, OldFits
        <5> QED
          BY <1>4, <4>1, <5>1, <5>2
      <4> QED
        BY <4>2, <4>3
    <3>8. \A u \in Thread : bt[u] \in Rewriting => \A e \in store'.meta : e.slot = reg'[u].old => e.meta = reg'[u].n
      BY <3>6
    <3> QED
      BY <3>3, <3>4, <3>5, <3>7, <3>8 DEF MetaExact
  <2>5. SparseExact(bt)'
    BY <1>1, <1>4, <1>5, <1>6, <1>13, SparseFrame DEF Unraced, Consistent
  <2>6. LogExact(bt)'
    BY <1>1, <1>4, <1>5, <1>6, <1>13, LogFrame DEF Unraced, Consistent
  <2> QED
    BY <2>1, <2>2, <2>3, <2>4, <2>5, <2>6 DEF Unraced
<1>14. r \in Local /\ store' \in Stores /\ log' \in Logs
  <2>1. store'.meta \in SUBSET [slot : Nat, meta : Nat]
    BY <1>2, <1>4 DEF Stores
  <2>2. store' = [store EXCEPT !.meta = store'.meta]
    BY <1>2, <1>3, <1>4 DEF Stores
  <2>3. store' \in Stores
    BY <1>2, <2>1, <2>2, StoreTyped
  <2> QED
    BY <1>2, <1>3, <2>3
<1> QED
  BY <1>12, <1>13, <1>14 DEF Preserved

\* It gives its metadata to the index.
LEMMA IndexKeeps ==
  ASSUME Typed, NEW at, NEW bt, NEW t \in Thread, Placed(at), Consistent(at),
         Accesses(at, bt, t, "index"), at[t] \in IndexAt, bt[t] = IF at[t] = 123 /\ ~persistent THEN 901 ELSE at[t] + 1
  PROVE  Preserved(at, bt, t)
<1> DEFINE n == at[t]
           m == bt[t]
           o == reg[t]
           r == reg'[t]
<1>1. n \in IndexAt /\ (m = IF n = 123 /\ ~persistent THEN 901 ELSE n + 1) /\ Goes(at, bt, t) /\ UNCHANGED persistent
  BY DEF Accesses
<1>2. o \in Local /\ store \in Stores /\ log \in Logs
  BY LocalTyped
<1>3. /\ r = o
      /\ store' = [store EXCEPT !.meta = @ \cup {[slot |-> r.slot, meta |-> r.n]}]
      /\ log' = log
  <2>1. r = Registers("index", o, store, log) /\ store' = Changed("index", r, store) /\ log' = Logged("index", r, store, log)
    BY DEF Accesses
  <2> HIDE DEF n, m, o, r
  <2>2. r = o
    BY <2>1 DEF Registers
  <2>3. store' = [store EXCEPT !.meta = @ \cup {[slot |-> r.slot, meta |-> r.n]}]
    BY <2>1 DEF Changed
  <2>4. log' = log
    BY <2>1 DEF Logged
  <2> QED
    BY <2>2, <2>3, <2>4
<1>4. /\ SameCall(o, r) /\ r = o /\ log' = log
      /\ store'.slots = store.slots /\ store'.ids = store.ids /\ store'.engine = store.engine
      /\ store'.sparse = store.sparse /\ store'.dead = store.dead
      /\ store'.meta = store.meta \cup {[slot |-> o.slot, meta |-> o.n]}
      /\ Kept(store'.slots, store.slots) /\ store.dead \subseteq store'.dead /\ store.sparse \subseteq store'.sparse
  BY <1>2, <1>3, KeptSame DEF Local, Stores, Logs, SameCall
<1>5. /\ Alone(at) /\ Held(at) /\ n \in GateReading /\ NoneAt(at, Excluding) /\ NoneAt(at, Replacing)
      /\ NoneAt(at, Unindexed) /\ NoneAt(at, Renumbering) /\ NoneAt(at, Cleared)
      /\ n \in Modifying /\ o.id \in Id
  <2>1. n \in GateReading
    BY <1>1 DEF GateReading, IndexAt
  <2>2. n \in Modifying
    BY <1>1 DEF Modifying, OfSet, OfBatch, OfUpdate, OfDelete, IndexAt
  <2>3. o.id \in Id
    BY <2>2, BusyId DEF Consistent
  <2>4. /\ NoneAt(at, Excluding) /\ NoneAt(at, Replacing)
        /\ NoneAt(at, Unindexed) /\ NoneAt(at, Renumbering) /\ NoneAt(at, Cleared)
    BY <2>1, Gated DEF Placed
  <2> QED
    BY <2>1, <2>2, <2>3, <2>4 DEF Placed
<1>6. /\ CalledPasses(n, m, o, r)
      /\ OldPasses(n, m, o, r)
      /\ SlotPasses(n, m, o, r)
      /\ IdsPass(n, m, o, r)
      /\ EnginePasses(n, m, o, r)
      /\ CompactPasses(n, m, o, r)
      /\ SolePasses(n, m, o, r)
      /\ CarriedPasses(n, m, o, r)
      /\ SparsePasses(n, m, o, r)
      /\ LogPasses(n, m, o, r)
  <2> HIDE DEF n, m, o, r
  <2>1. SameCall(o, r) /\ r = o
    BY <1>4
  <2>2. CalledPasses(n, m, o, r)
    BY <1>1, <2>1 DEF CalledPasses, OfSet, OfBatch, OfUpdate, OfDelete, IndexAt
  <2>3. OldPasses(n, m, o, r)
    BY <1>1, <2>1 DEF OldPasses, LookedUp, Known, Unknown, InPlace, Carrying, IndexAt
  <2>4. SlotPasses(n, m, o, r)
    BY <1>1, <2>1 DEF SlotPasses, Burying, AfterPush, Deleted, IndexAt
  <2>5. IdsPass(n, m, o, r)
    BY <1>1, <2>1 DEF IdsPass, Replacing, Burying, IndexAt
  <2>6. EnginePasses(n, m, o, r)
    BY <1>1, <2>1 DEF EnginePasses, Replacing, Inserting, IndexAt
  <2>7. CompactPasses(n, m, o, r)
    BY <1>1, <2>1 DEF CompactPasses, Packed, Replacing, Emptied, Refilled, Exhumed, IndexAt
  <2>8. SolePasses(n, m, o, r)
    BY <1>1, <2>1 DEF SolePasses, Finding, Carrying, AfterPush, Deleted, Deciding, IndexAt
  <2>9. CarriedPasses(n, m, o, r)
    BY <1>1, <2>1 DEF CarriedPasses, Plain, Laden, Landed, Relocating, IndexAt
  <2>10. SparsePasses(n, m, o, r)
    BY <1>1, <2>1 DEF SparsePasses, Renumbering, Dropping, Placing, IndexAt
  <2>11. LogPasses(n, m, o, r)
    BY <1>1, <2>1 DEF LogPasses, Cleared, Unlogged, LoggedFirst, IndexAt
  <2> QED
    BY <2>2, <2>3, <2>4, <2>5, <2>6, <2>7, <2>8, <2>9, <2>10, <2>11
<1>7. \A u \in Thread : u # t => bt[u] = at[u] /\ reg'[u] = reg[u]
  BY <1>1 DEF Goes
<1>8. /\ n \in Indexing /\ n \notin Unindexing /\ n \notin Rewriting /\ m \notin Indexing /\ n \notin Burying
      /\ n \in AfterPush \cup InPlace /\ n \in LookedUp
      /\ (n \in AfterPush \/ n \in Finding) /\ (m \in Rewriting <=> n \in InPlace)
      /\ (n \in AfterPush <=> n \notin InPlace) /\ (n \in InPlace => n \in Known)
  <2> HIDE DEF n, m, o, r
  <2>1. /\ n \in Indexing /\ n \notin Unindexing /\ n \notin Rewriting /\ m \notin Indexing /\ n \notin Burying
        /\ n \in LookedUp
    BY <1>1 DEF Indexing, Unindexing, Rewriting, Burying, LookedUp, IndexAt
  <2>2. n \in AfterPush \cup Finding /\ (m \in Rewriting <=> n \in InPlace) /\ (n \in AfterPush <=> n \notin InPlace)
        /\ (n \in InPlace => n \in Known)
    BY <1>1 DEF AfterPush, Known, InPlace, Rewriting, Finding, IndexAt
  <2> QED
    BY <2>1, <2>2
<1>9. o.slot \in DOMAIN store.slots /\ o.slot \in Nat /\ (n \in InPlace => o.slot = o.old)
  <2>1. o.slot \in DOMAIN store.slots
    BY <1>8 DEF Consistent, OldFits, SlotFits
  <2> QED
    BY <1>2, <2>1, SlotTyped DEF Consistent, OldFits
<1>10. ASSUME Unraced(at)
       PROVE  o.slot \in LiveIn(store) /\ (n \in AfterPush => store.slots[o.slot].meta = o.n)
  <2>1. Sole(at) /\ Apart(at)
    BY <1>10 DEF Unraced
  <2>2. store.ids[o.id] = o.slot /\ (n \in AfterPush => store.slots[o.slot].meta = o.n)
    BY <1>8, <1>9, <2>1 DEF Sole
  <2>3. o.slot # None
    BY <1>9, ConcurrencyAssumption
  <2> QED
    BY <1>5, <1>8, <2>1, <2>2, <2>3, NotBuried DEF Consistent
<1>11. ASSUME Unraced(at), NEW u \in Thread, u # t
       PROVE  /\ at[u] \in LookedUp => reg[u].old # o.slot
              /\ at[u] \in AfterPush \cup InPlace => reg[u].slot # o.slot
  <2>1. (at[u] \in LookedUp => at[u] \in Modifying) /\ (at[u] \in AfterPush \cup InPlace => at[u] \in Modifying)
    BY ModifyingPoints
  <2>2. at[u] \in Modifying => reg[u].id # o.id
    BY <1>5, <1>11, Apartness DEF Consistent, Unraced
  <2> QED
    BY <1>8, <1>9, <2>1, <2>2, SameSlot DEF Consistent
<1>12. LiveIn(store)' = LiveIn(store)
  BY <1>4 DEF LiveIn
<1>13. Consistent(bt)'
  <2>1. Called(bt)'
    BY <1>1, <1>4, <1>5, <1>6, CalledFrame DEF Consistent
  <2>2. OldFits(bt)'
    BY <1>1, <1>4, <1>5, <1>6, OldFrame DEF Consistent
  <2>3. SlotFits(bt)'
    BY <1>1, <1>4, <1>5, <1>6, SlotFrame DEF Consistent
  <2>4. IdsFit(bt)'
    BY <1>1, <1>4, <1>5, <1>6, IdsFrame DEF Consistent
  <2>5. InEngine(bt)'
    BY <1>1, <1>4, <1>5, <1>6, EngineFrame DEF Consistent
  <2>6. Indexed(bt)'
    <3>1. ASSUME NEW j \in LiveIn(store)
          PROVE  HasMeta(j)' \/ \E u \in Thread : bt[u] \in Indexing /\ reg'[u].slot = j
      <4>1. HasMeta(j) \/ \E u \in Thread : at[u] \in Indexing /\ reg[u].slot = j
        BY <1>5 DEF Consistent, Indexed
      <4>2. (HasMeta(j) \/ j = o.slot) => HasMeta(j)'
        <5>1. HasMeta(j) => HasMeta(j)'
          BY <1>4 DEF HasMeta
        <5>2. [slot |-> o.slot, meta |-> o.n] \in store'.meta /\ [slot |-> o.slot, meta |-> o.n].slot = o.slot
          BY <1>4
        <5>3. j = o.slot => HasMeta(j)'
          BY <5>2 DEF HasMeta
        <5> QED
          BY <5>1, <5>3
      <4>3. ASSUME NEW u \in Thread, reg[u].slot = j, j # o.slot
            PROVE  bt[u] = at[u] /\ reg'[u] = reg[u]
        BY <1>7, <4>3
      <4> QED
        BY <4>1, <4>2, <4>3
    <3> QED
      BY <1>12, <3>1 DEF Indexed
  <2>7. Compacting(bt)'
    BY <1>1, <1>4, <1>5, <1>6, CompactFrame DEF Consistent
  <2> QED
    BY <2>1, <2>2, <2>3, <2>4, <2>5, <2>6, <2>7 DEF Consistent
<1>14. ASSUME Unraced(at)
       PROVE  Unraced(bt)'
  <2>1. Apart(bt)'
    BY <1>1, <1>4, <1>5, <1>6, <1>14, ApartFrame DEF Unraced, Consistent
  <2>2. Sole(bt)'
    BY <1>1, <1>4, <1>5, <1>6, <1>14, SoleFrame DEF Unraced, Consistent
  <2>3. Carried(bt)'
    BY <1>1, <1>4, <1>5, <1>6, <1>14, CarriedFrame DEF Unraced, Consistent
  <2>4. MetaExact(bt)'
    <3>1. MetaExact(at)
      BY <1>14 DEF Unraced
    <3> DEFINE new == [slot |-> o.slot, meta |-> o.n]
    <3>2. store'.meta = store.meta \cup {new} /\ store'.slots = store.slots /\ store'.dead = store.dead
          /\ new.slot = o.slot /\ new.meta = o.n
      BY <1>4
    <3>3. bt[t] \in Rewriting => /\ reg'[t].old = o.slot /\ reg'[t].n = o.n /\ reg'[t].slot = o.slot
      BY <1>4, <1>8, <1>9
    <3> HIDE DEF new
    <3>4. ASSUME NEW e \in store'.meta
          PROVE  /\ e.slot \in DOMAIN store'.slots
                 /\ e.slot \in store'.dead =>
                      \E u \in Thread : bt[u] \in Unindexing /\ reg'[u].old = e.slot
                 /\ e.slot \notin store'.dead =>
                      \/ e.meta = store'.slots[e.slot].meta
                      \/ \E u \in Thread : bt[u] \in Rewriting /\ reg'[u].old = e.slot /\ reg'[u].n = e.meta
      <4>1. CASE e \in store.meta
        <5>1. /\ e.slot \in DOMAIN store.slots
              /\ e.slot \in store.dead => \E u \in Thread : at[u] \in Unindexing /\ reg[u].old = e.slot
              /\ e.slot \notin store.dead =>
                   \/ e.meta = store.slots[e.slot].meta
                   \/ \E u \in Thread : at[u] \in Rewriting /\ reg[u].old = e.slot /\ reg[u].n = e.meta
          BY <1>5, <3>1, <4>1 DEF MetaExact
        <5>2. ASSUME NEW u \in Thread, at[u] \in Unindexing \cup Rewriting
              PROVE  bt[u] = at[u] /\ reg'[u] = reg[u]
          BY <1>7, <1>8, <5>2
        <5> QED
          BY <3>2, <5>1, <5>2
      <4>2. CASE e = new
        <5>1. e.slot \in DOMAIN store'.slots /\ e.slot \notin store'.dead
          BY <1>14, <1>10, <3>2, <4>2 DEF LiveIn
        <5>2. CASE n \in AfterPush
          BY <1>14, <1>10, <3>2, <4>2, <5>1, <5>2
        <5>3. CASE n \in InPlace
          <6>1. bt[t] \in Rewriting /\ reg'[t].old = e.slot /\ reg'[t].n = e.meta
            BY <1>8, <3>2, <3>3, <4>2, <5>3
          <6> QED
            BY <5>1, <6>1
        <5> QED
          BY <1>8, <5>2, <5>3
      <4> QED
        BY <3>2, <4>1, <4>2
    <3>5. ASSUME NEW j \in LiveIn(store)'
          PROVE  \/ [slot |-> j, meta |-> store'.slots[j].meta] \in store'.meta
                 \/ \E u \in Thread : bt[u] \in Indexing \cup Rewriting /\ reg'[u].slot = j
      <4>1. CASE j = o.slot
        <5>1. CASE n \in AfterPush
          BY <1>14, <1>10, <3>2, <4>1, <5>1 DEF new
        <5>2. CASE n \in InPlace
          BY <1>8, <3>3, <4>1, <5>2
        <5> QED
          BY <1>8, <5>1, <5>2
      <4>2. CASE j # o.slot
        <5>1. \/ [slot |-> j, meta |-> store.slots[j].meta] \in store.meta
              \/ \E u \in Thread : at[u] \in Indexing \cup Rewriting /\ reg[u].slot = j
          BY <1>5, <1>12, <3>1 DEF MetaExact
        <5>2. ASSUME NEW u \in Thread, reg[u].slot = j
              PROVE  bt[u] = at[u] /\ reg'[u] = reg[u]
          BY <1>7, <4>2, <5>2
        <5> QED
          BY <3>2, <5>1, <5>2
      <4> QED
        BY <4>1, <4>2
    <3>6. ASSUME NEW u \in Thread, bt[u] \in Rewriting
          PROVE  [slot |-> reg'[u].old, meta |-> reg'[u].n] \in store'.meta
      <4>1. CASE u = t
        BY <3>2, <3>6, <3>3, <4>1 DEF new
      <4>2. CASE u # t
        <5>1. bt[u] = at[u] /\ reg'[u] = reg[u]
          BY <1>7, <4>2
        <5>2. [slot |-> reg[u].old, meta |-> reg[u].n] \in store.meta
          BY <1>5, <3>1, <3>6, <5>1 DEF MetaExact
        <5> QED
          BY <3>2, <5>1, <5>2
      <4> QED
        BY <4>1, <4>2
    <3>7. ASSUME NEW u \in Thread, bt[u] \in Rewriting, NEW e \in store'.meta, e.slot = reg'[u].old
          PROVE  e.meta = reg'[u].n
      <4>1. CASE u = t
        <5>1. \A x \in store.meta : x.slot # o.slot
          BY <1>5, <1>8, <3>1 DEF MetaExact
        <5>2. e.slot = o.slot
          BY <3>7, <3>3, <4>1
        <5> QED
          BY <3>2, <3>7, <3>3, <4>1, <5>1, <5>2
      <4>2. CASE u # t
        <5>1. bt[u] = at[u] /\ reg'[u] = reg[u]
          BY <1>7, <4>2
        <5>2. \A x \in store.meta : x.slot = reg[u].old => x.meta = reg[u].n
          BY <1>5, <3>1, <3>7, <5>1 DEF MetaExact
        <5>3. reg[u].old # o.slot
          BY <1>14, <1>11, <3>7, <4>2, <5>1, ModifyingPoints
        <5> QED
          BY <3>2, <3>7, <5>1, <5>2, <5>3
      <4> QED
        BY <4>1, <4>2
    <3>8. ASSUME NEW u \in Thread, bt[u] \in Indexing, NEW e \in store'.meta
          PROVE  e.slot # reg'[u].slot
      <4>1. u # t /\ bt[u] = at[u] /\ reg'[u] = reg[u]
        BY <1>7, <1>8, <3>8
      <4>2. \A x \in store.meta : x.slot # reg[u].slot
        BY <1>5, <3>1, <3>8, <4>1 DEF MetaExact
      <4>3. reg[u].slot # o.slot
        BY <1>14, <1>11, <3>8, <4>1, ModifyingPoints
      <4> QED
        BY <3>2, <4>1, <4>2, <4>3
    <3>9. \A u \in Thread : bt[u] \in Rewriting => \A e \in store'.meta : e.slot = reg'[u].old => e.meta = reg'[u].n
      BY <3>7
    <3> QED
      BY <3>4, <3>5, <3>6, <3>8, <3>9 DEF MetaExact
  <2>5. SparseExact(bt)'
    BY <1>1, <1>4, <1>5, <1>6, <1>14, SparseFrame DEF Unraced, Consistent
  <2>6. LogExact(bt)'
    BY <1>1, <1>4, <1>5, <1>6, <1>14, LogFrame DEF Unraced, Consistent
  <2> QED
    BY <2>1, <2>2, <2>3, <2>4, <2>5, <2>6 DEF Unraced
<1>15. r \in Local /\ store' \in Stores /\ log' \in Logs
  <2>1. store'.meta \in SUBSET [slot : Nat, meta : Nat]
    BY <1>2, <1>4, <1>9 DEF Stores, Local
  <2>2. store' = [store EXCEPT !.meta = store'.meta]
    BY <1>2, <1>3, <1>4 DEF Stores
  <2>3. store' \in Stores
    BY <1>2, <2>1, <2>2, StoreTyped
  <2> QED
    BY <1>2, <1>3, <2>3
<1> QED
  BY <1>13, <1>14, <1>15 DEF Preserved

\* It moves the sparse vector of the old slot to the new one.
LEMMA RemapKeeps ==
  ASSUME Typed, NEW at, NEW bt, NEW t \in Thread, Placed(at), Consistent(at),
         Accesses(at, bt, t, "remap"), at[t] \in RemapAt, bt[t] = at[t] + 1
  PROVE  Preserved(at, bt, t)
<1> DEFINE n == at[t]
           m == bt[t]
           o == reg[t]
           r == reg'[t]
<1>1. n \in RemapAt /\ m = n + 1 /\ Goes(at, bt, t) /\ UNCHANGED persistent
  BY DEF Accesses
<1>2. o \in Local /\ store \in Stores /\ log \in Logs
  BY LocalTyped
<1>3. /\ r = o
      /\ store' = [store EXCEPT !.sparse = IF r.old \in @ THEN (@ \ {r.old}) \cup {r.slot} ELSE @]
      /\ log' = log
  <2>1. r = Registers("remap", o, store, log) /\ store' = Changed("remap", r, store) /\ log' = Logged("remap", r, store, log)
    BY DEF Accesses
  <2> HIDE DEF n, m, o, r
  <2>2. r = o
    BY <2>1 DEF Registers
  <2>3. store' = [store EXCEPT !.sparse = IF r.old \in @ THEN (@ \ {r.old}) \cup {r.slot} ELSE @]
    BY <2>1 DEF Changed
  <2>4. log' = log
    BY <2>1 DEF Logged
  <2> QED
    BY <2>2, <2>3, <2>4
<1>4. /\ SameCall(o, r) /\ r = o /\ log' = log
      /\ store'.slots = store.slots /\ store'.ids = store.ids /\ store'.engine = store.engine
      /\ store'.meta = store.meta /\ store'.dead = store.dead
      /\ store'.sparse = (IF o.old \in store.sparse THEN (store.sparse \ {o.old}) \cup {o.slot} ELSE store.sparse)
      /\ Kept(store'.slots, store.slots) /\ store.dead \subseteq store'.dead
  BY <1>2, <1>3, KeptSame DEF Local, Stores, Logs, SameCall
<1>5. /\ Alone(at) /\ Held(at) /\ n \in GateReading /\ NoneAt(at, Excluding) /\ NoneAt(at, Replacing)
      /\ NoneAt(at, Unindexed) /\ NoneAt(at, Renumbering) /\ NoneAt(at, Cleared)
      /\ n \in Modifying /\ o.id \in Id
  <2>1. n \in GateReading
    BY <1>1 DEF GateReading, RemapAt
  <2>2. n \in Modifying
    BY <1>1 DEF Modifying, OfSet, OfBatch, OfUpdate, OfDelete, RemapAt
  <2>3. o.id \in Id
    BY <2>2, BusyId DEF Consistent
  <2>4. /\ NoneAt(at, Excluding) /\ NoneAt(at, Replacing)
        /\ NoneAt(at, Unindexed) /\ NoneAt(at, Renumbering) /\ NoneAt(at, Cleared)
    BY <2>1, Gated DEF Placed
  <2> QED
    BY <2>1, <2>2, <2>3, <2>4 DEF Placed
<1>6. /\ CalledPasses(n, m, o, r)
      /\ OldPasses(n, m, o, r)
      /\ SlotPasses(n, m, o, r)
      /\ IdsPass(n, m, o, r)
      /\ EnginePasses(n, m, o, r)
      /\ IndexPasses(n, m, o, r)
      /\ CompactPasses(n, m, o, r)
      /\ SolePasses(n, m, o, r)
      /\ MetaPasses(n, m, o, r)
      /\ LogPasses(n, m, o, r)
  <2> HIDE DEF n, m, o, r
  <2>1. SameCall(o, r) /\ r = o
    BY <1>4
  <2>2. CalledPasses(n, m, o, r)
    BY <1>1, <2>1 DEF CalledPasses, OfSet, OfBatch, OfUpdate, OfDelete, RemapAt
  <2>3. OldPasses(n, m, o, r)
    BY <1>1, <2>1 DEF OldPasses, LookedUp, Known, Unknown, InPlace, Carrying, RemapAt
  <2>4. SlotPasses(n, m, o, r)
    BY <1>1, <2>1 DEF SlotPasses, Burying, AfterPush, Deleted, RemapAt
  <2>5. IdsPass(n, m, o, r)
    BY <1>1, <2>1 DEF IdsPass, Replacing, Burying, RemapAt
  <2>6. EnginePasses(n, m, o, r)
    BY <1>1, <2>1 DEF EnginePasses, Replacing, Inserting, RemapAt
  <2>7. IndexPasses(n, m, o, r)
    BY <1>1, <2>1 DEF IndexPasses, Unindexed, Indexing, RemapAt
  <2>8. CompactPasses(n, m, o, r)
    BY <1>1, <2>1 DEF CompactPasses, Packed, Replacing, Emptied, Refilled, Exhumed, RemapAt
  <2>9. SolePasses(n, m, o, r)
    BY <1>1, <2>1 DEF SolePasses, Finding, Carrying, AfterPush, Deleted, Deciding, RemapAt
  <2>10. MetaPasses(n, m, o, r)
    BY <1>1, <2>1 DEF MetaPasses, Unindexed, Unindexing, Rewriting, Indexing, RemapAt
  <2>11. LogPasses(n, m, o, r)
    BY <1>1, <2>1 DEF LogPasses, Cleared, Unlogged, LoggedFirst, RemapAt
  <2> QED
    BY <2>2, <2>3, <2>4, <2>5, <2>6, <2>7, <2>8, <2>9, <2>10, <2>11
<1>7. \A u \in Thread : u # t => bt[u] = at[u] /\ reg'[u] = reg[u]
  BY <1>1 DEF Goes
<1>8. LiveIn(store)' = LiveIn(store)
  BY <1>4 DEF LiveIn
<1>9. /\ n \in AfterPush /\ n \in LookedUp /\ n \in Landed /\ n \in Relocating /\ n \notin Burying
      /\ m \notin Plain /\ m \notin Laden /\ m \notin Landed /\ m \notin Relocating /\ m \notin Renumbering
  <2> HIDE DEF n, m, o, r
  <2>1. n \in AfterPush /\ n \in LookedUp /\ n \in Landed /\ n \in Relocating /\ n \notin Burying
    BY <1>1 DEF AfterPush, LookedUp, Landed, Relocating, Burying, RemapAt
  <2>2. m \notin Plain /\ m \notin Laden /\ m \notin Landed /\ m \notin Relocating /\ m \notin Renumbering
    BY <1>1 DEF Plain, Laden, Landed, Relocating, Renumbering, RemapAt
  <2> QED
    BY <2>1, <2>2
<1>10. /\ o.slot \in DOMAIN store.slots /\ o.slot \in Nat /\ o.slot # None
       /\ o.old # None => o.old \in store.dead
  <2>1. o.slot \in DOMAIN store.slots /\ (o.old # None => o.old \in store.dead)
    BY <1>9 DEF Consistent, SlotFits
  <2> QED
    BY <1>2, <2>1, SlotTyped, ConcurrencyAssumption
<1>11. ASSUME Unraced(at), NEW u \in Thread, u # t, o.old # None
       PROVE  at[u] \in LookedUp => reg[u].old # o.old
  <2>1. o.old \in Nat /\ (at[u] \in LookedUp => at[u] \in Modifying)
    BY <1>2, <1>11, ModifyingPoints DEF Local
  <2>2. at[u] \in Modifying => reg[u].id # o.id
    BY <1>5, <1>11, Apartness DEF Consistent, Unraced
  <2> QED
    BY <1>9, <2>1, <2>2, SameSlot DEF Consistent
<1>12. ASSUME Unraced(at)
       PROVE  o.slot \in LiveIn(store)
  <2>1. store.ids[o.id] = o.slot
    BY <1>9, <1>12 DEF Unraced, Sole
  <2> QED
    BY <1>5, <1>9, <1>10, <1>12, <2>1, NotBuried DEF Unraced, Consistent
<1>13. None \notin store.sparse
  BY <1>2, ConcurrencyAssumption DEF Stores
<1>14. Consistent(bt)'
  <2>1. Called(bt)'
    BY <1>1, <1>4, <1>5, <1>6, CalledFrame DEF Consistent
  <2>2. OldFits(bt)'
    BY <1>1, <1>4, <1>5, <1>6, OldFrame DEF Consistent
  <2>3. SlotFits(bt)'
    BY <1>1, <1>4, <1>5, <1>6, SlotFrame DEF Consistent
  <2>4. IdsFit(bt)'
    BY <1>1, <1>4, <1>5, <1>6, IdsFrame DEF Consistent
  <2>5. InEngine(bt)'
    BY <1>1, <1>4, <1>5, <1>6, EngineFrame DEF Consistent
  <2>6. Indexed(bt)'
    BY <1>1, <1>4, <1>5, <1>6, IndexFrame DEF Consistent
  <2>7. Compacting(bt)'
    BY <1>1, <1>4, <1>5, <1>6, CompactFrame DEF Consistent
  <2> QED
    BY <2>1, <2>2, <2>3, <2>4, <2>5, <2>6, <2>7 DEF Consistent
<1>15. ASSUME Unraced(at)
       PROVE  Unraced(bt)'
  <2>1. Apart(bt)'
    BY <1>1, <1>4, <1>5, <1>6, <1>15, ApartFrame DEF Unraced, Consistent
  <2>2. Sole(bt)'
    BY <1>1, <1>4, <1>5, <1>6, <1>15, SoleFrame DEF Unraced, Consistent
  <2>3. Carried(bt)'
    <3>1. Carried(at)
      BY <1>15 DEF Unraced
    <3>2. ASSUME NEW u \in Thread
          PROVE  /\ bt[u] \in Plain => ~reg'[u].sparse
                 /\ bt[u] \in Laden => reg'[u].sparse = (reg'[u].old # None /\ store'.slots[reg'[u].old].sparse)
                 /\ bt[u] \in Landed => store'.slots[reg'[u].slot].sparse =
                                          (reg'[u].old # None /\ store'.slots[reg'[u].old].sparse)
                 /\ bt[u] \in Relocating /\ reg'[u].old # None =>
                      (store'.slots[reg'[u].old].sparse => reg'[u].old \in store'.sparse)
      <4>1. CASE u = t
        BY <1>9, <4>1
      <4>2. CASE u # t
        <5>1. bt[u] = at[u] /\ reg'[u] = reg[u] /\ store'.slots = store.slots
          BY <1>4, <1>7, <4>2
        <5>2. /\ at[u] \in Plain => ~reg[u].sparse
              /\ at[u] \in Laden => reg[u].sparse = (reg[u].old # None /\ store.slots[reg[u].old].sparse)
              /\ at[u] \in Landed => store.slots[reg[u].slot].sparse =
                                       (reg[u].old # None /\ store.slots[reg[u].old].sparse)
              /\ at[u] \in Relocating /\ reg[u].old # None =>
                   (store.slots[reg[u].old].sparse => reg[u].old \in store.sparse)
          BY <3>1 DEF Carried, CarriesSparse
        <5>3. at[u] \in Relocating /\ reg[u].old \in store.sparse => reg[u].old \in store'.sparse
          BY <1>4, <1>15, <1>11, <1>13, <4>2, ModifyingPoints
        <5>4. at[u] \in Relocating /\ reg[u].old # None =>
                 (store'.slots[reg[u].old].sparse => reg[u].old \in store'.sparse)
          BY <5>1, <5>2, <5>3
        <5> QED
          BY <5>1, <5>2, <5>4
      <4> QED
        BY <4>1, <4>2
    <3> QED
      BY <3>2 DEF Carried, CarriesSparse
  <2>4. MetaExact(bt)'
    BY <1>1, <1>4, <1>5, <1>6, <1>15, MetaFrame DEF Unraced, Consistent
  <2>5. SparseExact(bt)'
    <3>1. SparseExact(at) /\ Carried(at)
      BY <1>15 DEF Unraced
    <3>2. store.slots[o.slot].sparse = (o.old # None /\ store.slots[o.old].sparse)
      BY <1>9, <3>1 DEF Carried
    <3>3. o.old # None /\ store.slots[o.old].sparse => o.old \in store.sparse
      BY <1>9, <3>1 DEF Carried
    <3>4. ASSUME NEW j \in store'.sparse
          PROVE  /\ j \in DOMAIN store'.slots /\ store'.slots[j].sparse
                 /\ j \in store'.dead => \E u \in Thread : bt[u] \in Dropping /\ reg'[u].old = j
      <4>1. CASE j \in store.sparse /\ j # o.old
        <5>1. /\ j \in DOMAIN store.slots /\ store.slots[j].sparse
              /\ j \in store.dead => \E u \in Thread : at[u] \in Dropping /\ reg[u].old = j
          BY <1>5, <3>1, <4>1 DEF SparseExact
        <5>2. ASSUME NEW u \in Thread, reg[u].old = j
              PROVE  bt[u] = at[u] /\ reg'[u] = reg[u]
          BY <1>7, <4>1, <5>2
        <5>3. store'.slots = store.slots /\ store'.dead = store.dead
          BY <1>4
        <5> QED
          BY <5>1, <5>2, <5>3
      <4>2. CASE j = o.slot /\ o.old \in store.sparse
        <5>1. store.slots[o.old].sparse /\ o.old # None
          BY <1>5, <1>13, <3>1, <4>2 DEF SparseExact
        <5>2. store.slots[j].sparse
          BY <3>2, <4>2, <5>1
        <5>3. j \notin store.dead
          BY <1>15, <1>12, <4>2 DEF LiveIn
        <5> QED
          BY <1>4, <1>10, <4>2, <5>2, <5>3
      <4> QED
        BY <1>4, <4>1, <4>2
    <3>5. ASSUME NEW j \in LiveIn(store), store.slots[j].sparse
          PROVE  \/ j \in store'.sparse
                 \/ \E u \in Thread : bt[u] \in Placing /\ reg'[u].slot = j
      <4>1. \/ j \in store.sparse
            \/ \E u \in Thread : at[u] \in Placing /\ reg[u].slot = j
        BY <1>5, <3>1, <3>5 DEF SparseExact
      <4>2. CASE j = o.slot
        BY <1>4, <3>2, <3>3, <3>5, <4>2
      <4>3. CASE j # o.slot
        <5>1. ASSUME NEW u \in Thread, reg[u].slot = j
              PROVE  bt[u] = at[u] /\ reg'[u] = reg[u]
          BY <1>7, <4>3, <5>1
        <5>2. j # o.old
          BY <1>2, <1>10, SlotTyped, ConcurrencyAssumption DEF LiveIn
        <5>3. j \in store.sparse => j \in store'.sparse
          BY <1>4, <5>2
        <5> QED
          BY <4>1, <5>1, <5>3
      <4> QED
        BY <4>2, <4>3
    <3>6. \A u \in Thread : bt[u] \notin Renumbering
      BY <1>5, <1>7, <1>9 DEF NoneAt
    <3>7. \A j \in LiveIn(store)' : store'.slots[j].sparse =>
            \/ j \in store'.sparse
            \/ \E u \in Thread : bt[u] \in Placing /\ reg'[u].slot = j
      BY <1>4, <1>8, <3>5
    <3> QED
      BY <3>4, <3>6, <3>7 DEF SparseExact
  <2>6. LogExact(bt)'
    BY <1>1, <1>4, <1>5, <1>6, <1>15, LogFrame DEF Unraced, Consistent
  <2> QED
    BY <2>1, <2>2, <2>3, <2>4, <2>5, <2>6 DEF Unraced
<1>16. r \in Local /\ store' \in Stores /\ log' \in Logs
  <2>1. store.sparse \in SUBSET Nat
    BY <1>2 DEF Stores
  <2>2. store'.sparse \in SUBSET Nat
    BY <1>4, <1>10, <2>1
  <2>3. store' = [store EXCEPT !.sparse = store'.sparse]
    BY <1>2, <1>3, <1>4 DEF Stores
  <2>4. store' \in Stores
    BY <1>2, <2>2, <2>3, StoreTyped
  <2> QED
    BY <1>2, <1>3, <2>4
<1> QED
  BY <1>14, <1>15, <1>16 DEF Preserved

\* A delete takes the sparse vector of its slot from the index.
LEMMA DropKeeps ==
  ASSUME Typed, NEW at, NEW bt, NEW t \in Thread, Placed(at), Consistent(at),
         Accesses(at, bt, t, "drop"), at[t] \in {411}, bt[t] = IF persistent THEN 412 ELSE 901
  PROVE  Preserved(at, bt, t)
<1> DEFINE n == at[t]
           m == bt[t]
           o == reg[t]
           r == reg'[t]
<1>1. n \in {411} /\ (m = IF persistent THEN 412 ELSE 901) /\ Goes(at, bt, t) /\ UNCHANGED persistent
  BY DEF Accesses
<1>2. o \in Local /\ store \in Stores /\ log \in Logs
  BY LocalTyped
<1>3. /\ r = o
      /\ store' = [store EXCEPT !.sparse = @ \ {r.old}]
      /\ log' = log
  <2>1. r = Registers("drop", o, store, log) /\ store' = Changed("drop", r, store) /\ log' = Logged("drop", r, store, log)
    BY DEF Accesses
  <2> HIDE DEF n, m, o, r
  <2>2. r = o
    BY <2>1 DEF Registers
  <2>3. store' = [store EXCEPT !.sparse = @ \ {r.old}]
    BY <2>1 DEF Changed
  <2>4. log' = log
    BY <2>1 DEF Logged
  <2> QED
    BY <2>2, <2>3, <2>4
<1>4. /\ SameCall(o, r) /\ r = o /\ log' = log
      /\ store'.slots = store.slots /\ store'.ids = store.ids /\ store'.engine = store.engine
      /\ store'.meta = store.meta /\ store'.dead = store.dead
      /\ store'.sparse = store.sparse \ {o.old}
      /\ Kept(store'.slots, store.slots) /\ store.dead \subseteq store'.dead
  BY <1>2, <1>3, KeptSame DEF Local, Stores, Logs, SameCall
<1>5. /\ Alone(at) /\ Held(at) /\ n \in GateReading /\ NoneAt(at, Excluding) /\ NoneAt(at, Replacing)
      /\ NoneAt(at, Unindexed) /\ NoneAt(at, Renumbering) /\ NoneAt(at, Cleared)
      /\ n \in Modifying /\ o.id \in Id
  <2>1. n \in GateReading
    BY <1>1 DEF GateReading
  <2>2. n \in Modifying
    BY <1>1 DEF Modifying, OfSet, OfBatch, OfUpdate, OfDelete
  <2>3. o.id \in Id
    BY <2>2, BusyId DEF Consistent
  <2>4. /\ NoneAt(at, Excluding) /\ NoneAt(at, Replacing)
        /\ NoneAt(at, Unindexed) /\ NoneAt(at, Renumbering) /\ NoneAt(at, Cleared)
    BY <2>1, Gated DEF Placed
  <2> QED
    BY <2>1, <2>2, <2>3, <2>4 DEF Placed
<1>6. /\ CalledPasses(n, m, o, r)
      /\ OldPasses(n, m, o, r)
      /\ SlotPasses(n, m, o, r)
      /\ IdsPass(n, m, o, r)
      /\ EnginePasses(n, m, o, r)
      /\ IndexPasses(n, m, o, r)
      /\ CompactPasses(n, m, o, r)
      /\ SolePasses(n, m, o, r)
      /\ MetaPasses(n, m, o, r)
      /\ LogPasses(n, m, o, r)
  <2> HIDE DEF n, m, o, r
  <2>1. SameCall(o, r) /\ r = o
    BY <1>4
  <2>2. CalledPasses(n, m, o, r)
    BY <1>1, <2>1 DEF CalledPasses, OfSet, OfBatch, OfUpdate, OfDelete
  <2>3. OldPasses(n, m, o, r)
    BY <1>1, <2>1 DEF OldPasses, LookedUp, Known, Unknown, InPlace, Carrying
  <2>4. SlotPasses(n, m, o, r)
    BY <1>1, <2>1 DEF SlotPasses, Burying, AfterPush, Deleted
  <2>5. IdsPass(n, m, o, r)
    BY <1>1, <2>1 DEF IdsPass, Replacing, Burying
  <2>6. EnginePasses(n, m, o, r)
    BY <1>1, <2>1 DEF EnginePasses, Replacing, Inserting
  <2>7. IndexPasses(n, m, o, r)
    BY <1>1, <2>1 DEF IndexPasses, Unindexed, Indexing
  <2>8. CompactPasses(n, m, o, r)
    BY <1>1, <2>1 DEF CompactPasses, Packed, Replacing, Emptied, Refilled, Exhumed
  <2>9. SolePasses(n, m, o, r)
    BY <1>1, <2>1 DEF SolePasses, Finding, Carrying, AfterPush, Deleted, Deciding
  <2>10. MetaPasses(n, m, o, r)
    BY <1>1, <2>1 DEF MetaPasses, Unindexed, Unindexing, Rewriting, Indexing
  <2>11. LogPasses(n, m, o, r)
    BY <1>1, <2>1 DEF LogPasses, Cleared, Unlogged, LoggedFirst
  <2> QED
    BY <2>2, <2>3, <2>4, <2>5, <2>6, <2>7, <2>8, <2>9, <2>10, <2>11
<1>7. \A u \in Thread : u # t => bt[u] = at[u] /\ reg'[u] = reg[u]
  BY <1>1 DEF Goes
<1>8. LiveIn(store)' = LiveIn(store)
  BY <1>4 DEF LiveIn
<1>9. /\ n \in LookedUp /\ n \in Deleted /\ n \notin Placing /\ n \in Known
      /\ m \notin Plain /\ m \notin Laden /\ m \notin Landed /\ m \notin Relocating /\ m \notin Renumbering
  <2> HIDE DEF n, m, o, r
  <2>1. n \in LookedUp /\ n \in Deleted /\ n \notin Placing /\ n \in Known
    BY <1>1 DEF LookedUp, Deleted, Placing, Known
  <2>2. m \notin Plain /\ m \notin Laden /\ m \notin Landed /\ m \notin Relocating /\ m \notin Renumbering
    BY <1>1 DEF Plain, Laden, Landed, Relocating, Renumbering
  <2> QED
    BY <2>1, <2>2
<1>10. o.old # None /\ o.old \in store.dead
  BY <1>9 DEF Consistent, OldFits, SlotFits
<1>11. ASSUME Unraced(at), NEW u \in Thread, u # t, o.old # None
       PROVE  at[u] \in LookedUp => reg[u].old # o.old
  <2>1. o.old \in Nat /\ (at[u] \in LookedUp => at[u] \in Modifying)
    BY <1>2, <1>11, ModifyingPoints DEF Local
  <2>2. at[u] \in Modifying => reg[u].id # o.id
    BY <1>5, <1>11, Apartness DEF Consistent, Unraced
  <2> QED
    BY <1>9, <2>1, <2>2, SameSlot DEF Consistent
<1>12. Consistent(bt)'
  <2>1. Called(bt)'
    BY <1>1, <1>4, <1>5, <1>6, CalledFrame DEF Consistent
  <2>2. OldFits(bt)'
    BY <1>1, <1>4, <1>5, <1>6, OldFrame DEF Consistent
  <2>3. SlotFits(bt)'
    BY <1>1, <1>4, <1>5, <1>6, SlotFrame DEF Consistent
  <2>4. IdsFit(bt)'
    BY <1>1, <1>4, <1>5, <1>6, IdsFrame DEF Consistent
  <2>5. InEngine(bt)'
    BY <1>1, <1>4, <1>5, <1>6, EngineFrame DEF Consistent
  <2>6. Indexed(bt)'
    BY <1>1, <1>4, <1>5, <1>6, IndexFrame DEF Consistent
  <2>7. Compacting(bt)'
    BY <1>1, <1>4, <1>5, <1>6, CompactFrame DEF Consistent
  <2> QED
    BY <2>1, <2>2, <2>3, <2>4, <2>5, <2>6, <2>7 DEF Consistent
<1>13. ASSUME Unraced(at)
       PROVE  Unraced(bt)'
  <2>1. Apart(bt)'
    BY <1>1, <1>4, <1>5, <1>6, <1>13, ApartFrame DEF Unraced, Consistent
  <2>2. Sole(bt)'
    BY <1>1, <1>4, <1>5, <1>6, <1>13, SoleFrame DEF Unraced, Consistent
  <2>3. Carried(bt)'
    <3>1. Carried(at)
      BY <1>13 DEF Unraced
    <3>2. ASSUME NEW u \in Thread
          PROVE  /\ bt[u] \in Plain => ~reg'[u].sparse
                 /\ bt[u] \in Laden => reg'[u].sparse = (reg'[u].old # None /\ store'.slots[reg'[u].old].sparse)
                 /\ bt[u] \in Landed => store'.slots[reg'[u].slot].sparse =
                                          (reg'[u].old # None /\ store'.slots[reg'[u].old].sparse)
                 /\ bt[u] \in Relocating /\ reg'[u].old # None =>
                      (store'.slots[reg'[u].old].sparse => reg'[u].old \in store'.sparse)
      <4>1. CASE u = t
        BY <1>9, <4>1
      <4>2. CASE u # t
        <5>1. bt[u] = at[u] /\ reg'[u] = reg[u] /\ store'.slots = store.slots
          BY <1>4, <1>7, <4>2
        <5>2. /\ at[u] \in Plain => ~reg[u].sparse
              /\ at[u] \in Laden => reg[u].sparse = (reg[u].old # None /\ store.slots[reg[u].old].sparse)
              /\ at[u] \in Landed => store.slots[reg[u].slot].sparse =
                                       (reg[u].old # None /\ store.slots[reg[u].old].sparse)
              /\ at[u] \in Relocating /\ reg[u].old # None =>
                   (store.slots[reg[u].old].sparse => reg[u].old \in store.sparse)
          BY <3>1 DEF Carried, CarriesSparse
        <5>3. at[u] \in Relocating /\ reg[u].old \in store.sparse => reg[u].old \in store'.sparse
          BY <1>4, <1>13, <1>10, <1>11, <4>2, ModifyingPoints
        <5>4. at[u] \in Relocating /\ reg[u].old # None =>
                 (store'.slots[reg[u].old].sparse => reg[u].old \in store'.sparse)
          BY <5>1, <5>2, <5>3
        <5> QED
          BY <5>1, <5>2, <5>4
      <4> QED
        BY <4>1, <4>2
    <3> QED
      BY <3>2 DEF Carried, CarriesSparse
  <2>4. MetaExact(bt)'
    BY <1>1, <1>4, <1>5, <1>6, <1>13, MetaFrame DEF Unraced, Consistent
  <2>5. SparseExact(bt)'
    <3>1. SparseExact(at) /\ Carried(at)
      BY <1>13 DEF Unraced
    <3>4. ASSUME NEW j \in store'.sparse
          PROVE  /\ j \in DOMAIN store'.slots /\ store'.slots[j].sparse
                 /\ j \in store'.dead => \E u \in Thread : bt[u] \in Dropping /\ reg'[u].old = j
      <4>1. j \in store.sparse /\ j # o.old
        BY <1>4
      <4>2. /\ j \in DOMAIN store.slots /\ store.slots[j].sparse
            /\ j \in store.dead => \E u \in Thread : at[u] \in Dropping /\ reg[u].old = j
        BY <1>5, <3>1, <4>1 DEF SparseExact
      <4>3. ASSUME NEW u \in Thread, reg[u].old = j
            PROVE  bt[u] = at[u] /\ reg'[u] = reg[u]
        BY <1>7, <4>1, <4>3
      <4>4. store'.slots = store.slots /\ store'.dead = store.dead
        BY <1>4
      <4> QED
        BY <4>2, <4>3, <4>4
    <3>5. ASSUME NEW j \in LiveIn(store), store.slots[j].sparse
          PROVE  \/ j \in store'.sparse
                 \/ \E u \in Thread : bt[u] \in Placing /\ reg'[u].slot = j
      <4>1. \/ j \in store.sparse
            \/ \E u \in Thread : at[u] \in Placing /\ reg[u].slot = j
        BY <1>5, <3>1, <3>5 DEF SparseExact
      <4>2. ASSUME NEW u \in Thread, at[u] \in Placing
            PROVE  bt[u] = at[u] /\ reg'[u] = reg[u]
        BY <1>7, <1>9, <4>2
      <4>3. j # o.old
        BY <1>10 DEF LiveIn
      <4> QED
        BY <1>4, <4>1, <4>2, <4>3
    <3>6. \A u \in Thread : bt[u] \notin Renumbering
      BY <1>5, <1>7, <1>9 DEF NoneAt
    <3>7. \A j \in LiveIn(store)' : store'.slots[j].sparse =>
            \/ j \in store'.sparse
            \/ \E u \in Thread : bt[u] \in Placing /\ reg'[u].slot = j
      BY <1>4, <1>8, <3>5
    <3> QED
      BY <3>4, <3>6, <3>7 DEF SparseExact
  <2>6. LogExact(bt)'
    BY <1>1, <1>4, <1>5, <1>6, <1>13, LogFrame DEF Unraced, Consistent
  <2> QED
    BY <2>1, <2>2, <2>3, <2>4, <2>5, <2>6 DEF Unraced
<1>14. r \in Local /\ store' \in Stores /\ log' \in Logs
  <2>1. store.sparse \in SUBSET Nat
    BY <1>2 DEF Stores
  <2>2. store'.sparse \in SUBSET Nat
    BY <1>4, <2>1
  <2>3. store' = [store EXCEPT !.sparse = store'.sparse]
    BY <1>2, <1>3, <1>4 DEF Stores
  <2>4. store' \in Stores
    <3> HIDE DEF n, m, o, r
    <3>1. \A x \in SUBSET Nat : [store EXCEPT !.sparse = x] \in Stores
      BY <1>2, StoreTyped, ZenonT(60)
    <3> QED
      BY <2>2, <2>3, <3>1
  <2> QED
    BY <1>2, <1>3, <2>4
<1> QED
  BY <1>12, <1>13, <1>14 DEF Preserved

-----------------------------------------------------------------------------
(* The log.                                                                *)

\* What a checkpoint saves, and a log entry.
Image == [Id -> SlotRecord \cup {None}]

Entry == [id : Id, record : SlotRecord \cup {None}]

Replays(f, saved, es) ==
  /\ DOMAIN f = 0..Len(es)
  /\ f[0] = saved
  /\ \A n \in 1..Len(es) : f[n] = [f[n - 1] EXCEPT ![es[n].id] = es[n].record]

\* Replay goes from the saved records to its result, entry by entry.
LEMMA ReplayRuns ==
  ASSUME NEW saved \in Image, NEW es \in Seq(Entry)
  PROVE  \E f : Replays(f, saved, es) /\ Replay(saved, es) = f[Len(es)]
<1> DEFINE N == Len(es)
           step == [x \in Image \X (1..N) |-> [x[1] EXCEPT ![es[x[2]].id] = es[x[2]].record]]
           Fits_(h) == h = [n \in 0..N |-> IF n = 0 THEN saved
                                          ELSE [h[n - 1] EXCEPT ![es[n].id] = es[n].record]]
           after == CHOOSE h : Fits_(h)
<1>1. N \in Nat
  OBVIOUS
<1>2. \A n \in 1..N : es[n].id \in Id /\ es[n].record \in SlotRecord \cup {None}
  <2> TAKE n \in 1..N
  <2>1. es[n] \in Entry
    OBVIOUS
  <2> QED
    BY <2>1 DEF Entry
<1>3. step \in [Image \X (1..N) -> Image]
  <2>1. ASSUME NEW x \in Image \X (1..N)
        PROVE  [x[1] EXCEPT ![es[x[2]].id] = es[x[2]].record] \in Image
    <3>1. x[1] \in Image /\ x[2] \in 1..N
      OBVIOUS
    <3>2. es[x[2]].record \in SlotRecord \cup {None}
      BY <1>2, <3>1
    <3> DEFINE g == x[1]
               i == es[x[2]].id
               v == es[x[2]].record
    <3> HIDE DEF g, i, v
    <3>3. [g EXCEPT ![i] = v] \in Image
      BY <3>1, <3>2 DEF Image, g, v
    <3> QED
      BY <3>3 DEF g, i, v
  <2> QED
    BY <2>1
<1>4. PICK f \in [0..N -> Image] :
           f[0] = saved /\ \A n \in 1..N : f[n] = step[<<f[n - 1], n>>]
  <2> HIDE DEF N, step
  <2>1. Runs(Image, saved, N, step) # {}
    BY <1>1, <1>3, RecursionExists
  <2> QED
    BY <2>1 DEF Runs
<1>5. \A n \in 1..N : f[n] = [f[n - 1] EXCEPT ![es[n].id] = es[n].record]
  <2> TAKE n \in 1..N
  <2>1. f[n - 1] \in Image
    BY <1>1
  <2>2. <<f[n - 1], n>> \in Image \X (1..N)
    BY <2>1
  <2>3. step[<<f[n - 1], n>>] = [f[n - 1] EXCEPT ![es[n].id] = es[n].record]
    BY <2>2
  <2> QED
    BY <1>4, <2>3
<1>6. Fits_(f)
  <2>1. \A n \in 0..N : f[n] = IF n = 0 THEN saved
                               ELSE [f[n - 1] EXCEPT ![es[n].id] = es[n].record]
    BY <1>1, <1>4, <1>5, SMTT(30)
  <2> HIDE DEF N
  <2> QED
    BY <1>4, <2>1
<1>7. Fits_(after)
  BY <1>6
<1>8. Replays(after, saved, es)
  <2> HIDE DEF after
  <2>1. DOMAIN after = 0..N
    BY <1>7
  <2>2. \A n \in 0..N : after[n] = IF n = 0 THEN saved
                                   ELSE [after[n - 1] EXCEPT ![es[n].id] = es[n].record]
    <3> HIDE DEF N
    <3> QED
      BY <1>7
  <2>3. after[0] = saved
    BY <1>1, <2>2
  <2>4. \A n \in 1..N : after[n] = [after[n - 1] EXCEPT ![es[n].id] = es[n].record]
    <3> TAKE n \in 1..N
    <3>1. n \in 0..N /\ n # 0
      BY <1>1
    <3> HIDE DEF N
    <3> QED
      BY <2>2, <3>1
  <2> QED
    BY <2>1, <2>3, <2>4 DEF Replays
<1>9. Replay(saved, es) = after[N]
  BY DEF Replay
<1> HIDE DEF after
<1> QED
  BY <1>8, <1>9

\* The records after an entry are those before it, but for the record of the entry.
LEMMA ReplayAppend ==
  ASSUME NEW saved \in Image, NEW es \in Seq(Entry)
  PROVE  /\ Replay(saved, es) \in Image
         /\ \A e \in Entry :
              Replay(saved, Append(es, e)) = [Replay(saved, es) EXCEPT ![e.id] = e.record]
         /\ es = << >> => Replay(saved, es) = saved
<1>1. PICK f : Replays(f, saved, es) /\ Replay(saved, es) = f[Len(es)]
  BY ReplayRuns
<1>2. Len(es) \in Nat /\ \A n \in 1..Len(es) : es[n].id \in Id /\ es[n].record \in SlotRecord \cup {None}
  <2>1. Len(es) \in Nat
    OBVIOUS
  <2>2. ASSUME NEW n \in 1..Len(es)
        PROVE  es[n].id \in Id /\ es[n].record \in SlotRecord \cup {None}
    <3>1. es[n] \in Entry
      OBVIOUS
    <3> QED
      BY <3>1 DEF Entry
  <2> QED
    BY <2>1, <2>2
<1>3. \A n \in 0..Len(es) : f[n] \in Image
  <2> DEFINE Good == {n \in 0..Len(es) : f[n] \in Image}
  <2>1. 0 \in Good
    BY <1>1, <1>2 DEF Replays
  <2>2. ASSUME NEW n \in 1..Len(es), n - 1 \in Good
        PROVE  n \in Good
    <3>1. f[n] = [f[n - 1] EXCEPT ![es[n].id] = es[n].record] /\ f[n - 1] \in Image
      BY <1>1, <2>2 DEF Replays
    <3> DEFINE g == f[n - 1]
               i == es[n].id
               v == es[n].record
    <3>2. g \in Image /\ v \in SlotRecord \cup {None} /\ f[n] = [g EXCEPT ![i] = v]
      BY <1>2, <3>1
    <3> HIDE DEF g, i, v
    <3>3. f[n] \in Image
      BY <3>2 DEF Image
    <3> QED
      BY <1>2, <3>3
  <2> HIDE DEF Good
  <2>3. \A n \in 0..Len(es) : n \in Good
    BY <1>2, <2>1, <2>2, IntervalInduction
  <2> QED
    BY <2>3 DEF Good
<1>4. ASSUME NEW e \in Entry
      PROVE  Replay(saved, Append(es, e)) = [Replay(saved, es) EXCEPT ![e.id] = e.record]
  <2> DEFINE ap == Append(es, e)
             N == Len(es)
  <2>1. /\ ap \in Seq(Entry) /\ Len(ap) = N + 1 /\ N \in Nat /\ ap[N + 1] = e
        /\ \A n \in 1..N : ap[n] = es[n]
    OBVIOUS
  <2> HIDE DEF ap, N
  <2>2. PICK g : Replays(g, saved, ap) /\ Replay(saved, ap) = g[Len(ap)]
    BY <2>1, ReplayRuns
  <2>3. \A n \in 0..N : g[n] = f[n]
    <3> DEFINE Good == {n \in 0..N : g[n] = f[n]}
    <3>1. 0 \in Good
      BY <1>1, <2>1, <2>2 DEF Replays
    <3>2. ASSUME NEW n \in 1..N, n - 1 \in Good
          PROVE  n \in Good
      <4>1. n \in 1..Len(ap)
        BY <2>1
      <4>2. g[n] = [g[n - 1] EXCEPT ![ap[n].id] = ap[n].record]
        BY <2>2, <4>1 DEF Replays
      <4>3. f[n] = [f[n - 1] EXCEPT ![es[n].id] = es[n].record]
        BY <1>1 DEF Replays, N
      <4>4. ap[n] = es[n] /\ g[n - 1] = f[n - 1]
        BY <2>1, <3>2
      <4>5. g[n] = f[n]
        BY <4>2, <4>3, <4>4
      <4> QED
        BY <2>1, <4>5
    <3> HIDE DEF Good
    <3>3. \A n \in 0..N : n \in Good
      BY <2>1, <3>1, <3>2, IntervalInduction
    <3> QED
      BY <3>3 DEF Good
  <2>4. g[N + 1] = [g[N] EXCEPT ![e.id] = e.record]
    <3>1. N + 1 \in 1..Len(ap) /\ (N + 1) - 1 = N
      BY <2>1
    <3>2. g[N + 1] = [g[(N + 1) - 1] EXCEPT ![ap[N + 1].id] = ap[N + 1].record]
      BY <2>2, <3>1 DEF Replays
    <3> QED
      BY <2>1, <3>1, <3>2
  <2>5. g[N] = f[N]
    BY <2>1, <2>3
  <2> QED
    BY <1>1, <2>1, <2>2, <2>4, <2>5 DEF ap, N
<1>5. f[Len(es)] \in Image
  BY <1>2, <1>3
<1>6. es = << >> => Replay(saved, es) = saved
  <2>1. es = << >> => Len(es) = 0
    OBVIOUS
  <2> QED
    BY <1>1, <2>1 DEF Replays
<1> QED
  BY <1>1, <1>4, <1>5, <1>6

LEMMA ReplayedNext ==
  ASSUME log \in Logs, NEW e \in Entry, log'.saved = log.saved, log'.entries = Append(log.entries, e)
  PROVE  /\ Replayed \in Image
         /\ Replayed' = [Replayed EXCEPT ![e.id] = e.record]
<1>1. log.saved \in Image /\ log.entries \in Seq(Entry)
  BY DEF Logs, Image, Entry
<1>2. Replayed \in Image
  BY <1>1, ReplayAppend DEF Replayed
<1>3. Replayed' = Replay(log'.saved, log'.entries)
  BY DEF Replayed, Replay
<1>4. Replayed' = Replay(log.saved, Append(log.entries, e))
  BY <1>3
<1>5. Replay(log.saved, Append(log.entries, e)) = [Replay(log.saved, log.entries) EXCEPT ![e.id] = e.record]
  BY <1>1, ReplayAppend
<1> QED
  BY <1>2, <1>4, <1>5 DEF Replayed

LEMMA RecordTyped ==
  ASSUME NEW x \in SlotRecord, NEW k \in Nat
  PROVE  /\ [x EXCEPT !.meta = k] \in SlotRecord
         /\ x.meta = k => [x EXCEPT !.meta = k] = x
  BY DEF SlotRecord

\* It logs the record of its slot, with its own metadata.
LEMMA LogKeeps ==
  ASSUME Typed, NEW at, NEW bt, NEW t \in Thread, Placed(at), Consistent(at),
         Accesses(at, bt, t, "log"), at[t] \in LogAt, bt[t] = at[t] + 1
  PROVE  Preserved(at, bt, t)
<1> DEFINE n == at[t]
           m == bt[t]
           o == reg[t]
           r == reg'[t]
           e == [id |-> o.id, record |-> [store.slots[o.slot] EXCEPT !.meta = o.n]]
<1>1. n \in LogAt /\ m = n + 1 /\ Goes(at, bt, t) /\ UNCHANGED persistent
  BY DEF Accesses
<1>2. o \in Local /\ store \in Stores /\ log \in Logs
  BY LocalTyped
<1>3. /\ r = [o EXCEPT !.full = Len(log.entries) + 1 >= LogLimit]
      /\ store' = store
      /\ log' = [log EXCEPT !.entries = Append(@, [id |-> r.id, record |-> [store.slots[r.slot] EXCEPT !.meta = r.n]])]
  <2>1. r = Registers("log", o, store, log) /\ store' = Changed("log", r, store) /\ log' = Logged("log", r, store, log)
    BY DEF Accesses
  <2> HIDE DEF n, m, o, r
  <2>2. r = [o EXCEPT !.full = Len(log.entries) + 1 >= LogLimit]
    BY <2>1 DEF Registers
  <2>3. store' = store
    BY <2>1 DEF Changed
  <2>4. log' = [log EXCEPT !.entries = Append(@, [id |-> r.id, record |-> [store.slots[r.slot] EXCEPT !.meta = r.n]])]
    BY <2>1 DEF Logged
  <2> QED
    BY <2>2, <2>3, <2>4
<1>4. /\ SameCall(o, r) /\ r.old = o.old /\ r.slot = o.slot /\ r.cur = o.cur
      /\ r.sparse = o.sparse /\ r.ok = o.ok /\ r.order = o.order
      /\ store' = store /\ Kept(store'.slots, store.slots)
      /\ store.dead \subseteq store'.dead /\ store.sparse \subseteq store'.sparse
      /\ log'.saved = log.saved /\ log'.whole = log.whole
      /\ log'.entries = Append(log.entries, e)
  BY <1>2, <1>3, KeptSame DEF Local, Stores, Logs, SameCall
<1>5. /\ Alone(at) /\ Held(at) /\ n \in GateReading /\ NoneAt(at, Excluding) /\ NoneAt(at, Replacing)
      /\ NoneAt(at, Unindexed) /\ NoneAt(at, Renumbering) /\ NoneAt(at, Cleared)
      /\ n \in Modifying /\ o.id \in Id
  <2>1. n \in GateReading
    BY <1>1 DEF GateReading, LogAt
  <2>2. n \in Modifying
    BY <1>1 DEF Modifying, OfSet, OfBatch, OfUpdate, OfDelete, LogAt
  <2>3. o.id \in Id
    BY <2>2, BusyId DEF Consistent
  <2>4. /\ NoneAt(at, Excluding) /\ NoneAt(at, Replacing)
        /\ NoneAt(at, Unindexed) /\ NoneAt(at, Renumbering) /\ NoneAt(at, Cleared)
    BY <2>1, Gated DEF Placed
  <2> QED
    BY <2>1, <2>2, <2>3, <2>4 DEF Placed
<1>6. /\ CalledPasses(n, m, o, r)
      /\ OldPasses(n, m, o, r)
      /\ SlotPasses(n, m, o, r)
      /\ IdsPass(n, m, o, r)
      /\ EnginePasses(n, m, o, r)
      /\ IndexPasses(n, m, o, r)
      /\ CompactPasses(n, m, o, r)
      /\ SolePasses(n, m, o, r)
      /\ CarriedPasses(n, m, o, r)
      /\ MetaPasses(n, m, o, r)
      /\ SparsePasses(n, m, o, r)
  <2> HIDE DEF n, m, o, r
  <2>1. /\ SameCall(o, r) /\ r.old = o.old /\ r.slot = o.slot /\ r.cur = o.cur
        /\ r.sparse = o.sparse /\ r.ok = o.ok /\ r.order = o.order
    BY <1>4
  <2>2. CalledPasses(n, m, o, r)
    BY <1>1, <2>1 DEF CalledPasses, OfSet, OfBatch, OfUpdate, OfDelete, LogAt
  <2>3. OldPasses(n, m, o, r)
    BY <1>1, <2>1 DEF OldPasses, LookedUp, Known, Unknown, InPlace, Carrying, LogAt
  <2>4. SlotPasses(n, m, o, r)
    BY <1>1, <2>1 DEF SlotPasses, Burying, AfterPush, Deleted, LogAt
  <2>5. IdsPass(n, m, o, r)
    BY <1>1, <2>1 DEF IdsPass, Replacing, Burying, LogAt
  <2>6. EnginePasses(n, m, o, r)
    BY <1>1, <2>1 DEF EnginePasses, Replacing, Inserting, LogAt
  <2>7. IndexPasses(n, m, o, r)
    BY <1>1, <2>1 DEF IndexPasses, Unindexed, Indexing, LogAt
  <2>8. CompactPasses(n, m, o, r)
    BY <1>1, <2>1 DEF CompactPasses, Packed, Replacing, Emptied, Refilled, Exhumed, LogAt
  <2>9. SolePasses(n, m, o, r)
    BY <1>1, <2>1 DEF SolePasses, Finding, Carrying, AfterPush, Deleted, Deciding, LogAt
  <2>10. CarriedPasses(n, m, o, r)
    BY <1>1, <2>1 DEF CarriedPasses, Plain, Laden, Landed, Relocating, LogAt
  <2>11. MetaPasses(n, m, o, r)
    BY <1>1, <2>1 DEF MetaPasses, Unindexed, Unindexing, Rewriting, Indexing, LogAt
  <2>12. SparsePasses(n, m, o, r)
    BY <1>1, <2>1 DEF SparsePasses, Renumbering, Dropping, Placing, LogAt
  <2> QED
    BY <2>2, <2>3, <2>4, <2>5, <2>6, <2>7, <2>8, <2>9, <2>10, <2>11, <2>12
<1>7. \A u \in Thread : u # t => bt[u] = at[u] /\ reg'[u] = reg[u]
  BY <1>1 DEF Goes
<1>8. /\ n \in AfterPush \/ (n \in InPlace /\ n \in Known /\ n \in LookedUp)
      /\ n \in Finding \cup AfterPush
      /\ n \in AfterPush => m \notin LoggedFirst
      /\ n \notin AfterPush => m \in Unlogged
  <2> HIDE DEF n, m, o, r
  <2>1. n \in AfterPush \/ (n \in InPlace /\ n \in Known /\ n \in LookedUp)
    <3>1. n = 130 \/ n = 316
      BY <1>1 DEF LogAt
    <3>2. CASE n = 130
      BY <3>2 DEF AfterPush
    <3>3. CASE n = 316
      BY <3>3 DEF InPlace, Known, LookedUp
    <3> QED
      BY <3>1, <3>2, <3>3
  <2>2. n \in Finding \cup AfterPush
    BY <1>1 DEF AfterPush, Finding, LogAt
  <2>3. n \in AfterPush => m \notin LoggedFirst
    BY <1>1 DEF AfterPush, LoggedFirst, LogAt
  <2>4. n \notin AfterPush => m \in Unlogged
    BY <1>1 DEF AfterPush, Unlogged, LogAt
  <2> QED
    BY <2>1, <2>2, <2>3, <2>4
<1>9. o.slot \in DOMAIN store.slots /\ store.slots[o.slot] \in SlotRecord /\ o.n \in Nat
      /\ (n \notin AfterPush => o.slot = o.old)
  <2>1. CASE n \in AfterPush
    BY <1>2, <2>1, SlotTyped DEF Consistent, SlotFits, Local
  <2>2. CASE n \notin AfterPush
    <3>1. o.slot = o.old /\ o.old # None
      BY <1>8, <2>2 DEF Consistent, OldFits
    <3>2. o.old \in DOMAIN store.slots
      BY <1>8, <2>2, <3>1 DEF Consistent, OldFits
    <3> QED
      BY <1>2, <2>2, <3>1, <3>2, SlotTyped DEF Local
  <2> QED
    BY <2>1, <2>2
<1>10. e \in Entry
  BY <1>5, <1>9, RecordTyped DEF Entry
<1>11. n \notin Cleared /\ m \notin Cleared
  <2> HIDE DEF n, m, o, r
  <2> QED
    BY <1>1 DEF Cleared, LogAt
<1>12. /\ Replayed \in Image
       /\ Replayed' = [Replayed EXCEPT ![e.id] = e.record]
  <2>1. log \in Logs /\ e \in Entry /\ log'.saved = log.saved /\ log'.entries = Append(log.entries, e)
    BY <1>2, <1>4, <1>10
  <2> HIDE DEF e
  <2> QED
    BY <2>1, ReplayedNext
<1>13. ASSUME Unraced(at), NEW u \in Thread, u # t, at[u] \in Modifying
       PROVE  reg[u].id # o.id /\ reg[u].id \in Id
  BY <1>5, <1>13, Apartness, BusyId DEF Consistent, Unraced
<1>14. Consistent(bt)'
  <2>1. Called(bt)'
    BY <1>1, <1>4, <1>5, <1>6, CalledFrame DEF Consistent
  <2>2. OldFits(bt)'
    BY <1>1, <1>4, <1>5, <1>6, OldFrame DEF Consistent
  <2>3. SlotFits(bt)'
    BY <1>1, <1>4, <1>5, <1>6, SlotFrame DEF Consistent
  <2>4. IdsFit(bt)'
    BY <1>1, <1>4, <1>5, <1>6, IdsFrame DEF Consistent
  <2>5. InEngine(bt)'
    BY <1>1, <1>4, <1>5, <1>6, EngineFrame DEF Consistent
  <2>6. Indexed(bt)'
    BY <1>1, <1>4, <1>5, <1>6, IndexFrame DEF Consistent
  <2>7. Compacting(bt)'
    BY <1>1, <1>4, <1>5, <1>6, CompactFrame DEF Consistent
  <2> QED
    BY <2>1, <2>2, <2>3, <2>4, <2>5, <2>6, <2>7 DEF Consistent
<1>15. ASSUME Unraced(at)
       PROVE  Unraced(bt)'
  <2>1. Apart(bt)'
    BY <1>1, <1>4, <1>5, <1>6, <1>15, ApartFrame DEF Unraced, Consistent
  <2>2. Sole(bt)'
    BY <1>1, <1>4, <1>5, <1>6, <1>15, SoleFrame DEF Unraced, Consistent
  <2>3. Carried(bt)'
    BY <1>1, <1>4, <1>5, <1>6, <1>15, CarriedFrame DEF Unraced, Consistent
  <2>4. MetaExact(bt)'
    BY <1>1, <1>4, <1>5, <1>6, <1>15, MetaFrame DEF Unraced, Consistent
  <2>5. SparseExact(bt)'
    BY <1>1, <1>4, <1>5, <1>6, <1>15, SparseFrame DEF Unraced, Consistent
  <2>6. LogExact(bt)'
    <3>1. LogExact(at)
      BY <1>15 DEF Unraced
    <3>2. SUFFICES ASSUME persistent, log.whole
          PROVE  /\ \A i \in Id : \/ Replayed'[i] = RecordAt(store, i)'
                                 \/ \E u \in Thread : bt[u] \in Unlogged /\ reg'[u].id = i
                 /\ \A u \in Thread : bt[u] \in LoggedFirst =>
                      Replayed'[reg'[u].id] = [store'.slots[reg'[u].old] EXCEPT !.meta = reg'[u].n]
                 /\ NoneAt(bt, Cleared)
      BY <1>1, <1>4 DEF LogExact, NoneAt
    <3>3. \A i \in Id : \/ Replayed[i] = RecordAt(store, i)
                        \/ \E u \in Thread : at[u] \in Unlogged /\ reg[u].id = i
      BY <1>5, <3>1, <3>2 DEF LogExact
    <3>4. \A i \in Id : Replayed'[i] = IF i = o.id THEN e.record ELSE Replayed[i]
      <4>1. e.id = o.id
        OBVIOUS
      <4> HIDE DEF e
      <4> QED
        BY <1>12, <4>1 DEF Image
    <3>5. \A i \in Id : RecordAt(store, i)' = RecordAt(store, i)
      BY <1>4 DEF RecordAt
    <3> HIDE DEF e
    <3>6. ASSUME NEW i \in Id
          PROVE  \/ Replayed'[i] = RecordAt(store, i)'
                 \/ \E u \in Thread : bt[u] \in Unlogged /\ reg'[u].id = i
      <4>1. CASE i = o.id
        <5>1. Replayed'[i] = [store.slots[o.slot] EXCEPT !.meta = o.n]
          BY <3>4, <4>1 DEF e
        <5>2. CASE n \in AfterPush
          <6>1. store.ids[o.id] = o.slot /\ store.slots[o.slot].meta = o.n
            BY <1>15, <5>2 DEF Unraced, Sole
          <6>2. RecordAt(store, i) = store.slots[o.slot]
            BY <1>9, <4>1, <6>1 DEF RecordAt
          <6> QED
            BY <1>9, <3>5, <5>1, <6>1, <6>2, RecordTyped
        <5>3. CASE n \notin AfterPush
          BY <1>4, <1>8, <4>1, <5>3 DEF SameCall
        <5> QED
          BY <5>2, <5>3
      <4>2. CASE i # o.id
        <5>1. \A u \in Thread : at[u] \in Unlogged /\ reg[u].id = i => bt[u] = at[u] /\ reg'[u] = reg[u]
          BY <1>7, <4>2
        <5> QED
          BY <3>3, <3>4, <3>5, <4>2, <5>1
      <4> QED
        BY <4>1, <4>2
    <3>7. ASSUME NEW u \in Thread, bt[u] \in LoggedFirst
          PROVE  Replayed'[reg'[u].id] = [store'.slots[reg'[u].old] EXCEPT !.meta = reg'[u].n]
      <4>1. CASE u = t
        <5>1. n \notin AfterPush
          BY <1>8, <3>7, <4>1
        <5>2. Replayed'[o.id] = [store.slots[o.slot] EXCEPT !.meta = o.n]
          BY <1>5, <3>4 DEF e
        <5> QED
          BY <1>4, <1>9, <4>1, <5>1, <5>2 DEF SameCall
      <4>2. CASE u # t
        <5>1. bt[u] = at[u] /\ reg'[u] = reg[u] /\ at[u] \in Modifying
          BY <1>7, <3>7, <4>2, ModifyingPoints
        <5>2. Replayed[reg[u].id] = [store.slots[reg[u].old] EXCEPT !.meta = reg[u].n]
          BY <3>1, <3>2, <3>7, <5>1 DEF LogExact
        <5>3. reg[u].id # o.id /\ reg[u].id \in Id
          BY <1>15, <1>13, <4>2, <5>1
        <5> QED
          BY <1>4, <3>4, <5>1, <5>2, <5>3
      <4> QED
        BY <4>1, <4>2
    <3>8. NoneAt(bt, Cleared)
      BY <1>5, <1>7, <1>11 DEF NoneAt
    <3> QED
      BY <3>6, <3>7, <3>8
  <2> QED
    BY <2>1, <2>2, <2>3, <2>4, <2>5, <2>6 DEF Unraced
<1>16. r \in Local /\ store' \in Stores /\ log' \in Logs
  <2>1. r \in Local
    <3>1. Len(log.entries) \in Nat
      BY <1>2 DEF Logs
    <3>2. (Len(log.entries) + 1 >= LogLimit) \in BOOLEAN
      OBVIOUS
    <3> DEFINE f == Len(log.entries) + 1 >= LogLimit
    <3>3. r = [o EXCEPT !.full = f]
      BY <1>3
    <3> HIDE DEF o, r, f
    <3> QED
      BY <1>2, <3>2, <3>3 DEF Local, f
  <2>2. log' \in Logs
    <3>1. log.entries \in Seq(Entry)
      BY <1>2 DEF Logs, Entry
    <3>2. Append(log.entries, e) \in Seq(Entry)
      BY <1>10, <3>1
    <3>3. log' = [log EXCEPT !.entries = Append(log.entries, e)]
      BY <1>3, <1>4
    <3> DEFINE es == Append(log.entries, e)
    <3> HIDE DEF e, es
    <3>4. es \in Seq(Entry) /\ log' = [log EXCEPT !.entries = es]
      BY <3>2, <3>3 DEF es
    <3> QED
      BY <1>2, <3>4 DEF Logs, Entry
  <2> QED
    BY <1>2, <1>4, <2>1, <2>2
<1> QED
  BY <1>14, <1>15, <1>16 DEF Preserved

\* A delete logs that its id has no record.
LEMMA UnlogKeeps ==
  ASSUME Typed, NEW at, NEW bt, NEW t \in Thread, Placed(at), Consistent(at),
         Accesses(at, bt, t, "unlog"), at[t] \in {413}, bt[t] = 901
  PROVE  Preserved(at, bt, t)
<1> DEFINE n == at[t]
           m == bt[t]
           o == reg[t]
           r == reg'[t]
           e == [id |-> o.id, record |-> None]
<1>1. n \in {413} /\ m = 901 /\ Goes(at, bt, t) /\ UNCHANGED persistent
  BY DEF Accesses
<1>2. o \in Local /\ store \in Stores /\ log \in Logs
  BY LocalTyped
<1>3. /\ r = [o EXCEPT !.full = Len(log.entries) + 1 >= LogLimit]
      /\ store' = store
      /\ log' = [log EXCEPT !.entries = Append(@, [id |-> r.id, record |-> None])]
  <2>1. r = Registers("unlog", o, store, log) /\ store' = Changed("unlog", r, store) /\ log' = Logged("unlog", r, store, log)
    BY DEF Accesses
  <2> HIDE DEF n, m, o, r
  <2>2. r = [o EXCEPT !.full = Len(log.entries) + 1 >= LogLimit]
    BY <2>1 DEF Registers
  <2>3. store' = store
    BY <2>1 DEF Changed
  <2>4. log' = [log EXCEPT !.entries = Append(@, [id |-> r.id, record |-> None])]
    BY <2>1 DEF Logged
  <2> QED
    BY <2>2, <2>3, <2>4
<1>4. /\ SameCall(o, r) /\ r.old = o.old /\ r.slot = o.slot /\ r.cur = o.cur
      /\ r.sparse = o.sparse /\ r.ok = o.ok /\ r.order = o.order
      /\ store' = store /\ Kept(store'.slots, store.slots)
      /\ store.dead \subseteq store'.dead /\ store.sparse \subseteq store'.sparse
      /\ log'.saved = log.saved /\ log'.whole = log.whole
      /\ log'.entries = Append(log.entries, e)
  BY <1>2, <1>3, KeptSame DEF Local, Stores, Logs, SameCall
<1>5. /\ Alone(at) /\ Held(at) /\ n \in GateReading /\ NoneAt(at, Excluding) /\ NoneAt(at, Replacing)
      /\ NoneAt(at, Unindexed) /\ NoneAt(at, Renumbering) /\ NoneAt(at, Cleared)
      /\ n \in Modifying /\ o.id \in Id
  <2>1. n \in GateReading
    BY <1>1 DEF GateReading
  <2>2. n \in Modifying
    BY <1>1 DEF Modifying, OfSet, OfBatch, OfUpdate, OfDelete
  <2>3. o.id \in Id
    BY <2>2, BusyId DEF Consistent
  <2>4. /\ NoneAt(at, Excluding) /\ NoneAt(at, Replacing)
        /\ NoneAt(at, Unindexed) /\ NoneAt(at, Renumbering) /\ NoneAt(at, Cleared)
    BY <2>1, Gated DEF Placed
  <2> QED
    BY <2>1, <2>2, <2>3, <2>4 DEF Placed
<1>6. /\ CalledPasses(n, m, o, r)
      /\ OldPasses(n, m, o, r)
      /\ SlotPasses(n, m, o, r)
      /\ IdsPass(n, m, o, r)
      /\ EnginePasses(n, m, o, r)
      /\ IndexPasses(n, m, o, r)
      /\ CompactPasses(n, m, o, r)
      /\ SolePasses(n, m, o, r)
      /\ CarriedPasses(n, m, o, r)
      /\ MetaPasses(n, m, o, r)
      /\ SparsePasses(n, m, o, r)
  <2> HIDE DEF n, m, o, r
  <2>1. /\ SameCall(o, r) /\ r.old = o.old /\ r.slot = o.slot /\ r.cur = o.cur
        /\ r.sparse = o.sparse /\ r.ok = o.ok /\ r.order = o.order
    BY <1>4
  <2>2. CalledPasses(n, m, o, r)
    BY <1>1, <2>1 DEF CalledPasses, OfSet, OfBatch, OfUpdate, OfDelete
  <2>3. OldPasses(n, m, o, r)
    BY <1>1, <2>1 DEF OldPasses, LookedUp, Known, Unknown, InPlace, Carrying
  <2>4. SlotPasses(n, m, o, r)
    BY <1>1, <2>1 DEF SlotPasses, Burying, AfterPush, Deleted
  <2>5. IdsPass(n, m, o, r)
    BY <1>1, <2>1 DEF IdsPass, Replacing, Burying
  <2>6. EnginePasses(n, m, o, r)
    BY <1>1, <2>1 DEF EnginePasses, Replacing, Inserting
  <2>7. IndexPasses(n, m, o, r)
    BY <1>1, <2>1 DEF IndexPasses, Unindexed, Indexing
  <2>8. CompactPasses(n, m, o, r)
    BY <1>1, <2>1 DEF CompactPasses, Packed, Replacing, Emptied, Refilled, Exhumed
  <2>9. SolePasses(n, m, o, r)
    BY <1>1, <2>1 DEF SolePasses, Finding, Carrying, AfterPush, Deleted, Deciding
  <2>10. CarriedPasses(n, m, o, r)
    BY <1>1, <2>1 DEF CarriedPasses, Plain, Laden, Landed, Relocating
  <2>11. MetaPasses(n, m, o, r)
    BY <1>1, <2>1 DEF MetaPasses, Unindexed, Unindexing, Rewriting, Indexing
  <2>12. SparsePasses(n, m, o, r)
    BY <1>1, <2>1 DEF SparsePasses, Renumbering, Dropping, Placing
  <2> QED
    BY <2>2, <2>3, <2>4, <2>5, <2>6, <2>7, <2>8, <2>9, <2>10, <2>11, <2>12
<1>7. \A u \in Thread : u # t => bt[u] = at[u] /\ reg'[u] = reg[u]
  BY <1>1 DEF Goes
<1>8. e \in Entry
  BY <1>5 DEF Entry
<1>9. n \in Deleted /\ n \notin Cleared /\ m \notin Cleared /\ m \notin LoggedFirst
  <2> HIDE DEF n, m, o, r
  <2> QED
    BY <1>1 DEF Deleted, Cleared, LoggedFirst
<1>10. /\ Replayed \in Image
       /\ Replayed' = [Replayed EXCEPT ![e.id] = e.record]
  <2>1. log \in Logs /\ e \in Entry /\ log'.saved = log.saved /\ log'.entries = Append(log.entries, e)
    BY <1>2, <1>4, <1>8
  <2> HIDE DEF e
  <2> QED
    BY <2>1, ReplayedNext
<1>11. ASSUME Unraced(at), NEW u \in Thread, u # t, at[u] \in Modifying
       PROVE  reg[u].id # o.id /\ reg[u].id \in Id
  BY <1>5, <1>11, Apartness, BusyId DEF Consistent, Unraced
<1>12. Consistent(bt)'
  <2>1. Called(bt)'
    BY <1>1, <1>4, <1>5, <1>6, CalledFrame DEF Consistent
  <2>2. OldFits(bt)'
    BY <1>1, <1>4, <1>5, <1>6, OldFrame DEF Consistent
  <2>3. SlotFits(bt)'
    BY <1>1, <1>4, <1>5, <1>6, SlotFrame DEF Consistent
  <2>4. IdsFit(bt)'
    BY <1>1, <1>4, <1>5, <1>6, IdsFrame DEF Consistent
  <2>5. InEngine(bt)'
    BY <1>1, <1>4, <1>5, <1>6, EngineFrame DEF Consistent
  <2>6. Indexed(bt)'
    BY <1>1, <1>4, <1>5, <1>6, IndexFrame DEF Consistent
  <2>7. Compacting(bt)'
    BY <1>1, <1>4, <1>5, <1>6, CompactFrame DEF Consistent
  <2> QED
    BY <2>1, <2>2, <2>3, <2>4, <2>5, <2>6, <2>7 DEF Consistent
<1>13. ASSUME Unraced(at)
       PROVE  Unraced(bt)'
  <2>1. Apart(bt)'
    BY <1>1, <1>4, <1>5, <1>6, <1>13, ApartFrame DEF Unraced, Consistent
  <2>2. Sole(bt)'
    BY <1>1, <1>4, <1>5, <1>6, <1>13, SoleFrame DEF Unraced, Consistent
  <2>3. Carried(bt)'
    BY <1>1, <1>4, <1>5, <1>6, <1>13, CarriedFrame DEF Unraced, Consistent
  <2>4. MetaExact(bt)'
    BY <1>1, <1>4, <1>5, <1>6, <1>13, MetaFrame DEF Unraced, Consistent
  <2>5. SparseExact(bt)'
    BY <1>1, <1>4, <1>5, <1>6, <1>13, SparseFrame DEF Unraced, Consistent
  <2>6. LogExact(bt)'
    <3>1. LogExact(at)
      BY <1>13 DEF Unraced
    <3>2. SUFFICES ASSUME persistent, log.whole
          PROVE  /\ \A i \in Id : \/ Replayed'[i] = RecordAt(store, i)'
                                 \/ \E u \in Thread : bt[u] \in Unlogged /\ reg'[u].id = i
                 /\ \A u \in Thread : bt[u] \in LoggedFirst =>
                      Replayed'[reg'[u].id] = [store'.slots[reg'[u].old] EXCEPT !.meta = reg'[u].n]
                 /\ NoneAt(bt, Cleared)
      BY <1>1, <1>4, ZenonT(60) DEF LogExact, NoneAt
    <3>3. \A i \in Id : \/ Replayed[i] = RecordAt(store, i)
                        \/ \E u \in Thread : at[u] \in Unlogged /\ reg[u].id = i
      BY <1>5, <3>1, <3>2 DEF LogExact
    <3>4. \A i \in Id : Replayed'[i] = IF i = o.id THEN e.record ELSE Replayed[i]
      <4>1. e.id = o.id
        OBVIOUS
      <4> HIDE DEF e
      <4> QED
        BY <1>10, <4>1 DEF Image
    <3>5. \A i \in Id : RecordAt(store, i)' = RecordAt(store, i)
      BY <1>4 DEF RecordAt
    <3> HIDE DEF e
    <3>6. ASSUME NEW i \in Id
          PROVE  \/ Replayed'[i] = RecordAt(store, i)'
                 \/ \E u \in Thread : bt[u] \in Unlogged /\ reg'[u].id = i
      <4>1. CASE i = o.id
        <5>1. Replayed'[i] = None
          BY <3>4, <4>1 DEF e
        <5>2. store.ids[o.id] = None
          BY <1>13, <1>9 DEF Unraced, Sole
        <5>3. None \notin DOMAIN store.slots
          <6>1. \A k \in DOMAIN store.slots : k \in Nat
            BY <1>2, SlotTyped
          <6> QED
            BY <6>1, ConcurrencyAssumption
        <5> QED
          BY <3>5, <4>1, <5>1, <5>2, <5>3 DEF RecordAt
      <4>2. CASE i # o.id
        <5>1. \A u \in Thread : at[u] \in Unlogged /\ reg[u].id = i => bt[u] = at[u] /\ reg'[u] = reg[u]
          BY <1>7, <4>2
        <5> QED
          BY <3>3, <3>4, <3>5, <4>2, <5>1
      <4> QED
        BY <4>1, <4>2
    <3>7. ASSUME NEW u \in Thread, bt[u] \in LoggedFirst
          PROVE  Replayed'[reg'[u].id] = [store'.slots[reg'[u].old] EXCEPT !.meta = reg'[u].n]
      <4>1. CASE u = t
        BY <1>9, <3>7, <4>1
      <4>2. CASE u # t
        <5>1. bt[u] = at[u] /\ reg'[u] = reg[u] /\ at[u] \in Modifying
          BY <1>7, <3>7, <4>2, ModifyingPoints
        <5>2. Replayed[reg[u].id] = [store.slots[reg[u].old] EXCEPT !.meta = reg[u].n]
          BY <3>1, <3>2, <3>7, <5>1 DEF LogExact
        <5>3. reg[u].id # o.id /\ reg[u].id \in Id
          BY <1>13, <1>11, <4>2, <5>1
        <5> QED
          BY <1>4, <3>4, <5>1, <5>2, <5>3
      <4> QED
        BY <4>1, <4>2
    <3>8. NoneAt(bt, Cleared)
      BY <1>5, <1>7, <1>9 DEF NoneAt
    <3> QED
      BY <3>6, <3>7, <3>8
  <2> QED
    BY <2>1, <2>2, <2>3, <2>4, <2>5, <2>6 DEF Unraced
<1>14. r \in Local /\ store' \in Stores /\ log' \in Logs
  <2>1. r \in Local
    <3>1. Len(log.entries) \in Nat
      BY <1>2 DEF Logs
    <3>2. (Len(log.entries) + 1 >= LogLimit) \in BOOLEAN
      OBVIOUS
    <3> DEFINE f == Len(log.entries) + 1 >= LogLimit
    <3>3. r = [o EXCEPT !.full = f]
      BY <1>3
    <3> HIDE DEF o, r, f
    <3> QED
      BY <1>2, <3>2, <3>3, ZenonT(60) DEF Local, f
  <2>2. log' \in Logs
    <3>1. log.entries \in Seq(Entry)
      BY <1>2 DEF Logs, Entry
    <3>2. Append(log.entries, e) \in Seq(Entry)
      BY <1>8, <3>1
    <3>3. log' = [log EXCEPT !.entries = Append(log.entries, e)]
      BY <1>3, <1>4
    <3> DEFINE es == Append(log.entries, e)
    <3> HIDE DEF e, es
    <3>4. es \in Seq(Entry) /\ log' = [log EXCEPT !.entries = es]
      BY <3>2, <3>3 DEF es
    <3> QED
      BY <1>2, <3>4, ZenonT(60) DEF Logs, Entry
  <2> QED
    BY <1>2, <1>4, <2>1, <2>2
<1> QED
  BY <1>12, <1>13, <1>14 DEF Preserved

-----------------------------------------------------------------------------
(* The live slots in order.                                                *)

Increasing(q) == \A m, n \in DOMAIN q : m < n => q[m] < q[n]

\* A finite set of numbers has an increasing enumeration: its least member, followed by
\* one of the others.
LEMMA Enumeration ==
  ASSUME NEW S \in SUBSET Nat, IsFiniteSet(S)
  PROVE  \E q \in [1..Cardinality(S) -> S] : Increasing(q)
<1> DEFINE Some(T) == \E q \in [1..Cardinality(T) -> T] : Increasing(q)
           Sets(n) == {T \in SUBSET Nat : IsFiniteSet(T) /\ Cardinality(T) = n}
           N == Cardinality(S)
           Good == {n \in 0..N : \A T \in Sets(n) : Some(T)}
<1>1. N \in Nat
  BY FS_CardinalityType
<1>2. 0 \in Good
  <2> SUFFICES ASSUME NEW T \in Sets(0) PROVE Some(T)
    BY <1>1
  <2>1. T = {} /\ 1..0 = {}
    BY FS_EmptySet
  <2>2. Cardinality(T) = 0
    OBVIOUS
  <2>3. [n \in {} |-> 1] \in [{} -> {}] /\ DOMAIN [n \in {} |-> 1] = {}
    OBVIOUS
  <2>4. Increasing([n \in {} |-> 1])
    BY <2>3 DEF Increasing
  <2> QED
    BY <2>1, <2>2, <2>3, <2>4
<1>3. ASSUME NEW n \in 1..N, n - 1 \in Good PROVE n \in Good
  <2> SUFFICES ASSUME NEW T \in Sets(n) PROVE Some(T)
    OBVIOUS
  <2>1. T \in SUBSET Nat /\ IsFiniteSet(T) /\ Cardinality(T) = n /\ n \in Nat /\ n >= 1
    BY <1>1
  <2>2. T # {}
    BY <2>1, FS_EmptySet
  <2>3. PICK m \in T : \A k \in T : m <= k
    BY <2>1, <2>2, LeastNatural
  <2> DEFINE rest == T \ {m}
  <2>4. IsFiniteSet(rest) /\ Cardinality(rest) = n - 1
    BY <2>1, <2>3, FS_RemoveElement
  <2>5. rest \in Sets(n - 1)
    BY <2>1, <2>4
  <2>6. Some(rest)
    BY <1>3, <2>5
  <2>7. PICK p \in [1..n - 1 -> rest] : Increasing(p)
    BY <2>4, <2>6
  <2> DEFINE q == [k \in 1..n |-> IF k = 1 THEN m ELSE p[k - 1]]
  <2>8. \A k \in 1..n : k # 1 => k - 1 \in 1..n - 1
    BY <2>1
  <2>9. q \in [1..n -> T]
    BY <2>3, <2>7, <2>8
  <2>10. ASSUME NEW i \in 1..n, NEW j \in 1..n, i < j PROVE q[i] < q[j]
    <3>1. j # 1 /\ j - 1 \in 1..n - 1 /\ q[j] = p[j - 1]
      BY <2>1, <2>8, <2>10
    <3>2. CASE i = 1
      <4>1. p[j - 1] \in T /\ p[j - 1] # m
        BY <2>7, <3>1
      <4>2. m <= p[j - 1] /\ m \in Nat /\ p[j - 1] \in Nat
        BY <2>1, <2>3, <4>1
      <4>3. q[i] = m
        BY <3>2
      <4> HIDE DEF q
      <4> QED
        BY <3>1, <4>1, <4>2, <4>3
    <3>3. CASE i # 1
      <4>1. i - 1 \in 1..n - 1 /\ q[i] = p[i - 1]
        BY <2>8, <3>3
      <4>2. i - 1 < j - 1
        BY <2>1, <2>10
      <4>3. DOMAIN p = 1..n - 1
        BY <2>7
      <4>4. p[i - 1] < p[j - 1]
        BY <2>7, <3>1, <4>1, <4>2, <4>3 DEF Increasing
      <4> HIDE DEF q
      <4> QED
        BY <3>1, <4>1, <4>4
    <3> QED
      BY <3>2, <3>3
  <2>11. DOMAIN q = 1..n
    OBVIOUS
  <2> HIDE DEF q
  <2>12. Increasing(q)
    BY <2>10, <2>11 DEF Increasing
  <2> QED
    BY <2>1, <2>9, <2>12
<1>4. \A n \in 0..N : n \in Good
  <2> HIDE DEF Good
  <2> QED
    BY <1>1, <1>2, <1>3, IntervalInduction
<1>5. S \in Sets(N) /\ N \in Good
  BY <1>1, <1>4
<1> QED
  BY <1>5

LEMMA LiveFinite ==
  ASSUME NEW s \in Stores
  PROVE  /\ LiveIn(s) \in SUBSET Nat /\ LiveIn(s) \subseteq DOMAIN s.slots
         /\ IsFiniteSet(LiveIn(s)) /\ Cardinality(LiveIn(s)) \in Nat
<1>1. s.slots \in Seq(SlotRecord)
  BY DEF Stores
<1>2. DOMAIN s.slots = 1..Len(s.slots) /\ Len(s.slots) \in Nat
  BY <1>1
<1>3. LiveIn(s) \in SUBSET (1..Len(s.slots))
  BY <1>2 DEF LiveIn
<1>4. IsFiniteSet(1..Len(s.slots))
  BY <1>2, FS_Interval
<1>5. IsFiniteSet(LiveIn(s))
  BY <1>3, <1>4, FS_Subset
<1> QED
  BY <1>2, <1>3, <1>5, FS_CardinalityType

\* Every live slot is in LiveSeq once.
LEMMA LiveSeqOrders ==
  ASSUME NEW s \in Stores
  PROVE  /\ LiveSeq(s) \in [1..Cardinality(LiveIn(s)) -> LiveIn(s)]
         /\ LiveSeq(s) \in Seq(Nat)
         /\ \A m, n \in DOMAIN LiveSeq(s) : LiveSeq(s)[m] = LiveSeq(s)[n] => m = n
         /\ \A k \in LiveIn(s) : \E n \in DOMAIN LiveSeq(s) : LiveSeq(s)[n] = k
<1> DEFINE S == LiveIn(s)
           N == Cardinality(S)
           q1 == LiveSeq(s)
<1>1. S \in SUBSET Nat /\ IsFiniteSet(S) /\ N \in Nat
  BY LiveFinite
<1>2. \E q \in [1..N -> S] : Increasing(q)
  BY <1>1, Enumeration
<1>3. q1 \in [1..N -> S] /\ Increasing(q1)
  <2>1. q1 = CHOOSE q \in [1..N -> S] : Increasing(q)
    BY DEF LiveSeq, Increasing
  <2> HIDE DEF q1, S, N
  <2> QED
    BY <1>2, <2>1
<1> HIDE DEF q1, S
<1>4. \A m, n \in 1..N : q1[m] = q1[n] => m = n
  <2> SUFFICES ASSUME NEW m \in 1..N, NEW n \in 1..N, q1[m] = q1[n], m # n
               PROVE  FALSE
    OBVIOUS
  <2>1. m < n \/ n < m
    BY <1>1
  <2>2. q1[m] < q1[n] \/ q1[n] < q1[m]
    <3>1. DOMAIN q1 = 1..N
      BY <1>3
    <3> QED
      BY <1>3, <2>1, <3>1 DEF Increasing
  <2>3. q1[m] \in Nat /\ q1[n] \in Nat
    BY <1>1, <1>3
  <2> QED
    BY <2>2, <2>3
<1>5. q1 \in Surjection(1..N, S)
  <2>1. q1 \in Injection(1..N, S)
    BY <1>3, <1>4 DEF Injection, IsInjective
  <2>2. IsFiniteSet(1..N) /\ Cardinality(1..N) = N
    BY <1>1, FS_Interval
  <2> QED
    BY <1>1, <2>1, <2>2, FS_Injection
<1>6. \A k \in S : \E n \in 1..N : q1[n] = k
  BY <1>5 DEF Surjection
<1>7. q1 \in Seq(Nat)
  <2>1. q1 \in [1..N -> Nat]
    BY <1>1, <1>3
  <2> QED
    BY <1>1, <2>1
<1>8. DOMAIN q1 = 1..N
  BY <1>3
<1> QED
  BY <1>3, <1>4, <1>6, <1>7, <1>8 DEF q1, S

-----------------------------------------------------------------------------
(* A step that rewrites the whole store: no other thread is in the midst of *)
(* a change.                                                               *)

LEMMA Idlers ==
  ASSUME NEW at \in [Thread -> Point], NoneAt(at, GateReading)
  PROVE  /\ NoneAt(at, LookedUp) /\ NoneAt(at, Known) /\ NoneAt(at, Unknown) /\ NoneAt(at, InPlace)
         /\ NoneAt(at, Carrying) /\ NoneAt(at, Burying) /\ NoneAt(at, AfterPush) /\ NoneAt(at, Deleted)
         /\ NoneAt(at, Inserting) /\ NoneAt(at, Indexing) /\ NoneAt(at, Finding) /\ NoneAt(at, Deciding)
         /\ NoneAt(at, Laden) /\ NoneAt(at, Landed) /\ NoneAt(at, Relocating) /\ NoneAt(at, Unindexing)
         /\ NoneAt(at, Rewriting) /\ NoneAt(at, Dropping) /\ NoneAt(at, Placing) /\ NoneAt(at, Unlogged)
         /\ NoneAt(at, LoggedFirst)
<1>1. \A n \in Point \ GateReading :
        /\ n \notin LookedUp /\ n \notin Known /\ n \notin Unknown /\ n \notin InPlace /\ n \notin Carrying
        /\ n \notin Burying
  BY DEF Point, GateReading, LookedUp, Known, Unknown, InPlace, Carrying, Burying
<1>2. \A n \in Point \ GateReading :
        /\ n \notin AfterPush /\ n \notin Deleted /\ n \notin Inserting /\ n \notin Indexing
        /\ n \notin Finding /\ n \notin Deciding
  BY DEF Point, GateReading, AfterPush, Deleted, Inserting, Indexing, Finding, Deciding
<1>3. \A n \in Point \ GateReading :
        /\ n \notin Laden /\ n \notin Landed /\ n \notin Relocating /\ n \notin Unindexing
        /\ n \notin Rewriting /\ n \notin Dropping
  BY DEF Point, GateReading, Laden, Landed, Relocating, Unindexing, Rewriting, Dropping
<1>4. \A n \in Point \ GateReading :
        n \notin Placing /\ n \notin Unlogged /\ n \notin LoggedFirst
  BY DEF Point, GateReading, Placing, Unlogged, LoggedFirst
<1>5. \A u \in Thread : at[u] \in Point \ GateReading
  BY DEF NoneAt
<1> QED
  BY <1>1, <1>2, <1>3, <1>4, <1>5 DEF NoneAt

Rewritten == 704..724 \cup {809}

Elsewhere(n) ==
  /\ n \notin Packed /\ n \notin Replacing /\ n \notin Emptied /\ n \notin Refilled /\ n \notin Exhumed
  /\ n \notin Unindexed /\ n \notin Renumbering /\ n \notin Cleared

LEMMA RewritingSets ==
  \A n : n \notin Excluding => Elsewhere(n)
<1>1. /\ Packed \subseteq Excluding /\ Replacing \subseteq Excluding /\ Emptied \subseteq Excluding
      /\ Refilled \subseteq Excluding /\ Exhumed \subseteq Excluding /\ Unindexed \subseteq Excluding
      /\ Renumbering \subseteq Excluding /\ Cleared \subseteq Excluding
  BY DEF Packed, Replacing, Emptied, Refilled, Exhumed, Unindexed, Renumbering, Cleared, Excluding
<1> QED
  BY <1>1 DEF Elsewhere

LEMMA RewrittenRest ==
  ASSUME NEW at, NEW bt, NEW t \in Thread, Goes(at, bt, t), NoneAt(at, GateReading),
         bt[t] \in Rewritten, \A u \in Thread : at[u] \in Excluding => u = t
  PROVE  /\ NoneAt(bt, GateReading)
         /\ OldFits(bt)' /\ SlotFits(bt)' /\ Sole(bt)' /\ (Carried(at) => Carried(bt)')
         /\ \A u \in Thread : u # t => Elsewhere(at[u]) /\ Elsewhere(bt[u])
<1>1. bt[t] \notin GateReading /\ bt[t] \notin Plain
  BY DEF Rewritten, GateReading, Plain
<1>2. NoneAt(bt, GateReading)
  BY <1>1 DEF Goes, NoneAt
<1>3. bt \in [Thread -> Point]
  BY DEF Goes
<1>4. /\ NoneAt(bt, LookedUp) /\ NoneAt(bt, Known) /\ NoneAt(bt, Unknown) /\ NoneAt(bt, InPlace)
      /\ NoneAt(bt, Carrying) /\ NoneAt(bt, Burying) /\ NoneAt(bt, AfterPush) /\ NoneAt(bt, Deleted)
      /\ NoneAt(bt, Finding) /\ NoneAt(bt, Deciding) /\ NoneAt(bt, Laden) /\ NoneAt(bt, Landed)
      /\ NoneAt(bt, Relocating)
  BY <1>2, <1>3, Idlers
<1>5. OldFits(bt)'
  BY <1>4 DEF OldFits, NoneAt
<1>6. SlotFits(bt)'
  BY <1>4 DEF SlotFits, NoneAt
<1>7. Sole(bt)'
  BY <1>4 DEF Sole, NoneAt
<1>8. ASSUME Carried(at)
      PROVE  Carried(bt)'
  <2>1. \A u \in Thread : bt[u] \in Plain => at[u] \in Plain /\ reg'[u] = reg[u]
    BY <1>1 DEF Goes
  <2>2. \A u \in Thread : bt[u] \in Plain => ~reg'[u].sparse
    BY <1>8, <2>1 DEF Carried
  <2> QED
    BY <1>4, <2>2 DEF Carried, NoneAt
<1>9. \A u \in Thread : u # t => Elsewhere(at[u]) /\ Elsewhere(bt[u])
  BY RewritingSets DEF Goes
<1> QED
  BY <1>2, <1>5, <1>6, <1>7, <1>8, <1>9

-----------------------------------------------------------------------------
(* A compaction, step by step.                                             *)

LEMMA OrderTyped ==
  ASSUME NEW x \in Local, NEW q \in Seq(Nat)
  PROVE  [x EXCEPT !.order = q] \in Local
  BY DEF Local

\* A compaction lists the live slots.
LEMMA PackKeeps ==
  ASSUME Typed, NEW at, NEW bt, NEW t \in Thread, Placed(at), Consistent(at),
         Accesses(at, bt, t, "pack"), at[t] \in {704}, bt[t] = 705
  PROVE  Preserved(at, bt, t)
<1> DEFINE n == at[t]
           m == bt[t]
           o == reg[t]
           r == reg'[t]
<1>1. n \in {704} /\ m = 705 /\ Goes(at, bt, t) /\ UNCHANGED persistent
  BY DEF Accesses
<1>2. o \in Local /\ store \in Stores /\ log \in Logs
  BY LocalTyped
<1>3. /\ r = [o EXCEPT !.order = LiveSeq(store)]
      /\ store' = store
      /\ log' = log
  <2>1. r = Registers("pack", o, store, log) /\ store' = Changed("pack", r, store) /\ log' = Logged("pack", r, store, log)
    BY DEF Accesses
  <2> HIDE DEF n, m, o, r
  <2>2. r = [o EXCEPT !.order = LiveSeq(store)]
    BY <2>1 DEF Registers
  <2>3. store' = store
    BY <2>1 DEF Changed
  <2>4. log' = log
    BY <2>1 DEF Logged
  <2> QED
    BY <2>2, <2>3, <2>4
<1>4. /\ SameCall(o, r) /\ r.old = o.old /\ r.slot = o.slot /\ r.cur = o.cur /\ r.sparse = o.sparse
      /\ r.ok = o.ok /\ r.order = LiveSeq(store)
      /\ store' = store /\ log' = log /\ Kept(store'.slots, store.slots)
      /\ store.dead \subseteq store'.dead /\ store.sparse \subseteq store'.sparse
  BY <1>2, <1>3, KeptSame DEF Local, Stores, Logs, SameCall
<1>5. /\ Alone(at) /\ Held(at) /\ n \in Excluding /\ NoneAt(at, GateReading)
      /\ \A u \in Thread : at[u] \in Excluding => u = t
  <2>1. n \in Excluding
    BY <1>1 DEF Excluding
  <2> QED
    BY <2>1, Excluded DEF Placed
<1>6. /\ CalledPasses(n, m, o, r)
      /\ IdsPass(n, m, o, r)
      /\ EnginePasses(n, m, o, r)
      /\ IndexPasses(n, m, o, r)
      /\ MetaPasses(n, m, o, r)
      /\ SparsePasses(n, m, o, r)
      /\ LogPasses(n, m, o, r)
  <2> HIDE DEF n, m, o, r
  <2>1. /\ SameCall(o, r) /\ r.old = o.old /\ r.slot = o.slot /\ r.cur = o.cur /\ r.sparse = o.sparse
        /\ r.ok = o.ok
    BY <1>4
  <2>2. CalledPasses(n, m, o, r)
    BY <1>1, <2>1 DEF CalledPasses, OfSet, OfBatch, OfUpdate, OfDelete
  <2>3. IdsPass(n, m, o, r)
    BY <1>1, <2>1 DEF IdsPass, Replacing, Burying
  <2>4. EnginePasses(n, m, o, r)
    BY <1>1, <2>1 DEF EnginePasses, Replacing, Inserting
  <2>5. IndexPasses(n, m, o, r)
    BY <1>1, <2>1 DEF IndexPasses, Unindexed, Indexing
  <2>6. MetaPasses(n, m, o, r)
    BY <1>1, <2>1 DEF MetaPasses, Unindexed, Unindexing, Rewriting, Indexing
  <2>7. SparsePasses(n, m, o, r)
    BY <1>1, <2>1 DEF SparsePasses, Renumbering, Dropping, Placing
  <2>8. LogPasses(n, m, o, r)
    BY <1>1, <2>1 DEF LogPasses, Cleared, Unlogged, LoggedFirst
  <2> QED
    BY <2>2, <2>3, <2>4, <2>5, <2>6, <2>7, <2>8
<1>7. \A u \in Thread : u # t => bt[u] = at[u] /\ reg'[u] = reg[u]
  BY <1>1 DEF Goes
<1>8. /\ n \notin Packed /\ n \notin Replacing /\ n \notin Emptied /\ n \notin Refilled /\ n \notin Exhumed /\ n \notin Unindexed /\ n \notin Renumbering /\ n \notin Cleared
      /\ m \in Packed /\ m \notin Replacing /\ m \notin Emptied /\ m \notin Refilled /\ m \notin Exhumed /\ m \notin Unindexed /\ m \notin Renumbering /\ m \notin Cleared
      /\ m \in Rewritten
  <2> HIDE DEF n, m, o, r
  <2>1. n \notin Packed /\ n \notin Replacing /\ n \notin Emptied /\ n \notin Refilled /\ n \notin Exhumed /\ n \notin Unindexed /\ n \notin Renumbering /\ n \notin Cleared
    BY <1>1 DEF Packed, Replacing, Emptied, Refilled, Exhumed, Unindexed, Renumbering, Cleared
  <2>2. m \in Packed /\ m \notin Replacing /\ m \notin Emptied /\ m \notin Refilled /\ m \notin Exhumed /\ m \notin Unindexed /\ m \notin Renumbering /\ m \notin Cleared
    BY <1>1 DEF Packed, Replacing, Emptied, Refilled, Exhumed, Unindexed, Renumbering, Cleared
  <2>3. m \in Rewritten
    BY <1>1 DEF Rewritten
  <2> QED
    BY <2>1, <2>2, <2>3
<1>9. /\ NoneAt(bt, GateReading)
      /\ OldFits(bt)' /\ SlotFits(bt)' /\ Sole(bt)' /\ (Carried(at) => Carried(bt)')
      /\ \A u \in Thread : u # t => Elsewhere(at[u]) /\ Elsewhere(bt[u])
  BY <1>1, <1>5, <1>8, RewrittenRest
<1>10. /\ NoneAt(at, Burying) /\ NoneAt(at, Inserting) /\ NoneAt(at, Placing) /\ NoneAt(at, Unlogged)
       /\ NoneAt(bt, Indexing) /\ NoneAt(bt, Rewriting) /\ NoneAt(bt, LoggedFirst)
  BY <1>1, <1>5, <1>9, Idlers DEF Goes
<1>11. Consistent(bt)'
  <2>1. Called(bt)'
    BY <1>1, <1>4, <1>5, <1>6, CalledFrame DEF Consistent
  <2>2. OldFits(bt)'
    BY <1>9
  <2>3. SlotFits(bt)'
    BY <1>9
  <2>4. IdsFit(bt)'
    BY <1>1, <1>4, <1>5, <1>6, IdsFrame DEF Consistent
  <2>5. InEngine(bt)'
    BY <1>1, <1>4, <1>5, <1>6, EngineFrame DEF Consistent
  <2>6. Indexed(bt)'
    BY <1>1, <1>4, <1>5, <1>6, IndexFrame DEF Consistent
  <2>7. Compacting(bt)'
    <3>1. \A u \in Thread : u # t =>
            bt[u] \notin Packed /\ bt[u] \notin Replacing /\ bt[u] \notin Emptied /\ bt[u] \notin Refilled
            /\ bt[u] \notin Exhumed
      BY <1>9 DEF Elsewhere
    <3>2. reg'[t].order = LiveSeq(store)'
      BY <1>4
    <3> HIDE DEF LiveSeq
    <3> QED
      BY <1>8, <3>1, <3>2 DEF Compacting
  <2> QED
    BY <2>1, <2>2, <2>3, <2>4, <2>5, <2>6, <2>7 DEF Consistent
<1>12. ASSUME Unraced(at)
       PROVE  Unraced(bt)'
  <2>1. Apart(bt)'
    BY <1>1, <1>4, <1>5, <1>6, <1>12, ApartFrame DEF Unraced, Consistent
  <2>2. Sole(bt)'
    BY <1>9
  <2>3. Carried(bt)'
    BY <1>12, <1>9 DEF Unraced
  <2>4. MetaExact(bt)'
    BY <1>1, <1>4, <1>5, <1>6, <1>12, MetaFrame DEF Unraced, Consistent
  <2>5. SparseExact(bt)'
    BY <1>1, <1>4, <1>5, <1>6, <1>12, SparseFrame DEF Unraced, Consistent
  <2>6. LogExact(bt)'
    BY <1>1, <1>4, <1>5, <1>6, <1>12, LogFrame DEF Unraced, Consistent
  <2> QED
    BY <2>1, <2>2, <2>3, <2>4, <2>5, <2>6 DEF Unraced
<1>13. r \in Local /\ store' \in Stores /\ log' \in Logs
  <2>1. LiveSeq(store) \in Seq(Nat)
    BY <1>2, LiveSeqOrders
  <2>2. r \in Local
    <3> DEFINE q == LiveSeq(store)
    <3>1. r = [o EXCEPT !.order = q] /\ q \in Seq(Nat)
      BY <1>3, <2>1
    <3> HIDE DEF n, m, o, r, q
    <3> QED
      BY <1>2, <3>1, OrderTyped
  <2> QED
    BY <1>2, <1>4, <2>2
<1> QED
  BY <1>11, <1>12, <1>13 DEF Preserved

\* It replaces the slots by the live ones in order.
LEMMA ReplaceKeeps ==
  ASSUME Typed, NEW at, NEW bt, NEW t \in Thread, Placed(at), Consistent(at),
         Accesses(at, bt, t, "replace"), at[t] \in {707}, bt[t] = 708
  PROVE  Preserved(at, bt, t)
<1> DEFINE n == at[t]
           m == bt[t]
           o == reg[t]
           r == reg'[t]
<1>1. n \in {707} /\ m = 708 /\ Goes(at, bt, t) /\ UNCHANGED persistent
  BY DEF Accesses
<1>2. o \in Local /\ store \in Stores /\ log \in Logs
  BY LocalTyped
<1>3. /\ r = o
      /\ store' = [store EXCEPT !.slots = [k \in DOMAIN r.order |-> @[r.order[k]]]]
      /\ log' = log
  <2>1. r = Registers("replace", o, store, log) /\ store' = Changed("replace", r, store) /\ log' = Logged("replace", r, store, log)
    BY DEF Accesses
  <2> HIDE DEF n, m, o, r
  <2>2. r = o
    BY <2>1 DEF Registers
  <2>3. store' = [store EXCEPT !.slots = [k \in DOMAIN r.order |-> @[r.order[k]]]]
    BY <2>1 DEF Changed
  <2>4. log' = log
    BY <2>1 DEF Logged
  <2> QED
    BY <2>2, <2>3, <2>4
<1>4. /\ SameCall(o, r) /\ r = o /\ log' = log
      /\ store'.slots = [k \in DOMAIN o.order |-> store.slots[o.order[k]]]
      /\ store'.ids = store.ids /\ store'.engine = store.engine /\ store'.meta = store.meta
      /\ store'.dead = store.dead /\ store'.sparse = store.sparse
  BY <1>2, <1>3 DEF Local, Stores, Logs, SameCall
<1>5. /\ Alone(at) /\ Held(at) /\ n \in Excluding /\ NoneAt(at, GateReading)
      /\ \A u \in Thread : at[u] \in Excluding => u = t
  <2>1. n \in Excluding
    BY <1>1 DEF Excluding
  <2> QED
    BY <2>1, Excluded DEF Placed
<1>6. CalledPasses(n, m, o, r)
  <2> HIDE DEF n, m, o, r
  <2>1. /\ SameCall(o, r) /\ r = o
    BY <1>4
  <2>2. CalledPasses(n, m, o, r)
    BY <1>1, <2>1 DEF CalledPasses, OfSet, OfBatch, OfUpdate, OfDelete
  <2> QED
    BY <2>2
<1>7. \A u \in Thread : u # t => bt[u] = at[u] /\ reg'[u] = reg[u]
  BY <1>1 DEF Goes
<1>8. /\ n \in Packed /\ n \notin Replacing /\ n \notin Emptied /\ n \notin Refilled /\ n \notin Exhumed /\ n \notin Unindexed /\ n \notin Renumbering /\ n \notin Cleared
      /\ m \notin Packed /\ m \in Replacing /\ m \notin Emptied /\ m \notin Refilled /\ m \notin Exhumed /\ m \in Unindexed /\ m \in Renumbering /\ m \in Cleared
      /\ m \in Rewritten
  <2> HIDE DEF n, m, o, r
  <2>1. n \in Packed /\ n \notin Replacing /\ n \notin Emptied /\ n \notin Refilled /\ n \notin Exhumed /\ n \notin Unindexed /\ n \notin Renumbering /\ n \notin Cleared
    BY <1>1 DEF Packed, Replacing, Emptied, Refilled, Exhumed, Unindexed, Renumbering, Cleared
  <2>2. m \notin Packed /\ m \in Replacing /\ m \notin Emptied /\ m \notin Refilled /\ m \notin Exhumed /\ m \in Unindexed /\ m \in Renumbering /\ m \in Cleared
    BY <1>1 DEF Packed, Replacing, Emptied, Refilled, Exhumed, Unindexed, Renumbering, Cleared
  <2>3. m \in Rewritten
    BY <1>1 DEF Rewritten
  <2> QED
    BY <2>1, <2>2, <2>3
<1>9. /\ NoneAt(bt, GateReading)
      /\ OldFits(bt)' /\ SlotFits(bt)' /\ Sole(bt)' /\ (Carried(at) => Carried(bt)')
      /\ \A u \in Thread : u # t => Elsewhere(at[u]) /\ Elsewhere(bt[u])
  BY <1>1, <1>5, <1>8, RewrittenRest
<1>10. /\ NoneAt(at, Burying) /\ NoneAt(at, Inserting) /\ NoneAt(at, Placing) /\ NoneAt(at, Unlogged)
       /\ NoneAt(bt, Indexing) /\ NoneAt(bt, Rewriting) /\ NoneAt(bt, LoggedFirst)
  BY <1>1, <1>5, <1>9, Idlers DEF Goes
<1>11. /\ o.order \in [1..Cardinality(LiveIn(store)) -> LiveIn(store)]
       /\ \A j, k \in DOMAIN o.order : o.order[j] = o.order[k] => j = k
       /\ \A k \in LiveIn(store) : \E j \in DOMAIN o.order : o.order[j] = k
       /\ Cardinality(LiveIn(store)) \in Nat /\ DOMAIN o.order = 1..Cardinality(LiveIn(store))
  <2>1. o.order = LiveSeq(store)
    BY <1>8 DEF Consistent, Compacting
  <2>2. Cardinality(LiveIn(store)) \in Nat
    BY <1>2, LiveFinite
  <2> QED
    BY <1>2, <2>1, <2>2, LiveSeqOrders
<1>12. \A k \in DOMAIN o.order : /\ o.order[k] \in LiveIn(store) /\ o.order[k] \in DOMAIN store.slots
                                /\ o.order[k] \notin store.dead /\ store'.slots[k] = store.slots[o.order[k]]
  <2> TAKE k \in DOMAIN o.order
  <2>1. o.order[k] \in LiveIn(store)
    BY <1>11
  <2>2. o.order[k] \in DOMAIN store.slots /\ o.order[k] \notin store.dead
    BY <2>1 DEF LiveIn
  <2>3. store'.slots[k] = store.slots[o.order[k]]
    BY <1>4
  <2> QED
    BY <2>1, <2>2, <2>3
<1>13. NoneAt(at, Replacing) /\ NoneAt(at, Unindexed) /\ NoneAt(at, Renumbering) /\ NoneAt(at, Cleared)
  BY <1>8, <1>9 DEF NoneAt, Elsewhere
<1>14. \A k \in LiveIn(store) : store.ids[store.slots[k].id] = k
  BY <1>13 DEF Consistent, IdsFit
<1>15. Consistent(bt)'
  <2>1. Called(bt)'
    BY <1>1, <1>4, <1>5, <1>6, CalledFrame DEF Consistent
  <2>2. OldFits(bt)'
    BY <1>9
  <2>3. SlotFits(bt)'
    BY <1>9
  <2>4. IdsFit(bt)'
    BY <1>8 DEF IdsFit, NoneAt
  <2>5. InEngine(bt)'
    BY <1>8 DEF InEngine, NoneAt
  <2>6. Indexed(bt)'
    BY <1>8 DEF Indexed, NoneAt
  <2>7. Compacting(bt)'
    <3>1. \A u \in Thread : u # t =>
            bt[u] \notin Packed /\ bt[u] \notin Replacing /\ bt[u] \notin Emptied /\ bt[u] \notin Refilled
            /\ bt[u] \notin Exhumed
      BY <1>9 DEF Elsewhere
    <3>2. ASSUME NEW j \in DOMAIN store'.slots, NEW k \in DOMAIN store'.slots, store'.slots[j].id = store'.slots[k].id
          PROVE  j = k
      <4>1. j \in DOMAIN o.order /\ k \in DOMAIN o.order
        BY <1>4
      <4>2. store.slots[o.order[j]].id = store.slots[o.order[k]].id
        BY <1>12, <3>2, <4>1
      <4>3. o.order[j] = o.order[k]
        BY <1>12, <1>14, <4>1, <4>2, SMTT(30)
      <4> QED
        BY <1>11, <4>1, <4>3
    <3>3. ASSUME NEW j \in DOMAIN store'.slots
          PROVE  store'.slots[j].val \in ToSet(store'.engine)
      <4>1. j \in DOMAIN o.order
        BY <1>4
      <4>2. store.slots[o.order[j]].val \in ToSet(store.engine)
        BY <1>10, <1>12, <1>13, <4>1 DEF Consistent, InEngine, NoneAt
      <4> QED
        BY <1>4, <1>12, <4>1, <4>2
    <3> QED
      BY <1>8, <3>1, <3>2, <3>3 DEF Compacting
  <2> QED
    BY <2>1, <2>2, <2>3, <2>4, <2>5, <2>6, <2>7 DEF Consistent
<1>16. ASSUME Unraced(at)
       PROVE  Unraced(bt)'
  <2>1. Apart(bt)'
    BY <1>1, <1>4, <1>5, <1>6, <1>16, ApartFrame DEF Unraced, Consistent
  <2>2. Sole(bt)'
    BY <1>9
  <2>3. Carried(bt)'
    BY <1>16, <1>9 DEF Unraced
  <2>4. MetaExact(bt)'
    BY <1>8 DEF MetaExact, NoneAt
  <2>5. SparseExact(bt)'
    <3>1. SparseExact(at)
      BY <1>16 DEF Unraced
    <3>2. ASSUME NEW j \in DOMAIN store'.slots
          PROVE  o.order[j] \in store'.sparse <=> store'.slots[j].sparse
      <4>1. j \in DOMAIN o.order
        BY <1>4
      <4>2. o.order[j] \in store.sparse => store.slots[o.order[j]].sparse
        BY <1>13, <3>1 DEF SparseExact
      <4>3. store.slots[o.order[j]].sparse => o.order[j] \in store.sparse
        BY <1>10, <1>12, <1>13, <3>1, <4>1 DEF SparseExact, NoneAt
      <4>4. store.slots[o.order[j]].sparse \in BOOLEAN
        BY <1>2, <1>12, <4>1, SlotTyped
      <4>5. store'.slots[j] = store.slots[o.order[j]] /\ store'.sparse = store.sparse
        BY <1>4, <1>12, <4>1
      <4> QED
        BY <4>2, <4>3, <4>4, <4>5
    <3>3. DOMAIN reg'[t].order = DOMAIN store'.slots
      BY <1>4
    <3>4. \A u \in Thread : u # t => bt[u] \notin Renumbering
      BY <1>9 DEF Elsewhere
    <3>5. ~NoneAt(bt, Renumbering)
      BY <1>8 DEF NoneAt
    <3>6. reg'[t].order = o.order
      BY <1>4
    <3> QED
      BY <3>2, <3>3, <3>4, <3>5, <3>6 DEF SparseExact
  <2>6. LogExact(bt)'
    <3>1. LogExact(at)
      BY <1>16, SMTT(30) DEF Unraced
    <3>2. SUFFICES ASSUME persistent, log.whole
          PROVE  /\ \A j \in DOMAIN store'.slots : Replayed'[store'.slots[j].id] = store'.slots[j]
                 /\ \A i \in Id : (\A j \in DOMAIN store'.slots : store'.slots[j].id # i) => Replayed'[i] = None
      <4>1. \A u \in Thread : u # t => bt[u] \notin Cleared
        BY <1>9 DEF Elsewhere
      <4>2. ~NoneAt(bt, Cleared)
        BY <1>8 DEF NoneAt
      <4>3. \A u \in Thread : bt[u] \notin LoggedFirst
        BY <1>10 DEF NoneAt
      <4> QED
        BY <1>1, <1>4, <4>1, <4>2, <4>3, ZenonT(60) DEF LogExact
    <3>3. Replayed' = Replayed
      BY <1>4 DEF Replayed, Replay
    <3> HIDE DEF Replayed
    <3>4. \A i \in Id : Replayed[i] = RecordAt(store, i)
      BY <1>10, <1>13, <3>1, <3>2 DEF LogExact, NoneAt
    <3>5. ASSUME NEW j \in DOMAIN store'.slots
          PROVE  Replayed'[store'.slots[j].id] = store'.slots[j]
      <4>1. j \in DOMAIN o.order
        BY <1>4
      <4> DEFINE k == o.order[j]
                 i == store.slots[k].id
      <4>2. k \in LiveIn(store) /\ k \in DOMAIN store.slots /\ store'.slots[j] = store.slots[k]
        BY <1>12, <4>1
      <4>3. store.ids[i] = k /\ i \in Id
        BY <1>2, <1>14, <4>2, SlotTyped
      <4> HIDE DEF k
      <4>4. RecordAt(store, i) = store.slots[k]
        BY <4>2, <4>3 DEF RecordAt
      <4> QED
        BY <3>3, <3>4, <4>2, <4>3, <4>4
    <3>6. ASSUME NEW i \in Id, \A j \in DOMAIN store'.slots : store'.slots[j].id # i
          PROVE  Replayed'[i] = None
      <4>1. CASE store.ids[i] = None
        <5>1. None \notin DOMAIN store.slots
          <6>1. \A k \in DOMAIN store.slots : k \in Nat
            BY <1>2, SlotTyped
          <6> QED
            BY <6>1, ConcurrencyAssumption
        <5>2. RecordAt(store, i) = None
          BY <4>1, <5>1 DEF RecordAt
        <5> QED
          BY <3>3, <3>4, <5>2
      <4>2. CASE store.ids[i] # None
        <5>1. store.ids[i] \in LiveIn(store) /\ store.slots[store.ids[i]].id = i
          BY <1>10, <1>13, <4>2 DEF Consistent, IdsFit, LiveIn, NoneAt
        <5>2. PICK j \in DOMAIN o.order : o.order[j] = store.ids[i]
          BY <1>11, <5>1, SMTT(30)
        <5>3. j \in DOMAIN store'.slots /\ store'.slots[j].id = i
          BY <1>4, <1>12, <5>1, <5>2
        <5> QED
          BY <3>6, <5>3
      <4> QED
        BY <4>1, <4>2
    <3> QED
      BY <3>5, <3>6
  <2> QED
    BY <2>1, <2>2, <2>3, <2>4, <2>5, <2>6 DEF Unraced
<1>17. r \in Local /\ store' \in Stores /\ log' \in Logs
  <2>1. store'.slots \in Seq(SlotRecord)
    <3>1. \A k \in DOMAIN o.order : store.slots[o.order[k]] \in SlotRecord
      BY <1>2, <1>12, SlotTyped
    <3>2. store'.slots \in [1..Cardinality(LiveIn(store)) -> SlotRecord]
      BY <1>4, <1>11, <3>1
    <3> QED
      BY <1>11, <3>2
  <2>2. store' = [store EXCEPT !.slots = store'.slots]
    BY <1>2, <1>3, <1>4 DEF Stores
  <2>3. \A x \in Seq(SlotRecord) : [store EXCEPT !.slots = x] \in Stores
    BY <1>2, StoreTyped
  <2> QED
    BY <1>2, <1>4, <2>1, <2>2, <2>3
<1> QED
  BY <1>15, <1>16, <1>17 DEF Preserved

\* It clears the id map.
LEMMA ClearKeeps ==
  ASSUME Typed, NEW at, NEW bt, NEW t \in Thread, Placed(at), Consistent(at),
         Accesses(at, bt, t, "clear"), at[t] \in {708}, bt[t] = 709
  PROVE  Preserved(at, bt, t)
<1> DEFINE n == at[t]
           m == bt[t]
           o == reg[t]
           r == reg'[t]
<1>1. n \in {708} /\ m = 709 /\ Goes(at, bt, t) /\ UNCHANGED persistent
  BY DEF Accesses
<1>2. o \in Local /\ store \in Stores /\ log \in Logs
  BY LocalTyped
<1>3. /\ r = o
      /\ store' = [store EXCEPT !.ids = [i \in Id |-> None]]
      /\ log' = log
  <2>1. r = Registers("clear", o, store, log) /\ store' = Changed("clear", r, store) /\ log' = Logged("clear", r, store, log)
    BY DEF Accesses
  <2> HIDE DEF n, m, o, r
  <2>2. r = o
    BY <2>1 DEF Registers
  <2>3. store' = [store EXCEPT !.ids = [i \in Id |-> None]]
    BY <2>1 DEF Changed
  <2>4. log' = log
    BY <2>1 DEF Logged
  <2> QED
    BY <2>2, <2>3, <2>4
<1>4. /\ SameCall(o, r) /\ r = o /\ log' = log
      /\ store'.slots = store.slots /\ store'.dead = store.dead /\ store'.engine = store.engine /\ store'.meta = store.meta /\ store'.sparse = store.sparse
      /\ store'.ids = [i \in Id |-> None]
      /\ Kept(store'.slots, store.slots) /\ store.dead \subseteq store'.dead /\ store.sparse \subseteq store'.sparse
  BY <1>2, <1>3, KeptSame DEF Local, Stores, Logs, SameCall
<1>5. /\ Alone(at) /\ Held(at) /\ n \in Excluding /\ NoneAt(at, GateReading)
      /\ \A u \in Thread : at[u] \in Excluding => u = t
  <2>1. n \in Excluding
    BY <1>1 DEF Excluding
  <2> QED
    BY <2>1, Excluded DEF Placed
<1>6. /\ CalledPasses(n, m, o, r)
      /\ SparsePasses(n, m, o, r)
  <2> HIDE DEF n, m, o, r
  <2>1. /\ SameCall(o, r) /\ r = o
    BY <1>4
  <2>2. CalledPasses(n, m, o, r)
    BY <1>1, <2>1 DEF CalledPasses, OfSet, OfBatch, OfUpdate, OfDelete
  <2>3. SparsePasses(n, m, o, r)
    BY <1>1, <2>1 DEF SparsePasses, Renumbering, Dropping, Placing
  <2> QED
    BY <2>2, <2>3
<1>7. \A u \in Thread : u # t => bt[u] = at[u] /\ reg'[u] = reg[u]
  BY <1>1 DEF Goes
<1>8. /\ n \notin Packed /\ n \in Replacing /\ n \notin Emptied /\ n \notin Refilled /\ n \notin Exhumed /\ n \in Unindexed /\ n \in Renumbering /\ n \in Cleared
      /\ m \notin Packed /\ m \in Replacing /\ m \in Emptied /\ m \notin Refilled /\ m \notin Exhumed /\ m \in Unindexed /\ m \in Renumbering /\ m \in Cleared
      /\ m \in Rewritten
  <2> HIDE DEF n, m, o, r
  <2>1. n \notin Packed /\ n \in Replacing /\ n \notin Emptied /\ n \notin Refilled /\ n \notin Exhumed /\ n \in Unindexed /\ n \in Renumbering /\ n \in Cleared
    BY <1>1 DEF Packed, Replacing, Emptied, Refilled, Exhumed, Unindexed, Renumbering, Cleared
  <2>2. m \notin Packed /\ m \in Replacing /\ m \in Emptied /\ m \notin Refilled /\ m \notin Exhumed /\ m \in Unindexed /\ m \in Renumbering /\ m \in Cleared
    BY <1>1 DEF Packed, Replacing, Emptied, Refilled, Exhumed, Unindexed, Renumbering, Cleared
  <2>3. m \in Rewritten
    BY <1>1 DEF Rewritten
  <2> QED
    BY <2>1, <2>2, <2>3
<1>9. /\ NoneAt(bt, GateReading)
      /\ OldFits(bt)' /\ SlotFits(bt)' /\ Sole(bt)' /\ (Carried(at) => Carried(bt)')
      /\ \A u \in Thread : u # t => Elsewhere(at[u]) /\ Elsewhere(bt[u])
  BY <1>1, <1>5, <1>8, RewrittenRest
<1>10. /\ NoneAt(at, Burying) /\ NoneAt(at, Inserting) /\ NoneAt(at, Placing) /\ NoneAt(at, Unlogged)
       /\ NoneAt(bt, Indexing) /\ NoneAt(bt, Rewriting) /\ NoneAt(bt, LoggedFirst)
  BY <1>1, <1>5, <1>9, Idlers DEF Goes
<1>11. Consistent(bt)'
  <2>1. Called(bt)'
    BY <1>1, <1>4, <1>5, <1>6, CalledFrame DEF Consistent
  <2>2. OldFits(bt)'
    BY <1>9
  <2>3. SlotFits(bt)'
    BY <1>9
  <2>4. IdsFit(bt)'
    BY <1>8 DEF IdsFit, NoneAt
  <2>5. InEngine(bt)'
    BY <1>8 DEF InEngine, NoneAt
  <2>6. Indexed(bt)'
    BY <1>8 DEF Indexed, NoneAt
  <2>7. Compacting(bt)'
    <3>1. \A u \in Thread : u # t =>
            bt[u] \notin Packed /\ bt[u] \notin Replacing /\ bt[u] \notin Emptied /\ bt[u] \notin Refilled
            /\ bt[u] \notin Exhumed
      BY <1>9 DEF Elsewhere
    <3>2. /\ \A j, k \in DOMAIN store'.slots : store'.slots[j].id = store'.slots[k].id => j = k
          /\ \A k \in DOMAIN store'.slots : store'.slots[k].val \in ToSet(store'.engine)
      <4>1. store'.slots = store.slots /\ store'.engine = store.engine
        BY <1>4
      <4>2. /\ \A j, k \in DOMAIN store.slots : store.slots[j].id = store.slots[k].id => j = k
            /\ \A k \in DOMAIN store.slots : store.slots[k].val \in ToSet(store.engine)
        BY <1>8 DEF Consistent, Compacting
      <4> QED
        BY <4>1, <4>2
    <3>3. \A i \in Id : store'.ids[i] = None
      BY <1>4
    <3> QED
      BY <1>8, <3>1, <3>2, <3>3 DEF Compacting
  <2> QED
    BY <2>1, <2>2, <2>3, <2>4, <2>5, <2>6, <2>7 DEF Consistent
<1>12. ASSUME Unraced(at)
       PROVE  Unraced(bt)'
  <2>1. Apart(bt)'
    BY <1>1, <1>4, <1>5, <1>6, <1>12, ApartFrame DEF Unraced, Consistent
  <2>2. Sole(bt)'
    BY <1>9
  <2>3. Carried(bt)'
    BY <1>12, <1>9 DEF Unraced
  <2>4. MetaExact(bt)'
    BY <1>8 DEF MetaExact, NoneAt
  <2>5. SparseExact(bt)'
    BY <1>1, <1>4, <1>5, <1>6, <1>12, SparseFrame DEF Unraced, Consistent
  <2>6. LogExact(bt)'
    <3>1. LogExact(at)
      BY <1>12 DEF Unraced
    <3>2. Replayed' = Replayed
      BY <1>4 DEF Replayed, Replay
    <3>3. \A u \in Thread : u # t => bt[u] \notin Cleared
      BY <1>9 DEF Elsewhere
    <3>4. ~NoneAt(bt, Cleared)
      BY <1>8 DEF NoneAt
    <3>5. \A u \in Thread : bt[u] \notin LoggedFirst
      BY <1>10 DEF NoneAt
    <3> HIDE DEF Replayed
    <3>6. persistent /\ log.whole =>
            /\ \A k \in DOMAIN store.slots : Replayed[store.slots[k].id] = store.slots[k]
            /\ \A i \in Id : (\A k \in DOMAIN store.slots : store.slots[k].id # i) => Replayed[i] = None
      BY <1>8, <3>1 DEF LogExact
    <3>7. store'.slots = store.slots /\ log' = log
      BY <1>4
    <3> QED
      BY <1>1, <3>2, <3>3, <3>4, <3>5, <3>6, <3>7 DEF LogExact
  <2> QED
    BY <2>1, <2>2, <2>3, <2>4, <2>5, <2>6 DEF Unraced
<1>13. r \in Local /\ store' \in Stores /\ log' \in Logs
  <2>1. store'.ids \in [Id -> Nat \cup {None}]
    BY <1>4
  <2>2. store' = [store EXCEPT !.ids = store'.ids]
    BY <1>2, <1>3, <1>4 DEF Stores
  <2>3. \A x \in [Id -> Nat \cup {None}] : [store EXCEPT !.ids = x] \in Stores
    BY <1>2, StoreTyped
  <2>4. store' \in Stores
    BY <2>1, <2>2, <2>3
  <2> QED
    BY <1>2, <1>4, <2>4
<1> QED
  BY <1>11, <1>12, <1>13 DEF Preserved

\* It fills the id map from the slots.
LEMMA FillKeeps ==
  ASSUME Typed, NEW at, NEW bt, NEW t \in Thread, Placed(at), Consistent(at),
         Accesses(at, bt, t, "fill"), at[t] \in {709}, bt[t] = 710
  PROVE  Preserved(at, bt, t)
<1> DEFINE n == at[t]
           m == bt[t]
           o == reg[t]
           r == reg'[t]
<1>1. n \in {709} /\ m = 710 /\ Goes(at, bt, t) /\ UNCHANGED persistent
  BY DEF Accesses
<1>2. o \in Local /\ store \in Stores /\ log \in Logs
  BY LocalTyped
<1>3. /\ r = o
      /\ store' = [store EXCEPT !.ids = [i \in Id |->
           IF \E k \in DOMAIN store.slots : store.slots[k].id = i
           THEN CHOOSE k \in DOMAIN store.slots : store.slots[k].id = i ELSE None]]
      /\ log' = log
  <2>1. r = Registers("fill", o, store, log) /\ store' = Changed("fill", r, store) /\ log' = Logged("fill", r, store, log)
    BY DEF Accesses
  <2> HIDE DEF n, m, o, r
  <2>2. r = o
    BY <2>1 DEF Registers
  <2>3. store' = [store EXCEPT !.ids = [i \in Id |->
                   IF \E k \in DOMAIN store.slots : store.slots[k].id = i
                   THEN CHOOSE k \in DOMAIN store.slots : store.slots[k].id = i ELSE None]]
    BY <2>1 DEF Changed
  <2>4. log' = log
    BY <2>1 DEF Logged
  <2> QED
    BY <2>2, <2>3, <2>4
<1>4. /\ SameCall(o, r) /\ r = o /\ log' = log
      /\ store'.slots = store.slots /\ store'.dead = store.dead /\ store'.engine = store.engine /\ store'.meta = store.meta /\ store'.sparse = store.sparse
      /\ store'.ids = [i \in Id |-> IF \E k \in DOMAIN store.slots : store.slots[k].id = i
                                  THEN CHOOSE k \in DOMAIN store.slots : store.slots[k].id = i ELSE None]
      /\ Kept(store'.slots, store.slots) /\ store.dead \subseteq store'.dead /\ store.sparse \subseteq store'.sparse
  BY <1>2, <1>3, KeptSame DEF Local, Stores, Logs, SameCall
<1>5. /\ Alone(at) /\ Held(at) /\ n \in Excluding /\ NoneAt(at, GateReading)
      /\ \A u \in Thread : at[u] \in Excluding => u = t
  <2>1. n \in Excluding
    BY <1>1 DEF Excluding
  <2> QED
    BY <2>1, Excluded DEF Placed
<1>6. /\ CalledPasses(n, m, o, r)
      /\ SparsePasses(n, m, o, r)
  <2> HIDE DEF n, m, o, r
  <2>1. /\ SameCall(o, r) /\ r = o
    BY <1>4
  <2>2. CalledPasses(n, m, o, r)
    BY <1>1, <2>1 DEF CalledPasses, OfSet, OfBatch, OfUpdate, OfDelete
  <2>3. SparsePasses(n, m, o, r)
    BY <1>1, <2>1 DEF SparsePasses, Renumbering, Dropping, Placing
  <2> QED
    BY <2>2, <2>3
<1>7. \A u \in Thread : u # t => bt[u] = at[u] /\ reg'[u] = reg[u]
  BY <1>1 DEF Goes
<1>8. /\ n \notin Packed /\ n \in Replacing /\ n \in Emptied /\ n \notin Refilled /\ n \notin Exhumed /\ n \in Unindexed /\ n \in Renumbering /\ n \in Cleared
      /\ m \notin Packed /\ m \in Replacing /\ m \notin Emptied /\ m \in Refilled /\ m \notin Exhumed /\ m \in Unindexed /\ m \in Renumbering /\ m \notin Cleared
      /\ m \in Rewritten
  <2> HIDE DEF n, m, o, r
  <2>1. n \notin Packed /\ n \in Replacing /\ n \in Emptied /\ n \notin Refilled /\ n \notin Exhumed /\ n \in Unindexed /\ n \in Renumbering /\ n \in Cleared
    BY <1>1 DEF Packed, Replacing, Emptied, Refilled, Exhumed, Unindexed, Renumbering, Cleared
  <2>2. m \notin Packed /\ m \in Replacing /\ m \notin Emptied /\ m \in Refilled /\ m \notin Exhumed /\ m \in Unindexed /\ m \in Renumbering /\ m \notin Cleared
    BY <1>1 DEF Packed, Replacing, Emptied, Refilled, Exhumed, Unindexed, Renumbering, Cleared
  <2>3. m \in Rewritten
    BY <1>1 DEF Rewritten
  <2> QED
    BY <2>1, <2>2, <2>3
<1>9. /\ NoneAt(bt, GateReading)
      /\ OldFits(bt)' /\ SlotFits(bt)' /\ Sole(bt)' /\ (Carried(at) => Carried(bt)')
      /\ \A u \in Thread : u # t => Elsewhere(at[u]) /\ Elsewhere(bt[u])
  BY <1>1, <1>5, <1>8, RewrittenRest
<1>10. /\ NoneAt(at, Burying) /\ NoneAt(at, Inserting) /\ NoneAt(at, Placing) /\ NoneAt(at, Unlogged)
       /\ NoneAt(bt, Indexing) /\ NoneAt(bt, Rewriting) /\ NoneAt(bt, LoggedFirst)
  BY <1>1, <1>5, <1>9, Idlers DEF Goes
<1>11. None \notin DOMAIN store.slots
  <2>1. \A k \in DOMAIN store.slots : k \in Nat
    BY <1>2, SlotTyped
  <2> QED
    BY <2>1, ConcurrencyAssumption
<1>12. \A j, k \in DOMAIN store.slots : store.slots[j].id = store.slots[k].id => j = k
  BY <1>8 DEF Consistent, Compacting
<1>13. \A i \in Id :
         \/ /\ \A k \in DOMAIN store.slots : store.slots[k].id # i
            /\ store'.ids[i] = None
         \/ /\ store'.ids[i] \in DOMAIN store.slots /\ store'.ids[i] # None
            /\ store.slots[store'.ids[i]].id = i
  <2> TAKE i \in Id
  <2>1. store'.ids[i] = IF \E k \in DOMAIN store.slots : store.slots[k].id = i
                       THEN CHOOSE k \in DOMAIN store.slots : store.slots[k].id = i ELSE None
    BY <1>4
  <2>2. CASE \E k \in DOMAIN store.slots : store.slots[k].id = i
    <3>1. store'.ids[i] \in DOMAIN store.slots /\ store.slots[store'.ids[i]].id = i
      BY <2>1, <2>2
    <3> QED
      BY <1>11, <3>1
  <2>3. CASE ~\E k \in DOMAIN store.slots : store.slots[k].id = i
    BY <2>1, <2>3
  <2> QED
    BY <2>2, <2>3
<1>14. \A k \in DOMAIN store.slots : store'.ids[store.slots[k].id] = k
  <2> TAKE k \in DOMAIN store.slots
  <2>1. store.slots[k].id \in Id
    BY <1>2, SlotTyped
  <2> QED
    BY <1>12, <1>13, <2>1
<1>15. Consistent(bt)'
  <2>1. Called(bt)'
    BY <1>1, <1>4, <1>5, <1>6, CalledFrame DEF Consistent
  <2>2. OldFits(bt)'
    BY <1>9
  <2>3. SlotFits(bt)'
    BY <1>9
  <2>4. IdsFit(bt)'
    BY <1>8 DEF IdsFit, NoneAt
  <2>5. InEngine(bt)'
    BY <1>8 DEF InEngine, NoneAt
  <2>6. Indexed(bt)'
    BY <1>8 DEF Indexed, NoneAt
  <2>7. Compacting(bt)'
    <3>1. \A u \in Thread : u # t =>
            bt[u] \notin Packed /\ bt[u] \notin Replacing /\ bt[u] \notin Emptied /\ bt[u] \notin Refilled
            /\ bt[u] \notin Exhumed
      BY <1>9 DEF Elsewhere
    <3>2. /\ \A j, k \in DOMAIN store'.slots : store'.slots[j].id = store'.slots[k].id => j = k
          /\ \A k \in DOMAIN store'.slots : store'.slots[k].val \in ToSet(store'.engine)
      <4>1. store'.slots = store.slots /\ store'.engine = store.engine
        BY <1>4
      <4>2. /\ \A j, k \in DOMAIN store.slots : store.slots[j].id = store.slots[k].id => j = k
            /\ \A k \in DOMAIN store.slots : store.slots[k].val \in ToSet(store.engine)
        BY <1>8 DEF Consistent, Compacting
      <4> QED
        BY <4>1, <4>2
    <3>3. /\ \A i \in Id : store'.ids[i] # None =>
               store'.ids[i] \in DOMAIN store'.slots /\ store'.slots[store'.ids[i]].id = i
          /\ \A k \in DOMAIN store'.slots : store'.ids[store'.slots[k].id] = k
      <4>1. store'.slots = store.slots
        BY <1>4
      <4>2. \A i \in Id : store'.ids[i] # None =>
              store'.ids[i] \in DOMAIN store.slots /\ store.slots[store'.ids[i]].id = i
        BY <1>13
      <4> QED
        BY <1>14, <4>1, <4>2
    <3> QED
      BY <1>8, <3>1, <3>2, <3>3 DEF Compacting
  <2> QED
    BY <2>1, <2>2, <2>3, <2>4, <2>5, <2>6, <2>7 DEF Consistent
<1>16. ASSUME Unraced(at)
       PROVE  Unraced(bt)'
  <2>1. Apart(bt)'
    BY <1>1, <1>4, <1>5, <1>6, <1>16, ApartFrame DEF Unraced, Consistent
  <2>2. Sole(bt)'
    BY <1>9
  <2>3. Carried(bt)'
    BY <1>16, <1>9 DEF Unraced
  <2>4. MetaExact(bt)'
    BY <1>8 DEF MetaExact, NoneAt
  <2>5. SparseExact(bt)'
    BY <1>1, <1>4, <1>5, <1>6, <1>16, SparseFrame DEF Unraced, Consistent
  <2>6. LogExact(bt)'
    <3>1. LogExact(at)
      BY <1>16 DEF Unraced
    <3>2. SUFFICES ASSUME persistent, log.whole
          PROVE  \A i \in Id : Replayed'[i] = RecordAt(store, i)'
      <4>1. NoneAt(bt, Cleared) /\ NoneAt(bt, LoggedFirst)
        BY <1>8, <1>9, <1>10 DEF Elsewhere, NoneAt
      <4> QED
        BY <1>1, <1>4, <4>1 DEF LogExact, NoneAt
    <3>3. Replayed' = Replayed
      BY <1>4 DEF Replayed, Replay
    <3> HIDE DEF Replayed
    <3>4. /\ \A k \in DOMAIN store.slots : Replayed[store.slots[k].id] = store.slots[k]
          /\ \A i \in Id : (\A k \in DOMAIN store.slots : store.slots[k].id # i) => Replayed[i] = None
      BY <1>8, <3>1, <3>2 DEF LogExact
    <3>5. ASSUME NEW i \in Id
          PROVE  Replayed'[i] = RecordAt(store, i)'
      <4>1. store'.slots = store.slots
        BY <1>4
      <4>2. CASE (\A k \in DOMAIN store.slots : store.slots[k].id # i) /\ store'.ids[i] = None
        <5>1. RecordAt(store, i)' = None
          BY <1>11, <4>1, <4>2 DEF RecordAt
        <5> QED
          BY <3>3, <3>4, <4>2, <5>1
      <4>3. CASE store'.ids[i] \in DOMAIN store.slots /\ store.slots[store'.ids[i]].id = i
        <5>1. RecordAt(store, i)' = store.slots[store'.ids[i]]
          BY <4>1, <4>3 DEF RecordAt
        <5>2. Replayed[i] = store.slots[store'.ids[i]]
          BY <3>4, <4>3
        <5> QED
          BY <3>3, <5>1, <5>2
      <4> QED
        BY <1>13, <4>2, <4>3
    <3> QED
      BY <3>5
  <2> QED
    BY <2>1, <2>2, <2>3, <2>4, <2>5, <2>6 DEF Unraced
<1>17. r \in Local /\ store' \in Stores /\ log' \in Logs
  <2>1. store'.ids \in [Id -> Nat \cup {None}]
    <3>1. \A i \in Id : store'.ids[i] \in Nat \cup {None}
      <4>1. \A k \in DOMAIN store.slots : k \in Nat
        BY <1>2, SlotTyped
      <4> QED
        BY <1>13, <4>1
    <3>2. DOMAIN store'.ids = Id /\ store'.ids = [i \in Id |-> store'.ids[i]]
      BY <1>4
    <3> QED
      BY <3>1, <3>2
  <2>2. store' = [store EXCEPT !.ids = store'.ids]
    BY <1>2, <1>3, <1>4 DEF Stores
  <2>3. \A x \in [Id -> Nat \cup {None}] : [store EXCEPT !.ids = x] \in Stores
    BY <1>2, StoreTyped
  <2>4. store' \in Stores
    BY <2>1, <2>2, <2>3
  <2> QED
    BY <1>2, <1>4, <2>4
<1> QED
  BY <1>15, <1>16, <1>17 DEF Preserved

\* It forgets the tombstones: every slot is live.
LEMMA ExhumeKeeps ==
  ASSUME Typed, NEW at, NEW bt, NEW t \in Thread, Placed(at), Consistent(at),
         Accesses(at, bt, t, "exhume"), at[t] \in {711}, bt[t] = 712
  PROVE  Preserved(at, bt, t)
<1> DEFINE n == at[t]
           m == bt[t]
           o == reg[t]
           r == reg'[t]
<1>1. n \in {711} /\ m = 712 /\ Goes(at, bt, t) /\ UNCHANGED persistent
  BY DEF Accesses
<1>2. o \in Local /\ store \in Stores /\ log \in Logs
  BY LocalTyped
<1>3. /\ r = o
      /\ store' = [store EXCEPT !.dead = {}]
      /\ log' = log
  <2>1. r = Registers("exhume", o, store, log) /\ store' = Changed("exhume", r, store) /\ log' = Logged("exhume", r, store, log)
    BY DEF Accesses
  <2> HIDE DEF n, m, o, r
  <2>2. r = o
    BY <2>1 DEF Registers
  <2>3. store' = [store EXCEPT !.dead = {}]
    BY <2>1 DEF Changed
  <2>4. log' = log
    BY <2>1 DEF Logged
  <2> QED
    BY <2>2, <2>3, <2>4
<1>4. /\ SameCall(o, r) /\ r = o /\ log' = log
      /\ store'.ids = store.ids /\ store'.slots = store.slots /\ store'.engine = store.engine /\ store'.meta = store.meta /\ store'.sparse = store.sparse
      /\ store'.dead = {}
      /\ Kept(store'.slots, store.slots) /\ store.sparse \subseteq store'.sparse
  BY <1>2, <1>3, KeptSame DEF Local, Stores, Logs, SameCall
<1>5. /\ Alone(at) /\ Held(at) /\ n \in Excluding /\ NoneAt(at, GateReading)
      /\ \A u \in Thread : at[u] \in Excluding => u = t
  <2>1. n \in Excluding
    BY <1>1 DEF Excluding
  <2> QED
    BY <2>1, Excluded DEF Placed
<1>6. /\ CalledPasses(n, m, o, r)
      /\ LogPasses(n, m, o, r)
  <2> HIDE DEF n, m, o, r
  <2>1. /\ SameCall(o, r) /\ r = o
    BY <1>4
  <2>2. CalledPasses(n, m, o, r)
    BY <1>1, <2>1 DEF CalledPasses, OfSet, OfBatch, OfUpdate, OfDelete
  <2>3. LogPasses(n, m, o, r)
    BY <1>1, <2>1 DEF LogPasses, Cleared, Unlogged, LoggedFirst
  <2> QED
    BY <2>2, <2>3
<1>7. \A u \in Thread : u # t => bt[u] = at[u] /\ reg'[u] = reg[u]
  BY <1>1 DEF Goes
<1>8. /\ n \notin Packed /\ n \in Replacing /\ n \notin Emptied /\ n \in Refilled /\ n \notin Exhumed /\ n \in Unindexed /\ n \in Renumbering /\ n \notin Cleared
      /\ m \notin Packed /\ m \notin Replacing /\ m \notin Emptied /\ m \notin Refilled /\ m \in Exhumed /\ m \in Unindexed /\ m \in Renumbering /\ m \notin Cleared
      /\ m \in Rewritten
  <2> HIDE DEF n, m, o, r
  <2>1. n \notin Packed /\ n \in Replacing /\ n \notin Emptied /\ n \in Refilled /\ n \notin Exhumed /\ n \in Unindexed /\ n \in Renumbering /\ n \notin Cleared
    BY <1>1 DEF Packed, Replacing, Emptied, Refilled, Exhumed, Unindexed, Renumbering, Cleared
  <2>2. m \notin Packed /\ m \notin Replacing /\ m \notin Emptied /\ m \notin Refilled /\ m \in Exhumed /\ m \in Unindexed /\ m \in Renumbering /\ m \notin Cleared
    BY <1>1 DEF Packed, Replacing, Emptied, Refilled, Exhumed, Unindexed, Renumbering, Cleared
  <2>3. m \in Rewritten
    BY <1>1 DEF Rewritten
  <2> QED
    BY <2>1, <2>2, <2>3
<1>9. /\ NoneAt(bt, GateReading)
      /\ OldFits(bt)' /\ SlotFits(bt)' /\ Sole(bt)' /\ (Carried(at) => Carried(bt)')
      /\ \A u \in Thread : u # t => Elsewhere(at[u]) /\ Elsewhere(bt[u])
  BY <1>1, <1>5, <1>8, RewrittenRest
<1>10. /\ NoneAt(at, Burying) /\ NoneAt(at, Inserting) /\ NoneAt(at, Placing) /\ NoneAt(at, Unlogged)
       /\ NoneAt(bt, Indexing) /\ NoneAt(bt, Rewriting) /\ NoneAt(bt, LoggedFirst)
  BY <1>1, <1>5, <1>9, Idlers DEF Goes
<1>11. /\ \A i \in Id : store.ids[i] # None =>
            store.ids[i] \in DOMAIN store.slots /\ store.slots[store.ids[i]].id = i
       /\ \A k \in DOMAIN store.slots : store.ids[store.slots[k].id] = k
       /\ \A k \in DOMAIN store.slots : store.slots[k].val \in ToSet(store.engine)
  BY <1>8 DEF Consistent, Compacting
<1>12. LiveIn(store)' = DOMAIN store.slots
  BY <1>4 DEF LiveIn
<1>13. Consistent(bt)'
  <2>1. Called(bt)'
    BY <1>1, <1>4, <1>5, <1>6, CalledFrame DEF Consistent
  <2>2. OldFits(bt)'
    BY <1>9
  <2>3. SlotFits(bt)'
    BY <1>9
  <2>4. IdsFit(bt)'
    <3>1. store'.slots = store.slots /\ store'.ids = store.ids /\ store'.dead = {}
      BY <1>4
    <3> QED
      BY <1>11, <1>12, <3>1 DEF IdsFit
  <2>5. InEngine(bt)'
    <3>1. store'.slots = store.slots /\ store'.engine = store.engine
      BY <1>4
    <3> QED
      BY <1>11, <1>12, <3>1 DEF InEngine
  <2>6. Indexed(bt)'
    BY <1>8 DEF Indexed, NoneAt
  <2>7. Compacting(bt)'
    <3>1. \A u \in Thread : u # t =>
            bt[u] \notin Packed /\ bt[u] \notin Replacing /\ bt[u] \notin Emptied /\ bt[u] \notin Refilled
            /\ bt[u] \notin Exhumed
      BY <1>9 DEF Elsewhere
    <3>2. store'.dead = {}
      BY <1>4
    <3> QED
      BY <1>8, <3>1, <3>2 DEF Compacting
  <2> QED
    BY <2>1, <2>2, <2>3, <2>4, <2>5, <2>6, <2>7 DEF Consistent
<1>14. ASSUME Unraced(at)
       PROVE  Unraced(bt)'
  <2>1. Apart(bt)'
    BY <1>1, <1>4, <1>5, <1>6, <1>14, ApartFrame DEF Unraced, Consistent
  <2>2. Sole(bt)'
    BY <1>9
  <2>3. Carried(bt)'
    BY <1>14, <1>9 DEF Unraced
  <2>4. MetaExact(bt)'
    BY <1>8 DEF MetaExact, NoneAt
  <2>5. SparseExact(bt)'
    <3>1. SparseExact(at)
      BY <1>14 DEF Unraced
    <3>2. /\ DOMAIN o.order = DOMAIN store.slots
          /\ \A k \in DOMAIN store.slots : o.order[k] \in store.sparse <=> store.slots[k].sparse
      BY <1>8, <3>1 DEF SparseExact
    <3>3. reg'[t].order = o.order /\ store'.slots = store.slots /\ store'.sparse = store.sparse
      BY <1>4
    <3>4. \A u \in Thread : u # t => bt[u] \notin Renumbering
      BY <1>9 DEF Elsewhere
    <3>5. ~NoneAt(bt, Renumbering)
      BY <1>8 DEF NoneAt
    <3> QED
      BY <3>2, <3>3, <3>4, <3>5 DEF SparseExact
  <2>6. LogExact(bt)'
    BY <1>1, <1>4, <1>5, <1>6, <1>14, LogFrame DEF Unraced, Consistent
  <2> QED
    BY <2>1, <2>2, <2>3, <2>4, <2>5, <2>6 DEF Unraced
<1>15. r \in Local /\ store' \in Stores /\ log' \in Logs
  <2>1. store'.dead \in SUBSET Nat
    BY <1>4
  <2>2. store' = [store EXCEPT !.dead = store'.dead]
    BY <1>2, <1>3, <1>4 DEF Stores
  <2>3. \A x \in SUBSET Nat : [store EXCEPT !.dead = x] \in Stores
    BY <1>2, StoreTyped, ZenonT(60)
  <2>4. store' \in Stores
    BY <2>1, <2>2, <2>3
  <2> QED
    BY <1>2, <1>4, <2>4
<1> QED
  BY <1>13, <1>14, <1>15 DEF Preserved

\* It gives the sparse vectors the new slot numbers.
LEMMA RenumberKeeps ==
  ASSUME Typed, NEW at, NEW bt, NEW t \in Thread, Placed(at), Consistent(at),
         Accesses(at, bt, t, "renumber"), at[t] \in {713}, bt[t] = 714
  PROVE  Preserved(at, bt, t)
<1> DEFINE n == at[t]
           m == bt[t]
           o == reg[t]
           r == reg'[t]
<1>1. n \in {713} /\ m = 714 /\ Goes(at, bt, t) /\ UNCHANGED persistent
  BY DEF Accesses
<1>2. o \in Local /\ store \in Stores /\ log \in Logs
  BY LocalTyped
<1>3. /\ r = o
      /\ store' = [store EXCEPT !.sparse = {k \in DOMAIN r.order : r.order[k] \in store.sparse}]
      /\ log' = log
  <2>1. r = Registers("renumber", o, store, log) /\ store' = Changed("renumber", r, store) /\ log' = Logged("renumber", r, store, log)
    BY DEF Accesses
  <2> HIDE DEF n, m, o, r
  <2>2. r = o
    BY <2>1 DEF Registers
  <2>3. store' = [store EXCEPT !.sparse = {k \in DOMAIN r.order : r.order[k] \in store.sparse}]
    BY <2>1 DEF Changed
  <2>4. log' = log
    BY <2>1 DEF Logged
  <2> QED
    BY <2>2, <2>3, <2>4
<1>4. /\ SameCall(o, r) /\ r = o /\ log' = log
      /\ store'.ids = store.ids /\ store'.slots = store.slots /\ store'.dead = store.dead /\ store'.engine = store.engine /\ store'.meta = store.meta
      /\ store'.sparse = {k \in DOMAIN o.order : o.order[k] \in store.sparse}
      /\ Kept(store'.slots, store.slots) /\ store.dead \subseteq store'.dead
  BY <1>2, <1>3, KeptSame DEF Local, Stores, Logs, SameCall
<1>5. /\ Alone(at) /\ Held(at) /\ n \in Excluding /\ NoneAt(at, GateReading)
      /\ \A u \in Thread : at[u] \in Excluding => u = t
  <2>1. n \in Excluding
    BY <1>1 DEF Excluding
  <2> QED
    BY <2>1, Excluded DEF Placed
<1>6. /\ CalledPasses(n, m, o, r)
      /\ IdsPass(n, m, o, r)
      /\ EnginePasses(n, m, o, r)
      /\ IndexPasses(n, m, o, r)
      /\ MetaPasses(n, m, o, r)
      /\ LogPasses(n, m, o, r)
  <2> HIDE DEF n, m, o, r
  <2>1. /\ SameCall(o, r) /\ r = o
    BY <1>4
  <2>2. CalledPasses(n, m, o, r)
    BY <1>1, <2>1 DEF CalledPasses, OfSet, OfBatch, OfUpdate, OfDelete
  <2>3. IdsPass(n, m, o, r)
    BY <1>1, <2>1 DEF IdsPass, Replacing, Burying
  <2>4. EnginePasses(n, m, o, r)
    BY <1>1, <2>1 DEF EnginePasses, Replacing, Inserting
  <2>5. IndexPasses(n, m, o, r)
    BY <1>1, <2>1 DEF IndexPasses, Unindexed, Indexing
  <2>6. MetaPasses(n, m, o, r)
    BY <1>1, <2>1 DEF MetaPasses, Unindexed, Unindexing, Rewriting, Indexing
  <2>7. LogPasses(n, m, o, r)
    BY <1>1, <2>1 DEF LogPasses, Cleared, Unlogged, LoggedFirst
  <2> QED
    BY <2>2, <2>3, <2>4, <2>5, <2>6, <2>7
<1>7. \A u \in Thread : u # t => bt[u] = at[u] /\ reg'[u] = reg[u]
  BY <1>1 DEF Goes
<1>8. /\ n \notin Packed /\ n \notin Replacing /\ n \notin Emptied /\ n \notin Refilled /\ n \in Exhumed /\ n \in Unindexed /\ n \in Renumbering /\ n \notin Cleared
      /\ m \notin Packed /\ m \notin Replacing /\ m \notin Emptied /\ m \notin Refilled /\ m \in Exhumed /\ m \in Unindexed /\ m \notin Renumbering /\ m \notin Cleared
      /\ m \in Rewritten
  <2> HIDE DEF n, m, o, r
  <2>1. n \notin Packed /\ n \notin Replacing /\ n \notin Emptied /\ n \notin Refilled /\ n \in Exhumed /\ n \in Unindexed /\ n \in Renumbering /\ n \notin Cleared
    BY <1>1 DEF Packed, Replacing, Emptied, Refilled, Exhumed, Unindexed, Renumbering, Cleared
  <2>2. m \notin Packed /\ m \notin Replacing /\ m \notin Emptied /\ m \notin Refilled /\ m \in Exhumed /\ m \in Unindexed /\ m \notin Renumbering /\ m \notin Cleared
    BY <1>1 DEF Packed, Replacing, Emptied, Refilled, Exhumed, Unindexed, Renumbering, Cleared
  <2>3. m \in Rewritten
    BY <1>1 DEF Rewritten
  <2> QED
    BY <2>1, <2>2, <2>3
<1>9. /\ NoneAt(bt, GateReading)
      /\ OldFits(bt)' /\ SlotFits(bt)' /\ Sole(bt)' /\ (Carried(at) => Carried(bt)')
      /\ \A u \in Thread : u # t => Elsewhere(at[u]) /\ Elsewhere(bt[u])
  BY <1>1, <1>5, <1>8, RewrittenRest
<1>10. /\ NoneAt(at, Burying) /\ NoneAt(at, Inserting) /\ NoneAt(at, Placing) /\ NoneAt(at, Unlogged)
       /\ NoneAt(bt, Indexing) /\ NoneAt(bt, Rewriting) /\ NoneAt(bt, LoggedFirst)
  BY <1>1, <1>5, <1>9, Idlers DEF Goes
<1>11. store.dead = {}
  BY <1>8 DEF Consistent, Compacting
<1>12. Consistent(bt)'
  <2>1. Called(bt)'
    BY <1>1, <1>4, <1>5, <1>6, CalledFrame DEF Consistent
  <2>2. OldFits(bt)'
    BY <1>9
  <2>3. SlotFits(bt)'
    BY <1>9
  <2>4. IdsFit(bt)'
    BY <1>1, <1>4, <1>5, <1>6, IdsFrame DEF Consistent
  <2>5. InEngine(bt)'
    BY <1>1, <1>4, <1>5, <1>6, EngineFrame DEF Consistent
  <2>6. Indexed(bt)'
    BY <1>1, <1>4, <1>5, <1>6, IndexFrame DEF Consistent
  <2>7. Compacting(bt)'
    <3>1. \A u \in Thread : u # t =>
            bt[u] \notin Packed /\ bt[u] \notin Replacing /\ bt[u] \notin Emptied /\ bt[u] \notin Refilled
            /\ bt[u] \notin Exhumed
      BY <1>9 DEF Elsewhere
    <3>2. store'.dead = {}
      BY <1>4, <1>11
    <3> QED
      BY <1>8, <3>1, <3>2 DEF Compacting
  <2> QED
    BY <2>1, <2>2, <2>3, <2>4, <2>5, <2>6, <2>7 DEF Consistent
<1>13. ASSUME Unraced(at)
       PROVE  Unraced(bt)'
  <2>1. Apart(bt)'
    BY <1>1, <1>4, <1>5, <1>6, <1>13, ApartFrame DEF Unraced, Consistent
  <2>2. Sole(bt)'
    BY <1>9
  <2>3. Carried(bt)'
    BY <1>13, <1>9 DEF Unraced
  <2>4. MetaExact(bt)'
    BY <1>1, <1>4, <1>5, <1>6, <1>13, MetaFrame DEF Unraced, Consistent
  <2>5. SparseExact(bt)'
    <3>1. SparseExact(at)
      BY <1>13 DEF Unraced
    <3>2. /\ DOMAIN o.order = DOMAIN store.slots
          /\ \A k \in DOMAIN store.slots : o.order[k] \in store.sparse <=> store.slots[k].sparse
      BY <1>8, <3>1 DEF SparseExact
    <3>3. store'.slots = store.slots /\ store'.dead = {}
      BY <1>4, <1>11
    <3>4. \A k \in store'.sparse : k \in DOMAIN store.slots /\ store.slots[k].sparse
      BY <1>4, <3>2
    <3>5. \A k \in DOMAIN store.slots : store.slots[k].sparse => k \in store'.sparse
      BY <1>4, <3>2
    <3>6. \A u \in Thread : bt[u] \notin Renumbering
      BY <1>8, <1>9 DEF Elsewhere
    <3>7. LiveIn(store)' \subseteq DOMAIN store.slots
      BY <3>3 DEF LiveIn
    <3> QED
      BY <3>3, <3>4, <3>5, <3>6, <3>7 DEF SparseExact
  <2>6. LogExact(bt)'
    BY <1>1, <1>4, <1>5, <1>6, <1>13, LogFrame DEF Unraced, Consistent
  <2> QED
    BY <2>1, <2>2, <2>3, <2>4, <2>5, <2>6 DEF Unraced
<1>14. r \in Local /\ store' \in Stores /\ log' \in Logs
  <2>1. store'.sparse \in SUBSET Nat
    <3>1. DOMAIN o.order \subseteq Nat
      <4>1. o.order \in Seq(Nat)
        BY <1>2 DEF Local
      <4> QED
        BY <4>1
    <3> QED
      BY <1>4, <3>1
  <2>2. store' = [store EXCEPT !.sparse = store'.sparse]
    BY <1>2, <1>3, <1>4 DEF Stores
  <2>3. \A x \in SUBSET Nat : [store EXCEPT !.sparse = x] \in Stores
    BY <1>2, StoreTyped, ZenonT(60)
  <2>4. store' \in Stores
    BY <2>1, <2>2, <2>3
  <2> QED
    BY <1>2, <1>4, <2>4
<1> QED
  BY <1>12, <1>13, <1>14 DEF Preserved

\* It builds the engine anew from the slots.
LEMMA RebuildKeeps ==
  ASSUME Typed, NEW at, NEW bt, NEW t \in Thread, Placed(at), Consistent(at),
         Accesses(at, bt, t, "rebuild"), at[t] \in {716}, bt[t] = 717
  PROVE  Preserved(at, bt, t)
<1> DEFINE n == at[t]
           m == bt[t]
           o == reg[t]
           r == reg'[t]
<1>1. n \in {716} /\ m = 717 /\ Goes(at, bt, t) /\ UNCHANGED persistent
  BY DEF Accesses
<1>2. o \in Local /\ store \in Stores /\ log \in Logs
  BY LocalTyped
<1>3. /\ r = o
      /\ store' = [store EXCEPT !.engine = [k \in DOMAIN store.slots |-> store.slots[k].val]]
      /\ log' = log
  <2>1. r = Registers("rebuild", o, store, log) /\ store' = Changed("rebuild", r, store) /\ log' = Logged("rebuild", r, store, log)
    BY DEF Accesses
  <2> HIDE DEF n, m, o, r
  <2>2. r = o
    BY <2>1 DEF Registers
  <2>3. store' = [store EXCEPT !.engine = [k \in DOMAIN store.slots |-> store.slots[k].val]]
    BY <2>1 DEF Changed
  <2>4. log' = log
    BY <2>1 DEF Logged
  <2> QED
    BY <2>2, <2>3, <2>4
<1>4. /\ SameCall(o, r) /\ r = o /\ log' = log
      /\ store'.ids = store.ids /\ store'.slots = store.slots /\ store'.dead = store.dead /\ store'.meta = store.meta /\ store'.sparse = store.sparse
      /\ store'.engine = [k \in DOMAIN store.slots |-> store.slots[k].val]
      /\ Kept(store'.slots, store.slots) /\ store.dead \subseteq store'.dead /\ store.sparse \subseteq store'.sparse
  BY <1>2, <1>3, KeptSame DEF Local, Stores, Logs, SameCall
<1>5. /\ Alone(at) /\ Held(at) /\ n \in Excluding /\ NoneAt(at, GateReading)
      /\ \A u \in Thread : at[u] \in Excluding => u = t
  <2>1. n \in Excluding
    BY <1>1 DEF Excluding
  <2> QED
    BY <2>1, Excluded DEF Placed
<1>6. /\ CalledPasses(n, m, o, r)
      /\ IdsPass(n, m, o, r)
      /\ IndexPasses(n, m, o, r)
      /\ MetaPasses(n, m, o, r)
      /\ SparsePasses(n, m, o, r)
      /\ LogPasses(n, m, o, r)
  <2> HIDE DEF n, m, o, r
  <2>1. /\ SameCall(o, r) /\ r = o
    BY <1>4
  <2>2. CalledPasses(n, m, o, r)
    BY <1>1, <2>1 DEF CalledPasses, OfSet, OfBatch, OfUpdate, OfDelete
  <2>3. IdsPass(n, m, o, r)
    BY <1>1, <2>1 DEF IdsPass, Replacing, Burying
  <2>4. IndexPasses(n, m, o, r)
    BY <1>1, <2>1 DEF IndexPasses, Unindexed, Indexing
  <2>5. MetaPasses(n, m, o, r)
    BY <1>1, <2>1 DEF MetaPasses, Unindexed, Unindexing, Rewriting, Indexing
  <2>6. SparsePasses(n, m, o, r)
    BY <1>1, <2>1 DEF SparsePasses, Renumbering, Dropping, Placing
  <2>7. LogPasses(n, m, o, r)
    BY <1>1, <2>1 DEF LogPasses, Cleared, Unlogged, LoggedFirst
  <2> QED
    BY <2>2, <2>3, <2>4, <2>5, <2>6, <2>7
<1>7. \A u \in Thread : u # t => bt[u] = at[u] /\ reg'[u] = reg[u]
  BY <1>1 DEF Goes
<1>8. /\ n \notin Packed /\ n \notin Replacing /\ n \notin Emptied /\ n \notin Refilled /\ n \in Exhumed /\ n \in Unindexed /\ n \notin Renumbering /\ n \notin Cleared
      /\ m \notin Packed /\ m \notin Replacing /\ m \notin Emptied /\ m \notin Refilled /\ m \in Exhumed /\ m \in Unindexed /\ m \notin Renumbering /\ m \notin Cleared
      /\ m \in Rewritten
  <2> HIDE DEF n, m, o, r
  <2>1. n \notin Packed /\ n \notin Replacing /\ n \notin Emptied /\ n \notin Refilled /\ n \in Exhumed /\ n \in Unindexed /\ n \notin Renumbering /\ n \notin Cleared
    BY <1>1 DEF Packed, Replacing, Emptied, Refilled, Exhumed, Unindexed, Renumbering, Cleared
  <2>2. m \notin Packed /\ m \notin Replacing /\ m \notin Emptied /\ m \notin Refilled /\ m \in Exhumed /\ m \in Unindexed /\ m \notin Renumbering /\ m \notin Cleared
    BY <1>1 DEF Packed, Replacing, Emptied, Refilled, Exhumed, Unindexed, Renumbering, Cleared
  <2>3. m \in Rewritten
    BY <1>1 DEF Rewritten
  <2> QED
    BY <2>1, <2>2, <2>3
<1>9. /\ NoneAt(bt, GateReading)
      /\ OldFits(bt)' /\ SlotFits(bt)' /\ Sole(bt)' /\ (Carried(at) => Carried(bt)')
      /\ \A u \in Thread : u # t => Elsewhere(at[u]) /\ Elsewhere(bt[u])
  BY <1>1, <1>5, <1>8, RewrittenRest
<1>10. /\ NoneAt(at, Burying) /\ NoneAt(at, Inserting) /\ NoneAt(at, Placing) /\ NoneAt(at, Unlogged)
       /\ NoneAt(bt, Indexing) /\ NoneAt(bt, Rewriting) /\ NoneAt(bt, LoggedFirst)
  BY <1>1, <1>5, <1>9, Idlers DEF Goes
<1>11. store.dead = {}
  BY <1>8 DEF Consistent, Compacting
<1>12. Consistent(bt)'
  <2>1. Called(bt)'
    BY <1>1, <1>4, <1>5, <1>6, CalledFrame DEF Consistent
  <2>2. OldFits(bt)'
    BY <1>9
  <2>3. SlotFits(bt)'
    BY <1>9
  <2>4. IdsFit(bt)'
    BY <1>1, <1>4, <1>5, <1>6, IdsFrame DEF Consistent
  <2>5. InEngine(bt)'
    <3>1. \A k \in LiveIn(store)' : store'.slots[k].val \in ToSet(store'.engine)
      <4> TAKE k \in LiveIn(store)'
      <4>1. k \in DOMAIN store.slots /\ store'.slots = store.slots
        BY <1>4 DEF LiveIn
      <4>2. k \in DOMAIN store'.engine /\ store'.engine[k] = store'.slots[k].val
        BY <1>4, <4>1
      <4> QED
        BY <4>2 DEF ToSet
    <3> QED
      BY <3>1 DEF InEngine
  <2>6. Indexed(bt)'
    BY <1>1, <1>4, <1>5, <1>6, IndexFrame DEF Consistent
  <2>7. Compacting(bt)'
    <3>1. \A u \in Thread : u # t =>
            bt[u] \notin Packed /\ bt[u] \notin Replacing /\ bt[u] \notin Emptied /\ bt[u] \notin Refilled
            /\ bt[u] \notin Exhumed
      BY <1>9 DEF Elsewhere
    <3>2. store'.dead = {}
      BY <1>4, <1>11
    <3> QED
      BY <1>8, <3>1, <3>2 DEF Compacting
  <2> QED
    BY <2>1, <2>2, <2>3, <2>4, <2>5, <2>6, <2>7 DEF Consistent
<1>13. ASSUME Unraced(at)
       PROVE  Unraced(bt)'
  <2>1. Apart(bt)'
    BY <1>1, <1>4, <1>5, <1>6, <1>13, ApartFrame DEF Unraced, Consistent
  <2>2. Sole(bt)'
    BY <1>9
  <2>3. Carried(bt)'
    BY <1>13, <1>9 DEF Unraced
  <2>4. MetaExact(bt)'
    BY <1>1, <1>4, <1>5, <1>6, <1>13, MetaFrame DEF Unraced, Consistent
  <2>5. SparseExact(bt)'
    BY <1>1, <1>4, <1>5, <1>6, <1>13, SparseFrame DEF Unraced, Consistent
  <2>6. LogExact(bt)'
    BY <1>1, <1>4, <1>5, <1>6, <1>13, LogFrame DEF Unraced, Consistent
  <2> QED
    BY <2>1, <2>2, <2>3, <2>4, <2>5, <2>6 DEF Unraced
<1>14. r \in Local /\ store' \in Stores /\ log' \in Logs
  <2>1. store'.engine \in Seq([id : Id, by : Nat])
    <3>1. \A k \in DOMAIN store.slots : store.slots[k].val \in [id : Id, by : Nat]
      BY <1>2, SlotTyped
    <3>2. DOMAIN store.slots = 1..Len(store.slots) /\ Len(store.slots) \in Nat
      <4>1. store.slots \in Seq(SlotRecord)
        BY <1>2 DEF Stores
      <4> QED
        BY <4>1
    <3>3. store'.engine \in [1..Len(store.slots) -> [id : Id, by : Nat]]
      BY <1>4, <3>1, <3>2
    <3> DEFINE L == Len(store.slots)
               e == store'.engine
               X == [id : Id, by : Nat]
    <3>4. L \in Nat /\ e \in [1..L -> X]
      BY <3>2, <3>3
    <3> HIDE DEF L, e, X
    <3>5. e \in Seq(X)
      BY <3>4
    <3> QED
      BY <3>5 DEF e, X
  <2>2. store' = [store EXCEPT !.engine = store'.engine]
    BY <1>2, <1>3, <1>4 DEF Stores
  <2>3. \A x \in Seq([id : Id, by : Nat]) : [store EXCEPT !.engine = x] \in Stores
    BY <1>2, StoreTyped
  <2>4. store' \in Stores
    <3> DEFINE e == store'.engine
    <3>1. e \in Seq([id : Id, by : Nat]) /\ store' = [store EXCEPT !.engine = e]
      BY <2>1, <2>2
    <3> HIDE DEF e, n, m, o, r
    <3>2. [store EXCEPT !.engine = e] \in Stores
      BY <3>1, <2>3, ZenonT(60)
    <3> QED
      BY <3>1, <3>2
  <2> QED
    BY <1>2, <1>4, <2>4
<1> QED
  BY <1>12, <1>13, <1>14 DEF Preserved

\* It empties the metadata index.
LEMMA ForgetKeeps ==
  ASSUME Typed, NEW at, NEW bt, NEW t \in Thread, Placed(at), Consistent(at),
         Accesses(at, bt, t, "forget"), at[t] \in {719}, bt[t] = 720
  PROVE  Preserved(at, bt, t)
<1> DEFINE n == at[t]
           m == bt[t]
           o == reg[t]
           r == reg'[t]
<1>1. n \in {719} /\ m = 720 /\ Goes(at, bt, t) /\ UNCHANGED persistent
  BY DEF Accesses
<1>2. o \in Local /\ store \in Stores /\ log \in Logs
  BY LocalTyped
<1>3. /\ r = o
      /\ store' = [store EXCEPT !.meta = {}]
      /\ log' = log
  <2>1. r = Registers("forget", o, store, log) /\ store' = Changed("forget", r, store) /\ log' = Logged("forget", r, store, log)
    BY DEF Accesses
  <2> HIDE DEF n, m, o, r
  <2>2. r = o
    BY <2>1 DEF Registers
  <2>3. store' = [store EXCEPT !.meta = {}]
    BY <2>1 DEF Changed
  <2>4. log' = log
    BY <2>1 DEF Logged
  <2> QED
    BY <2>2, <2>3, <2>4
<1>4. /\ SameCall(o, r) /\ r = o /\ log' = log
      /\ store'.ids = store.ids /\ store'.slots = store.slots /\ store'.dead = store.dead /\ store'.engine = store.engine /\ store'.sparse = store.sparse
      /\ store'.meta = {}
      /\ Kept(store'.slots, store.slots) /\ store.dead \subseteq store'.dead /\ store.sparse \subseteq store'.sparse
  BY <1>2, <1>3, KeptSame DEF Local, Stores, Logs, SameCall
<1>5. /\ Alone(at) /\ Held(at) /\ n \in Excluding /\ NoneAt(at, GateReading)
      /\ \A u \in Thread : at[u] \in Excluding => u = t
  <2>1. n \in Excluding
    BY <1>1 DEF Excluding
  <2> QED
    BY <2>1, Excluded DEF Placed
<1>6. /\ CalledPasses(n, m, o, r)
      /\ IdsPass(n, m, o, r)
      /\ EnginePasses(n, m, o, r)
      /\ SparsePasses(n, m, o, r)
      /\ LogPasses(n, m, o, r)
  <2> HIDE DEF n, m, o, r
  <2>1. /\ SameCall(o, r) /\ r = o
    BY <1>4
  <2>2. CalledPasses(n, m, o, r)
    BY <1>1, <2>1 DEF CalledPasses, OfSet, OfBatch, OfUpdate, OfDelete
  <2>3. IdsPass(n, m, o, r)
    BY <1>1, <2>1 DEF IdsPass, Replacing, Burying
  <2>4. EnginePasses(n, m, o, r)
    BY <1>1, <2>1 DEF EnginePasses, Replacing, Inserting
  <2>5. SparsePasses(n, m, o, r)
    BY <1>1, <2>1 DEF SparsePasses, Renumbering, Dropping, Placing
  <2>6. LogPasses(n, m, o, r)
    BY <1>1, <2>1 DEF LogPasses, Cleared, Unlogged, LoggedFirst
  <2> QED
    BY <2>2, <2>3, <2>4, <2>5, <2>6
<1>7. \A u \in Thread : u # t => bt[u] = at[u] /\ reg'[u] = reg[u]
  BY <1>1 DEF Goes
<1>8. /\ n \notin Packed /\ n \notin Replacing /\ n \notin Emptied /\ n \notin Refilled /\ n \in Exhumed /\ n \in Unindexed /\ n \notin Renumbering /\ n \notin Cleared
      /\ m \notin Packed /\ m \notin Replacing /\ m \notin Emptied /\ m \notin Refilled /\ m \in Exhumed /\ m \in Unindexed /\ m \notin Renumbering /\ m \notin Cleared
      /\ m \in Rewritten
  <2> HIDE DEF n, m, o, r
  <2>1. n \notin Packed /\ n \notin Replacing /\ n \notin Emptied /\ n \notin Refilled /\ n \in Exhumed /\ n \in Unindexed /\ n \notin Renumbering /\ n \notin Cleared
    BY <1>1 DEF Packed, Replacing, Emptied, Refilled, Exhumed, Unindexed, Renumbering, Cleared
  <2>2. m \notin Packed /\ m \notin Replacing /\ m \notin Emptied /\ m \notin Refilled /\ m \in Exhumed /\ m \in Unindexed /\ m \notin Renumbering /\ m \notin Cleared
    BY <1>1 DEF Packed, Replacing, Emptied, Refilled, Exhumed, Unindexed, Renumbering, Cleared
  <2>3. m \in Rewritten
    BY <1>1 DEF Rewritten
  <2> QED
    BY <2>1, <2>2, <2>3
<1>9. /\ NoneAt(bt, GateReading)
      /\ OldFits(bt)' /\ SlotFits(bt)' /\ Sole(bt)' /\ (Carried(at) => Carried(bt)')
      /\ \A u \in Thread : u # t => Elsewhere(at[u]) /\ Elsewhere(bt[u])
  BY <1>1, <1>5, <1>8, RewrittenRest
<1>10. /\ NoneAt(at, Burying) /\ NoneAt(at, Inserting) /\ NoneAt(at, Placing) /\ NoneAt(at, Unlogged)
       /\ NoneAt(bt, Indexing) /\ NoneAt(bt, Rewriting) /\ NoneAt(bt, LoggedFirst)
  BY <1>1, <1>5, <1>9, Idlers DEF Goes
<1>11. store.dead = {}
  BY <1>8 DEF Consistent, Compacting
<1>12. Consistent(bt)'
  <2>1. Called(bt)'
    BY <1>1, <1>4, <1>5, <1>6, CalledFrame DEF Consistent
  <2>2. OldFits(bt)'
    BY <1>9
  <2>3. SlotFits(bt)'
    BY <1>9
  <2>4. IdsFit(bt)'
    BY <1>1, <1>4, <1>5, <1>6, IdsFrame DEF Consistent
  <2>5. InEngine(bt)'
    BY <1>1, <1>4, <1>5, <1>6, EngineFrame DEF Consistent
  <2>6. Indexed(bt)'
    BY <1>8 DEF Indexed, NoneAt
  <2>7. Compacting(bt)'
    <3>1. \A u \in Thread : u # t =>
            bt[u] \notin Packed /\ bt[u] \notin Replacing /\ bt[u] \notin Emptied /\ bt[u] \notin Refilled
            /\ bt[u] \notin Exhumed
      BY <1>9 DEF Elsewhere
    <3>2. store'.dead = {}
      BY <1>4, <1>11
    <3> QED
      BY <1>8, <3>1, <3>2 DEF Compacting
  <2> QED
    BY <2>1, <2>2, <2>3, <2>4, <2>5, <2>6, <2>7 DEF Consistent
<1>13. ASSUME Unraced(at)
       PROVE  Unraced(bt)'
  <2>1. Apart(bt)'
    BY <1>1, <1>4, <1>5, <1>6, <1>13, ApartFrame DEF Unraced, Consistent
  <2>2. Sole(bt)'
    BY <1>9
  <2>3. Carried(bt)'
    BY <1>13, <1>9 DEF Unraced
  <2>4. MetaExact(bt)'
    BY <1>8 DEF MetaExact, NoneAt
  <2>5. SparseExact(bt)'
    BY <1>1, <1>4, <1>5, <1>6, <1>13, SparseFrame DEF Unraced, Consistent
  <2>6. LogExact(bt)'
    BY <1>1, <1>4, <1>5, <1>6, <1>13, LogFrame DEF Unraced, Consistent
  <2> QED
    BY <2>1, <2>2, <2>3, <2>4, <2>5, <2>6 DEF Unraced
<1>14. r \in Local /\ store' \in Stores /\ log' \in Logs
  <2>1. store'.meta \in SUBSET [slot : Nat, meta : Nat]
    BY <1>4
  <2>2. store' = [store EXCEPT !.meta = store'.meta]
    BY <1>2, <1>3, <1>4 DEF Stores
  <2>3. \A x \in SUBSET [slot : Nat, meta : Nat] : [store EXCEPT !.meta = x] \in Stores
    BY <1>2, StoreTyped
  <2>4. store' \in Stores
    BY <2>1, <2>2, <2>3
  <2> QED
    BY <1>2, <1>4, <2>4
<1> QED
  BY <1>12, <1>13, <1>14 DEF Preserved

\* It indexes the metadata of the slots.
LEMMA RestoreKeeps ==
  ASSUME Typed, NEW at, NEW bt, NEW t \in Thread, Placed(at), Consistent(at),
         Accesses(at, bt, t, "restore"), at[t] \in {723}, bt[t] = 724
  PROVE  Preserved(at, bt, t)
<1> DEFINE n == at[t]
           m == bt[t]
           o == reg[t]
           r == reg'[t]
<1>1. n \in {723} /\ m = 724 /\ Goes(at, bt, t) /\ UNCHANGED persistent
  BY DEF Accesses
<1>2. o \in Local /\ store \in Stores /\ log \in Logs
  BY LocalTyped
<1>3. /\ r = o
      /\ store' = [store EXCEPT !.meta = {[slot |-> k, meta |-> store.slots[k].meta] : k \in DOMAIN store.slots}]
      /\ log' = log
  <2>1. r = Registers("restore", o, store, log) /\ store' = Changed("restore", r, store) /\ log' = Logged("restore", r, store, log)
    BY DEF Accesses
  <2> HIDE DEF n, m, o, r
  <2>2. r = o
    BY <2>1 DEF Registers
  <2>3. store' = [store EXCEPT !.meta = {[slot |-> k, meta |-> store.slots[k].meta] : k \in DOMAIN store.slots}]
    BY <2>1 DEF Changed
  <2>4. log' = log
    BY <2>1 DEF Logged
  <2> QED
    BY <2>2, <2>3, <2>4
<1>4. /\ SameCall(o, r) /\ r = o /\ log' = log
      /\ store'.ids = store.ids /\ store'.slots = store.slots /\ store'.dead = store.dead /\ store'.engine = store.engine /\ store'.sparse = store.sparse
      /\ store'.meta = {[slot |-> k, meta |-> store.slots[k].meta] : k \in DOMAIN store.slots}
      /\ Kept(store'.slots, store.slots) /\ store.dead \subseteq store'.dead /\ store.sparse \subseteq store'.sparse
  BY <1>2, <1>3, KeptSame DEF Local, Stores, Logs, SameCall
<1>5. /\ Alone(at) /\ Held(at) /\ n \in Excluding /\ NoneAt(at, GateReading)
      /\ \A u \in Thread : at[u] \in Excluding => u = t
  <2>1. n \in Excluding
    BY <1>1 DEF Excluding
  <2> QED
    BY <2>1, Excluded DEF Placed
<1>6. /\ CalledPasses(n, m, o, r)
      /\ IdsPass(n, m, o, r)
      /\ EnginePasses(n, m, o, r)
      /\ SparsePasses(n, m, o, r)
      /\ LogPasses(n, m, o, r)
  <2> HIDE DEF n, m, o, r
  <2>1. /\ SameCall(o, r) /\ r = o
    BY <1>4
  <2>2. CalledPasses(n, m, o, r)
    BY <1>1, <2>1 DEF CalledPasses, OfSet, OfBatch, OfUpdate, OfDelete
  <2>3. IdsPass(n, m, o, r)
    BY <1>1, <2>1 DEF IdsPass, Replacing, Burying
  <2>4. EnginePasses(n, m, o, r)
    BY <1>1, <2>1 DEF EnginePasses, Replacing, Inserting
  <2>5. SparsePasses(n, m, o, r)
    BY <1>1, <2>1 DEF SparsePasses, Renumbering, Dropping, Placing
  <2>6. LogPasses(n, m, o, r)
    BY <1>1, <2>1 DEF LogPasses, Cleared, Unlogged, LoggedFirst
  <2> QED
    BY <2>2, <2>3, <2>4, <2>5, <2>6
<1>7. \A u \in Thread : u # t => bt[u] = at[u] /\ reg'[u] = reg[u]
  BY <1>1 DEF Goes
<1>8. /\ n \notin Packed /\ n \notin Replacing /\ n \notin Emptied /\ n \notin Refilled /\ n \in Exhumed /\ n \in Unindexed /\ n \notin Renumbering /\ n \notin Cleared
      /\ m \notin Packed /\ m \notin Replacing /\ m \notin Emptied /\ m \notin Refilled /\ m \notin Exhumed /\ m \notin Unindexed /\ m \notin Renumbering /\ m \notin Cleared
      /\ m \in Rewritten
  <2> HIDE DEF n, m, o, r
  <2>1. n \notin Packed /\ n \notin Replacing /\ n \notin Emptied /\ n \notin Refilled /\ n \in Exhumed /\ n \in Unindexed /\ n \notin Renumbering /\ n \notin Cleared
    BY <1>1 DEF Packed, Replacing, Emptied, Refilled, Exhumed, Unindexed, Renumbering, Cleared
  <2>2. m \notin Packed /\ m \notin Replacing /\ m \notin Emptied /\ m \notin Refilled /\ m \notin Exhumed /\ m \notin Unindexed /\ m \notin Renumbering /\ m \notin Cleared
    BY <1>1 DEF Packed, Replacing, Emptied, Refilled, Exhumed, Unindexed, Renumbering, Cleared
  <2>3. m \in Rewritten
    BY <1>1 DEF Rewritten
  <2> QED
    BY <2>1, <2>2, <2>3
<1>9. /\ NoneAt(bt, GateReading)
      /\ OldFits(bt)' /\ SlotFits(bt)' /\ Sole(bt)' /\ (Carried(at) => Carried(bt)')
      /\ \A u \in Thread : u # t => Elsewhere(at[u]) /\ Elsewhere(bt[u])
  BY <1>1, <1>5, <1>8, RewrittenRest
<1>10. /\ NoneAt(at, Burying) /\ NoneAt(at, Inserting) /\ NoneAt(at, Placing) /\ NoneAt(at, Unlogged)
       /\ NoneAt(bt, Indexing) /\ NoneAt(bt, Rewriting) /\ NoneAt(bt, LoggedFirst)
  BY <1>1, <1>5, <1>9, Idlers DEF Goes
<1>11. store.dead = {}
  BY <1>8 DEF Consistent, Compacting
<1>12. \A k \in LiveIn(store)' : /\ [slot |-> k, meta |-> store'.slots[k].meta] \in store'.meta
                                /\ [slot |-> k, meta |-> store'.slots[k].meta].slot = k
  <2> TAKE k \in LiveIn(store)'
  <2>1. k \in DOMAIN store.slots /\ store'.slots = store.slots
    BY <1>4 DEF LiveIn
  <2> QED
    BY <1>4, <2>1
<1>13. Consistent(bt)'
  <2>1. Called(bt)'
    BY <1>1, <1>4, <1>5, <1>6, CalledFrame DEF Consistent
  <2>2. OldFits(bt)'
    BY <1>9
  <2>3. SlotFits(bt)'
    BY <1>9
  <2>4. IdsFit(bt)'
    BY <1>1, <1>4, <1>5, <1>6, IdsFrame DEF Consistent
  <2>5. InEngine(bt)'
    BY <1>1, <1>4, <1>5, <1>6, EngineFrame DEF Consistent
  <2>6. Indexed(bt)'
    <3>1. \A k \in LiveIn(store)' : \E e \in store'.meta : e.slot = k
      <4> TAKE k \in LiveIn(store)'
      <4> DEFINE e == [slot |-> k, meta |-> store'.slots[k].meta]
      <4>1. e \in store'.meta /\ e.slot = k
        BY <1>12
      <4> HIDE DEF e
      <4> QED
        BY <4>1
    <3>2. \A k \in LiveIn(store)' : HasMeta(k)'
      BY <3>1 DEF HasMeta
    <3> QED
      BY <3>2 DEF Indexed
  <2>7. Compacting(bt)'
    <3>1. \A u \in Thread : u # t =>
            bt[u] \notin Packed /\ bt[u] \notin Replacing /\ bt[u] \notin Emptied /\ bt[u] \notin Refilled
            /\ bt[u] \notin Exhumed
      BY <1>9 DEF Elsewhere
    <3> QED
      BY <1>8, <3>1 DEF Compacting
  <2> QED
    BY <2>1, <2>2, <2>3, <2>4, <2>5, <2>6, <2>7 DEF Consistent
<1>14. ASSUME Unraced(at)
       PROVE  Unraced(bt)'
  <2>1. Apart(bt)'
    BY <1>1, <1>4, <1>5, <1>6, <1>14, ApartFrame DEF Unraced, Consistent
  <2>2. Sole(bt)'
    BY <1>9
  <2>3. Carried(bt)'
    BY <1>14, <1>9 DEF Unraced
  <2>4. MetaExact(bt)'
    <3>1. \A e \in store'.meta : /\ e.slot \in DOMAIN store'.slots /\ e.slot \notin store'.dead
                              /\ e.meta = store'.slots[e.slot].meta
      <4>1. store'.slots = store.slots /\ store'.dead = {}
        BY <1>4, <1>11
      <4> TAKE e \in store'.meta
      <4>2. PICK k \in DOMAIN store.slots : e = [slot |-> k, meta |-> store.slots[k].meta]
        BY <1>4
      <4> QED
        BY <4>1, <4>2
    <3>2. \A k \in LiveIn(store)' : [slot |-> k, meta |-> store'.slots[k].meta] \in store'.meta
      <4> TAKE k \in LiveIn(store)'
      <4> DEFINE e == [slot |-> k, meta |-> store'.slots[k].meta]
      <4>1. e \in store'.meta /\ e.slot = k
        BY <1>12
      <4> QED
        BY <4>1, Zenon
    <3> QED
      BY <1>10, <3>1, <3>2 DEF MetaExact, NoneAt
  <2>5. SparseExact(bt)'
    BY <1>1, <1>4, <1>5, <1>6, <1>14, SparseFrame DEF Unraced, Consistent
  <2>6. LogExact(bt)'
    BY <1>1, <1>4, <1>5, <1>6, <1>14, LogFrame DEF Unraced, Consistent
  <2> QED
    BY <2>1, <2>2, <2>3, <2>4, <2>5, <2>6 DEF Unraced
<1>15. r \in Local /\ store' \in Stores /\ log' \in Logs
  <2>1. store'.meta \in SUBSET [slot : Nat, meta : Nat]
    <3>1. \A k \in DOMAIN store.slots : [slot |-> k, meta |-> store.slots[k].meta] \in [slot : Nat, meta : Nat]
      BY <1>2, SlotTyped
    <3> QED
      BY <1>4, <3>1
  <2>2. store' = [store EXCEPT !.meta = store'.meta]
    BY <1>2, <1>3, <1>4 DEF Stores
  <2>3. \A x \in SUBSET [slot : Nat, meta : Nat] : [store EXCEPT !.meta = x] \in Stores
    BY <1>2, StoreTyped, ZenonT(60)
  <2>4. store' \in Stores
    BY <2>1, <2>2, <2>3
  <2> QED
    BY <1>2, <1>4, <2>4
<1> QED
  BY <1>13, <1>14, <1>15 DEF Preserved

\* A checkpoint saves the records, and the log is empty.
LEMMA SaveKeeps ==
  ASSUME Typed, NEW at, NEW bt, NEW t \in Thread, Placed(at), Consistent(at),
         Accesses(at, bt, t, "save"), at[t] \in {808}, bt[t] = 809
  PROVE  Preserved(at, bt, t)
<1> DEFINE n == at[t]
           m == bt[t]
           o == reg[t]
           r == reg'[t]
<1>1. n \in {808} /\ m = 809 /\ Goes(at, bt, t) /\ UNCHANGED persistent
  BY DEF Accesses
<1>2. o \in Local /\ store \in Stores /\ log \in Logs
  BY LocalTyped
<1>3. /\ r = o
      /\ store' = store
      /\ log' = [saved |-> Contents(store), entries |-> << >>, whole |-> TRUE]
  <2>1. r = Registers("save", o, store, log) /\ store' = Changed("save", r, store) /\ log' = Logged("save", r, store, log)
    BY DEF Accesses
  <2> HIDE DEF n, m, o, r
  <2>2. r = o
    BY <2>1 DEF Registers
  <2>3. store' = store
    BY <2>1 DEF Changed
  <2>4. log' = [saved |-> Contents(store), entries |-> << >>, whole |-> TRUE]
    BY <2>1 DEF Logged
  <2> QED
    BY <2>2, <2>3, <2>4
<1>4. /\ SameCall(o, r) /\ r = o /\ store' = store
      /\ log'.saved = Contents(store) /\ log'.entries = << >> /\ log'.whole = TRUE
      /\ log' = [saved |-> Contents(store), entries |-> << >>, whole |-> TRUE]
      /\ Kept(store'.slots, store.slots) /\ store.dead \subseteq store'.dead /\ store.sparse \subseteq store'.sparse
  BY <1>2, <1>3, KeptSame DEF Local, Stores, Logs, SameCall
<1>5. /\ Alone(at) /\ Held(at) /\ n \in Excluding /\ NoneAt(at, GateReading)
      /\ \A u \in Thread : at[u] \in Excluding => u = t
  <2>1. n \in Excluding
    BY <1>1 DEF Excluding
  <2> QED
    BY <2>1, Excluded DEF Placed
<1>6. /\ CalledPasses(n, m, o, r)
      /\ IdsPass(n, m, o, r)
      /\ EnginePasses(n, m, o, r)
      /\ IndexPasses(n, m, o, r)
      /\ MetaPasses(n, m, o, r)
      /\ SparsePasses(n, m, o, r)
  <2> HIDE DEF n, m, o, r
  <2>1. /\ SameCall(o, r) /\ r = o
    BY <1>4
  <2>2. CalledPasses(n, m, o, r)
    BY <1>1, <2>1 DEF CalledPasses, OfSet, OfBatch, OfUpdate, OfDelete
  <2>3. IdsPass(n, m, o, r)
    BY <1>1, <2>1 DEF IdsPass, Replacing, Burying
  <2>4. EnginePasses(n, m, o, r)
    BY <1>1, <2>1 DEF EnginePasses, Replacing, Inserting
  <2>5. IndexPasses(n, m, o, r)
    BY <1>1, <2>1 DEF IndexPasses, Unindexed, Indexing
  <2>6. MetaPasses(n, m, o, r)
    BY <1>1, <2>1 DEF MetaPasses, Unindexed, Unindexing, Rewriting, Indexing
  <2>7. SparsePasses(n, m, o, r)
    BY <1>1, <2>1 DEF SparsePasses, Renumbering, Dropping, Placing
  <2> QED
    BY <2>2, <2>3, <2>4, <2>5, <2>6, <2>7
<1>7. \A u \in Thread : u # t => bt[u] = at[u] /\ reg'[u] = reg[u]
  BY <1>1 DEF Goes
<1>8. /\ n \notin Packed /\ n \notin Replacing /\ n \notin Emptied /\ n \notin Refilled /\ n \notin Exhumed /\ n \notin Unindexed /\ n \notin Renumbering /\ n \notin Cleared
      /\ m \notin Packed /\ m \notin Replacing /\ m \notin Emptied /\ m \notin Refilled /\ m \notin Exhumed /\ m \notin Unindexed /\ m \notin Renumbering /\ m \notin Cleared
      /\ m \in Rewritten
  <2> HIDE DEF n, m, o, r
  <2>1. n \notin Packed /\ n \notin Replacing /\ n \notin Emptied /\ n \notin Refilled /\ n \notin Exhumed /\ n \notin Unindexed /\ n \notin Renumbering /\ n \notin Cleared
    BY <1>1 DEF Packed, Replacing, Emptied, Refilled, Exhumed, Unindexed, Renumbering, Cleared
  <2>2. m \notin Packed /\ m \notin Replacing /\ m \notin Emptied /\ m \notin Refilled /\ m \notin Exhumed /\ m \notin Unindexed /\ m \notin Renumbering /\ m \notin Cleared
    BY <1>1 DEF Packed, Replacing, Emptied, Refilled, Exhumed, Unindexed, Renumbering, Cleared
  <2>3. m \in Rewritten
    BY <1>1 DEF Rewritten
  <2> QED
    BY <2>1, <2>2, <2>3
<1>9. /\ NoneAt(bt, GateReading)
      /\ OldFits(bt)' /\ SlotFits(bt)' /\ Sole(bt)' /\ (Carried(at) => Carried(bt)')
      /\ \A u \in Thread : u # t => Elsewhere(at[u]) /\ Elsewhere(bt[u])
  BY <1>1, <1>5, <1>8, RewrittenRest
<1>10. /\ NoneAt(at, Burying) /\ NoneAt(at, Inserting) /\ NoneAt(at, Placing) /\ NoneAt(at, Unlogged)
       /\ NoneAt(bt, Indexing) /\ NoneAt(bt, Rewriting) /\ NoneAt(bt, LoggedFirst)
  BY <1>1, <1>5, <1>9, Idlers DEF Goes
<1>11. Contents(store) \in Image
  <2>1. \A i \in Id : RecordAt(store, i) \in SlotRecord \cup {None}
    BY <1>2, SlotTyped DEF RecordAt
  <2> QED
    BY <2>1 DEF Contents, Image
<1>12. CompactPasses(n, m, o, r)
  BY <1>8 DEF CompactPasses
<1>13. Consistent(bt)'
  <2>1. Called(bt)'
    BY <1>1, <1>4, <1>5, <1>6, CalledFrame DEF Consistent
  <2>2. OldFits(bt)'
    BY <1>9
  <2>3. SlotFits(bt)'
    BY <1>9
  <2>4. IdsFit(bt)'
    BY <1>1, <1>4, <1>5, <1>6, IdsFrame DEF Consistent
  <2>5. InEngine(bt)'
    BY <1>1, <1>4, <1>5, <1>6, EngineFrame DEF Consistent
  <2>6. Indexed(bt)'
    BY <1>1, <1>4, <1>5, <1>6, IndexFrame DEF Consistent
  <2>7. Compacting(bt)'
    BY <1>1, <1>4, <1>12, CompactSame DEF Consistent
  <2> QED
    BY <2>1, <2>2, <2>3, <2>4, <2>5, <2>6, <2>7 DEF Consistent
<1>14. ASSUME Unraced(at)
       PROVE  Unraced(bt)'
  <2>1. Apart(bt)'
    BY <1>1, <1>4, <1>5, <1>6, <1>14, ApartFrame DEF Unraced, Consistent
  <2>2. Sole(bt)'
    BY <1>9
  <2>3. Carried(bt)'
    BY <1>14, <1>9 DEF Unraced
  <2>4. MetaExact(bt)'
    BY <1>1, <1>4, <1>5, <1>6, <1>14, MetaFrame DEF Unraced, Consistent
  <2>5. SparseExact(bt)'
    BY <1>1, <1>4, <1>5, <1>6, <1>14, SparseFrame DEF Unraced, Consistent
  <2>6. LogExact(bt)'
    <3>1. Replayed' = Contents(store)
      <4>1. << >> \in Seq(Entry)
        OBVIOUS
      <4>2. Replay(Contents(store), << >>) = Contents(store)
        BY <1>11, <4>1, ReplayAppend, ZenonT(60)
      <4>3. Replayed' = Replay(log'.saved, log'.entries)
        BY DEF Replayed, Replay
      <4> QED
        BY <1>4, <4>2, <4>3
    <3>2. \A i \in Id : Replayed'[i] = RecordAt(store, i)'
      <4>1. \A i \in Id : RecordAt(store, i)' = RecordAt(store, i)
        BY <1>4 DEF RecordAt
      <4> HIDE DEF Replayed
      <4> QED
        BY <3>1, <4>1 DEF Contents
    <3>3. \A u \in Thread : bt[u] \notin Cleared /\ bt[u] \notin LoggedFirst
      BY <1>8, <1>9, <1>10 DEF Elsewhere, NoneAt
    <3> HIDE DEF Replayed
    <3> QED
      BY <3>2, <3>3 DEF LogExact
  <2> QED
    BY <2>1, <2>2, <2>3, <2>4, <2>5, <2>6 DEF Unraced
<1>15. r \in Local /\ store' \in Stores /\ log' \in Logs
  <2>1. << >> \in Seq(Entry)
    OBVIOUS
  <2>2. log' \in Logs
    BY <1>4, <1>11, <2>1 DEF Logs, Image, Entry
  <2> QED
    BY <1>2, <1>4, <2>2
<1> QED
  BY <1>13, <1>14, <1>15 DEF Preserved

-----------------------------------------------------------------------------
(* The accesses that change nothing but a flag of the call.                *)

LEMMA QuietEffect ==
  ASSUME NEW name \in QuietName, NEW o \in Local, NEW r, r = Registers(name, o, store, log)
  PROVE  /\ r \in Local /\ SameCall(o, r) /\ r.old = o.old /\ r.cur = o.cur /\ r.slot = o.slot
         /\ r.sparse = o.sparse /\ r.order = o.order
         /\ name \in {"nothing", "dead?"} => r.ok = o.ok
         /\ Changed(name, r, store) = store
         /\ Logged(name, r, store, log) = log
<1>1. \/ name \in {"live?", "buried?"} /\ r = [o EXCEPT !.ok = o.old \notin store.dead]
      \/ name = "full?" /\ r = [o EXCEPT !.full = Len(log.entries) >= LogLimit]
      \/ name \notin {"live?", "buried?", "full?"} /\ r = o
  <2>1. CASE name \in {"live?", "buried?"}
    BY <2>1 DEF Registers
  <2>2. CASE name = "full?"
    BY <2>2 DEF Registers
  <2>3. CASE name \notin {"live?", "buried?", "full?"}
    BY <2>3 DEF Registers, QuietName
  <2> QED
    BY <2>1, <2>2, <2>3
<1>2. /\ r \in Local /\ SameCall(o, r) /\ r.old = o.old /\ r.cur = o.cur /\ r.slot = o.slot
      /\ r.sparse = o.sparse /\ r.order = o.order
      /\ name \in {"nothing", "dead?"} => r.ok = o.ok
  <2> DEFINE found == o.old \notin store.dead
             many == Len(log.entries) >= LogLimit
  <2>1. found \in BOOLEAN /\ many \in BOOLEAN
    OBVIOUS
  <2>2. \/ name \in {"live?", "buried?"} /\ r = [o EXCEPT !.ok = found]
        \/ name = "full?" /\ r = [o EXCEPT !.full = many]
        \/ name \notin {"live?", "buried?", "full?"} /\ r = o
    BY <1>1
  <2> HIDE DEF found, many
  <2> QED
    BY <2>1, <2>2 DEF Local, SameCall
<1>3. Changed(name, r, store) = store
  BY DEF Changed, QuietName
<1>4. Logged(name, r, store, log) = log
  BY DEF Logged, QuietName
<1> QED
  BY <1>2, <1>3, <1>4

LEMMA QuietOnward ==
  ASSUME NEW n \in QuietAt, NEW r, NEW s
  PROVE  LET m == Onward(n, r, s) IN
         /\ QuietGo(n, m)
         /\ n = 117 => (m = 118 <=> r.old # None)
         /\ n = 203 => (m = 241 <=> r.old = None)
         /\ n \in {303, 403} => (m = 903 <=> r.old = None)
         /\ n = 310 => (m = 318 <=> ~persistent)
         /\ n = 407 => (m = 903 <=> ~r.ok)
<1> DEFINE m == Onward(n, r, s)
<1>1. CASE n \notin Branching
  <2>1. m = Follow(n)
    BY <1>1, OnwardFollow
  <2>2. n \notin {117, 203, 303, 308, 403, 407, 502, 505, 602, 605, 902}
    BY <1>1 DEF Branching
  <2>3. CASE n \in {132, 205}
    BY <2>1, <2>3 DEF Follow, QuietGo
  <2>4. CASE n \in {229, 257}
    BY <2>1, <2>4 DEF Follow, QuietGo
  <2>5. CASE n = 310
    BY <2>1, <2>5 DEF Follow, QuietGo
  <2>6. CASE n \in {507, 607, 724, 810, 903}
    BY <2>1, <2>6 DEF Follow, QuietGo
  <2>7. CASE n \notin {132, 205, 229, 257, 310, 507, 607, 724, 810, 903}
    <3>1. n \in Straight
      BY <2>2, <2>7 DEF QuietAt, Straight
    <3>2. n \notin {105, 117, 123, 132, 203, 205, 214, 229, 244, 257, 310, 323, 411, 413,
                    507, 607, 724, 801, 810, 902, 903}
      BY <3>1 DEF Straight
    <3>3. m = n + 1
      BY <2>1, <3>2 DEF Follow
    <3> HIDE DEF m
    <3> QED
      BY <2>2, <2>7, <3>1, <3>3 DEF QuietGo, m
  <2> QED
    BY <2>3, <2>4, <2>5, <2>6, <2>7
<1>2. CASE n \in Branching
  <2>1. n \in {117, 203, 303, 308, 403, 407, 502, 505, 602, 605, 902}
    BY <1>2 DEF Branching, QuietAt
  <2>2. /\ Follow(117) = 122 /\ Follow(902) = 0
        /\ Follow(303) = 304 /\ Follow(308) = 309 /\ Follow(403) = 404 /\ Follow(407) = 408
        /\ Follow(502) = 503 /\ Follow(505) = 506 /\ Follow(602) = 603 /\ Follow(605) = 606
    BY DEF Follow
  <2>3. CASE n = 117
    <3>1. m = IF r.old # None THEN 118 ELSE 122
      BY <2>2, <2>3 DEF Onward
    <3> QED
      BY <2>3, <3>1 DEF QuietGo
  <2>4. CASE n = 203
    <3>1. m = IF r.old = None THEN 241 ELSE 211
      BY <2>4 DEF Onward
    <3> QED
      BY <2>4, <3>1 DEF QuietGo
  <2>5. CASE n \in {303, 403}
    <3>1. m = IF r.old = None THEN 903 ELSE n + 1
      BY <2>2, <2>5 DEF Onward
    <3> QED
      BY <2>5, <3>1 DEF QuietGo
  <2>6. CASE n \in {308, 407}
    <3>1. m = IF ~r.ok THEN 903 ELSE n + 1
      BY <2>2, <2>6 DEF Onward
    <3> QED
      BY <2>6, <3>1 DEF QuietGo
  <2>7. CASE n \in {502, 602}
    <3>1. m = IF r.old = None THEN 0 ELSE n + 1
      BY <2>2, <2>7 DEF Onward
    <3> QED
      BY <2>7, <3>1 DEF QuietGo
  <2>8. CASE n \in {505, 605}
    <3>1. m = IF ~r.ok THEN 0 ELSE n + 1
      BY <2>2, <2>8 DEF Onward
    <3> QED
      BY <2>8, <3>1 DEF QuietGo
  <2>9. CASE n = 902
    <3>1. m = IF r.full THEN 801 ELSE 0
      BY <2>2, <2>9 DEF Onward
    <3> QED
      BY <2>9, <3>1 DEF QuietGo
  <2> QED
    BY <2>1, <2>3, <2>4, <2>5, <2>6, <2>7, <2>8, <2>9
<1> QED
  BY <1>1, <1>2

LEMMA QuietAccess ==
  ASSUME Typed, NEW at, NEW bt, NEW t \in Thread, Consistent(at), at[t] \in QuietAt,
         Accesses(at, bt, t, Instr(at[t])[2]), bt[t] = Onward(at[t], reg'[t], store)
  PROVE  Preserved(at, bt, t)
<1> DEFINE n == at[t]
           m == bt[t]
           o == reg[t]
           r == reg'[t]
           name == Instr(n)[2]
<1>1. o \in Local /\ store \in Stores /\ log \in Logs
  BY LocalTyped
<1>2. /\ r = Registers(name, o, store, log) /\ store' = Changed(name, r, store)
      /\ log' = Logged(name, r, store, log) /\ UNCHANGED persistent /\ Goes(at, bt, t)
  BY DEF Accesses
<1>3. n \in QuietAt /\ m = Onward(n, r, store)
  OBVIOUS
<1> HIDE DEF n, m, o, r, name
<1>4. name \in QuietName /\ (n \in {406, 407} => name \in {"nothing", "dead?"})
  BY <1>3, QuietNames DEF name
<1>5. /\ r \in Local /\ SameCall(o, r) /\ r.old = o.old /\ r.cur = o.cur /\ r.slot = o.slot
      /\ r.sparse = o.sparse /\ r.order = o.order
      /\ name \in {"nothing", "dead?"} => r.ok = o.ok
      /\ store' = store /\ log' = log
  BY <1>1, <1>2, <1>4, QuietEffect
<1>6. /\ QuietGo(n, m)
      /\ n = 117 => (m = 118 <=> r.old # None)
      /\ n = 203 => (m = 241 <=> r.old = None)
      /\ n \in {303, 403} => (m = 903 <=> r.old = None)
      /\ n = 310 => (m = 318 <=> ~persistent)
      /\ n = 407 => (m = 903 <=> ~r.ok)
  BY <1>3, QuietOnward
<1>7. QuietReg(n, m, o, r)
  BY <1>4, <1>5, <1>6 DEF QuietReg
<1>8. Consistent(bt)' /\ (Unraced(at) => Unraced(bt)')
  BY <1>2, <1>5, <1>6, <1>7, QuietKeeps DEF n, m, o, r
<1> QED
  BY <1>1, <1>5, <1>8 DEF Preserved, r

\* A read looks up its id, or takes a hit of the view.
LEMMA ReadKeeps ==
  ASSUME Typed, NEW at, NEW bt, NEW t \in Thread, Consistent(at), Goes(at, bt, t),
         at[t] \in {501, 601}, bt[t] = at[t] + 1, SameCall(reg[t], reg'[t]),
         reg'[t].cur = reg[t].cur, reg'[t].sparse = reg[t].sparse, reg'[t].order = reg[t].order,
         UNCHANGED <<store, log, persistent>>
  PROVE  Consistent(bt)' /\ (Unraced(at) => Unraced(bt)')
<1>1. QuietGo(at[t], bt[t])
  BY DEF QuietGo
<1>2. QuietReg(at[t], bt[t], reg[t], reg'[t])
  BY DEF QuietReg
<1> QED
  BY <1>1, <1>2, QuietKeeps

-----------------------------------------------------------------------------
(* The steps of a thread.                                                  *)

OnwardAt == {104, 202, 302, 402, 405, 501, 704, 711, 713, 716, 719, 723, 808} \cup 707..709
              \cup CarryAt \cup BuryAt \cup PushAt \cup EngineAt \cup UnindexAt \cup RemapAt \cup LogAt

LEMMA NextPoints ==
  ASSUME NEW n, NEW r, NEW s
  PROVE  /\ n \in OnwardAt => Onward(n, r, s) = n + 1
         /\ n \in FindAt => Onward(n, r, s) = IF s.ids[r.id] # None THEN n + 1 ELSE n + 3
         /\ n \in IndexAt => Onward(n, r, s) = IF n = 123 /\ ~persistent THEN 901 ELSE n + 1
         /\ n \in {323, 413} => Onward(n, r, s) = 901
         /\ n = 411 => Onward(n, r, s) = IF persistent THEN 412 ELSE 901
<1>1. CASE n \in OnwardAt
  <2>1. n \notin Branching \cup FindAt \cup IndexAt \cup {323, 411, 413}
    BY <1>1 DEF OnwardAt, Branching, FindAt, IndexAt, CarryAt, BuryAt, PushAt, EngineAt, UnindexAt, RemapAt, LogAt
  <2>2. n \notin {105, 117, 123, 132, 203, 205, 214, 229, 244, 257, 310, 323, 411, 413,
                  507, 607, 724, 801, 810, 902, 903}
    BY <1>1 DEF OnwardAt, CarryAt, BuryAt, PushAt, EngineAt, UnindexAt, RemapAt, LogAt
  <2>3. Follow(n) = n + 1
    BY <2>2 DEF Follow
  <2> QED
    BY <2>1, <2>3, OnwardFollow
<1>2. CASE n \in FindAt
  <2>1. n \notin OnwardAt \cup IndexAt \cup {323, 411, 413}
    BY <1>2 DEF OnwardAt, FindAt, IndexAt, CarryAt, BuryAt, PushAt, EngineAt, UnindexAt, RemapAt, LogAt
  <2>2. Follow(n) = n + 3
    BY <1>2 DEF FindAt, Follow
  <2>3. Onward(n, r, s) = IF s.ids[r.id] # None THEN n + 1 ELSE Follow(n)
    BY <1>2 DEF FindAt, Onward
  <2> QED
    BY <2>1, <2>2, <2>3
<1>3. CASE n \in IndexAt \cup {323, 411, 413}
  <2>1. n \notin OnwardAt \cup Branching \cup FindAt
    BY <1>3 DEF OnwardAt, Branching, FindAt, IndexAt, CarryAt, BuryAt, PushAt, EngineAt, UnindexAt, RemapAt, LogAt
  <2>2. /\ n \in IndexAt => Follow(n) = IF n = 123 /\ ~persistent THEN 901 ELSE n + 1
        /\ n \in {323, 413} => Follow(n) = 901
        /\ n = 411 => Follow(n) = IF persistent THEN 412 ELSE 901
    BY <1>3 DEF IndexAt, Follow
  <2> QED
    BY <2>1, <2>2, OnwardFollow
<1> QED
  BY <1>1, <1>2, <1>3

\* Each access has its lemma.
LEMMA EachAccess ==
  ASSUME Typed, NEW at, NEW bt, NEW t \in Thread, Placed(at), Consistent(at), at[t] \in DoAt \ {501, 601},
         Accesses(at, bt, t, Instr(at[t])[2]), bt[t] = Onward(at[t], reg'[t], store)
  PROVE  Preserved(at, bt, t)
<1>1. CASE at[t] \in QuietAt
  BY <1>1, QuietAccess
<1>2. /\ at[t] \in OnwardAt => bt[t] = at[t] + 1
      /\ at[t] \in FindAt => bt[t] = IF store.ids[reg'[t].id] # None THEN at[t] + 1 ELSE at[t] + 3
      /\ at[t] \in IndexAt => bt[t] = IF at[t] = 123 /\ ~persistent THEN 901 ELSE at[t] + 1
      /\ at[t] \in {323, 413} => bt[t] = 901
      /\ at[t] = 411 => bt[t] = IF persistent THEN 412 ELSE 901
  BY NextPoints
<1>3. CASE at[t] \in LookAt
  <2>1. Accesses(at, bt, t, "look")
    BY <1>3, AccessNames
  <2>2. at[t] \in {104, 202, 302, 402} /\ bt[t] = at[t] + 1
    BY <1>2, <1>3 DEF LookAt, OnwardAt
  <2> QED
    BY <2>1, <2>2, LookKeeps
<1>4. CASE at[t] \in FindAt
  <2>1. Accesses(at, bt, t, "find")
    BY <1>4, AccessNames
  <2>2. reg'[t].id = reg[t].id
    <3>1. reg'[t] = Registers("find", reg[t], store, log) /\ reg[t] \in Local
      BY <2>1, LocalTyped DEF Accesses
    <3> QED
      BY <3>1 DEF Registers, Local
  <2>3. bt[t] = IF store.ids[reg[t].id] # None THEN at[t] + 1 ELSE at[t] + 3
    BY <1>2, <1>4, <2>2
  <2> QED
    BY <1>4, <2>1, <2>3, FindKeeps
<1>5. CASE at[t] \in CarryAt
  <2>1. Accesses(at, bt, t, "carry")
    BY <1>5, AccessNames
  <2>2. bt[t] = at[t] + 1
    BY <1>2, <1>5 DEF OnwardAt
  <2> QED
    BY <1>5, <2>1, <2>2, CarryKeeps
<1>6. CASE at[t] \in BuryAt
  <2>1. Accesses(at, bt, t, "bury")
    BY <1>6, AccessNames
  <2>2. bt[t] = at[t] + 1
    BY <1>2, <1>6 DEF OnwardAt
  <2> QED
    BY <1>6, <2>1, <2>2, BuryKeeps
<1>7. CASE at[t] \in PushAt
  <2>1. Accesses(at, bt, t, "push")
    BY <1>7, AccessNames
  <2>2. bt[t] = at[t] + 1
    BY <1>2, <1>7 DEF OnwardAt
  <2> QED
    BY <1>7, <2>1, <2>2, PushKeeps
<1>8. CASE at[t] \in EngineAt
  <2>1. Accesses(at, bt, t, "insert")
    BY <1>8, AccessNames
  <2>2. bt[t] = at[t] + 1
    BY <1>2, <1>8 DEF OnwardAt
  <2> QED
    BY <1>8, <2>1, <2>2, InsertKeeps
<1>9. CASE at[t] \in UnindexAt
  <2>1. Accesses(at, bt, t, "unindex")
    BY <1>9, AccessNames
  <2>2. bt[t] = at[t] + 1
    BY <1>2, <1>9 DEF OnwardAt
  <2> QED
    BY <1>9, <2>1, <2>2, UnindexKeeps
<1>10. CASE at[t] \in RemapAt
  <2>1. Accesses(at, bt, t, "remap")
    BY <1>10, AccessNames
  <2>2. bt[t] = at[t] + 1
    BY <1>2, <1>10 DEF OnwardAt
  <2> QED
    BY <1>10, <2>1, <2>2, RemapKeeps
<1>11. CASE at[t] \in IndexAt
  <2>1. Accesses(at, bt, t, "index")
    BY <1>11, AccessNames
  <2> QED
    BY <1>2, <1>11, <2>1, IndexKeeps
<1>12. CASE at[t] \in LogAt
  <2>1. Accesses(at, bt, t, "log")
    BY <1>12, AccessNames
  <2>2. bt[t] = at[t] + 1
    BY <1>2, <1>12 DEF OnwardAt
  <2> QED
    BY <1>12, <2>1, <2>2, LogKeeps
<1>13. CASE at[t] \in {323}
  <2>1. Accesses(at, bt, t, "rewrite")
    BY <1>13, AccessNames
  <2> QED
    BY <1>2, <1>13, <2>1, RewriteKeeps
<1>14. CASE at[t] \in {405}
  <2>1. Accesses(at, bt, t, "delete")
    BY <1>14, AccessNames
  <2>2. bt[t] = 406
    BY <1>2, <1>14 DEF OnwardAt
  <2> QED
    BY <1>14, <2>1, <2>2, DeleteKeeps
<1>15. CASE at[t] \in {411}
  <2>1. Accesses(at, bt, t, "drop")
    BY <1>15, AccessNames
  <2> QED
    BY <1>2, <1>15, <2>1, DropKeeps
<1>16. CASE at[t] \in {413}
  <2>1. Accesses(at, bt, t, "unlog")
    BY <1>16, AccessNames
  <2> QED
    BY <1>2, <1>16, <2>1, UnlogKeeps
<1>17. CASE at[t] \in {704}
  <2>1. Accesses(at, bt, t, "pack")
    BY <1>17, AccessNames
  <2>2. bt[t] = 705
    BY <1>2, <1>17 DEF OnwardAt
  <2> QED
    BY <1>17, <2>1, <2>2, PackKeeps
<1>18. CASE at[t] \in {707}
  <2>1. Accesses(at, bt, t, "replace")
    BY <1>18, AccessNames
  <2>2. bt[t] = 708
    BY <1>2, <1>18 DEF OnwardAt
  <2> QED
    BY <1>18, <2>1, <2>2, ReplaceKeeps
<1>19. CASE at[t] \in {708}
  <2>1. Accesses(at, bt, t, "clear")
    BY <1>19, AccessNames
  <2>2. bt[t] = 709
    BY <1>2, <1>19 DEF OnwardAt
  <2> QED
    BY <1>19, <2>1, <2>2, ClearKeeps
<1>20. CASE at[t] \in {709}
  <2>1. Accesses(at, bt, t, "fill")
    BY <1>20, AccessNames
  <2>2. bt[t] = 710
    BY <1>2, <1>20 DEF OnwardAt
  <2> QED
    BY <1>20, <2>1, <2>2, FillKeeps
<1>21. CASE at[t] \in {711}
  <2>1. Accesses(at, bt, t, "exhume")
    BY <1>21, AccessNames
  <2>2. bt[t] = 712
    BY <1>2, <1>21 DEF OnwardAt
  <2> QED
    BY <1>21, <2>1, <2>2, ExhumeKeeps
<1>22. CASE at[t] \in {713}
  <2>1. Accesses(at, bt, t, "renumber")
    BY <1>22, AccessNames
  <2>2. bt[t] = 714
    BY <1>2, <1>22 DEF OnwardAt
  <2> QED
    BY <1>22, <2>1, <2>2, RenumberKeeps
<1>23. CASE at[t] \in {716}
  <2>1. Accesses(at, bt, t, "rebuild")
    BY <1>23, AccessNames
  <2>2. bt[t] = 717
    BY <1>2, <1>23 DEF OnwardAt
  <2> QED
    BY <1>23, <2>1, <2>2, RebuildKeeps
<1>24. CASE at[t] \in {719}
  <2>1. Accesses(at, bt, t, "forget")
    BY <1>24, AccessNames
  <2>2. bt[t] = 720
    BY <1>2, <1>24 DEF OnwardAt
  <2> QED
    BY <1>24, <2>1, <2>2, ForgetKeeps
<1>25. CASE at[t] \in {723}
  <2>1. Accesses(at, bt, t, "restore")
    BY <1>25, AccessNames
  <2>2. bt[t] = 724
    BY <1>2, <1>25 DEF OnwardAt
  <2> QED
    BY <1>25, <2>1, <2>2, RestoreKeeps
<1>26. CASE at[t] \in {808}
  <2>1. Accesses(at, bt, t, "save")
    BY <1>26, AccessNames
  <2>2. bt[t] = 809
    BY <1>2, <1>26 DEF OnwardAt
  <2> QED
    BY <1>26, <2>1, <2>2, SaveKeeps
<1> QED
  BY <1>1, <1>3, <1>4, <1>5, <1>6, <1>7, <1>8, <1>9, <1>10, <1>11, <1>12, <1>13, <1>14, <1>15, <1>16, <1>17, <1>18, <1>19, <1>20, <1>21, <1>22, <1>23, <1>24, <1>25, <1>26, AccessKinds DEF LookAt

\* An access.
LEMMA AccessKeeps ==
  ASSUME Typed, NEW at \in [Thread -> Point], Placed(at), Consistent(at), NEW t \in Thread, Access(t),
         NEW r, r = Registers(Instr(at[t])[2], reg[t], store, log),
         NEW bt, bt = [at EXCEPT ![t] = Onward(at[t], r, store)]
  PROVE  /\ Goes(at, bt, t) /\ Placed(bt)' /\ Preserved(at, bt, t)
         /\ reg' = [reg EXCEPT ![t] = reg'[t]]
<1>1. /\ at[t] \in DoAt /\ Instr(at[t])[2] # "view" /\ bt \in [Thread -> Point] /\ Placed(bt)'
      /\ store' = Changed(Instr(at[t])[2], r, store)
      /\ log' = Logged(Instr(at[t])[2], r, store, log)
      /\ reg' = [reg EXCEPT ![t] = r]
  BY AccessPlaced
<1>2. reg'[t] = r /\ reg' = [reg EXCEPT ![t] = reg'[t]] /\ \A u \in Thread : u # t => reg'[u] = reg[u]
  BY <1>1 DEF Typed
<1>3. Goes(at, bt, t) /\ bt[t] = Onward(at[t], reg'[t], store)
  BY <1>1, <1>2 DEF Goes
<1>4. UNCHANGED persistent
  BY DEF Access
<1>5. Accesses(at, bt, t, Instr(at[t])[2])
  BY <1>1, <1>2, <1>3, <1>4 DEF Accesses
<1>6. at[t] # 601
  BY <1>1, ReadsInstructions
<1>7. CASE at[t] # 501
  BY <1>1, <1>2, <1>3, <1>5, <1>6, <1>7, EachAccess, ZenonT(60)
<1>8. CASE at[t] = 501
  <2>1. bt[t] = at[t] + 1
    BY <1>3, <1>8, NextPoints DEF OnwardAt
  <2>2. reg[t] \in Local /\ store \in Stores /\ log \in Logs
    BY LocalTyped
  <2>3. Instr(at[t])[2] = "look"
    BY <1>8, AccessNames DEF LookAt
  <2>4. /\ reg'[t] = [reg[t] EXCEPT !.old = store.ids[reg[t].id], !.slot = store.ids[reg[t].id]]
        /\ store' = store /\ log' = log
    BY <1>1, <1>2, <2>3 DEF Registers, Changed, Logged
  <2>5. store.ids[reg[t].id] \in Nat \cup {None}
    <3>1. reg[t].id \in Id
      BY <1>8 DEF Consistent, Called
    <3> QED
      BY <2>2, <3>1 DEF Stores
  <2>6. /\ reg'[t] \in Local /\ SameCall(reg[t], reg'[t]) /\ reg'[t].cur = reg[t].cur
        /\ reg'[t].sparse = reg[t].sparse /\ reg'[t].order = reg[t].order
    BY <2>2, <2>4, <2>5 DEF Local, SameCall
  <2>7. UNCHANGED <<store, log, persistent>>
    BY <1>4, <2>4
  <2>8. Consistent(bt)' /\ (Unraced(at) => Unraced(bt)')
    BY <1>3, <1>8, <2>1, <2>6, <2>7, ReadKeeps, ZenonT(60)
  <2>9. Preserved(at, bt, t)
    BY <2>2, <2>4, <2>6, <2>8 DEF Preserved
  <2> QED
    BY <1>1, <1>2, <1>3, <2>9
<1> QED
  BY <1>7, <1>8

\* A locking step.
LEMMA LockingKeeps ==
  ASSUME Typed, NEW at \in [Thread -> Point], Placed(at), Consistent(at), NEW t \in Thread, Locking(t),
         NEW bt, bt = [at EXCEPT ![t] = Follow(at[t])]
  PROVE  /\ Goes(at, bt, t) /\ Placed(bt)' /\ Consistent(bt)'
         /\ Unraced(at) => Unraced(bt)'
<1>1. at[t] \in Point \ {0} /\ at[t] \notin DoAt /\ bt \in [Thread -> Point] /\ Placed(bt)'
  BY LockingPlaced
<1>2. UNCHANGED <<store, log, persistent, reg>>
  BY DEF Locking
<1>3. Goes(at, bt, t) /\ bt[t] = Follow(at[t]) /\ reg'[t] = reg[t]
  BY <1>1, <1>2 DEF Goes
<1>4. QuietGo(at[t], bt[t]) /\ QuietReg(at[t], bt[t], reg[t], reg'[t])
  BY <1>1, <1>3, LockingQuiet
<1>5. Consistent(bt)' /\ (Unraced(at) => Unraced(bt)')
  BY <1>2, <1>3, <1>4, QuietKeeps
<1> QED
  BY <1>1, <1>3, <1>5

\* A search loads the view.
LEMMA ViewKeeps ==
  ASSUME Typed, NEW at \in [Thread -> Point], Placed(at), Consistent(at), NEW t \in Thread, View(t),
         NEW bt, bt = [at EXCEPT ![t] = Follow(at[t])]
  PROVE  /\ Goes(at, bt, t) /\ Placed(bt)' /\ Consistent(bt)'
         /\ Unraced(at) => Unraced(bt)'
         /\ reg'[t] \in Local /\ reg' = [reg EXCEPT ![t] = reg'[t]]
<1>0. at[t] = 601
  BY ViewPoint
<1>1. bt \in [Thread -> Point] /\ Placed(bt)'
  BY ViewPlaced
<1>2. UNCHANGED <<store, log, persistent>>
  BY DEF View
<1>3. reg \in [Thread -> Local] /\ reg[t] \in Local /\ DOMAIN store.engine \subseteq Nat
  <2>1. store.engine \in Seq([id : Id, by : Nat])
    BY DEF Typed, Stores
  <2>2. DOMAIN store.engine \subseteq Nat
    BY <2>1
  <2> QED
    BY <2>2 DEF Typed
<1>4. /\ reg'[t] \in Local /\ SameCall(reg[t], reg'[t]) /\ reg'[t].cur = reg[t].cur
      /\ reg'[t].sparse = reg[t].sparse /\ reg'[t].order = reg[t].order
      /\ reg' = [reg EXCEPT ![t] = reg'[t]]
  <2>1. CASE reg' = reg
    BY <1>3, <2>1 DEF SameCall
  <2>2. ASSUME NEW k \in DOMAIN store.engine, reg' = [reg EXCEPT ![t].old = k]
        PROVE  /\ reg'[t] \in Local /\ SameCall(reg[t], reg'[t]) /\ reg'[t].cur = reg[t].cur
               /\ reg'[t].sparse = reg[t].sparse /\ reg'[t].order = reg[t].order
               /\ reg' = [reg EXCEPT ![t] = reg'[t]]
    <3>1. reg'[t] = [reg[t] EXCEPT !.old = k] /\ reg' = [reg EXCEPT ![t] = [reg[t] EXCEPT !.old = k]]
      BY <1>3, <2>2
    <3>2. reg' = [reg EXCEPT ![t] = reg'[t]]
      BY <3>1
    <3>3. k \in Nat
      BY <1>3
    <3>4. /\ reg'[t] \in Local /\ SameCall(reg[t], reg'[t]) /\ reg'[t].cur = reg[t].cur
          /\ reg'[t].sparse = reg[t].sparse /\ reg'[t].order = reg[t].order
      BY <1>3, <3>1, <3>3 DEF Local, SameCall
    <3> QED
      BY <3>2, <3>4
  <2> QED
    BY <2>1, <2>2 DEF View
<1>5. Goes(at, bt, t)
  BY <1>1, <1>3, <1>4 DEF Goes
<1>6. bt[t] = at[t] + 1 /\ at[t] \in {501, 601}
  <2>1. Follow(601) = 602
    BY DEF Follow
  <2> QED
    BY <1>0, <1>1, <2>1
<1>7. Consistent(bt)' /\ (Unraced(at) => Unraced(bt)')
  <2>1. QuietGo(at[t], bt[t])
    BY <1>6 DEF QuietGo
  <2>2. QuietReg(at[t], bt[t], reg[t], reg'[t])
    BY <1>0, <1>4 DEF QuietReg
  <2> QED
    BY <1>2, <1>5, <2>1, <2>2, QuietKeeps
<1> QED
  BY <1>1, <1>4, <1>5, <1>7

-----------------------------------------------------------------------------
(* A call starts.                                                          *)

Entry0(c) ==
  CASE c = "set" -> 101
    [] c = "set_batch" -> 201
    [] c = "update" -> 301
    [] c = "delete" -> 401
    [] c = "get" -> 501
    [] c = "search" -> 601
    [] c = "compact" -> 701

First == {101, 201, 301, 401, 501, 601, 701}

LEMMA Beginning ==
  ASSUME NEW c \in Calls
  PROVE  c \in Call /\ Entry0(c) \in First /\ Program(c) = CodeAt(Entry0(c))
<1>1. c \in {"set", "set_batch", "update", "delete", "get", "search", "compact"}
  BY ConcurrencyAssumption
<1>2. /\ CodeAt(101) = C101 /\ CodeAt(201) = C201 /\ CodeAt(301) = C301 /\ CodeAt(401) = C401
      /\ CodeAt(501) = C501 /\ CodeAt(601) = C601 /\ CodeAt(701) = C701
  BY SetPoints, BatchPoints, UpdatePoints, DeletePoints, ReadsPoints, CompactPoints
<1>3. Program(c) = CodeAt(Entry0(c))
  <2>1. CASE c \in {"set", "set_batch", "update", "delete"}
    BY <1>2, <2>1, SetProgram, SetBatchProgram, UpdateProgram, DeleteProgram DEF Program, Entry0
  <2>2. CASE c \in {"get", "search", "compact"}
    BY <1>2, <2>2, GetProgram, SearchProgram, CompactProgram DEF Program, Entry0
  <2> QED
    BY <1>1, <2>1, <2>2
<1>4. c \in Call /\ Entry0(c) \in First
  BY <1>1 DEF Call, Entry0, First
<1> QED
  BY <1>3, <1>4

\* The first points, and the idle one, hold nothing and promise nothing.
LEMMA FirstPoints ==
  ASSUME NEW m \in First \cup {0}
  PROVE  /\ m \in Point /\ m \notin GateReading /\ m \notin Excluding
         /\ \A l \in Lock : Shares(m, l) = 0 /\ m \notin Owned(l)
         /\ m \notin LookedUp \cup Known \cup Unknown \cup InPlace \cup Carrying
         /\ m \notin Burying \cup AfterPush \cup Deleted
         /\ m \notin Replacing \cup Inserting \cup Unindexed \cup Indexing
         /\ m \notin Packed \cup Emptied \cup Refilled \cup Exhumed
         /\ m \notin Finding \cup Deciding \cup Laden \cup Landed \cup Relocating
         /\ m \notin Unindexing \cup Rewriting \cup Renumbering \cup Dropping \cup Placing
         /\ m \notin Cleared \cup Unlogged \cup LoggedFirst
<1>1. m \in Point /\ m \notin GateReading /\ m \notin Excluding
  BY DEF First, Point, GateReading, Excluding
<1>2. \A l \in Lock : Shares(m, l) = 0 /\ m \notin Owned(l)
  BY DEF First, Lock, Shares, Owned, GateReading
<1>3. m \notin LookedUp \cup Known \cup Unknown \cup InPlace \cup Carrying
  BY DEF First, LookedUp, Known, Unknown, InPlace, Carrying
<1>4. m \notin Burying \cup AfterPush \cup Deleted
  BY DEF First, Burying, AfterPush, Deleted
<1>5. m \notin Replacing \cup Inserting \cup Unindexed \cup Indexing
  BY DEF First, Replacing, Inserting, Unindexed, Indexing
<1>6. m \notin Packed \cup Emptied \cup Refilled \cup Exhumed
  BY DEF First, Packed, Emptied, Refilled, Exhumed
<1>7. m \notin Finding \cup Deciding \cup Laden \cup Landed \cup Relocating
  BY DEF First, Finding, Deciding, Laden, Landed, Relocating
<1>8. m \notin Unindexing \cup Rewriting \cup Renumbering \cup Dropping \cup Placing
  BY DEF First, Unindexing, Rewriting, Renumbering, Dropping, Placing
<1>9. m \notin Cleared \cup Unlogged \cup LoggedFirst
  BY DEF First, Cleared, Unlogged, LoggedFirst
<1> QED
  BY <1>1, <1>2, <1>3, <1>4, <1>5, <1>6, <1>7, <1>8, <1>9

\* What a call that starts at m is.
LEMMA FirstCalls ==
  ASSUME NEW c \in Calls
  PROVE  LET m == Entry0(c) IN
         /\ m # 0
         /\ m \in OfSet => c = "set"
         /\ m \in OfBatch => c = "set_batch"
         /\ m \in OfUpdate => c = "update"
         /\ m \in OfDelete => c = "delete"
<1>1. c \in {"set", "set_batch", "update", "delete", "get", "search", "compact"}
  BY ConcurrencyAssumption
<1> QED
  BY <1>1 DEF Entry0, OfSet, OfBatch, OfUpdate, OfDelete

\* A thread starts the call c, on the id i.
Starts(at, bt, t, c, i) ==
  /\ Goes(at, bt, t) /\ at[t] = 0 /\ bt[t] = Entry0(c) /\ c \in Calls /\ i \in Id
  /\ reg'[t] = Fresh(c, i, calls + 1)
  /\ raced' = \/ raced
              \/ /\ Writes(c)
                 /\ \E u \in Thread : ~Idle(u) /\ reg[u].id = i /\ Writes(reg[u].call)
  /\ UNCHANGED <<locks, store, log, persistent>>

\* The others are where they were.
Others(at, bt, t) ==
  \A u \in Thread : u # t => bt[u] = at[u] /\ reg'[u] = reg[u]

LEMMA StartVacant ==
  ASSUME NEW at, NEW bt, NEW t \in Thread, NEW c, NEW i, Starts(at, bt, t, c, i)
  PROVE  /\ Others(at, bt, t) /\ bt[t] \in First
         /\ \A m \in {at[t], bt[t]} :
              /\ m \in Point /\ m \notin GateReading /\ m \notin Excluding
              /\ \A l \in Lock : Shares(m, l) = 0 /\ m \notin Owned(l)
              /\ m \notin LookedUp \cup Known \cup Unknown \cup InPlace \cup Carrying
              /\ m \notin Burying \cup AfterPush \cup Deleted
              /\ m \notin Replacing \cup Inserting \cup Unindexed \cup Indexing
              /\ m \notin Packed \cup Emptied \cup Refilled \cup Exhumed
              /\ m \notin Finding \cup Deciding \cup Laden \cup Landed \cup Relocating
              /\ m \notin Unindexing \cup Rewriting \cup Renumbering \cup Dropping \cup Placing
              /\ m \notin Cleared \cup Unlogged \cup LoggedFirst
<1>1. Others(at, bt, t)
  BY DEF Starts, Goes, Others
<1>2. bt[t] \in First /\ at[t] = 0
  BY Beginning DEF Starts
<1>3. at[t] \in First \cup {0} /\ bt[t] \in First \cup {0}
  BY <1>2
<1> QED
  BY <1>1, <1>2, <1>3, FirstPoints

LEMMA StartConsistent ==
  ASSUME Typed, NEW at, NEW bt, NEW t \in Thread, NEW c, NEW i, Starts(at, bt, t, c, i), Consistent(at)
  PROVE  Consistent(bt)'
<1> DEFINE n == at[t]
           m == bt[t]
<1>1. Others(at, bt, t)
  BY StartVacant
<1>2. store' = store
  BY DEF Starts
<1>3. /\ m \notin LookedUp \cup Known \cup Unknown \cup InPlace \cup Carrying
      /\ m \notin Burying \cup AfterPush \cup Deleted
      /\ m \notin Replacing \cup Inserting \cup Unindexed \cup Indexing
      /\ m \notin Packed \cup Emptied \cup Refilled \cup Exhumed
  BY StartVacant
<1>4. n \notin Burying \cup Replacing \cup Inserting \cup Unindexed \cup Indexing
  BY StartVacant
<1>5. Called(bt)'
  <2>1. /\ reg'[t].id = i /\ reg'[t].call = c /\ i \in Id /\ c \in Calls /\ m = Entry0(c)
    BY DEF Starts, Fresh
  <2>2. /\ m \in OfSet => c = "set"
        /\ m \in OfBatch => c = "set_batch"
        /\ m \in OfUpdate => c = "update"
        /\ m \in OfDelete => c = "delete"
    BY <2>1, FirstCalls
  <2> HIDE DEF m, n
  <2> SUFFICES ASSUME NEW u \in Thread
               PROVE  /\ bt[u] # 0 => reg'[u].id \in Id
                      /\ bt[u] \in OfSet => reg'[u].call = "set"
                      /\ bt[u] \in OfBatch => reg'[u].call = "set_batch"
                      /\ bt[u] \in OfUpdate => reg'[u].call = "update"
                      /\ bt[u] \in OfDelete => reg'[u].call = "delete"
    BY DEF Called
  <2>3. CASE u = t
    BY <2>1, <2>2, <2>3 DEF m
  <2>4. CASE u # t
    BY <1>1, <2>4 DEF Others, Consistent, Called
  <2> QED
    BY <2>3, <2>4
<1>6. OldFits(bt)'
  <2> SUFFICES ASSUME NEW u \in Thread
               PROVE  /\ bt[u] \in LookedUp /\ reg'[u].old # None =>
                           reg'[u].old \in DOMAIN store'.slots /\ store'.slots[reg'[u].old].id = reg'[u].id
                      /\ bt[u] \in Known => reg'[u].old # None
                      /\ bt[u] \in Unknown => reg'[u].old = None
                      /\ bt[u] \in InPlace => reg'[u].slot = reg'[u].old
                      /\ bt[u] \in Carrying => reg'[u].cur \in DOMAIN store'.slots
    BY DEF OldFits
  <2>1. CASE u = t
    BY <1>3, <2>1
  <2>2. CASE u # t
    BY <1>1, <1>2, <2>2 DEF Others, Consistent, OldFits
  <2> QED
    BY <2>1, <2>2
<1>7. SlotFits(bt)'
  <2> SUFFICES ASSUME NEW u \in Thread
               PROVE  /\ bt[u] \in Burying /\ store'.ids[reg'[u].id] # None => store'.ids[reg'[u].id] \in store'.dead
                      /\ bt[u] \in AfterPush => /\ reg'[u].slot \in DOMAIN store'.slots
                                                /\ store'.slots[reg'[u].slot].id = reg'[u].id
                                                /\ (reg'[u].old # None => reg'[u].old \in store'.dead)
                      /\ bt[u] \in Deleted => reg'[u].old \in store'.dead
    BY DEF SlotFits
  <2>1. CASE u = t
    BY <1>3, <2>1
  <2>2. CASE u # t
    BY <1>1, <1>2, <2>2 DEF Others, Consistent, SlotFits
  <2> QED
    BY <2>1, <2>2
<1>8. /\ NoneAt(bt, Replacing) => NoneAt(at, Replacing)
      /\ NoneAt(bt, Unindexed) => NoneAt(at, Unindexed)
  BY <1>1, <1>4 DEF Others, NoneAt
<1>9. \A u \in Thread : \A S \in {Burying, Inserting, Indexing} : at[u] \in S => bt[u] = at[u] /\ reg'[u] = reg[u]
  BY <1>1, <1>4 DEF Others
<1>10. LiveIn(store)' = LiveIn(store)
  BY <1>2 DEF LiveIn
<1> HIDE DEF n, m
<1>11. IdsFit(bt)'
  BY <1>2, <1>8, <1>9, <1>10 DEF Consistent, IdsFit
<1>12. InEngine(bt)'
  BY <1>2, <1>8, <1>9, <1>10 DEF Consistent, InEngine
<1>13. Indexed(bt)'
  <2>1. \A k : HasMeta(k)' = HasMeta(k)
    BY <1>2 DEF HasMeta
  <2> QED
    BY <1>2, <1>8, <1>9, <1>10, <2>1 DEF Consistent, Indexed
<1>14. Compacting(bt)'
  <2>1. LiveSeq(store)' = LiveSeq(store)
    BY <1>2
  <2>2. \A u \in Thread : bt[u] \in Packed \cup Replacing \cup Emptied \cup Refilled \cup Exhumed =>
          bt[u] = at[u] /\ reg'[u] = reg[u]
    BY <1>1, <1>3 DEF Others, m
  <2> HIDE DEF LiveSeq
  <2> QED
    BY <1>2, <2>1, <2>2 DEF Consistent, Compacting
<1> QED
  BY <1>5, <1>6, <1>7, <1>11, <1>12, <1>13, <1>14 DEF Consistent

LEMMA StartUnraced ==
  ASSUME Typed, NEW at \in [Thread -> Point], Located(at), NEW bt, NEW t \in Thread, NEW c, NEW i,
         Starts(at, bt, t, c, i), Consistent(at), Unraced(at), ~raced'
  PROVE  Unraced(bt)'
<1> DEFINE n == at[t]
           m == bt[t]
<1>1. Others(at, bt, t) /\ n = 0 /\ m \in First
  BY StartVacant DEF Starts
<1>2. store' = store /\ log' = log /\ persistent' = persistent
  BY DEF Starts
<1>3. /\ m \notin Burying \cup AfterPush \cup Deleted \cup Carrying
      /\ m \notin Finding \cup Deciding \cup Laden \cup Landed \cup Relocating
      /\ m \notin Unindexing \cup Rewriting \cup Renumbering \cup Dropping \cup Placing
      /\ m \notin Cleared \cup Unlogged \cup LoggedFirst \cup Indexing \cup Unindexed
  BY StartVacant
<1>4. /\ n \notin Unindexing \cup Rewriting \cup Renumbering \cup Dropping \cup Placing
      /\ n \notin Cleared \cup Unlogged \cup LoggedFirst \cup Indexing \cup Unindexed
  BY StartVacant
<1>5. /\ reg'[t].id = i /\ reg'[t].call = c /\ reg'[t].sparse = FALSE
  BY DEF Starts, Fresh
<1>6. Apart(bt)'
  <2>1. ASSUME NEW u \in Thread, u # t, at[u] # 0, Writes(reg[u].call), Writes(c)
        PROVE  reg[u].id # i
    <3>1. ~Idle(u)
      BY <2>1, BusyPoint
    <3> QED
      BY <2>1, <3>1 DEF Starts
  <2> SUFFICES ASSUME NEW u \in Thread, NEW v \in Thread, u # v, bt[u] # 0, bt[v] # 0,
                      Writes(reg'[u].call), Writes(reg'[v].call)
               PROVE  reg'[u].id # reg'[v].id
    BY DEF Apart, Writes
  <2> HIDE DEF n, m
  <2>2. CASE u = t
    BY <1>1, <1>5, <2>1, <2>2 DEF Others
  <2>3. CASE v = t
    BY <1>1, <1>5, <2>1, <2>3 DEF Others
  <2>4. CASE u # t /\ v # t
    BY <1>1, <2>4 DEF Others, Unraced, Apart
  <2> QED
    BY <2>2, <2>3, <2>4
<1>7. Sole(bt)'
  <2> SUFFICES ASSUME NEW u \in Thread
               PROVE  /\ bt[u] \in Finding => store'.ids[reg'[u].id] = reg'[u].old
                      /\ bt[u] \in Carrying => reg'[u].cur = reg'[u].old
                      /\ bt[u] \in AfterPush => /\ store'.ids[reg'[u].id] = reg'[u].slot
                                                /\ store'.slots[reg'[u].slot].meta = reg'[u].n
                      /\ bt[u] \in Deleted => store'.ids[reg'[u].id] = None
                      /\ bt[u] \in Deciding => reg'[u].ok
    BY DEF Sole
  <2>1. CASE u = t
    BY <1>3, <2>1
  <2>2. CASE u # t
    BY <1>1, <1>2, <2>2 DEF Others, Unraced, Sole
  <2> QED
    BY <2>1, <2>2
<1>8. Carried(bt)'
  <2> SUFFICES ASSUME NEW u \in Thread
               PROVE  /\ bt[u] \in Plain => ~reg'[u].sparse
                      /\ bt[u] \in Laden => CarriesSparse(reg[u])'
                      /\ bt[u] \in Landed =>
                           store'.slots[reg'[u].slot].sparse =
                             (reg'[u].old # None /\ store'.slots[reg'[u].old].sparse)
                      /\ bt[u] \in Relocating /\ reg'[u].old # None =>
                           (store'.slots[reg'[u].old].sparse => reg'[u].old \in store'.sparse)
    BY DEF Carried
  <2>1. CASE u = t
    BY <1>3, <1>5, <2>1
  <2>2. CASE u # t
    <3>1. bt[u] = at[u] /\ reg'[u] = reg[u]
      BY <1>1, <2>2 DEF Others
    <3>2. CarriesSparse(reg[u])' <=> CarriesSparse(reg[u])
      BY <1>2, <3>1 DEF CarriesSparse
    <3> QED
      BY <1>2, <3>1, <3>2 DEF Unraced, Carried
  <2> QED
    BY <2>1, <2>2
<1>9. /\ NoneAt(bt, Unindexed) => NoneAt(at, Unindexed)
      /\ NoneAt(bt, Renumbering) => NoneAt(at, Renumbering)
      /\ NoneAt(bt, Cleared) => NoneAt(at, Cleared)
  BY <1>1, <1>4 DEF Others, NoneAt
<1>10. \A u \in Thread : \A S \in {Unindexing, Rewriting, Indexing, Dropping, Placing, Renumbering, Unlogged,
                                   LoggedFirst, Cleared} :
          at[u] \in S \/ bt[u] \in S => bt[u] = at[u] /\ reg'[u] = reg[u]
  BY <1>1, <1>3, <1>4 DEF Others
<1>11. LiveIn(store)' = LiveIn(store)
  BY <1>2 DEF LiveIn
<1> HIDE DEF n, m
<1>12. MetaExact(bt)'
  <2>1. SUFFICES ASSUME NoneAt(bt, Unindexed)
        PROVE  /\ \A x \in store'.meta :
                    /\ x.slot \in DOMAIN store'.slots
                    /\ x.slot \in store'.dead =>
                         \E u \in Thread : bt[u] \in Unindexing /\ reg'[u].old = x.slot
                    /\ x.slot \notin store'.dead =>
                         \/ x.meta = store'.slots[x.slot].meta
                         \/ \E u \in Thread : bt[u] \in Rewriting /\ reg'[u].old = x.slot /\ reg'[u].n = x.meta
               /\ \A k \in LiveIn(store)' :
                    \/ [slot |-> k, meta |-> store'.slots[k].meta] \in store'.meta
                    \/ \E u \in Thread : bt[u] \in Indexing \cup Rewriting /\ reg'[u].slot = k
               /\ \A u \in Thread : bt[u] \in Rewriting =>
                    [slot |-> reg'[u].old, meta |-> reg'[u].n] \in store'.meta
               /\ \A u \in Thread : bt[u] \in Rewriting =>
                    \A x \in store'.meta : x.slot = reg'[u].old => x.meta = reg'[u].n
               /\ \A u \in Thread : bt[u] \in Indexing =>
                    \A x \in store'.meta : x.slot # reg'[u].slot
    BY DEF MetaExact, NoneAt
  <2>2. NoneAt(at, Unindexed) /\ MetaExact(at)
    BY <1>9, <2>1 DEF Unraced
  <2>3. ASSUME NEW x \in store'.meta
        PROVE  /\ x.slot \in DOMAIN store'.slots
               /\ x.slot \in store'.dead =>
                    \E u \in Thread : bt[u] \in Unindexing /\ reg'[u].old = x.slot
               /\ x.slot \notin store'.dead =>
                    \/ x.meta = store'.slots[x.slot].meta
                    \/ \E u \in Thread : bt[u] \in Rewriting /\ reg'[u].old = x.slot /\ reg'[u].n = x.meta
    BY <1>2, <1>10, <2>2 DEF MetaExact
  <2>4. ASSUME NEW k \in LiveIn(store)'
        PROVE  \/ [slot |-> k, meta |-> store'.slots[k].meta] \in store'.meta
               \/ \E u \in Thread : bt[u] \in Indexing \cup Rewriting /\ reg'[u].slot = k
    <3>1. \/ [slot |-> k, meta |-> store.slots[k].meta] \in store.meta
          \/ \E u \in Thread : at[u] \in Indexing \cup Rewriting /\ reg[u].slot = k
      BY <1>11, <2>2 DEF MetaExact
    <3> QED
      BY <1>2, <1>10, <3>1
  <2>5. ASSUME NEW u \in Thread
        PROVE  /\ bt[u] \in Rewriting => /\ [slot |-> reg'[u].old, meta |-> reg'[u].n] \in store'.meta
                                         /\ \A x \in store'.meta : x.slot = reg'[u].old => x.meta = reg'[u].n
               /\ bt[u] \in Indexing => \A x \in store'.meta : x.slot # reg'[u].slot
    <3>1. at[u] \in Rewriting => /\ [slot |-> reg[u].old, meta |-> reg[u].n] \in store.meta
                                 /\ \A x \in store.meta : x.slot = reg[u].old => x.meta = reg[u].n
      BY <2>2 DEF MetaExact
    <3>2. at[u] \in Indexing => \A x \in store.meta : x.slot # reg[u].slot
      BY <2>2 DEF MetaExact
    <3> QED
      BY <1>2, <1>10, <3>1, <3>2
  <2> QED
    BY <2>3, <2>4, <2>5
<1>13. SparseExact(bt)'
  BY <1>2, <1>9, <1>10, <1>11 DEF Unraced, SparseExact
<1>14. LogExact(bt)'
  <2>1. Replayed' = Replayed /\ \A j : RecordAt(store, j)' = RecordAt(store, j)
    BY <1>2 DEF Replayed, RecordAt
  <2> QED
    BY <1>2, <1>9, <1>10, <2>1 DEF Unraced, LogExact
<1> QED
  BY <1>6, <1>7, <1>8, <1>12, <1>13, <1>14 DEF Unraced

LEMMA StartPlaced ==
  ASSUME Typed, NEW at \in [Thread -> Point], Placed(at), NEW t \in Thread, Start(t)
  PROVE  \E c \in Calls, i \in Id :
           LET bt == [at EXCEPT ![t] = Entry0(c)] IN
           /\ Starts(at, bt, t, c, i) /\ Placed(bt)'
           /\ reg'[t] \in Local /\ reg' = [reg EXCEPT ![t] = reg'[t]]
           /\ calls' \in Nat /\ raced' \in BOOLEAN
           /\ \E p : todo' = [todo EXCEPT ![t] = p]
<1>1. PICK c \in Calls, i \in Id :
        /\ reg' = [reg EXCEPT ![t] = Fresh(c, i, calls + 1)]
        /\ todo' = [todo EXCEPT ![t] = Program(c)]
        /\ raced' = \/ raced
                    \/ /\ Writes(c)
                       /\ \E u \in Thread : ~Idle(u) /\ reg[u].id = i /\ Writes(reg[u].call)
  BY DEF Start
<1>2. /\ Idle(t) /\ calls' = calls + 1 /\ UNCHANGED <<locks, store, log, persistent>>
  BY DEF Start
<1>3. /\ reg \in [Thread -> Local] /\ todo \in [Thread -> Seq(Instruction)] /\ calls \in Nat
      /\ raced \in BOOLEAN
  BY DEF Typed
<1>4. PICK m : m = Entry0(c)
  OBVIOUS
<1>5. c \in Call /\ m \in First /\ Program(c) = CodeAt(m)
  BY <1>4, Beginning
<1> DEFINE bt == [at EXCEPT ![t] = m]
<1>6. at[t] = 0
  BY <1>2, BusyPoint DEF Placed
<1>7. \A k \in {0, m} : /\ k \in Point /\ k \notin GateReading /\ k \notin Excluding
                        /\ \A l \in Lock : Shares(k, l) = 0 /\ k \notin Owned(l)
  BY <1>5, FirstPoints
<1>8. bt \in [Thread -> Point] /\ Located(bt)'
  <2>1. m \in Point /\ todo' = [todo EXCEPT ![t] = CodeAt(m)] /\ UNCHANGED persistent
    BY <1>1, <1>2, <1>5, <1>7
  <2> QED
    BY <1>3, <2>1, MovedLocated DEF Placed
<1>9. Held(bt)'
  <2> SUFFICES ASSUME NEW u \in Thread, NEW l \in Lock
               PROVE  locks'[l].readers[u] = Shares(bt[u], l) /\ (locks'[l].writer = u <=> bt[u] \in Owned(l))
    BY DEF Held
  <2>1. locks[l].readers[u] = Shares(at[u], l) /\ (locks[l].writer = u <=> at[u] \in Owned(l))
    BY DEF Placed, Held
  <2>2. CASE u = t
    BY <1>2, <1>6, <1>7, <2>1, <2>2
  <2>3. CASE u # t
    BY <1>2, <2>1, <2>3
  <2> QED
    BY <2>2, <2>3
<1>10. Alone(bt)'
  <2> SUFFICES ASSUME NEW u \in Thread, NEW v \in Thread, bt[u] \in Excluding, bt[v] \in GateReading
               PROVE  FALSE
    BY DEF Alone
  <2>1. bt[t] = m /\ \A w \in Thread : w # t => bt[w] = at[w]
    OBVIOUS
  <2>2. u # t /\ v # t
    BY <1>7, <2>1
  <2> HIDE DEF bt
  <2> QED
    BY <2>1, <2>2 DEF Placed, Alone
<1>11. Sealed(bt)' /\ InMemory(bt)'
  <2>1. bt[t] = m /\ \A w \in Thread : w # t => bt[w] = at[w]
    OBVIOUS
  <2>2. m \in {101, 201, 301, 401, 501, 601, 701}
    BY <1>5 DEF First
  <2>3. m \notin Burying \cup DeadReading \cup Persisting
    BY <2>2 DEF Burying, DeadReading, Persisting
  <2> HIDE DEF bt
  <2>4. Sealed(bt)'
    BY <2>1, <2>3 DEF Placed, Sealed
  <2>5. InMemory(bt)'
    BY <1>2, <2>1, <2>3 DEF Placed, InMemory
  <2> QED
    BY <2>4, <2>5
<1>12. Fresh(c, i, calls + 1) \in Local
  BY <1>3, <1>5 DEF Fresh, Local
<1>13. reg'[t] = Fresh(c, i, calls + 1) /\ \A u \in Thread : u # t => reg'[u] = reg[u]
  BY <1>1, <1>3
<1>14. /\ reg'[t] \in Local /\ reg' = [reg EXCEPT ![t] = reg'[t]] /\ calls' \in Nat
       /\ \E p : todo' = [todo EXCEPT ![t] = p]
  <2>1. reg'[t] \in Local
    BY <1>12, <1>13
  <2>2. reg' = [reg EXCEPT ![t] = reg'[t]]
    BY <1>1, <1>13
  <2>3. calls' \in Nat
    BY <1>2, <1>3
  <2>4. \E p : todo' = [todo EXCEPT ![t] = p]
    BY <1>1, Zenon
  <2> QED
    BY <2>1, <2>2, <2>3, <2>4
<1>15. raced' \in BOOLEAN
  BY <1>1, <1>3, Zenon
<1>16. Starts(at, bt, t, c, i)
  <2>1. bt[t] = m /\ \A w \in Thread : w # t => bt[w] = at[w]
    OBVIOUS
  <2> HIDE DEF bt
  <2> QED
    BY <1>1, <1>2, <1>4, <1>6, <1>8, <1>13, <2>1 DEF Starts, Goes
<1>17. Placed(bt)'
  BY <1>8, <1>9, <1>10, <1>11 DEF Placed
<1>18. bt = [at EXCEPT ![t] = Entry0(c)]
  BY <1>4
<1> HIDE DEF bt
<1> QED
  BY <1>14, <1>15, <1>16, <1>17, <1>18

-----------------------------------------------------------------------------
(* The types.                                                              *)

LEMMA LeftTyped ==
  ASSUME locks \in LockTable, NEW t \in Thread, NEW k, NEW x, x = Left(t, k),
         \A l \in Lock, u \in Thread : x[l].readers[u] \in Nat
  PROVE  x \in LockTable
<1> DEFINE Holders == [writer : Thread \cup {None}, readers : [Thread -> Nat]]
<1>1. locks \in [Lock -> Holders]
  BY DEF LockTable
<1>2. CASE k \notin Lock \/ k = "none"
  <2>1. x = locks
    BY <1>1, <1>2, Locks DEF Left, Lock
  <2> QED
    BY <1>1, <2>1 DEF LockTable
<1>3. CASE k \in Lock /\ k # "none" /\ locks[k].writer = t
  <2>1. x = [locks EXCEPT ![k].writer = None]
    BY <1>3 DEF Left
  <2>2. [locks[k] EXCEPT !.writer = None] \in Holders
    BY <1>1, <1>3
  <2>3. x = [locks EXCEPT ![k] = [locks[k] EXCEPT !.writer = None]]
    BY <2>1
  <2> HIDE DEF Holders
  <2>4. x \in [Lock -> Holders]
    BY <1>1, <2>2, <2>3
  <2> QED
    BY <2>4 DEF LockTable, Holders
<1>4. CASE k \in Lock /\ k # "none" /\ locks[k].writer # t
  <2>1. x = [locks EXCEPT ![k].readers[t] = @ - 1]
    BY <1>4 DEF Left
  <2>2. locks[k] \in Holders
    BY <1>1, <1>4
  <2> DEFINE held == [locks[k] EXCEPT !.readers[t] = @ - 1]
  <2>3. x = [locks EXCEPT ![k] = held]
    BY <2>1
  <2>4. x[k] = held
    BY <1>1, <1>4, <2>3
  <2>5. held.readers \in [Thread -> Nat]
    <3>1. held.readers = [locks[k].readers EXCEPT ![t] = @ - 1]
      BY <2>2
    <3>2. \A u \in Thread : held.readers[u] \in Nat
      BY <1>4, <2>4
    <3> HIDE DEF held
    <3> QED
      BY <2>2, <3>1, <3>2
  <2>6. held \in Holders
    <3>1. held = [locks[k] EXCEPT !.readers = held.readers]
      BY <2>2
    <3> QED
      BY <2>2, <2>5, <3>1
  <2> HIDE DEF Holders, held
  <2>7. x \in [Lock -> Holders]
    BY <1>1, <2>3, <2>6
  <2> QED
    BY <2>7 DEF LockTable, Holders
<1> QED
  BY <1>2, <1>3, <1>4

LEMMA LockedTyped ==
  ASSUME Typed, NEW t \in Thread, NEW l \in Lock, Claim(t, l) \/ Read(t, l)
  PROVE  locks' \in LockTable
<1> DEFINE Holders == [writer : Thread \cup {None}, readers : [Thread -> Nat]]
<1>1. locks \in [Lock -> Holders] /\ locks[l] \in Holders
  BY DEF Typed
<1>2. CASE Claim(t, l)
  <2>1. locks' = [locks EXCEPT ![l] = [locks[l] EXCEPT !.writer = t]]
    BY <1>2 DEF Claim
  <2>2. [locks[l] EXCEPT !.writer = t] \in Holders
    BY <1>1
  <2> HIDE DEF Holders
  <2>3. locks' \in [Lock -> Holders]
    BY <1>1, <2>1, <2>2
  <2> QED
    BY <2>3 DEF LockTable, Holders
<1>3. CASE Read(t, l)
  <2>1. locks' = [locks EXCEPT ![l] = [locks[l] EXCEPT !.readers[t] = @ + 1]]
    BY <1>3 DEF Read
  <2>2. [locks[l] EXCEPT !.readers[t] = @ + 1] \in Holders
    BY <1>1
  <2> HIDE DEF Holders
  <2>3. locks' \in [Lock -> Holders]
    BY <1>1, <2>1, <2>2
  <2> QED
    BY <2>3 DEF LockTable, Holders
<1> QED
  BY <1>2, <1>3

\* At the points that the threads have come to, everything has its type.
LEMMA TypedAgain ==
  ASSUME Typed, NEW at, NEW bt, NEW t \in Thread, Goes(at, bt, t), Located(bt)', UNCHANGED persistent,
         locks' \in LockTable, reg' = [reg EXCEPT ![t] = reg'[t]], reg'[t] \in Local,
         store' \in Stores, log' \in Logs, calls' \in Nat, raced' \in BOOLEAN,
         \E p : todo' = [todo EXCEPT ![t] = p]
  PROVE  Typed'
<1>1. reg' \in [Thread -> Local]
  BY DEF Typed
<1>2. todo' \in [Thread -> Seq(Instruction)]
  <2>1. \A u \in Thread : todo'[u] \in Seq(Instruction)
    <3> SUFFICES ASSUME NEW u \in Thread PROVE todo'[u] \in Seq(Instruction)
      OBVIOUS
    <3>1. bt[u] \in Point /\ todo'[u] = CodeAt(bt[u])'
      BY DEF Goes, Located
    <3>2. CodeAt(bt[u])' = CodeAt(bt[u])
      BY <3>1, CodeStays
    <3> QED
      BY <3>1, <3>2, CodeTyped
  <2>2. PICK p : todo' = [todo EXCEPT ![t] = p]
    OBVIOUS
  <2>3. todo \in [Thread -> Seq(Instruction)]
    BY DEF Typed
  <2> QED
    BY <2>1, <2>2, <2>3
<1> QED
  BY <1>1, <1>2 DEF Typed, LockTable

-----------------------------------------------------------------------------
(* The invariant is one.                                                   *)

\* A step that changes nothing.
LEMMA Stutter ==
  ASSUME Typed, NEW at \in [Thread -> Point], Fits(at), UNCHANGED vars
  PROVE  Typed' /\ Fits(at)'
<1>1. /\ locks' = locks /\ todo' = todo /\ reg' = reg /\ store' = store /\ log' = log
      /\ calls' = calls /\ persistent' = persistent /\ raced' = raced
  BY DEF vars
<1>2. Typed'
  BY <1>1 DEF Typed
<1>3. Placed(at)'
  <2>1. Located(at)'
    <3>1. \A t \in Thread : CodeAt(at[t])' = CodeAt(at[t])
      BY <1>1, CodeStays
    <3> QED
      BY <1>1, <3>1 DEF Fits, Placed, Located
  <2>2. Held(at)' /\ Alone(at)' /\ Sealed(at)' /\ InMemory(at)'
    BY <1>1 DEF Fits, Placed, Held, Alone, Sealed, InMemory
  <2> QED
    BY <2>1, <2>2 DEF Placed
<1>4. /\ LiveIn(store)' = LiveIn(store) /\ LiveSeq(store)' = LiveSeq(store) /\ Replayed' = Replayed
      /\ \A k : HasMeta(k)' = HasMeta(k)
      /\ \A i : RecordAt(store, i)' = RecordAt(store, i)
  BY <1>1 DEF LiveIn, Replayed, HasMeta, RecordAt
<1>5. Consistent(at)'
  <2>1. Called(at)' /\ OldFits(at)' /\ SlotFits(at)'
    BY <1>1 DEF Fits, Consistent, Called, OldFits, SlotFits
  <2>2. IdsFit(at)' /\ InEngine(at)' /\ Indexed(at)'
    BY <1>1, <1>4 DEF Fits, Consistent, IdsFit, InEngine, Indexed
  <2>3. Compacting(at)'
    <3> HIDE DEF LiveSeq
    <3> QED
      BY <1>1, <1>4 DEF Fits, Consistent, Compacting
  <2> QED
    BY <2>1, <2>2, <2>3 DEF Consistent
<1>6. ASSUME Unraced(at)
      PROVE  Unraced(at)'
  <2>1. Apart(at)' /\ Sole(at)'
    BY <1>1, <1>6 DEF Unraced, Apart, Sole, Writes
  <2>2. Carried(at)'
    BY <1>1, <1>6 DEF Unraced, Carried, CarriesSparse
  <2>3. MetaExact(at)'
    BY <1>1, <1>4, <1>6 DEF Unraced, MetaExact
  <2>4. SparseExact(at)'
    BY <1>1, <1>4, <1>6 DEF Unraced, SparseExact
  <2>5. LogExact(at)'
    BY <1>1, <1>4, <1>6 DEF Unraced, LogExact
  <2> QED
    BY <2>1, <2>2, <2>3, <2>4, <2>5 DEF Unraced
<1> QED
  BY <1>1, <1>2, <1>3, <1>5, <1>6 DEF Fits

LEMMA NextKeeps ==
  IInv /\ [Next]_vars => IInv'
<1> SUFFICES ASSUME Typed, NEW at \in [Thread -> Point], Fits(at), [Next]_vars
             PROVE  IInv'
  BY DEF IInv
<1>1. Placed(at) /\ Consistent(at) /\ (~raced => Unraced(at))
  BY DEF Fits
<1>2. calls \in Nat /\ raced \in BOOLEAN /\ store \in Stores /\ log \in Logs /\ reg \in [Thread -> Local]
  BY DEF Typed
<1>3. CASE UNCHANGED vars
  <2>1. Typed' /\ Fits(at)'
    BY <1>3, Stutter
  <2> QED
    BY <2>1 DEF IInv
<1>4. ASSUME NEW t \in Thread, Start(t)
      PROVE  IInv'
  <2>1. PICK c \in Calls, i \in Id :
           LET bt == [at EXCEPT ![t] = Entry0(c)] IN
           /\ Starts(at, bt, t, c, i) /\ Placed(bt)'
           /\ reg'[t] \in Local /\ reg' = [reg EXCEPT ![t] = reg'[t]]
           /\ calls' \in Nat /\ raced' \in BOOLEAN
           /\ \E p : todo' = [todo EXCEPT ![t] = p]
    BY <1>1, <1>4, StartPlaced
  <2>2. PICK bt : bt = [at EXCEPT ![t] = Entry0(c)]
    OBVIOUS
  <2>3. /\ Starts(at, bt, t, c, i) /\ Placed(bt)'
        /\ reg'[t] \in Local /\ reg' = [reg EXCEPT ![t] = reg'[t]]
        /\ calls' \in Nat /\ raced' \in BOOLEAN
        /\ \E p : todo' = [todo EXCEPT ![t] = p]
    BY <2>1, <2>2
  <2>4. /\ Goes(at, bt, t) /\ locks' = locks /\ store' = store /\ log' = log /\ persistent' = persistent
        /\ raced => raced'
    BY <2>3 DEF Starts
  <2>5. Consistent(bt)'
    BY <1>1, <2>3, StartConsistent
  <2>6. ~raced' => Unraced(bt)'
    BY <1>1, <2>3, <2>4, StartUnraced DEF Placed
  <2>7. Typed'
    BY <1>2, <2>3, <2>4, TypedAgain, LockTyped DEF Placed
  <2>8. bt \in [Thread -> Point] /\ Fits(bt)'
    BY <2>3, <2>4, <2>5, <2>6 DEF Fits, Goes
  <2> QED
    BY <2>7, <2>8 DEF IInv
<1>5. ASSUME NEW t \in Thread, NEW bt, Goes(at, bt, t), Placed(bt)', Consistent(bt)', Unraced(at) => Unraced(bt)',
             locks' \in LockTable, reg' = [reg EXCEPT ![t] = reg'[t]], reg'[t] \in Local,
             store' \in Stores, log' \in Logs, UNCHANGED <<calls, persistent, raced>>,
             \E p : todo' = [todo EXCEPT ![t] = p]
      PROVE  IInv'
  <2>1. Typed'
    BY <1>2, <1>5, TypedAgain DEF Placed
  <2>2. bt \in [Thread -> Point] /\ Fits(bt)'
    BY <1>1, <1>5 DEF Fits, Goes
  <2> QED
    BY <2>1, <2>2 DEF IInv
<1>6. ASSUME NEW t \in Thread, Locking(t)
      PROVE  IInv'
  <2>1. PICK bt : bt = [at EXCEPT ![t] = Follow(at[t])]
    OBVIOUS
  <2>2. Goes(at, bt, t) /\ Placed(bt)' /\ Consistent(bt)' /\ (Unraced(at) => Unraced(bt)')
    BY <1>1, <1>6, <2>1, LockingKeeps
  <2>3. locks' \in LockTable
    <3>1. PICK l \in Lock : Claim(t, l) \/ Read(t, l)
      <4>1. at[t] \in Point \ {0} /\ at[t] \notin DoAt
        BY <1>1, <1>6, <2>1, LockingPlaced
      <4>2. PICK l \in Lock : at[t] \in ReadAt(l) \cup ClaimAt(l)
        BY <4>1, PointKinds
      <4>3. Instr(at[t])[2] = l
        BY <4>2, ReadPoints, ClaimPoints
      <4>4. Head(todo[t]) = Instr(at[t])
        BY <1>1, <4>1, BusyPoint DEF Placed
      <4> QED
        BY <1>6, <4>3, <4>4 DEF Locking
    <3> QED
      BY <3>1, LockedTyped
  <2>4. /\ UNCHANGED <<reg, store, log, calls, persistent, raced>>
        /\ \E p : todo' = [todo EXCEPT ![t] = p]
    BY <1>6 DEF Locking
  <2>5. reg' = [reg EXCEPT ![t] = reg'[t]] /\ reg'[t] \in Local
    BY <1>2, <2>4
  <2> QED
    BY <1>2, <1>5, <2>2, <2>3, <2>4, <2>5
<1>7. ASSUME NEW t \in Thread, View(t)
      PROVE  IInv'
  <2>1. PICK bt : bt = [at EXCEPT ![t] = Follow(at[t])]
    OBVIOUS
  <2>2. /\ Goes(at, bt, t) /\ Placed(bt)' /\ Consistent(bt)' /\ (Unraced(at) => Unraced(bt)')
        /\ reg'[t] \in Local /\ reg' = [reg EXCEPT ![t] = reg'[t]]
    BY <1>1, <1>7, <2>1, ViewKeeps
  <2>3. /\ UNCHANGED <<locks, store, log, calls, persistent, raced>>
        /\ \E p : todo' = [todo EXCEPT ![t] = p]
    BY <1>7 DEF View
  <2>4. locks' \in LockTable
    BY <2>3, LockTyped
  <2> QED
    BY <1>2, <1>5, <2>2, <2>3, <2>4
<1>8. ASSUME NEW t \in Thread, Access(t)
      PROVE  IInv'
  <2>1. PICK r : r = Registers(Instr(at[t])[2], reg[t], store, log)
    OBVIOUS
  <2>2. PICK bt : bt = [at EXCEPT ![t] = Onward(at[t], r, store)]
    OBVIOUS
  <2>3. /\ Goes(at, bt, t) /\ Placed(bt)' /\ Preserved(at, bt, t)
        /\ reg' = [reg EXCEPT ![t] = reg'[t]]
    BY <1>1, <1>8, <2>1, <2>2, AccessKeeps
  <2>4. /\ UNCHANGED <<calls, persistent, raced>>
        /\ \E p : todo' = [todo EXCEPT ![t] = p]
        /\ \E k : locks' = Left(t, k)
    BY <1>8 DEF Access
  <2>5. locks' \in LockTable
    <3>1. \A l \in Lock, u \in Thread : locks'[l].readers[u] \in Nat
      <4> SUFFICES ASSUME NEW l \in Lock, NEW u \in Thread PROVE locks'[l].readers[u] \in Nat
        OBVIOUS
      <4>1. locks'[l].readers[u] = Shares(bt[u], l)
        BY <2>3 DEF Placed, Held
      <4>2. Shares(bt[u], l) \in Nat
        BY DEF Shares, Lock
      <4> QED
        BY <4>1, <4>2
    <3> QED
      BY <2>4, <3>1, LeftTyped, LockTyped
  <2>6. Consistent(bt)' /\ (Unraced(at) => Unraced(bt)') /\ reg'[t] \in Local /\ store' \in Stores /\ log' \in Logs
    BY <2>3 DEF Preserved
  <2> QED
    BY <1>5, <2>3, <2>4, <2>5, <2>6
<1> QED
  BY <1>3, <1>4, <1>6, <1>7, <1>8 DEF Next, Step

-----------------------------------------------------------------------------
(* The initial store.                                                      *)

\* A list of the ids has each of them, once.
LEMMA IdSeq ==
  /\ Cardinality(Id) \in Nat
  /\ SetToSeq(Id) \in [1..Cardinality(Id) -> Id]
  /\ \A k, j \in 1..Cardinality(Id) : SetToSeq(Id)[k] = SetToSeq(Id)[j] => k = j
  /\ \A i \in Id : \E k \in 1..Cardinality(Id) : SetToSeq(Id)[k] = i
<1> DEFINE N == Cardinality(Id)
           P(f) == f \in [1..N -> Id] /\ \A k, j \in 1..N : f[k] = f[j] => k = j
           p == SetToSeq(Id)
<1>1. N \in Nat /\ ExistsBijection(1..N, Id)
  BY ConcurrencyAssumption, FS_CardinalityType
<1>2. \E f \in [1..N -> Id] : IsInjective(f)
  BY <1>1 DEF ExistsBijection, Bijection, Injection
<1>3. p \in [1..N -> Id] /\ IsInjective(p)
  BY <1>2 DEF SetToSeq
<1> HIDE DEF p
<1>4. p \in Injection(1..N, Id)
  BY <1>3 DEF Injection
<1>5. IsFiniteSet(1..N) /\ Cardinality(1..N) = N
  BY <1>1, FS_Interval
<1>6. p \in Surjection(1..N, Id)
  BY <1>4, <1>5, ConcurrencyAssumption, FS_Injection
<1>7. \A i \in Id : \E k \in 1..N : p[k] = i
  BY <1>6 DEF Surjection
<1>8. \A k, j \in 1..N : p[k] = p[j] => k = j
  BY <1>3 DEF IsInjective
<1> QED
  BY <1>1, <1>3, <1>7, <1>8 DEF p

\* What the initial store has: a live slot for each id, and a dead one.
FirstStore(s) ==
  /\ s \in Stores
  /\ s.dead = {1} /\ 1 \in DOMAIN s.slots
  /\ \A i \in Id : s.ids[i] \in LiveIn(s) /\ s.slots[s.ids[i]].id = i
  /\ \A n \in LiveIn(s) : /\ s.ids[s.slots[n].id] = n
                          /\ s.slots[n].val \in ToSet(s.engine)
                          /\ s.slots[n].sparse /\ s.slots[n].meta = 0
  /\ s.meta = {[slot |-> n, meta |-> 0] : n \in LiveIn(s)}
  /\ s.sparse = LiveIn(s)

LEMMA InitStore ==
  ASSUME Init
  PROVE  FirstStore(store)
<1> DEFINE N == Cardinality(Id)
           p == SetToSeq(Id)
           a == CHOOSE i \in Id : TRUE
           q == <<a>> \o p
           W0(j) == CHOOSE n \in 2..Len(q) : q[n] = j
<1>1. /\ N \in Nat /\ p \in [1..N -> Id]
      /\ \A k, j \in 1..N : p[k] = p[j] => k = j
      /\ \A i \in Id : \E k \in 1..N : p[k] = i
  BY IdSeq
<1>2. store = [ids    |-> [j \in Id |-> W0(j)],
               slots  |-> [n \in DOMAIN q |-> [id |-> q[n], val |-> [id |-> q[n], by |-> 0],
                                               meta |-> 0, sparse |-> TRUE]],
               dead   |-> {1},
               engine |-> [n \in DOMAIN q |-> [id |-> q[n], by |-> 0]],
               meta   |-> {[slot |-> n, meta |-> 0] : n \in 2..Len(q)},
               sparse |-> 2..Len(q)]
  BY DEF Init
<1>3. a \in Id
  BY ConcurrencyAssumption
<1> HIDE DEF p, N, a
<1>4. p \in Seq(Id) /\ Len(p) = N
  <2>1. p \in Seq(Id)
    BY <1>1, SeqDef
  <2> QED
    BY <1>1, <2>1
<1>5. q \in Seq(Id) /\ Len(q) = N + 1 /\ DOMAIN q = 1..(N + 1) /\ \A k \in 1..N : q[k + 1] = p[k]
  BY <1>1, <1>3, <1>4
<1> HIDE DEF q
<1>6. \A j \in Id : W0(j) \in 2..(N + 1) /\ q[W0(j)] = j
  <2> SUFFICES ASSUME NEW j \in Id PROVE W0(j) \in 2..(N + 1) /\ q[W0(j)] = j
    OBVIOUS
  <2>1. PICK k \in 1..N : p[k] = j
    BY <1>1
  <2>2. k + 1 \in 2..Len(q) /\ q[k + 1] = j
    BY <1>1, <1>5, <2>1
  <2>3. \E n \in 2..Len(q) : q[n] = j
    BY <2>2
  <2>4. W0(j) \in 2..Len(q) /\ q[W0(j)] = j
    BY <2>3
  <2> HIDE DEF W0
  <2> QED
    BY <1>5, <2>4
<1>7. \A k, j \in 2..(N + 1) : q[k] = q[j] => k = j
  <2> SUFFICES ASSUME NEW k \in 2..(N + 1), NEW j \in 2..(N + 1), q[k] = q[j] PROVE k = j
    OBVIOUS
  <2>1. k - 1 \in 1..N /\ j - 1 \in 1..N /\ (k - 1) + 1 = k /\ (j - 1) + 1 = j
    BY <1>1
  <2>2. q[k] = p[k - 1] /\ q[j] = p[j - 1]
    BY <1>5, <2>1
  <2> HIDE DEF W0
  <2>3. k - 1 = j - 1
    BY <1>1, <2>1, <2>2
  <2> QED
    BY <2>3
<1> HIDE DEF W0
<1>8. /\ store.dead = {1} /\ store.sparse = 2..(N + 1)
      /\ DOMAIN store.slots = 1..(N + 1) /\ DOMAIN store.engine = 1..(N + 1)
      /\ store.meta = {[slot |-> n, meta |-> 0] : n \in 2..(N + 1)}
      /\ \A j \in Id : store.ids[j] = W0(j)
  BY <1>2, <1>5
<1>9. \A n \in 1..(N + 1) : /\ q[n] \in Id
                            /\ store.slots[n] = [id |-> q[n], val |-> [id |-> q[n], by |-> 0],
                                                 meta |-> 0, sparse |-> TRUE]
                            /\ store.engine[n] = [id |-> q[n], by |-> 0]
  BY <1>2, <1>5
<1>10. LiveIn(store) = 2..(N + 1)
  BY <1>1, <1>8 DEF LiveIn
<1>11. store \in Stores
  <2>1. store.ids \in [Id -> Nat \cup {None}]
    <3>1. \A j \in Id : W0(j) \in Nat
      BY <1>1, <1>6
    <3> QED
      BY <1>2, <3>1
  <2>2. store.slots \in Seq(SlotRecord)
    <3>1. \A n \in 1..(N + 1) : store.slots[n] \in SlotRecord
      <4> SUFFICES ASSUME NEW n \in 1..(N + 1) PROVE store.slots[n] \in SlotRecord
        OBVIOUS
      <4>1. PICK i \in Id : i = q[n]
        BY <1>9
      <4>2. store.slots[n] = [id |-> i, val |-> [id |-> i, by |-> 0], meta |-> 0, sparse |-> TRUE]
        BY <1>9, <4>1
      <4> QED
        BY <4>2 DEF SlotRecord
    <3>2. store.slots \in [1..(N + 1) -> SlotRecord]
      BY <1>2, <1>5, <3>1
    <3>3. N + 1 \in Nat
      BY <1>1
    <3> QED
      BY <3>2, <3>3, SeqDef
  <2>3. store.engine \in Seq([id : Id, by : Nat])
    <3>1. \A n \in 1..(N + 1) : store.engine[n] \in [id : Id, by : Nat]
      <4> SUFFICES ASSUME NEW n \in 1..(N + 1) PROVE store.engine[n] \in [id : Id, by : Nat]
        OBVIOUS
      <4>1. PICK i \in Id : i = q[n]
        BY <1>9
      <4>2. store.engine[n] = [id |-> i, by |-> 0]
        BY <1>9, <4>1
      <4> QED
        BY <4>2
    <3>2. store.engine \in [1..(N + 1) -> [id : Id, by : Nat]]
      BY <1>2, <1>5, <3>1
    <3>3. N + 1 \in Nat
      BY <1>1
    <3> QED
      BY <3>2, <3>3, SeqDef
  <2>4. store.meta \in SUBSET [slot : Nat, meta : Nat] /\ store.dead \in SUBSET Nat /\ store.sparse \in SUBSET Nat
    BY <1>1, <1>8
  <2>5. store = [ids |-> store.ids, slots |-> store.slots, dead |-> store.dead, engine |-> store.engine,
                 meta |-> store.meta, sparse |-> store.sparse]
    BY <1>2
  <2> QED
    BY <2>1, <2>2, <2>3, <2>4, <2>5 DEF Stores
<1>12. 1 \in DOMAIN store.slots
  BY <1>1, <1>8
<1>13. \A i \in Id : store.ids[i] \in LiveIn(store) /\ store.slots[store.ids[i]].id = i
  <2> SUFFICES ASSUME NEW i \in Id PROVE store.ids[i] \in LiveIn(store) /\ store.slots[store.ids[i]].id = i
    OBVIOUS
  <2>1. W0(i) \in 1..(N + 1)
    BY <1>1, <1>6
  <2>2. store.slots[W0(i)].id = q[W0(i)]
    <3>1. PICK w \in 1..(N + 1) : w = W0(i)
      BY <2>1
    <3>2. store.slots[w] = [id |-> q[w], val |-> [id |-> q[w], by |-> 0], meta |-> 0, sparse |-> TRUE]
      BY <1>9
    <3>3. store.slots[w].id = q[w]
      BY <3>2
    <3> QED
      BY <3>1, <3>3
  <2> QED
    BY <1>6, <1>8, <1>10, <2>2
<1>14. ASSUME NEW n \in LiveIn(store)
       PROVE  /\ store.ids[store.slots[n].id] = n
              /\ store.slots[n].val \in ToSet(store.engine)
              /\ store.slots[n].sparse /\ store.slots[n].meta = 0
  <2>1. n \in 2..(N + 1) /\ n \in 1..(N + 1)
    BY <1>1, <1>10, <1>14
  <2>2. q[n] \in Id /\ store.slots[n].id = q[n] /\ store.slots[n].val = [id |-> q[n], by |-> 0]
        /\ store.slots[n].sparse /\ store.slots[n].meta = 0
    <3>1. store.slots[n] = [id |-> q[n], val |-> [id |-> q[n], by |-> 0], meta |-> 0, sparse |-> TRUE]
      BY <1>9, <2>1
    <3>2. q[n] \in Id
      BY <1>9, <2>1
    <3> QED
      BY <3>1, <3>2
  <2>3. W0(q[n]) \in 2..(N + 1) /\ q[W0(q[n])] = q[n]
    BY <1>6, <2>2
  <2>4. W0(q[n]) = n
    BY <1>7, <2>1, <2>3
  <2>5. store.ids[q[n]] = n
    BY <1>8, <2>2, <2>4
  <2>6. store.slots[n].val \in ToSet(store.engine)
    <3>1. n \in DOMAIN store.engine
      BY <1>8, <2>1
    <3>2. store.engine[n] = [id |-> q[n], by |-> 0]
      BY <1>9, <2>1
    <3> QED
      BY <2>2, <3>1, <3>2 DEF ToSet
  <2> QED
    BY <2>2, <2>5, <2>6
<1>15. store.meta = {[slot |-> n, meta |-> 0] : n \in LiveIn(store)} /\ store.sparse = LiveIn(store)
  BY <1>8, <1>10
<1> QED
  BY <1>8, <1>11, <1>12, <1>13, <1>14, <1>15 DEF FirstStore

LEMMA InitTyped ==
  ASSUME Init
  PROVE  /\ Typed
         /\ log.saved = Contents(store) /\ log.saved \in Image /\ log.entries = << >>
<1>1. store \in Stores /\ FirstStore(store)
  BY InitStore DEF FirstStore
<1>2. /\ log = [saved |-> Contents(store), entries |-> << >>, whole |-> TRUE]
      /\ locks = [l \in Lock |-> [writer |-> None, readers |-> [t \in Thread |-> 0]]]
      /\ todo = [t \in Thread |-> << >>]
      /\ reg = [t \in Thread |-> Fresh("none", None, 0)]
      /\ calls = 0 /\ persistent \in Persistent /\ raced = FALSE
  BY DEF Init
<1>3. Fresh("none", None, 0) \in Local
  BY DEF Fresh, Local, Call
<1>4. Contents(store) \in Image
  <2>1. \A i \in Id : RecordAt(store, i) \in SlotRecord \cup {None}
    <3> SUFFICES ASSUME NEW i \in Id PROVE RecordAt(store, i) \in SlotRecord \cup {None}
      OBVIOUS
    <3>1. store.slots \in Seq(SlotRecord)
      BY <1>1 DEF Stores
    <3>2. \A k \in DOMAIN store.slots : store.slots[k] \in SlotRecord
      BY <3>1
    <3> QED
      BY <3>2 DEF RecordAt
  <2> QED
    BY <2>1 DEF Contents, Image
<1>5. log \in Logs
  <2>1. log.saved \in Image /\ log.entries = << >> /\ log.whole = TRUE
    BY <1>2, <1>4
  <2>2. << >> \in Seq([id : Id, record : SlotRecord \cup {None}])
    OBVIOUS
  <2> HIDE DEF Fresh
  <2> QED
    BY <1>2, <1>4, <2>2 DEF Logs, Image
<1>6. persistent \in BOOLEAN
  BY <1>2, ConcurrencyAssumption
<1>7. reg \in [Thread -> Local]
  BY <1>2, <1>3
<1>8. locks \in [Lock -> [writer : Thread \cup {None}, readers : [Thread -> Nat]]]
  BY <1>2
<1>9. todo \in [Thread -> Seq(Instruction)]
  BY <1>2
<1> QED
  BY <1>1, <1>2, <1>4, <1>5, <1>6, <1>7, <1>8, <1>9 DEF Typed

\* The invariant holds at first: every thread is idle.
LEMMA InitFits == Init => IInv
<1> SUFFICES ASSUME Init PROVE IInv
  OBVIOUS
<1> DEFINE at == [t \in Thread |-> 0]
<1>1. Typed /\ log.saved = Contents(store) /\ log.saved \in Image /\ log.entries = << >>
  BY InitTyped
<1>2. FirstStore(store)
  BY InitStore
<1>3. /\ locks = [l \in Lock |-> [writer |-> None, readers |-> [t \in Thread |-> 0]]]
      /\ todo = [t \in Thread |-> << >>]
      /\ reg = [t \in Thread |-> Fresh("none", None, 0)]
  BY DEF Init
<1>4. at \in [Thread -> Point] /\ \A t \in Thread : at[t] = 0
  BY DEF Point
<1> HIDE DEF at
<1>5. 0 \in First \cup {0}
  OBVIOUS
<1>6. /\ 0 \notin GateReading /\ 0 \notin Excluding
      /\ \A l \in Lock : Shares(0, l) = 0 /\ 0 \notin Owned(l)
  BY <1>5, FirstPoints
<1>7. Placed(at)
  <2>1. Located(at)
    <3>1. CodeAt(0) = << >>
      BY DEF CodeAt, C0
    <3> QED
      BY <1>3, <1>4, <3>1 DEF Located
  <2>2. Held(at)
    <3>1. \A t \in Thread, l \in Lock : locks[l].readers[t] = 0 /\ locks[l].writer # t
      BY <1>3, ConcurrencyAssumption
    <3> QED
      BY <1>4, <1>6, <3>1 DEF Held
  <2>3. Alone(at)
    BY <1>4, <1>6 DEF Alone
  <2>4. Sealed(at) /\ InMemory(at)
    BY <1>4 DEF Sealed, InMemory, Burying, Persisting
  <2> QED
    BY <2>1, <2>2, <2>3, <2>4 DEF Placed
<1>8. \A t \in Thread :
         /\ at[t] \notin LookedUp \cup Known \cup Unknown \cup InPlace \cup Carrying
         /\ at[t] \notin Burying \cup AfterPush \cup Deleted
         /\ at[t] \notin Replacing \cup Inserting \cup Unindexed \cup Indexing
         /\ at[t] \notin Packed \cup Emptied \cup Refilled \cup Exhumed
  BY <1>4, <1>5, FirstPoints
<1>9. \A t \in Thread :
         /\ at[t] \notin Finding \cup Deciding \cup Laden \cup Landed \cup Relocating
         /\ at[t] \notin Plain \cup Unindexing \cup Rewriting \cup Dropping \cup Placing \cup Renumbering
         /\ at[t] \notin Unlogged \cup LoggedFirst \cup Cleared
         /\ at[t] \notin OfSet \cup OfBatch \cup OfUpdate \cup OfDelete
  BY <1>4 DEF Finding, Deciding, Laden, Landed, Relocating, Plain, Unindexing, Rewriting, Dropping,
              Placing, Renumbering, Unlogged, LoggedFirst, Cleared, OfSet, OfBatch, OfUpdate, OfDelete
<1>10. store \in Stores /\ store.slots \in Seq(SlotRecord) /\ store.ids \in [Id -> Nat \cup {None}]
  BY <1>2 DEF FirstStore, Stores
<1>11. \A n \in LiveIn(store) : n \in DOMAIN store.slots /\ n # 1 /\ store.slots[n] \in SlotRecord
  BY <1>2, <1>10 DEF FirstStore, LiveIn
<1>12. Consistent(at)
  <2>1. Called(at) /\ OldFits(at) /\ SlotFits(at)
    BY <1>4, <1>8, <1>9 DEF Called, OldFits, SlotFits
  <2>2. Compacting(at)
    BY <1>8 DEF Compacting
  <2>3. IdsFit(at)
    BY <1>2, <1>10, <1>11 DEF FirstStore, IdsFit, LiveIn
  <2>4. InEngine(at)
    BY <1>2 DEF FirstStore, InEngine
  <2>5. Indexed(at)
    <3>1. ASSUME NEW n \in LiveIn(store)
          PROVE  HasMeta(n)
      <4>1. [slot |-> n, meta |-> 0] \in store.meta
        BY <1>2 DEF FirstStore
      <4>2. [slot |-> n, meta |-> 0].slot = n
        OBVIOUS
      <4> QED
        BY <4>1, <4>2 DEF HasMeta
    <3> QED
      BY <3>1 DEF Indexed
  <2> QED
    BY <2>1, <2>2, <2>3, <2>4, <2>5 DEF Consistent
<1>13. Unraced(at)
  <2>1. Apart(at) /\ Sole(at) /\ Carried(at)
    BY <1>4, <1>8, <1>9 DEF Apart, Sole, Carried
  <2>2. MetaExact(at)
    <3>1. \A m \in store.meta : /\ m.slot \in DOMAIN store.slots /\ m.slot \notin store.dead
                                /\ m.meta = store.slots[m.slot].meta
      BY <1>2, <1>11 DEF FirstStore, LiveIn
    <3>2. \A n \in LiveIn(store) : [slot |-> n, meta |-> store.slots[n].meta] \in store.meta
      BY <1>2 DEF FirstStore
    <3> QED
      BY <1>8, <1>9, <3>1, <3>2 DEF MetaExact
  <2>3. SparseExact(at)
    BY <1>2, <1>9, <1>11 DEF FirstStore, SparseExact, LiveIn
  <2>4. LogExact(at)
    <3>1. log.entries \in Seq(Entry)
      BY <1>1
    <3>2. Replayed = Contents(store)
      BY <1>1, <3>1, ReplayAppend DEF Replayed
    <3>3. \A i \in Id : Replayed[i] = RecordAt(store, i)
      BY <3>2 DEF Contents
    <3> QED
      BY <1>9, <3>3 DEF LogExact
  <2> QED
    BY <2>1, <2>2, <2>3, <2>4 DEF Unraced
<1> QED
  BY <1>1, <1>4, <1>7, <1>12, <1>13 DEF IInv, Fits

-----------------------------------------------------------------------------
(* Deadlocks.                                                              *)

\* A thread cannot take its next step: it waits for a lock that it has claimed to be left
\* by its readers, or for one that another has claimed.
Blocked(t) ==
  \/ ~Inside(t)
  \/ Head(todo[t])[1] \in {"read", "claim"} /\ locks[Head(todo[t])[2]].writer # None

\* Not all of the calls that are under way wait for each other.
SomeGoesOn == ~Quiescent => \E t \in Thread : ~Idle(t) /\ ~Blocked(t)

\* The points of a store in memory that no batch writes to.
Plainly == Point \ (Persisting \cup OfBatch)

\* Nobody reads what the thread owns, or owns what it is about to lock.
Free(at, t) ==
  \A l \in Lock, u \in Thread :
    /\ at[t] \in Owned(l) => Shares(at[u], l) = 0
    /\ at[t] \in ReadAt(l) \cup ClaimAt(l) => at[u] \notin Owned(l)

LEMMA FreeGoesOn ==
  ASSUME Typed, NEW at \in [Thread -> Point], Placed(at), NEW t \in Thread, at[t] # 0, Free(at, t)
  PROVE  ~Idle(t) /\ ~Blocked(t)
<1>1. ~Idle(t) /\ Head(todo[t]) = Instr(at[t]) /\ at[t] \in Point
  BY BusyPoint DEF Placed
<1>2. Inside(t)
  BY DEF Free, Inside, Placed, Held
<1>3. CASE at[t] \in DoAt
  BY <1>1, <1>2, <1>3, DoPoints DEF Blocked
<1>4. ASSUME NEW l \in Lock, at[t] \in ReadAt(l) \cup ClaimAt(l)
      PROVE  ~Blocked(t)
  <2>1. Instr(at[t])[2] = l
    BY <1>4, ReadPoints, ClaimPoints
  <2>2. locks[l].writer \in Thread \cup {None}
    BY LockTyped DEF LockTable
  <2>3. \A u \in Thread : locks[l].writer # u
    BY <1>4 DEF Free, Placed, Held
  <2> QED
    BY <1>1, <1>2, <2>1, <2>2, <2>3 DEF Blocked
<1> QED
  BY <1>1, <1>3, <1>4, PointKinds

\* Which points own a lock, and which read one.
LEMMA Owners ==
  ASSUME NEW n \in Plainly
  PROVE  /\ n \in Owned("engine") => n \in {103, 115, 716}
         /\ n \in Owned("meta") => n \in {119, 123, 319, 321, 409, 719, 723}
         /\ n \in Owned("sparse") => n \in {121, 411, 713}
         /\ n \in Owned("slots") => n \in {111, 323, 707}
         /\ n \in Owned("deleted") => n \in {109, 110, 111, 112, 405, 406, 711}
         /\ n \in Owned("gate") => n \in 702..724 \cup {810}
         /\ n \notin Owned("storage")
  BY DEF Plainly, Persisting, OfBatch, Owned

LEMMA Sharers ==
  ASSUME NEW n \in Plainly
  PROVE  /\ Shares(n, "engine") = 0 /\ Shares(n, "meta") = 0 /\ Shares(n, "sparse") = 0
         /\ Shares(n, "storage") = 0
         /\ n \notin {107, 306, 310, 507, 607, 114, 115, 116} \cup Excluding => Shares(n, "slots") = 0
         /\ n \notin DeadReading => Shares(n, "deleted") = 0
         /\ n \notin GateReading => Shares(n, "gate") = 0
  BY DEF Plainly, Persisting, OfBatch, Excluding, DeadReading, Shares

\* The points by what they wait for.
AtIndex == {103, 115, 119, 123, 319, 321, 409, 121, 411}
ToIndex == {102, 114, 118, 122, 318, 320, 408, 120, 410}
Loose == {104, 105, 107, 116, 117, 302, 303, 306, 307, 308, 310, 402, 403, 407, 501, 502, 504,
          505, 507, 601, 602, 604, 605, 607, 901, 902, 903}
AtSlots == {111, 323}
ToSlots == {106, 110, 113, 305, 309, 322, 506, 606}
AtDeleted == {109, 112, 405, 406}
ToDeleted == {108, 304, 404, 503, 603}
AtGate == {702, 810}
ToGate == {101, 301, 401, 701, 801}

LEMMA Wanted ==
  ASSUME NEW n \in Plainly, NEW l \in Lock, n \in ReadAt(l) \cup ClaimAt(l)
  PROVE  /\ l \in {"engine", "meta", "sparse"} => n \in ToIndex \cup Excluding
         /\ l = "slots" => n \in ToSlots \cup {702} \cup Excluding
         /\ l = "deleted" => n \in ToDeleted \cup Excluding
         /\ l = "gate" => n \in ToGate
         /\ l # "storage"
  BY DEF Plainly, Persisting, OfBatch, ReadAt, ClaimAt, Lock, ToIndex, ToSlots, ToDeleted, ToGate,
         Excluding

LEMMA Kinds ==
  /\ Plainly \subseteq {0} \cup AtIndex \cup ToIndex \cup Loose \cup AtSlots \cup ToSlots
                       \cup AtDeleted \cup ToDeleted \cup AtGate \cup ToGate \cup Excluding
  /\ Plainly \cap GateReading \subseteq
       AtIndex \cup ToIndex \cup Loose \cup AtSlots \cup ToSlots \cup AtDeleted \cup ToDeleted
  /\ Plainly \cap Excluding = 703..724
  BY DEF Plainly, Persisting, OfBatch, Point, AtIndex, ToIndex, Loose, AtSlots, ToSlots, AtDeleted,
         ToDeleted, AtGate, ToGate, Excluding, GateReading

\* If every call waits for another, and no compaction is past its claim of write_lock, no
\* call can be anywhere: those that wait last, for the indexes, wait for nobody, nor do
\* then those that wait for them, and so on up to write_lock.
LEMMA NoWaiting ==
  ASSUME NEW at \in [Thread -> Plainly], Sealed(at), NoneAt(at, Excluding),
         \A t \in Thread : at[t] # 0 => ~Free(at, t)
  PROVE  \A t \in Thread : at[t] = 0
<1>1. NoneAt(at, AtIndex)
  <2> SUFFICES ASSUME NEW t \in Thread, at[t] \in AtIndex PROVE Free(at, t)
    BY DEF NoneAt, AtIndex
  <2>1. \A l \in Lock : at[t] \notin ReadAt(l) \cup ClaimAt(l)
    BY DEF AtIndex, Lock, ReadAt, ClaimAt
  <2>2. \A l \in Lock : at[t] \in Owned(l) => l \in {"engine", "meta", "sparse"}
    BY DEF AtIndex, Lock, Owned
  <2> QED
    BY <2>1, <2>2, Sharers DEF Free
<1>2. NoneAt(at, ToIndex)
  <2> SUFFICES ASSUME NEW t \in Thread, at[t] \in ToIndex PROVE Free(at, t)
    BY DEF NoneAt, ToIndex
  <2>1. \A l \in Lock : at[t] \notin Owned(l)
    BY DEF ToIndex, Lock, Owned
  <2>2. \A l \in Lock : at[t] \in ReadAt(l) \cup ClaimAt(l) => l \in {"engine", "meta", "sparse"}
    BY DEF ToIndex, Lock, ReadAt, ClaimAt
  <2>3. \A u \in Thread : at[u] \notin Owned("engine") \cup Owned("meta") \cup Owned("sparse")
    <3> TAKE u \in Thread
    <3>1. at[u] \in Plainly /\ at[u] \notin AtIndex /\ at[u] \notin Excluding
      BY <1>1 DEF NoneAt
    <3>2. {716, 719, 723, 713} \subseteq Excluding
      BY DEF Excluding
    <3> QED
      BY <3>1, <3>2, Owners DEF AtIndex
  <2> QED
    BY <2>1, <2>2, <2>3 DEF Free
<1>3. NoneAt(at, Loose)
  <2> SUFFICES ASSUME NEW t \in Thread, at[t] \in Loose PROVE Free(at, t)
    BY DEF NoneAt, Loose
  <2>1. \A l \in Lock : at[t] \notin ReadAt(l) \cup ClaimAt(l)
    BY DEF Loose, Lock, ReadAt, ClaimAt
  <2>2. \A l \in Lock : at[t] \notin Owned(l)
    BY DEF Loose, Lock, Owned
  <2> QED
    BY <2>1, <2>2 DEF Free
<1>4. \A u \in Thread : Shares(at[u], "slots") = 0
  <2> TAKE u \in Thread
  <2>1. at[u] \in Plainly /\ at[u] \notin AtIndex \cup ToIndex \cup Loose \cup Excluding
    BY <1>1, <1>2, <1>3 DEF NoneAt
  <2>2. at[u] \notin {107, 306, 310, 507, 607, 114, 115, 116} \cup Excluding
    BY <2>1 DEF AtIndex, ToIndex, Loose
  <2> QED
    BY <2>1, <2>2, Sharers
<1>5. \A t \in Thread : at[t] \in Burying => \A u \in Thread : Shares(at[u], "deleted") = 0
  BY Sharers DEF Sealed
<1>6. NoneAt(at, AtSlots)
  <2> SUFFICES ASSUME NEW t \in Thread, at[t] \in AtSlots PROVE Free(at, t)
    BY DEF NoneAt, AtSlots
  <2>1. \A l \in Lock : at[t] \notin ReadAt(l) \cup ClaimAt(l)
    BY DEF AtSlots, Lock, ReadAt, ClaimAt
  <2>2. \A l \in Lock : at[t] \in Owned(l) => l = "slots" \/ (l = "deleted" /\ at[t] \in Burying)
    BY DEF AtSlots, Lock, Owned, Burying
  <2> QED
    BY <1>4, <1>5, <2>1, <2>2 DEF Free
<1>7. \A u \in Thread : at[u] \notin Owned("slots")
  <2> TAKE u \in Thread
  <2>1. at[u] \in Plainly /\ at[u] \notin AtSlots /\ at[u] \notin Excluding
    BY <1>6 DEF NoneAt
  <2>2. 707 \in Excluding
    BY DEF Excluding
  <2> QED
    BY <2>1, <2>2, Owners DEF AtSlots
<1>8. NoneAt(at, ToSlots)
  <2> SUFFICES ASSUME NEW t \in Thread, at[t] \in ToSlots PROVE Free(at, t)
    BY DEF NoneAt, ToSlots
  <2>1. \A l \in Lock : at[t] \in ReadAt(l) \cup ClaimAt(l) => l = "slots"
    BY DEF ToSlots, Lock, ReadAt, ClaimAt
  <2>2. \A l \in Lock : at[t] \in Owned(l) => l = "deleted" /\ at[t] \in Burying
    BY DEF ToSlots, Lock, Owned, Burying
  <2> QED
    BY <1>5, <1>7, <2>1, <2>2 DEF Free
<1>9. \A u \in Thread : Shares(at[u], "deleted") = 0
  <2> TAKE u \in Thread
  <2>1. at[u] \in Plainly /\ at[u] \notin Loose \cup ToSlots \cup Excluding
    BY <1>3, <1>8 DEF NoneAt
  <2>2. at[u] \notin DeadReading
    BY <2>1 DEF DeadReading, Loose, ToSlots, Excluding
  <2> QED
    BY <2>1, <2>2, Sharers
<1>10. NoneAt(at, AtDeleted)
  <2> SUFFICES ASSUME NEW t \in Thread, at[t] \in AtDeleted PROVE Free(at, t)
    BY DEF NoneAt, AtDeleted
  <2>1. \A l \in Lock : at[t] \notin ReadAt(l) \cup ClaimAt(l)
    BY DEF AtDeleted, Lock, ReadAt, ClaimAt
  <2>2. \A l \in Lock : at[t] \in Owned(l) => l = "deleted"
    BY DEF AtDeleted, Lock, Owned
  <2> QED
    BY <1>9, <2>1, <2>2 DEF Free
<1>11. \A u \in Thread : at[u] \notin Owned("deleted")
  <2> TAKE u \in Thread
  <2>1. at[u] \in Plainly /\ at[u] \notin AtSlots \cup ToSlots \cup AtDeleted \cup Excluding
    BY <1>6, <1>8, <1>10 DEF NoneAt
  <2>2. {109, 110, 111, 112, 405, 406, 711} \subseteq AtSlots \cup ToSlots \cup AtDeleted \cup Excluding
    BY DEF AtSlots, ToSlots, AtDeleted, Excluding
  <2> QED
    BY <2>1, <2>2, Owners
<1>12. NoneAt(at, ToDeleted)
  <2> SUFFICES ASSUME NEW t \in Thread, at[t] \in ToDeleted PROVE Free(at, t)
    BY DEF NoneAt, ToDeleted
  <2>1. \A l \in Lock : at[t] \in ReadAt(l) \cup ClaimAt(l) => l = "deleted"
    BY DEF ToDeleted, Lock, ReadAt, ClaimAt
  <2>2. \A l \in Lock : at[t] \notin Owned(l)
    BY DEF ToDeleted, Lock, Owned
  <2> QED
    BY <1>11, <2>1, <2>2 DEF Free
<1>13. \A u \in Thread : Shares(at[u], "gate") = 0
  <2> TAKE u \in Thread
  <2>1. at[u] \in Plainly /\ at[u] \notin AtIndex \cup ToIndex \cup Loose \cup AtSlots \cup ToSlots
                                          \cup AtDeleted \cup ToDeleted
    BY <1>1, <1>2, <1>3, <1>6, <1>8, <1>10, <1>12 DEF NoneAt
  <2>2. at[u] \notin GateReading
    BY <2>1, Kinds
  <2> QED
    BY <2>1, <2>2, Sharers
<1>14. NoneAt(at, AtGate)
  <2> SUFFICES ASSUME NEW t \in Thread, at[t] \in AtGate PROVE Free(at, t)
    BY DEF NoneAt, AtGate
  <2>1. \A l \in Lock : at[t] \in ReadAt(l) \cup ClaimAt(l) => l = "slots"
    BY DEF AtGate, Lock, ReadAt, ClaimAt
  <2>2. \A l \in Lock : at[t] \in Owned(l) => l = "gate"
    BY DEF AtGate, Lock, Owned
  <2> QED
    BY <1>7, <1>13, <2>1, <2>2 DEF Free
<1>15. \A u \in Thread : at[u] \notin Owned("gate")
  <2> TAKE u \in Thread
  <2>1. at[u] \in Plainly /\ at[u] \notin AtGate /\ at[u] \notin Excluding
    BY <1>14 DEF NoneAt
  <2>2. 702..724 \cup {810} \subseteq AtGate \cup Excluding
    BY DEF AtGate, Excluding
  <2> QED
    BY <2>1, <2>2, Owners
<1>16. NoneAt(at, ToGate)
  <2> SUFFICES ASSUME NEW t \in Thread, at[t] \in ToGate PROVE Free(at, t)
    BY DEF NoneAt, ToGate
  <2>1. \A l \in Lock : at[t] \in ReadAt(l) \cup ClaimAt(l) => l = "gate"
    BY DEF ToGate, Lock, ReadAt, ClaimAt
  <2>2. \A l \in Lock : at[t] \notin Owned(l)
    BY DEF ToGate, Lock, Owned
  <2> QED
    BY <1>15, <2>1, <2>2 DEF Free
<1> QED
  BY <1>1, <1>2, <1>3, <1>6, <1>8, <1>10, <1>12, <1>14, <1>16, Kinds DEF NoneAt

\* A compaction that is past its claim waits for no call but a get or a search, and those
\* then wait for nobody.
LEMMA NoWaitingCompaction ==
  ASSUME NEW at \in [Thread -> Plainly], Alone(at), NEW c \in Thread, at[c] \in Excluding,
         \A t, u \in Thread : at[t] \in Owned("gate") /\ at[u] \in Owned("gate") => t = u,
         \A t \in Thread : at[t] # 0 => ~Free(at, t)
  PROVE  FALSE
<1>1. NoneAt(at, Loose)
  <2> SUFFICES ASSUME NEW t \in Thread, at[t] \in Loose PROVE Free(at, t)
    BY DEF NoneAt, Loose
  <2>1. \A l \in Lock : at[t] \notin ReadAt(l) \cup ClaimAt(l)
    BY DEF Loose, Lock, ReadAt, ClaimAt
  <2>2. \A l \in Lock : at[t] \notin Owned(l)
    BY DEF Loose, Lock, Owned
  <2> QED
    BY <2>1, <2>2 DEF Free
<1>2. at[c] \in 703..724
  BY Kinds
<1>3. \A u \in Thread \ {c} : at[u] \in {0} \cup ToGate \cup {503, 506, 603, 606}
  <2> TAKE u \in Thread \ {c}
  <2>1. at[u] \in Plainly /\ at[u] \notin GateReading /\ at[u] \notin Loose
    BY <1>1 DEF NoneAt, Alone
  <2>2. at[c] \in Owned("gate")
    BY <1>2 DEF Owned
  <2>3. at[u] \notin Owned("gate")
    BY <2>2
  <2>4. at[u] \notin 702..724 \cup {810}
    BY <2>3 DEF Owned
  <2> QED
    BY <2>1, <2>4 DEF Plainly, Point, Persisting, OfBatch, GateReading, Loose, ToGate
<1>4. ASSUME NEW l \in Lock, NEW u \in Thread
      PROVE  /\ at[c] \in Owned(l) => Shares(at[u], l) = 0
             /\ at[c] \in ReadAt(l) \cup ClaimAt(l) => at[u] \notin Owned(l)
  <2>1. CASE u = c
    BY <1>2, <2>1 DEF Lock, Owned, Shares, ReadAt, ClaimAt, GateReading
  <2>2. CASE u # c
    <3>1. at[u] \in {0, 101, 301, 401, 701, 801, 503, 506, 603, 606}
      BY <1>3, <2>2 DEF ToGate
    <3>2. Shares(at[u], l) = 0 /\ at[u] \notin Owned(l)
      BY <3>1 DEF Lock, Owned, Shares, GateReading
    <3> QED
      BY <3>2
  <2> QED
    BY <2>1, <2>2
<1>5. Free(at, c) /\ at[c] # 0
  BY <1>2, <1>4 DEF Free
<1> QED
  BY <1>5

-----------------------------------------------------------------------------
(* The theorems.                                                           *)

\* Every reachable state satisfies the inductive invariant: there are points for the
\* threads such that the locks, the local variables of the calls, the store, the indexes
\* and the log are as calls at those points hold and leave them.
THEOREM Invariance == Spec => []IInv
<1>1. Init => IInv
  BY InitFits
<1>2. IInv /\ [Next]_vars => IInv'
  BY NextKeeps
<1> QED
  BY <1>1, <1>2, PTL DEF Spec

\* When no call is under way, every thread is at no point.
LEMMA AtRest ==
  ASSUME NEW at \in [Thread -> Point], Fits(at), Quiescent
  PROVE  \A t \in Thread : at[t] = 0
<1>1. Located(at)
  BY DEF Fits, Placed
<1> QED
  BY <1>1, BusyPoint DEF Quiescent

\* A thread reads no lock more than twice.
LEMMA SharesBounds ==
  ASSUME NEW n \in Point, NEW l \in Lock
  PROVE  Shares(n, l) \in 0..2 /\ Shares(0, l) = 0 /\ 0 \notin Owned(l)
<1>1. Shares(n, l) \in 0..2
  BY DEF Shares, Lock
<1>2. Shares(0, l) = 0 /\ 0 \notin Owned(l)
  BY FirstPoints
<1> QED
  BY <1>1, <1>2

\* A lock is never held by what is not a thread, no thread reads one more than twice, and
\* once all calls are done nobody holds any and the id map names slots: no early return
\* of a call leaks a guard, nor drops one it does not have.
THEOREM TypeCorrect == Spec => []TypeOK
<1>1. IInv => TypeOK
  <2> SUFFICES ASSUME Typed, NEW at \in [Thread -> Point], Fits(at)
               PROVE  TypeOK
    BY DEF IInv
  <2>1. Held(at) /\ IdsFit(at)
    BY DEF Fits, Placed, Consistent
  <2>2. locks \in [Lock -> [writer : Thread \cup {None}, readers : [Thread -> Nat]]]
    BY DEF Typed
  <2>3. \A l \in Lock : locks[l].writer \in Thread \cup {None}
    BY <2>2
  <2>4. \A t \in Thread : \A l \in Lock : locks[l].readers[t] \in 0..2
    BY <2>1, SharesBounds DEF Held
  <2>5. ASSUME Quiescent
        PROVE  /\ \A i \in Id : store.ids[i] \in DOMAIN store.slots \cup {None}
               /\ locks = [l \in Lock |-> [writer |-> None, readers |-> [t \in Thread |-> 0]]]
    <3>1. \A t \in Thread : at[t] = 0
      BY <2>5, AtRest
    <3>2. NoneAt(at, Replacing)
      BY <3>1 DEF NoneAt, Replacing
    <3>3. \A i \in Id : store.ids[i] \in DOMAIN store.slots \cup {None}
      BY <2>1, <3>2 DEF IdsFit
    <3>4. \A l \in Lock : /\ locks[l].writer = None
                          /\ locks[l].readers = [t \in Thread |-> 0]
      <4> SUFFICES ASSUME NEW l \in Lock
                   PROVE  locks[l].writer = None /\ locks[l].readers = [t \in Thread |-> 0]
        OBVIOUS
      <4>1. \A t \in Thread : locks[l].readers[t] = 0 /\ locks[l].writer # t
        BY <2>1, <3>1, SharesBounds DEF Held
      <4>2. locks[l].writer \in Thread \cup {None} /\ locks[l].readers \in [Thread -> Nat]
        BY <2>2
      <4> QED
        BY <4>1, <4>2
    <3>5. \A l \in Lock : locks[l] = [writer |-> None, readers |-> [t \in Thread |-> 0]]
      BY <2>2, <3>4
    <3> QED
      BY <2>2, <3>3, <3>5
  <2> QED
    BY <2>3, <2>4, <2>5 DEF TypeOK
<1> QED
  BY <1>1, Invariance, PTL

\* Whatever calls overlapped, and in whatever order their steps came, once they are done
\* the id map names exactly the live slots, each of its id, and every live record is in the
\* engine and in the metadata index.
THEOREM CoherentCorrect == Spec => []Coherent
<1>1. IInv => Coherent
  <2> SUFFICES ASSUME Typed, NEW at \in [Thread -> Point], Fits(at), Quiescent
               PROVE  /\ \A i \in Id : store.ids[i] # None =>
                           store.ids[i] \in LiveIn(store) /\ store.slots[store.ids[i]].id = i
                      /\ \A n \in LiveIn(store) : /\ store.ids[store.slots[n].id] = n
                                                   /\ store.slots[n].val \in ToSet(store.engine)
                                                   /\ \E m \in store.meta : m.slot = n
    BY DEF IInv, Coherent
  <2>1. \A t \in Thread : at[t] = 0
    BY AtRest
  <2>2. /\ NoneAt(at, Replacing) /\ NoneAt(at, Burying) /\ NoneAt(at, Inserting)
        /\ NoneAt(at, Unindexed) /\ NoneAt(at, Indexing)
    BY <2>1 DEF NoneAt, Replacing, Burying, Inserting, Unindexed, Indexing
  <2>3. IdsFit(at) /\ InEngine(at) /\ Indexed(at)
    BY DEF Fits, Consistent
  <2>4. \A i \in Id : store.ids[i] # None =>
          store.ids[i] \in LiveIn(store) /\ store.slots[store.ids[i]].id = i
    BY <2>2, <2>3 DEF IdsFit, NoneAt, LiveIn
  <2>5. \A n \in LiveIn(store) : store.ids[store.slots[n].id] = n
    BY <2>2, <2>3 DEF IdsFit
  <2>6. \A n \in LiveIn(store) : store.slots[n].val \in ToSet(store.engine)
    BY <2>2, <2>3 DEF InEngine, NoneAt
  <2>7. \A n \in LiveIn(store) : \E m \in store.meta : m.slot = n
    BY <2>2, <2>3 DEF Indexed, NoneAt, HasMeta
  <2> QED
    BY <2>4, <2>5, <2>6, <2>7
<1> QED
  BY <1>1, Invariance, PTL

\* If no two calls wrote one id at a time, then once all are done the metadata index has
\* the metadata of the live slots and nothing else, and the sparse index the live slots
\* with a sparse vector: no entry of a replaced, deleted or moved slot stays.
THEOREM IndexesCorrect == Spec => []IndexesAgree
<1>1. IInv => IndexesAgree
  <2> SUFFICES ASSUME Typed, NEW at \in [Thread -> Point], Fits(at), Quiescent, ~raced
               PROVE  /\ store.meta = {[slot |-> n, meta |-> store.slots[n].meta] : n \in LiveIn(store)}
                      /\ store.sparse = {n \in LiveIn(store) : store.slots[n].sparse}
    BY DEF IInv, IndexesAgree
  <2>1. \A t \in Thread : at[t] = 0
    BY AtRest
  <2>2. /\ NoneAt(at, Unindexed) /\ NoneAt(at, Unindexing) /\ NoneAt(at, Rewriting)
        /\ NoneAt(at, Indexing) /\ NoneAt(at, Renumbering) /\ NoneAt(at, Dropping) /\ NoneAt(at, Placing)
    BY <2>1 DEF NoneAt, Unindexed, Unindexing, Rewriting, Indexing, Renumbering, Dropping, Placing
  <2>3. MetaExact(at) /\ SparseExact(at)
    BY DEF Fits, Unraced
  <2>4. store.meta \in SUBSET [slot : Nat, meta : Nat]
    BY DEF Typed, Stores
  <2>5. \A m \in store.meta : m.slot \in LiveIn(store) /\ m.meta = store.slots[m.slot].meta
    BY <2>2, <2>3 DEF MetaExact, NoneAt, LiveIn
  <2>6. \A n \in LiveIn(store) : [slot |-> n, meta |-> store.slots[n].meta] \in store.meta
    BY <2>2, <2>3 DEF MetaExact, NoneAt
  <2>7. \A m \in store.meta : m = [slot |-> m.slot, meta |-> m.meta]
    BY <2>4
  <2>8. store.meta = {[slot |-> n, meta |-> store.slots[n].meta] : n \in LiveIn(store)}
    BY <2>5, <2>6, <2>7
  <2>9. \A n \in store.sparse : n \in LiveIn(store) /\ store.slots[n].sparse
    BY <2>2, <2>3 DEF SparseExact, NoneAt, LiveIn
  <2>10. \A n \in LiveIn(store) : store.slots[n].sparse => n \in store.sparse
    BY <2>2, <2>3 DEF SparseExact, NoneAt
  <2>11. store.sparse = {n \in LiveIn(store) : store.slots[n].sparse}
    BY <2>9, <2>10
  <2> QED
    BY <2>8, <2>11
<1> QED
  BY <1>1, Invariance, PTL

\* Under the same condition, and if no batch was written since the last checkpoint, a
\* replay of the log over what that checkpoint saved gives, once all calls are done, the
\* records that memory has.
THEOREM LogCorrect == Spec => []LogAgrees
<1>1. IInv => LogAgrees
  <2> SUFFICES ASSUME Typed, NEW at \in [Thread -> Point], Fits(at), Quiescent, ~raced,
                      persistent, log.whole
               PROVE  Replayed = Contents(store)
    BY DEF IInv, LogAgrees
  <2>1. \A t \in Thread : at[t] = 0
    BY AtRest
  <2>2. NoneAt(at, Cleared) /\ NoneAt(at, Unlogged)
    BY <2>1 DEF NoneAt, Cleared, Unlogged
  <2>3. LogExact(at)
    BY DEF Fits, Unraced
  <2>4. \A i \in Id : Replayed[i] = RecordAt(store, i)
    BY <2>2, <2>3 DEF LogExact, NoneAt
  <2>5. Replayed \in Image
    <3>1. log.saved \in Image /\ log.entries \in Seq(Entry)
      BY DEF Typed, Logs, Image, Entry
    <3> QED
      BY <3>1, ReplayAppend DEF Replayed
  <2>6. Replayed = [i \in Id |-> RecordAt(store, i)]
    <3>1. DOMAIN Replayed = Id /\ Replayed = [i \in Id |-> Replayed[i]]
      BY <2>5 DEF Image
    <3> QED
      BY <2>4, <3>1
  <2> QED
    BY <2>6 DEF Contents
<1> QED
  BY <1>1, Invariance, PTL

\* In a store in memory, and while no batch is written, there is never a deadlock: as long
\* as a call is under way, one can take its next step, for any number of threads.
THEOREM NoDeadlock == Spec => [](~persistent /\ ~Batching => SomeGoesOn)
<1>1. IInv => (~persistent /\ ~Batching => SomeGoesOn)
  <2> SUFFICES ASSUME Typed, NEW at \in [Thread -> Point], Fits(at), ~persistent, ~Batching, ~Quiescent,
                      \A t \in Thread : ~Idle(t) => Blocked(t)
               PROVE  FALSE
    BY DEF IInv, SomeGoesOn
  <2>1. Placed(at) /\ Called(at)
    BY DEF Fits, Consistent
  <2>2. \A t \in Thread : at[t] # 0 => ~Free(at, t)
    BY <2>1, FreeGoesOn
  <2>3. \A t \in Thread : Idle(t) <=> at[t] = 0
    BY <2>1, BusyPoint DEF Placed
  <2>4. at \in [Thread -> Plainly]
    <3>1. \A t \in Thread : at[t] \notin OfBatch
      BY <2>1, <2>3 DEF Batching, Called, OfBatch
    <3>2. \A t \in Thread : at[t] \notin Persisting
      BY <2>1 DEF Placed, InMemory
    <3> QED
      BY <3>1, <3>2 DEF Plainly
  <2>5. CASE NoneAt(at, Excluding)
    BY <2>1, <2>2, <2>3, <2>4, <2>5, NoWaiting DEF Placed, Quiescent
  <2>6. ASSUME NEW c \in Thread, at[c] \in Excluding
        PROVE  FALSE
    <3>1. \A t, u \in Thread : at[t] \in Owned("gate") /\ at[u] \in Owned("gate") => t = u
      BY <2>1, Locks DEF Placed, Held
    <3> QED
      BY <2>1, <2>2, <2>4, <2>6, <3>1, NoWaitingCompaction DEF Placed
  <2> QED
    BY <2>5, <2>6 DEF NoneAt
<1> QED
  BY <1>1, Invariance, PTL
=============================================================================
