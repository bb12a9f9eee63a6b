----------------------------- MODULE OmenFiles -----------------------------
(***************************************************************************)
(* What a persistent store leaves on disk, and the records that            *)
(* VectorStore::open makes of it (src/omen/file.rs, src/omen/wal.rs,       *)
(* src/vector/store/persistence.rs).  Every operator is a pure function of *)
(* a disk image:                                                           *)
(*                                                                         *)
(*   vecs       x.vecs: one dense vector per slot, Zero where zero-filled  *)
(*   manifest   x.omen: the id map, tombstones, metadata and dense slots,  *)
(*              and the WAL epoch it covers                                *)
(*   maxTs, vecFile    the rest of it: the last timestamp it covers, and   *)
(*              whether there is an x.vecs                                 *)
(*   slim       x.records: the slim snapshot of a fast checkpoint, or None *)
(*   slimNewer  x.records has a modification time no older than x.omen     *)
(*   wal        x.wal: the entries with their timestamps, oldest first     *)
(*   metaEpoch  x.wal.meta: the truncation epoch                           *)
(*                                                                         *)
(* Records are dense only: a store with sparse, multi-vector or edge data  *)
(* never takes the fast checkpoint.                                        *)
(***************************************************************************)
EXTENDS Integers, Sequences, FiniteSets, SequencesExt

CONSTANTS Key,        \* the record names callers use
          Val,        \* values: a dense vector, or a metadata document
          Zero,       \* the all-zero vector
          None,       \* an absent record, vector, document, snapshot or number
          SlotLimit   \* bound: slots a store can reach

ASSUME SlotLimitAssumption == SlotLimit \in Nat

\* build_initial_records names a vector that no id claims `__slot_<n>': here n.
PhantomName == 1..SlotLimit

Name == Key \cup PhantomName

\* No caller uses the names that recovery gives.
ASSUME KeyAssumption == Key \cap PhantomName = {}

\* A record owns its vector, or views slot n of the shared .vecs mapping: here n.
View == 1..SlotLimit

ASSUME ValAssumption == (Val \cup {Zero}) \cap View = {}

INSTANCE Records WITH Id <- Name, Vec <- Val \cup {Zero} \cup View, Aux <- {},
                      Meta <- Val, NoVec <- None, NoAux <- None, NoMeta <- None,
                      NoRecord <- None

\* What a read of a stored vector yields: a view reads the file as it is now.
Seen(v, vecs) == IF v \notin View THEN v
                 ELSE IF v \in DOMAIN vecs THEN vecs[v] ELSE Zero

\* What both the manifest and the slim snapshot persist of the records, with the
\* WAL epoch they were taken in.
SnapshotOf(st, epoch) ==
  [ids |-> st.idToSlot, deleted |-> st.deleted,
   dense |-> {s \in LiveSlots(st) : st.slots[s].vec # None},
   meta |-> [s \in DOMAIN st.slots |->
               IF st.slots[s] = None THEN None ELSE st.slots[s].meta],
   epoch |-> epoch]

Snapshot == [ids : [Name -> Nat], deleted : SUBSET Slot, dense : SUBSET Slot,
             meta : Seq(Val \cup {None}), epoch : Nat \cup {None}]

\* The record of an upsert, or the name of a delete.
Entry == [op : {"upsert"}, id : Key, vec : Val \cup {Zero}, meta : Val]
           \cup [op : {"delete"}, id : Key, vec : {None}, meta : {None}]

Disk == [vecs : Seq(Val \cup {Zero}),
         manifest : Snapshot, maxTs : Int \cup {None}, vecFile : BOOLEAN,
         slim : Snapshot \cup {None}, slimNewer : BOOLEAN,
         wal : Seq([ts : Nat, entry : Entry]), metaEpoch : Nat]

ASSUME NoneAssumption ==
  /\ None \notin Val \cup {Zero} /\ None \notin Int
  /\ None \notin Record /\ None \notin Fields /\ None \notin Snapshot

\* OmenFile::create: an empty manifest, no .vecs, an empty WAL.
EmptyDisk ==
  [vecs |-> << >>,
   manifest |-> SnapshotOf(EmptyStore, None), maxTs |-> None, vecFile |-> FALSE,
   slim |-> None, slimNewer |-> FALSE, wal |-> << >>, metaEpoch |-> 0]

-----------------------------------------------------------------------------
\* The write-ahead log.

\* Wal::open reads the epoch from x.wal.meta, and the next timestamp from the
\* entries, only if the log is not empty.
WalTime(d) == IF d.wal = << >> THEN 0 ELSE Last(d.wal).ts + 1

WalEpoch(d) == IF d.wal = << >> THEN 0 ELSE d.metaEpoch

\* Wal::append and sync.
Logged(d, time, entry) == [d EXCEPT !.wal = Append(@, [ts |-> time, entry |-> entry])]

\* max_timestamp: None for an empty log.
MaxTimestamp(d, nextTs) == IF d.wal = << >> THEN None ELSE nextTs - 1

UsesSlim(d) == d.slim # None /\ d.slimNewer

\* (Mutation of Covered: a log covered by the slim snapshot is one of a newer epoch.)
CoveredWhenNewer(d, logged) == UsesSlim(d) /\ WalEpoch(d) > d.slim.epoch

\* The log entries that the chosen snapshot claims to contain.
Covered(d, logged) ==
  IF UsesSlim(d) THEN WalEpoch(d) <= d.slim.epoch
  ELSE /\ d.manifest.epoch # None /\ WalEpoch(d) = d.manifest.epoch
       /\ d.maxTs # None /\ logged.ts <= d.maxTs

\* (Mutation of Replayed: deletes are not replayed.)
ReplayedUpserts(st, e) ==
  IF e.op = "upsert"
  THEN Upserted(st, [id |-> e.id, vec |-> e.vec, aux |-> None, meta |-> e.meta])
  ELSE st

Replayed(st, e) ==
  IF e.op = "upsert"
  THEN Upserted(st, [id |-> e.id, vec |-> e.vec, aux |-> None, meta |-> e.meta])
  ELSE IF Deletable(st, e.id) THEN Removed(st, e.id) ELSE st

-----------------------------------------------------------------------------
\* Recovery: load_recovery_context, build_initial_records, the WAL replay.

\* OmenFile::open maps .vecs if the manifest declares it and it is not empty.
OpensVecs(d) == d.vecFile /\ d.vecs # << >>

\* (Mutation of Chosen: the slim snapshot is loaded but the manifest is used.)
ChosenManifest(d) == d.manifest

Chosen(d) == IF UsesSlim(d) THEN d.slim ELSE d.manifest

Mapped(snap) == {snap.ids[i] : i \in Name} \ {NoSlot}

\* The slots whose vector load_persisted_snapshot_borrowed takes from .vecs: the
\* tombstones are the manifest's even when the slim snapshot is used, and a
\* zero-filled slot counts only where a snapshot says it is dense.
Loaded(d) ==
  LET m     == d.manifest
      dense == (IF m.dense = {} THEN Mapped(m) \cup (IF UsesSlim(d) THEN Mapped(d.slim) ELSE {})
                                ELSE m.dense)
               \cup (IF UsesSlim(d) THEN d.slim.dense ELSE {})
  IN  IF ~d.vecFile THEN {}
      ELSE {s \in DOMAIN d.vecs : s \notin m.deleted /\ (d.vecs[s] # Zero \/ s \in dense)}

\* A log truncated since the manifest shows that vectors no id claims are stale.
DropsUnclaimed(d) == /\ ~UsesSlim(d)
                     /\ d.manifest.epoch # None
                     /\ WalEpoch(d) > d.manifest.epoch

Usable(d) == IF DropsUnclaimed(d) THEN Loaded(d) \cap Mapped(d.manifest) ELSE Loaded(d)

InitialRecords(d) ==
  LET snap == Chosen(d)
      n    == Max({0} \cup Mapped(snap) \cup (IF d.vecFile THEN DOMAIN d.vecs ELSE {}))
      VecAt(s)  == IF s \in Usable(d) THEN s ELSE None
      MetaAt(s) == IF s \in DOMAIN snap.meta THEN snap.meta[s] ELSE None
      Rec(i, s) == [id |-> i, vec |-> VecAt(s), aux |-> None, meta |-> MetaAt(s)]
      slots == [s \in 1..n |->
                  IF s \in snap.deleted THEN None
                  ELSE IF s \in Mapped(snap)
                  THEN Rec(CHOOSE i \in Name : snap.ids[i] = s, s)
                  ELSE IF VecAt(s) # None THEN Rec(s, s) ELSE None]
  IN  Restored(slots, snap.deleted, Cardinality({s \in 1..n : slots[s] # None}))

\* entries_after_checkpoint yields every entry, since no checkpoint marker is ever
\* appended and entries are whole; those the snapshot covers are skipped.
ReplayedUnlessCovered(d, st, logged) ==
  IF Covered(d, logged) THEN st ELSE Replayed(st, logged.entry)

Recovered(d) ==
  LET after[n \in 0..Len(d.wal)] ==
        IF n = 0 THEN InitialRecords(d)
        ELSE ReplayedUnlessCovered(d, after[n - 1], d.wal[n])
  IN  after[Len(d.wal)]

-----------------------------------------------------------------------------
\* The map callers see.

\* A document is a vector and metadata: None is none.
ASSUME DocumentAssumption == None \notin [vec : Val \cup {Zero}, meta : Val \cup {None}]

Document(st, vecs, k) ==
  LET r == RecordOf(st, k)
  IN  IF r = None THEN None ELSE [vec |-> Seen(r.vec, vecs), meta |-> r.meta]

MapOf(st, vecs) == [k \in Key |-> Document(st, vecs, k)]
=============================================================================
