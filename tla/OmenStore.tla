----------------------------- MODULE OmenStore -----------------------------
(***************************************************************************)
(* A persistent VectorStore over its files: the logged and the unlogged    *)
(* writes of crud.rs, compaction, the three kinds of checkpoint of         *)
(* persistence.rs and omen/file.rs step by step, I/O errors, and restarts  *)
(* of the process at any step.                                             *)
(*                                                                         *)
(* One caller at a time: a checkpoint holds write_lock, and a caller whose *)
(* write fills the log returns only after the checkpoint it triggers.      *)
(* A restart keeps what was written to the files, in the order it was      *)
(* written.  open() writes nothing, so a restart includes it.              *)
(***************************************************************************)
EXTENDS OmenFiles

CONSTANTS
  Calls,         \* which of the calls below are made
  WalThreshold,  \* wal_auto_checkpoint_entries
  CompactAbove,  \* auto_compact_threshold in percent; 100 disables
  StopAt,        \* the steps (values of step) at which the process may stop
  ErrorAt,       \* the operations that may fail: "stat", "grow", "publish", "stamp"
  MaxCalls, MaxRestarts, MaxErrors      \* bounds

ASSUME CallsAssumption ==
  Calls \subseteq {"set", "set_batch", "update", "delete", "delete_batch", "compact", "flush"}

ASSUME BoundsAssumption == MaxCalls \in Nat /\ MaxRestarts \in Nat /\ MaxErrors \in Nat

ASSUME SlotLimitCoversRuns == SlotLimit >= MaxCalls * (MaxRestarts + 1)

VARIABLES
  disk,       \* the files (see OmenFiles)
  store,      \* the RecordStore
  epoch,      \* wal.truncation_epoch
  nextTs,     \* wal.next_timestamp
  vecOpen,    \* vec_mmap.is_some()
  step,       \* where the call under way is; "idle" between calls
  job,        \* the checkpoint under way: its kind, dirty slots, slots to write
  survivors,  \* history: per key, what a restart may leave (see DurableMap)
  budget      \* how many calls, restarts and errors are left

vars == <<disk, store, epoch, nextTs, vecOpen, step, job, survivors, budget>>

Steps == {"idle", "due", "flush", "write", "truncate", "stamp"}

NoJob == [kind |-> "none", taken |-> {}, todo |-> {}]

TypeOK ==
  /\ disk \in Disk
  /\ store \in Store
  /\ epoch \in Nat /\ nextTs \in Nat
  /\ vecOpen \in BOOLEAN
  /\ step \in Steps
  /\ job \in [kind : {"none", "fast", "full", "incremental"}, taken : SUBSET Slot,
              todo : SUBSET Slot]
  /\ step # "write" => job.todo = {}
  /\ budget \in [calls : 0..MaxCalls, restarts : 0..MaxRestarts, errors : 0..MaxErrors]

Current == MapOf(store, disk.vecs)

Init == /\ disk = EmptyDisk
        /\ store = EmptyStore
        /\ epoch = 0
        /\ nextTs = 0
        /\ vecOpen = FALSE
        /\ step = "idle"
        /\ job = NoJob
        /\ survivors = [k \in Key |-> {None}]
        /\ budget = [calls |-> MaxCalls, restarts |-> MaxRestarts, errors |-> MaxErrors]

-----------------------------------------------------------------------------
\* Writes.

Called(name) == /\ name \in Calls
                /\ step = "idle"
                /\ budget.calls > 0
                /\ budget' = [budget EXCEPT !.calls = @ - 1]

\* A logged write: memory, then the log and its fsync, then, if the log is full,
\* a checkpoint before the call returns.
LoggedWrite(k, new, entry) ==
  LET full == Len(disk.wal) + 1 >= WalThreshold
      doc  == Document(new, disk.vecs, k)
  IN  /\ store' = new
      /\ disk' = Logged(disk, nextTs, entry)
      /\ nextTs' = nextTs + 1
      /\ step' = IF full THEN "due" ELSE "idle"
      /\ survivors' = [survivors EXCEPT ![k] = IF full THEN @ \cup {doc} ELSE {doc}]
      /\ UNCHANGED <<epoch, vecOpen, job>>

UnloggedWrite(k, new, next) ==
  /\ store' = new
  /\ survivors' = [survivors EXCEPT ![k] = @ \cup {Document(new, disk.vecs, k)}]
  /\ step' = next
  /\ UNCHANGED <<disk, epoch, nextTs, vecOpen, job>>

\* (Mutation of UpsertEntry: the entry leaves the metadata out.)
UpsertEntryBare(k, v, m) == [op |-> "upsert", id |-> k, vec |-> v, meta |-> None]

UpsertEntry(k, v, m) == [op |-> "upsert", id |-> k, vec |-> v, meta |-> m]

DeleteEntry(k) == [op |-> "delete", id |-> k, vec |-> None, meta |-> None]

\* The metadata document stands for the value it was written with, so that a
\* record with the vector of one write and the metadata of another is seen.
Set(k, v) == /\ Called("set")
             /\ LoggedWrite(k, WithVector(store, k, v, v), UpsertEntry(k, v, v))

\* A batch of one record: set_batch writes its records as set does, but never
\* logs them; it checks the log all the same.
SetBatch(k, v) ==
  /\ Called("set_batch")
  /\ UnloggedWrite(k, WithVector(store, k, v, v),
                   IF Len(disk.wal) >= WalThreshold THEN "due" ELSE "idle")

\* update without a vector logs the whole record, if it has a vector; if not, it does
\* not look at the log.
Update(k, m) ==
  LET v   == Seen(RecordOf(store, k).vec, disk.vecs)
      new == WithMeta(store, store.idToSlot[k], m)
  IN  /\ Called("update")
      /\ Found(store, k)
      /\ IF v # None THEN LoggedWrite(k, new, UpsertEntry(k, v, m))
                     ELSE UnloggedWrite(k, new, "idle")

Delete(k) == /\ Called("delete")
             /\ Deletable(store, k)
             /\ LoggedWrite(k, Removed(store, k), DeleteEntry(k))

\* A delete_batch that finds none of its names writes nothing, but checks the log.
DeleteNone == /\ Called("delete_batch")
              /\ Len(disk.wal) >= WalThreshold
              /\ step' = "due"
              /\ UNCHANGED <<disk, store, epoch, nextTs, vecOpen, job, survivors>>

Compact == /\ Called("compact")
           /\ store.deleted # {}
           /\ store' = Compacted(store)
           /\ UNCHANGED <<disk, epoch, nextTs, vecOpen, step, job, survivors>>

-----------------------------------------------------------------------------
\* Checkpoints.

Persisted == [k \in Key |-> {Current[k]}]

\* flush takes write_lock and compacts if too many slots are tombstones.
CompactionDue == /\ store.deleted # {}
                 /\ Cardinality(store.deleted) * 100 > CompactAbove * Len(store.slots)

Flush == /\ Called("flush")
         /\ store' = IF CompactionDue THEN Compacted(store) ELSE store
         /\ step' = "flush"
         /\ UNCHANGED <<disk, epoch, nextTs, vecOpen, job, survivors>>

Begin(kind, todo, vecs) ==
  /\ job' = [kind |-> kind, taken |-> store.dirty, todo |-> todo]
  /\ disk' = [disk EXCEPT !.vecs = vecs]
  /\ vecOpen' = (store.slots # << >>)
  /\ store' = DirtyTaken(store)
  /\ step' = "write"
  /\ UNCHANGED <<epoch, nextTs, survivors, budget>>

\* checkpoint_full: .vecs is created, or emptied, and zero-filled, and every slot
\* is to be written.
BeginFull ==
  /\ step \in {"due", "flush"} /\ ~vecOpen
  /\ Begin("full", DOMAIN store.slots,
           IF store.slots = << >> THEN disk.vecs ELSE [s \in DOMAIN store.slots |-> Zero])

\* (Mutation of Grown: the file is created anew.)
GrownFromNothing(vecs) == [s \in DOMAIN store.slots |-> Zero]

\* checkpoint_incremental and checkpoint_vectors_only: .vecs is grown, and the
\* dirty slots are to be written; an incremental one empties .vecs if no slot is left.
Grown(vecs) == [s \in 1..Max({Len(store.slots), Len(vecs)}) |->
                  IF s \in DOMAIN vecs THEN vecs[s] ELSE Zero]

BeginFast ==
  /\ step = "due" /\ vecOpen /\ store.dirty # {}
  /\ Begin("fast", store.dirty, Grown(disk.vecs))

BeginIncremental ==
  /\ step = "flush" /\ vecOpen
  /\ Begin("incremental", store.dirty,
           IF store.slots = << >> THEN << >> ELSE Grown(disk.vecs))

\* A checkpoint that writes into .vecs fails before its first write: the slots it
\* took are given back.
FailToStart(error) ==
  /\ \/ step = "due" /\ store.dirty # {}
     \/ step = "flush" /\ store.slots # << >>
  /\ vecOpen
  /\ error \in ErrorAt /\ budget.errors > 0
  /\ store' = DirtyRestored(DirtyTaken(store), store.dirty)
  /\ step' = "idle"
  /\ budget' = [budget EXCEPT !.errors = @ - 1]
  /\ UNCHANGED <<disk, epoch, nextTs, job, survivors>>

FailToStat == FailToStart("stat") /\ UNCHANGED vecOpen

\* The old mapping is dropped before the file is grown: an error leaves the store
\* without one.
FailToGrow == /\ FailToStart("grow")
              /\ Len(store.slots) > Len(disk.vecs)
              /\ vecOpen' = FALSE

\* checkpoint_wal_locked returns at once, and keeps the log, if no slot is dirty.
NothingDirty ==
  /\ step = "due" /\ vecOpen /\ store.dirty = {}
  /\ step' = "idle"
  /\ survivors' = Persisted
  /\ UNCHANGED <<disk, store, epoch, nextTs, vecOpen, job, budget>>

\* The vector to write is read through the record, which may be a view of the
\* very file that is being written.
VectorToWrite(s) == IF s \in LiveSlots(store) /\ store.slots[s].vec # None
                    THEN Seen(store.slots[s].vec, disk.vecs) ELSE Zero

WriteSlot ==
  /\ step = "write" /\ job.todo # {}
  /\ LET s == Min(job.todo)
     IN  /\ disk' = [disk EXCEPT !.vecs[s] = VectorToWrite(s)]
         /\ job' = [job EXCEPT !.todo = @ \ {s}]
  /\ UNCHANGED <<store, epoch, nextTs, vecOpen, step, survivors, budget>>

\* write_records_snapshot: the slim snapshot replaces the old one by a rename.
PublishSlim ==
  /\ step = "write" /\ job.todo = {} /\ job.kind = "fast"
  /\ disk' = [disk EXCEPT !.slim = SnapshotOf(store, epoch),
                          !.slimNewer = TRUE]
  /\ step' = "truncate"
  /\ UNCHANGED <<store, epoch, nextTs, vecOpen, job, survivors, budget>>

\* write_omen_manifest: so does the manifest, with the WAL cutoff it covers.
PublishManifest ==
  /\ step = "write" /\ job.todo = {} /\ job.kind # "fast"
  /\ disk' = [disk EXCEPT !.manifest = SnapshotOf(store, epoch),
                          !.maxTs = MaxTimestamp(disk, nextTs),
                          !.vecFile = vecOpen,
                          !.slimNewer = FALSE]
  /\ step' = "truncate"
  /\ UNCHANGED <<store, epoch, nextTs, vecOpen, job, survivors, budget>>

\* The new snapshot cannot be written or renamed: the old one stays, over the
\* vectors that were just written.
FailToPublish ==
  /\ step = "write" /\ job.todo = {}
  /\ "publish" \in ErrorAt /\ budget.errors > 0
  /\ store' = DirtyRestored(store, job.taken)
  /\ step' = "idle"
  /\ job' = NoJob
  /\ budget' = [budget EXCEPT !.errors = @ - 1]
  /\ UNCHANGED <<disk, epoch, nextTs, vecOpen, survivors>>

\* Wal::truncate: the log is emptied; then the new epoch is written and synced.
EmptyWal ==
  /\ step = "truncate"
  /\ disk' = [disk EXCEPT !.wal = << >>]
  /\ step' = "stamp"
  /\ UNCHANGED <<store, epoch, nextTs, vecOpen, job, survivors, budget>>

StampEpoch ==
  /\ step = "stamp"
  /\ epoch' = epoch + 1
  /\ disk' = [disk EXCEPT !.metaEpoch = epoch + 1]
  /\ survivors' = Persisted
  /\ step' = "idle"
  /\ job' = NoJob
  /\ UNCHANGED <<store, nextTs, vecOpen, budget>>

\* write_meta fails, possibly only in its fsync: the epoch in memory is rolled
\* back, the dirty slots are given back, and the call returns the error.
FailToStamp ==
  /\ step = "stamp"
  /\ "stamp" \in ErrorAt /\ budget.errors > 0
  /\ \E e \in {disk.metaEpoch, epoch + 1} : disk' = [disk EXCEPT !.metaEpoch = e]
  /\ store' = DirtyRestored(store, job.taken)
  /\ step' = "idle"
  /\ job' = NoJob
  /\ budget' = [budget EXCEPT !.errors = @ - 1]
  /\ UNCHANGED <<epoch, nextTs, vecOpen, survivors>>

-----------------------------------------------------------------------------
\* The process dies, or the store is dropped (there is no Drop that would flush),
\* and the store is opened again.
Restart ==
  /\ step \in StopAt /\ budget.restarts > 0
  /\ store' = Recovered(disk)
  /\ epoch' = WalEpoch(disk)
  /\ nextTs' = WalTime(disk)
  /\ vecOpen' = OpensVecs(disk)
  /\ step' = "idle"
  /\ job' = NoJob
  /\ survivors' = [k \in Key |-> {Document(Recovered(disk), disk.vecs, k)}]
  /\ budget' = [budget EXCEPT !.restarts = @ - 1]
  /\ UNCHANGED disk

Next == \/ \E k \in Key, v \in Val : Set(k, v) \/ SetBatch(k, v) \/ Update(k, v)
        \/ \E k \in Key : Delete(k)
        \/ DeleteNone
        \/ Compact
        \/ Flush
        \/ BeginFull \/ BeginFast \/ BeginIncremental \/ NothingDirty
        \/ FailToStat \/ FailToGrow
        \/ WriteSlot \/ PublishSlim \/ PublishManifest \/ FailToPublish
        \/ EmptyWal \/ StampEpoch \/ FailToStamp
        \/ Restart

Spec == Init /\ [][Next]_vars

-----------------------------------------------------------------------------
\* Properties.

\* A store recovered from its files, or worked on since, has a consistent id map,
\* tombstones and live count, whichever snapshot it was recovered from.
RecoveredConsistent == Consistent(store)

\* No record appears under a name that no caller gave it: a stale vector in .vecs
\* is never taken for a record.
NoPhantoms == \A s \in LiveSlots(store) : store.slots[s].id \in Key

\* At every instant, also halfway through a checkpoint, the files hold for every
\* key a document that a restart may leave: the last one acknowledged, or one
\* written since.
Recoverable == \A k \in Key : Document(Recovered(disk), disk.vecs, k) \in survivors[k]

\* Checkpoints, compactions and the steps of both change nothing a reader sees.
ReadersUndisturbed ==
  [][ step # "idle" \/ Compact \/ Flush => Restart \/ Current' = Current ]_vars

\* A checkpoint that succeeds has everything in the files, also when it follows a
\* failed one or a compaction: opened at that moment, they give what readers see.
CheckpointsComplete ==
  [][ StampEpoch => MapOf(Recovered(disk'), disk'.vecs) = Current ]_vars

Durable == INSTANCE DurableMap
             WITH map <- Current, Absent <- None,
                  restarts <- MaxRestarts - budget.restarts,
                  Content <- [vec : Val, meta : Val]

\* Every write, checkpoint, error and restart is one the durable map allows: an
\* acknowledged write survives every restart, and no restart invents or mixes
\* documents.
ImplementsDurableMap == Durable!Spec
=============================================================================
