# A TLA+ model of omendb

omendb-rs is an embedded vector database. This directory holds TLA+ modules that model it,
the TLC configurations that check them on small instances, and TLAPS proofs about the record
store, the persistent store over its files, the graph, the search engine, the threads of a store and
the handles of the bindings. Paths are relative to the repository root; the crate is in `src/`, so
`src/omen/wal.rs` is the write-ahead log, and the bindings are in `python/`, `node/` and
`omendb-ffi/`. `PROJECT.json` maps every definition to the lines it stands for and lists the
hazards, runs, mutants and theorems.

## 1. Inventory

### Components, their state and their operations

| component | state | operations | what makes it correct | module |
|---|---|---|---|---|
| **Record store** `vector/store/record_store.rs` | slots, tombstone bitmap, id map, live count, dirty bitmap, shared mappings | `upsert`, `set`, `set_without_vector`, `delete`, `get*`, `update_metadata/sparse/multi`, `take/restore_dirty_slots`, `compact`, `restore_snapshot_records` | it is a map from ids to records; id map, tombstones, slots and count agree; a slot keeps its id; dirty slots cover everything not yet in `.vecs` | Records, RecordStore |
| **Persistence** `vector/store/persistence.rs`, `omen/file.rs` | `.omen` manifest, `.vecs`, `.records` slim snapshot, `.wal.meta`; epoch and clock, the `.vecs` mapping | `create`, `open` (recovery and replay), `flush`, full / incremental / vectors-only checkpoint | acknowledged writes survive; recovery invents nothing; a checkpoint changes nothing readers see | OmenFiles, OmenStore |
| **Write-ahead log** `omen/wal.rs` | the bytes of `.wal`, position, clock, count | `append`, `sync`, `entries`, `truncate`, the scan of `open` | what was acknowledged is read back whole and in order; a cutoff separates old from new | LogFormat |
| **CRUD** `vector/store/crud.rs` | none of its own | `set`, `set_batch`, `update`, `delete`, `delete_batch`, `get` | memory, log and derived indexes are changed together | all stores |
| **Lifecycle** `vector/store/lifecycle.rs` | auto-compact threshold | `compact`, `merge_from*`, `rebuild_index` | renumbering is invisible; every index follows it | RecordStore, OmenStore, IndexedStore |
| **Edge store** `vector/store/edge_store.rs`, `edge_ops.rs` | outgoing and incoming adjacency, cached count | `add_edge(s)`, `remove_edge`, `remove_all_for`, `gc_orphaned`, queries, traversals, paths | both adjacencies mirror one set of edges; traversal is reachability; replay restores the edges | EdgeStore, GraphStore |
| **HNSW graph** `vector/hnsw/` | rows of neighbours per level, entry point | insert, parallel build, search, filtered search | rows are sound, nodes reachable, the entry point is on top | Hnsw |
| **Sparse, multi-vector, text indexes** `sparse_ops.rs`, `multivec_ops.rs`, `muvera/storage.rs`, `text_search.rs` | postings / token rows / documents, by slot or id | insert, remove, remap, compact, recover | each follows the record's slot through update, delete and compaction | TokenStore, IndexedStore |
| **Metadata index and filters** `vector/metadata.rs`, `filter.rs` | per field a typed inverted index | `index_json`, `remove`, `evaluate_bitmap`, `matches` | the three evaluators agree; the index has what the records have | MetadataIndex, Queries |
| **Searches** `mod.rs`, `search.rs`, `planner.rs` | none | dense, filtered, sparse, hybrid, text, multi-vector | answers are live records that match | Queries |
| **Locks** `vector/store/mod.rs`, `thread_safe.rs` | `write_lock`, a lock per index and per field of the record store | shared by writers, exclusive for flush and compact | no deadlock; atomicity of the calls | ConcurrentStore |
| **Bindings** `python/src`, `node/src`, `omendb-ffi/src` | database objects, cached collections, iterators, file locks | open, create, close, drop, flush, collections, merge, iterate | one live store per path; logged writes survive | Handles |
| MUVERA encoding, quantization, distances, facades, tools | | | | not modelled |

### How they interact

A writer takes `write_lock` shared, changes the record store, inserts the vector in the
engine, updates the derived indexes, and appends the whole record to the log, which it syncs.
If the log has reached `wal_auto_checkpoint_entries` it gives up the lock and runs
`checkpoint_wal`, which takes the lock exclusively: with no `.vecs`, or with edges, sparse or
token payloads, it makes a full checkpoint, otherwise it writes the dirty slots into `.vecs`
**in place**, publishes a slim snapshot by rename, and truncates the log. `flush` compacts when
too many slots are tombstones, then writes `.vecs` and publishes a new manifest. `open`
chooses between the manifest and the slim snapshot by modification time, loads vectors from a
shared mapping of `.vecs`, names vectors no id claims `__slot_N`, replays the log entries
which the epoch and timestamp cutoff say are not in the snapshot, and rebuilds the derived
indexes from the records. The bindings wrap a store in an object with a lock; a store holds
an advisory lock on its `.omen` file, which a checkpoint gives up while it renames.

### What is hard here

* an interruption at any point of this multi-file protocol, and a second one after it;
* I/O errors inside it, after which the process goes on; a log torn at any byte;
* one snapshot overriding part of another, with different ages of ids, tombstones, vectors;
* records that are *views* of the file a checkpoint overwrites;
* slot renumbering under indexes, rows and files that name records by slot;
* indexes that number their rows by insertion, beside a store that numbers by slot;
* writers interleaving at the inner locks, lock orders, and memory order against log order;
* parallel workers that read rows of a graph while others prune them;
* processes that race for a path between the check, the open, the lock and the rename.

`PROJECT.json` "hazards" lists these at their lines, with the property that covers each or
the reason why none does.

## 2. Modules

```
Records ------------- what each RecordStore method makes of a store (pure operators)
  RecordStore ------- the state machine; refines RecordMap
    RecordStoreProofs   lemmas about the operators of Records; invariants and refinement
    MCRecordStore, RecordStore.cfg
  OmenFiles --------- the disk image, and what open() makes of it (INSTANCE Records)
    OmenStore ------- the persistent store over those files; refines DurableMap
      OmenStoreProofs     types, recovery and the log (INSTANCE RecordStoreProofs); consistency,
                          phantoms, what readers see, what a checkpoint saves; the refinement
      MCOmenStore, OneCrash.cfg OrderlyCloses.cfg OneSession.cfg
EdgeStore ----------- what each method on the two adjacencies makes of them, and the queries
  GraphStore -------- the graph calls, cascades, log, checkpoints, restarts; refines EdgeMap
    GraphStoreProofs   invariants and refinement of the graph
    MCGraphStore, Graph.cfg
LogFormat ----------- the log word by word: MCLogFormat, LogFormat.cfg
ConcurrentStore ----- threads between lock operations: Threads.cfg, StuckSets.cfg
    ConcurrentStorePoints   the points of the calls, the invariant, and where each step leads
      ConcurrentStoreProofs   what each step keeps, and what follows from the invariant
TokenStore, MetadataIndex   the multi-vector buffer, the typed field indexes
  IndexedStore ------ a store with all its derived indexes (INSTANCE Records, MetadataIndex)
    Queries --------- filters and every search over it
      MCQueries, Indexes.cfg WrongHit.cfg
Hnsw ---------------- the graph, its parallel build and its searches: MCHnsw, Hnsw.cfg
  HnswProofs          rows, entry point, exact searches
Handles ------------- processes, objects, collections, file locks: MCHandles, Handles.cfg
  HandlesProofs       owners, acknowledged writes, iterators
Recursion ----------- lemmas for recursive functions, used by the proofs about logs and searches
```

The stores above OmenStore (GraphStore, IndexedStore, Handles) reduce the files to what decides
about *their* data, and say so in their heading: OmenStore carries the protocol of the files
once, step by step, and each other module adds one dimension to it.

**Records.** A store is a record of slots, deleted, idToSlot, liveCount and dirty, and every
method of `record_store.rs` is a function of it: `Upserted` (`upsert`), `WithVector` (`set`),
`WithoutVector` (`set_without_vector`), `Removed` (`delete`), `WithMeta` and `WithAux` (the
in-place updates), `Compacted` (`compact`), `Restored` (`restore_snapshot_records`). Slot s is
the code's index s - 1, so that 0 is no slot. Sparse and multi-vector payloads travel together
everywhere and are the one field `aux`. Dimensions are not modelled: all vectors fit.

**RecordStore.** One action per method, under the lock discipline of its callers: mutators do
not run while a checkpoint is under way. `BeginCheckpoint`, `FinishCheckpoint` and
`FailCheckpoint` are the checkpoint's `take_dirty_slots`, its in-place writes, and its error path
with `restore_dirty_slots`; a failed one leaves any ascending prefix of the dirty slots written.
`Reopen` is a reopening after a complete checkpoint. `UpdateMetadata` and `UpdateAux` take any
slot that holds a record, since callers looked theirs up earlier. **RecordMap** is the promise:
a map from ids to the fields of a record, with five operations. A step that is *some* operation of
the map would let a compaction pass for a delete, so `ImplementsMap` also binds each call to its own
operation (`EachCall`): `Set` to the map's `Set` of that id, an in-place update to the record that
lives in the slot, and `Compact`, the steps of a checkpoint and `Reopen` to no change at all.

**OmenFiles** describes the files as one record and defines recovery as `Recovered(disk)`:
the choice of snapshot, the vectors loaded from `.vecs` (with the manifest's tombstones, as the
code does), the `__slot_N` names, and the entries replayed. A recovered vector is a *view*: it
holds a slot number of `.vecs`, and `Seen` reads it from the file as it is now, as the shared
mapping does.

**OmenStore** has the calls (`Set`, `SetBatch`, `Update`, `Delete`, `DeleteNone`, `Compact`,
`Flush`) and the checkpoint as steps: `BeginFull/BeginFast/BeginIncremental` (take the dirty
slots, create, grow or empty `.vecs`), `WriteSlot` once per slot, `PublishSlim` or
`PublishManifest`, `EmptyWal`, `StampEpoch`, with the errors `FailToStat`, `FailToGrow`,
`FailToPublish` and `FailToStamp`, after which the process goes on, and `Restart` at any step in
`StopAt`. `step` says where the call under way is. `NothingDirty` is the early return of
`checkpoint_wal_locked`. **DurableMap** is the promise: next to the map, `survivors[k]` holds
the values a restart may leave under k: one value once a logged write or a checkpoint has
returned, more while a write is under way or when it was not logged. A restart picks one and
settles on it; `restarts` counts them, so that a restart which loses a write cannot pass for a
write of the old value.

**LogFormat.** The file is a sequence of words, a word being one field (a length, a timestamp, a
checksum, a string, a float). `EntryWords` is the layout of an entry; `ReadFrom` and `Parsed*`
are `WalEntryIterator` and `parse_*`, `NextTimestamp` the scan of `open`; `AppendEntry` writes at
the handle's position, which after a failed append is where that one stopped; `CutShort` is an
append that stops at any word, `Publish` a manifest with its cutoff, `Truncate`, `Reopen`.

**EdgeStore** has an adjacency as a set of records with an end, its peer, type and data; lists
are sets, since order only selects among equally short paths. **GraphStore** adds the calls of
`edge_ops.rs`, the cascades of `delete` and `delete_batch` with their log entries in order, the
collection of orphans by `compact`, checkpoints, the replay with its two passes over inserts and
deletes (`Replay`, `MergedEdges`), and a process that dies within a delete or a batch. **EdgeMap**
is the promise: a set of edges, `lingering`, the edges a compaction collected without logging it
and which a restart may bring back, and `restarts`, which counts them so that no restart passes for a
call. `EachCall` binds every call to its operation on that set: `AddEdge(e)` to `Put(e)`, a delete to
`DropNodes`, `Compact` to `Collect`, a restart between calls to `Restart`, which loses nothing, and one
inside a delete or a batch to `RestartInDrop` or `RestartInPut`, which speak of the edges of that call
only.

**ConcurrentStore.** A call is a list of instructions: `claim` and `read` for the locks, `do` for
an access, each thread with its registers. parking_lot's `RwLock` is modelled by what its
documentation says of fairness: a writer that waits keeps new readers out, also one that holds
the lock already. A write lock is taken in two steps for that reason. The locks are those some
call holds while it waits for another.

**TokenStore, MetadataIndex, IndexedStore.** `db` is the store, the engine (the vectors in
node order), the token buffer with its offsets, postings, field indexes, texts pending and
committed, and the last image and log. Calls call each other (`set_with_text` is `set` and more),
so each is a function of db (`AfterSet`, `AfterBatch`, `AfterDelete`, `AfterStoreMulti`, ...) and
each action one call, with the checkpoint at its end that a full log causes. `Opened` is
recovery: image, replay, the engine of the image patched or rebuilt, tokens, postings, fields.

**Queries.** Filters: `FromJson` is the parser, `Matches`, `EvaluateBitmap` and `IndexMatches` the
three evaluators. A search is the *set of answers it may give* when the engine returns any nodes:
what is shown about searches then holds whatever the graph is like.

**Hnsw.** Vectors of which only the distances matter (a constant); `Insert` is one insertion, `Begin/Descend/Expand/Link/LinkBack/
NextLevel/Finish` the steps of the parallel build's workers, one row access each.
`Search` and `SearchWithFilter` are the beam searches as functions of the graph. A loop of the code is a
recursive function with a bound on its rounds: `Greedy` makes as many passes as there are nodes and
levels, a beam as many expansions as there are nodes. That the loops have ended by then is proved
(`GreedyEnds`, `BeamEnds`, `FilteredEnds`).

**Handles.** One process per binding (`python`, `node`, `ffi`), its objects, the call under way
and an iterator. A call goes on step by step where another process, or a stop, may come between:

| call | steps |
|---|---|
| opening | `Opening` (is there an `x.omen`?), `LockOpened`, `ReadOpened`, which reads the inode that was opened, and the log at the path as it is now |
| creating | `Opening`, `CreateFile` (opens with truncation), `LockCreated`, `FillCreated` (header, manifest, footer) |
| checkpoint | `BeginFlush` (in-place writes, the new manifest beside the old, the lock given up), `Publish` (rename), `Relock`, `Truncate` (the log emptied and its epoch stamped) |
| deleting a collection | `DeleteCollection` (`x.omen`), `FinishDelete` (`x.wal`) |

Locks belong to inodes (`gen`), as flock's do, and a path may have another inode by the time of the
next step. `marred` records the paths on which one of the windows named in `OneOwner` was hit, or in
the middle of whose file a process died (`HalfDone`: created and not filled, vectors written in place
and no manifest published, the log emptied and its epoch not stamped, `x.omen` removed and `x.wal` not);
nothing is claimed of those here, what they leave is OmenStore's and LogFormat's subject, and the run
does not go on after one. A stop between a checkpoint's rename and its new lock is claimed.

### Abstractions

* OmenStore, GraphStore, IndexedStore: one caller at a time. A logged write is a single step: a
  stop after memory and before the log leaves the same files as a stop before the call, and a
  stop after the log the same as one after the call. Interleaved callers are ConcurrentStore's.
* `update` with a vector is a `set` with the record's metadata, and OmenStore models it as `Set`.
  Its batches have one record; `delete_batch` appears there as its remaining case, nothing found.
* A restart keeps what was written, in the order it was written (a process stop; the code syncs
  each file before the step that depends on it). Only LogFormat tears appends.
* A published file replaces the old one in one step, because it is renamed over it.
* `slimNewer` stands for the comparison of modification times; a tie cannot be expressed.
* OmenStore's records are dense only, so the fast checkpoint applies; the quantized copies and
  the legacy file formats are left out.
* `None` for the vector of a record: `Document` combines `get` and `get_metadata_by_id`, so a
  record that lost its vector differs from one that is absent.
* IndexedStore: embeddings are integers, the encodings of a document and of a query two different
  functions of them. JSON values are a type, a number and a form, so that 1 and 1.0 are one f64
  and two values. The text engine is external: a pending and a committed map from ids to texts.
* Hnsw: equal distances are ordered by the node's number; random levels are chosen by the environment.

## 3. Runs

Every run is exhaustive for its constants. Symmetry is used where no property is a liveness
property. Deadlock checking is off where the budget of calls ends; the stores never refuse to be
called otherwise, and ConcurrentStore's `CallsEnd` says more than the absence of deadlock.

| run | question | bounds | distinct states |
|---|---|---|---|
| RecordStore | does the record store implement a map, with exact indexes and dirty set? | 2 ids, 2 vectors, 3 slots | 225 k |
| OneCrash | does every acknowledged write survive one stop, and the store go on correctly? | 2 keys, 2 values, 5 calls, 1 restart | 261 k |
| OrderlyCloses | is a reopened store the one that was closed, twice? | 5 calls, 2 restarts | 163 k |
| OneSession | is a checkpoint complete also after an error or a compaction? | 6 calls, 1 error | 902 k |
| Graph | is the graph a durable set of edges, mirrored, and do the queries agree with it? | 3 ids, 1 type, 2 data, 2 edges added, 2 other calls, 1 restart | 111 k |
| Threads | do overlapping calls leave store, indexes and log in agreement, and end? | 2 threads, 2 ids, 2 calls, with and without storage | 254 k |
| Indexes | do the derived indexes follow the records, are filters exact, searches sound? | 2 ids, 2 documents, 2 token sequences, 3 calls, 2 restarts | 115 k |
| Hnsw | are rows, entry point, reachability and searches right? | 5 points of the plane, 2 levels, m = 1, 4 nodes, 2 workers | 268 k |
| LogFormat | what is read back after a torn entry and reopens? | 5 kinds of entry, 3 appends, 1 fault, 2 reopens | 118 k |
| Handles | one store per path, across processes; do writes survive? | 3 processes, a database and a collection, 2 ids, 3 opens, 2 writes, 1 flush, 1 deletion, 1 crash | 997 k |
| StuckSets, WrongHit | the first two findings below | 2 sets; 3 sets and a restart | until the counterexample |

*Why the bounds suffice.* **RecordStore:** three slots hold an update (a tombstone and its
successor) beside a record of another id, so a compaction renumbers a live slot. **OmenStore:** with
two keys and a log threshold of two, five calls reach a full checkpoint (which creates `.vecs`), a
fast one on top of it, an incremental one, and writes between them; the restart may fall before,
inside and after each, so that every branch of the choice of snapshot and of log entries is met. Two
restarts let the second session build on a recovered store whose clock and epoch were restored.
`SlotLimit` bounds the names of phantoms and views, and is at least MaxCalls * (MaxRestarts + 1),
which no store outgrows. Metadata has one value in the RecordStore run (NoMeta = m1) to keep it
small: `aux` is the payload that varies, written in place the same way, and the theorems cover all
values. **Graph:** a self-loop, parallel data of one edge, a path of two edges over three nodes and a
cycle are all reached, from an empty store and from one whose records exist; a log limit of three
lets entries lie on both sides of a checkpoint. **Threads:** every pair of calls overlaps at every
lock operation; a limit of one makes each write try to checkpoint. Three threads would add only
chains of waiting: the waits-for cycles here have length two, since each call holds at most two of
the modelled locks when it waits. **Indexes:** an update, a deletion and a compaction, or a merge
between them, with a checkpoint (limit two) and a restart at any place; one document has a number and
one a string in the one field, which is what its type is about; the queries have one of each operator.
**Hnsw:** m = 1 makes rows of two and one, so the third node already prunes; four points on an axis
allow a clustered triple and an outlier, the fifth is off the axis, with which pruning follows the
geometry of the plane; at most two nodes have one vector (`FewRepeated`); two workers build two nodes after the warm start. **LogFormat:** an
entry before the torn one, the torn one, one after it. **Handles:** the third opening is the one
that would be the second owner after a checkpoint and a collection were opened, or an opener of the
empty file while two others open and create.

*What the passing runs deliberately exclude* is named in each configuration or property, and is
what the findings below are about. OneCrash has no stop between emptying the log and stamping its
epoch, no unlogged batches and no compaction; OrderlyCloses no compaction; OneSession no reopening and
no fast checkpoint, which may follow a full one that failed. Graph has `StaleManifest = FALSE`
(finding StaleEdges). Indexes makes a `store_batch` only while the log is not full: the checkpoint
of its inner `set_batch` would wait for the token storage that the call itself holds. `CallsEnd` is about stores in memory and excepts calls that meet a `set_batch`.
`IndexesAgree` and `LogAgrees` except histories in which two calls wrote one id at a time, where the
code gives no order. `TokensAgree` excepts a store some call has put out of step (`strayed`),
`TextAgrees` the ids whose text was committed for a refused set or whose removal was lost (`orphans`),
`FieldsAgree` merged records (`merged`): each flag is set exactly by the calls that do this in the
code, and the deviations are in "Also seen". `FilterExact` compares numbers by their f64 and claims
completeness for fields of one type. `OneOwner` names its exceptions. `AllReachable` is about
vectors along a line (`AlongLine`): off a line the code does cut nodes off ("Also seen").

*The properties.*

* RecordStore: `IndexInv` (id map, tombstones, slots, count agree), `DirtyCoversDelta` (a slot
  neither dirty nor in a checkpoint's hands is in `.vecs`), `SlotIdentity` (between compactions a
  slot never changes its id or revives), `ImplementsMap` (call by call: no compaction, checkpoint or
  reopen drops, swaps or alters a record).
* OmenStore: `RecoveredConsistent`, `Recoverable` (at every instant the files hold, for each key, a
  document a restart may leave), `NoPhantoms`, `ReadersUndisturbed`, `CheckpointsComplete` (opened at
  the moment it succeeds, a checkpoint yields what readers see), `ImplementsDurableMap`.
* LogFormat: `KeepsAcknowledged` (entries before a tear are read in order, later ones whole or not at
  all), `CutoffSeparates`.
* GraphStore: `Mirrored`, `QueriesAgree` (every traversal against the walks of the edge set),
  `NoHalfDelete` (a stop within a cascade never leaves the record gone and its edges there),
  `ImplementsEdgeMap` (call by call: added edges survive every checkpoint and restart, removed ones
  stay away).
* ConcurrentStore: `Coherent`, `IndexesAgree`, `LogAgrees`, `CallsEnd` (liveness).
* IndexedStore, Queries: `FieldsAgree`, `SparseAgrees`, `TokensAgree`, `TextAgrees`, `FilterExact`,
  `AnswersSound`, `AnswersFound`.
* Hnsw: `EntryHighest`, `AllReachable`, `SearchExact`.
* Handles: `OneOwner`, `AcknowledgedSurvive`, `IterationComplete`.

Each has a mutant: a plausible bug in a mapped definition, kept beside it and marked
"(Mutation of ...)", that the property catches.

*Fairness.* ConcurrentStore assumes weak fairness of each thread's step, so that a call which can
go on does: the operating system schedules every runnable thread, and parking_lot hands a lock over
to whoever waits for it (its eventual fairness). Starting a call is not fair, nobody has to call.
Weak fairness suffices because a writer that waits has claimed the lock: nobody enters before it, and
its next step stays enabled once the readers left. The other modules assume none and claim no
liveness: their calls end because their thread runs, and the properties say what must not happen.

### Findings

| run | what the code does | what the repository says |
|---|---|---|
| StuckSets | `set` reads the sparse and multi payloads for its log entry inside `with_vector_by_slot`, which holds slots shared, and takes slots shared again; another set that waits for slots exclusively in between blocks both for ever (`src/vector/store/crud.rs:87`) | `src/vector/store/thread_safe.rs:21` |
| WrongHit | `insert_with_slot` ignores the slot and numbers nodes by insertion (`src/vector/hnsw/index/mod.rs:185`); after an update and a reopen, or beside a record without a vector, node n holds the vector of another slot than n, and searches resolve n as a slot | `src/vector/store/tests/crud.rs:247`, `record_store.rs:975` |

Eleven more have no run of their own. The first ten are reproduced from `MCOmenStore` (keys a, b;
values v1, v2) and the last from `MCGraphStore` with the constants given; "limit" is `WalThreshold`,
"share" `CompactAbove`, and calls, restarts, errors and slots are the bounds. HiddenSlot, StrayVector,
LostView and SecondStop were met while proving: each is a step at which an inductive invariant failed,
and a hypothesis of a theorem in section 4.

| name | what the code does | what the repository says | to reproduce |
|---|---|---|---|
| LostWrite | `truncate` empties the log, `write_meta` fails, the epoch is rolled back and the store goes on; later acknowledged writes carry the epoch and timestamps the snapshot covers, and the next `open` skips them. A stop between the two steps has the same effect | `CHANGELOG.md:110` | Calls set, update, flush; limit 2, share 100; StopAt idle, ErrorAt stamp; 5 calls, 1 restart, 1 error, SlotLimit 10; `Recoverable` |
| PhantomRecord | a flush that compacts never shortens `.vecs` while a record is left, and a reopen names the stale vectors `__slot_N` | comment `src/omen/file.rs:1617` | set, delete, flush; 9, 25; StopAt idle; 6 calls, 1 restart, SlotLimit 12; `NoPhantoms` |
| StaleView | after a reopen a compaction moves records that view `.vecs`, and the flush overwrites the slots they view | `src/vector/store/lifecycle.rs:284,293` | set, flush; 9, 25; StopAt idle; 6 calls, 1 restart, SlotLimit 12; `ReadersUndisturbed` |
| LostVector | recovery from a slim snapshot loads vectors by the *manifest's* tombstones; after a compaction these are other slots, and records come back without a vector | `src/omen/file.rs:1497` | set, delete, update, compact; 2, 100; no stops; 6 calls, SlotLimit 6; `CheckpointsComplete` |
| LostFile | the first full checkpoint creates `.vecs` and fails to publish its manifest; the next automatic checkpoint finds a mapped `.vecs`, takes the fast path and truncates the log; a reopened store ignores `.vecs`, which its manifest does not declare, and every vector is gone | `src/vector/store/persistence.rs:566`, `src/omen/file.rs:1497` | set; 2, 100; no stops, ErrorAt publish; 4 calls, 1 error, SlotLimit 4; `CheckpointsComplete` |
| TornBatch | an unlogged update followed by a flush overwrites or zeroes `.vecs` in place; interrupted, the old manifest maps the record to a vector neither document had | `README.md:103` | set_batch, flush; 9, 100; StopAt write; 5 calls, 1 restart, SlotLimit 10; `Recoverable` |
| HiddenSlot | after a compaction that left no record, `checkpoint_incremental` empties `.vecs` before the new manifest is renamed; a stop between the two, or a failed rename, leaves a manifest whose tombstones and ids are beyond `.vecs`, and the recovered store has tombstones without slots | comment `src/omen/file.rs:1617` | set, delete, flush; 9, 60; StopAt write; 7 calls, 1 restart, SlotLimit 14; `RecoveredConsistent` |
| StrayVector | a checkpoint grows `.vecs` and writes the new slots before its snapshot is published; stopped there, or restarted after the publication failed, the new vectors belong to no snapshot, and the next `open` that finds the log empty names them `__slot_N` | comment `src/omen/file.rs:1617` | set, set_batch, flush; 9, 100; StopAt write; 4 calls, 1 restart, SlotLimit 15; `NoPhantoms` |
| LostView | a growth of `.vecs` that fails after a restart has dropped the mapping (`src/omen/file.rs:1525`); the next flush takes the store for one without `.vecs`, and its full checkpoint truncates and zero-fills the file that the recovered records still view | `src/omen/file.rs:1454` | set, flush; 9, 100; StopAt idle, ErrorAt grow; 5 calls, 1 restart, 1 error, SlotLimit 10; `ReadersUndisturbed` |
| SecondStop | stopped between publishing the slim snapshot and emptying the log, the store starts again in an epoch that the slim snapshot claims: the writes it then logs are skipped by the recovery after the next stop, when a second checkpoint, stopped too, may have overwritten the slots of the old documents | `CHANGELOG.md:110` | set, delete, flush; 2, 100; StopAt idle, truncate; 4 calls, 2 restarts, SlotLimit 12; `Recoverable` |
| StaleEdges | a fast checkpoint does not touch the manifest's edges: once the last edge is removed (`edge_count` is 0) a checkpoint of the log may be fast, cuts the entry of the removal off, and the next `open` brings the edge back | `src/vector/store/persistence.rs:597`, `CHANGELOG.md:112` | Graph.cfg with `StaleManifest = TRUE`; `ImplementsEdgeMap` |

*Also seen, and not findings.*

* Log: an entry appended after a torn header is misaligned, and lost at the second reopen; a torn data
  tail makes `open` fail (`wal.rs:552`); a failed append uses up a timestamp. The comment in
  `Wal::truncate` says that `next_timestamp` resets to 0, and the code does not reset it (recovery
  relies on that). An upsert with an empty sparse vector or an empty token list loses its metadata on
  replay (`wal.rs:753`).
* Store: `accumulated_dirty` is not restored on reopen, contrary to the comment `file.rs:1585`;
  `set_batch` checks the dimensions of its inserts after its updates are applied, and with no engine
  its updates reach none; a metadata update of a record without dense vector is not logged;
  `merge_from` is not logged and does not index metadata; a generated id can race with a caller's.
* Reads: `get` reads id map, tombstones and slots under different locks and may answer None for a record
  that exists throughout (`record_store.rs:368`); two writers of one id may log in the other order than
  they update memory (`crud.rs:85`).
* Indexes: `set_with_text` commits the text before `set` may refuse; a delete's removal of a text is not
  committed; hybrid search looks ids up through tombstoned slots (`record_store.rs:420`); `In` on a field
  of mixed types misses matches (`filter.rs:208`), bitmap equality does not tell 1 from 1.0, and the
  type of such a field depends on history; an update with a vector on a multi-vector store, or a plain
  set, puts MultiVecStorage out of step (`multivec_ops.rs:647` then refuses); `set_multi_batch`, which
  only tests call, holds the token storage while a checkpoint inside `set_batch` takes it; a stale sparse
  payload may return on another record after compaction, fast checkpoint and reopen.
* HNSW: a new node may be left out of reach though its search saw the whole graph. The heuristic may
  choose only its nearest neighbour (`insert.rs:92`), and that one's full row, pruned by the same
  heuristic, drops the new node again (`insert.rs:118`): with m = 1 and the vectors (0, 0), (1, -3),
  (1, 0), (5, 0) inserted in this order leave one out of reach (Hnsw.cfg without `AlongLine`). It takes
  vectors in more directions from one hub than its row has room for; along a line there are two.
* Graph: more than 2m equal vectors disconnect HNSW nodes; parallel workers may overwrite each other's
  reverse links (accepted by `hnsw/index/tests.rs:373`); `node_ids` lists ids whose lists are empty.
* Bindings: `create` truncates before it locks (`file.rs:237`); a stop before it has written the footer
  (`file.rs:259`) leaves an `x.omen` that `open` refuses and on which `create` refuses too, since it is
  there; the lock is given up while the manifest
  is renamed (`file.rs:1858`); `delete_collection` under an open handle lets its flush bring the
  collection back, and interrupted leaves a log that a new collection replays (`collections.rs:217`); it
  leaves `.vecs` and `.records`; a closed cached handle is returned for ever (`collections.rs:71`);
  `stats` takes the object's lock twice (`database.rs:1041`); `src/lib.rs:91` says the store "auto-saves
  on drop", and there is no Drop.

## 4. Proofs

Every theorem holds for **all** values of the constants its module declares: any sets of keys, names,
vectors, payloads, edges and collections, any number of slots, log entries, calls, errors and
restarts, any number of threads (`Handles` has the three bindings as its processes).

| module | theorem | statement |
|---|---|---|
| RecordStoreProofs | `Invariance` | Spec => []IInv |
| | `TypeCorrect`, `IndexCorrect`, `DirtyTrackingCorrect` | Spec => []TypeOK, []IndexInv, []DirtyCoversDelta |
| | `MapImplemented` | Spec => ImplementsMap (refinement of RecordMap, call by call) |
| | `SlotIdentityCorrect` | Spec => SlotIdentity |
| OmenStoreProofs | `TypeCorrect` | Spec => []TypeOK |
| | `RecoveredStaysConsistent` | Spec /\ [][~Disputed]_vars => []RecoveredConsistent |
| | `PhantomsNeverLive` | Spec /\ [][~Unsettled]_vars /\ [][~Straying]_vars => [](NoPhantoms /\ RecoveredConsistent) |
| | `ReadersCorrect` | Spec /\ [][~Detaching]_vars => ReadersUndisturbed |
| | `CheckpointsCorrect` | Spec /\ [][~Detaching]_vars => CheckpointsComplete |
| | `DurableMapImplemented` | Spec /\ [][~Losing]_vars => ImplementsDurableMap |
| | `FilesRecoverable` | Spec /\ [][~Losing]_vars => [](Emptied \/ Torn \/ Recoverable) |
| GraphStoreProofs | `Invariance`, `TypeCorrect`, `MirroredCorrect` | Spec => []IInv, []TypeOK, []Mirrored |
| | `QueriesCorrect` | Spec => []QueriesAgree |
| | `NoHalfDeleteCorrect` | Spec => NoHalfDelete |
| | `EdgeMapImplemented` | StaleManifest = FALSE: Spec => ImplementsEdgeMap (call by call) |
| HnswProofs | `InvariantHolds`, `TypeCorrect`, `EntryHighestCorrect` | Spec => []IInv, []TypeOK, []EntryHighest |
| | `SearchExactCorrect` | Spec => []SearchExact |
| ConcurrentStoreProofs | `Invariance`, `TypeCorrect` | Spec => []IInv, []TypeOK |
| | `CoherentCorrect`, `IndexesCorrect`, `LogCorrect` | Spec => []Coherent, []IndexesAgree, []LogAgrees |
| | `NoDeadlock` | Spec => [](~persistent /\ ~Batching => SomeGoesOn) |
| HandlesProofs | `Invariance`, `TypeCorrect`, `OneOwnerCorrect` | Spec => []IInv, []TypeOK, []OneOwner |
| | `AcknowledgedCorrect`, `IterationCorrect` | Spec => []AcknowledgedSurvive, []IterationComplete |

### The hypotheses on steps

The code does lose data in the ways "Findings" lists, so a theorem about all its behaviours would be
false. Each hypothesis names the kinds of *step* at which that happens, and no other kind; every other
interleaving of calls, checkpoints, errors and restarts is covered, compactions included.

| clause | the step that is excluded | why: finding |
|---|---|---|
| `Unbacked` | a slim snapshot is published over a manifest that declares no `.vecs` | LostFile |
| `PhantomLives /\ Renumbers` | a compaction while a record lives that recovery made of a stray vector | PhantomRecord |
| `Emptied /\ (Restart \/ FailToPublish)` | a checkpoint that has emptied `.vecs` under the old manifest is cut off | HiddenSlot |
| `Shortens` | a compaction that leaves the store with fewer slots than a mapped `.vecs` has | PhantomRecord |
| `Strays(disk) /\ (Restart \/ FailToPublish)`, in a checkpoint | a checkpoint is cut off after it has grown `.vecs` beyond what the old snapshot knows of | StrayVector |
| `Overlaid` | a slim snapshot is published over a manifest with tombstones the store does not have | LostVector |
| `ViewLives /\ Renumbers` | a compaction while a record views `.vecs` | StaleView |
| `ViewLives /\ FailToGrow` | the mapping is lost to an error while a record views it | LostView |
| `Torn /\ (Restart \/ FailToPublish)` | a checkpoint is cut off that was writing into a slot which the old snapshot gives to a key without an entry in the log | TornBatch |
| `Unheard` | a write is logged in an epoch, or at a time, that the chosen snapshot claims | LostWrite, SecondStop |

`Disputed` is the first three, and `Unsettled` is `Disputed` without the clause on phantoms; `Straying`
is the fourth and the fifth. `Detaching` adds to `Disputed` `Overlaid` and the two clauses on `ViewLives`,
and `Losing` adds `Torn` and `Unheard` to that. `PhantomsNeverLive` needs no clause on phantoms: where
nothing strays there is none, so the clause of `RecoveredStaysConsistent` is spent only on behaviours
that have strayed before. In `FilesRecoverable`
the files are excepted only *while* they are emptied or torn: a stop there is what the findings show
to lose a document. TLC finds a violation of the conclusion when a clause is left out; the instances
are those of the findings.

`StaleManifest = FALSE` in `EdgeMapImplemented` excludes finding StaleEdges.

### Assumptions on constants

Each is stated in the module that declares the constant, and TLC evaluates it in the runs. `None`,
`Gone`, `Torn`, `NoRecord` and the like are not values (`NoneAssumption`, `DocumentAssumption`,
`ValueAssumption`, ...); callers' keys are not `__slot_N` (`KeyAssumption`); a vector is not a view
of one (`ValAssumption`); bounds are numbers. `ConcurrencyAssumption` asks for finitely many ids, at
least one, because the store that ConcurrentStore starts from has a record of each; any finite set
will do, and threads and calls are not bounded. `SlotLimitCoversRuns`, SlotLimit >= MaxCalls *
(MaxRestarts + 1), says that the names a recovery may need exist; `TypeCorrect` of OmenStoreProofs
shows that it suffices.

### The invariants and the arguments

**Record store.** `IInv == TypeOK /\ Consistent(store) /\ (~flushing => inflight = {}) /\
DirtyCoversDelta`. `DirtyCoversDelta` alone is not inductive: when a checkpoint fails or succeeds,
that no slot remains in flight is what turns "dirty or in flight" back into "dirty"; and a compaction
keeps it only because it marks every slot dirty, which needs the type of the packed slots.
`Consistent` needs its four parts together: that the live count stays exact through an upsert follows
from the old slot being live, which is `IdMapSound`; that the id map stays sound through it follows
from no other live slot holding the id, which is `LiveSlotsMapped`. Lemmas about the operators come
first: `Rank` is an order-preserving bijection of a finite set of slots with an
initial segment (`RankBijective`), so `PackedSlots` holds each live record exactly once
(`PackedSlotsLive`); a rebuilt id map picks the greatest slot of an id (`IndexOfOwn`), which is the
only one. Then one lemma per operator says that it keeps the type and the consistency, one per action
that it keeps IInv, and `NextInv` collects them. For the refinement, what callers see is a function of
the set of live *records* (`SameContents`): an upsert replaces the record of its id in that set, a
delete removes it, compaction and reopening leave the set alone.

**Persistent store.** Six layers, each an inductive invariant relative to the ones below it.

1. `TInv`: the types, and that slots and log are no longer than the calls made so far allow, which is
   what keeps `__slot_N` within the names. Recovery folds the replay over the log;
   `RecoveredInduction` is proved once, for any *set* of pairs of a number of entries and a store that
   holds the initial pair and is closed under the replay of one entry; every later fact about recovery
   instantiates it.
2. `CInv`, for consistency: the snapshot that recovery will choose maps its names within `.vecs`, and a
   phantom is in the slot it is named for, so that no record is recovered under its name.
3. `PInv`, against phantoms: between checkpoints every slot of `.vecs` is a record's or a tombstone in
   the snapshot that recovery will choose, and while `.vecs` is mapped it has no more slots than the
   store, so that the snapshot a checkpoint publishes claims all of it. That the store outgrows `.vecs`
   must be kept by the replay too, whose upserts append and whose deletes leave tombstones.
4. `DInv`, for readers and checkpoints: every live record has a vector, in memory or in the slot of
   `.vecs` of its own number (`Dense`); what is neither dirty nor still to be written is in `.vecs`
   (`Kept`); snapshots are whole and their tombstones within the store's. That a checkpoint may write
   through a mapping that records view is harmless exactly because of `Dense`: it writes to a slot the
   vector that the slot's own viewer sees.
5. `LInv`, for durability: what the files hold for a key, which is the document of its *last* log
   entry, or that of the snapshot while no checkpoint is overwriting it (`Held`), is among what a
   restart may leave; the log is ordered by time, and an epoch that skips entries skips all of them
   (`LogOrdered`). `RecoveredDocument` is the lemma that makes this a statement about recovery: what
   a recovered store has for a key is a function of its last replayed entry and the snapshot.
6. The refinement: `Survives` gives that a recovered document is one that `DurableMap` allows, and each
   remaining action is a write, a persist, a restart or a stutter of the map.

The proof attempt that failed told more than once what the code does: HiddenSlot, StrayVector, LostView
and SecondStop are steps at which `CInv`, `PInv`, `DInv` and `LInv` were not preserved, and TLC then
confirmed each on a small instance.

**Graph.** `IInv == Fit(mem, disk) /\ Bounded`. `Holds(g, E)` says that both adjacencies are the two
images of one set of edges E, counted by its cardinality; each operation on the adjacencies is then an
operation on E (`AddedHolds`, `RemovedHolds`, ...: a cascade removes from E the edges of a record,
self-loops once). `Fit` adds that what recovery would make of image and log has these edges, and
these records. The replay applies all deletes before all inserts; that this ends as the log order
does is an induction over the log with the sets of edges inserted and deleted so far. Proving it
corrected `EdgeMap.Restart`: a collected edge comes back unless one with its ends and its type is kept.

Every query is then a function of E. `SearchLevels`, by induction over the depth, says what the
breadth-first search has seen at depth d: the ends of walks of at most d steps (`Within`), and in its
front those of d steps and of no fewer (`Discovered`). From it follow what is traversed, that the paths
of parent pointers are exactly the shortest walks (`PathsAreShortest`: by `DiscoveredOnTheWay` a
shortest walk passes every node at its own distance), and that `traverse_edges` finds each node at that
distance (`HitsAtDistance`). The bounds of the run play no part: any graph, any depth.

**Handles.** `IInv` adds to the properties: a call under way is about objects of its own process
(`CallsSound`), openers have room (`RoomLeft`), an inode that a call has opened was at its path and is
not later than the present one (`InodesSound`), and, for every path that is not marred: an open store
has the lock of the inode at the path, or has given it up in a checkpoint (`OwnersHold`); two calls
never hold the lock of one inode, no store is open where a call holds it, and a file that is being
created has one creator and nothing before it (`Apart`); a collection being removed has no owner left
(`RemovalsComplete`); and for an iterator, which names were there throughout (`CursorsSound`).
`OneOwner` follows because two owners of a path would hold the lock of one inode. `Apart` is what the
steps between opening a file and having it read or filled need: an object comes into being where its
call held the lock, and there nobody else was.

**HNSW.** `IInv` says of the graph that its rows hold nodes of it, each once and within their capacity
(`GraphOK`), of each worker that what it has in hand is of the graph (`Tasks`), and that every node which
is neither pending nor in a worker's hands is at most as high as the entry point (`HighestLinked`). The
last is what `EntryHighest` lacks: while two workers link nodes above the entry point it is false, and it
becomes true again only because each compares its node with the entry point of *that* moment. That a
pruned row holds each node once is an induction over the heuristic's loop (`SelectsChoice`).

Searches are functions of the graph, so `SearchExact` is a fact about every graph with `GraphOK`.
`PlaceType` and `PlaceMonotonic` show that counting the nearer ones puts a set of nodes in order
(`InOrderLists`); `BestAdmitted` that a bounded heap, fed one node at a time, has the k best of all it was
offered. `BeamOK` is the invariant of the beam: it stays within reach of its start, its heap has the ef
best of what it visited, and *as long as it has visited fewer than ef nodes* it has visited the rows of
all it explored, for then nothing was refused. Each round explores one node more or ends the search
(`Onward`), so the search ends; and then it has visited ef nodes or a set that the links do not leave,
which is all that is within reach (`EndedReaches`). The filtered search runs the same beam and a second
heap of those that pass. The descent gets closer with each pass or goes down a level (`StrodeDescends`).

**Threads.** A program counter is what a proof about threads needs, and a list of instructions is not
one: what is left of a delete and of a set may be the same list. `IInv` therefore says that there is a
function `at` from threads to *points*, 160 numbered places in the calls, which fits the state. Six
parts of it speak of different things:

* `Located`: the instructions a thread has left are those of its point. `Beginning` shows that the
  program of each call is the list of its first point, and `RestGoesOn` that where a branch is taken
  or a call abandoned, what the thread does next is again the list of a point. They are long because
  they go through every call of the code, and they are why the theorems are about these calls.
* `Held`: a thread reads and owns exactly the locks of its point, those on which its call is between
  acquisition and release. `Alone`: while a compaction or a checkpoint works under its exclusive
  `write_lock`, no writing call is under way. `Sealed`: nobody reads the tombstones while a slot is
  being replaced.
* `Called`, `OldFits`, `SlotFits`: what the local variables of a call have to do with the store. The
  slot that it looked up was, once, its id's; after it has pushed a new one the old one is dead. These
  must survive every step of every *other* thread, which may have buried that slot in between.
* `IdsFit`, `InEngine`, `Indexed`: `Coherent`, each with the points at which some call is about to
  restore it, so that with no call under way `Coherent` is what is left. `Compacting` says what a
  compaction has in hand while it has taken the store apart.
* `Unraced`, as long as no two calls wrote one id at a time: nobody else changes what a call has found
  for its id (`Sole`); the metadata index, the sparse index and the log are exact but for the entries
  of the slots that calls at named points are about to add or remove (`MetaExact`, `SparseExact`,
  `LogExact`). That an update's log entry comes *before* its change makes `LogExact` speak of both
  orders.
* `InMemory`: the points that only a store with storage reaches.

ConcurrentStorePoints has the points, the invariant and where each step leads;
ConcurrentStoreProofs one lemma per kind of step on the conjuncts it could disturb:
steps that touch the locks alone (`LockingKeeps`), flags alone (`QuietKeeps`), the records of one id,
an index, the log, or the whole store, which a compaction rewrites while `Alone` gives that no other
call is in the midst of a change. The programs of the code take the locks in no single order, so
`NoDeadlock` is not an argument about an order of locks but one about points, from the last up: those
who are inside an index wait for nobody, so if all wait nobody is there; then nobody waits for an
index; and so on through slots and tombstones up to `write_lock`. Persistent stores and batches are
excluded because the code does deadlock there (StuckSets, and "Also seen"). `SomeGoesOn` says that some
call can take its next step; that all calls *end* needs fairness, and stays with `CallsEnd`.

### What is only model-checked

* All of IndexedStore, Queries and LogFormat. Queries evaluates filter trees, and LogFormat reads
  words, with RECURSIVE operators, which the prover cannot take. IndexedStore has none: its invariants
  are not proved yet (see the plan).
* `AllReachable` of Hnsw: it does not hold for all values of the constants, not along a line either.
  With `Ef = 1` TLC shows four
  points one of which pruning cuts off; the run has an ef_construction that spans the graph.
* Liveness under fairness (`CallsEnd`) and ENABLED are out of the prover's reach.
* Induction over data: the installed provers cannot instantiate a theorem that takes an operator.
  `Recursion` states what the proofs about logs need with *sets* in place of operators (a least number
  in a nonempty set, a set that is closed under successor within an interval, the existence of
  recursive functions on intervals), and folds over the log are reasoned about through them.

## 5. Not modelled, and the plan

Not modelled, and why:

* distance and quantization kernels, MUVERA encoding and pooling, compression, recall, scores and
  their fusion: numeric code, on which the models' properties do not depend;
* the patching of saved segments from a slim snapshot's dirty list, and the graph's own file format:
  IndexedStore rebuilds the engine where the code may patch it;
* `MultiVecStorage::update` and `reserve_slots` (nothing calls them), `optimize` and `batch_insert` (they reorder or fill the engine);
* dimension checks, hence the half-applied batch of `crud.rs:180`;
* the full-text engine (external), conversions of arguments in the bindings, legacy containers,
  tools and benchmarks.

What is left, in order of importance:

1. **MetadataIndex and IndexedStore:** `FieldsAgree` as a theorem on `IndexJson` and `Unindexed`, and
   the agreement of `EqDocs`/`RangeDocs` with `IndexEq`/`IndexCompares`.
2. **LogFormat:** `KeepsAcknowledged` for logs of any length, with its reader as a recursive function.
3. **Segments:** the patch list and `accumulated_dirty`; dimension checks and refused batches.
