------------------------------ MODULE Handles ------------------------------
(***************************************************************************)
(* Processes that share database files through the language bindings       *)
(* (python/src, node/src, omendb-ffi/src): database objects, the           *)
(* collections they open and cache, iterators, and the file locks of       *)
(* omen/file.rs under them.                                                *)
(*                                                                         *)
(* A process runs one binding, and one call at a time: the bindings make   *)
(* their calls under the interpreter's lock and the RwLock of the object   *)
(* (ConcurrentStore models the threads of one store).  Processes           *)
(* interleave, and stop, between the check that a file exists, opening it, *)
(* locking it, and reading or writing it, and between the steps of a       *)
(* checkpoint, which gives the lock up while it renames the new manifest   *)
(* over the old.                                                           *)
(*                                                                         *)
(* A store is reduced to the map it holds, x.omen to the map it loads, and *)
(* x.wal to the last logged value per name: OmenStore and LogFormat model  *)
(* what is in them.                                                        *)
(***************************************************************************)
EXTENDS Integers, FiniteSets, FiniteSetsExt

CONSTANTS Process,      \* the processes, named by the binding they run
          Root,         \* the path of the parent database
          Name,         \* the paths of its collections
          Id, Val,
          None,         \* no value, no file, no object
          Gone,         \* a logged delete
          Torn,         \* an x.omen cut to nothing: open finds no footer in it
          MaxInners,    \* bound: objects alive at once
          MaxOpens, MaxWrites, MaxFlushes, MaxDeletes, MaxCrashes   \* bounds

ASSUME ProcessAssumption == Process \subseteq {"python", "node", "ffi"}
ASSUME PathAssumption == Root \notin Name
ASSUME InnersAssumption == MaxInners \in Nat
ASSUME ValueAssumption == None \notin Val /\ Gone \notin Val \cup {None}

VARIABLES
  files,     \* per path: x.omen and the number of its inode, x.wal and its number
  inners,    \* the VectorDatabaseInner objects: whose, of which path, and the store
  at,        \* per process: the call under way
  cursor,    \* per process: its iterator
  marred,    \* history: the paths with a hazard OneOwner excepts
  allowed,   \* history: per path and id, what an open may find
  budget

vars == <<files, inners, at, cursor, marred, allowed, budget>>

Path     == {Root} \cup Name
Inner    == 1..MaxInners
Contents == [Id -> Val \cup {None}]
Overlay  == [Id -> Val \cup {Gone, None}]
Blank    == [id \in Id |-> None]
NoCache  == [c \in Name |-> None]

File == [omen : Contents \cup {None, Torn}, gen : Nat, log : Overlay, era : Nat]

Object == [proc : Process, path : Path, live : BOOLEAN, gen : Nat, era : Nat,
           data : Contents, cache : [Name -> Inner \cup {None}]]

\* The iterator of a process, and the call it is in the middle of.
Cursor == [inner : Inner, todo : SUBSET Id, given : SUBSET Id, steady : SUBSET Id]

Idle == [op |-> "idle"]

\* The steps of an open and of a create that the process has before it, and of a
\* checkpoint; gen is the inode that was opened.
Opener    == {"open", "read", "create", "lock", "fill"}
Publisher == {"publish", "relock", "truncate"}

Call == {Idle} \cup [op : Opener, path : Path, gen : Nat,
                     omen : Contents \cup {None, Torn}, parent : Inner \cup {None}]
               \cup [op : Publisher, inner : Inner, closing : BOOLEAN]
               \cup [op : {"unlink"}, parent : Inner, path : Name]

ASSUME NoneAssumption == None \notin Contents \cup Object \cup Cursor /\ None \notin Nat
ASSUME TornAssumption == Torn \notin Contents \cup {None}

TypeOK ==
  /\ files \in [Path -> File]
  /\ inners \in [Inner -> Object \cup {None}]
  /\ at \in [Process -> Call]
  /\ cursor \in [Process -> Cursor \cup {None}]
  /\ marred \subseteq Path
  /\ allowed \in [Path -> [Id -> SUBSET (Val \cup {None})]]
  \* An object that a cache or an iterator refers to is alive, in the same process.
  /\ \A i \in Inner, c \in Name :
       inners[i] # None /\ inners[i].cache[c] # None =>
         LET o == inners[inners[i].cache[c]]
         IN  o # None /\ o.proc = inners[i].proc /\ o.path = c
  /\ \A p \in Process : cursor[p] # None =>
       inners[cursor[p].inner] # None /\ inners[cursor[p].inner].proc = p

Init ==
  /\ files = [x \in Path |-> [omen |-> None, gen |-> 0, log |-> Blank, era |-> 0]]
  /\ inners = [i \in Inner |-> None]
  /\ at = [p \in Process |-> Idle]
  /\ cursor = [p \in Process |-> None]
  /\ marred = {}
  /\ allowed = [x \in Path |-> [id \in Id |-> {None}]]
  /\ budget = [opens |-> MaxOpens, writes |-> MaxWrites, flushes |-> MaxFlushes,
               deletes |-> MaxDeletes, crashes |-> MaxCrashes]

Spend(what) == /\ budget[what] > 0
               /\ budget' = [budget EXCEPT ![what] = @ - 1]

-----------------------------------------------------------------------------
\* Objects.

Has(p, i) == inners[i] # None /\ inners[i].proc = p

\* store() and store_mut() answer "closed" once close took the store.
Usable(p, i) == at[p] = Idle /\ Has(p, i) /\ inners[i].live

Mine(p) == {i \in Inner : Usable(p, i)}

\* The store of object i writes to the log that is at its path.
Linked(i) == inners[i].era = files[inners[i].path].era

\* flock excludes descriptors of one inode, and an inode outlives its name.  An object
\* holds the lock, or a call that is about to make one.
Holds(q, x, gen) == at[q].op \in {"read", "fill"} /\ at[q].path = x /\ at[q].gen = gen

Locked(x, gen) == \/ \E i \in Inner : inners[i] # None /\ inners[i].path = x
                                      /\ inners[i].gen = gen /\ gen # 0
                  \/ \E q \in Process : Holds(q, x, gen)

\* A process has given up the lock of path x in a checkpoint, or is between the two
\* steps of removing x.
Unsettled(x) == \E q \in Process : \/ /\ at[q].op \in {"publish", "relock"}
                                      /\ inners[at[q].inner].path = x
                                   \/ at[q].op = "unlink" /\ at[q].path = x

\* A process creates the file that is at path x and has not written it yet.
Creating(q, x) == at[q].op \in {"lock", "fill"} /\ at[q].path = x /\ at[q].gen = files[x].gen

Openers == {q \in Process : at[q].op \in Opener}

Free == {i \in Inner : inners[i] = None}

Made(p, x, gen, era, data) ==
  [proc |-> p, path |-> x, live |-> TRUE, gen |-> gen, era |-> era, data |-> data,
   cache |-> NoCache]

\* The new object, in the cache of the database it was opened through, if any.
Opened(object, parent, name) ==
  LET n == Min(Free)
  IN  [i \in Inner |-> IF i = n THEN object
                       ELSE IF i = parent THEN [inners[i] EXCEPT !.cache[name] = n]
                       ELSE inners[i]]

\* Recovery: the log over the published map.
Loaded(omen, log) == [id \in Id |-> CASE log[id] = None -> omen[id]
                                      [] log[id] = Gone -> None
                                      [] OTHER -> log[id]]

-----------------------------------------------------------------------------
\* Opening.  Whether x.omen exists is asked first, and decides between open and
\* create; parent is the object a collection is opened through.

Opening(p, x, parent) ==
  /\ at[p] = Idle /\ Cardinality(Free) > Cardinality(Openers)
  /\ Spend("opens")
  /\ at' = [at EXCEPT ![p] =
              [op |-> IF files[x].omen = None THEN "create" ELSE "open", path |-> x,
               gen |-> files[x].gen, omen |-> files[x].omen, parent |-> parent]]
  /\ UNCHANGED <<files, inners, cursor, marred, allowed>>

\* The call of p ends, with an error or a result, or has more to do.
Ends(p) == at' = [at EXCEPT ![p] = Idle]

GoesOn(p, op) == at' = [at EXCEPT ![p].op = op]

\* OmenFile::open: takes the lock of the inode it opened, or fails.
LockOpened(p) ==
  LET a == at[p]
  IN  /\ a.op = "open"
      /\ IF Locked(a.path, a.gen)
         THEN Ends(p) /\ UNCHANGED marred
         ELSE /\ GoesOn(p, "read")
              /\ marred' = IF Unsettled(a.path) THEN marred \cup {a.path} ELSE marred
      /\ UNCHANGED <<files, inners, cursor, allowed, budget>>

\* What is in the inode that a call opened.  One that was replaced has kept what it had,
\* or was still filled by its creator before.
Contained(a) == IF a.gen = files[a.path].gen THEN {files[a.path].omen}
                ELSE IF a.omen = Torn THEN {Torn, Blank} ELSE {a.omen}

\* It reads the inode, and the log that is now at the path.
ReadOpened(p) ==
  LET a == at[p]
      f == files[a.path]
  IN  /\ a.op = "read"
      /\ Ends(p)
      /\ \E seen \in Contained(a) :
           IF seen = Torn THEN UNCHANGED <<inners, marred>>
           ELSE /\ inners' = Opened(Made(p, a.path, a.gen, f.era, Loaded(seen, f.log)),
                                   a.parent, a.path)
                /\ marred' = IF a.gen = f.gen THEN marred ELSE marred \cup {a.path}
      /\ UNCHANGED <<files, cursor, allowed, budget>>

\* OmenFile::create: opens with truncation, whatever is there by now.
CreateFile(p) ==
  LET a     == at[p]
      f     == files[a.path]
      fresh == f.omen = None
      gen   == IF fresh THEN f.gen + 1 ELSE f.gen
  IN  /\ a.op = "create"
      /\ files' = [files EXCEPT ![a.path] = [@ EXCEPT !.omen = Torn, !.gen = gen]]
      /\ at' = [at EXCEPT ![p] = [@ EXCEPT !.op = "lock", !.gen = gen]]
      /\ marred' = IF fresh /\ ~Unsettled(a.path) THEN marred ELSE marred \cup {a.path}
      /\ UNCHANGED <<inners, cursor, allowed, budget>>

\* Only then it takes the lock: one who opened the empty file meanwhile may have it.
LockCreated(p) ==
  LET a == at[p]
  IN  /\ a.op = "lock"
      /\ IF Locked(a.path, a.gen)
         THEN Ends(p) /\ marred' = marred \cup {a.path}
         ELSE GoesOn(p, "fill") /\ UNCHANGED marred
      /\ UNCHANGED <<files, inners, cursor, allowed, budget>>

\* Header, empty manifest and footer are written.  The log is opened as it is found, and
\* is not read.
FillCreated(p) ==
  LET a     == at[p]
      f     == files[a.path]
      stale == a.gen # f.gen
  IN  /\ a.op = "fill"
      /\ Ends(p)
      /\ files' = IF stale THEN files ELSE [files EXCEPT ![a.path].omen = Blank]
      /\ inners' = Opened(Made(p, a.path, a.gen, f.era, Blank), a.parent, a.path)
      /\ marred' = IF stale THEN marred \cup {a.path} ELSE marred
      /\ UNCHANGED <<cursor, allowed, budget>>

Exists(x) == files[x].omen # None

\* open() of the Python and Node bindings refuses a path without a database,
\* create() one with a database; omendb_open does whichever fits.
PythonOpen(p, x)   == p = "python" /\ Exists(x) /\ Opening(p, x, None)
PythonCreate(p, x) == p = "python" /\ ~Exists(x) /\ Opening(p, x, None)
NodeOpen(p, x)     == p = "node" /\ Exists(x) /\ Opening(p, x, None)
NodeCreate(p, x)   == p = "node" /\ ~Exists(x) /\ Opening(p, x, None)
FfiOpen(p, x)      == p = "ffi" /\ Opening(p, x, None)

\* collection(): a cached object is returned as it is, closed or not; another is
\* opened only while the parent is open.
Collection(p, r, c) == /\ inners[r].path = Root
                       /\ inners[r].cache[c] = None
                       /\ Opening(p, c, r)

PythonCollection(p, r, c) == p = "python" /\ Collection(p, r, c)
NodeCollection(p, r, c)   == p = "node" /\ Collection(p, r, c)

-----------------------------------------------------------------------------
\* Writes.  ids are the names the call touches, new the map after it.

Recorded(i, ids, new) ==
  [files EXCEPT ![inners[i].path].log =
     IF Linked(i) THEN [id \in Id |-> IF id \notin ids THEN @[id]
                                      ELSE IF new[id] = None THEN Gone ELSE new[id]]
                  ELSE @]

Write(p, i, ids, new, logged) ==
  LET x == inners[i].path
      Seen(id) == {new[id]} \cup IF logged THEN {} ELSE allowed[x][id]
  IN  /\ Spend("writes")
      /\ inners' = [inners EXCEPT ![i].data = new]
      /\ files' = IF logged THEN Recorded(i, ids, new) ELSE files
      /\ allowed' = [allowed EXCEPT ![x] = [id \in Id |-> IF id \in ids THEN Seen(id) ELSE @[id]]]
      /\ cursor' = [q \in Process |->
                      IF cursor[q] # None /\ cursor[q].inner = i
                      THEN [cursor[q] EXCEPT !.steady = {id \in @ : new[id] # None}]
                      ELSE cursor[q]]
      /\ UNCHANGED <<at, marred>>

Batch == UNION {[ids -> Val] : ids \in (SUBSET Id) \ {{}}}

Put(i, b) == [id \in Id |-> IF id \in DOMAIN b THEN b[id] ELSE inners[i].data[id]]

Unlogged(p, i) == \E b \in Batch : Write(p, i, DOMAIN b, Put(i, b), FALSE)

\* A call that sets its items one after the other stops at the first that is
\* refused: any non-empty part of what was asked may be all that it wrote.
OneByOne(p, i) == \E b \in Batch : Write(p, i, DOMAIN b, Put(i, b), TRUE)

SettingOne(p, i) == \E id \in Id, v \in Val : Write(p, i, {id}, Put(i, [x \in {id} |-> v]), TRUE)

\* set("id", ...) is logged, keyword lists are not.
PythonSet(p, i) == p = "python" /\ (SettingOne(p, i) \/ Unlogged(p, i))

\* set([...]) is logged for a multi-vector store and if an item has a text.
PythonSetItems(p, i) == p = "python" /\ (OneByOne(p, i) \/ Unlogged(p, i))

NodeSet(p, i) == p = "node" /\ (OneByOne(p, i) \/ Unlogged(p, i))

FfiSet(p, i)         == p = "ffi" /\ OneByOne(p, i)
FfiSetWithText(p, i) == p = "ffi" /\ OneByOne(p, i)

\* set_sparse and set_hybrid_sparse: one record, logged.
PythonSetSparse(p, i)       == p = "python" /\ SettingOne(p, i)
PythonSetHybridSparse(p, i) == p = "python" /\ SettingOne(p, i)
NodeSetSparse(p, i)         == p = "node" /\ SettingOne(p, i)
NodeSetHybridSparse(p, i)   == p = "node" /\ SettingOne(p, i)

Present(i) == {id \in Id : inners[i].data[id] # None}

Updating(p, i) == \E id \in Present(i), v \in Val :
                    Write(p, i, {id}, Put(i, [x \in {id} |-> v]), TRUE)

PythonUpdate(p, i) == p = "python" /\ Updating(p, i)
NodeUpdate(p, i)   == p = "node" /\ Updating(p, i)
FfiUpdate(p, i)    == p = "ffi" /\ Updating(p, i)

\* delete: the names that are there, in one logged batch.
Deleting(p, i) == \E ids \in (SUBSET Present(i)) \ {{}} :
                    Write(p, i, ids, [id \in Id |-> IF id \in ids THEN None
                                                    ELSE inners[i].data[id]], TRUE)

PythonDelete(p, i) == p = "python" /\ Deleting(p, i)
NodeDelete(p, i)   == p = "node" /\ Deleting(p, i)
FfiDelete(p, i)    == p = "ffi" /\ Deleting(p, i)

\* delete_by_filter: the names a filter selects are as good as any.
PythonDeleteByFilter(p, i) == p = "python" /\ Deleting(p, i)
NodeDeleteByFilter(p, i)   == p = "node" /\ Deleting(p, i)
FfiDeleteByFilter(p, i)    == p = "ffi" /\ Deleting(p, i)

\* merge_from refuses an object that shares this one's inner; names that are taken
\* are skipped, and nothing is logged.
Merging(p, i, j) ==
  LET ids == Present(j) \ Present(i)
  IN  /\ i # j
      /\ Write(p, i, ids, [id \in Id |-> IF id \in ids THEN inners[j].data[id]
                                         ELSE inners[i].data[id]], FALSE)

PythonMerge(p, i, j) == p = "python" /\ Merging(p, i, j)
NodeMerge(p, i, j)   == p = "node" /\ Merging(p, i, j)

-----------------------------------------------------------------------------
\* Checkpoints: the vectors are written in place, the new manifest is written to
\* x.omen.tmp, x.omen is closed and its lock so given up, the new file renamed over it,
\* opened and locked, and the log emptied and its epoch stamped.

\* All up to the closing of x.omen; what it writes in place is in no manifest yet.
BeginFlush(p, i, closing) ==
  /\ Spend("flushes")
  /\ at' = [at EXCEPT ![p] = [op |-> "publish", inner |-> i, closing |-> closing]]
  /\ inners' = [inners EXCEPT ![i].gen = 0]
  /\ UNCHANGED <<files, cursor, marred, allowed>>

PythonFlush(p, i) == p = "python" /\ BeginFlush(p, i, FALSE)
PythonExit(p, i)  == p = "python" /\ BeginFlush(p, i, FALSE)
NodeFlush(p, i)   == p = "node" /\ BeginFlush(p, i, FALSE)
FfiFlush(p, i)    == p = "ffi" /\ BeginFlush(p, i, FALSE)

\* A text or hybrid search of a store with a text index first flushes the store:
\* a query publishes what was written unlogged.
PythonSearchText(p, i)   == p = "python" /\ BeginFlush(p, i, FALSE)
PythonSearchHybrid(p, i) == p = "python" /\ BeginFlush(p, i, FALSE)
NodeSearchText(p, i)     == p = "node" /\ BeginFlush(p, i, FALSE)
NodeSearchHybrid(p, i)   == p = "node" /\ BeginFlush(p, i, FALSE)

PythonClose(p, i) == p = "python" /\ BeginFlush(p, i, TRUE)
NodeClose(p, i)   == p = "node" /\ BeginFlush(p, i, TRUE)

\* The manifest covers what the store's own log holds: recovery skips the entries up to
\* its cutoff, so the log has no say from here on.
Published(i, f) == [f EXCEPT !.omen = inners[i].data, !.gen = @ + 1,
                             !.log = IF Linked(i) THEN Blank ELSE @]

Publish(p) ==
  LET i == at[p].inner
      x == inners[i].path
  IN  /\ at[p].op = "publish"
      /\ files' = [files EXCEPT ![x] = Published(i, @)]
      /\ allowed' = [allowed EXCEPT ![x] = [id \in Id |-> {inners[i].data[id]}]]
      /\ at' = [at EXCEPT ![p].op = "relock"]
      /\ UNCHANGED <<inners, cursor, marred, budget>>

\* (Mutation of Relocked: the new file is mapped and not locked.)
RelockedNever(i) == 0

\* None if the new file is gone or another has its lock.
Relocked(i) == LET x == inners[i].path
               IN  IF Exists(x) /\ ~Locked(x, files[x].gen) THEN files[x].gen ELSE None

\* The object after a checkpoint: closing has taken its store.
Ended(p, object) == IF at[p].closing THEN [object EXCEPT !.live = FALSE, !.gen = 0, !.data = Blank]
                    ELSE object

\* An error leaves a store that goes on without a lock, its log not emptied.
Relock(p) ==
  LET i == at[p].inner
  IN  /\ at[p].op = "relock"
      /\ IF Relocked(i) = None
         THEN Ends(p) /\ inners' = [inners EXCEPT ![i] = Ended(p, @)]
         ELSE GoesOn(p, "truncate") /\ inners' = [inners EXCEPT ![i].gen = Relocked(i)]
      /\ UNCHANGED <<files, cursor, marred, allowed, budget>>

\* The log is emptied, and its epoch stamped.
Truncate(p) ==
  LET i == at[p].inner
  IN  /\ at[p].op = "truncate"
      /\ Ends(p)
      /\ inners' = [inners EXCEPT ![i] = Ended(p, @)]
      /\ UNCHANGED <<files, cursor, marred, allowed, budget>>

-----------------------------------------------------------------------------
\* Iterators of the Python binding: a snapshot of the names, looked up one by one.

PythonIterate(p, i) ==
  /\ p = "python" /\ cursor[p] = None
  /\ cursor' = [cursor EXCEPT ![p] = [inner |-> i, todo |-> Present(i), given |-> {},
                                      steady |-> Present(i)]]
  /\ UNCHANGED <<files, inners, at, marred, allowed, budget>>

\* (Mutation of Advanced: the iterator ends at the first name that is gone.)
AdvancedToEnd(c, id) == IF id \in Present(c.inner)
                        THEN [c EXCEPT !.todo = @ \ {id}, !.given = @ \cup {id}]
                        ELSE [c EXCEPT !.todo = {}]

\* One turn of the loop in __next__: a name that is gone is passed over.
Advanced(c, id) == [c EXCEPT !.todo = @ \ {id},
                             !.given = IF id \in Present(c.inner) THEN @ \cup {id} ELSE @]

PythonNext(p) ==
  /\ cursor[p] # None /\ Usable(p, cursor[p].inner)
  /\ \E id \in cursor[p].todo : cursor' = [cursor EXCEPT ![p] = Advanced(@, id)]
  /\ UNCHANGED <<files, inners, at, marred, allowed, budget>>

-----------------------------------------------------------------------------
\* Removal.

\* collections(): the names with an x.omen.
CollectionNames == {c \in Name : Exists(c)}

\* delete_collection asks no store and no lock: x.omen goes, then x.wal, then the
\* entry of this object's cache.  Objects that have it open keep what they hold.
DeleteCollection(p, r, c) ==
  /\ at[p] = Idle /\ Has(p, r) /\ inners[r].path = Root
  /\ p \in {"python", "node"} /\ c \in CollectionNames
  /\ Spend("deletes")
  /\ files' = [files EXCEPT ![c].omen = None, ![c].gen = @ + 1]
  /\ allowed' = [allowed EXCEPT ![c] = [id \in Id |-> {None}]]
  /\ marred' = IF \E i \in Inner : inners[i] # None /\ inners[i].path = c /\ inners[i].live
               THEN marred \cup {c} ELSE marred
  /\ at' = [at EXCEPT ![p] = [op |-> "unlink", parent |-> r, path |-> c]]
  /\ UNCHANGED <<inners, cursor>>

\* (Mutation of WithoutLog: x.wal is left where it is.)
WithoutLogKept(f) == f

WithoutLog(f) == [f EXCEPT !.log = Blank, !.era = @ + 1]

FinishDelete(p) ==
  /\ at[p].op = "unlink"
  /\ files' = [files EXCEPT ![at[p].path] = WithoutLog(@)]
  /\ inners' = [inners EXCEPT ![at[p].parent].cache[at[p].path] = None]
  /\ at' = [at EXCEPT ![p] = Idle]
  /\ UNCHANGED <<cursor, marred, allowed, budget>>

Cached(i) == \E r \in Inner, c \in Name : inners[r] # None /\ inners[r].cache[c] = i

\* (Mutation of Referenced: an iterator does not keep the store it reads alive.)
ReferencedByCaches(p, i) == Cached(i)

Referenced(p, i) == Cached(i) \/ (cursor[p] # None /\ cursor[p].inner = i)

\* An object nothing refers to any more is dropped, and its store with it: nothing
\* is flushed.
Dropping(p, i) ==
  /\ at[p] = Idle /\ Has(p, i) /\ ~Referenced(p, i)
  /\ inners' = [inners EXCEPT ![i] = None]
  /\ UNCHANGED <<files, at, cursor, marred, allowed, budget>>

Collected(p, i) == p \in {"python", "node"} /\ Dropping(p, i)

\* omendb_close.
FfiClose(p, i) == p = "ffi" /\ Dropping(p, i)

\* The paths on which a call of p is half done: a collection that is removed, a file that
\* is created, vectors written in place that no manifest names, a log emptied without its
\* epoch stamped.  (Between the rename and the new lock a checkpoint is whole.)
HalfDone(p) ==
  {x \in Path : \/ at[p].op = "unlink" /\ at[p].path = x
                \/ Creating(p, x)
                \/ at[p].op \in {"publish", "truncate"} /\ inners[at[p].inner].path = x}

\* A process dies: its locks and its maps are gone.
Crash(p) ==
  /\ at[p] # Idle \/ \E i \in Inner : Has(p, i)
  /\ Spend("crashes")
  /\ inners' = [i \in Inner |-> IF Has(p, i) THEN None ELSE inners[i]]
  /\ at' = [at EXCEPT ![p] = Idle]
  /\ cursor' = [cursor EXCEPT ![p] = None]
  /\ marred' = marred \cup HalfDone(p)
  /\ UNCHANGED <<files, allowed>>

-----------------------------------------------------------------------------
Opens(p) == \/ LockOpened(p) \/ ReadOpened(p)
            \/ CreateFile(p) \/ LockCreated(p) \/ FillCreated(p)
            \/ \E x \in Path : \/ PythonOpen(p, x) \/ PythonCreate(p, x)
                               \/ NodeOpen(p, x) \/ NodeCreate(p, x)
                               \/ FfiOpen(p, x)
            \/ \E r \in Mine(p), c \in Name : \/ PythonCollection(p, r, c)
                                              \/ NodeCollection(p, r, c)

Writes(p) == \E i \in Mine(p) :
               \/ PythonSet(p, i) \/ PythonSetItems(p, i) \/ NodeSet(p, i)
               \/ FfiSet(p, i) \/ FfiSetWithText(p, i)
               \/ PythonSetSparse(p, i) \/ PythonSetHybridSparse(p, i)
               \/ NodeSetSparse(p, i) \/ NodeSetHybridSparse(p, i)
               \/ PythonUpdate(p, i) \/ NodeUpdate(p, i) \/ FfiUpdate(p, i)
               \/ PythonDelete(p, i) \/ NodeDelete(p, i) \/ FfiDelete(p, i)
               \/ PythonDeleteByFilter(p, i) \/ NodeDeleteByFilter(p, i)
               \/ FfiDeleteByFilter(p, i)
               \/ \E j \in Mine(p) : PythonMerge(p, i, j) \/ NodeMerge(p, i, j)

Checkpoints(p) == \/ Publish(p)
                  \/ Relock(p)
                  \/ Truncate(p)
                  \/ \E i \in Mine(p) : \/ PythonFlush(p, i) \/ PythonExit(p, i)
                                        \/ NodeFlush(p, i) \/ FfiFlush(p, i)
                                        \/ PythonSearchText(p, i) \/ PythonSearchHybrid(p, i)
                                        \/ NodeSearchText(p, i) \/ NodeSearchHybrid(p, i)
                                        \/ PythonClose(p, i) \/ NodeClose(p, i)

Removals(p) == \/ FinishDelete(p)
               \/ Crash(p)
               \/ \E i \in Inner : Collected(p, i) \/ FfiClose(p, i)
               \/ \E r \in Inner, c \in Name : DeleteCollection(p, r, c)

Iterations(p) == PythonNext(p) \/ \E i \in Mine(p) : PythonIterate(p, i)

Next == \E p \in Process :
          Opens(p) \/ Writes(p) \/ Checkpoints(p) \/ Removals(p) \/ Iterations(p)

Spec == Init /\ [][Next]_vars

-----------------------------------------------------------------------------
\* Properties.

\* Two stores never live on one path at once ("SAFETY: File exclusively locked via
\* flock", omen/file.rs), except after one of these, which leave a path marred: an
\* open took the lock that a checkpoint had given up, two processes created the file
\* at once or one opened it before its creator locked it, delete_collection removed it
\* under an object or a call that has it open, or a process died in the middle of
\* writing it (HalfDone).
OneOwner ==
  \A i, j \in Inner :
    /\ i # j
    /\ inners[i] # None /\ inners[i].live
    /\ inners[j] # None /\ inners[j].live
    /\ inners[i].path = inners[j].path
    => inners[i].path \in marred

\* However the processes interleave, and whenever one closes, drops an object or dies, a
\* path that is not marred loads, for every name, the last value that was logged or
\* published, or one written unlogged since; a collection made again after its deletion
\* starts empty.  A stop inside a checkpoint is covered where the checkpoint is whole,
\* from the rename to the new lock; what one before or after it leaves is OmenStore's
\* subject, and not claimed here.  While a file is created it has no footer, and does
\* not load.
AcknowledgedSurvive ==
  \A x \in Path \ marred :
    Exists(x) /\ ~(\E p \in Process : Creating(p, x)) =>
      /\ files[x].omen # Torn
      /\ \A id \in Id : Loaded(files[x].omen, files[x].log)[id] \in allowed[x][id]

\* An iterator that has ended gave every name that was there from its start on,
\* whatever was set and deleted in between.
IterationComplete ==
  \A p \in Process :
    cursor[p] # None /\ cursor[p].todo = {} => cursor[p].steady \subseteq cursor[p].given
=============================================================================
