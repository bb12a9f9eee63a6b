---------------------------- MODULE IndexedStore ----------------------------
(***************************************************************************)
(* A VectorStore and the indexes it derives from its records: the search   *)
(* engine, the multi-vector storage, the sparse index, the metadata index  *)
(* and the text index, through the writes of crud.rs, sparse_ops.rs,       *)
(* multivec_ops.rs and text_search.rs, compaction, merging, checkpoints    *)
(* and reopening (lifecycle.rs, persistence.rs).                           *)
(*                                                                         *)
(* One caller at a time, and a stop of the process only between two calls: *)
(* ConcurrentStore and OmenStore have the interleavings and the crashes    *)
(* within a call.  A call often calls another, so each is a function of    *)
(* the whole database, db.                                                 *)
(***************************************************************************)
EXTENDS TokenStore

CONSTANTS
  Id,         \* record names
  Field,      \* metadata fields
  Doc,        \* what a write stores: [vec, meta], a dense vector and its metadata
  Term,       \* the dimensions of sparse vectors
  Tokens,     \* documents of a multi-vector store: sequences of token embeddings
  Text,       \* texts
  None,       \* an absent value of any kind
  Multi,      \* is the store a multi-vector store?  The values to check.
  Calls,      \* the calls that are made
  LogLimit,   \* wal_auto_checkpoint_entries
  MaxCalls, MaxRestarts  \* bounds

\* MuveraEncoder: the two encodings of the tokens, of a document and of a query.
Sum(tokens) == FoldLeft(+, 0, tokens)
EncodeDocument(tokens) == IF tokens = << >> THEN 0 ELSE Sum(tokens) \div Len(tokens)
EncodeQuery(tokens) == Sum(tokens)

Vec == {d.vec : d \in Doc} \cup {EncodeDocument(t) : t \in Tokens} \cup {EncodeQuery(t) : t \in Tokens}
         \cup {0}
Meta == {d.meta : d \in Doc}

Payload == [sparse : (SUBSET Term) \cup {None}, tokens : Tokens \cup {<< >>, None}]
NoPayload == [sparse |-> None, tokens |-> None]

INSTANCE Records WITH Aux <- Payload, NoAux <- NoPayload, NoVec <- None, NoMeta <- None,
                      NoRecord <- None
INSTANCE MetadataIndex WITH Absent <- None

VARIABLES
  db,      \* the database, see Database
  budget   \* how many calls and restarts are left

vars == <<db, budget>>

\* Memory:  store, the RecordStore; engine, the vectors of the HNSW index by node;
\*          tokens, MultiVecStorage; sparse, the postings; fields, the
\*          metadata index; text, what the index writer has (pending) and what its
\*          reader sees (shown, also on disk); acc, accumulated_dirty.
\* Disk:    image, the slots as the last checkpoint wrote them; payload, their sparse
\*          and token payloads in the manifest; slim, whether the last checkpoint was
\*          a fast one, and delta, the slots its snapshot calls dirty; hasVec; segs,
\*          the saved engine; wal.
\* History: multi; strayed, since the tokens were last rebuilt a call moved a record
\*          without its tokens, or reported a slot mismatch; merged, slots merge_from
\*          added; orphans, ids whose text lost its record.
NewDatabase(multi) ==
  [store |-> EmptyStore, engine |-> None, tokens |-> NoDocuments, sparse |-> {},
   fields |-> EmptyIndex,
   text |-> [pending |-> [i \in Id |-> None], shown |-> [i \in Id |-> None]], acc |-> {},
   image |-> [slots |-> << >>, deleted |-> {}], payload |-> << >>, slim |-> FALSE,
   delta |-> {}, hasVec |-> FALSE, segs |-> None, wal |-> << >>,
   multi |-> multi, strayed |-> FALSE, merged |-> {}, orphans |-> {}]

Init == /\ \E m \in Multi : db = NewDatabase(m)
        /\ budget = [calls |-> MaxCalls, restarts |-> MaxRestarts]

DenseSlots(st) == {s \in LiveSlots(st) : st.slots[s].vec # None}

VectorsOf(st, slots) ==
  LET order == SetToSortSeq(slots, <) IN [n \in DOMAIN order |-> st.slots[order[n]].vec]

Postings(s, terms) == {[slot |-> s, term |-> t] : t \in terms}

SlotsIn(postings) == {p.slot : p \in postings}

-----------------------------------------------------------------------------
\* Compaction.

\* rebuild_index_locked: nothing is rebuilt without a dense record.
RebuiltEngine(engine, st) ==
  IF DenseSlots(st) = {} THEN engine ELSE VectorsOf(st, DenseSlots(st))

\* (Mutation of CompactedPostings: the postings keep the old slots.)
CompactedPostingsStale(postings, live) == postings

\* SparseIndex::compact with the mapping of compact_locked: 0 for a slot that is
\* not live, and no posting beyond the last live slot.
CompactedPostings(postings, live) ==
  LET kept == {p \in postings : p.slot <= Max({1} \cup live)}
  IN  {[p EXCEPT !.slot = IF p.slot \in live THEN Rank(live, p.slot) ELSE 1] : p \in kept}

IndexOfRecords(st) ==
  FoldLeft(LAMBDA index, s : IF st.slots[s].meta = None THEN index
                             ELSE IndexJson(index, s, st.slots[s].meta),
           EmptyIndex, SetToSortSeq(LiveSlots(st), <))

CompactedDb(d) ==
  LET live == LiveSlots(d.store)
      st   == Compacted(d.store)
  IN  IF d.store.deleted = {} THEN d
      ELSE [d EXCEPT !.store = st,
                     !.tokens = IF d.multi THEN CompactedTokens(@, [s \in live |-> Rank(live, s)])
                               ELSE @,
                     !.sparse = CompactedPostings(@, live),
                     !.engine = IF live = {} THEN None ELSE RebuiltEngine(@, st),
                     !.fields = IndexOfRecords(st),
                     !.merged = {}]

-----------------------------------------------------------------------------
\* Checkpoints.

\* iter_multi, and from_slot_tokens: as many documents as the last slot with tokens.
TokensOf(st) ==
  FromSlotTokens([s \in {x \in LiveSlots(st) : st.slots[x].aux.tokens # None} |->
                    st.slots[s].aux.tokens])

\* iter_sparse
PostingsOf(st) ==
  UNION {Postings(s, st.slots[s].aux.sparse) :
           s \in {x \in LiveSlots(st) : st.slots[x].aux.sparse # None}}

Image(st) ==
  [slots |-> [s \in DOMAIN st.slots |->
                IF s \in LiveSlots(st) THEN [st.slots[s] EXCEPT !.aux = NoPayload] ELSE None],
   deleted |-> st.deleted]

\* prepare_flush_data: the payloads as the manifest holds them.  The sparse payloads
\* are read back from the postings, the tokens from MultiVecStorage.
PayloadOf(d) ==
  [s \in DOMAIN d.store.slots |->
     [sparse |-> LET terms == {p.term : p \in {q \in d.sparse : q.slot = s}}
                 IN  IF terms = {} THEN None ELSE terms,
      tokens |-> IF d.multi /\ HasDocument(TokensOf(d.store), s)
                THEN TokensAt(TokensOf(d.store), s) ELSE None]]

\* flush_internal: the engine is saved first, unless the checkpoint skips it; the
\* text index is committed last.
FullCheckpoint(d, skipSegments) ==
  [d EXCEPT !.segs = IF skipSegments \/ d.engine = None THEN @ ELSE d.engine,
            !.image = Image(d.store), !.payload = PayloadOf(d),
            !.slim = FALSE, !.delta = {}, !.acc = {},
            !.hasVec = @ \/ d.store.slots # << >>,
            !.store = DirtyTaken(@), !.wal = << >>,
            !.text.shown = d.text.pending]

\* checkpoint_vectors_only: the manifest with the payloads stays.
FastCheckpoint(d) ==
  IF d.store.dirty = {} THEN d
  ELSE [d EXCEPT !.image = Image(d.store), !.slim = TRUE,
                 !.acc = @ \cup d.store.dirty, !.delta = d.acc \cup d.store.dirty,
                 !.store = DirtyTaken(@), !.wal = << >>]

RequiresFull(d) == d.sparse # {} \/ d.tokens.offsets # << >>

\* checkpoint_wal_locked
CheckpointWal(d) ==
  IF ~d.hasVec THEN FullCheckpoint(d, TRUE)
  ELSE IF RequiresFull(d) THEN FullCheckpoint(d, FALSE)
  ELSE FastCheckpoint(d)

IfFull(d) == IF Len(d.wal) >= LogLimit THEN CheckpointWal(d) ELSE d

\* A logged write: the entry holds the whole record.
LoggedRecord(d, i) ==
  IfFull([d EXCEPT !.wal = Append(@, [op |-> "upsert", rec |-> d.store.slots[d.store.idToSlot[i]]])])

LoggedDeletes(d, order) ==
  IfFull([d EXCEPT !.wal = @ \o [n \in DOMAIN order |-> [op |-> "delete", id |-> order[n]]]])

\* flush compacts first if more than a quarter of the slots are tombstones.
Flushed(d) ==
  FullCheckpoint(IF 4 * Cardinality(d.store.deleted) > Len(d.store.slots)
                 THEN CompactedDb(d) ELSE d, FALSE)

-----------------------------------------------------------------------------
\* Writes.

\* (Mutation of Reindexed: the old slot keeps its entries.)
ReindexedTwice(d, old, new, meta) ==
  [d EXCEPT !.fields = IndexJson(@, new, meta), !.merged = @ \ {old}]

\* The metadata of a record that moves from slot old, if it had one, to slot new.
Reindexed(d, old, new, meta) ==
  [d EXCEPT !.fields = IndexJson(IF old = NoSlot THEN @ ELSE Unindexed(@, old), new, meta),
            !.merged = @ \ {old}]

\* SparseIndex::remap_slot
Remapped(postings, old, new) ==
  {IF p.slot = old THEN [p EXCEPT !.slot = new] ELSE p : p \in postings}

\* RecordStore::set and what set and set_batch do to the derived indexes; the engine
\* is their own business.
WithRecord(d, i, doc) ==
  LET old == d.store.idToSlot[i]
      st  == WithVector(d.store, i, doc.vec, doc.meta)
      new == st.idToSlot[i]
  IN  Reindexed([d EXCEPT !.store = st,
                          !.sparse = IF old = NoSlot THEN @ ELSE Remapped(@, old, new)],
                old, new, doc.meta)

\* set: insert_with_slot ignores the slot, a node's number is its arrival.
AfterSet(d, i, doc) ==
  LET new == WithRecord(d, i, doc)
  IN  LoggedRecord([new EXCEPT !.engine = Append(IF @ = None THEN << >> ELSE @, doc.vec)], i)

\* Batches process the ids that exist first, and then the new ones.
UpdatesFirst(d, order) ==
  LET old(i) == d.store.idToSlot[i] # NoSlot
      new(i) == d.store.idToSlot[i] = NoSlot
  IN  SelectSeq(order, old) \o SelectSeq(order, new)

\* set_batch: updates reach the engine only if there is one, inserts build one if
\* there is none; no entry is logged.
AfterBatch(d, order, docs) ==
  LET first    == UpdatesFirst(d, order)
      Put(x, i) == WithRecord(x, i, docs[i])
      inNew(i) == d.engine # None \/ d.store.idToSlot[i] = NoSlot
      nodes    == SelectSeq(first, inNew)
      all      == FoldLeft(Put, d, first)
  IN  IfFull([all EXCEPT !.engine =
                IF nodes = << >> THEN @
                ELSE (IF @ = None THEN << >> ELSE @) \o [n \in DOMAIN nodes |-> docs[nodes[n]].vec]])

\* update_sparse and update_multi, in place.
WithPayload(d, i, x) == [d EXCEPT !.store = WithAux(@, d.store.idToSlot[i], x)]

SparseInserted(d, i, terms) ==
  LET s == d.store.idToSlot[i]
  IN  [d EXCEPT !.sparse = {p \in @ : p.slot # s} \cup Postings(s, terms)]

PayloadIn(d, i) == d.store.slots[d.store.idToSlot[i]].aux

\* set_sparse: a record that exists is changed in place, to keep its node; a new one
\* takes a slot and no node.
AfterSetSparse(d, i, terms, meta) ==
  LET s    == d.store.idToSlot[i]
      old  == Reindexed([d EXCEPT !.store = WithMeta(@, s, meta)], s, s, meta)
      new  == LET st == WithoutVector(d.store, i, meta)
              IN  Reindexed([d EXCEPT !.store = st], NoSlot, st.idToSlot[i], meta)
      both == IF s # NoSlot THEN old ELSE new
      put  == WithPayload(both, i, [PayloadIn(both, i) EXCEPT !.sparse = terms])
      entry == [op |-> "upsert", rec |-> put.store.slots[put.store.idToSlot[i]]]
  IN  IfFull(SparseInserted([put EXCEPT !.wal = Append(@, entry)], i, terms))

\* set_hybrid_sparse: set, with its own log entry and checkpoint, and then the payload.
AfterSetHybrid(d, i, doc, terms) ==
  LET set == AfterSet(d, i, doc)
      put == WithPayload(set, i, [PayloadIn(set, i) EXCEPT !.sparse = terms])
  IN  LoggedRecord(SparseInserted(put, i, terms), i)

\* store_multi_internal: set with the encoding, the payload, the log; then the tokens
\* are added at the next position of MultiVecStorage, and a position that is not the
\* slot is an error, which skips the checkpoint.
AfterStoreMulti(d, i, tokens, meta) ==
  LET set   == AfterSet(d, i, [vec |-> EncodeDocument(tokens), meta |-> meta])
      put   == WithPayload(set, i, [PayloadIn(set, i) EXCEPT !.tokens = tokens])
      s     == put.store.idToSlot[i]
      added == [put EXCEPT !.wal = Append(@, [op |-> "upsert", rec |-> put.store.slots[s]]),
                           !.tokens = TokensAdded(@, tokens)]
  IN  IF s = Len(added.tokens.offsets) THEN IfFull(added) ELSE [added EXCEPT !.strayed = TRUE]

\* set_multi_batch: the tokens are added in the order of set_batch, and then every
\* record gets its payload and its log entry.  The positions are not checked.
AfterStoreBatch(d, order, docs, meta) ==
  LET first  == UpdatesFirst(d, order)
      Add(storage, i) == TokensAdded(storage, docs[i])
      Payed(x, i) ==
        LET put == WithPayload(x, i, [PayloadIn(x, i) EXCEPT !.tokens = docs[i]])
        IN  [put EXCEPT !.wal =
               Append(@, [op |-> "upsert", rec |-> put.store.slots[put.store.idToSlot[i]]])]
      added  == [d EXCEPT !.tokens = FoldLeft(Add, @, first),
                          !.strayed = @ \/ Len(d.tokens.offsets) # Len(d.store.slots)]
      set    == AfterBatch(added, order,
                           [i \in DOMAIN docs |-> [vec |-> EncodeDocument(docs[i]), meta |-> meta]])
  IN  IfFull(FoldLeft(Payed, set, first))

\* update without a vector logs the record, if it has a vector, before it is changed.
AfterUpdateMeta(d, i, meta) ==
  LET s   == d.store.idToSlot[i]
      new == Reindexed([d EXCEPT !.store = WithMeta(@, s, meta)], s, s, meta)
  IN  IF d.store.slots[s].vec # None THEN LoggedRecord(new, i) ELSE new

\* (Mutation of AfterDelete: the text index is not told.)
AfterDeleteKeepsText(d, order) ==
  LET known == SelectSeq(order, LAMBDA i : Deletable(d.store, i))
      One(x, i) ==
        LET s == x.store.idToSlot[i]
        IN  [x EXCEPT !.store = Removed(@, i), !.fields = Unindexed(@, s),
                      !.sparse = {p \in @ : p.slot # s}, !.merged = @ \ {s}]
  IN  LoggedDeletes(FoldLeft(One, d, known), known)

\* delete and delete_batch: the text index is told last, and not committed.
AfterDelete(d, order) ==
  LET known == SelectSeq(order, LAMBDA i : Deletable(d.store, i))
      One(x, i) ==
        LET s == x.store.idToSlot[i]
        IN  [x EXCEPT !.store = Removed(@, i), !.fields = Unindexed(@, s),
                      !.sparse = {p \in @ : p.slot # s}, !.merged = @ \ {s},
                      !.text.pending[i] = None]
      gone  == FoldLeft(One, d, known)
  IN  LoggedDeletes(gone, known)

\* index_document, with or without the commit that shows it.
WithText(d, i, text, commit) ==
  LET pending == [d.text.pending EXCEPT ![i] = text]
  IN  [d EXCEPT !.text = [pending |-> pending, shown |-> IF commit THEN pending ELSE @.shown],
                !.orphans = @ \ {i}]

\* merge_from a store with one record of each kind: records that are new to this
\* store, their sparse payloads, and a rebuilt engine.  The metadata is not indexed
\* and nothing is logged.
AfterMerge(d, i, doc, terms) ==
  LET st   == IF doc.vec # None THEN WithVector(d.store, i, doc.vec, doc.meta)
                                ELSE WithoutVector(d.store, i, doc.meta)
      s    == st.idToSlot[i]
      base == [d EXCEPT !.store = st, !.merged = @ \cup {s}]
      put  == IF terms = None THEN base
              ELSE SparseInserted(WithPayload(base, i, [PayloadIn(base, i) EXCEPT !.sparse = terms]),
                                  i, terms)
  IN  [put EXCEPT !.engine = RebuiltEngine(@, put.store)]

-----------------------------------------------------------------------------
\* Recovery.

\* (Mutation of RestoredRecords: tombstones are counted as live.)
RestoredCountsAll(d) ==
  LET At(s) == IF s \in DOMAIN d.payload THEN d.payload[s] ELSE NoPayload
      slots == [s \in DOMAIN d.image.slots |->
                  IF d.image.slots[s] = None THEN None
                  ELSE [d.image.slots[s] EXCEPT !.aux = At(s)]]
  IN  Restored(slots, d.image.deleted, Len(slots))

\* restore_snapshot_payloads: a slot within the stored tokens has a document, if an
\* empty one.
RestoredRecords(d) ==
  LET At(s) == IF s \in DOMAIN d.payload THEN d.payload[s] ELSE NoPayload
      slots == [s \in DOMAIN d.image.slots |->
                  IF d.image.slots[s] = None THEN None
                  ELSE [d.image.slots[s] EXCEPT !.aux = At(s)]]
  IN  Restored(slots, d.image.deleted, Cardinality({s \in DOMAIN slots : slots[s] # None}))

\* replay_wal_into_records: the records, and the slots of the replayed upserts.
ReplayEntry(state, e) ==
  IF e.op = "delete"
  THEN IF Deletable(state.store, e.id) THEN [state EXCEPT !.store = Removed(@, e.id)] ELSE state
  ELSE LET st == Upserted(state.store, e.rec)
       IN  [store |-> st, modified |-> Append(state.modified, st.idToSlot[e.rec.id])]

\* initialize_segments: the saved engine as it is, or with the modified slots added,
\* or a new one over the dense slots in order.
InitializeSegments(d, st, delta) ==
  LET dense == DenseSlots(st)
      fresh == SelectSeq(delta, LAMBDA s : s \in dense)
  IN  IF dense = {} THEN None
      ELSE IF d.segs # None /\ Len(d.segs) = Cardinality(dense) /\ delta = << >> THEN d.segs
      ELSE IF d.segs # None /\ Len(d.segs) < Cardinality(dense) /\ delta # << >>
      THEN d.segs \o [n \in DOMAIN fresh |-> st.slots[fresh[n]].vec]
      ELSE VectorsOf(st, dense)

\* apply_multivector_segment_delta: the modified slots with tokens once more, encoded
\* as a query is.
WithTokenDelta(d, engine, st, delta) ==
  LET held == SelectSeq(delta, LAMBDA s : s \in LiveSlots(st) /\ st.slots[s].aux.tokens # None)
  IN  IF engine = None \/ ~d.multi THEN engine
      ELSE engine \o [n \in DOMAIN held |-> EncodeQuery(st.slots[held[n]].aux.tokens)]

\* recover_records and initialize_ancillary_indexes.  What the text index writer had
\* not committed is gone.
Opened(d) ==
  LET replay == FoldLeft(ReplayEntry, [store |-> RestoredRecords(d), modified |-> << >>], d.wal)
      st     == replay.store
      delta  == IF d.slim /\ d.delta # {} THEN SetToSortSeq(d.delta, <) ELSE replay.modified
      lost   == {i \in Id : d.text.shown[i] # d.text.pending[i] /\ ~Found(st, i)}
  IN  [d EXCEPT !.store = st,
                !.engine = WithTokenDelta(d, InitializeSegments(d, st, delta), st, delta),
                !.tokens = IF d.multi THEN TokensOf(st) ELSE NoDocuments,
                !.sparse = PostingsOf(st), !.fields = IndexOfRecords(st),
                !.text.pending = d.text.shown, !.acc = {},
                !.strayed = FALSE, !.merged = {},
                !.orphans = @ \cup lost \cup {i \in Id : d.text.shown[i] # None /\ ~Found(st, i)}]

-----------------------------------------------------------------------------
\* The calls.

Call(name, new) == /\ name \in Calls
                   /\ budget.calls > 0
                   /\ budget' = [budget EXCEPT !.calls = @ - 1]
                   /\ db' = new

Regular == ~db.multi

Set(i, doc) == Regular /\ Call("set", AfterSet(db, i, doc))

SetBatch(order, doc) == Regular /\ Call("set_batch", AfterBatch(db, order, [i \in Id |-> doc]))

\* update with a vector is set; it leaves MultiVecStorage at the old slot.
UpdateVector(i, v) ==
  /\ Found(db.store, i)
  /\ Call("update", AfterSet([db EXCEPT !.strayed = @ \/ db.multi], i,
                            [vec |-> v, meta |-> RecordOf(db.store, i).meta]))

UpdateMeta(i, meta) == Found(db.store, i) /\ Call("update", AfterUpdateMeta(db, i, meta))

Delete(order) == Call("delete", AfterDelete(db, order))

SetSparse(i, terms, meta) == Call("set_sparse", AfterSetSparse(db, i, terms, meta))

SetHybridSparse(i, doc, terms) ==
  Regular /\ Call("set_hybrid", AfterSetHybrid(db, i, doc, terms))

StoreTokens(i, tokens, meta) ==
  db.multi /\ Call("store", AfterStoreMulti(db, i, tokens, meta))

\* store_batch of token embeddings; of single vectors it is a set_batch.  With a full
\* log the checkpoint of its set_batch would wait for the token storage, which the
\* call itself has locked.
StoreBatch(order, docs, meta) ==
  /\ db.multi /\ Len(db.wal) < LogLimit
  /\ Call("store", AfterStoreBatch(db, order, docs, meta))

\* set_with_text commits the text before it writes the record ...
SetWithText(i, doc, text) ==
  Regular /\ Call("text", AfterSet(WithText(db, i, text, TRUE), i, doc))

\* ... and set may refuse the vector for its dimension.
SetWithTextRefused(i, text) ==
  /\ Regular
  /\ Call("text", [WithText(db, i, text, TRUE) EXCEPT
                     !.orphans = IF Found(db.store, i) THEN @ ELSE @ \cup {i}])

\* store_with_text does not commit.
StoreWithText(i, tokens, text, meta) ==
  db.multi /\ Call("text", AfterStoreMulti(WithText(db, i, text, FALSE), i, tokens, meta))

\* index_text is for records that were stored before.
IndexText(i, text) == Found(db.store, i) /\ Call("text", WithText(db, i, text, TRUE))

Merge(i, doc, terms) ==
  Regular /\ db.store.idToSlot[i] = NoSlot /\ Call("merge", AfterMerge(db, i, doc, terms))

Compact == db.store.deleted # {} /\ Call("compact", CompactedDb(db))

Flush == Call("flush", Flushed(db))

Restart == /\ budget.restarts > 0
           /\ budget' = [budget EXCEPT !.restarts = @ - 1]
           /\ db' = Opened(db)

\* Records with and without a dense vector, as another store may have them.
AnyDoc == Doc \cup {[doc EXCEPT !.vec = None] : doc \in Doc}

Pairs == {q \in Id \X Id : q[1] # q[2]}

Orders == {<<i>> : i \in Id} \cup Pairs

\* Bound: the records of a batch have the same document, or different tokens and the
\* same metadata.
Next == \/ \E i \in Id, doc \in Doc : Set(i, doc)
        \/ \E q \in Orders, doc \in Doc : SetBatch(q, doc)
        \/ \E i \in Id, v \in {doc.vec : doc \in Doc} : UpdateVector(i, v)
        \/ \E i \in Id, m \in Meta : UpdateMeta(i, m)
        \/ \E q \in Orders : Delete(q)
        \/ \E i \in Id, x \in (SUBSET Term) \ {{}}, m \in Meta : SetSparse(i, x, m)
        \/ \E i \in Id, doc \in Doc, x \in (SUBSET Term) \ {{}} : SetHybridSparse(i, doc, x)
        \/ \E i \in Id, t \in Tokens, m \in Meta : StoreTokens(i, t, m)
        \/ \E q \in Pairs, docs \in [Id -> Tokens] :
             IsInjective(docs) /\ StoreBatch(q, docs, CHOOSE m \in Meta : TRUE)
        \/ \E i \in Id, doc \in Doc, text \in Text : SetWithText(i, doc, text)
        \/ \E i \in Id, text \in Text : SetWithTextRefused(i, text) \/ IndexText(i, text)
        \/ \E i \in Id, t \in Tokens, text \in Text, m \in Meta : StoreWithText(i, t, text, m)
        \/ \E i \in Id, doc \in AnyDoc, x \in SUBSET Term : Merge(i, doc, IF x = {} THEN None ELSE x)
        \/ Compact
        \/ Flush
        \/ Restart

Spec == Init /\ [][Next]_vars

-----------------------------------------------------------------------------
\* Properties.

\* The parts of the database have their types, and the record store under them is
\* consistent: also the one recovery rebuilt from the image and the log.
TypeOK ==
  /\ db.store \in [slots : Seq(Record \cup {None}), deleted : SUBSET Slot,
                   idToSlot : [Id -> Nat], liveCount : Int, dirty : SUBSET Slot]
  /\ Consistent(db.store)
  /\ db.engine \in Seq(Vec) \cup {None}
  /\ db.tokens \in [vectors : Seq(Int), offsets : Seq(Offset)]
  /\ db.fields \in [Field -> FieldIndex]
  /\ db.text \in [pending : [Id -> Text \cup {None}], shown : [Id -> Text \cup {None}]]

\* The metadata index holds, for every field, exactly the values of its type that the
\* live records have, at their slots: across updates, which move a record, deletes,
\* compaction, which renumbers the slots, and recovery.  Records that merge_from
\* added are not indexed before they are written again or the index is rebuilt.
FieldsAgree ==
  \A f \in Field :
    db.fields[f].entries =
      UNION {Contribution(db.fields, s, db.store.slots[s].meta, f) :
               s \in LiveSlots(db.store) \ db.merged}

\* The postings of the sparse index are those of the live records' sparse payloads, at
\* their slots.
SparseAgrees == db.sparse = PostingsOf(db.store)

\* Unless a call has left the two out of step, MultiVecStorage has the tokens of every
\* live record of a multi-vector store, at its slot.
TokensAgree ==
  db.multi /\ ~db.strayed =>
    \A s \in LiveSlots(db.store) :
      LET held == db.store.slots[s].aux.tokens
      IN  held # None => HasDocument(db.tokens, s) /\ TokensAt(db.tokens, s) = held

\* A text that can be found belongs to a record, unless its record was refused or its
\* removal was lost by a stop.
TextAgrees ==
  \A i \in Id : db.text.pending[i] # None => Found(db.store, i) \/ i \in db.orphans

\* A node of the engine is the slot of the record whose vector it holds: the searches
\* take the engine's node numbers for slots.  The comments say that an update makes a
\* new slot to maintain it; it does not hold once a slot has no node, which is so for
\* a record without a vector and for a tombstone after recovery.
NodesAreSlots ==
  db.engine # None =>
    \A s \in DenseSlots(db.store) :
      s \in DOMAIN db.engine /\ db.engine[s] = db.store.slots[s].vec
=============================================================================
