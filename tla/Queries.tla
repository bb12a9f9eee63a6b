------------------------------ MODULE Queries ------------------------------
(***************************************************************************)
(* Metadata filters and the searches of a VectorStore: filter.rs,          *)
(* search.rs, the dense searches of mod.rs, planner.rs, and the searches   *)
(* of sparse_ops.rs, text_search.rs and multivec_ops.rs.                   *)
(*                                                                         *)
(* A search changes nothing, so it is an operator on the database: the set *)
(* of the answers it may give, each the set of ids it returns.  The engine *)
(* is approximate: it may answer with any nodes, so what is shown here     *)
(* holds whatever the graph looks like (module Hnsw models the graph).     *)
(* Scores only order and cut the lists: where they are no distances, any k *)
(* candidates may be the best.                                             *)
(***************************************************************************)
EXTENDS IndexedStore

CONSTANTS Query,   \* the filters asked, as JSON: sets of clauses
          MaxK     \* bound on k

-----------------------------------------------------------------------------
\* Filters.  A clause of a query has a key: "$and" and "$or" with queries, "$not" with a
\* query, "eq" with a field and a value, "ops" with a field and operators [op, arg] or
\* [op, args], which is for $in.

Combined(parts) ==
  IF \E p \in parts : p = None THEN None
  ELSE IF Cardinality(parts) = 1 THEN CHOOSE p \in parts : TRUE
  ELSE [op |-> "and", parts |-> parts]

\* parse_field_operators: thresholds must be numbers, $contains needs a string.
ParseFieldOperators(field, ops) ==
  Combined({CASE o.op = "in" -> [op |-> "in", field |-> field, args |-> o.args]
              [] o.op \in Comparisons /\ o.arg.type # "number" -> None
              [] o.op = "contains" /\ o.arg.type # "string" -> None
              [] OTHER -> [op |-> o.op, field |-> field, arg |-> o.arg] : o \in ops})

\* MetadataFilter::from_json: None for a query that is refused.
RECURSIVE FromJson(_)
FromJson(q) ==
  LET Clause(c) ==
        CASE c.key = "$not" -> LET inner == FromJson(c.query)
                               IN  IF inner = None THEN None ELSE [op |-> "not", part |-> inner]
          [] c.key \in {"$and", "$or"} ->
               LET parts == {FromJson(x) : x \in c.queries}
               IN  IF None \in parts THEN None
                   ELSE [op |-> IF c.key = "$and" THEN "and" ELSE "or", parts |-> parts]
          [] c.key = "eq"  -> [op |-> "eq", field |-> c.field, arg |-> c.value]
          [] c.key = "ops" -> ParseFieldOperators(c.field, c.ops)
  IN  IF q = {} THEN None ELSE Combined({Clause(c) : c \in q})

\* MetadataFilter::matches
RECURSIVE Matches(_, _)
Matches(F, document) ==
  LET v == document[F.field]
  IN  CASE F.op = "eq"  -> v = F.arg
        [] F.op = "ne"  -> v # F.arg
        [] F.op = "in"  -> v # None /\ v \in F.args
        [] F.op \in Comparisons -> v # None /\ v.type = "number" /\ Compare(F.op, v.val, F.arg.val)
        [] F.op = "contains"    -> v # None /\ v.type = "string" /\ F.arg.val <= v.val
        [] F.op = "and" -> \A p \in F.parts : Matches(p, document)
        [] F.op = "or"  -> \E p \in F.parts : Matches(p, document)
        [] F.op = "not" -> ~Matches(F.part, document)

Intersection(sets) == {x \in UNION sets : \A S \in sets : x \in S}

\* (Mutation of EvaluateBitmap: a part that has no bitmap is skipped.)
RECURSIVE EvaluateBitmapSkips(_, _)
EvaluateBitmapSkips(F, index) ==
  LET parts == {EvaluateBitmapSkips(p, index) : p \in F.parts}
  IN  CASE F.op = "eq" -> IF F.arg.type = "other" THEN None ELSE EqDocs(index, F.field, F.arg)
        [] F.op = "in" -> UNION ({EqDocs(index, F.field, v) : v \in F.args} \ {None})
        [] F.op \in Comparisons -> RangeDocs(index, F.field, F.op, F.arg.val)
        [] F.op = "and" -> Intersection(parts \ {None})
        [] F.op = "or"  -> UNION (parts \ {None})
        [] OTHER -> None

\* MetadataFilter::evaluate_bitmap: the slots that match, or None for a filter that
\* the index cannot answer.  In always answers, whatever its values; And and Or
\* answer if all their parts do.
RECURSIVE EvaluateBitmap(_, _)
EvaluateBitmap(F, index) ==
  LET parts == {EvaluateBitmap(p, index) : p \in F.parts}
  IN  CASE F.op = "eq" -> IF F.arg.type = "other" THEN None ELSE EqDocs(index, F.field, F.arg)
        [] F.op = "in" -> UNION ({EqDocs(index, F.field, v) : v \in F.args} \ {None})
        [] F.op \in Comparisons -> RangeDocs(index, F.field, F.op, F.arg.val)
        [] F.op = "and" -> IF None \in parts \/ parts = {} THEN None ELSE Intersection(parts)
        [] F.op = "or"  -> IF None \in parts THEN None ELSE UNION parts
        [] OTHER -> None

\* MetadataIndex::matches
RECURSIVE IndexMatches(_, _, _)
IndexMatches(index, d, F) ==
  CASE F.op = "eq" -> IndexEq(index, d, F.field, F.arg)
    [] F.op = "ne" -> ~IndexEq(index, d, F.field, F.arg)
    [] F.op = "in" -> \E v \in F.args : IndexEq(index, d, F.field, v)
    [] F.op \in Comparisons -> IndexCompares(index, d, F.field, F.op, F.arg.val)
    [] F.op = "and" -> \A p \in F.parts : IndexMatches(index, d, p)
    [] F.op = "or"  -> \E p \in F.parts : IndexMatches(index, d, p)
    [] F.op = "not" -> ~IndexMatches(index, d, F.part)

Filters == {FromJson(q) : q \in Query} \ {None}

-----------------------------------------------------------------------------
\* Dense search.

\* What a filter sees of a record: DEFAULT_METADATA if it has none.
MetaAt(d, s) == IF d.store.slots[s].meta = None THEN [f \in Field |-> None]
                                                ELSE d.store.slots[s].meta

\* is_live
IsLive(d, s) == s \in DOMAIN d.store.slots /\ s \notin d.store.deleted

\* get_result_fields_by_slot, for every slot of an answer.
SlotsToSearchResults(d, slots) == {d.store.slots[s].id : s \in slots \cap LiveSlots(d.store)}

Distance(q, v) == IF v > q THEN v - q ELSE q - v

\* The answers that a sort by distance, cut at k, may give.
Nearest(slots, dist, k) ==
  {S \in SUBSET slots : /\ Cardinality(S) = IF Cardinality(slots) < k THEN Cardinality(slots) ELSE k
                        /\ \A s \in S, t \in slots \ S : dist[s] <= dist[t]}

AnyBest(slots, k) == Nearest(slots, [s \in slots |-> 0], k)

Distances(d, q) == [s \in DenseSlots(d.store) |-> Distance(q, d.store.slots[s].vec)]

BruteForceSearch(d, q, k) ==
  Nearest(DenseSlots(d.store), Distances(d, q), k)

\* What the engine may answer: some nodes, if it has any, and only nodes that pass.
Nodes(d) == IF d.engine = None THEN {} ELSE DOMAIN d.engine

EngineSearch(d, k) == {H \in SUBSET Nodes(d) : Cardinality(H) \in 1..k}

EngineSearchWithFilter(d, k, passing) == {H \in SUBSET passing : Cardinality(H) <= k}

\* knn_search_core: an engine without nodes answers nothing.
KnnSearchCore(d, q, k) ==
  IF Nodes(d) # {} THEN EngineSearch(d, k) ELSE BruteForceSearch(d, q, k)

\* rescore_results: candidates that are no dense record are dropped.
RescoreResults(d, q, candidates, k) ==
  Nearest(candidates \cap DenseSlots(d.store), Distances(d, q), k)

\* knn_search_ef: with quantization the engine is asked for more, and rescored.
KnnSearch(d, q, k) ==
  LET kept == {c \cap DenseSlots(d.store) : c \in KnnSearchCore(d, q, 2 * k)}
  IN  KnnSearchCore(d, q, k) \cup UNION {RescoreResults(d, q, c, k) : c \in kept}

\* (Mutation of Fallback: what the engine found is all there is.)
NoFallback(d, q, k, found) == {SlotsToSearchResults(d, found)}

\* slots_to_results_with_fallback
Fallback(d, q, k, found) ==
  LET live == SlotsToSearchResults(d, found)
  IN  IF live = {} /\ d.store.liveCount # 0
      THEN {SlotsToSearchResults(d, S) : S \in BruteForceSearch(d, q, k)} ELSE {live}

\* (Mutation of PassesFilter: the engine's filter forgets the tombstones.)
PassesDead(d, F, bitmap, s) ==
  /\ s \in DOMAIN d.store.slots
  /\ IF bitmap # None THEN s \in bitmap ELSE Matches(F, MetaAt(d, s))

\* The filter_fn of knn_search_filtered_core.
PassesFilter(d, F, bitmap, s) ==
  /\ IsLive(d, s)
  /\ IF bitmap # None THEN s \in bitmap ELSE Matches(F, MetaAt(d, s))

BruteForceFiltered(d, q, k, F, bitmap) ==
  Nearest({s \in DenseSlots(d.store) : PassesFilter(d, F, bitmap, s)}, Distances(d, q), k)

KnnSearchFiltered(d, q, k, F) ==
  LET bitmap == EvaluateBitmap(F, d.fields)
      pass   == {n \in Nodes(d) : PassesFilter(d, F, bitmap, n)}
      found  == {SlotsToSearchResults(d, H) : H \in EngineSearchWithFilter(d, k, pass)}
  IN  (found \ {{}}) \cup
      IF {} \in found
      THEN {SlotsToSearchResults(d, S) : S \in BruteForceFiltered(d, q, k, F, bitmap)} ELSE {}

\* search_with_options, without and with a filter; validate_search_query refuses k = 0.
Search(d, q, k) == UNION {Fallback(d, q, k, found) : found \in KnnSearch(d, q, k)}

-----------------------------------------------------------------------------
\* Sparse, text and multi-vector search.

\* sparse_search: search_with_bitmap, or an over-fetch that is filtered afterwards;
\* tombstones are not looked at, the postings of a deleted record are gone.
SparseSearch(d, terms, k, F) ==
  LET hits   == SlotsIn({p \in d.sparse : p.term \in terms})
      bitmap == IF F = None THEN None ELSE EvaluateBitmap(F, d.fields)
      slots  == IF F = None THEN AnyBest(hits, k)
                ELSE IF bitmap # None THEN AnyBest(hits \cap bitmap, k)
                ELSE UNION {AnyBest({s \in C : PassesFilter(d, F, None, s)}, k) :
                              C \in AnyBest(hits, 4 * k)}
  IN  {{d.store.slots[s].id : s \in {x \in S : d.store.slots[x] # None}} : S \in slots}

\* Reciprocal rank fusion of two answers: the k best of their union.
Fused(X, Y, k) == UNION {AnyBest(x \cup y, k) : x \in X, y \in Y}

\* hybrid_sparse_search
HybridSparseSearch(d, q, terms, k, F) ==
  Fused(IF F = None THEN Search(d, q, 4 * k) ELSE KnnSearchFiltered(d, q, 4 * k, F),
        SparseSearch(d, terms, 4 * k, F), k)

\* search_text: what the reader shows, whether or not the record is live.
SearchText(d, k) == AnyBest({i \in Id : d.text.shown[i] # None}, k)

\* filter_text_results_by_metadata and its twin in the planner.
MatchingTexts(d, F, ids) ==
  {i \in ids : Found(d.store, i) /\ RecordOf(d.store, i).meta # None
               /\ Matches(F, RecordOf(d.store, i).meta)}

\* get_id does not look at tombstones.
IdsOf(d, slots) ==
  {d.store.slots[s].id : s \in {x \in slots \cap DOMAIN d.store.slots : d.store.slots[x] # None}}

\* QueryPlanner::search_hybrid, taken if there is an engine; its slow path passes no
\* record without metadata.
PlannerHybrid(d, k, F) ==
  LET bitmap  == IF F = None THEN None ELSE EvaluateBitmap(F, d.fields)
      pass    == {n \in Nodes(d) : /\ PassesFilter(d, F, bitmap, n)
                                  /\ (bitmap # None \/ d.store.slots[n].meta # None)}
      dense   == IF F = None THEN EngineSearch(d, 2 * k) ELSE EngineSearchWithFilter(d, 4 * k, pass)
      texts   == IF F = None THEN SearchText(d, 2 * k)
                 ELSE {MatchingTexts(d, F, T) : T \in SearchText(d, 4 * k)}
  IN  Fused({IdsOf(d, H) : H \in dense}, texts, k)

\* search_hybrid without an engine: fetch_hybrid_candidates.
PlainHybrid(d, q, k, F) ==
  IF F = None
  THEN Fused({IdsOf(d, S) : S \in KnnSearch(d, q, 2 * k)}, SearchText(d, 2 * k), k)
  ELSE Fused(KnnSearchFiltered(d, q, 4 * k, F),
             {MatchingTexts(d, F, T) : T \in SearchText(d, 4 * k)}, k)

SearchHybrid(d, q, k, F) ==
  IF d.engine # None THEN PlannerHybrid(d, k, F) ELSE PlainHybrid(d, q, k, F)

\* search_multi_bruteforce: MaxSim over the live slots that MultiVecStorage reaches.
MultiBruteForce(d, k) ==
  {SlotsToSearchResults(d, S) : S \in AnyBest(LiveSlots(d.store) \cap DOMAIN d.tokens.offsets, k)}

\* search_multi_rerank: the engine's candidates, live and with tokens.
MultiRerank(d, q, k, factor) ==
  UNION {{SlotsToSearchResults(d, S) :
            S \in AnyBest({s \in C : IsLive(d, s) /\ s \in DOMAIN d.tokens.offsets}, k)} :
           C \in KnnSearch(d, q, factor * k)}

\* search_multi_approx: live candidates, and no second try.
MultiApprox(d, q, k) ==
  {SlotsToSearchResults(d, {s \in C : IsLive(d, s)}) : C \in KnnSearch(d, q, k)}

\* search_multi_with_text: the mapped texts whose slot has tokens.
MultiWithText(d, k) ==
  UNION {AnyBest({i \in T : d.store.idToSlot[i] \in DOMAIN d.tokens.offsets}, k) : T \in SearchText(d, 10 * k)}

\* search_multi_with_sparse
MultiWithSparse(d, terms, k) ==
  LET hits == SlotsIn({p \in d.sparse : p.term \in terms})
  IN  UNION {{SlotsToSearchResults(d, S) :
                S \in AnyBest({s \in C : IsLive(d, s) /\ s \in DOMAIN d.tokens.offsets}, k)} :
               C \in AnyBest(hits, 10 * k)}

\* query_with_options and search_multi_internal: a small store is searched by brute
\* force, unless reranking is off.
QueryMulti(d, q, k, rerank) ==
  IF rerank = "off" THEN MultiApprox(d, q, k)
  ELSE IF d.store.liveCount > 0 THEN MultiBruteForce(d, k)
  ELSE MultiRerank(d, q, k, 20)

-----------------------------------------------------------------------------
\* Properties.

\* Equality as the index has it: numbers by their f64.
RECURSIVE MatchesRoughly(_, _)
MatchesRoughly(F, document) ==
  LET v == document[F.field]
      Same(x, y) == x.type = y.type /\ x.val = y.val
  IN  CASE F.op = "eq"  -> v # None /\ Same(v, F.arg)
        [] F.op = "in"  -> v # None /\ \E x \in F.args : Same(v, x)
        [] F.op = "and" -> \A p \in F.parts : MatchesRoughly(p, document)
        [] F.op = "or"  -> \E p \in F.parts : MatchesRoughly(p, document)
        [] OTHER -> Matches(F, document)

RECURSIVE FieldsIn(_)
FieldsIn(F) == IF F.op \in {"and", "or"} THEN UNION {FieldsIn(p) : p \in F.parts}
               ELSE IF F.op = "not" THEN FieldsIn(F.part) ELSE {F.field}

\* Every live value of the filter's fields has the type of its index.
OneType(d, F) ==
  \A f \in FieldsIn(F), s \in LiveSlots(d.store) :
    d.store.slots[s].meta[f] # None => d.store.slots[s].meta[f].type = d.fields[f].type

\* A filter that the index answers is answered as the records would: no slot in its
\* bitmap is dead or fails to match, and where the field holds values of one type none
\* that matches is missing; and the index's two evaluators agree on every slot.
FilterExact ==
  \A F \in Filters :
    LET bitmap == EvaluateBitmap(F, db.fields)
        live   == LiveSlots(db.store)
        match  == {s \in live : MatchesRoughly(F, MetaAt(db, s))}
    IN  bitmap # None =>
          /\ bitmap \subseteq match
          /\ OneType(db, F) => match \ db.merged \subseteq bitmap
          /\ \A s \in DOMAIN db.store.slots : s \in bitmap <=> IndexMatches(db.fields, s, F)

\* Whatever nodes the engine comes up with, in whatever numbering, a search answers
\* with live records only, a filtered search, dense, sparse or hybrid, with records
\* that match its filter, and a search of the tokens with records that have some.
\* (With the largest k: a smaller one gives parts of these answers.)
AnswersSound ==
  LET k    == MaxK
      live == {i \in Id : Found(db.store, i)}
      Match(F) == {i \in live : MatchesRoughly(F, MetaAt(db, db.store.idToSlot[i]))}
  IN  /\ Search(db, 0, k) \cup SparseSearch(db, Term, k, None)
           \cup HybridSparseSearch(db, 0, Term, k, None) \subseteq SUBSET live
      /\ \A F \in Filters :
           KnnSearchFiltered(db, 0, k, F) \cup SparseSearch(db, Term, k, F)
             \cup SearchHybrid(db, 0, k, F) \subseteq SUBSET Match(F)
      /\ db.multi => QueryMulti(db, 0, k, "on") \cup QueryMulti(db, 0, k, "off")
                       \cup MultiWithSparse(db, Term, k) \cup MultiWithText(db, k) \subseteq SUBSET live

\* A dense search does not come back empty-handed while a live record has a vector,
\* although the engine's nodes may all be tombstones or beyond the slots; and no record
\* that the brute-force search of the tokens should score is out of its reach.
AnswersFound ==
  \A k \in 1..MaxK :
    /\ DenseSlots(db.store) # {} => {} \notin Search(db, 0, k)
    /\ db.multi /\ ~db.strayed /\ k >= Cardinality(LiveSlots(db.store)) =>
         \A ids \in MultiBruteForce(db, k) :
           {i \in Id : Found(db.store, i) /\ RecordOf(db.store, i).aux.tokens # None} \subseteq ids
=============================================================================
