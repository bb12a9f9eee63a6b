--------------------------- MODULE MetadataIndex ---------------------------
(***************************************************************************)
(* MetadataIndex (src/vector/metadata.rs): for every field of the metadata *)
(* documents an inverted index, typed by the first value that was indexed. *)
(*                                                                         *)
(* A JSON value is [type, val, form].  Strings are numbered so that string *)
(* m is a substring of string n iff m <= n; false and true are 0 and 1.    *)
(* A number has the f64 val and a form: 1 and 1.0, or two large integers,  *)
(* have one val and are different JSON values.                             *)
(***************************************************************************)
EXTENDS Integers, FiniteSets

CONSTANTS Field,   \* field names
          Absent   \* a field that a document does not have

IndexedType == {"string", "bool", "number"}

Value == [type : IndexedType \cup {"other"}, val : Int, form : {"plain", "float"}]

\* A metadata document, a field index and a metadata index.
Document == [Field -> Value \cup {Absent}]

FieldIndex == [type : IndexedType \cup {"none"}, entries : SUBSET [doc : Nat, val : Int]]

EmptyIndex == [f \in Field |-> [type |-> "none", entries |-> {}]]

\* index_json with keyword_index, boolean_index and numeric_index: a field takes
\* the type of its first value and skips the values of other types; null, arrays
\* and objects are not indexed.
IndexJson(index, d, document) ==
  [f \in Field |->
     LET v == document[f]
     IN  IF v = Absent \/ v.type = "other" \/ index[f].type \notin {"none", v.type}
         THEN index[f]
         ELSE [type |-> v.type, entries |-> index[f].entries \cup {[doc |-> d, val |-> v.val]}]]

\* remove: the field keeps its type, also with no entry left.
Unindexed(index, d) ==
  [f \in Field |-> [index[f] EXCEPT !.entries = {e \in @ : e.doc # d}]]

\* What a document contributes to an index of these types.
Contribution(index, d, document, f) ==
  LET v == document[f]
  IN  IF v # Absent /\ v.type = index[f].type THEN {[doc |-> d, val |-> v.val]} ELSE {}

-----------------------------------------------------------------------------
\* Posting lists.  A list is dropped with its last document, except for the two
\* of a boolean field: None stands for a list that is not there.

CONSTANT None

\* KeywordIndex::get, BooleanIndex::get_true and get_false, NumericIndex::get_eq
EqDocs(index, f, v) ==
  LET docs == {e.doc : e \in {x \in index[f].entries : x.val = v.val}}
  IN  IF index[f].type # v.type \/ (docs = {} /\ v.type # "bool") THEN None ELSE docs

Comparisons == {"gt", "gte", "lt", "lte"}

Compare(op, x, y) == CASE op = "gt" -> x > y [] op = "gte" -> x >= y
                       [] op = "lt" -> x < y [] op = "lte" -> x <= y

\* NumericIndex::get_range and entries_range
RangeDocs(index, f, op, bound) ==
  IF index[f].type # "number" THEN None
  ELSE {e.doc : e \in {x \in index[f].entries : Compare(op, x.val, bound)}}

\* MetadataIndex::matches_eq, matches_gt, matches_gte, matches_lt, matches_lte
IndexEq(index, d, f, v) ==
  index[f].type = v.type /\ [doc |-> d, val |-> v.val] \in index[f].entries

IndexCompares(index, d, f, op, bound) ==
  index[f].type = "number" /\ \E e \in index[f].entries : e.doc = d /\ Compare(op, e.val, bound)
=============================================================================
