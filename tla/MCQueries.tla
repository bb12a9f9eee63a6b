------------------------------ MODULE MCQueries -----------------------------
\* Queries for TLC: documents with a number or a string in a field, and one query of
\* each kind.
EXTENDS Queries

Symmetry == Permutations(Id)

One(form) == [type |-> "number", val |-> 1, form |-> form]
Two == [type |-> "number", val |-> 2, form |-> "plain"]
Str == [type |-> "string", val |-> 1, form |-> "plain"]
Null == [type |-> "other", val |-> 0, form |-> "plain"]

MCDoc == {[vec |-> 1, meta |-> [f \in Field |-> One("plain")]],
          [vec |-> 2, meta |-> [f \in Field |-> Str]]}

MCTokens == {<<4>>, <<5, 6>>}

Eq(v) == {[key |-> "eq", field |-> f, value |-> v] : f \in Field}
Ops(op, v) == {[key |-> "ops", field |-> f, ops |-> {[op |-> op, arg |-> v]}] : f \in Field}
In(values) == {[key |-> "ops", field |-> f, ops |-> {[op |-> "in", args |-> values]}] : f \in Field}
List(key, queries) == {[key |-> key, queries |-> queries]}
Not(q) == {[key |-> "$not", query |-> q]}

MCQuery == {Eq(One("float")), Eq(Str), Ops("gte", One("plain")), Ops("lt", Two), Ops("gt", Str),
            In({One("plain"), Null}),
            List("$and", {Eq(One("plain")), Ops("lte", Two)}),
            List("$or", {Eq(One("plain")), Ops("contains", Str)}),
            List("$and", {}), Not(Eq(Str)), Eq(Str) \cup Ops("ne", Two), {}}
=============================================================================
