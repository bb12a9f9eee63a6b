---------------------------- MODULE MCGraphStore ----------------------------
\* GraphStore for TLC: ids, types and data are interchangeable.
EXTENDS GraphStore, TLC

Symmetry == Permutations(Id) \cup Permutations(Type) \cup Permutations(Datum)
=============================================================================
