---------------------------- MODULE MCOmenStore ----------------------------
\* OmenStore for TLC: keys and values are interchangeable.
EXTENDS OmenStore, TLC

Symmetry == Permutations(Key) \cup Permutations(Val)
=============================================================================
