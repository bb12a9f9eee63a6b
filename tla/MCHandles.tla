----------------------------- MODULE MCHandles -----------------------------
\* Handles on a small instance: ids and values are interchangeable.  What happens
\* after a path is marred is not explored: the properties claim nothing of it.
EXTENDS Handles, TLC

Symmetry == Permutations(Id) \cup Permutations(Val)

Unmarred == marred = {}
=============================================================================
