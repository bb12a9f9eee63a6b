--------------------------- MODULE MCRecordStore ---------------------------
(* RecordStore with small sets of names and payloads. *)
EXTENDS RecordStore, TLC

Symmetry == Permutations(Id) \cup Permutations(Vec)
=============================================================================
