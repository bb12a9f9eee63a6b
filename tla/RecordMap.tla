----------------------------- MODULE RecordMap -----------------------------
(***************************************************************************)
(* What a RecordStore promises to its callers: a map from record names to  *)
(* records.  No slots, no tombstones, no compaction, no checkpoint: those  *)
(* must be invisible.  Which of these operations a call must be is said in *)
(* RecordStore, call by call.                                              *)
(***************************************************************************)
CONSTANTS Id, Vec, Aux, Meta, NoVec, NoAux, NoMeta, Absent

VARIABLE recs      \* recs[i]: the fields of record i, or Absent

Kept(i) == IF recs[i] = Absent THEN [vec |-> NoVec, aux |-> NoAux, meta |-> NoMeta]
                               ELSE recs[i]

Init == recs = [i \in Id |-> Absent]

Replace(i, f) == recs' = [recs EXCEPT ![i] = f]

Set(i, v, m) == Replace(i, [vec |-> v, aux |-> Kept(i).aux, meta |-> m])

SetWithoutVector(i, m) == Replace(i, [vec |-> Kept(i).vec, aux |-> Kept(i).aux, meta |-> m])

Delete(i) == /\ recs[i] # Absent
             /\ recs' = [recs EXCEPT ![i] = Absent]

UpdateMetadata(i, m) == /\ recs[i] # Absent
                        /\ Replace(i, [recs[i] EXCEPT !.meta = m])

UpdateAux(i, x) == /\ recs[i] # Absent
                   /\ Replace(i, [recs[i] EXCEPT !.aux = x])

Next == \E i \in Id :
           \/ \E m \in Meta \cup {NoMeta} :
                SetWithoutVector(i, m) \/ \E v \in Vec : Set(i, v, m)
           \/ \E m \in Meta : UpdateMetadata(i, m)
           \/ \E x \in Aux \cup {NoAux} : UpdateAux(i, x)
           \/ Delete(i)

Spec == Init /\ [][Next]_recs
=============================================================================
