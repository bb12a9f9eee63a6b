----------------------------- MODULE DurableMap -----------------------------
(***************************************************************************)
(* What a persistent store promises: a map that a restart of the process   *)
(* may take back only to values it has not yet promised to keep.           *)
(***************************************************************************)
EXTENDS Naturals

CONSTANTS Key, Content, Absent

VARIABLES map,        \* what a reader sees
          survivors,  \* survivors[k]: what a restart may leave under k
          restarts    \* how often the process was restarted, so that no
                      \* restart passes for a write

Init == /\ map = [k \in Key |-> Absent]
        /\ restarts = 0
        /\ survivors = [k \in Key |-> {Absent}]

\* A logged write that has returned: nothing else may survive.
Commit(k, d) == /\ map' = [map EXCEPT ![k] = d]
                /\ survivors' = [survivors EXCEPT ![k] = {d}]
                /\ UNCHANGED restarts

\* A write that has not returned, or was not logged: the old values may survive too.
Write(k, d) == /\ map' = [map EXCEPT ![k] = d]
               /\ survivors' = [survivors EXCEPT ![k] = @ \cup {d}]
               /\ UNCHANGED restarts

\* A checkpoint that has returned: what is in the map is what survives.
Persist == /\ survivors' = [k \in Key |-> {map[k]}]
           /\ UNCHANGED <<map, restarts>>

Restart == /\ map' \in [Key -> Content \cup {Absent}]
           /\ \A k \in Key : map'[k] \in survivors[k]
           /\ survivors' = [k \in Key |-> {map'[k]}]
           /\ restarts' = restarts + 1

Next == \/ \E k \in Key, d \in Content \cup {Absent} : Commit(k, d) \/ Write(k, d)
        \/ Persist
        \/ Restart

Spec == Init /\ [][Next]_<<map, survivors, restarts>>
=============================================================================
