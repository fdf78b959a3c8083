------------------------------ MODULE KeyedMap ------------------------------
(***************************************************************************)
(* What stree.h promises its users: a map from keys to records, one        *)
(* operation at a time.  `result` is what the last operation returned.     *)
(***************************************************************************)
EXTENDS Integers

CONSTANTS Keys, Records, NULL

VARIABLES map, result

Init == map = [k \in Keys |-> NULL] /\ result = NULL

\* "Insertion function updates key if already have key in tree."
Insert(k, r) == map' = [map EXCEPT ![k] = r] /\ result' = TRUE

Find(k) == result' = map[k] /\ UNCHANGED map

\* "Find element with largest key <= given key."
FindNearest(k) ==
  LET below == {j \in Keys : j <= k /\ map[j] # NULL}
  IN /\ result' = IF below = {} THEN NULL
                  ELSE map[CHOOSE j \in below : \A i \in below : i <= j]
     /\ UNCHANGED map

Remove(k) == map' = [map EXCEPT ![k] = NULL] /\ result' = map[k]

Next ==
  \E k \in Keys :
    \/ \E r \in Records : Insert(k, r)
    \/ Find(k)
    \/ FindNearest(k)
    \/ Remove(k)

Spec == Init /\ [][Next]_<<map, result>>
=============================================================================
