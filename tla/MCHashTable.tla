---------------------------- MODULE MCHashTable -----------------------------
(* HashTable for TLC.  With a minimum capacity of 4 the thresholds are 3   *)
(* and 0, then 6 and 1: four keys grow the table and shrink it again.  The *)
(* hashes collide in the small table, two of them also in the large one,   *)
(* and one chain runs over the end of the storage.                         *)
EXTENDS HashTable, TLC

CONSTANTS k1, k2, k3, k4, k5

Colliding == (k1 :> 3) @@ (k2 :> 3) @@ (k3 :> 7) @@ (k4 :> 2) @@ (k5 :> 0)
=============================================================================
