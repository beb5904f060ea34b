---------------------------- MODULE MCHashTable ----------------------------
(* An instance of HashTable for TLC: a table of six slots, a cluster of keys *)
(* that wraps around its end, and one growth.                                *)
EXTENDS HashTable, TLC

CONSTANTS k1, k2, k3, k4, k5, k6, t1, t2

MCHash == (k1 :> 5 @@ k2 :> 5 @@ k3 :> 4 @@ k4 :> 11 @@ k5 :> 0 @@ k6 :> 2)

Symmetry == Permutations({t1, t2})
=============================================================================
