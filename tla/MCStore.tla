------------------------------ MODULE MCStore ------------------------------
(* Instances of Store for TLC: two threads that share a store with room for *)
(* two objects.                                                             *)
EXTENDS Store

CONSTANTS t1, t2, s1, s2, o1, o2, o3, o4, k1, k2

MCKeyOf == (o1 :> k1 @@ o2 :> k1 @@ o3 :> k2 @@ o4 :> k2)
MCSizeOf == (o1 :> 32 @@ o2 :> 16 @@ o3 :> 16 @@ o4 :> 16)

Symmetry == Permutations({t1, t2}) \cup Permutations({s1, s2})
=============================================================================
