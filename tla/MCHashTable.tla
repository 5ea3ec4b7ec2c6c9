---------------------------- MODULE MCHashTable ----------------------------
(* Model checking of HashTable on a table that starts with two slots.      *)
EXTENDS HashTable, TLC

CONSTANTS k1, k2, k3, k4, v1, v2

(* k1, k2 and k4 collide at capacity 4 on its last slot, so that probes    *)
(* wrap around into k3's home; at capacity 8 only k1 and k2 still collide. *)
MCHash == k1 :> 3 @@ k2 :> 3 @@ k3 :> 0 @@ k4 :> 7

MCKey == {k1, k2, k3, k4}

MCValue == {v1, v2}
=============================================================================
