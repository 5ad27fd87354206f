---------------------------- MODULE MCHashTable ----------------------------
(* An instance of HashTable for TLC: one bucket at first, four from the     *)
(* first entry on, sixteen from the fourth.  As strings, keys a, b and c    *)
(* share a bucket of four, a and b one of sixteen; as words, all but b      *)
(* share a bucket of four, and a, d and e one of sixteen.                   *)
EXTENDS HashTable

CONSTANTS a, b, c, d, e, v1, v2

(* The values are only stored and compared. *)
MCValueSymmetry == Permutations(Values)

MCHash == a :> 0 @@ b :> 16 @@ c :> 4 @@ d :> 1 @@ e :> 3
==============================================================================
