--------------------------- MODULE MCMonomialMap ---------------------------
(***************************************************************************)
(* MonomialMap on tables of 2, 4 and 8 buckets, for at most 1, 2 and 3     *)
(* entries: two growths, of which the second finds two nodes to move.      *)
(***************************************************************************)
EXTENDS MonomialMap, TLC

CONSTANTS k1, k2, k3, t1, t2

KeysDef == {k1, k2, k3}

(* One bucket holds all three until there are 8 buckets; then k2 is alone,
   and k1 and k3 stay together. *)
HashDef == k1 :> 1 @@ k2 :> 5 @@ k3 :> 9

PairsDef == {<<k1, k2>>}

Symmetry == Permutations(Threads)

(* Bound: a map that has been cleared is followed until one entry is in it. *)
OneEntryOnceCleared == clears = 0 \/ Len(keyOf) <= 1
=============================================================================
