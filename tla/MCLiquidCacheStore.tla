------------------------ MODULE MCLiquidCacheStore ------------------------
(* Instances of LiquidCacheStore for TLC. *)
EXTENDS LiquidCacheStore, TLC

Symmetry == Permutations(Keys)
===========================================================================
