---------------------------- MODULE MCLruPolicy ----------------------------
(* Instances of LruPolicy for TLC. *)
EXTENDS LruPolicy

Symmetry == Permutations(Keys) \cup Permutations(Nodes)
============================================================================
