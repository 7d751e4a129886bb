-------------------------- MODULE MCMemoryBudget --------------------------
(* Instances of MemoryBudget for TLC: without symmetry, which does not go  *)
(* with the liveness property.                                             *)
EXTENDS MemoryBudget
===========================================================================
