---------------------------- MODULE MCJniBridge ----------------------------
(* Instances of JniBridge for TLC. *)
EXTENDS JniBridge, TLC

Symmetry == Permutations(Threads)
============================================================================
