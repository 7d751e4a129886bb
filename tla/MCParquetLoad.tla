--------------------------- MODULE MCParquetLoad ---------------------------
(* Instances of ParquetLoad for TLC. *)
EXTENDS ParquetLoad, TLC

CONSTANT f1

\* A file of two row groups, and what is left of it later.
Long  == <<[offset |-> 1, batches |-> 2], [offset |-> 3, batches |-> 1]>>
Short == <<[offset |-> 1, batches |-> 1]>>

LongOrShort == {Long, Short}
OneFile == {<<f1>>, <<f1, f1>>}
SecondBatch == {<<f1, 1, 1, 1>>}
TwoColumns == {<<1>>, <<2, 1>>}

Symmetry == Permutations(Loaders)
============================================================================
