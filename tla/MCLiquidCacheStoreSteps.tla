---------------------- MODULE MCLiquidCacheStoreSteps ----------------------
(* Instances of LiquidCacheStoreSteps for TLC: without symmetry, which does *)
(* not go with the liveness property.                                       *)
EXTENDS LiquidCacheStoreSteps
=============================================================================
