--------------------------- MODULE BoundedCache ---------------------------
(***************************************************************************)
(* What a cache with a byte limit promises, whatever its eviction policy:  *)
(* it is a partial map that may forget, that maps a key only to what was   *)
(* last stored under it, and that grows only up to the limit in force.     *)
(***************************************************************************)
EXTENDS EntryBytes

CONSTANTS
  Keys,
  Entries,
  Limits,    \* 0 is the limit of an unlimited cache
  Bytes(_)   \* how many bytes a map of entries takes

VARIABLES cache, limit

vars == <<cache, limit>>

Init == cache = <<>> /\ limit \in Limits

\* Storing under a key may cost other keys their entries.
Store(key, entry) ==
  /\ \E lost \in SUBSET (DOMAIN cache \ {key}) :
       cache' = Put(Without(cache, lost), key, entry)
  /\ \/ limit = 0
     \/ Bytes(cache') <= limit
     \/ Bytes(cache') <= Bytes(cache)
  /\ UNCHANGED limit

\* Entries may be lost without anything being stored.
Forget ==
  /\ \E lost \in SUBSET DOMAIN cache : cache' = Without(cache, lost)
  /\ UNCHANGED limit

\* A lower limit does not evict.
SetLimit(new) == limit' = new /\ UNCHANGED cache

Next ==
  \/ \E key \in Keys, entry \in Entries : Store(key, entry)
  \/ Forget
  \/ \E new \in Limits : SetLimit(new)

Spec == Init /\ [][Next]_vars
=============================================================================
