---------------------------- MODULE RecencyList ----------------------------
(***************************************************************************)
(* The list operations of LruPolicy<Key> (lru_policy.h).  list_ is a       *)
(* sequence of keys, the most recently used first; map_ gives the place of *)
(* a key in list_, so a key is tracked when it occurs in the sequence      *)
(* (module LruPolicy keeps list_ and map_ apart and checks that they       *)
(* agree).  Every operation of the class holds its own mutex throughout,   *)
(* so each is one operator here.                                           *)
(***************************************************************************)
EXTENDS Integers, Sequences, Functions

Tracked(list) == Range(list)

\* map_.find(key): the iterator of a tracked key.
Place(list, key) == CHOOSE i \in DOMAIN list : list[i] = key

\* list_.splice(list_.begin(), list_, it): the key moves to the front, the
\* keys that were before it move back by one place.
Splice(list, key) ==
  LET place == Place(list, key)
  IN  [i \in DOMAIN list |->
         IF i = 1 THEN key ELSE IF i <= place THEN list[i - 1] ELSE list[i]]

NotifyInsert(list, key) ==
  IF key \in Tracked(list) THEN Splice(list, key) ELSE <<key>> \o list

NotifyAccess(list, key) ==
  IF key \in Tracked(list) THEN Splice(list, key) ELSE list

\* The keys find_victims(count) pops from the back, as a set, and the list
\* it leaves behind.  It pops fewer than count when the list is shorter.
PopCount(list, count) == IF count <= Len(list) THEN count ELSE Len(list)

Oldest(list, count) ==
  {list[i] : i \in (Len(list) - PopCount(list, count) + 1) .. Len(list)}

\* Mutant of WithoutOldest: the victims stay in the list.
WithOldest(list, count) == list

WithoutOldest(list, count) ==
  SubSeq(list, 1, Len(list) - PopCount(list, count))

\* remove(key).
RemoveKey(list, key) ==
  IF key \in Tracked(list)
  THEN LET place == Place(list, key)
       IN  [i \in 1 .. Len(list) - 1 |->
              IF i < place THEN list[i] ELSE list[i + 1]]
  ELSE list
=============================================================================
