----------------------------- MODULE LruPolicy -----------------------------
(***************************************************************************)
(* LruPolicy<Key> (lru_policy.h) with its two containers kept apart:       *)
(* list_ is a sequence of list nodes, map_ gives the node (the iterator)   *)
(* of a key.  A node that has left the list may be allocated again, for    *)
(* another key.  Every public method holds mutex_ throughout.              *)
(*                                                                         *)
(* lastUse and clock are history: when each tracked key was used last.     *)
(***************************************************************************)
EXTENDS Integers, RecencyList, SequencesExt

CONSTANTS
  Keys,
  Nodes,     \* addresses a list node can have
  Counts,    \* arguments of find_victims
  MaxClock   \* bound: how many uses a behaviour has

ASSUME MaxClockAssumption == MaxClock \in Nat
ASSUME CountsAssumption == Counts \subseteq Nat

VARIABLES
  list,     \* list_, the most recently used node first
  map,      \* map_
  keyOf,    \* the key a node holds
  lastUse,  \* history: the time of a tracked key's last use
  clock,    \* history: the time
  done      \* the last call and what it returned

vars == <<list, map, keyOf, lastUse, clock, done>>

Init ==
  /\ list = <<>>
  /\ map = <<>>
  /\ keyOf = <<>>
  /\ lastUse = <<>>
  /\ clock = 0
  /\ done = [op |-> "clear"]

SetAt(f, x, y) == [z \in DOMAIN f \cup {x} |-> IF z = x THEN y ELSE f[z]]

Used(k) ==
  /\ clock < MaxClock
  /\ clock' = clock + 1
  /\ lastUse' = SetAt(lastUse, k, clock')

\* Mutant of MoveToFront: an access leaves the list as it is.
StayInPlace(k) == UNCHANGED <<list, map, keyOf>>

\* list_.splice(list_.begin(), list_, it->second); the iterator stays valid.
MoveToFront(k) ==
  /\ list' = Splice(list, map[k])
  /\ UNCHANGED <<map, keyOf>>

\* Mutant of PushFront: a new key enters at the back.
PushBack(k) ==
  \E node \in Nodes \ Tracked(list) :
    /\ list' = Append(list, node)
    /\ keyOf' = SetAt(keyOf, node, k)
    /\ map' = SetAt(map, k, node)

PushFront(k) ==
  \E node \in Nodes \ Tracked(list) :
    /\ list' = <<node>> \o list
    /\ keyOf' = SetAt(keyOf, node, k)
    /\ map' = SetAt(map, k, node)

NotifyInsertOf(k) ==
  /\ \/ k \in DOMAIN map /\ MoveToFront(k)
     \/ k \notin DOMAIN map /\ PushFront(k)
  /\ Used(k)
  /\ done' = [op |-> "notify_insert", key |-> k]

NotifyAccessOf(k) ==
  /\ \/ k \in DOMAIN map /\ MoveToFront(k) /\ Used(k)
     \/ k \notin DOMAIN map /\ UNCHANGED <<list, map, keyOf, lastUse, clock>>
  /\ done' = [op |-> "notify_access", key |-> k]

\* Mutant of MapWithout: map_ keeps what has left list_.
MapWithAll(keys) == map

\* map_.erase
MapWithout(keys) == Restrict(map, DOMAIN map \ keys)

\* Mutant of VictimKeys: the newest of the victims comes first.
VictimKeysInListOrder(count) ==
  [i \in 1 .. PopCount(list, count) |-> keyOf[list[Len(list) - PopCount(list, count) + i]]]

\* The keys popped from the back, in the order in which they are popped.
VictimKeys(count) ==
  [i \in 1 .. PopCount(list, count) |-> keyOf[list[Len(list) + 1 - i]]]

FindVictims(count) ==
  LET victims == VictimKeys(count)
  IN  /\ list' = WithoutOldest(list, count)
      /\ map' = MapWithout(ToSet(victims))
      /\ lastUse' = Restrict(lastUse, DOMAIN map \ ToSet(victims))
      /\ done' = [op |-> "find_victims", count |-> count, victims |-> victims]
      /\ UNCHANGED <<keyOf, clock>>

RemoveOf(k) ==
  /\ \/ /\ k \in DOMAIN map
        /\ list' = RemoveKey(list, map[k])
        /\ map' = MapWithout({k})
        /\ lastUse' = Restrict(lastUse, DOMAIN map \ {k})
     \/ k \notin DOMAIN map /\ UNCHANGED <<list, map, lastUse>>
  /\ done' = [op |-> "remove", key |-> k]
  /\ UNCHANGED <<keyOf, clock>>

Clear ==
  /\ list' = <<>>
  /\ map' = <<>>
  /\ lastUse' = <<>>
  /\ done' = [op |-> "clear"]
  /\ UNCHANGED <<keyOf, clock>>

Next ==
  \/ \E k \in Keys : NotifyInsertOf(k) \/ NotifyAccessOf(k) \/ RemoveOf(k)
  \/ \E count \in Counts : FindVictims(count)
  \/ Clear

Spec == Init /\ [][Next]_vars

-----------------------------------------------------------------------------
\* No iterator dangles and no node is orphaned: map_ and list_ are two views
\* of the same keys, although nodes are freed and used again.
MapMatchesList ==
  /\ IsInjective(list)
  /\ {map[k] : k \in DOMAIN map} = Tracked(list)
  /\ \A k \in DOMAIN map : keyOf[map[k]] = k

\* The keys in the order of list_.
KeyList == [i \in DOMAIN list |-> keyOf[list[i]]]

\* list_ is ordered by last use, so its back is the least recently used key.
ListIsRecencyOrder ==
  \A i, j \in DOMAIN list : i < j => lastUse[KeyList[i]] > lastUse[KeyList[j]]

\* find_victims returns the least recently used keys, oldest first, as many
\* as were asked for or all there are.
VictimsAreOldest ==
  [][done'.op = "find_victims" =>
       LET victims == done'.victims
           n       == Cardinality(DOMAIN map)
       IN  /\ Len(victims) = IF done'.count < n THEN done'.count ELSE n
           /\ \A i, j \in DOMAIN victims :
                i < j => lastUse[victims[i]] < lastUse[victims[j]]
           /\ \A i \in DOMAIN victims, k \in DOMAIN map' :
                lastUse[victims[i]] < lastUse[k]]_vars

\* The list of keys moves as the operators of RecencyList say: what
\* LiquidCacheStore relies on.
MovesAsRecencyList ==
  [][KeyList' = CASE done'.op = "notify_insert" -> NotifyInsert(KeyList, done'.key)
                  [] done'.op = "notify_access" -> NotifyAccess(KeyList, done'.key)
                  [] done'.op = "find_victims"  -> WithoutOldest(KeyList, done'.count)
                  [] done'.op = "remove"        -> RemoveKey(KeyList, done'.key)
                  [] OTHER                      -> <<>>]_vars
=============================================================================
