---------------------------- MODULE EntryBytes ----------------------------
(***************************************************************************)
(* Entry maps and their size.  An entry map is a function from the cached  *)
(* keys to records with a `size`, the memory_size() of the cached array.   *)
(* A map is measured by the set of its bytes, one <<key, index>> pair per  *)
(* byte: the sum of the sizes is the cardinality of that set.              *)
(***************************************************************************)
EXTENDS Integers, FiniteSets, Functions

BytesOf(map) == UNION {{key} \X (1 .. map[key].size) : key \in DOMAIN map}

MemorySize(map) == Cardinality(BytesOf(map))

\* entries_[key] = entry
Put(map, key, entry) ==
  [k \in DOMAIN map \cup {key} |-> IF k = key THEN entry ELSE map[k]]

\* entries_.erase(it), for every key of `gone`.
Without(map, gone) == Restrict(map, DOMAIN map \ gone)
=============================================================================
