------------------------- MODULE LiquidCacheStore -------------------------
(***************************************************************************)
(* LiquidCacheStore (liquid_cache_store.h): the column cache with a byte   *)
(* budget and LRU eviction.  Every public operation that writes holds      *)
(* mutex_ from its first line to its return, so each is one action.        *)
(* LiquidCacheStoreSteps splits insert into its statements and checks that *)
(* they implement the actions below.                                       *)
(*                                                                         *)
(* A cached array is abstracted to its CacheEntryType and its              *)
(* memory_size() in bytes: the two things the store itself looks at.       *)
(***************************************************************************)
EXTENDS Integers, Sequences, FiniteSets, Functions, RecencyList, EntryBytes

CONSTANTS
  Keys,           \* LiquidCacheKey values
  Files,          \* file ids that load_from_parquet may record
  Types,          \* CacheEntryType values in use
  Sizes,          \* memory_size() of the arrays that are inserted
  MaxEntryBytes,  \* an upper bound of Sizes
  Limits,         \* values of max_cache_bytes; 0 is "unlimited"
  VictimBatch,    \* find_victims(8) in make_budget_space
  MaxAttempts,    \* max_attempts (1024) in make_budget_space
  Word            \* size_t arithmetic is modulo Word (2^64)

ASSUME KeysAssumption == IsFiniteSet(Keys)
ASSUME SizesAssumption ==
  /\ MaxEntryBytes \in Nat
  /\ Sizes \subseteq 0 .. MaxEntryBytes
ASSUME LimitsAssumption == Limits \subseteq 0 .. (Word - 1)
ASSUME EvictionAssumption ==
  /\ VictimBatch \in Nat \ {0}
  /\ MaxAttempts \in Nat \ {0}
\* The bytes of all entries together fit in a size_t.
ASSUME WordAssumption ==
  /\ Word \in Nat \ {0}
  /\ Cardinality(Keys) * MaxEntryBytes < Word

VARIABLES
  entries,       \* entries_: a function from the cached keys to Entry
  fileMetadata,  \* file_metadata_: the files whose row groups are known
  lru,           \* lru_: the tracked keys, most recently used first
  usedBytes,     \* budget_.used_bytes_
  maxCacheBytes, \* max_cache_bytes_ and budget_.max_bytes_, set together
  reply          \* the call that returned last and what it returned

vars == <<entries, fileMetadata, lru, usedBytes, maxCacheBytes, reply>>

Entry == [type : Types, size : Sizes]

Idle == [op |-> "none"]
Replies ==
  {Idle}
    \cup [op : {"insert"}, key : Keys, size : Sizes, ok : BOOLEAN]
    \cup [op : {"get"}, key : Keys, ok : BOOLEAN]
    \cup [op : {"read_batch"}, keys : SUBSET Keys, ok : BOOLEAN]

-----------------------------------------------------------------------------
\* total_memory_size()
TotalMemorySize == MemorySize(entries)

\* size_t addition and subtraction.
Plus(a, b)  == (a + b) % Word
\* Mutant of Minus: the subtraction is not reduced to a size_t.
MinusUnreduced(a, b) == a + Word - b
Minus(a, b) == (a + Word - b) % Word

-----------------------------------------------------------------------------
(* make_budget_space(needed): keys leave lru_ from its back, VictimBatch   *)
(* at a time; their entries are erased one by one, and the call returns as *)
(* soon as the new bytes fit.  The rest of the batch has left lru_ by then *)
(* but stays in entries_.                                                  *)

\* Mutant of Erased: victims are taken from the front of the list.
ErasedNewest(n) == DOMAIN entries \cap {lru[i] : i \in 1 .. PopCount(lru, n)}

\* The entries erased when the n oldest keys have been looked at.
Erased(n) == DOMAIN entries \cap Oldest(lru, n)

UsedAfter(n) == Minus(usedBytes, MemorySize(Restrict(entries, Erased(n))))

\* Mutant of Fits: the new bytes are not counted.
FitsAlready(used, needed) == used <= maxCacheBytes

Fits(used, needed) == Plus(used, needed) <= maxCacheBytes

\* How many victims one call can look at.
Reach == PopCount(lru, VictimBatch * MaxAttempts)

\* Mutant of Examined: nothing is evicted when evicting all is not enough.
ExaminedIfEnough(needed) ==
  LET enough == {n \in 0 .. Reach : Fits(UsedAfter(n), needed)}
  IN  IF maxCacheBytes = 0 \/ needed > maxCacheBytes \/ enough = {} THEN 0
      ELSE CHOOSE n \in enough : \A m \in enough : n <= m

\* How many victims are looked at before the call returns.
Examined(needed) ==
  LET enough == {n \in 0 .. Reach : Fits(UsedAfter(n), needed)}
  IN  IF maxCacheBytes = 0 \/ needed > maxCacheBytes THEN 0
      ELSE IF enough = {} THEN Reach
      ELSE CHOOSE n \in enough : \A m \in enough : n <= m

\* How many keys have left lru_: whole batches, or all of a short list.
Popped(n) ==
  LET batches == CHOOSE b \in 0 .. n : /\ n <= b * VictimBatch
                                       /\ (b - 1) * VictimBatch < n
  IN  PopCount(lru, batches * VictimBatch)

\* Mutant of Granted: nobody looks at what they answer.
GrantedAlways(used, needed) == TRUE

\* What make_budget_space and then try_reserve (or try_update) answer when
\* the budget reads `used`.
Granted(used, needed) ==
  maxCacheBytes = 0 \/ (needed <= maxCacheBytes /\ Fits(used, needed))

\* Does growing by `needed` bytes evict the very key that grows?
EvictsItself(key, needed) == key \in Erased(Examined(needed))

\* The common part of insert's two paths: make room, reserve, store, and
\* tell the LRU policy.  On a refusal what was evicted stays evicted.
MakeRoomAndStore(key, entry, needed) ==
  LET n    == Examined(needed)
      kept == Without(entries, Erased(n))
      rest == WithoutOldest(lru, Popped(n))
      used == UsedAfter(n)
      ok   == Granted(used, needed)
  IN  /\ reply' = [op |-> "insert", key |-> key, size |-> entry.size, ok |-> ok]
      /\ \/ /\ ok
            /\ entries' = Put(kept, key, entry)
            /\ lru' = NotifyInsert(rest, key)
            /\ usedBytes' = Plus(used, needed)
         \/ /\ ~ok
            /\ entries' = kept
            /\ lru' = rest
            /\ usedBytes' = used
      /\ UNCHANGED <<fileMetadata, maxCacheBytes>>

-----------------------------------------------------------------------------
(* The operations.  insert and insert_arrow differ in the type only.       *)

InsertNew(key, entry) ==
  /\ key \notin DOMAIN entries
  /\ MakeRoomAndStore(key, entry, entry.size)

\* The update path reserves only the difference to the size that was found
\* before make_budget_space ran.
InsertLarger(key, entry) ==
  /\ key \in DOMAIN entries
  /\ entry.size > entries[key].size
  /\ MakeRoomAndStore(key, entry, entry.size - entries[key].size)

\* Mutant of InsertNotLarger: the difference is not released.
InsertSmallerKeepingBytes(key, entry) ==
  /\ key \in DOMAIN entries
  /\ entry.size <= entries[key].size
  /\ entries' = Put(entries, key, entry)
  /\ lru' = NotifyInsert(lru, key)
  /\ reply' = [op |-> "insert", key |-> key, size |-> entry.size, ok |-> TRUE]
  /\ UNCHANGED <<fileMetadata, usedBytes, maxCacheBytes>>

InsertNotLarger(key, entry) ==
  /\ key \in DOMAIN entries
  /\ entry.size <= entries[key].size
  /\ entries' = Put(entries, key, entry)
  /\ lru' = NotifyInsert(lru, key)
  /\ usedBytes' = Minus(usedBytes, entries[key].size - entry.size)
  /\ reply' = [op |-> "insert", key |-> key, size |-> entry.size, ok |-> TRUE]
  /\ UNCHANGED <<fileMetadata, maxCacheBytes>>

Insert(key, entry) ==
  \/ InsertNew(key, entry)
  \/ InsertLarger(key, entry)
  \/ InsertNotLarger(key, entry)

Get(key) ==
  LET hit == key \in DOMAIN entries
  IN  /\ lru' = IF hit THEN NotifyAccess(lru, key) ELSE lru
      /\ reply' = [op |-> "get", key |-> key, ok |-> hit]
      /\ UNCHANGED <<entries, fileMetadata, usedBytes, maxCacheBytes>>

\* read_batch: every projected column of one batch, or nothing.
ReadBatch(columns) ==
  /\ reply' = [op |-> "read_batch", keys |-> columns,
               ok |-> columns # {} /\ columns \subseteq DOMAIN entries]
  /\ UNCHANGED <<entries, fileMetadata, lru, usedBytes, maxCacheBytes>>

\* One column of one batch in load_from_parquet: entries_ is written directly.
LoadColumn(key, entry) ==
  /\ entries' = Put(entries, key, entry)
  /\ reply' = Idle
  /\ UNCHANGED <<fileMetadata, lru, usedBytes, maxCacheBytes>>

\* The end of a file in load_from_parquet.
LoadMetadata(file) ==
  /\ fileMetadata' = fileMetadata \cup {file}
  /\ reply' = Idle
  /\ UNCHANGED <<entries, lru, usedBytes, maxCacheBytes>>

Clear ==
  /\ entries' = <<>>
  /\ usedBytes' = 0
  /\ lru' = <<>>
  /\ fileMetadata' = {}
  /\ reply' = Idle
  /\ UNCHANGED maxCacheBytes

SetMaxCacheBytes(limit) ==
  /\ maxCacheBytes' = limit
  /\ reply' = Idle
  /\ UNCHANGED <<entries, fileMetadata, lru, usedBytes>>

-----------------------------------------------------------------------------
Init ==
  /\ entries = <<>>
  /\ fileMetadata = {}
  /\ lru = <<>>
  /\ usedBytes = 0
  /\ maxCacheBytes \in Limits
  /\ reply = Idle

ReadOrReset ==
  \/ \E key \in Keys : Get(key)
  \/ \E columns \in SUBSET Keys : ReadBatch(columns)
  \/ Clear
  \/ \E limit \in Limits : SetMaxCacheBytes(limit)

BulkLoad ==
  \/ \E key \in Keys, entry \in Entry : LoadColumn(key, entry)
  \/ \E file \in Files : LoadMetadata(file)

Next ==
  \/ \E key \in Keys, entry \in Entry : Insert(key, entry)
  \/ ReadOrReset
  \/ BulkLoad

Spec == Init /\ [][Next]_vars

\* A client that never bulk loads and never lets an update evict the key it
\* updates: exactly what the budget needs in order to be right.
CarefulInsert(key, entry) ==
  \/ InsertNew(key, entry)
  \/ InsertNotLarger(key, entry)
  \/ /\ InsertLarger(key, entry)
     /\ ~EvictsItself(key, entry.size - entries[key].size)

CarefulNext ==
  \/ \E key \in Keys, entry \in Entry : CarefulInsert(key, entry)
  \/ ReadOrReset

CarefulSpec == Init /\ [][CarefulNext]_vars

\* A client that inserts, updates and reads but never bulk loads.
ClientNext ==
  \/ \E key \in Keys, entry \in Entry : Insert(key, entry)
  \/ ReadOrReset

ClientSpec == Init /\ [][ClientNext]_vars

-----------------------------------------------------------------------------
(* Properties.                                                             *)

\* Type invariant.
TypeOK ==
  /\ DOMAIN entries \subseteq Keys
  /\ entries \in [DOMAIN entries -> Entry]
  /\ fileMetadata \subseteq Files
  /\ lru \in Seq(Keys)
  /\ usedBytes \in 0 .. (Word - 1)
  /\ maxCacheBytes \in Limits
  /\ reply \in Replies

\* Whatever clients and loaders do, the LRU list names only cached keys and
\* names each at most once: make_budget_space never meets a victim without
\* an entry, and no key is evicted twice.
LruTracksCachedKeys ==
  /\ Tracked(lru) \subseteq DOMAIN entries
  /\ \A i, j \in DOMAIN lru : lru[i] = lru[j] => i = j

\* insert evicts tracked keys only, and never a key while it keeps another
\* one that was used less recently (the key being stored is put back).
EvictsOldestFirst ==
  [][reply'.op = "insert" =>
       LET gone == DOMAIN entries \ DOMAIN entries'
       IN  /\ gone \subseteq Tracked(lru)
           /\ \A i, j \in DOMAIN lru :
                (i < j /\ lru[i] \in gone) => lru[j] \in gone \cup {reply'.key}]_vars

\* An insert that is refused although its array is no larger than the budget
\* has thrown away every key the LRU list could offer: the failure is not
\* without effect, the cache is left with untracked entries only.
RefusalDrainsLru ==
  [][(reply'.op = "insert" /\ ~reply'.ok /\ reply'.size <= maxCacheBytes) =>
       /\ lru' = WithoutOldest(lru, VictimBatch * MaxAttempts)
       /\ DOMAIN entries' = DOMAIN entries \ Oldest(lru, VictimBatch * MaxAttempts)]_vars

\* The budget counts exactly the bytes that are cached.
BudgetIsExact == usedBytes = TotalMemorySize

\* The cache grows only up to the limit in force ("0 = unlimited").
GrowsWithinLimit ==
  [][(TotalMemorySize' > TotalMemorySize /\ maxCacheBytes # 0) =>
       TotalMemorySize' <= maxCacheBytes]_vars

\* "@return ... false if entry too large for budget": a refused array is
\* larger than the budget.
RefusesOnlyOversize ==
  [][(reply'.op = "insert" /\ ~reply'.ok) => reply'.size > maxCacheBytes]_vars

\* A careful client sees a cache that keeps the contract of BoundedCache.
Contract == INSTANCE BoundedCache
  WITH Entries <- Entry, Bytes <- MemorySize, cache <- entries, limit <- maxCacheBytes

ImplementsBoundedCache == Contract!Spec
=============================================================================
