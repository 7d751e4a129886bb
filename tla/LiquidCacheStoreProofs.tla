---------------------- MODULE LiquidCacheStoreProofs ----------------------
(***************************************************************************)
(* Theorems about LiquidCacheStore and LiquidCacheStoreSteps, for every    *)
(* value of their constants.                                               *)
(***************************************************************************)
EXTENDS LiquidCacheStoreSteps, MapAndListTheorems, WellFoundedInduction, TLAPS

-----------------------------------------------------------------------------
(* Arithmetic and the two CHOOSEs of make_budget_space.                    *)

\* Every non-empty set of naturals has a least element.
LEMMA LeastElement ==
  ASSUME NEW S \in SUBSET Nat, S # {}
  PROVE  \E n \in S : \A m \in S : n <= m
<1>1. PICK n \in S : \A m \in S : ~(<<m, n>> \in OpToRel(<, Nat))
  BY NatLessThanWellFounded, WFMin
<1>2. n \in Nat /\ \A m \in S : m \in Nat
  OBVIOUS
<1>3. \A m \in S : ~(m < n)
  BY <1>1, <1>2 DEF OpToRel
<1>4. \A m \in S : n <= m
  BY <1>2, <1>3
<1> QED
  BY <1>4

\* Unsigned arithmetic stays in range, and is exact when nothing wraps.
LEMMA WordArithmetic ==
  ASSUME NEW a \in 0 .. (Word - 1), NEW b \in Nat
  PROVE  /\ Plus(a, b) \in 0 .. (Word - 1)
         /\ Minus(a, b) \in 0 .. (Word - 1)
         /\ a + b < Word => Plus(a, b) = a + b
         /\ b <= a => Minus(a, b) = a - b
<1>1. Word \in Nat /\ Word > 0
  BY WordAssumption
<1>2. Plus(a, b) \in 0 .. (Word - 1)
  BY <1>1 DEF Plus
<1>3. Minus(a, b) \in 0 .. (Word - 1)
  BY <1>1 DEF Minus
<1>4. a + b < Word => Plus(a, b) = a + b
  BY <1>1 DEF Plus
<1>5. b <= a => Minus(a, b) = a - b
  BY <1>1 DEF Minus
<1> QED
  BY <1>2, <1>3, <1>4, <1>5

\* One call looks at no more victims than there are.
LEMMA ExaminedRange ==
  ASSUME TypeOK, NEW needed \in Nat
  PROVE  /\ Reach \in 0 .. Len(lru)
         /\ Examined(needed) \in 0 .. Reach
<1>1. Len(lru) \in Nat /\ VictimBatch * MaxAttempts \in Nat
  BY EvictionAssumption DEF TypeOK
<1>2. Reach \in 0 .. Len(lru)
  BY <1>1 DEF Reach, PopCount
<1> DEFINE enough == {n \in 0 .. Reach : Fits(UsedAfter(n), needed)}
<1>3. CASE enough = {}
  BY <1>2, <1>3 DEF Examined
<1>4. CASE enough # {}
  <2>0. enough \in SUBSET Nat
    BY <1>2
  <2>1. \E n \in enough : \A m \in enough : n <= m
    <3> HIDE DEF enough
    <3> QED
      BY <1>4, <2>0, LeastElement
  <2>2. (CHOOSE n \in enough : \A m \in enough : n <= m) \in enough
    BY <2>1
  <2> QED
    BY <1>2, <1>4, <2>2 DEF Examined
<1> QED
  BY <1>2, <1>3, <1>4

\* What was looked at has left lru_, whole batches at a time.
LEMMA PoppedCovers ==
  ASSUME TypeOK, NEW n \in 0 .. Len(lru)
  PROVE  /\ Popped(n) \in Nat /\ n <= Popped(n)
         /\ \E b \in 0 .. n : /\ Popped(n) = PopCount(lru, b * VictimBatch)
                             /\ n <= b * VictimBatch /\ (b - 1) * VictimBatch < n
<1>1. VictimBatch \in Nat /\ VictimBatch >= 1 /\ Len(lru) \in Nat
  BY EvictionAssumption DEF TypeOK
<1> DEFINE Covers(b) == n <= b * VictimBatch
           enough == {b \in 0 .. n : Covers(b)}
           Whole(b) == n <= b * VictimBatch /\ (b - 1) * VictimBatch < n
<1>2. n \in enough
  BY <1>1
<1>3. PICK b \in enough : \A c \in enough : b <= c
  <2>1. enough \in SUBSET Nat
    <3> HIDE DEF Covers
    <3> QED
      BY <1>1
  <2>2. enough # {}
    BY <1>2
  <2> HIDE DEF enough
  <2> QED
    BY <2>1, <2>2, LeastElement
<1>4. Whole(b)
  <2>1. CASE b = 0
    BY <1>1, <1>3, <2>1
  <2>2. CASE b # 0
    <3>1. b - 1 \in 0 .. n /\ b - 1 \notin enough
      BY <1>3, <2>2
    <3>2. (b - 1) * VictimBatch \in Int
      BY <1>1, <1>3
    <3> QED
      BY <1>3, <3>1, <3>2
  <2> QED
    BY <2>1, <2>2
<1> DEFINE batches == CHOOSE c \in 0 .. n : Whole(c)
<1>5. batches \in 0 .. n /\ Whole(batches)
  BY <1>3, <1>4
<1> HIDE DEF batches
<1>6. batches * VictimBatch \in Nat /\ n <= batches * VictimBatch
  BY <1>1, <1>5
<1>7. /\ PopCount(lru, batches * VictimBatch) \in Nat
      /\ n <= PopCount(lru, batches * VictimBatch)
  BY <1>1, <1>6 DEF PopCount
<1>8. Popped(n) = PopCount(lru, batches * VictimBatch)
  BY DEF Popped, batches
<1> QED
  BY <1>5, <1>7, <1>8

\* The entries of the store are an entry map.
LEMMA EntriesAreEntryMap ==
  ASSUME TypeOK
  PROVE  IsEntryMap(entries, Keys, MaxEntryBytes) /\ MaxEntryBytes \in Nat
BY SizesAssumption DEF TypeOK, IsEntryMap, Entry

\* What n victims give back.
LEMMA UsedAfterRange ==
  ASSUME TypeOK, NEW n \in Nat
  PROVE  UsedAfter(n) \in 0 .. (Word - 1)
<1>1. IsEntryMap(Restrict(entries, Erased(n)), Keys, MaxEntryBytes)
  BY EntriesAreEntryMap, RestrictIsEntryMap DEF Erased
<1>2. MemorySize(Restrict(entries, Erased(n))) \in Nat
  BY <1>1, EntriesAreEntryMap, BytesBounded, KeysAssumption
<1> QED
  BY <1>2, WordArithmetic DEF UsedAfter, TypeOK

-----------------------------------------------------------------------------
(* The LRU list and the entry map, under every operation.                  *)

\* What holds of every reachable state of the store.
StoreInv == TypeOK /\ LruTracksCachedKeys

\* make_budget_space and the store that follows it keep the invariant.
LEMMA MakeRoomKeepsStoreInv ==
  ASSUME StoreInv, NEW key \in Keys, NEW entry \in Entry, NEW needed \in Nat,
         MakeRoomAndStore(key, entry, needed)
  PROVE  StoreInv'
<1> DEFINE n    == Examined(needed)
           kept == Without(entries, Erased(n))
           rest == WithoutOldest(lru, Popped(n))
           used == UsedAfter(n)
           ok   == Granted(used, needed)
<1>1. TypeOK /\ LruTracksCachedKeys /\ Distinct(lru)
  BY DEF StoreInv, LruTracksCachedKeys, Distinct
<1>2. n \in 0 .. Len(lru) /\ n \in Nat
  BY <1>1, ExaminedRange DEF TypeOK
<1>3. Popped(n) \in Nat /\ n <= Popped(n)
  BY <1>1, <1>2, PoppedCovers
<1>4. used \in 0 .. (Word - 1)
  BY <1>1, <1>2, UsedAfterRange
<1>5. Plus(used, needed) \in 0 .. (Word - 1)
  BY <1>4, WordArithmetic
<1> DEFINE T == Tracked(rest)
<1>6. rest \in Seq(Keys) /\ Distinct(rest) /\ T = Tracked(lru) \ Oldest(lru, Popped(n))
  BY <1>1, <1>3, WithoutOldestTracks DEF TypeOK
<1>7. Oldest(lru, n) \subseteq Oldest(lru, Popped(n))
  BY <1>1, <1>2, <1>3, OldestGrows DEF TypeOK
<1>8. /\ DOMAIN kept = DOMAIN entries \ Oldest(lru, n)
      /\ kept \in [DOMAIN kept -> Entry]
  BY <1>1 DEF TypeOK, Without, Restrict, Erased
<1>9. T \subseteq DOMAIN kept
  BY <1>1, <1>6, <1>7, <1>8 DEF LruTracksCachedKeys
<1>10. DOMAIN kept \subseteq Keys
  BY <1>1, <1>8 DEF TypeOK
<1>11. ok \in BOOLEAN
  BY DEF Granted, Fits
<1>12. reply' = [op |-> "insert", key |-> key, size |-> entry.size, ok |-> ok]
  BY DEF MakeRoomAndStore
<1>13. reply' \in Replies /\ maxCacheBytes' \in Limits /\ fileMetadata' \subseteq Files
  <2>1. entry.size \in Sizes
    BY DEF Entry
  <2>2. reply' \in [op : {"insert"}, key : Keys, size : Sizes, ok : BOOLEAN]
    BY <1>11, <1>12, <2>1
  <2> QED
    BY <1>1, <2>2 DEF Replies, MakeRoomAndStore, TypeOK
<1> HIDE DEF n, kept, rest, used, ok, T
<1>14. CASE /\ entries' = Put(kept, key, entry)
            /\ lru' = NotifyInsert(rest, key)
            /\ usedBytes' = Plus(used, needed)
  <2>1. /\ lru' \in Seq(Keys) /\ Distinct(lru')
        /\ Tracked(lru') = T \cup {key}
    BY <1>6, <1>14, NotifyInsertTracks DEF T
  <2>2. DOMAIN entries' = DOMAIN kept \cup {key} /\ entries' \in [DOMAIN entries' -> Entry]
    BY <1>8, <1>14 DEF Put
  <2>3. TypeOK'
    BY <1>5, <1>10, <1>13, <1>14, <2>1, <2>2 DEF TypeOK
  <2>4. LruTracksCachedKeys'
    BY <1>9, <2>1, <2>2 DEF LruTracksCachedKeys, Distinct
  <2> QED
    BY <2>3, <2>4 DEF StoreInv
<1>15. CASE entries' = kept /\ lru' = rest /\ usedBytes' = used
  <2>1. TypeOK'
    BY <1>4, <1>6, <1>8, <1>10, <1>13, <1>15 DEF TypeOK
  <2>2. LruTracksCachedKeys'
    BY <1>6, <1>9, <1>15 DEF LruTracksCachedKeys, Distinct, T
  <2> QED
    BY <2>1, <2>2 DEF StoreInv
<1> QED
  BY <1>14, <1>15 DEF MakeRoomAndStore, n, kept, rest, used, ok

\* Every step of the store, bulk loads included, keeps the invariant.
LEMMA StepKeepsStoreInv ==
  ASSUME StoreInv, [Next]_vars
  PROVE  StoreInv'
<1>1. TypeOK /\ LruTracksCachedKeys /\ Distinct(lru) /\ lru \in Seq(Keys)
  BY DEF StoreInv, LruTracksCachedKeys, Distinct, TypeOK
<1>2. ASSUME NEW key \in Keys, NEW entry \in Entry, InsertNew(key, entry)
      PROVE  StoreInv'
  <2>1. entry.size \in Nat
    <3>1. entry.size \in Sizes
      BY DEF Entry
    <3>2. entry.size \in 0 .. MaxEntryBytes /\ MaxEntryBytes \in Nat
      BY <3>1, SizesAssumption
    <3> QED
      BY <3>2
  <2> QED
    BY <1>2, <2>1, MakeRoomKeepsStoreInv DEF InsertNew
<1>3. ASSUME NEW key \in Keys, NEW entry \in Entry, InsertLarger(key, entry)
      PROVE  StoreInv'
  <2>1. entry.size - entries[key].size \in Nat
    BY <1>1, <1>3, SizesAssumption DEF Entry, InsertLarger, TypeOK
  <2> QED
    BY <1>3, <2>1, MakeRoomKeepsStoreInv DEF InsertLarger
<1>4. ASSUME NEW key \in Keys, NEW entry \in Entry, InsertNotLarger(key, entry)
      PROVE  StoreInv'
  <2>1. /\ lru' \in Seq(Keys) /\ Distinct(lru')
        /\ Tracked(lru') = Tracked(lru) \cup {key}
    BY <1>1, <1>4, NotifyInsertTracks DEF InsertNotLarger
  <2>2. entries[key].size - entry.size \in Nat /\ entry.size \in Sizes
    BY <1>1, <1>4, SizesAssumption DEF Entry, InsertNotLarger, TypeOK
  <2>3. usedBytes' \in 0 .. (Word - 1)
    BY <1>1, <1>4, <2>2, WordArithmetic DEF InsertNotLarger, TypeOK
  <2>4. DOMAIN entries' = DOMAIN entries \cup {key} /\ entries' \in [DOMAIN entries' -> Entry]
    BY <1>1, <1>4 DEF Put, InsertNotLarger, TypeOK
  <2>5. reply' \in Replies
    BY <1>4, <2>2 DEF InsertNotLarger, Replies
  <2>6. TypeOK'
    BY <1>1, <1>4, <2>1, <2>3, <2>4, <2>5 DEF TypeOK, InsertNotLarger
  <2>7. LruTracksCachedKeys'
    BY <1>1, <2>1, <2>4 DEF LruTracksCachedKeys, Distinct
  <2> QED
    BY <2>6, <2>7 DEF StoreInv
<1>5. ASSUME NEW key \in Keys, Get(key)
      PROVE  StoreInv'
  <2>1. lru' \in Seq(Keys) /\ Distinct(lru') /\ Tracked(lru') = Tracked(lru)
    BY <1>1, <1>5, NotifyAccessTracks DEF Get
  <2>2. reply' \in Replies
    BY <1>5 DEF Get, Replies
  <2> QED
    BY <1>1, <1>5, <2>1, <2>2 DEF Get, StoreInv, TypeOK, LruTracksCachedKeys, Distinct
<1>6. ASSUME NEW columns \in SUBSET Keys, ReadBatch(columns)
      PROVE  StoreInv'
  <2>1. reply' \in Replies
    BY <1>6 DEF ReadBatch, Replies
  <2> QED
    BY <1>1, <1>6, <2>1 DEF ReadBatch, StoreInv, TypeOK, LruTracksCachedKeys
<1>7. ASSUME NEW key \in Keys, NEW entry \in Entry, LoadColumn(key, entry)
      PROVE  StoreInv'
  <2>1. DOMAIN entries' = DOMAIN entries \cup {key} /\ entries' \in [DOMAIN entries' -> Entry]
    BY <1>1, <1>7 DEF Put, LoadColumn, TypeOK
  <2> QED
    BY <1>1, <1>7, <2>1 DEF LoadColumn, StoreInv, TypeOK, LruTracksCachedKeys, Replies
<1>8. ASSUME NEW file \in Files, LoadMetadata(file)
      PROVE  StoreInv'
  BY <1>1, <1>8 DEF LoadMetadata, StoreInv, TypeOK, LruTracksCachedKeys, Replies
<1>9. ASSUME Clear PROVE StoreInv'
  <2>1. 0 \in 0 .. (Word - 1)
    BY WordAssumption
  <2>2. DOMAIN <<>> = {} /\ <<>> \in [{} -> Entry] /\ <<>> \in Seq(Keys)
    OBVIOUS
  <2>3. TypeOK'
    BY <1>1, <1>9, <2>1, <2>2 DEF Clear, TypeOK, Replies
  <2>4. LruTracksCachedKeys'
    BY <1>9, <2>2 DEF Clear, LruTracksCachedKeys, Tracked, Range
  <2> QED
    BY <2>3, <2>4 DEF StoreInv
<1>10. ASSUME NEW limit \in Limits, SetMaxCacheBytes(limit)
       PROVE  StoreInv'
  BY <1>1, <1>10 DEF SetMaxCacheBytes, StoreInv, TypeOK, LruTracksCachedKeys, Replies
<1>11. CASE UNCHANGED vars
  BY <1>1, <1>11 DEF vars, StoreInv, TypeOK, LruTracksCachedKeys
<1> QED
  BY <1>2, <1>3, <1>4, <1>5, <1>6, <1>7, <1>8, <1>9, <1>10, <1>11
     DEF Next, Insert, ReadOrReset, BulkLoad

\* A new store is empty.
LEMMA InitStoreInv == Init => StoreInv
<1> SUFFICES ASSUME Init PROVE StoreInv
  OBVIOUS
<1>1. 0 \in 0 .. (Word - 1)
  BY WordAssumption
<1>2. DOMAIN <<>> = {} /\ <<>> \in [{} -> Entry] /\ <<>> \in Seq(Keys)
  OBVIOUS
<1>3. TypeOK
  BY <1>1, <1>2 DEF Init, TypeOK, Replies
<1>4. LruTracksCachedKeys
  BY <1>2 DEF Init, LruTracksCachedKeys, Tracked, Range
<1> QED
  BY <1>3, <1>4 DEF StoreInv

\* Every state of the store is well typed.
THEOREM StoreTypeCorrect == Spec => []TypeOK
<1>1. StoreInv => TypeOK
  BY DEF StoreInv
<1> QED
  BY <1>1, InitStoreInv, StepKeepsStoreInv, PTL DEF Spec

\* The LRU list names only cached keys, each once, whatever clients and
\* loaders do.
THEOREM LruTracksCachedKeysAlways == Spec => []LruTracksCachedKeys
<1>1. StoreInv => LruTracksCachedKeys
  BY DEF StoreInv
<1> QED
  BY <1>1, InitStoreInv, StepKeepsStoreInv, PTL DEF Spec

-----------------------------------------------------------------------------
(* The budget, for clients that never bulk load and never let an update    *)
(* evict its own key.                                                      *)

\* The store invariant together with an exact budget.
BudgetInv == StoreInv /\ BudgetIsExact

\* The bytes that are cached fit in a size_t.
LEMMA TotalFitsWord ==
  ASSUME NEW map, IsEntryMap(map, Keys, MaxEntryBytes)
  PROVE  MemorySize(map) \in Nat /\ MemorySize(map) < Word
<1>1. MaxEntryBytes \in Nat /\ Word \in Nat /\ Cardinality(Keys) \in Nat
  BY SizesAssumption, WordAssumption, KeysAssumption, FS_CardinalityType
<1>2. MemorySize(map) \in Nat /\ MemorySize(map) <= Cardinality(Keys) * MaxEntryBytes
  BY <1>1, BytesBounded, KeysAssumption
<1>3. Cardinality(Keys) * MaxEntryBytes \in Nat
  BY <1>1
<1> QED
  BY <1>1, <1>2, <1>3, WordAssumption

\* Releasing what the victims held leaves the bytes of what is kept.
LEMMA UsedAfterIsKept ==
  ASSUME BudgetInv, NEW n \in Nat
  PROVE  LET kept == Without(entries, Erased(n))
         IN  /\ IsEntryMap(kept, Keys, MaxEntryBytes)
             /\ UsedAfter(n) = MemorySize(kept)
             /\ MemorySize(kept) <= MemorySize(entries)
<1> DEFINE gone == Restrict(entries, Erased(n))
           kept == Without(entries, Erased(n))
<1>1. TypeOK /\ usedBytes = MemorySize(entries) /\ Erased(n) \in SUBSET DOMAIN entries
  BY DEF BudgetInv, StoreInv, BudgetIsExact, TotalMemorySize, Erased
<1>2. IsEntryMap(entries, Keys, MaxEntryBytes) /\ MaxEntryBytes \in Nat
  BY <1>1, EntriesAreEntryMap
<1>3. IsEntryMap(gone, Keys, MaxEntryBytes) /\ IsEntryMap(kept, Keys, MaxEntryBytes)
  BY <1>1, <1>2, RestrictIsEntryMap DEF Without
<1>4. MemorySize(gone) \in Nat /\ MemorySize(kept) \in Nat
  BY <1>3, TotalFitsWord
<1>5. MemorySize(entries) = MemorySize(gone) + MemorySize(kept)
  BY <1>1, <1>2, MemorySizeSplit, KeysAssumption
<1>6. usedBytes \in 0 .. (Word - 1)
  BY <1>1 DEF TypeOK
<1>7. Minus(usedBytes, MemorySize(gone)) = usedBytes - MemorySize(gone)
  BY <1>1, <1>4, <1>5, <1>6, WordArithmetic
<1> QED
  BY <1>1, <1>3, <1>4, <1>5, <1>7 DEF UsedAfter

\* Storing after making room: the budget stays exact, and the cache grows
\* only up to the limit.
LEMMA MakeRoomIsExact ==
  ASSUME BudgetInv, NEW key \in Keys, NEW entry \in Entry, NEW needed \in Nat,
         MakeRoomAndStore(key, entry, needed),
         \/ key \notin DOMAIN entries /\ needed = entry.size
         \/ /\ key \in DOMAIN entries \ Erased(Examined(needed))
            /\ needed = entry.size - entries[key].size
  PROVE  /\ BudgetIsExact'
         /\ \/ maxCacheBytes = 0
            \/ TotalMemorySize' <= maxCacheBytes
            \/ TotalMemorySize' <= TotalMemorySize
<1> DEFINE n    == Examined(needed)
           kept == Without(entries, Erased(n))
           used == UsedAfter(n)
           new  == Put(kept, key, entry)
<1>1. TypeOK /\ n \in Nat
  BY ExaminedRange DEF BudgetInv, StoreInv
<1>2. /\ IsEntryMap(kept, Keys, MaxEntryBytes)
      /\ used = MemorySize(kept)
      /\ MemorySize(kept) <= MemorySize(entries)
  BY <1>1, UsedAfterIsKept
<1>3. MemorySize(kept) \in Nat /\ MemorySize(kept) < Word
  BY <1>2, TotalFitsWord
<1>4. entry.size \in 0 .. MaxEntryBytes /\ MaxEntryBytes \in Nat
  <2>1. entry.size \in Sizes
    BY DEF Entry
  <2> QED
    BY <2>1, SizesAssumption
<1>5. IsEntryMap(new, Keys, MaxEntryBytes) /\ MemorySize(new) = MemorySize(kept) + needed
  <2>1. CASE key \notin DOMAIN entries /\ needed = entry.size
    <3>1. key \in Keys \ DOMAIN kept
      BY <2>1 DEF Without, Restrict
    <3> HIDE DEF kept
    <3> QED
      BY <1>2, <1>4, <2>1, <3>1, MemorySizePutNew, KeysAssumption
  <2>2. CASE /\ key \in DOMAIN entries \ Erased(n)
             /\ needed = entry.size - entries[key].size
    <3>1. key \in DOMAIN kept /\ kept[key] = entries[key]
      BY <2>2 DEF Without, Restrict
    <3>2. kept[key].size \in 0 .. MaxEntryBytes
      BY <1>2, <3>1 DEF IsEntryMap
    <3> HIDE DEF kept
    <3>3. /\ IsEntryMap(Put(kept, key, entry), Keys, MaxEntryBytes)
          /\ MemorySize(Put(kept, key, entry))
               = MemorySize(kept) - kept[key].size + entry.size
      BY <1>2, <1>4, <3>1, MemorySizePutOld, KeysAssumption
    <3> QED
      BY <1>3, <1>4, <2>2, <3>1, <3>2, <3>3
  <2> QED
    BY <2>1, <2>2
<1>6. MemorySize(new) \in Nat /\ MemorySize(new) < Word
  BY <1>5, TotalFitsWord
<1>7. Plus(used, needed) = MemorySize(new)
  <2>1. used \in 0 .. (Word - 1)
    BY <1>2, <1>3, WordAssumption
  <2> QED
    BY <1>2, <1>5, <1>6, <2>1, WordArithmetic
<1> HIDE DEF n, kept, used, new
<1>8. CASE entries' = new /\ usedBytes' = Plus(used, needed) /\ Granted(used, needed)
  <2>1. BudgetIsExact'
    BY <1>7, <1>8 DEF BudgetIsExact, TotalMemorySize
  <2>2. maxCacheBytes = 0 \/ MemorySize(new) <= maxCacheBytes
    BY <1>7, <1>8 DEF Granted, Fits
  <2> QED
    BY <1>8, <2>1, <2>2 DEF TotalMemorySize
<1>9. CASE entries' = kept /\ usedBytes' = used
  BY <1>2, <1>9 DEF BudgetIsExact, TotalMemorySize
<1> QED
  BY <1>8, <1>9 DEF MakeRoomAndStore, n, kept, used, new

\* A careful step keeps the budget exact and respects the limit.
LEMMA CarefulStepIsExact ==
  ASSUME BudgetInv, [CarefulNext]_vars
  PROVE  /\ BudgetIsExact'
         /\ \/ maxCacheBytes = 0
            \/ TotalMemorySize' <= maxCacheBytes
            \/ TotalMemorySize' <= TotalMemorySize
<1>1. /\ TypeOK /\ usedBytes = MemorySize(entries)
      /\ IsEntryMap(entries, Keys, MaxEntryBytes)
      /\ usedBytes \in 0 .. (Word - 1)
  BY EntriesAreEntryMap DEF BudgetInv, StoreInv, BudgetIsExact, TotalMemorySize, TypeOK
<1>2. MemorySize(entries) \in Nat
  BY <1>1, TotalFitsWord
<1>3. ASSUME NEW entry \in Entry
      PROVE  entry.size \in 0 .. MaxEntryBytes /\ MaxEntryBytes \in Nat /\ entry.size \in Nat
  <2>1. entry.size \in Sizes
    BY DEF Entry
  <2>2. entry.size \in 0 .. MaxEntryBytes /\ MaxEntryBytes \in Nat
    BY <2>1, SizesAssumption
  <2> QED
    BY <2>2
<1>4. ASSUME NEW k \in DOMAIN entries
      PROVE  entries[k].size \in 0 .. MaxEntryBytes /\ entries[k].size \in Nat
  BY <1>1, SizesAssumption DEF IsEntryMap
<1>5. ASSUME NEW key \in Keys, NEW entry \in Entry, InsertNew(key, entry)
      PROVE  /\ BudgetIsExact'
             /\ \/ maxCacheBytes = 0
                \/ TotalMemorySize' <= maxCacheBytes
                \/ TotalMemorySize' <= TotalMemorySize
  BY <1>3, <1>5, MakeRoomIsExact DEF InsertNew
<1>6. ASSUME NEW key \in Keys, NEW entry \in Entry, InsertLarger(key, entry),
             ~EvictsItself(key, entry.size - entries[key].size)
      PROVE  /\ BudgetIsExact'
             /\ \/ maxCacheBytes = 0
                \/ TotalMemorySize' <= maxCacheBytes
                \/ TotalMemorySize' <= TotalMemorySize
  <2> DEFINE needed == entry.size - entries[key].size
  <2>1. key \in DOMAIN entries /\ needed \in Nat
    BY <1>3, <1>4, <1>6 DEF InsertLarger
  <2>2. key \in DOMAIN entries \ Erased(Examined(needed))
    BY <1>6, <2>1 DEF EvictsItself
  <2>3. MakeRoomAndStore(key, entry, needed)
    BY <1>6 DEF InsertLarger
  <2> QED
    BY <2>1, <2>2, <2>3, MakeRoomIsExact
<1>7. ASSUME NEW key \in Keys, NEW entry \in Entry, InsertNotLarger(key, entry)
      PROVE  BudgetIsExact' /\ TotalMemorySize' <= TotalMemorySize
  <2> DEFINE old == entries[key].size
  <2>1. key \in DOMAIN entries /\ entry.size <= old
    BY <1>7 DEF InsertNotLarger
  <2>2. old \in Nat /\ entry.size \in Nat /\ old - entry.size \in Nat
    BY <1>3, <1>4, <2>1
  <2>3. /\ MemorySize(Put(entries, key, entry)) = MemorySize(entries) - old + entry.size
        /\ old <= MemorySize(entries)
    BY <1>1, <1>3, <2>1, MemorySizePutOld, KeysAssumption
  <2> HIDE DEF old
  <2>4. Minus(usedBytes, old - entry.size) = usedBytes - (old - entry.size)
    <3>1. old - entry.size <= usedBytes
      BY <1>1, <1>2, <2>2, <2>3
    <3> QED
      BY <1>1, <2>2, <3>1, WordArithmetic
  <2>5. entries' = Put(entries, key, entry) /\ usedBytes' = Minus(usedBytes, old - entry.size)
    BY <1>7 DEF InsertNotLarger, old
  <2>6. MemorySize(Put(entries, key, entry)) = usedBytes - (old - entry.size)
    BY <1>1, <1>2, <2>2, <2>3
  <2>7. MemorySize(entries) - old + entry.size <= MemorySize(entries)
    BY <1>2, <2>1, <2>2
  <2> QED
    BY <2>3, <2>4, <2>5, <2>6, <2>7 DEF BudgetIsExact, TotalMemorySize
<1>8. ASSUME Clear
      PROVE  BudgetIsExact' /\ TotalMemorySize' <= TotalMemorySize
  <2>1. BytesOf(<<>>) = {}
    BY DEF BytesOf
  <2>2. MemorySize(<<>>) = 0
    BY <2>1, FS_EmptySet DEF MemorySize
  <2> QED
    BY <1>2, <1>8, <2>2 DEF Clear, BudgetIsExact, TotalMemorySize
<1>9. ASSUME UNCHANGED <<entries, usedBytes>>
      PROVE  BudgetIsExact' /\ TotalMemorySize' <= TotalMemorySize
  BY <1>1, <1>2, <1>9 DEF BudgetIsExact, TotalMemorySize
<1>10. ASSUME ReadOrReset
       PROVE  BudgetIsExact' /\ TotalMemorySize' <= TotalMemorySize
  BY <1>8, <1>9, <1>10 DEF ReadOrReset, Get, ReadBatch, SetMaxCacheBytes
<1>11. CASE UNCHANGED vars
  BY <1>9, <1>11 DEF vars
<1> QED
  BY <1>5, <1>6, <1>7, <1>10, <1>11 DEF CarefulNext, CarefulInsert

\* Careful clients are clients.
LEMMA CarefulIsNext == [CarefulNext]_vars => [Next]_vars
BY DEF CarefulNext, CarefulInsert, Next, Insert

\* The budget invariant holds of a new store and is kept by careful steps.
LEMMA BudgetInvInductive ==
  /\ Init => BudgetInv
  /\ BudgetInv /\ [CarefulNext]_vars => BudgetInv'
<1>1. Init => BudgetInv
  <2>1. BytesOf(<<>>) = {}
    BY DEF BytesOf
  <2>2. MemorySize(<<>>) = 0
    BY <2>1, FS_EmptySet DEF MemorySize
  <2> QED
    BY <2>2, InitStoreInv DEF Init, BudgetInv, BudgetIsExact, TotalMemorySize
<1>2. BudgetInv /\ [CarefulNext]_vars => BudgetInv'
  BY CarefulIsNext, CarefulStepIsExact, StepKeepsStoreInv DEF BudgetInv
<1> QED
  BY <1>1, <1>2

\* For careful clients the budget counts exactly the bytes that are cached:
\* no eviction, refusal, update or change of limit makes it drift.
THEOREM BudgetIsExactForCareful == CarefulSpec => []BudgetIsExact
<1>1. BudgetInv => BudgetIsExact
  BY DEF BudgetInv
<1> QED
  BY <1>1, BudgetInvInductive, PTL DEF CarefulSpec

\* For careful clients the cache never grows beyond the limit in force.
THEOREM GrowsWithinLimitForCareful == CarefulSpec => GrowsWithinLimit
<1> DEFINE Within == (TotalMemorySize' > TotalMemorySize /\ maxCacheBytes # 0) =>
                        TotalMemorySize' <= maxCacheBytes
<1>1. BudgetInv /\ BudgetInv' /\ [CarefulNext]_vars => [Within]_vars
  <2> SUFFICES ASSUME BudgetInv, BudgetInv', [CarefulNext]_vars PROVE Within
    OBVIOUS
  <2>1. TotalMemorySize \in Int /\ TotalMemorySize' \in Int
    BY DEF BudgetInv, StoreInv, BudgetIsExact, TypeOK
  <2> QED
    BY <2>1, CarefulStepIsExact
<1> QED
  BY <1>1, BudgetInvInductive, PTL DEF CarefulSpec, GrowsWithinLimit

-----------------------------------------------------------------------------
(* The order of eviction.                                                  *)

\* The victims are the back of the list: with a key, all that were used
\* less recently.
LEMMA OldestIsSuffix ==
  ASSUME NEW K, NEW list \in Seq(K), Distinct(list), NEW n \in Nat,
         NEW i \in DOMAIN list, NEW j \in DOMAIN list, i < j,
         list[i] \in Oldest(list, n)
  PROVE  list[j] \in Oldest(list, n)
<1> DEFINE kept == Len(list) - PopCount(list, n)
<1>1. kept \in 0 .. Len(list) /\ DOMAIN list = 1 .. Len(list) /\ Len(list) \in Nat
  BY DEF PopCount
<1>2. Oldest(list, n) = {list[m] : m \in (kept + 1) .. Len(list)}
  BY DEF Oldest
<1> HIDE DEF kept
<1>3. PICK m \in (kept + 1) .. Len(list) : list[m] = list[i]
  BY <1>2
<1>4. m = i
  BY <1>1, <1>3 DEF Distinct
<1> QED
  BY <1>1, <1>2, <1>3, <1>4

\* What an insert that makes room evicts is the back of the list, except
\* for the key that it stores.
LEMMA MakeRoomEvictsOldest ==
  ASSUME StoreInv, NEW key \in Keys, NEW entry \in Entry, NEW needed \in Nat,
         MakeRoomAndStore(key, entry, needed)
  PROVE  LET gone == DOMAIN entries \ DOMAIN entries'
         IN  /\ reply'.key = key
             /\ gone \subseteq Tracked(lru)
             /\ \A i, j \in DOMAIN lru :
                  (i < j /\ lru[i] \in gone) => lru[j] \in gone \cup {key}
<1> DEFINE n    == Examined(needed)
           kept == Without(entries, Erased(n))
           gone == DOMAIN entries \ DOMAIN entries'
<1>1. TypeOK /\ Tracked(lru) \subseteq DOMAIN entries /\ Distinct(lru) /\ lru \in Seq(Keys)
  BY DEF StoreInv, LruTracksCachedKeys, Distinct, TypeOK
<1>2. n \in Nat
  BY <1>1, ExaminedRange
<1>3. Oldest(lru, n) \subseteq Tracked(lru)
  BY <1>1, <1>2, OldestTracked
<1>4. DOMAIN kept = DOMAIN entries \ Oldest(lru, n)
  BY DEF Without, Restrict, Erased
<1>5. DOMAIN entries' = DOMAIN kept \/ DOMAIN entries' = DOMAIN kept \cup {key}
  BY DEF MakeRoomAndStore, Put
<1> HIDE DEF n, kept
<1>6. gone = Oldest(lru, n) \/ gone = Oldest(lru, n) \ {key}
  BY <1>1, <1>3, <1>4, <1>5
<1>7. reply'.key = key
  BY DEF MakeRoomAndStore
<1>8. ASSUME NEW i \in DOMAIN lru, NEW j \in DOMAIN lru, i < j, lru[i] \in gone
      PROVE  lru[j] \in gone \cup {key}
  BY <1>1, <1>2, <1>6, <1>8, OldestIsSuffix
<1> QED
  BY <1>3, <1>6, <1>7, <1>8

\* Whatever clients and loaders do, insert evicts tracked keys only, the
\* least recently used first.
THEOREM EvictsOldestFirstAlways == Spec => EvictsOldestFirst
<1> DEFINE InOrder ==
      reply'.op = "insert" =>
        LET gone == DOMAIN entries \ DOMAIN entries'
        IN  /\ gone \subseteq Tracked(lru)
            /\ \A i, j \in DOMAIN lru :
                 (i < j /\ lru[i] \in gone) => lru[j] \in gone \cup {reply'.key}
<1>1. StoreInv /\ [Next]_vars => [InOrder]_vars
  <2> SUFFICES ASSUME StoreInv, Next PROVE InOrder
    OBVIOUS
  <2>1. TypeOK
    BY DEF StoreInv
  <2>2. ASSUME NEW key \in Keys, NEW entry \in Entry, InsertNew(key, entry)
        PROVE  InOrder
    <3>1. entry.size \in Sizes
      BY DEF Entry
    <3>2. entry.size \in 0 .. MaxEntryBytes /\ MaxEntryBytes \in Nat
      BY <3>1, SizesAssumption
    <3>3. entry.size \in Nat
      BY <3>2
    <3> QED
      BY <2>2, <3>3, MakeRoomEvictsOldest DEF InsertNew
  <2>3. ASSUME NEW key \in Keys, NEW entry \in Entry, InsertLarger(key, entry)
        PROVE  InOrder
    <3>1. entry.size - entries[key].size \in Nat
      BY <2>1, <2>3, SizesAssumption DEF Entry, InsertLarger, TypeOK
    <3> QED
      BY <2>3, <3>1, MakeRoomEvictsOldest DEF InsertLarger
  <2>4. ASSUME NEW key \in Keys, NEW entry \in Entry, InsertNotLarger(key, entry)
        PROVE  InOrder
    <3>1. DOMAIN entries \ DOMAIN entries' = {}
      BY <2>4 DEF InsertNotLarger, Put
    <3> QED
      BY <3>1
  <2>5. ASSUME ReadOrReset \/ BulkLoad
        PROVE  reply'.op # "insert"
    BY <2>5 DEF ReadOrReset, BulkLoad, Get, ReadBatch, Clear, SetMaxCacheBytes,
                LoadColumn, LoadMetadata, Idle
  <2> QED
    BY <2>2, <2>3, <2>4, <2>5 DEF Next, Insert
<1> QED
  BY <1>1, InitStoreInv, StepKeepsStoreInv, PTL DEF Spec, EvictsOldestFirst

-----------------------------------------------------------------------------
(* What a refusal costs.                                                   *)

\* A positive factor keeps the order of what it multiplies.
LEMMA FactorOrder ==
  ASSUME NEW v \in Nat \ {0}, NEW a \in Int, NEW c \in Int
  PROVE  /\ a * v < c * v => a < c
         /\ a <= c => a * v <= c * v
<1>1. ASSUME c <= a PROVE c * v <= a * v
  <2>1. (a - c) * v >= 0
    BY <1>1
  <2>2. (a - c) * v = a * v - c * v
    OBVIOUS
  <2>3. a * v \in Int /\ c * v \in Int
    OBVIOUS
  <2> QED
    BY <2>1, <2>2, <2>3
<1>2. ASSUME a <= c PROVE a * v <= c * v
  <2>1. (c - a) * v >= 0
    BY <1>2
  <2>2. (c - a) * v = c * v - a * v
    OBVIOUS
  <2>3. a * v \in Int /\ c * v \in Int
    OBVIOUS
  <2> QED
    BY <2>1, <2>2, <2>3
<1>3. a * v \in Int /\ c * v \in Int
  OBVIOUS
<1> QED
  BY <1>1, <1>2, <1>3

\* A call that looks at all it may look at pops exactly that.
LEMMA ReachIsPopped ==
  ASSUME TypeOK
  PROVE  /\ Popped(Reach) = Reach /\ Reach \in Nat
         /\ WithoutOldest(lru, Popped(Reach)) = WithoutOldest(lru, VictimBatch * MaxAttempts)
         /\ Oldest(lru, Reach) = Oldest(lru, VictimBatch * MaxAttempts)
<1>1. PICK len, most : len = Len(lru) /\ most = VictimBatch * MaxAttempts
  OBVIOUS
<1>2. len \in Nat /\ most \in Nat /\ most = MaxAttempts * VictimBatch
  BY <1>1, EvictionAssumption DEF TypeOK
<1>3. Reach \in 0 .. Len(lru) /\ Reach = IF most <= len THEN most ELSE len
  BY <1>1, <1>2 DEF Reach, PopCount
<1>4. PICK b \in 0 .. Reach : /\ Popped(Reach) = PopCount(lru, b * VictimBatch)
                              /\ Reach <= b * VictimBatch /\ (b - 1) * VictimBatch < Reach
  BY <1>3, PoppedCovers
<1>5. PICK popped : popped = b * VictimBatch
  OBVIOUS
<1>6. popped \in Nat /\ b \in Nat /\ VictimBatch \in Nat \ {0} /\ MaxAttempts \in Nat
  BY <1>3, <1>4, <1>5, EvictionAssumption
<1>7. PopCount(lru, popped) = Reach
  <2>1. CASE len < most
    BY <1>1, <1>2, <1>3, <1>4, <1>5, <1>6, <2>1 DEF PopCount
  <2>2. CASE most <= len
    <3>1. Reach = most
      BY <1>3, <2>2
    <3>2. b - 1 < MaxAttempts
      BY <1>2, <1>4, <1>6, <3>1, FactorOrder
    <3>3. b <= MaxAttempts
      BY <1>6, <3>2
    <3>4. popped <= most
      BY <1>2, <1>5, <1>6, <3>3, FactorOrder
    <3>5. popped = most
      BY <1>2, <1>4, <1>5, <1>6, <3>1, <3>4
    <3> QED
      BY <1>1, <2>2, <3>1, <3>5 DEF PopCount
  <2> QED
    BY <1>2, <2>1, <2>2
<1>8. Popped(Reach) = Reach /\ PopCount(lru, Reach) = Reach /\ PopCount(lru, most) = Reach
  BY <1>1, <1>3, <1>4, <1>5, <1>7 DEF PopCount, Reach
<1> QED
  BY <1>1, <1>3, <1>8 DEF WithoutOldest, Oldest

\* A refusal that is not for the size of the array alone leaves nothing of
\* what make_budget_space could look at.
LEMMA RefusedMakeRoomDrains ==
  ASSUME TypeOK, NEW key \in Keys, NEW entry \in Entry, NEW needed \in Nat,
         needed <= entry.size, entry.size \in Nat,
         MakeRoomAndStore(key, entry, needed),
         ~reply'.ok, reply'.size <= maxCacheBytes
  PROVE  /\ lru' = WithoutOldest(lru, VictimBatch * MaxAttempts)
         /\ DOMAIN entries' = DOMAIN entries \ Oldest(lru, VictimBatch * MaxAttempts)
<1> DEFINE enough == {n \in 0 .. Reach : Fits(UsedAfter(n), needed)}
<1>1. reply'.size = entry.size /\ reply'.ok = Granted(UsedAfter(Examined(needed)), needed)
  BY DEF MakeRoomAndStore
<1>2. maxCacheBytes \in Nat /\ needed <= maxCacheBytes
  <2>1. maxCacheBytes \in Nat
    BY LimitsAssumption, WordAssumption DEF TypeOK
  <2> QED
    BY <1>1, <2>1
<1>3. maxCacheBytes # 0 /\ ~Fits(UsedAfter(Examined(needed)), needed)
  BY <1>1, <1>2 DEF Granted
<1>4. Examined(needed) = Reach
  <2>1. CASE enough = {}
    BY <1>2, <1>3, <2>1 DEF Examined
  <2>2. CASE enough # {}
    <3>1. Examined(needed) = CHOOSE n \in enough : \A m \in enough : n <= m
      BY <1>2, <1>3, <2>2 DEF Examined
    <3>2. enough \in SUBSET Nat
      BY ExaminedRange
    <3>3. \E n \in enough : \A m \in enough : n <= m
      <4> HIDE DEF enough
      <4> QED
        BY <2>2, <3>2, LeastElement
    <3>4. Examined(needed) \in enough
      <4> HIDE DEF enough
      <4> QED
        BY <3>1, <3>3
    <3> QED
      BY <1>3, <3>4
  <2> QED
    BY <2>1, <2>2
<1>5. /\ lru' = WithoutOldest(lru, Popped(Reach))
      /\ entries' = Without(entries, Erased(Reach))
  BY <1>1, <1>4 DEF MakeRoomAndStore
<1>6. DOMAIN entries' = DOMAIN entries \ Oldest(lru, Reach)
  BY <1>5 DEF Without, Restrict, Erased
<1> QED
  BY <1>5, <1>6, ReachIsPopped

\* Whatever clients and loaders do, an insert that is refused although its
\* array fits the budget has evicted every key one call can look at.
THEOREM RefusalDrainsLruAlways == Spec => RefusalDrainsLru
<1> DEFINE Drains ==
      (reply'.op = "insert" /\ ~reply'.ok /\ reply'.size <= maxCacheBytes) =>
        /\ lru' = WithoutOldest(lru, VictimBatch * MaxAttempts)
        /\ DOMAIN entries' = DOMAIN entries \ Oldest(lru, VictimBatch * MaxAttempts)
<1>1. StoreInv /\ [Next]_vars => [Drains]_vars
  <2> SUFFICES ASSUME StoreInv, Next PROVE Drains
    OBVIOUS
  <2>1. TypeOK
    BY DEF StoreInv
  <2>2. ASSUME NEW entry \in Entry PROVE entry.size \in Nat
    <3>1. entry.size \in Sizes
      BY DEF Entry
    <3>2. entry.size \in 0 .. MaxEntryBytes /\ MaxEntryBytes \in Nat
      BY <3>1, SizesAssumption
    <3> QED
      BY <3>2
  <2>3. ASSUME NEW key \in Keys, NEW entry \in Entry, InsertNew(key, entry)
        PROVE  Drains
    <3>1. entry.size \in Nat /\ entry.size <= entry.size
      BY <2>2
    <3> QED
      BY <2>1, <2>3, <3>1, RefusedMakeRoomDrains DEF InsertNew
  <2>4. ASSUME NEW key \in Keys, NEW entry \in Entry, InsertLarger(key, entry)
        PROVE  Drains
    <3>1. entries[key] \in Entry /\ entry.size > entries[key].size
      BY <2>1, <2>4 DEF InsertLarger, TypeOK
    <3>2. entry.size \in Nat /\ entries[key].size \in Nat
      BY <2>2, <3>1
    <3>3. /\ entry.size - entries[key].size \in Nat
          /\ entry.size - entries[key].size <= entry.size
      BY <3>1, <3>2
    <3> QED
      BY <2>1, <2>4, <3>2, <3>3, RefusedMakeRoomDrains DEF InsertLarger
  <2>5. ASSUME NEW key \in Keys, NEW entry \in Entry, InsertNotLarger(key, entry)
        PROVE  Drains
    BY <2>5 DEF InsertNotLarger
  <2>6. ASSUME ReadOrReset \/ BulkLoad
        PROVE  reply'.op # "insert"
    BY <2>6 DEF ReadOrReset, BulkLoad, Get, ReadBatch, Clear, SetMaxCacheBytes,
                LoadColumn, LoadMetadata, Idle
  <2> QED
    BY <2>3, <2>4, <2>5, <2>6 DEF Next, Insert
<1> QED
  BY <1>1, InitStoreInv, StepKeepsStoreInv, PTL DEF Spec, RefusalDrainsLru

-----------------------------------------------------------------------------
(* The store implements BoundedCache for careful clients.                  *)

\* The operators BoundedCache is built from are those of the store.
LEMMA ContractOperators ==
  /\ \A map, key, entry : Contract!Put(map, key, entry) = Put(map, key, entry)
  /\ \A map, gone : Contract!Without(map, gone) = Without(map, gone)
BY DEF Contract!Put, Put, Contract!Without, Contract!Restrict, Without, Restrict

\* An insert that makes room stores under its key, or forgets.
LEMMA MakeRoomImplements ==
  ASSUME BudgetInv, NEW key \in Keys, NEW entry \in Entry, NEW needed \in Nat,
         MakeRoomAndStore(key, entry, needed),
         key \notin Erased(Examined(needed)),
         \/ maxCacheBytes = 0
         \/ TotalMemorySize' <= maxCacheBytes
         \/ TotalMemorySize' <= TotalMemorySize
  PROVE  Contract!Next
<1> DEFINE gone == Erased(Examined(needed))
           kept == Without(entries, gone)
<1>1. gone \in SUBSET (DOMAIN entries \ {key})
  BY DEF Erased
<1>2. UNCHANGED maxCacheBytes
  BY DEF MakeRoomAndStore
<1> HIDE DEF gone
<1>3. CASE entries' = Put(kept, key, entry)
  <2>1. entries' = Contract!Put(Contract!Without(entries, gone), key, entry)
    BY <1>3, ContractOperators
  <2>2. \/ maxCacheBytes = 0
        \/ MemorySize(entries') <= maxCacheBytes
        \/ MemorySize(entries') <= MemorySize(entries)
    BY DEF TotalMemorySize
  <2>3. Contract!Store(key, entry)
    BY <1>1, <1>2, <2>1, <2>2 DEF Contract!Store
  <2> QED
    BY <2>3 DEF Contract!Next
<1>4. CASE entries' = kept
  <2>1. entries' = Contract!Without(entries, gone)
    BY <1>4, ContractOperators
  <2>2. Contract!Forget
    BY <1>1, <1>2, <2>1 DEF Contract!Forget
  <2> QED
    BY <2>2 DEF Contract!Next
<1> QED
  BY <1>3, <1>4 DEF MakeRoomAndStore, gone

\* A careful step of the store is a step of BoundedCache or changes nothing
\* that BoundedCache speaks of.
LEMMA CarefulStepImplements ==
  BudgetInv /\ [CarefulNext]_vars => [Contract!Next]_(Contract!vars)
<1> SUFFICES ASSUME BudgetInv, [CarefulNext]_vars
             PROVE  [Contract!Next]_(Contract!vars)
  OBVIOUS
<1>1. TypeOK
  BY DEF BudgetInv, StoreInv
<1>2. \/ maxCacheBytes = 0
      \/ TotalMemorySize' <= maxCacheBytes
      \/ TotalMemorySize' <= TotalMemorySize
  BY CarefulStepIsExact
<1>3. ASSUME NEW entry \in Entry PROVE entry.size \in Nat
  <2>1. entry.size \in Sizes
    BY DEF Entry
  <2>2. entry.size \in 0 .. MaxEntryBytes /\ MaxEntryBytes \in Nat
    BY <2>1, SizesAssumption
  <2> QED
    BY <2>2
<1>4. ASSUME NEW key \in Keys, NEW entry \in Entry, InsertNew(key, entry)
      PROVE  Contract!Next
  <2>1. key \notin Erased(Examined(entry.size))
    BY <1>4 DEF InsertNew, Erased
  <2> QED
    BY <1>2, <1>3, <1>4, <2>1, MakeRoomImplements DEF InsertNew
<1>5. ASSUME NEW key \in Keys, NEW entry \in Entry, InsertLarger(key, entry),
             ~EvictsItself(key, entry.size - entries[key].size)
      PROVE  Contract!Next
  <2>1. entry.size - entries[key].size \in Nat
    BY <1>1, <1>5, SizesAssumption DEF Entry, InsertLarger, TypeOK
  <2> QED
    BY <1>2, <1>5, <2>1, MakeRoomImplements DEF InsertLarger, EvictsItself
<1>6. ASSUME NEW key \in Keys, NEW entry \in Entry, InsertNotLarger(key, entry)
      PROVE  Contract!Next
  <2>1. Without(entries, {}) = entries
    BY <1>1 DEF Without, Restrict, TypeOK
  <2>2. entries' = Contract!Put(Contract!Without(entries, {}), key, entry)
    BY <1>6, <2>1, ContractOperators DEF InsertNotLarger
  <2>3. \/ maxCacheBytes = 0
        \/ MemorySize(entries') <= maxCacheBytes
        \/ MemorySize(entries') <= MemorySize(entries)
    BY <1>2 DEF TotalMemorySize
  <2>4. UNCHANGED maxCacheBytes
    BY <1>6 DEF InsertNotLarger
  <2>5. Contract!Store(key, entry)
    <3>1. {} \in SUBSET (DOMAIN entries \ {key})
      OBVIOUS
    <3> QED
      BY <2>2, <2>3, <2>4, <3>1 DEF Contract!Store
  <2> QED
    BY <2>5 DEF Contract!Next
<1>7. ASSUME Clear PROVE Contract!Next
  <2>1. <<>> = Without(entries, DOMAIN entries)
    BY DEF Without, Restrict
  <2>2. entries' = Contract!Without(entries, DOMAIN entries) /\ UNCHANGED maxCacheBytes
    BY <1>7, <2>1, ContractOperators DEF Clear
  <2>3. Contract!Forget
    BY <2>2 DEF Contract!Forget
  <2> QED
    BY <2>3 DEF Contract!Next
<1>8. ASSUME NEW limit \in Limits, SetMaxCacheBytes(limit)
      PROVE  Contract!Next
  BY <1>8 DEF SetMaxCacheBytes, Contract!SetLimit, Contract!Next
<1>9. ASSUME UNCHANGED <<entries, maxCacheBytes>>
      PROVE  UNCHANGED Contract!vars
  BY <1>9 DEF Contract!vars
<1> QED
  BY <1>4, <1>5, <1>6, <1>7, <1>8, <1>9
     DEF CarefulNext, CarefulInsert, ReadOrReset, Get, ReadBatch, vars

\* For careful clients the store is a bounded cache: an entry that is not
\* forgotten is what was last stored under its key, and nothing an insert
\* does lets the cache grow beyond the limit.
THEOREM StoreImplementsBoundedCache == CarefulSpec => ImplementsBoundedCache
<1>1. Init => Contract!Init
  BY DEF Init, Contract!Init
<1> QED
  BY <1>1, BudgetInvInductive, CarefulStepImplements, PTL
     DEF CarefulSpec, ImplementsBoundedCache, Contract!Spec
-----------------------------------------------------------------------------
(* LiquidCacheStoreSteps: what holds between the statements of an insert,  *)
(* for every store, batch size and number of attempts.                     *)

Running == {"room", "attempt", "erase", "release", "reserve", "store", "notify"}

\* At every statement the list names cached keys, each once, and the victims
\* that were popped and not yet erased are cached keys it does not name.
StepsInv ==
  /\ pc \in {"idle"} \cup Running
  /\ lru \in Seq(Keys) /\ Distinct(lru)
  /\ Tracked(lru) \subseteq DOMAIN entries
  /\ pc # "idle" => call.key \in Keys
  /\ pc = "idle" => victims = <<>>
  /\ pc = "notify" => call.key \in DOMAIN entries
  /\ victims \in Seq(Keys) /\ Distinct(victims)
  /\ Tracked(victims) \subseteq DOMAIN entries \ Tracked(lru)

\* The victims of one call, the oldest first, by their places in the list.
LEMMA VictimsAre ==
  ASSUME NEW list \in Seq(Keys), NEW n \in Nat
  PROVE  Victims(list, n) = [i \in 1 .. PopCount(list, n) |-> list[Len(list) + 1 - i]]
<1> PICK len : len = Len(list)
  OBVIOUS
<1> PICK pop : pop = PopCount(list, n)
  OBVIOUS
<1> DEFINE back == SubSeq(list, len - pop + 1, len)
<1>1. /\ len \in Nat /\ pop \in 0 .. len /\ DOMAIN list = 1 .. len
      /\ \A i \in 1 .. len : list[i] \in Keys
  BY DEF PopCount
<1>2. /\ back \in Seq(Keys) /\ Len(back) = pop
      /\ \A i \in 1 .. pop : back[i] = list[len - pop + i]
  BY <1>1
<1>3. Victims(list, n) = [i \in 1 .. pop |-> back[pop - i + 1]]
  BY <1>2 DEF Victims, Reverse
<1>4. ASSUME NEW i \in 1 .. pop
      PROVE  back[pop - i + 1] = list[len + 1 - i]
  <2>1. pop - i + 1 \in 1 .. pop /\ len - pop + (pop - i + 1) = len + 1 - i
    BY <1>1
  <2> QED
    BY <1>2, <2>1
<1> HIDE DEF back
<1> QED
  BY <1>3, <1>4

\* The victims of one call are the keys it takes out of the list, each once.
LEMMA VictimsOf ==
  ASSUME NEW list \in Seq(Keys), Distinct(list), NEW n \in Nat
  PROVE  /\ Victims(list, n) \in Seq(Keys) /\ Distinct(Victims(list, n))
         /\ Tracked(Victims(list, n)) = Oldest(list, n)
<1> PICK len : len = Len(list)
  OBVIOUS
<1> PICK pop : pop = PopCount(list, n)
  OBVIOUS
<1> DEFINE all == [i \in 1 .. pop |-> list[len + 1 - i]]
<1>1. /\ len \in Nat /\ pop \in 0 .. len /\ DOMAIN list = 1 .. len
      /\ \A i \in 1 .. len : list[i] \in Keys
  BY DEF PopCount
<1>4. ASSUME NEW i \in 1 .. pop
      PROVE  len + 1 - i \in 1 .. len /\ len + 1 - i \in (len - pop + 1) .. len
  BY <1>1
<1>5. Victims(list, n) = all
  BY VictimsAre
<1>6. all \in Seq(Keys) /\ DOMAIN all = 1 .. pop
  BY <1>1, <1>4
<1>7. Distinct(all)
  <2> SUFFICES ASSUME NEW i \in 1 .. pop, NEW j \in 1 .. pop, all[i] = all[j]
               PROVE  i = j
    BY <1>6 DEF Distinct
  <2>1. len + 1 - i = len + 1 - j
    BY <1>1, <1>4 DEF Distinct
  <2> QED
    BY <1>1, <2>1
<1>8. ASSUME NEW k PROVE k \in Tracked(all) <=> k \in Oldest(list, n)
  <2>1. Oldest(list, n) = {list[m] : m \in (len - pop + 1) .. len}
    BY DEF Oldest
  <2>2. ASSUME k \in Tracked(all) PROVE k \in Oldest(list, n)
    <3>1. PICK i \in 1 .. pop : all[i] = k
      BY <1>6, <2>2 DEF Tracked, Range
    <3> QED
      BY <1>4, <2>1, <3>1
  <2>3. ASSUME k \in Oldest(list, n) PROVE k \in Tracked(all)
    <3>1. PICK m \in (len - pop + 1) .. len : list[m] = k
      BY <2>1, <2>3
    <3>2. len + 1 - m \in 1 .. pop /\ len + 1 - (len + 1 - m) = m
      BY <1>1
    <3>3. all[len + 1 - m] = k
      BY <3>1, <3>2
    <3> QED
      BY <1>6, <3>2, <3>3 DEF Tracked, Range
  <2> QED
    BY <2>2, <2>3
<1> QED
  BY <1>5, <1>6, <1>7, <1>8

\* What is left of distinct victims when the first has gone.
LEMMA TailOf ==
  ASSUME NEW K, NEW list \in Seq(K), Distinct(list), list # <<>>
  PROVE  /\ Head(list) \in Tracked(list)
         /\ Tail(list) \in Seq(K) /\ Distinct(Tail(list))
         /\ Tracked(Tail(list)) \subseteq Tracked(list) \ {Head(list)}
<1>1. /\ Len(list) \in Nat /\ Len(list) >= 1 /\ DOMAIN list = 1 .. Len(list)
      /\ Head(list) = list[1] /\ 1 \in DOMAIN list
  OBVIOUS
<1>2. /\ Tail(list) \in Seq(K) /\ DOMAIN Tail(list) = 1 .. Len(list) - 1
      /\ \A i \in 1 .. Len(list) - 1 : Tail(list)[i] = list[i + 1] /\ i + 1 \in DOMAIN list
  BY <1>1
<1>3. Distinct(Tail(list))
  <2> SUFFICES ASSUME NEW i \in 1 .. Len(list) - 1, NEW j \in 1 .. Len(list) - 1,
                      Tail(list)[i] = Tail(list)[j]
               PROVE  i = j
    BY <1>2 DEF Distinct
  <2>1. i + 1 = j + 1
    BY <1>2 DEF Distinct
  <2> QED
    BY <1>1, <2>1
<1>4. ASSUME NEW k \in Tracked(Tail(list)) PROVE k \in Tracked(list) \ {Head(list)}
  <2>1. PICK i \in 1 .. Len(list) - 1 : Tail(list)[i] = k
    BY <1>2 DEF Tracked, Range
  <2>2. i + 1 \in DOMAIN list /\ list[i + 1] = k /\ i + 1 # 1
    BY <1>1, <1>2, <2>1
  <2> QED
    BY <1>1, <2>2 DEF Distinct, Tracked, Range
<1> QED
  BY <1>1, <1>2, <1>3, <1>4 DEF Tracked, Range

\* No victims are a list of victims.
LEMMA NoVictims == <<>> \in Seq(Keys) /\ Distinct(<<>>) /\ Tracked(<<>>) = {}
BY DEF Distinct, Tracked, Range

\* The store starts empty and idle.
LEMMA InitSteps == StepsInit => StepsInv
<1> SUFFICES ASSUME StepsInit PROVE StepsInv
  OBVIOUS
<1>1. lru = <<>> /\ victims = <<>> /\ pc = "idle"
  BY DEF StepsInit, Init
<1> QED
  BY <1>1, NoVictims DEF StepsInv

\* Nothing that the invariant speaks of changes but the place in insert.
LEMMA MovesOn ==
  ASSUME StepsInv, UNCHANGED <<entries, lru, victims>>, call' = call,
         pc' \in Running \ {"notify"}, pc # "idle"
  PROVE  StepsInv'
BY DEF StepsInv, Running

\* An insert that returns gives up its victims.
LEMMA Returns ==
  ASSUME StepsInv, UNCHANGED <<entries, lru>>, NEW ok, Return(ok)
  PROVE  StepsInv'
<1>1. victims' = <<>> /\ pc' = "idle"
  BY DEF Return
<1> QED
  BY <1>1, NoVictims DEF StepsInv

\* make_budget_space begins or returns at once.
LEMMA EnterRoomKeeps == StepsInv /\ EnterRoom => StepsInv'
BY MovesOn, Returns DEF EnterRoom, vars, Running

\* find_victims moves keys from the list to the victims.
LEMMA AttemptKeeps ==
  ASSUME StepsInv, Attempt
  PROVE  StepsInv'
<1>1. CASE UNCHANGED <<entries, lru, victims, call>> /\ pc' = "reserve"
  BY <1>1, MovesOn DEF Attempt, Running
<1>2. CASE Return(FALSE) /\ UNCHANGED <<entries, lru>>
  BY <1>2, Returns
<1>3. CASE /\ victims' = Victims(lru, VictimBatch)
           /\ lru' = WithoutOldest(lru, VictimBatch)
           /\ pc' = "erase" /\ UNCHANGED <<entries, call>>
  <2>1. VictimBatch \in Nat /\ lru \in Seq(Keys) /\ Distinct(lru)
    BY EvictionAssumption DEF StepsInv
  <2>2. /\ victims' \in Seq(Keys) /\ Distinct(victims')
        /\ Tracked(victims') = Oldest(lru, VictimBatch)
    BY <1>3, <2>1, VictimsOf
  <2>3. /\ lru' \in Seq(Keys) /\ Distinct(lru')
        /\ Tracked(lru') = Tracked(lru) \ Oldest(lru, VictimBatch)
    BY <1>3, <2>1, WithoutOldestTracks
  <2>4. Oldest(lru, VictimBatch) \subseteq Tracked(lru)
    BY <2>1, OldestTracked
  <2>5. pc # "idle"
    BY DEF Attempt
  <2> QED
    BY <1>3, <2>2, <2>3, <2>4, <2>5 DEF StepsInv, Running
<1> QED
  BY <1>1, <1>2, <1>3 DEF Attempt, vars

\* A victim's entry goes, and so does the victim.
LEMMA EraseVictimKeeps ==
  ASSUME StepsInv, EraseVictim
  PROVE  StepsInv'
<1>1. CASE victims = <<>> /\ pc' = "attempt" /\ UNCHANGED <<entries, lru, victims, call>>
  BY <1>1, MovesOn DEF EraseVictim, Running
<1>2. CASE /\ victims # <<>> /\ victims' = Tail(victims)
           /\ entries' = Without(entries, {Head(victims)})
           /\ pc' \in {"release", "erase"} /\ UNCHANGED <<lru, call>>
  <2>1. /\ Head(victims) \in Tracked(victims)
        /\ victims' \in Seq(Keys) /\ Distinct(victims')
        /\ Tracked(victims') \subseteq Tracked(victims) \ {Head(victims)}
    BY <1>2, TailOf DEF StepsInv
  <2>2. DOMAIN entries' = DOMAIN entries \ {Head(victims)}
    BY <1>2 DEF Without, Restrict
  <2>3. pc # "idle"
    BY DEF EraseVictim
  <2> QED
    BY <1>2, <2>1, <2>2, <2>3 DEF StepsInv, Running
<1> QED
  BY <1>1, <1>2 DEF EraseVictim, NextVictims, vars

\* try_reserve or try_update changes only the budget.
LEMMA ReserveKeeps ==
  ASSUME StepsInv, Reserve
  PROVE  StepsInv'
<1>1. CASE Return(FALSE)
  BY <1>1, Returns DEF Reserve
<1>2. CASE pc' = "store" /\ UNCHANGED <<victims, call>>
  BY <1>2, MovesOn DEF Reserve, Running
<1> QED
  BY <1>1, <1>2 DEF Reserve

\* The entry is put under its key; none is removed.
LEMMA StoreEntryKeeps ==
  ASSUME StepsInv, StoreEntry
  PROVE  StepsInv'
<1>1. DOMAIN entries' = DOMAIN entries \cup {call.key}
  BY DEF StoreEntry, Put
<1> QED
  BY <1>1 DEF StepsInv, StoreEntry, Running

\* The key that enters the list is cached and no victim is left.
LEMMA NotifyLruKeeps ==
  ASSUME StepsInv, NotifyLru
  PROVE  StepsInv'
<1>1. /\ lru' = NotifyInsert(lru, call.key) /\ call.key \in DOMAIN entries /\ call.key \in Keys
      /\ entries' = entries /\ victims' = <<>> /\ pc' = "idle"
  BY DEF NotifyLru, StepsInv, Return
<1>2. /\ lru' \in Seq(Keys) /\ Distinct(lru')
      /\ Tracked(lru') = Tracked(lru) \cup {call.key}
  <2>1. PICK key : key = call.key
    OBVIOUS
  <2>2. lru \in Seq(Keys) /\ Distinct(lru) /\ key \in Keys /\ lru' = NotifyInsert(lru, key)
    BY <1>1, <2>1 DEF StepsInv
  <2>3. /\ NotifyInsert(lru, key) \in Seq(Keys) /\ Distinct(NotifyInsert(lru, key))
        /\ Tracked(NotifyInsert(lru, key)) = Tracked(lru) \cup {key}
    BY <2>2, NotifyInsertTracks
  <2> QED
    BY <2>1, <2>2, <2>3
<1> QED
  BY <1>1, <1>2, NoVictims DEF StepsInv

\* Operations that run between inserts.
LEMMA OtherOperationKeeps ==
  ASSUME StepsInv, OtherOperation
  PROVE  StepsInv'
<1>1. UNCHANGED <<pc, call, victims>>
  BY DEF OtherOperation, control
<1>2. CASE UNCHANGED <<entries, lru>>
  BY <1>1, <1>2 DEF StepsInv
<1>3. ASSUME NEW key \in Keys, Get(key), pc = "idle" PROVE StepsInv'
  <2>1. lru' \in Seq(Keys) /\ Distinct(lru') /\ Tracked(lru') = Tracked(lru)
    BY <1>3, NotifyAccessTracks DEF Get, StepsInv
  <2> QED
    BY <1>1, <1>3, <2>1 DEF Get, StepsInv
<1>4. ASSUME Clear, pc = "idle" PROVE StepsInv'
  BY <1>1, <1>4, NoVictims DEF Clear, StepsInv
<1>5. ASSUME NEW key \in Keys, NEW entry, LoadColumn(key, entry) PROVE StepsInv'
  <2>1. DOMAIN entries' = DOMAIN entries \cup {key} /\ lru' = lru
    BY <1>5 DEF LoadColumn, Put
  <2> QED
    BY <1>1, <2>1 DEF StepsInv
<1> QED
  BY <1>2, <1>3, <1>4, <1>5 DEF OtherOperation, SetMaxCacheBytes, LoadMetadata

\* An insert begins.
LEMMA BeginKeeps ==
  ASSUME StepsInv, NEW key \in Keys, NEW entry \in Entry, Begin(key, entry)
  PROVE  StepsInv'
<1>1. /\ call'.key = key /\ pc' \in {"room", "reserve"} /\ pc = "idle"
      /\ entries' = entries /\ lru' = lru /\ victims' = victims
  BY DEF Begin, vars
<1> QED
  BY <1>1 DEF StepsInv, Running

\* A victim's bytes are released.
LEMMA ReleaseVictimKeeps == StepsInv /\ ReleaseVictim => StepsInv'
BY MovesOn DEF ReleaseVictim, Running

\* Every statement keeps the invariant.
LEMMA StepsInductive == StepsInv /\ [StepsNext]_stepVars => StepsInv'
<1> SUFFICES ASSUME StepsInv, [StepsNext]_stepVars PROVE StepsInv'
  OBVIOUS
<1>1. ASSUME NEW key \in Keys, NEW entry \in Entry, Begin(key, entry) PROVE StepsInv'
  BY <1>1, BeginKeeps
<1>2. CASE EnterRoom \/ Attempt \/ EraseVictim \/ ReleaseVictim
  BY <1>2, EnterRoomKeeps, AttemptKeeps, EraseVictimKeeps, ReleaseVictimKeeps
<1>3. CASE Reserve \/ StoreEntry \/ NotifyLru
  BY <1>3, ReserveKeeps, StoreEntryKeeps, NotifyLruKeeps
<1>4. CASE OtherOperation
  BY <1>4, OtherOperationKeeps
<1>5. CASE UNCHANGED stepVars
  BY <1>5 DEF stepVars, vars, control, StepsInv
<1> QED
  BY <1>1, <1>2, <1>3, <1>4, <1>5 DEF StepsNext, InsertStep

\* While make_budget_space works through its victims, they are keys of the map
\* the list has given up, each once: no entry's bytes are released twice.
THEOREM VictimsAreCachedAlways == StepsSpec => []VictimsAreCached
<1>1. StepsInv => VictimsAreCached
  <2>1. ToSet(victims) = Tracked(victims)
    BY DEF ToSet, Tracked, Range
  <2>2. Distinct(victims) => IsInjective(victims)
    BY DEF Distinct, IsInjective
  <2> QED
    BY <2>1, <2>2 DEF StepsInv, VictimsAreCached
<1> QED
  BY <1>1, InitSteps, StepsInductive, PTL DEF StepsSpec

\* Between the last test of make_budget_space and try_reserve or try_update no
\* statement changes what the test read, whatever the other threads do.
THEOREM RoomIsEnoughAlways == StepsSpec => []RoomIsEnough
<1>1. StepsInit => RoomIsEnough
  BY DEF StepsInit, RoomIsEnough
<1>2. RoomIsEnough /\ [StepsNext]_stepVars => RoomIsEnough'
  <2> SUFFICES ASSUME RoomIsEnough, [StepsNext]_stepVars PROVE RoomIsEnough'
    OBVIOUS
  <2>1. ASSUME NEW key \in Keys, NEW entry \in Entry, Begin(key, entry)
        PROVE  RoomIsEnough'
    BY <2>1 DEF Begin, RoomIsEnough
  <2>2. CASE EnterRoom
    BY <2>2 DEF EnterRoom, Return, RoomIsEnough, vars
  <2>3. CASE Attempt
    BY <2>3 DEF Attempt, Return, RoomIsEnough, Fits, vars
  <2>4. CASE EraseVictim
    BY <2>4 DEF EraseVictim, RoomIsEnough
  <2>5. CASE ReleaseVictim
    BY <2>5 DEF ReleaseVictim, RoomIsEnough, Fits
  <2>6. CASE Reserve \/ StoreEntry \/ NotifyLru
    BY <2>6 DEF Reserve, StoreEntry, NotifyLru, Return, RoomIsEnough
  <2>7. CASE OtherOperation
    BY <2>7 DEF OtherOperation, control, LoadMetadata, RoomIsEnough, Fits
  <2>8. CASE UNCHANGED stepVars
    BY <2>8 DEF stepVars, vars, control, RoomIsEnough, Fits
  <2> QED
    BY <2>1, <2>2, <2>3, <2>4, <2>5, <2>6, <2>7, <2>8 DEF StepsNext, InsertStep
<1> QED
  BY <1>1, <1>2, PTL DEF StepsSpec

-----------------------------------------------------------------------------
(* The statements of insert amount to one step of LiquidCacheStore.  E, L  *)
(* and U are entries_, lru_ and used_bytes_ when mutex_ was taken, n is the *)
(* number of victims whose entry has been looked for since, and p the      *)
(* number of keys that have left lru_.                                     *)

\* The entries of the n oldest keys, and the usage without them.
GoneOf(E, L, n) == DOMAIN E \cap Oldest(L, n)
UsedOf(E, L, U, n) == Minus(U, MemorySize(Restrict(E, GoneOf(E, L, n))))

\* A store nobody works on.
StoreOK(E, L, U) ==
  /\ DOMAIN E \subseteq Keys
  /\ E \in [DOMAIN E -> Entry]
  /\ L \in Seq(Keys) /\ Distinct(L) /\ Tracked(L) \subseteq DOMAIN E
  /\ U \in 0 .. (Word - 1)

\* The call is the one that found E.
CallOK(E) ==
  LET old == IF call.key \in DOMAIN E THEN E[call.key].size ELSE 0
  IN  /\ call.key \in Keys /\ call.entry \in Entry
      /\ call.grows = (call.key \notin DOMAIN E \/ call.entry.size > old)
      /\ call.needed = IF call.grows THEN call.entry.size - old
                                     ELSE old - call.entry.size

\* lru_ has lost whole batches; the victims are the part of the last one that
\* has not been looked for.
ListsOK(L, p, n) ==
  /\ attempt \in 0 .. MaxAttempts
  /\ p = PopCount(L, attempt * VictimBatch)
  /\ lru = WithoutOldest(L, attempt * VictimBatch)
  /\ Len(victims) = p - n
  /\ \A i \in 1 .. (p - n) : victims[i] = L[Len(L) + 1 - n - i]
  /\ (attempt - 1) * VictimBatch < p
  /\ (attempt - 1) * VictimBatch <= n
  /\ pc # "erase" => (attempt - 1) * VictimBatch < n

\* The n oldest entries are gone, and their bytes are released.
BytesOK(E, L, U, n) ==
  /\ pc # "notify" => entries = Without(E, GoneOf(E, L, n))
  /\ pc = "notify" => entries = Put(Without(E, GoneOf(E, L, n)), call.key, call.entry)
  /\ pc = "release" => /\ n > 0
                       /\ usedBytes = UsedOf(E, L, U, n - 1)
                       /\ freed = E[L[Len(L) + 1 - n]].size
  /\ pc \in {"store", "notify"} =>
       usedBytes = IF call.grows THEN Plus(UsedOf(E, L, U, n), call.needed)
                                 ELSE Minus(U, call.needed)
  /\ pc \in {"room", "attempt", "erase", "reserve"} => usedBytes = UsedOf(E, L, U, n)

FitsAfter(E, L, U, n) == Fits(UsedOf(E, L, U, n), call.needed)

\* The new bytes did not fit before the last victim was released.
TestsOK(E, L, U, n) ==
  /\ pc = "room" => attempt = 0 /\ call.grows
  /\ pc \in {"attempt", "erase", "release"} =>
       call.grows /\ maxCacheBytes # 0 /\ call.needed <= maxCacheBytes
  /\ maxCacheBytes = 0 => n = 0
  /\ ~call.grows => n = 0 /\ attempt = 0 /\ pc \in {"reserve", "store", "notify"}
  /\ pc = "attempt" => victims = <<>>
  /\ \A m \in 0 .. (n - 1) : ~FitsAfter(E, L, U, m)
  /\ pc = "erase" \/ (pc = "attempt" /\ attempt > 0) => ~FitsAfter(E, L, U, n)
  /\ pc \in {"reserve", "store", "notify"} /\ call.grows =>
       \/ maxCacheBytes = 0
       \/ call.needed <= maxCacheBytes /\ FitsAfter(E, L, U, n)

\* Between the statements of an insert.
Midway(E, L, U, p, n) ==
  /\ CallOK(E)
  /\ ListsOK(L, p, n)
  /\ BytesOK(E, L, U, n)
  /\ TestsOK(E, L, U, n)

TypedStore ==
  /\ DOMAIN entries \subseteq Keys
  /\ entries \in [DOMAIN entries -> Entry]
  /\ usedBytes \in 0 .. (Word - 1)
  /\ maxCacheBytes \in Nat

\* What holds at every statement, whatever ran before.
InsertInv ==
  /\ StepsInv /\ TypedStore
  /\ pc = "idle" => attempt = 0
  /\ pc # "idle" =>
       /\ StoreOK(before.entries, before.lru, before.usedBytes)
       /\ \E p \in Nat : \E n \in 0 .. p :
            Midway(before.entries, before.lru, before.usedBytes, p, n)

\* Releasing twice is releasing the sum.
LEMMA MinusTwice ==
  ASSUME NEW u \in 0 .. (Word - 1), NEW a \in Nat, NEW b \in Nat, a + b < Word
  PROVE  Minus(Minus(u, a), b) = Minus(u, a + b)
<1>1. Word \in Nat /\ Word > 0
  BY WordAssumption
<1>2. \A x \in 0 .. (Word - 1), y \in 0 .. (Word - 1) :
        Minus(x, y) = IF x >= y THEN x - y ELSE x + Word - y
  BY <1>1 DEF Minus
<1>3. a \in 0 .. (Word - 1) /\ b \in 0 .. (Word - 1) /\ a + b \in 0 .. (Word - 1)
  BY <1>1
<1>4. /\ Minus(u, a) = (IF u >= a THEN u - a ELSE u + Word - a)
      /\ Minus(u, a) \in 0 .. (Word - 1)
  BY <1>1, <1>2, <1>3
<1>5. Minus(u, a + b) = IF u >= a + b THEN u - (a + b) ELSE u + Word - (a + b)
  BY <1>2, <1>3
<1>6. Minus(Minus(u, a), b)
        = IF Minus(u, a) >= b THEN Minus(u, a) - b ELSE Minus(u, a) + Word - b
  BY <1>2, <1>3, <1>4
<1> QED
  BY <1>1, <1>3, <1>4, <1>5, <1>6

\* Before the first victim nothing is gone.
LEMMA NothingGone ==
  ASSUME NEW E, NEW L, NEW U, StoreOK(E, L, U)
  PROVE  /\ Without(E, GoneOf(E, L, 0)) = E
         /\ UsedOf(E, L, U, 0) = U
         /\ WithoutOldest(L, 0) = L
         /\ PopCount(L, 0) = 0
<1>1. L \in Seq(Keys) /\ Len(L) \in Nat /\ U \in 0 .. (Word - 1) /\ Word \in Nat
  BY WordAssumption DEF StoreOK
<1>2. PopCount(L, 0) = 0
  BY <1>1 DEF PopCount
<1>3. Oldest(L, 0) = {}
  BY <1>1, <1>2 DEF Oldest
<1>4. GoneOf(E, L, 0) = {}
  BY <1>3 DEF GoneOf
<1>5. WithoutOldest(L, 0) = L
  BY <1>1, <1>2 DEF WithoutOldest
<1>6. Without(E, {}) = E
  BY DEF Without, Restrict, StoreOK
<1>7. BytesOf(Restrict(E, {})) = {}
  BY DEF BytesOf, Restrict
<1>8. MemorySize(Restrict(E, {})) = 0
  BY <1>7, FS_EmptySet DEF MemorySize
<1>9. Minus(U, 0) = U
  BY <1>1, WordArithmetic
<1> QED
  BY <1>2, <1>4, <1>5, <1>6, <1>8, <1>9 DEF UsedOf

\* One more victim: its entry goes, and its bytes are released on their own.
LEMMA OneMoreGone ==
  ASSUME NEW E, NEW L, NEW U, StoreOK(E, L, U), NEW n \in Nat, n < Len(L),
         NEW v, v = L[Len(L) - n]
  PROVE  /\ v \in DOMAIN Without(E, GoneOf(E, L, n))
         /\ Without(E, GoneOf(E, L, n))[v] = E[v]
         /\ Without(Without(E, GoneOf(E, L, n)), {v}) = Without(E, GoneOf(E, L, n + 1))
         /\ Minus(UsedOf(E, L, U, n), E[v].size) = UsedOf(E, L, U, n + 1)
<1> PICK len : len = Len(L)
  OBVIOUS
<1> PICK gone : gone = GoneOf(E, L, n)
  OBVIOUS
<1>1. /\ L \in Seq(Keys) /\ len \in Nat /\ n < len /\ DOMAIN L = 1 .. len
      /\ \A i \in 1 .. len, j \in 1 .. len : L[i] = L[j] => i = j
      /\ len - n \in 1 .. len
  BY DEF StoreOK, Distinct
<1>2. PopCount(L, n) = n /\ PopCount(L, n + 1) = n + 1
  BY <1>1 DEF PopCount
<1>3. Oldest(L, n) = {L[i] : i \in (len - n + 1) .. len}
  BY <1>1, <1>2 DEF Oldest
<1>4. Oldest(L, n + 1) = {L[i] : i \in (len - n) .. len}
  <2>1. len - (n + 1) + 1 = len - n
    BY <1>1
  <2> QED
    BY <1>2, <2>1 DEF Oldest
<1>5. Oldest(L, n + 1) = Oldest(L, n) \cup {v}
  <2> SUFFICES ASSUME NEW x PROVE x \in Oldest(L, n + 1) <=> x \in Oldest(L, n) \cup {v}
    OBVIOUS
  <2>1. \A i \in Int : i \in (len - n) .. len <=> i = len - n \/ i \in (len - n + 1) .. len
    BY <1>1
  <2> QED
    BY <1>1, <1>3, <1>4, <2>1
<1>6. v \notin Oldest(L, n)
  <2> SUFFICES ASSUME NEW i \in (len - n + 1) .. len, v = L[i] PROVE FALSE
    BY <1>3
  <2>1. i \in 1 .. len /\ i # len - n
    BY <1>1
  <2> QED
    BY <1>1, <2>1
<1>7. v \in DOMAIN E
  BY <1>1 DEF StoreOK, Tracked, Range
<1>8. GoneOf(E, L, n + 1) = gone \cup {v} /\ v \notin gone /\ gone \subseteq DOMAIN E
  BY <1>5, <1>6, <1>7 DEF GoneOf
<1>9. v \in DOMAIN Without(E, gone) /\ Without(E, gone)[v] = E[v]
  BY <1>7, <1>8 DEF Without, Restrict
<1>10. Without(Without(E, gone), {v}) = Without(E, gone \cup {v})
  <2>1. (DOMAIN E \ gone) \ {v} = DOMAIN E \ (gone \cup {v})
    OBVIOUS
  <2> QED
    BY <2>1 DEF Without, Restrict
<1> DEFINE old == Restrict(E, gone)
           new == Restrict(E, gone \cup {v})
<1>11. /\ IsEntryMap(E, Keys, MaxEntryBytes) /\ MaxEntryBytes \in Nat
       /\ IsEntryMap(old, Keys, MaxEntryBytes)
  <2>1. IsEntryMap(E, Keys, MaxEntryBytes) /\ MaxEntryBytes \in Nat
    BY SizesAssumption DEF StoreOK, IsEntryMap, Entry
  <2> QED
    BY <1>8, <2>1, RestrictIsEntryMap
<1>12. new = Put(old, v, E[v])
  BY <1>7, <1>8 DEF Put, Restrict
<1>13. v \in Keys \ DOMAIN old /\ E[v].size \in 0 .. MaxEntryBytes
  BY <1>7, <1>8, <1>11 DEF StoreOK, Restrict, IsEntryMap
<1> HIDE DEF old, new
<1>14. /\ IsEntryMap(Put(old, v, E[v]), Keys, MaxEntryBytes)
       /\ MemorySize(Put(old, v, E[v])) = MemorySize(old) + E[v].size
  BY <1>11, <1>13, MemorySizePutNew, KeysAssumption
<1>15. MemorySize(old) \in Nat /\ E[v].size \in Nat /\ MemorySize(old) + E[v].size < Word
  <2>1. MemorySize(old) \in Nat /\ MemorySize(Put(old, v, E[v])) < Word
    BY <1>11, <1>14, TotalFitsWord
  <2> QED
    BY <1>11, <1>13, <1>14, <2>1
<1>16. U \in 0 .. (Word - 1)
  BY DEF StoreOK
<1>17. Minus(Minus(U, MemorySize(old)), E[v].size) = Minus(U, MemorySize(old) + E[v].size)
  BY <1>15, <1>16, MinusTwice
<1>18. Minus(UsedOf(E, L, U, n), E[v].size) = UsedOf(E, L, U, n + 1)
  BY <1>8, <1>12, <1>14, <1>17 DEF UsedOf, old, new
<1> QED
  BY <1>8, <1>9, <1>10, <1>18

\* The bytes of the victim that was looked for last are released last.
LEMMA ReleasesOne ==
  ASSUME NEW E, NEW L, NEW U, StoreOK(E, L, U), NEW n \in Nat, n > 0, n <= Len(L)
  PROVE  Minus(UsedOf(E, L, U, n - 1), E[L[Len(L) + 1 - n]].size) = UsedOf(E, L, U, n)
<1>1. Len(L) \in Nat
  BY DEF StoreOK
<1>2. ASSUME NEW k \in Nat, k < Len(L)
      PROVE  Minus(UsedOf(E, L, U, k), E[L[Len(L) - k]].size) = UsedOf(E, L, U, k + 1)
  <2> PICK v : v = L[Len(L) - k]
    OBVIOUS
  <2>1. Minus(UsedOf(E, L, U, k), E[v].size) = UsedOf(E, L, U, k + 1)
    BY <1>2, OneMoreGone
  <2> QED
    BY <2>1
<1>3. n - 1 \in Nat /\ n - 1 < Len(L) /\ Len(L) - (n - 1) = Len(L) + 1 - n /\ n - 1 + 1 = n
  BY <1>1
<1>4. Minus(UsedOf(E, L, U, n - 1), E[L[Len(L) - (n - 1)]].size) = UsedOf(E, L, U, n - 1 + 1)
  BY <1>2, <1>3
<1> QED
  BY <1>3, <1>4

-----------------------------------------------------------------------------
(* What the operators of the atomic store say during an insert.            *)

\* The helpers of the two modules are the same functions.
LEMMA SameHelpers ==
  /\ \A map : Atomic!MemorySize(map) = MemorySize(map)
  /\ \A map, S : Atomic!Restrict(map, S) = Restrict(map, S)
  /\ \A map, S : Atomic!Without(map, S) = Without(map, S)
  /\ \A map, key, entry : Atomic!Put(map, key, entry) = Put(map, key, entry)
  /\ \A list, n : Atomic!PopCount(list, n) = PopCount(list, n)
  /\ \A list, n : Atomic!Oldest(list, n) = Oldest(list, n)
  /\ \A list, n : Atomic!WithoutOldest(list, n) = WithoutOldest(list, n)
  /\ \A list, key : Atomic!NotifyInsert(list, key) = NotifyInsert(list, key)
  /\ \A list, key : Atomic!NotifyAccess(list, key) = NotifyAccess(list, key)
  /\ \A a, b : Atomic!Plus(a, b) = Plus(a, b)
  /\ \A a, b : Atomic!Minus(a, b) = Minus(a, b)
<1>1. ASSUME NEW S PROVE Atomic!Cardinality(S) = Cardinality(S)
  BY DEF Atomic!Cardinality, Cardinality
<1>2. ASSUME NEW map PROVE Atomic!MemorySize(map) = MemorySize(map)
  BY <1>1 DEF Atomic!MemorySize, MemorySize, Atomic!BytesOf, BytesOf
<1>3. ASSUME NEW map, NEW S
      PROVE  /\ Atomic!Restrict(map, S) = Restrict(map, S)
             /\ Atomic!Without(map, S) = Without(map, S)
  BY DEF Atomic!Restrict, Restrict, Atomic!Without, Without
<1>4. ASSUME NEW map, NEW key, NEW entry
      PROVE  Atomic!Put(map, key, entry) = Put(map, key, entry)
  BY DEF Atomic!Put, Put
<1>5. ASSUME NEW list, NEW n
      PROVE  /\ Atomic!PopCount(list, n) = PopCount(list, n)
             /\ Atomic!Oldest(list, n) = Oldest(list, n)
             /\ Atomic!WithoutOldest(list, n) = WithoutOldest(list, n)
  BY DEF Atomic!PopCount, PopCount, Atomic!Oldest, Oldest, Atomic!WithoutOldest, WithoutOldest
<1>6. ASSUME NEW list, NEW key
      PROVE  /\ Atomic!NotifyInsert(list, key) = NotifyInsert(list, key)
             /\ Atomic!NotifyAccess(list, key) = NotifyAccess(list, key)
  BY DEF Atomic!NotifyInsert, NotifyInsert, Atomic!NotifyAccess, NotifyAccess,
         Atomic!Splice, Splice, Atomic!Place, Place, Atomic!Tracked, Tracked,
         Atomic!Range, Range
<1>7. ASSUME NEW a, NEW b
      PROVE  Atomic!Plus(a, b) = Plus(a, b) /\ Atomic!Minus(a, b) = Minus(a, b)
  BY DEF Atomic!Plus, Plus, Atomic!Minus, Minus
<1> QED
  BY <1>2, <1>3, <1>4, <1>5, <1>6, <1>7

\* During an insert the atomic store is the one mutex_ was taken with.
LEMMA FrozenStore ==
  ASSUME pc # "idle", NEW E, NEW L, NEW U,
         before.entries = E, before.lru = L, before.usedBytes = U
  PROVE  /\ \A n : Atomic!Erased(n) = GoneOf(E, L, n)
         /\ \A n : Atomic!UsedAfter(n) = UsedOf(E, L, U, n)
         /\ \A used, needed : Atomic!Fits(used, needed) <=> Fits(used, needed)
         /\ Atomic!Reach = PopCount(L, VictimBatch * MaxAttempts)
<1>1. ASSUME NEW n PROVE Atomic!Erased(n) = GoneOf(E, L, n)
  BY SameHelpers DEF Atomic!Erased, GoneOf, Outside
<1>2. ASSUME NEW n PROVE Atomic!UsedAfter(n) = UsedOf(E, L, U, n)
  BY <1>1, SameHelpers DEF Atomic!UsedAfter, UsedOf, Outside
<1>3. ASSUME NEW used, NEW needed PROVE Atomic!Fits(used, needed) <=> Fits(used, needed)
  BY SameHelpers DEF Atomic!Fits, Fits
<1>4. Atomic!Reach = PopCount(L, VictimBatch * MaxAttempts)
  BY SameHelpers DEF Atomic!Reach, Outside
<1> QED
  BY <1>1, <1>2, <1>3, <1>4

\* make_budget_space looks at n victims: the least n that is enough, or all
\* that one call can reach.
LEMMA ExaminedIs ==
  ASSUME pc # "idle", NEW E, NEW L, NEW U,
         before.entries = E, before.lru = L, before.usedBytes = U,
         NEW needed, NEW n \in Nat,
         NEW reach \in Nat, reach = PopCount(L, VictimBatch * MaxAttempts), n <= reach,
         maxCacheBytes = 0 \/ needed > maxCacheBytes => n = 0,
         \A m \in 0 .. (n - 1) : ~Fits(UsedOf(E, L, U, m), needed),
         maxCacheBytes # 0 /\ ~(needed > maxCacheBytes) =>
           n = reach \/ Fits(UsedOf(E, L, U, n), needed)
  PROVE  Atomic!Examined(needed) = n
<1> DEFINE enough == {m \in 0 .. reach : Fits(UsedOf(E, L, U, m), needed)}
<1>1. Atomic!Examined(needed) =
        IF maxCacheBytes = 0 \/ needed > maxCacheBytes THEN 0
        ELSE IF enough = {} THEN reach
        ELSE CHOOSE m \in enough : \A l \in enough : m <= l
  <2>1. {m \in 0 .. Atomic!Reach : Atomic!Fits(Atomic!UsedAfter(m), needed)} = enough
    BY FrozenStore
  <2> QED
    BY <2>1, FrozenStore DEF Atomic!Examined
<1>2. \A m \in enough : m \in Nat /\ m <= reach /\ n <= m
  BY ZenonT(30), SMTT(30)
<1>3. CASE maxCacheBytes = 0 \/ needed > maxCacheBytes
  BY <1>1, <1>3
<1>4. CASE ~(maxCacheBytes = 0 \/ needed > maxCacheBytes) /\ enough = {}
  <2>1. ~Fits(UsedOf(E, L, U, n), needed)
    BY <1>4
  <2> QED
    BY <1>1, <1>4, <2>1
<1>5. CASE ~(maxCacheBytes = 0 \/ needed > maxCacheBytes) /\ enough # {}
  <2>1. n \in enough
    <3>1. CASE n = reach
      <4>1. PICK m \in enough : TRUE
        BY <1>5
      <4>2. m = n
        BY <1>2, <3>1, <4>1
      <4> QED
        BY <4>1, <4>2
    <3>2. CASE n # reach
      BY <1>5, <3>2
    <3> QED
      BY <3>1, <3>2
  <2> HIDE DEF enough
  <2>2. \A m \in enough : (\A l \in enough : m <= l) => m = n
    BY <1>2, <2>1
  <2>3. \A l \in enough : n <= l
    BY <1>2
  <2>4. (CHOOSE m \in enough : \A l \in enough : m <= l) = n
    BY <2>1, <2>2, <2>3
  <2> QED
    BY <1>1, <1>5, <2>4
<1> QED
  BY <1>3, <1>4, <1>5

\* Keys leave lru_ in whole batches.
LEMMA PoppedIs ==
  ASSUME pc # "idle", NEW L, before.lru = L, NEW n \in Nat, NEW a \in Nat,
         n <= a * VictimBatch, (a - 1) * VictimBatch < n
  PROVE  Atomic!Popped(n) = PopCount(L, a * VictimBatch)
<1>1. VictimBatch \in Nat /\ VictimBatch >= 1
  BY EvictionAssumption
<1> DEFINE Whole(b) == n <= b * VictimBatch /\ (b - 1) * VictimBatch < n
<1>2. ASSUME NEW b \in Nat, NEW c \in Nat, Whole(b), Whole(c) PROVE b <= c
  <2> SUFFICES ASSUME b >= c + 1 PROVE FALSE
    OBVIOUS
  <2>1. (b - 1) * VictimBatch >= c * VictimBatch
    BY <1>1
  <2> QED
    BY <1>1, <1>2, <2>1
<1>3. a \in 0 .. n
  <2>1. a >= 1 => (a - 1) * VictimBatch >= a - 1
    BY <1>1
  <2> QED
    BY <1>1, <2>1
<1>4. Whole(a)
  OBVIOUS
<1> HIDE DEF Whole
<1>5. \A b \in 0 .. n : Whole(b) => b = a
  BY <1>2, <1>3, <1>4
<1>6. (CHOOSE b \in 0 .. n : Whole(b)) = a
  BY <1>3, <1>4, <1>5
<1>7. Atomic!Popped(n) = PopCount(L, (CHOOSE b \in 0 .. n : Whole(b)) * VictimBatch)
  BY SameHelpers DEF Atomic!Popped, Outside, Whole
<1> QED
  BY <1>6, <1>7

\* The usage stays in range, whatever is released.
LEMMA UsedInRange ==
  ASSUME NEW E, NEW L, NEW U, StoreOK(E, L, U), NEW n
  PROVE  UsedOf(E, L, U, n) \in 0 .. (Word - 1)
<1>1. IsEntryMap(E, Keys, MaxEntryBytes) /\ MaxEntryBytes \in Nat /\ U \in 0 .. (Word - 1)
  BY SizesAssumption DEF StoreOK, IsEntryMap, Entry
<1>2. IsEntryMap(Restrict(E, GoneOf(E, L, n)), Keys, MaxEntryBytes)
  BY <1>1, RestrictIsEntryMap DEF GoneOf
<1>3. MemorySize(Restrict(E, GoneOf(E, L, n))) \in Nat
  BY <1>1, <1>2, BytesBounded, KeysAssumption
<1> QED
  BY <1>1, <1>3, WordArithmetic DEF UsedOf

\* What has been popped and looked for, in numbers.
LEMMA ListBounds ==
  ASSUME NEW L \in Seq(Keys), NEW p \in Nat, NEW n \in 0 .. p, ListsOK(L, p, n)
  PROVE  /\ attempt \in Nat /\ VictimBatch \in Nat /\ VictimBatch >= 1
         /\ attempt * VictimBatch \in Nat
         /\ Len(L) \in Nat /\ p <= Len(L) /\ p <= attempt * VictimBatch
         /\ PopCount(L, VictimBatch * MaxAttempts) \in Nat
         /\ p <= PopCount(L, VictimBatch * MaxAttempts)
         /\ attempt = MaxAttempts => p = PopCount(L, VictimBatch * MaxAttempts)
         /\ p = Len(L) => p = PopCount(L, VictimBatch * MaxAttempts)
<1> PICK a, v, m, len : a = attempt /\ v = VictimBatch /\ m = MaxAttempts /\ len = Len(L)
  OBVIOUS
<1>1. v \in Nat /\ v >= 1 /\ m \in Nat /\ a \in 0 .. m /\ len \in Nat /\ a \in Nat
  BY EvictionAssumption DEF ListsOK
<1>2. a * v <= v * m /\ a * v \in Nat /\ v * m \in Nat
  BY <1>1
<1>3. /\ p = (IF a * v <= len THEN a * v ELSE len)
      /\ PopCount(L, v * m) = (IF v * m <= len THEN v * m ELSE len)
  BY DEF ListsOK, PopCount
<1>4. a = m => a * v = v * m
  BY <1>1
<1> HIDE DEF ListsOK
<1>5. p <= len /\ p <= a * v /\ p <= PopCount(L, v * m) /\ PopCount(L, v * m) \in Nat
  BY <1>1, <1>2, <1>3
<1>6. p = len => p = PopCount(L, v * m)
  BY <1>1, <1>2, <1>3
<1> QED
  BY <1>1, <1>2, <1>3, <1>4, <1>5, <1>6

\* The size of an entry is a number.
LEMMA SizeIsNat ==
  ASSUME NEW entry \in Entry
  PROVE  entry.size \in Nat
<1>1. entry.size \in Sizes
  BY DEF Entry
<1>2. entry.size \in 0 .. MaxEntryBytes /\ MaxEntryBytes \in Nat
  BY <1>1, SizesAssumption
<1> QED
  BY <1>2

\* The sizes of a call are numbers.
LEMMA CallNumbers ==
  ASSUME NEW E, NEW L, NEW U, StoreOK(E, L, U), CallOK(E)
  PROVE  /\ call.key \in Keys /\ call.entry \in Entry /\ call.needed \in Nat
         /\ call.grows \in BOOLEAN
         /\ ~call.grows => /\ call.key \in DOMAIN E /\ call.entry.size <= E[call.key].size
                           /\ call.needed = E[call.key].size - call.entry.size
<1> PICK key, entry, grows, needed : /\ key = call.key /\ entry = call.entry
                                    /\ grows = call.grows /\ needed = call.needed
  OBVIOUS
<1> PICK old : old = (IF key \in DOMAIN E THEN E[key].size ELSE 0)
  OBVIOUS
<1>1. /\ key \in Keys /\ entry \in Entry
      /\ grows = (key \notin DOMAIN E \/ entry.size > old)
      /\ needed = IF grows THEN entry.size - old ELSE old - entry.size
  BY DEF CallOK
<1>2. key \in DOMAIN E => E[key] \in Entry
  BY DEF StoreOK
<1>3. entry.size \in Nat /\ old \in Nat
  BY <1>1, <1>2, SizeIsNat
<1>4. grows \in BOOLEAN /\ (grows <=> key \notin DOMAIN E \/ entry.size > old)
  BY <1>1, Zenon
<1>5. needed \in Nat
  <2>1. CASE grows
    <3>1. needed = entry.size - old
      BY <1>1, <2>1
    <3>2. old <= entry.size
      BY <1>3, <1>4, <2>1
    <3> QED
      BY <1>3, <3>1, <3>2
  <2>2. CASE ~grows
    <3>1. needed = old - entry.size /\ ~(entry.size > old)
      BY <1>1, <1>4, <2>2
    <3> QED
      BY <1>3, <3>1
  <2> QED
    BY <2>1, <2>2
<1>6. ASSUME ~grows
      PROVE  key \in DOMAIN E /\ entry.size <= E[key].size /\ needed = E[key].size - entry.size
  <2>1. key \in DOMAIN E /\ ~(entry.size > old) /\ needed = old - entry.size
    BY <1>1, <1>4, <1>6
  <2> QED
    BY <1>3, <2>1
<1> QED
  BY <1>1, <1>4, <1>5, <1>6

\* An insert that needs room and returns has done what MakeRoomAndStore does.
LEMMA GrowingReturn ==
  ASSUME pc # "idle", pc # "erase", pc' = "idle",
         NEW E, NEW L, NEW U,
         before.entries = E, before.lru = L, before.usedBytes = U,
         StoreOK(E, L, U), CallOK(E), call.grows,
         NEW p \in Nat, NEW n \in 0 .. p, ListsOK(L, p, n),
         maxCacheBytes = 0 \/ call.needed > maxCacheBytes => n = 0,
         \A m \in 0 .. (n - 1) : ~FitsAfter(E, L, U, m),
         maxCacheBytes # 0 /\ ~(call.needed > maxCacheBytes) =>
           n = PopCount(L, VictimBatch * MaxAttempts) \/ FitsAfter(E, L, U, n),
         NEW ok \in BOOLEAN,
         ok <=> \/ maxCacheBytes = 0
                \/ call.needed <= maxCacheBytes /\ FitsAfter(E, L, U, n),
         reply' = [op |-> "insert", key |-> call.key, size |-> call.entry.size, ok |-> ok],
         UNCHANGED <<fileMetadata, maxCacheBytes>>,
         ok => /\ entries' = Put(Without(E, GoneOf(E, L, n)), call.key, call.entry)
               /\ lru' = NotifyInsert(lru, call.key)
               /\ usedBytes' = Plus(UsedOf(E, L, U, n), call.needed),
         ~ok => /\ entries' = Without(E, GoneOf(E, L, n))
                /\ lru' = lru
                /\ usedBytes' = UsedOf(E, L, U, n)
  PROVE  \E key \in Keys, entry \in Entry : Atomic!Insert(key, entry)
<1> PICK key, entry, needed : key = call.key /\ entry = call.entry /\ needed = call.needed
  OBVIOUS
<1> PICK reach : reach = PopCount(L, VictimBatch * MaxAttempts)
  OBVIOUS
<1> PICK a : a = attempt
  OBVIOUS
<1>1. key \in Keys /\ entry \in Entry /\ needed \in Nat
  BY CallNumbers
<1>2. L \in Seq(Keys) /\ n \in Nat
  BY DEF StoreOK
<1>3. a \in Nat /\ n <= a * VictimBatch /\ reach \in Nat /\ n <= reach
  BY <1>2, ListBounds
<1>4. \A m \in 0 .. (n - 1) : ~Fits(UsedOf(E, L, U, m), needed)
  BY DEF FitsAfter
<1>5. maxCacheBytes # 0 /\ ~(needed > maxCacheBytes) =>
        n = reach \/ Fits(UsedOf(E, L, U, n), needed)
  BY DEF FitsAfter
<1>6. Atomic!Examined(needed) = n
  BY <1>2, <1>3, <1>4, <1>5, ExaminedIs
<1>7. Atomic!Popped(n) = PopCount(L, a * VictimBatch)
  BY <1>2, <1>3, PoppedIs DEF ListsOK
<1>8. Atomic!WithoutOldest(L, Atomic!Popped(n)) = lru
  <2>1. PopCount(L, PopCount(L, a * VictimBatch)) = PopCount(L, a * VictimBatch)
    BY <1>2, <1>3 DEF PopCount
  <2>2. WithoutOldest(L, PopCount(L, a * VictimBatch)) = WithoutOldest(L, a * VictimBatch)
    BY <2>1 DEF WithoutOldest
  <2> QED
    BY <1>7, <2>2, SameHelpers DEF ListsOK
<1>9. Atomic!Granted(Atomic!UsedAfter(n), needed) <=> ok
  BY FrozenStore DEF Atomic!Granted, FitsAfter
<1>10. Atomic!MakeRoomAndStore(key, entry, needed)
  <2> DEFINE kept == Without(E, GoneOf(E, L, n))
             used == UsedOf(E, L, U, n)
  <2>1. /\ Atomic!Without(E, Atomic!Erased(n)) = kept
        /\ Atomic!UsedAfter(n) = used
        /\ Atomic!Put(kept, key, entry) = Put(kept, key, entry)
        /\ Atomic!NotifyInsert(lru, key) = NotifyInsert(lru, key)
        /\ Atomic!Plus(used, needed) = Plus(used, needed)
    BY FrozenStore, SameHelpers
  <2>2. Atomic!Granted(used, needed) \in BOOLEAN
    BY DEF Atomic!Granted, Atomic!Fits
  <2> HIDE DEF kept, used
  <2>3. Atomic!Granted(used, needed) = ok
    BY <1>9, <2>1, <2>2
  <2>4. /\ reply' = [op |-> "insert", key |-> key, size |-> entry.size, ok |-> ok]
        /\ UNCHANGED <<fileMetadata, maxCacheBytes>>
        /\ \/ /\ ok
              /\ entries' = Put(kept, key, entry)
              /\ lru' = NotifyInsert(lru, key)
              /\ usedBytes' = Plus(used, needed)
           \/ /\ ~ok
              /\ entries' = kept
              /\ lru' = lru
              /\ usedBytes' = used
    BY DEF kept, used
  <2> QED
    BY <1>6, <1>8, <2>1, <2>3, <2>4 DEF Atomic!MakeRoomAndStore, Outside
<1>11. CASE key \notin DOMAIN E
  <2>1. needed = entry.size
    <3>1. entry.size \in Nat
      BY <1>1, SizesAssumption DEF Entry
    <3> QED
      BY <1>11, <3>1 DEF CallOK
  <2>2. Atomic!InsertNew(key, entry)
    BY <1>10, <1>11, <2>1 DEF Atomic!InsertNew, Outside
  <2> QED
    BY <1>1, <2>2 DEF Atomic!Insert, Atomic!Entry, Entry
<1>12. CASE key \in DOMAIN E
  <2>1. entry.size > E[key].size /\ needed = entry.size - E[key].size
    BY <1>12 DEF CallOK
  <2>2. Atomic!InsertLarger(key, entry)
    BY <1>10, <1>12, <2>1 DEF Atomic!InsertLarger, Outside
  <2> QED
    BY <1>1, <2>2 DEF Atomic!Insert, Atomic!Entry, Entry
<1> QED
  BY <1>11, <1>12

\* An insert that needs no room has done what InsertNotLarger does.
LEMMA OtherReturn ==
  ASSUME pc = "notify", pc' = "idle",
         NEW E, NEW L, NEW U,
         before.entries = E, before.lru = L, before.usedBytes = U,
         StoreOK(E, L, U), CallOK(E), ~call.grows,
         lru = L, usedBytes = Minus(U, call.needed),
         entries = Put(E, call.key, call.entry),
         reply' = [op |-> "insert", key |-> call.key, size |-> call.entry.size, ok |-> TRUE],
         lru' = NotifyInsert(lru, call.key),
         UNCHANGED <<entries, usedBytes, fileMetadata, maxCacheBytes>>
  PROVE  \E key \in Keys, entry \in Entry : Atomic!Insert(key, entry)
<1> PICK key, entry, needed : key = call.key /\ entry = call.entry /\ needed = call.needed
  OBVIOUS
<1>1. key \in Keys /\ entry \in Entry
  BY CallNumbers
<1>2. key \in DOMAIN E /\ entry.size <= E[key].size /\ needed = E[key].size - entry.size
  BY CallNumbers
<1>3. Atomic!InsertNotLarger(key, entry)
  BY <1>2, SameHelpers DEF Atomic!InsertNotLarger, Outside
<1> QED
  BY <1>1, <1>3 DEF Atomic!Insert, Atomic!Entry, Entry

-----------------------------------------------------------------------------
(* Every statement keeps the invariant, and is the atomic insert or none.  *)

\* A step the threads outside mutex_ see: one of the atomic store's, or none.
AtomicStep == Atomic!Next \/ UNCHANGED Atomic!vars

\* A statement in the middle of an insert shows them nothing.
LEMMA Unseen ==
  ASSUME pc # "idle", pc' # "idle", before' = before,
         UNCHANGED <<fileMetadata, maxCacheBytes, reply>>
  PROVE  AtomicStep
BY DEF AtomicStep, Atomic!vars, Outside

\* The insert goes on from one statement to the next.
LEMMA GoesOn ==
  ASSUME NEW E, NEW L, NEW U, StoreOK(E, L, U),
         before.entries = E, before.lru = L, before.usedBytes = U,
         StepsInv', TypedStore', pc' # "idle", before' = before,
         NEW p \in Nat, NEW n \in 0 .. p, Midway(E, L, U, p, n)'
  PROVE  InsertInv'
<1>1. before'.entries = E /\ before'.lru = L /\ before'.usedBytes = U
  OBVIOUS
<1>2. CallOK(E)' /\ ListsOK(L, p, n)' /\ BytesOK(E, L, U, n)' /\ TestsOK(E, L, U, n)'
  BY DEF Midway
<1>3. Midway(before.entries, before.lru, before.usedBytes, p, n)'
  BY <1>1, <1>2 DEF Midway, CallOK, ListsOK, BytesOK, TestsOK, FitsAfter
<1> QED
  BY <1>1, <1>3 DEF InsertInv

\* What an insert has done so far, in rigid names.
At(E, L, U, p, n) ==
  /\ before.entries = E /\ before.lru = L /\ before.usedBytes = U
  /\ StoreOK(E, L, U) /\ L \in Seq(Keys)
  /\ CallOK(E) /\ ListsOK(L, p, n) /\ BytesOK(E, L, U, n) /\ TestsOK(E, L, U, n)

\* An insert that is under way has done something of the kind.
LEMMA Halfway ==
  ASSUME InsertInv, pc # "idle"
  PROVE  \E E, L, U : \E p \in Nat, n \in Nat : n \in 0 .. p /\ At(E, L, U, p, n)
<1>1. /\ StoreOK(before.entries, before.lru, before.usedBytes)
      /\ \E p \in Nat : \E n \in 0 .. p :
           Midway(before.entries, before.lru, before.usedBytes, p, n)
  BY DEF InsertInv
<1> PICK E, L, U : before.entries = E /\ before.lru = L /\ before.usedBytes = U
  OBVIOUS
<1>2. StoreOK(E, L, U) /\ \E p \in Nat : \E n \in 0 .. p : Midway(E, L, U, p, n)
  BY <1>1
<1> QED
  BY <1>2 DEF At, Midway, StoreOK

\* Take mutex_ and look the key up.
LEMMA BeginInserts ==
  ASSUME InsertInv, NEW key \in Keys, NEW entry \in Entry, Begin(key, entry), StepsInv'
  PROVE  InsertInv' /\ AtomicStep
<1> PICK E, L, U : E = entries /\ L = lru /\ U = usedBytes
  OBVIOUS
<1>1. /\ pc = "idle" /\ attempt = 0 /\ victims = <<>> /\ VictimBatch \in Nat /\ VictimBatch >= 1
      /\ StoreOK(E, L, U)
  BY EvictionAssumption DEF Begin, InsertInv, StepsInv, TypedStore, StoreOK
<1>2. /\ before'.entries = E /\ before'.lru = L /\ before'.usedBytes = U
      /\ UNCHANGED <<entries, lru, usedBytes, maxCacheBytes, fileMetadata, reply,
                     victims, attempt>>
      /\ pc' \in {"room", "reserve"} /\ (pc' = "room" <=> call'.grows)
      /\ call'.grows \in BOOLEAN
  BY DEF Begin, vars
<1>3. CallOK(E)'
  BY DEF Begin, CallOK
<1>4. ListsOK(L, 0, 0)'
  <2>1. lru' = WithoutOldest(L, 0) /\ PopCount(L, 0) = 0
    BY <1>1, <1>2, NothingGone
  <2>2. /\ attempt' * VictimBatch = 0 /\ (attempt' - 1) * VictimBatch < 0
        /\ (attempt' - 1) * VictimBatch <= 0 /\ attempt' \in 0 .. MaxAttempts
    BY <1>1, <1>2, EvictionAssumption
  <2>3. Len(victims') = 0 - 0 /\ 1 .. (0 - 0) = {}
    BY <1>1, <1>2
  <2> QED
    BY <2>1, <2>2, <2>3 DEF ListsOK
<1>5. BytesOK(E, L, U, 0)'
  BY <1>1, <1>2, NothingGone DEF BytesOK
<1>6. TestsOK(E, L, U, 0)'
  <2>1. 0 .. (0 - 1) = {}
    OBVIOUS
  <2> QED
    BY <1>1, <1>2, <2>1 DEF TestsOK
<1>7. TypedStore'
  BY <1>2 DEF InsertInv, TypedStore
<1>8. InsertInv'
  <2>1. 0 \in Nat /\ 0 \in 0 .. 0
    OBVIOUS
  <2>2. Midway(E, L, U, 0, 0)'
    BY <1>3, <1>4, <1>5, <1>6 DEF Midway
  <2>3. Midway(before.entries, before.lru, before.usedBytes, 0, 0)'
    BY <1>2, <2>2 DEF Midway, CallOK, ListsOK, BytesOK, TestsOK, FitsAfter
  <2> QED
    BY <1>1, <1>2, <1>7, <2>1, <2>3 DEF InsertInv
<1>9. UNCHANGED Atomic!vars
  BY <1>1, <1>2 DEF Atomic!vars, Outside
<1> QED
  BY <1>8, <1>9 DEF AtomicStep

\* An insert that gives up leaves the invariant to the next.
LEMMA GivesUp ==
  ASSUME InsertInv, Return(FALSE), UNCHANGED <<entries, lru, usedBytes, maxCacheBytes>>,
         StepsInv'
  PROVE  InsertInv'
BY DEF InsertInv, Return, TypedStore

\* So does one that has stored its entry.
LEMMA Finishes ==
  ASSUME InsertInv, pc' = "idle", attempt' = 0, StepsInv',
         UNCHANGED <<entries, usedBytes, maxCacheBytes>>
  PROVE  InsertInv'
BY DEF InsertInv, TypedStore

\* make_budget_space begins, or returns at once.
LEMMA EnterRoomInserts ==
  ASSUME InsertInv, EnterRoom, StepsInv'
  PROVE  InsertInv' /\ AtomicStep
<1> pc = "room"
  BY DEF EnterRoom
<1> PICK E, L, U : \E p \in Nat, n \in Nat : n \in 0 .. p /\ At(E, L, U, p, n)
  BY Halfway
<1> PICK p \in Nat, n \in Nat : n \in 0 .. p /\ At(E, L, U, p, n)
  OBVIOUS
<1>0. /\ before.entries = E /\ before.lru = L /\ before.usedBytes = U
      /\ StoreOK(E, L, U) /\ L \in Seq(Keys)
      /\ CallOK(E) /\ ListsOK(L, p, n) /\ BytesOK(E, L, U, n) /\ TestsOK(E, L, U, n)
  BY DEF At
<1>1. attempt = 0 /\ call.grows /\ p = 0 /\ n = 0
  <2>1. attempt = 0 /\ call.grows
    BY <1>0 DEF TestsOK
  <2>2. p <= attempt * VictimBatch /\ VictimBatch \in Nat
    BY <1>0, ListBounds
  <2> QED
    BY <1>0, <2>1, <2>2
<1>2. CASE /\ UNCHANGED <<vars, call, victims, freed, attempt, before>>
           /\ \/ maxCacheBytes = 0 /\ pc' = "reserve"
              \/ /\ maxCacheBytes # 0 /\ call.needed <= maxCacheBytes
                 /\ pc' = "attempt"
  <2>1. TypedStore' /\ UNCHANGED <<entries, lru, usedBytes, maxCacheBytes, fileMetadata, reply>>
    BY <1>2 DEF vars, InsertInv, TypedStore
  <2>2. CallOK(E)' /\ ListsOK(L, p, n)' /\ BytesOK(E, L, U, n)'
    BY <1>0, <1>2, <2>1 DEF CallOK, ListsOK, BytesOK
  <2>3. TestsOK(E, L, U, n)'
    <3>1. victims = <<>>
      <4>1. Len(victims) = 0 /\ victims \in Seq(Keys)
        BY <1>0, <1>1 DEF ListsOK, InsertInv, StepsInv
      <4> QED
        BY <4>1
    <3>2. 0 .. (n - 1) = {}
      BY <1>1
    <3> QED
      BY <1>1, <1>2, <2>1, <3>1, <3>2 DEF TestsOK
  <2>4. InsertInv'
    BY <1>0, <1>2, <2>1, <2>2, <2>3, GoesOn DEF Midway
  <2> QED
    BY <1>2, <2>1, <2>4, Unseen
<1>3. CASE /\ maxCacheBytes # 0 /\ call.needed > maxCacheBytes
           /\ Return(FALSE)
           /\ UNCHANGED <<entries, fileMetadata, lru, usedBytes, maxCacheBytes>>
  <2>1. call.needed \in Nat /\ maxCacheBytes \in Int
    <3>1. maxCacheBytes \in Int
      BY DEF InsertInv, TypedStore
    <3> QED
      BY <1>0, <3>1, CallNumbers
  <2>2. ~(call.needed <= maxCacheBytes)
    BY <1>3, <2>1
  <2>3. /\ entries' = Without(E, GoneOf(E, L, n)) /\ usedBytes' = UsedOf(E, L, U, n)
        /\ lru' = lru
    BY <1>0, <1>3 DEF BytesOK
  <2>4. \E key \in Keys, entry \in Entry : Atomic!Insert(key, entry)
    <3>1. 0 .. (n - 1) = {} /\ FALSE \in BOOLEAN
      BY <1>1
    <3>2. pc' = "idle" /\ reply' = [op |-> "insert", key |-> call.key,
                                    size |-> call.entry.size, ok |-> FALSE]
      BY <1>3 DEF Return
    <3> QED
      BY <1>0, <1>1, <1>3, <2>2, <2>3, <3>1, <3>2, GrowingReturn
  <2> QED
    BY <1>3, <2>4, GivesUp DEF AtomicStep, Atomic!Next, Atomic!Entry, Entry
<1> QED
  BY <1>2, <1>3 DEF EnterRoom

\* The front of a list, by its places.
LEMMA FrontOf ==
  ASSUME NEW K, NEW list \in Seq(K), NEW m \in 0 .. Len(list)
  PROVE  /\ SubSeq(list, 1, m) \in Seq(K) /\ Len(SubSeq(list, 1, m)) = m
         /\ \A i \in 1 .. m : SubSeq(list, 1, m)[i] = list[i]
OBVIOUS

\* The next v of a list L that has lost c, p of them already, are q more.
TakesNext(L, v, c, p, rest, q) ==
  /\ q \in Nat /\ q >= 1 /\ p = c /\ PopCount(L, c + v) = p + q
  /\ WithoutOldest(rest, v) = WithoutOldest(L, c + v)
  /\ Len(Victims(rest, v)) = q
  /\ \A i \in 1 .. q : Victims(rest, v)[i] = L[Len(L) + 1 - p - i]

\* The victims of the next batch, by their places in the list of the start.
LEMMA NextBatch ==
  ASSUME NEW L \in Seq(Keys), NEW v \in Nat, v >= 1, NEW c \in Nat,
         NEW p, p = PopCount(L, c), NEW rest, rest = WithoutOldest(L, c),
         NEW q, q = PopCount(rest, v)
  PROVE  /\ Victims(rest, v) = <<>> => p = Len(L)
         /\ Victims(rest, v) # <<>> => TakesNext(L, v, c, p, rest, q)
<1> PICK len : len = Len(L)
  OBVIOUS
<1>1. len \in Nat /\ p = (IF c <= len THEN c ELSE len) /\ p \in 0 .. len
  BY DEF PopCount
<1> PICK m : m = len - p
  OBVIOUS
<1>2. rest = SubSeq(L, 1, m) /\ m \in 0 .. len
  BY <1>1 DEF WithoutOldest
<1>3. /\ rest \in Seq(Keys) /\ Len(rest) = m
      /\ \A i \in 1 .. m : rest[i] = L[i]
  BY <1>2, FrontOf
<1>4. q = (IF v <= m THEN v ELSE m) /\ q \in 0 .. m
  BY <1>2, <1>3 DEF PopCount
<1>5. Victims(rest, v) = [i \in 1 .. q |-> rest[m + 1 - i]]
  <2>1. Victims(rest, v) = [i \in 1 .. PopCount(rest, v) |-> rest[Len(rest) + 1 - i]]
    BY <1>3, VictimsAre
  <2> QED
    BY <1>3, <2>1
<1>6. ASSUME Victims(rest, v) = <<>> PROVE p = Len(L)
  <2>1. DOMAIN Victims(rest, v) = {}
    BY <1>6
  <2>2. 1 .. q = {}
    BY <1>5, <2>1
  <2> QED
    BY <1>1, <1>2, <1>4, <2>2
<1>7. ASSUME Victims(rest, v) # <<>>
      PROVE  TakesNext(L, v, c, p, rest, q)
  <2>1. q # 0
    <3> SUFFICES ASSUME q = 0 PROVE FALSE
      OBVIOUS
    <3>1. 1 .. q = {}
      OBVIOUS
    <3>2. [i \in 1 .. q |-> rest[m + 1 - i]] = <<>>
      BY <3>1
    <3> QED
      BY <1>5, <1>7, <3>2
  <2>2. q \in Nat /\ q >= 1 /\ p = c
    BY <1>1, <1>4, <2>1
  <2>4. PopCount(L, c + v) = p + q
    <3>1. PopCount(L, c + v) = IF c + v <= len THEN c + v ELSE len
      BY DEF PopCount
    <3> QED
      BY <1>1, <1>4, <2>2, <3>1
  <2>5. WithoutOldest(rest, v) = SubSeq(L, 1, m - q)
    <3>1. WithoutOldest(rest, v) = SubSeq(rest, 1, m - q)
      BY <1>3 DEF WithoutOldest
    <3>2. m - q \in 0 .. m
      BY <1>2, <1>4
    <3>3. SubSeq(SubSeq(L, 1, m), 1, m - q) = SubSeq(L, 1, m - q)
      BY <1>1, <1>2, <3>2
    <3> QED
      BY <1>2, <3>1, <3>3
  <2>6. WithoutOldest(L, c + v) = SubSeq(L, 1, m - q)
    <3>1. len - (p + q) = m - q
      BY <1>1, <2>2
    <3> QED
      BY <2>4, <3>1 DEF WithoutOldest
  <2>7. Len(Victims(rest, v)) = q
    BY <1>5, <2>2
  <2>8. ASSUME NEW i \in 1 .. q PROVE Victims(rest, v)[i] = L[len + 1 - p - i]
    <3>1. m + 1 - i = len + 1 - p - i /\ m + 1 - i \in 1 .. m
      <4>1. i \in Int /\ 1 <= i /\ i <= q /\ q <= m /\ m \in Int
        BY <1>2, <1>4, <2>2
      <4>2. len \in Int /\ p \in Int /\ m = len - p
        BY <1>1
      <4> QED
        BY <4>1, <4>2
    <3> QED
      BY <1>3, <1>5, <3>1
  <2> QED
    BY <2>2, <2>4, <2>5, <2>6, <2>7, <2>8 DEF TakesNext
<1> QED
  BY <1>6, <1>7

\* One turn of the loop of make_budget_space.
LEMMA AttemptInserts ==
  ASSUME InsertInv, Attempt, StepsInv'
  PROVE  InsertInv' /\ AtomicStep
<1> pc = "attempt"
  BY DEF Attempt
<1> PICK E, L, U : \E p \in Nat, n \in Nat : n \in 0 .. p /\ At(E, L, U, p, n)
  BY Halfway
<1> PICK p \in Nat, n \in Nat : n \in 0 .. p /\ At(E, L, U, p, n)
  OBVIOUS
<1>1. /\ before.entries = E /\ before.lru = L /\ before.usedBytes = U
      /\ StoreOK(E, L, U) /\ L \in Seq(Keys)
      /\ CallOK(E) /\ ListsOK(L, p, n) /\ BytesOK(E, L, U, n) /\ TestsOK(E, L, U, n)
  BY DEF At
<1>2. /\ victims = <<>> /\ p = n /\ call.grows
      /\ maxCacheBytes # 0 /\ call.needed <= maxCacheBytes
      /\ usedBytes = UsedOf(E, L, U, n) /\ entries = Without(E, GoneOf(E, L, n))
  <2>1. victims = <<>> /\ Len(victims) = p - n
    BY <1>1 DEF TestsOK, ListsOK
  <2> QED
    BY <1>1, <2>1 DEF TestsOK, BytesOK
<1>3. Fits(usedBytes, call.needed) <=> FitsAfter(E, L, U, n)
  BY <1>2 DEF FitsAfter
<1>4. CASE /\ Fits(usedBytes, call.needed) /\ pc' = "reserve"
           /\ UNCHANGED <<vars, call, victims, freed, attempt, before>>
  <2>1. TypedStore' /\ UNCHANGED <<entries, lru, usedBytes, maxCacheBytes, fileMetadata, reply>>
    BY <1>4 DEF vars, InsertInv, TypedStore
  <2>2. CallOK(E)' /\ ListsOK(L, p, n)' /\ BytesOK(E, L, U, n)'
    BY <1>1, <1>4, <2>1 DEF CallOK, ListsOK, BytesOK
  <2>3. TestsOK(E, L, U, n)'
    BY <1>1, <1>2, <1>3, <1>4, <2>1 DEF TestsOK, FitsAfter, Fits
  <2>4. InsertInv'
    BY <1>1, <1>4, <2>1, <2>2, <2>3, GoesOn DEF Midway
  <2> QED
    BY <1>4, <2>1, <2>4, Unseen
<1> PICK c, v, rest : c = attempt * VictimBatch /\ v = VictimBatch /\ rest = lru
  OBVIOUS
<1>5. /\ attempt \in Nat /\ c \in Nat /\ v \in Nat /\ v >= 1
      /\ p = PopCount(L, c) /\ rest = WithoutOldest(L, c)
  BY <1>1, ListBounds DEF ListsOK
<1>8. CASE /\ ~Fits(usedBytes, call.needed)
           /\ attempt = MaxAttempts \/ Victims(lru, VictimBatch) = <<>>
           /\ Return(FALSE)
           /\ UNCHANGED <<entries, fileMetadata, lru, usedBytes, maxCacheBytes>>
  <2>1. n = PopCount(L, VictimBatch * MaxAttempts)
    <3>1. CASE attempt = MaxAttempts
      BY <1>1, <1>2, <3>1, ListBounds
    <3>2. CASE Victims(lru, VictimBatch) = <<>>
      <4>1. p = Len(L)
        <5>1. PICK q : q = PopCount(rest, v)
          OBVIOUS
        <5> QED
          BY <1>1, <1>5, <3>2, <5>1, NextBatch
      <4> QED
        BY <1>1, <1>2, <4>1, ListBounds
    <3> QED
      BY <1>8, <3>1, <3>2
  <2>2. pc' = "idle" /\ reply' = [op |-> "insert", key |-> call.key,
                                  size |-> call.entry.size, ok |-> FALSE]
    BY <1>8 DEF Return
  <2>3. /\ entries' = Without(E, GoneOf(E, L, n)) /\ usedBytes' = UsedOf(E, L, U, n)
        /\ lru' = lru
    BY <1>2, <1>8
  <2>4. /\ \A m \in 0 .. (n - 1) : ~FitsAfter(E, L, U, m)
        /\ ~FitsAfter(E, L, U, n)
    BY <1>1, <1>3, <1>8 DEF TestsOK
  <2>5. call.needed \in Nat /\ maxCacheBytes \in Nat
    BY <1>1, CallNumbers DEF InsertInv, TypedStore
  <2>6. ~(call.needed > maxCacheBytes) /\ FALSE \in BOOLEAN
    BY <1>2, <2>5
  <2>7. \E key \in Keys, entry \in Entry : Atomic!Insert(key, entry)
    BY <1>1, <1>2, <1>8, <2>1, <2>2, <2>3, <2>4, <2>6, GrowingReturn
  <2> QED
    BY <1>8, <2>7, GivesUp DEF AtomicStep, Atomic!Next, Atomic!Entry, Entry
<1>9. CASE /\ ~Fits(usedBytes, call.needed)
           /\ attempt < MaxAttempts /\ Victims(lru, VictimBatch) # <<>>
           /\ victims' = Victims(lru, VictimBatch)
           /\ lru' = WithoutOldest(lru, VictimBatch)
           /\ attempt' = attempt + 1
           /\ pc' = "erase"
           /\ UNCHANGED <<entries, fileMetadata, usedBytes, maxCacheBytes, reply,
                          call, freed, before>>
  <2> PICK q : q = PopCount(rest, v)
    OBVIOUS
  <2>1. /\ q \in Nat /\ q >= 1 /\ p = c /\ PopCount(L, c + v) = p + q
        /\ WithoutOldest(rest, v) = WithoutOldest(L, c + v)
        /\ Len(Victims(rest, v)) = q
        /\ \A i \in 1 .. q : Victims(rest, v)[i] = L[Len(L) + 1 - p - i]
    <3>1. /\ L \in Seq(Keys) /\ v \in Nat /\ v >= 1 /\ c \in Nat
          /\ p = PopCount(L, c) /\ rest = WithoutOldest(L, c)
      BY <1>1, <1>5
    <3>2. Victims(rest, v) # <<>>
      BY <1>9
    <3>3. TakesNext(L, v, c, p, rest, q)
      BY <3>1, <3>2, NextBatch
    <3> QED
      BY <3>3 DEF TakesNext
  <2>2. /\ attempt' = attempt + 1 /\ victims' = Victims(rest, v)
        /\ lru' = WithoutOldest(L, c + v)
    BY <1>9, <2>1
  <2>3. attempt' \in 0 .. MaxAttempts
    <3>1. attempt \in 0 .. MaxAttempts /\ MaxAttempts \in Nat
      BY <1>1, EvictionAssumption DEF ListsOK
    <3> QED
      BY <1>9, <3>1
  <2>4. attempt' * VictimBatch = c + v /\ (attempt' - 1) * VictimBatch = c
    <3>1. attempt' - 1 = attempt
      BY <1>5, <2>2
    <3>2. (attempt + 1) * v = attempt * v + v
      BY <1>5
    <3> QED
      BY <2>2, <3>1, <3>2
  <2>5. c < p + q /\ c <= n /\ (p + q) - n = q
    <3>1. p = n
      BY <1>2
    <3>2. q \in Nat /\ q >= 1 /\ p = c
      BY <2>1
    <3> QED
      BY <3>1, <3>2
  <2>6. /\ Len(victims') = (p + q) - n
        /\ \A i \in 1 .. ((p + q) - n) : victims'[i] = L[Len(L) + 1 - n - i]
    BY <1>2, <2>1, <2>2, <2>5
  <2>7. pc' = "erase"
    BY <1>9
  <2>8. ListsOK(L, p + q, n)'
    BY <2>1, <2>2, <2>3, <2>4, <2>5, <2>6, <2>7 DEF ListsOK
  <2>9. CallOK(E)' /\ BytesOK(E, L, U, n)'
    BY <1>1, <1>2, <1>9 DEF CallOK, BytesOK
  <2>10. TestsOK(E, L, U, n)'
    <3>1. ~FitsAfter(E, L, U, n)'
      BY <1>3, <1>9 DEF FitsAfter, Fits
    <3>2. \A m \in 0 .. (n - 1) : ~FitsAfter(E, L, U, m)'
      BY <1>1, <1>9 DEF TestsOK, FitsAfter, Fits
    <3> QED
      BY <1>2, <1>9, <3>1, <3>2 DEF TestsOK
  <2>11. p + q \in Nat /\ n \in 0 .. (p + q)
    BY <1>2, <2>1
  <2>12. TypedStore'
    BY <1>9 DEF InsertInv, TypedStore
  <2>13. InsertInv'
    BY <1>1, <1>9, <2>8, <2>9, <2>10, <2>11, <2>12, GoesOn DEF Midway
  <2> QED
    BY <1>9, <2>13, Unseen
<1> QED
  BY <1>4, <1>8, <1>9 DEF Attempt

\* The next victim's entry is erased, or the batch is done.
LEMMA EraseVictimInserts ==
  ASSUME InsertInv, EraseVictim, StepsInv'
  PROVE  InsertInv' /\ AtomicStep
<1> pc = "erase"
  BY DEF EraseVictim
<1> PICK E, L, U : \E p \in Nat, n \in Nat : n \in 0 .. p /\ At(E, L, U, p, n)
  BY Halfway
<1> PICK p \in Nat, n \in Nat : n \in 0 .. p /\ At(E, L, U, p, n)
  OBVIOUS
<1>1. /\ before.entries = E /\ before.lru = L /\ before.usedBytes = U
      /\ StoreOK(E, L, U) /\ L \in Seq(Keys)
      /\ CallOK(E) /\ ListsOK(L, p, n) /\ BytesOK(E, L, U, n) /\ TestsOK(E, L, U, n)
  BY DEF At
<1>2. /\ call.grows /\ maxCacheBytes # 0 /\ call.needed <= maxCacheBytes
      /\ usedBytes = UsedOf(E, L, U, n) /\ entries = Without(E, GoneOf(E, L, n))
      /\ \A m \in 0 .. n : ~FitsAfter(E, L, U, m)
  <2>1. /\ \A m \in 0 .. (n - 1) : ~FitsAfter(E, L, U, m)
        /\ ~FitsAfter(E, L, U, n)
    BY <1>1 DEF TestsOK
  <2>2. \A m \in 0 .. n : m = n \/ m \in 0 .. (n - 1)
    OBVIOUS
  <2> QED
    BY <1>1, <2>1, <2>2 DEF TestsOK, BytesOK
<1>3. CASE /\ victims = <<>> /\ pc' = "attempt"
           /\ UNCHANGED <<vars, call, victims, freed, attempt, before>>
  <2>1. TypedStore' /\ UNCHANGED <<entries, lru, usedBytes, maxCacheBytes, fileMetadata, reply>>
    BY <1>3 DEF vars, InsertInv, TypedStore
  <2>2. p = n
    <3>1. p - n = 0
      BY <1>1, <1>3 DEF ListsOK
    <3> QED
      BY <3>1
  <2>3. CallOK(E)' /\ ListsOK(L, p, n)' /\ BytesOK(E, L, U, n)'
    BY <1>1, <1>3, <2>1, <2>2 DEF CallOK, ListsOK, BytesOK
  <2>4. TestsOK(E, L, U, n)'
    <3>1. \A m \in 0 .. n : ~FitsAfter(E, L, U, m)'
      BY <1>2, <1>3, <2>1 DEF FitsAfter, Fits
    <3>2. \A m \in 0 .. (n - 1) : m \in 0 .. n
      OBVIOUS
    <3> QED
      BY <1>2, <1>3, <2>1, <3>1, <3>2 DEF TestsOK
  <2>5. InsertInv'
    BY <1>1, <1>3, <2>1, <2>3, <2>4, GoesOn DEF Midway
  <2> QED
    BY <1>3, <2>1, <2>5, Unseen
<1>4. CASE /\ victims # <<>>
           /\ victims' = Tail(victims)
           /\ entries' = Without(entries, {Head(victims)})
           /\ IF Head(victims) \in DOMAIN entries
              THEN freed' = entries[Head(victims)].size /\ pc' = "release"
              ELSE UNCHANGED <<freed, pc>>
           /\ UNCHANGED <<fileMetadata, lru, usedBytes, maxCacheBytes, reply,
                          call, attempt, before>>
  <2> PICK oldest, left : oldest = L[Len(L) - n] /\ left = victims
    OBVIOUS
  <2>1. /\ left \in Seq(Keys) /\ left # <<>> /\ Len(left) = p - n
        /\ \A i \in 1 .. (p - n) : left[i] = L[Len(L) + 1 - n - i]
        /\ Len(L) \in Nat /\ p <= Len(L)
    BY <1>1, <1>4, ListBounds DEF ListsOK, InsertInv, StepsInv
  <2>2. p - n >= 1 /\ n < Len(L) /\ p - (n + 1) \in Nat
    <3>1. Len(left) # 0
      BY <2>1
    <3> QED
      BY <2>1, <3>1
  <2>3. Head(left) = oldest
    <3>1. Head(left) = left[1] /\ 1 \in 1 .. (p - n)
      BY <2>1, <2>2
    <3>2. Len(L) + 1 - n - 1 = Len(L) - n
      BY <2>1
    <3> QED
      BY <2>1, <3>1, <3>2
  <2>4. /\ Len(Tail(left)) = p - (n + 1)
        /\ \A i \in 1 .. (p - (n + 1)) : Tail(left)[i] = L[Len(L) + 1 - (n + 1) - i]
    <3>1. Len(Tail(left)) = p - (n + 1)
      BY <2>1, <2>2
    <3>2. ASSUME NEW i \in 1 .. (p - (n + 1))
          PROVE  Tail(left)[i] = L[Len(L) + 1 - (n + 1) - i]
      <4>1. Tail(left)[i] = left[i + 1] /\ i + 1 \in 1 .. (p - n)
        BY <2>1, <2>2
      <4>2. Len(L) + 1 - n - (i + 1) = Len(L) + 1 - (n + 1) - i
        BY <2>1
      <4> QED
        BY <2>1, <4>1, <4>2
    <3> QED
      BY <3>1, <3>2
  <2>5. /\ oldest \in DOMAIN Without(E, GoneOf(E, L, n))
        /\ Without(E, GoneOf(E, L, n))[oldest] = E[oldest]
        /\ Without(Without(E, GoneOf(E, L, n)), {oldest}) = Without(E, GoneOf(E, L, n + 1))
    BY <1>1, <2>2, OneMoreGone
  <2>6. /\ victims' = Tail(left) /\ entries' = Without(E, GoneOf(E, L, n + 1))
        /\ freed' = E[oldest].size /\ pc' = "release"
    BY <1>2, <1>4, <2>3, <2>5
  <2>7. ListsOK(L, p, n + 1)'
    <3>1. (attempt - 1) * VictimBatch <= n /\ (attempt - 1) * VictimBatch \in Int
      <4>1. attempt \in Nat /\ VictimBatch \in Nat
        BY <1>1, ListBounds
      <4>2. (attempt - 1) * VictimBatch \in Int
        BY <4>1
      <4> QED
        BY <1>1, <4>2 DEF ListsOK
    <3>2. (attempt - 1) * VictimBatch < n + 1 /\ (attempt - 1) * VictimBatch <= n + 1
      BY <3>1
    <3> QED
      BY <1>1, <1>4, <2>4, <2>6, <3>2 DEF ListsOK
  <2>8. BytesOK(E, L, U, n + 1)'
    <3>1. n + 1 > 0 /\ n + 1 - 1 = n /\ Len(L) + 1 - (n + 1) = Len(L) - n
      BY <2>1
    <3> QED
      BY <1>2, <1>4, <2>6, <3>1 DEF BytesOK
  <2>9. TestsOK(E, L, U, n + 1)'
    <3>1. \A m \in 0 .. n : ~FitsAfter(E, L, U, m)'
      BY <1>2, <1>4 DEF FitsAfter, Fits
    <3>2. n + 1 - 1 = n
      OBVIOUS
    <3> QED
      BY <1>2, <1>4, <2>6, <3>1, <3>2 DEF TestsOK
  <2>10. CallOK(E)'
    BY <1>1, <1>4 DEF CallOK
  <2>11. n + 1 \in 0 .. p
    BY <2>2
  <2>12. TypedStore'
    BY <1>4 DEF InsertInv, TypedStore, Without, Restrict
  <2>13. InsertInv'
    BY <1>1, <1>4, <2>6, <2>7, <2>8, <2>9, <2>10, <2>11, <2>12, GoesOn DEF Midway
  <2> QED
    BY <1>4, <2>6, <2>13, Unseen
<1> QED
  BY <1>3, <1>4 DEF EraseVictim, NextVictims

\* The victim's bytes are released: enough is enough.
LEMMA ReleaseVictimInserts ==
  ASSUME InsertInv, ReleaseVictim, StepsInv'
  PROVE  InsertInv' /\ AtomicStep
<1> pc = "release"
  BY DEF ReleaseVictim
<1> PICK E, L, U : \E p \in Nat, n \in Nat : n \in 0 .. p /\ At(E, L, U, p, n)
  BY Halfway
<1> PICK p \in Nat, n \in Nat : n \in 0 .. p /\ At(E, L, U, p, n)
  OBVIOUS
<1>1. /\ before.entries = E /\ before.lru = L /\ before.usedBytes = U
      /\ StoreOK(E, L, U) /\ L \in Seq(Keys)
      /\ CallOK(E) /\ ListsOK(L, p, n) /\ BytesOK(E, L, U, n) /\ TestsOK(E, L, U, n)
  BY DEF At
<1>2. /\ call.grows /\ maxCacheBytes # 0 /\ call.needed <= maxCacheBytes
      /\ entries = Without(E, GoneOf(E, L, n))
      /\ n > 0 /\ usedBytes = UsedOf(E, L, U, n - 1) /\ freed = E[L[Len(L) + 1 - n]].size
      /\ \A m \in 0 .. (n - 1) : ~FitsAfter(E, L, U, m)
  BY <1>1 DEF TestsOK, BytesOK
<1>3. Minus(usedBytes, freed) = UsedOf(E, L, U, n)
  <2>1. n <= Len(L)
    BY <1>1, ListBounds
  <2>2. Minus(UsedOf(E, L, U, n - 1), E[L[Len(L) + 1 - n]].size) = UsedOf(E, L, U, n)
    BY <1>1, <1>2, <2>1, ReleasesOne
  <2> QED
    BY <1>2, <2>2
<1>4. /\ usedBytes' = UsedOf(E, L, U, n)
      /\ pc' = IF Fits(UsedOf(E, L, U, n), call.needed) THEN "reserve" ELSE "erase"
      /\ UNCHANGED <<entries, fileMetadata, lru, maxCacheBytes, reply,
                     call, victims, freed, attempt, before>>
  BY <1>3 DEF ReleaseVictim, Fits
<1>5. CallOK(E)' /\ ListsOK(L, p, n)' /\ BytesOK(E, L, U, n)'
  BY <1>1, <1>2, <1>4 DEF CallOK, ListsOK, BytesOK
<1>6. TestsOK(E, L, U, n)'
  <2>1. \A m \in 0 .. (n - 1) : ~FitsAfter(E, L, U, m)'
    BY <1>2, <1>4 DEF FitsAfter, Fits
  <2>2. FitsAfter(E, L, U, n)' <=> Fits(UsedOf(E, L, U, n), call.needed)
    BY <1>4 DEF FitsAfter, Fits
  <2> QED
    BY <1>2, <1>4, <2>1, <2>2 DEF TestsOK
<1>7. TypedStore'
  <2>1. usedBytes' \in 0 .. (Word - 1)
    <3>1. UsedOf(E, L, U, n) \in 0 .. (Word - 1)
      BY <1>1, UsedInRange
    <3> QED
      BY <1>4, <3>1
  <2> QED
    BY <1>4, <2>1 DEF InsertInv, TypedStore
<1>8. InsertInv'
  BY <1>1, <1>4, <1>5, <1>6, <1>7, GoesOn DEF Midway
<1> QED
  BY <1>4, <1>8, Unseen

\* try_reserve or try_update, which has been promised its bytes.
LEMMA ReserveInserts ==
  ASSUME InsertInv, Reserve, StepsInv'
  PROVE  InsertInv' /\ AtomicStep
<1> pc = "reserve"
  BY DEF Reserve
<1> PICK E, L, U : \E p \in Nat, n \in Nat : n \in 0 .. p /\ At(E, L, U, p, n)
  BY Halfway
<1> PICK p \in Nat, n \in Nat : n \in 0 .. p /\ At(E, L, U, p, n)
  OBVIOUS
<1>1. /\ before.entries = E /\ before.lru = L /\ before.usedBytes = U
      /\ StoreOK(E, L, U) /\ L \in Seq(Keys)
      /\ CallOK(E) /\ ListsOK(L, p, n) /\ BytesOK(E, L, U, n) /\ TestsOK(E, L, U, n)
  BY DEF At
<1>2. /\ entries = Without(E, GoneOf(E, L, n)) /\ usedBytes = UsedOf(E, L, U, n)
      /\ ~call.grows => n = 0
      /\ call.grows => maxCacheBytes = 0 \/ Fits(usedBytes, call.needed)
  BY <1>1 DEF TestsOK, BytesOK, FitsAfter
<1>3. usedBytes = U \/ call.grows
  BY <1>1, <1>2, NothingGone
<1>4. /\ usedBytes' = IF call.grows THEN Plus(usedBytes, call.needed)
                                    ELSE Minus(usedBytes, call.needed)
      /\ pc' = "store"
      /\ UNCHANGED <<entries, fileMetadata, lru, maxCacheBytes, reply,
                     call, victims, freed, attempt, before>>
  BY <1>2 DEF Reserve
<1>5. CallOK(E)' /\ ListsOK(L, p, n)' /\ BytesOK(E, L, U, n)'
  BY <1>1, <1>2, <1>3, <1>4 DEF CallOK, ListsOK, BytesOK
<1>6. TestsOK(E, L, U, n)'
  BY <1>1, <1>4 DEF TestsOK, FitsAfter, Fits
<1>7. TypedStore'
  <2> PICK used, needed : used = usedBytes /\ needed = call.needed
    OBVIOUS
  <2>1. used \in 0 .. (Word - 1) /\ needed \in Nat
    BY <1>1, CallNumbers DEF InsertInv, TypedStore
  <2>2. Plus(used, needed) \in 0 .. (Word - 1) /\ Minus(used, needed) \in 0 .. (Word - 1)
    BY <2>1, WordArithmetic
  <2> QED
    BY <1>4, <2>2 DEF InsertInv, TypedStore
<1>8. InsertInv'
  BY <1>1, <1>4, <1>5, <1>6, <1>7, GoesOn DEF Midway
<1> QED
  BY <1>4, <1>8, Unseen

\* The new entry is stored.
LEMMA StoreEntryInserts ==
  ASSUME InsertInv, StoreEntry, StepsInv'
  PROVE  InsertInv' /\ AtomicStep
<1> pc = "store"
  BY DEF StoreEntry
<1> PICK E, L, U : \E p \in Nat, n \in Nat : n \in 0 .. p /\ At(E, L, U, p, n)
  BY Halfway
<1> PICK p \in Nat, n \in Nat : n \in 0 .. p /\ At(E, L, U, p, n)
  OBVIOUS
<1>1. /\ before.entries = E /\ before.lru = L /\ before.usedBytes = U
      /\ StoreOK(E, L, U) /\ L \in Seq(Keys)
      /\ CallOK(E) /\ ListsOK(L, p, n) /\ BytesOK(E, L, U, n) /\ TestsOK(E, L, U, n)
  BY DEF At
<1>2. /\ entries' = Put(entries, call.key, call.entry) /\ pc' = "notify"
      /\ UNCHANGED <<fileMetadata, lru, usedBytes, maxCacheBytes, reply,
                     call, victims, freed, attempt, before>>
  BY DEF StoreEntry
<1>3. CallOK(E)' /\ ListsOK(L, p, n)' /\ BytesOK(E, L, U, n)'
  BY <1>1, <1>2 DEF CallOK, ListsOK, BytesOK
<1>4. TestsOK(E, L, U, n)'
  BY <1>1, <1>2 DEF TestsOK, FitsAfter, Fits
<1>5. TypedStore'
  <2> PICK key, entry : key = call.key /\ entry = call.entry
    OBVIOUS
  <2>1. key \in Keys /\ entry \in Entry
    BY <1>1, CallNumbers
  <2> QED
    BY <1>2, <2>1 DEF InsertInv, TypedStore, Put
<1>6. InsertInv'
  BY <1>1, <1>2, <1>3, <1>4, <1>5, GoesOn DEF Midway
<1> QED
  BY <1>2, <1>6, Unseen

\* The key is the most recently used, and mutex_ is given back: this is the
\* moment the atomic insert takes place.
LEMMA NotifyLruInserts ==
  ASSUME InsertInv, NotifyLru, StepsInv'
  PROVE  InsertInv' /\ AtomicStep
<1> pc = "notify"
  BY DEF NotifyLru
<1> PICK E, L, U : \E p \in Nat, n \in Nat : n \in 0 .. p /\ At(E, L, U, p, n)
  BY Halfway
<1> PICK p \in Nat, n \in Nat : n \in 0 .. p /\ At(E, L, U, p, n)
  OBVIOUS
<1>1. /\ before.entries = E /\ before.lru = L /\ before.usedBytes = U
      /\ StoreOK(E, L, U) /\ L \in Seq(Keys)
      /\ CallOK(E) /\ ListsOK(L, p, n) /\ BytesOK(E, L, U, n) /\ TestsOK(E, L, U, n)
  BY DEF At
<1>2. /\ lru' = NotifyInsert(lru, call.key) /\ pc' = "idle" /\ attempt' = 0
      /\ reply' = [op |-> "insert", key |-> call.key, size |-> call.entry.size, ok |-> TRUE]
      /\ UNCHANGED <<entries, fileMetadata, usedBytes, maxCacheBytes>>
  BY DEF NotifyLru, Return
<1>3. entries = Put(Without(E, GoneOf(E, L, n)), call.key, call.entry)
  BY <1>1 DEF BytesOK
<1>4. CASE call.grows
  <2>1. /\ maxCacheBytes = 0 \/ (call.needed <= maxCacheBytes /\ FitsAfter(E, L, U, n))
        /\ maxCacheBytes = 0 => n = 0
        /\ \A m \in 0 .. (n - 1) : ~FitsAfter(E, L, U, m)
        /\ usedBytes = Plus(UsedOf(E, L, U, n), call.needed)
    BY <1>1, <1>4 DEF TestsOK, BytesOK
  <2>2. call.needed \in Nat /\ maxCacheBytes \in Nat /\ TRUE \in BOOLEAN
    BY <1>1, CallNumbers DEF InsertInv, TypedStore
  <2>3. maxCacheBytes = 0 \/ call.needed > maxCacheBytes => n = 0
    BY <2>1, <2>2
  <2> QED
    BY <1>1, <1>2, <1>3, <1>4, <2>1, <2>2, <2>3, GrowingReturn, Finishes
       DEF AtomicStep, Atomic!Next, Atomic!Entry, Entry
<1>5. CASE ~call.grows
  <2>1. n = 0 /\ attempt = 0 /\ usedBytes = Minus(U, call.needed)
    BY <1>1, <1>5 DEF TestsOK, BytesOK
  <2>2. lru = L
    <3>1. attempt * VictimBatch = 0
      BY <2>1, EvictionAssumption
    <3> QED
      BY <1>1, <3>1, NothingGone DEF ListsOK
  <2>3. entries = Put(E, call.key, call.entry)
    BY <1>1, <1>3, <2>1, NothingGone
  <2>4. \E key \in Keys, entry \in Entry : Atomic!Insert(key, entry)
    BY <1>1, <1>2, <1>5, <2>1, <2>2, <2>3, OtherReturn
  <2> QED
    BY <1>2, <2>4, Finishes DEF AtomicStep, Atomic!Next, Atomic!Entry, Entry
<1> QED
  BY <1>4, <1>5

\* What changes the contents of the store, by its other operations.
LEMMA OtherOperationInserts ==
  ASSUME InsertInv, OtherOperation, StepsInv'
  PROVE  InsertInv' /\ AtomicStep
<1>1. UNCHANGED <<pc, call, victims, freed, attempt, before>>
  BY DEF OtherOperation, control
<1>2. ASSUME pc = "idle", TypedStore' PROVE InsertInv'
  BY <1>1, <1>2 DEF InsertInv
<1>3. ASSUME NEW key \in Keys, Get(key), pc = "idle" PROVE InsertInv' /\ AtomicStep
  <2>1. TypedStore'
    BY <1>3 DEF Get, InsertInv, TypedStore
  <2>2. Atomic!Get(key)
    BY <1>1, <1>3, SameHelpers DEF Get, Atomic!Get, Outside
  <2> QED
    BY <1>2, <1>3, <2>1, <2>2 DEF AtomicStep, Atomic!Next, Atomic!ReadOrReset
<1>4. ASSUME Clear, pc = "idle" PROVE InsertInv' /\ AtomicStep
  <2>1. TypedStore'
    BY <1>4, WordAssumption DEF Clear, InsertInv, TypedStore
  <2>2. Atomic!Clear
    BY <1>1, <1>4 DEF Clear, Atomic!Clear, Atomic!Idle, Idle, Outside
  <2> QED
    BY <1>2, <1>4, <2>1, <2>2 DEF AtomicStep, Atomic!Next, Atomic!ReadOrReset
<1>5. ASSUME NEW limit \in Limits, SetMaxCacheBytes(limit), pc = "idle"
      PROVE  InsertInv' /\ AtomicStep
  <2>1. TypedStore'
    <3>1. limit \in Nat
      BY LimitsAssumption
    <3> QED
      BY <1>5, <3>1 DEF SetMaxCacheBytes, InsertInv, TypedStore
  <2>2. Atomic!SetMaxCacheBytes(limit)
    BY <1>1, <1>5 DEF SetMaxCacheBytes, Atomic!SetMaxCacheBytes, Atomic!Idle, Idle, Outside
  <2> QED
    BY <1>2, <1>5, <2>1, <2>2 DEF AtomicStep, Atomic!Next, Atomic!ReadOrReset
<1>6. ASSUME NEW key \in Keys, NEW entry \in Entry, LoadColumn(key, entry), pc = "idle"
      PROVE  InsertInv' /\ AtomicStep
  <2>1. TypedStore'
    BY <1>6 DEF LoadColumn, InsertInv, TypedStore, Put
  <2>2. Atomic!LoadColumn(key, entry)
    BY <1>1, <1>6, SameHelpers DEF LoadColumn, Atomic!LoadColumn, Atomic!Idle, Idle, Outside
  <2> QED
    BY <1>2, <1>6, <2>1, <2>2
       DEF AtomicStep, Atomic!Next, Atomic!BulkLoad, Atomic!Entry, Entry
<1>7. ASSUME NEW file \in Files, LoadMetadata(file) PROVE InsertInv' /\ AtomicStep
  <2>1. UNCHANGED <<entries, lru, usedBytes, maxCacheBytes>>
    BY <1>7 DEF LoadMetadata
  <2>2. InsertInv'
    <3>1. CASE pc = "idle"
      BY <1>2, <2>1, <3>1 DEF InsertInv, TypedStore
    <3>2. CASE pc # "idle"
      <4> PICK E, L, U : \E p \in Nat, n \in Nat : n \in 0 .. p /\ At(E, L, U, p, n)
        BY <3>2, Halfway
      <4> PICK p \in Nat, n \in Nat : n \in 0 .. p /\ At(E, L, U, p, n)
        OBVIOUS
      <4>1. /\ before.entries = E /\ before.lru = L /\ before.usedBytes = U
            /\ StoreOK(E, L, U) /\ L \in Seq(Keys)
            /\ CallOK(E) /\ ListsOK(L, p, n) /\ BytesOK(E, L, U, n) /\ TestsOK(E, L, U, n)
        BY DEF At
      <4>2. CallOK(E)' /\ ListsOK(L, p, n)' /\ BytesOK(E, L, U, n)'
        BY <1>1, <2>1, <4>1 DEF CallOK, ListsOK, BytesOK
      <4>3. TestsOK(E, L, U, n)'
        BY <1>1, <2>1, <4>1 DEF TestsOK, FitsAfter, Fits
      <4>4. TypedStore'
        BY <2>1 DEF InsertInv, TypedStore
      <4> QED
        BY <1>1, <3>2, <4>1, <4>2, <4>3, <4>4, GoesOn DEF Midway
    <3> QED
      BY <3>1, <3>2
  <2>3. Atomic!LoadMetadata(file)
    BY <1>1, <1>7 DEF LoadMetadata, Atomic!LoadMetadata, Atomic!Idle, Idle, Outside
  <2> QED
    BY <2>2, <2>3 DEF AtomicStep, Atomic!Next, Atomic!BulkLoad
<1> QED
  BY <1>3, <1>4, <1>5, <1>6, <1>7 DEF OtherOperation

\* Every statement of every insert, and every other operation.
LEMMA StepInserts ==
  ASSUME InsertInv, [StepsNext]_stepVars
  PROVE  InsertInv' /\ AtomicStep
<1>1. StepsInv'
  BY StepsInductive DEF InsertInv
<1>2. ASSUME NEW key \in Keys, NEW entry \in Entry, Begin(key, entry)
      PROVE  InsertInv' /\ AtomicStep
  BY <1>1, <1>2, BeginInserts
<1>3. CASE EnterRoom \/ Attempt
  BY <1>1, <1>3, EnterRoomInserts, AttemptInserts
<1>4. CASE EraseVictim \/ ReleaseVictim
  BY <1>1, <1>4, EraseVictimInserts, ReleaseVictimInserts
<1>5. CASE Reserve \/ StoreEntry \/ NotifyLru
  BY <1>1, <1>5, ReserveInserts, StoreEntryInserts, NotifyLruInserts
<1>6. CASE OtherOperation
  BY <1>1, <1>6, OtherOperationInserts
<1>7. CASE UNCHANGED stepVars
  <2>1. InsertInv'
    BY <1>1, <1>7 DEF stepVars, vars, control, InsertInv, TypedStore, Midway, CallOK,
                      ListsOK, BytesOK, TestsOK, FitsAfter, Fits
  <2>2. UNCHANGED Atomic!vars
    BY <1>7 DEF stepVars, vars, control, Atomic!vars, Outside
  <2> QED
    BY <2>1, <2>2 DEF AtomicStep
<1> QED
  BY <1>2, <1>3, <1>4, <1>5, <1>6, <1>7 DEF StepsNext, InsertStep

\* The threads that wait for mutex_ cannot tell insert from one atomic step:
\* with its loop, its early returns and the metadata that is recorded without
\* the lock, it does exactly what LiquidCacheStore says, for every number of
\* keys, batch size and number of attempts.
THEOREM StepsImplementStore == StepsSpec => ImplementsStore
<1>1. StepsInit => InsertInv
  <2> SUFFICES ASSUME StepsInit PROVE InsertInv
    OBVIOUS
  <2>1. StepsInv
    BY InitSteps
  <2>2. TypedStore
    BY WordAssumption, LimitsAssumption DEF StepsInit, Init, TypedStore
  <2> QED
    BY <2>1, <2>2 DEF StepsInit, InsertInv
<1>2. StepsInit => Atomic!Init
  BY DEF StepsInit, Init, Atomic!Init, Atomic!Idle, Idle, Outside
<1>3. InsertInv /\ [StepsNext]_stepVars => InsertInv' /\ [Atomic!Next]_Atomic!vars
  BY StepInserts DEF AtomicStep
<1> QED
  BY <1>1, <1>2, <1>3, PTL DEF StepsSpec, ImplementsStore, Atomic!Spec
=============================================================================
