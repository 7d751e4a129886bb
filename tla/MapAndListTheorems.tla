---------------------- MODULE MapAndListTheorems ----------------------
(***************************************************************************)
(* What storing and evicting do to the size of an entry map, and what the  *)
(* operations of LruPolicy do to the tracked keys.                         *)
(***************************************************************************)
EXTENDS EntryBytes, RecencyList, FiniteSetTheorems, TLAPS

-----------------------------------------------------------------------------
(* Entry maps.                                                             *)

\* An entry map over the keys K whose entries have at most M bytes.
IsEntryMap(map, K, M) ==
  /\ DOMAIN map \subseteq K
  /\ \A k \in DOMAIN map : map[k].size \in 0 .. M

\* The bytes of an entry map are finitely many, at most M for each key.
LEMMA BytesBounded ==
  ASSUME NEW K, IsFiniteSet(K), NEW M \in Nat,
         NEW map, IsEntryMap(map, K, M)
  PROVE  /\ IsFiniteSet(BytesOf(map))
         /\ MemorySize(map) \in Nat
         /\ MemorySize(map) <= Cardinality(K) * M
<1>1. BytesOf(map) \subseteq K \X (1 .. M)
  BY DEF BytesOf, IsEntryMap
<1>2. IsFiniteSet(1 .. M) /\ Cardinality(1 .. M) = M
  BY FS_Interval
<1>3. /\ IsFiniteSet(K \X (1 .. M))
      /\ Cardinality(K \X (1 .. M)) = Cardinality(K) * M
  BY <1>2, FS_Product
<1>4. /\ IsFiniteSet(BytesOf(map))
      /\ Cardinality(BytesOf(map)) <= Cardinality(K) * M
  BY <1>1, <1>3, FS_Subset
<1> QED
  BY <1>4, FS_CardinalityType DEF MemorySize

\* One entry has as many bytes as its size says.
LEMMA BytesOfOne ==
  ASSUME NEW k, NEW n \in Nat
  PROVE  /\ IsFiniteSet({k} \X (1 .. n))
         /\ Cardinality({k} \X (1 .. n)) = n
<1>1. IsFiniteSet({k}) /\ Cardinality({k}) = 1
  BY FS_Singleton
<1>2. IsFiniteSet(1 .. n) /\ Cardinality(1 .. n) = n
  BY FS_Interval
<1>3. /\ IsFiniteSet({k} \X (1 .. n))
      /\ Cardinality({k} \X (1 .. n)) = Cardinality({k}) * Cardinality(1 .. n)
  BY <1>1, <1>2, FS_Product
<1>4. 1 * n = n
  OBVIOUS
<1> QED
  BY <1>1, <1>2, <1>3, <1>4

\* Restricting a map keeps it an entry map.
LEMMA RestrictIsEntryMap ==
  ASSUME NEW K, NEW M, NEW map, IsEntryMap(map, K, M),
         NEW S \in SUBSET DOMAIN map
  PROVE  IsEntryMap(Restrict(map, S), K, M)
BY DEF IsEntryMap, Restrict

\* What is erased and what is kept add up to the whole.
LEMMA MemorySizeSplit ==
  ASSUME NEW K, IsFiniteSet(K), NEW M \in Nat,
         NEW map, IsEntryMap(map, K, M),
         NEW S \in SUBSET DOMAIN map
  PROVE  MemorySize(map)
           = MemorySize(Restrict(map, S)) + MemorySize(Without(map, S))
<1> DEFINE A == BytesOf(Restrict(map, S))
           B == BytesOf(Without(map, S))
<1>1. A \cup B = BytesOf(map)
  BY DEF BytesOf, Restrict, Without
<1>2. A \cap B = {}
  BY DEF BytesOf, Restrict, Without
<1>3. IsFiniteSet(A) /\ IsFiniteSet(B)
  BY BytesBounded, RestrictIsEntryMap DEF Without
<1>4. Cardinality(A \cup B) = Cardinality(A) + Cardinality(B) - Cardinality({})
  BY <1>2, <1>3, FS_Union
<1>5. Cardinality(A) \in Nat /\ Cardinality(B) \in Nat
  BY <1>3, FS_CardinalityType
<1>6. Cardinality({}) = 0
  BY FS_EmptySet
<1>7. Cardinality(A \cup B) = Cardinality(A) + Cardinality(B)
  BY <1>4, <1>5, <1>6
<1> QED
  BY <1>1, <1>7 DEF MemorySize

\* Storing under a key that is not mapped adds the size of the new entry.
LEMMA MemorySizePutNew ==
  ASSUME NEW K, IsFiniteSet(K), NEW M \in Nat,
         NEW map, IsEntryMap(map, K, M),
         NEW key \in K \ DOMAIN map, NEW entry, entry.size \in 0 .. M
  PROVE  /\ IsEntryMap(Put(map, key, entry), K, M)
         /\ MemorySize(Put(map, key, entry)) = MemorySize(map) + entry.size
<1> DEFINE A == BytesOf(map)
           B == {key} \X (1 .. entry.size)
<1>1. IsEntryMap(Put(map, key, entry), K, M)
  BY DEF IsEntryMap, Put
<1>2. BytesOf(Put(map, key, entry)) = A \cup B
  BY DEF BytesOf, Put
<1>3. A \cap B = {}
  BY DEF BytesOf
<1>4. IsFiniteSet(A) /\ Cardinality(A) \in Nat
  BY BytesBounded DEF MemorySize
<1>5. entry.size \in Nat
  OBVIOUS
<1>6. IsFiniteSet(B) /\ Cardinality(B) = entry.size
  BY <1>5, BytesOfOne
<1>7. Cardinality(A \cup B) = Cardinality(A) + Cardinality(B) - Cardinality({})
  BY <1>3, <1>4, <1>6, FS_Union
<1>8. Cardinality({}) = 0
  BY FS_EmptySet
<1>9. Cardinality(A \cup B) = Cardinality(A) + entry.size
  BY <1>4, <1>5, <1>6, <1>7, <1>8
<1> QED
  BY <1>1, <1>2, <1>9 DEF MemorySize

\* Storing under a mapped key replaces the old size by the new one.
LEMMA MemorySizePutOld ==
  ASSUME NEW K, IsFiniteSet(K), NEW M \in Nat,
         NEW map, IsEntryMap(map, K, M),
         NEW key \in DOMAIN map, NEW entry, entry.size \in 0 .. M
  PROVE  /\ IsEntryMap(Put(map, key, entry), K, M)
         /\ MemorySize(Put(map, key, entry))
              = MemorySize(map) - map[key].size + entry.size
         /\ map[key].size <= MemorySize(map)
<1> DEFINE rest == Without(map, {key})
<1>1. IsEntryMap(rest, K, M) /\ key \in K \ DOMAIN rest
  BY RestrictIsEntryMap DEF Without, Restrict, IsEntryMap
<1>2. Put(map, key, entry) = Put(rest, key, entry)
  BY DEF Put, Without, Restrict
<1>3. /\ IsEntryMap(Put(rest, key, entry), K, M)
      /\ MemorySize(Put(rest, key, entry)) = MemorySize(rest) + entry.size
  BY <1>1, MemorySizePutNew
<1>4. MemorySize(map) = MemorySize(Restrict(map, {key})) + MemorySize(rest)
  BY MemorySizeSplit
<1>5. BytesOf(Restrict(map, {key})) = {key} \X (1 .. map[key].size)
  BY DEF BytesOf, Restrict
<1>6. map[key].size \in Nat
  BY DEF IsEntryMap
<1>7. MemorySize(Restrict(map, {key})) = map[key].size
  BY <1>5, <1>6, BytesOfOne DEF MemorySize
<1>8. MemorySize(rest) \in Nat
  BY <1>1, BytesBounded
<1> QED
  BY <1>2, <1>3, <1>4, <1>6, <1>7, <1>8

-----------------------------------------------------------------------------
(* Lists of keys.                                                          *)

\* No key is listed twice: map_ has one iterator per key.
Distinct(list) == \A i, j \in DOMAIN list : list[i] = list[j] => i = j

\* The place of a tracked key is an index of the list.
LEMMA PlaceIsIndex ==
  ASSUME NEW K, NEW list \in Seq(K), NEW key \in Tracked(list)
  PROVE  Place(list, key) \in DOMAIN list /\ list[Place(list, key)] = key
<1>1. \E i \in DOMAIN list : list[i] = key
  BY DEF Tracked, Range
<1> QED
  BY <1>1 DEF Place

\* Splicing reorders the list: it neither drops nor repeats a key.
LEMMA SpliceKeepsKeys ==
  ASSUME NEW K, NEW list \in Seq(K), Distinct(list), NEW key \in Tracked(list)
  PROVE  /\ Splice(list, key) \in Seq(K)
         /\ Tracked(Splice(list, key)) = Tracked(list)
         /\ Distinct(Splice(list, key))
<1> DEFINE p == Place(list, key)
           new == [i \in DOMAIN list |->
                     IF i = 1 THEN key ELSE IF i <= p THEN list[i - 1] ELSE list[i]]
<1>1. p \in 1 .. Len(list) /\ list[p] = key /\ DOMAIN list = 1 .. Len(list)
  BY PlaceIsIndex
<1>2. \A i \in 1 .. Len(list) : list[i] \in K
  BY <1>1
<1> HIDE DEF p
<1>3. \A i \in 1 .. Len(list) : new[i] \in K
  BY <1>1, <1>2
<1>4. new \in Seq(K)
  BY <1>1, <1>3, Len(list) \in Nat
<1>5. ASSUME NEW i \in 1 .. Len(list)
      PROVE  \E j \in 1 .. Len(list) : new[i] = list[j]
  <2>1. CASE i = 1
    BY <1>1, <2>1
  <2>2. CASE i # 1 /\ i <= p
    <3>1. i - 1 \in 1 .. Len(list) /\ new[i] = list[i - 1]
      BY <1>1, <2>2
    <3> QED
      BY <3>1
  <2>3. CASE i # 1 /\ i > p
    BY <1>1, <2>3
  <2> QED
    BY <1>1, <2>1, <2>2, <2>3
<1>6. ASSUME NEW j \in 1 .. Len(list)
      PROVE  \E i \in 1 .. Len(list) : list[j] = new[i]
  <2>1. CASE j = p
    <3>1. 1 \in 1 .. Len(list) /\ new[1] = key
      BY <1>1
    <3> QED
      BY <1>1, <2>1, <3>1
  <2>2. CASE j < p
    <3>1. j + 1 \in 1 .. Len(list) /\ new[j + 1] = list[j]
      BY <1>1, <2>2
    <3> QED
      BY <3>1
  <2>3. CASE j > p
    <3>1. new[j] = list[j]
      BY <1>1, <2>3
    <3> QED
      BY <3>1
  <2> QED
    BY <1>1, <2>1, <2>2, <2>3
<1>7. ASSUME NEW i \in 1 .. Len(list), NEW j \in 1 .. Len(list), new[i] = new[j]
      PROVE  i = j
  <2> DEFINE from(k) == IF k = 1 THEN p ELSE IF k <= p THEN k - 1 ELSE k
  <2>1. \A k \in 1 .. Len(list) : from(k) \in 1 .. Len(list) /\ new[k] = list[from(k)]
    BY <1>1
  <2>2. from(i) = from(j)
    BY <1>1, <1>7, <2>1 DEF Distinct
  <2> QED
    BY <1>1, <2>2
<1>8. DOMAIN new = 1 .. Len(list)
  BY <1>1
<1> HIDE DEF new
<1>9. Tracked(new) = Tracked(list)
  <2>1. Tracked(new) \subseteq Tracked(list)
    <3> SUFFICES ASSUME NEW x \in Tracked(new) PROVE x \in Tracked(list)
      OBVIOUS
    <3>1. PICK i \in 1 .. Len(list) : x = new[i]
      BY <1>8 DEF Tracked, Range
    <3>2. PICK j \in 1 .. Len(list) : new[i] = list[j]
      BY <1>5
    <3> QED
      BY <1>1, <3>1, <3>2 DEF Tracked, Range
  <2>2. Tracked(list) \subseteq Tracked(new)
    <3> SUFFICES ASSUME NEW j \in 1 .. Len(list) PROVE list[j] \in Tracked(new)
      BY <1>1 DEF Tracked, Range
    <3>1. PICK i \in 1 .. Len(list) : new[i] = list[j]
      BY <1>6
    <3> QED
      BY <1>8, <3>1 DEF Tracked, Range
  <2> QED
    BY <2>1, <2>2
<1>10. Distinct(new)
  BY <1>7, <1>8 DEF Distinct
<1> QED
  BY <1>4, <1>9, <1>10 DEF Splice, new, p

\* notify_insert tracks its key in addition to those tracked before.
LEMMA NotifyInsertTracks ==
  ASSUME NEW K, NEW list \in Seq(K), Distinct(list), NEW key \in K
  PROVE  /\ NotifyInsert(list, key) \in Seq(K)
         /\ Tracked(NotifyInsert(list, key)) = Tracked(list) \cup {key}
         /\ Distinct(NotifyInsert(list, key))
<1>1. CASE key \in Tracked(list)
  BY <1>1, SpliceKeepsKeys DEF NotifyInsert
<1>2. CASE key \notin Tracked(list)
  <2> DEFINE new == <<key>> \o list
  <2>1. new \in Seq(K) /\ Len(new) = Len(list) + 1 /\ DOMAIN new = 1 .. Len(list) + 1
    OBVIOUS
  <2>2. new[1] = key
    OBVIOUS
  <2>3. \A i \in 2 .. Len(list) + 1 : i - 1 \in 1 .. Len(list) /\ new[i] = list[i - 1]
    OBVIOUS
  <2>4. \A i \in 1 .. Len(list) : i + 1 \in 2 .. Len(list) + 1 /\ new[i + 1] = list[i]
    OBVIOUS
  <2>5. DOMAIN list = 1 .. Len(list) /\ Len(list) \in Nat
    OBVIOUS
  <2> HIDE DEF new
  <2>6. Tracked(new) = Tracked(list) \cup {key}
    <3>1. ASSUME NEW i \in DOMAIN new PROVE new[i] \in Tracked(list) \cup {key}
      BY <2>1, <2>2, <2>3, <2>5 DEF Tracked, Range
    <3>2. ASSUME NEW i \in DOMAIN list PROVE list[i] \in Tracked(new)
      BY <2>1, <2>4, <2>5 DEF Tracked, Range
    <3>3. key \in Tracked(new)
      <4>1. 1 \in DOMAIN new
        BY <2>1, <2>5
      <4> QED
        BY <4>1, <2>2 DEF Tracked, Range
    <3> QED
      BY <3>1, <3>2, <3>3 DEF Tracked, Range
  <2>7. ASSUME NEW i \in DOMAIN list PROVE list[i] # key
    BY <1>2 DEF Tracked, Range
  <2>8. Distinct(new)
    <3> SUFFICES ASSUME NEW i \in DOMAIN new, NEW j \in DOMAIN new, new[i] = new[j]
                 PROVE  i = j
      BY DEF Distinct
    <3>0. \A m \in 2 .. Len(list) + 1 : new[m] # key
      BY <2>3, <2>5, <2>7
    <3>1. CASE i = 1 \/ j = 1
      BY <2>1, <2>2, <2>5, <3>0, <3>1
    <3>2. CASE i # 1 /\ j # 1
      <4>1. i \in 2 .. Len(list) + 1 /\ j \in 2 .. Len(list) + 1
        BY <2>1, <2>5, <3>2
      <4>2. list[i - 1] = list[j - 1] /\ i - 1 \in DOMAIN list /\ j - 1 \in DOMAIN list
        BY <4>1, <2>3, <2>5
      <4>3. i - 1 = j - 1
        BY <4>2 DEF Distinct
      <4> QED
        BY <4>1, <4>3
    <3> QED
      BY <3>1, <3>2
  <2> QED
    BY <1>2, <2>1, <2>6, <2>8 DEF NotifyInsert, new
<1> QED
  BY <1>1, <1>2

\* notify_access tracks the keys that were tracked before.
LEMMA NotifyAccessTracks ==
  ASSUME NEW K, NEW list \in Seq(K), Distinct(list), NEW key \in K
  PROVE  /\ NotifyAccess(list, key) \in Seq(K)
         /\ Tracked(NotifyAccess(list, key)) = Tracked(list)
         /\ Distinct(NotifyAccess(list, key))
BY SpliceKeepsKeys DEF NotifyAccess

\* find_victims takes exactly the keys it returns out of the list.
LEMMA WithoutOldestTracks ==
  ASSUME NEW K, NEW list \in Seq(K), Distinct(list), NEW n \in Nat
  PROVE  /\ WithoutOldest(list, n) \in Seq(K)
         /\ Tracked(WithoutOldest(list, n)) = Tracked(list) \ Oldest(list, n)
         /\ Distinct(WithoutOldest(list, n))
<1> DEFINE kept == Len(list) - PopCount(list, n)
           new == SubSeq(list, 1, kept)
<1>1. kept \in 0 .. Len(list) /\ DOMAIN list = 1 .. Len(list) /\ Len(list) \in Nat
  BY DEF PopCount
<1>2. Oldest(list, n) = {list[i] : i \in (kept + 1) .. Len(list)}
  BY DEF Oldest
<1> HIDE DEF kept
<1>3. /\ new \in Seq(K) /\ DOMAIN new = 1 .. kept
      /\ \A i \in 1 .. kept : new[i] = list[i]
  BY <1>1
<1> HIDE DEF new
<1>4. Distinct(new)
  BY <1>1, <1>3 DEF Distinct
<1>5. Tracked(new) = {list[i] : i \in 1 .. kept}
  BY <1>3 DEF Tracked, Range
<1>6. Tracked(new) = Tracked(list) \ Oldest(list, n)
  <2>1. ASSUME NEW i \in 1 .. kept PROVE list[i] \notin Oldest(list, n)
    <3>1. ASSUME NEW j \in (kept + 1) .. Len(list) PROVE list[i] # list[j]
      BY <1>1 DEF Distinct
    <3> QED
      BY <1>2, <3>1
  <2>2. ASSUME NEW i \in 1 .. Len(list), list[i] \notin Oldest(list, n)
        PROVE  i \in 1 .. kept
    BY <1>1, <1>2, <2>2
  <2>3. Tracked(new) \subseteq Tracked(list) \ Oldest(list, n)
    BY <1>1, <1>5, <2>1 DEF Tracked, Range
  <2>4. Tracked(list) \ Oldest(list, n) \subseteq Tracked(new)
    BY <1>1, <1>5, <2>2 DEF Tracked, Range
  <2> QED
    BY <2>3, <2>4
<1> QED
  BY <1>3, <1>4, <1>6 DEF WithoutOldest, new, kept

\* Looking at more victims never leaves out one that was seen before.
LEMMA OldestGrows ==
  ASSUME NEW K, NEW list \in Seq(K), NEW m \in Nat, NEW n \in Nat, m <= n
  PROVE  Oldest(list, m) \subseteq Oldest(list, n)
<1>1. Len(list) \in Nat
  OBVIOUS
<1>2. Len(list) - PopCount(list, n) + 1 <= Len(list) - PopCount(list, m) + 1
  BY <1>1 DEF PopCount
<1>3. PopCount(list, n) \in Nat /\ PopCount(list, m) \in Nat
  BY <1>1 DEF PopCount
<1> QED
  BY <1>1, <1>2, <1>3 DEF Oldest

\* The victims are tracked keys.
LEMMA OldestTracked ==
  ASSUME NEW K, NEW list \in Seq(K), NEW n \in Nat
  PROVE  Oldest(list, n) \subseteq Tracked(list)
<1>1. DOMAIN list = 1 .. Len(list) /\ Len(list) \in Nat
  OBVIOUS
<1>2. PopCount(list, n) \in 0 .. Len(list)
  BY <1>1 DEF PopCount
<1>3. ((Len(list) - PopCount(list, n) + 1) .. Len(list)) \subseteq DOMAIN list
  BY <1>1, <1>2
<1> QED
  BY <1>3 DEF Oldest, Tracked, Range

\* Removing a key closes the gap: the other keys keep their order.
LEMMA RemoveKeyTracks ==
  ASSUME NEW K, NEW list \in Seq(K), Distinct(list), NEW key \in Tracked(list)
  PROVE  /\ RemoveKey(list, key) \in Seq(K)
         /\ Tracked(RemoveKey(list, key)) = Tracked(list) \ {key}
         /\ Distinct(RemoveKey(list, key))
<1> DEFINE p == Place(list, key)
           new == [i \in 1 .. Len(list) - 1 |-> IF i < p THEN list[i] ELSE list[i + 1]]
           old(i) == IF i < p THEN i ELSE i + 1
<1>1. /\ p \in 1 .. Len(list) /\ list[p] = key
      /\ DOMAIN list = 1 .. Len(list) /\ Len(list) \in Nat
  BY PlaceIsIndex
<1>2. \A i \in 1 .. Len(list) : list[i] \in K
  BY <1>1
<1> HIDE DEF p
<1>3. RemoveKey(list, key) = new
  BY DEF RemoveKey, p
<1>4. ASSUME NEW i \in 1 .. Len(list) - 1
      PROVE  old(i) \in 1 .. Len(list) /\ old(i) # p /\ new[i] = list[old(i)]
  BY <1>1
<1>5. Len(list) - 1 \in Nat /\ \A i \in 1 .. Len(list) - 1 : new[i] \in K
  BY <1>1, <1>2, <1>4
<1>6. new \in Seq(K) /\ DOMAIN new = 1 .. Len(list) - 1
  BY <1>5
<1>7. Distinct(new)
  <2> SUFFICES ASSUME NEW i \in 1 .. Len(list) - 1, NEW j \in 1 .. Len(list) - 1, new[i] = new[j]
               PROVE  i = j
    BY <1>6 DEF Distinct
  <2>1. old(i) = old(j)
    BY <1>1, <1>4 DEF Distinct
  <2> QED
    BY <1>1, <2>1
<1>8. ASSUME NEW k PROVE k \in Tracked(new) <=> k \in Tracked(list) \ {key}
  <2>1. ASSUME k \in Tracked(new) PROVE k \in Tracked(list) \ {key}
    <3>1. PICK i \in 1 .. Len(list) - 1 : new[i] = k
      BY <1>6, <2>1 DEF Tracked, Range
    <3>2. old(i) \in DOMAIN list /\ list[old(i)] = k /\ list[old(i)] # key
      BY <1>1, <1>4, <3>1 DEF Distinct
    <3> QED
      BY <3>2 DEF Tracked, Range
  <2>2. ASSUME k \in Tracked(list), k # key PROVE k \in Tracked(new)
    <3>1. PICK q \in 1 .. Len(list) : list[q] = k
      BY <1>1, <2>2 DEF Tracked, Range
    <3>2. q # p
      BY <1>1, <2>2, <3>1
    <3>3. CASE q < p
      <4>1. q \in DOMAIN new /\ new[q] = k
        BY <1>1, <1>6, <3>1, <3>3
      <4> QED
        BY <4>1 DEF Tracked, Range
    <3>4. CASE q > p
      <4>1. q - 1 \in DOMAIN new /\ new[q - 1] = k
        BY <1>1, <1>6, <3>1, <3>4
      <4> QED
        BY <4>1 DEF Tracked, Range
    <3> QED
      BY <1>1, <3>2, <3>3, <3>4
  <2> QED
    BY <2>1, <2>2
<1> QED
  BY <1>3, <1>6, <1>7, <1>8
=============================================================================
