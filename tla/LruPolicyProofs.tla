-------------------------- MODULE LruPolicyProofs --------------------------
(***************************************************************************)
(* Theorems about LruPolicy, for all sets of keys and nodes: list_ and     *)
(* map_ stay two views of one sequence of keys, ordered by last use, and   *)
(* that sequence moves as RecencyList says.                                *)
(***************************************************************************)
EXTENDS LruPolicy, MapAndListTheorems, FiniteSetTheorems

\* Each tracked key has one node and each node in the list one key.
NodesInv ==
  /\ list \in Seq(Nodes) /\ Distinct(list)
  /\ DOMAIN map \subseteq Keys
  /\ map \in [DOMAIN map -> Nodes]
  /\ keyOf \in [DOMAIN keyOf -> Keys]
  /\ Tracked(list) \subseteq DOMAIN keyOf
  /\ \A k \in DOMAIN map : map[k] \in Tracked(list) /\ keyOf[map[k]] = k
  /\ \A n \in Tracked(list) : keyOf[n] \in DOMAIN map /\ map[keyOf[n]] = n

\* Uses are in the past, and the list goes from the latest to the earliest.
TimesInv ==
  /\ clock \in Nat
  /\ lastUse \in [DOMAIN map -> Nat]
  /\ \A k \in DOMAIN map : lastUse[k] <= clock
  /\ \A i, j \in DOMAIN list :
       i < j => lastUse[keyOf[list[i]]] > lastUse[keyOf[list[j]]]

\* The inductive invariant of the policy.
LruInv == NodesInv /\ TimesInv

\* An empty policy satisfies the invariant.
LEMMA InitLru == Init => LruInv
BY DEF Init, LruInv, NodesInv, TimesInv, Distinct, Tracked, Range

\* A use of a tracked key.
LEMMA MoveToFrontKeeps ==
  ASSUME LruInv, NEW k \in DOMAIN map, MoveToFront(k), Used(k)
  PROVE  LruInv' /\ KeyList' = Splice(KeyList, k)
<1> USE DEF LruInv
<1> PICK node : node = map[k]
  OBVIOUS
<1> PICK p : p = Place(list, node)
  OBVIOUS
<1>1. /\ list \in Seq(Nodes) /\ Distinct(list) /\ node \in Tracked(list)
      /\ map' = map /\ keyOf' = keyOf /\ keyOf[node] = k
      /\ list' = Splice(list, node)
  BY DEF NodesInv, MoveToFront
<1>2. /\ list' \in Seq(Nodes) /\ Tracked(list') = Tracked(list) /\ Distinct(list')
  BY <1>1, SpliceKeepsKeys
<1>3. /\ p \in 1 .. Len(list) /\ list[p] = node
      /\ DOMAIN list = 1 .. Len(list) /\ Len(list) \in Nat
  BY <1>1, PlaceIsIndex
<1>4. list' = [i \in 1 .. Len(list) |->
                 IF i = 1 THEN node ELSE IF i <= p THEN list[i - 1] ELSE list[i]]
  BY <1>1, <1>3 DEF Splice
<1>5. NodesInv'
  BY <1>1, <1>2 DEF NodesInv
<1>6. /\ clock' = clock + 1
      /\ lastUse' = [j \in DOMAIN map |-> IF j = k THEN clock + 1 ELSE lastUse[j]]
  BY DEF Used, SetAt, TimesInv
<1>7. TimesInv'
  <2>1. /\ clock' \in Nat
        /\ lastUse' \in [DOMAIN map' -> Nat]
        /\ \A j \in DOMAIN map' : lastUse'[j] <= clock'
    BY <1>1, <1>6 DEF TimesInv
  <2>2. ASSUME NEW i \in 1 .. Len(list), NEW j \in 1 .. Len(list), i < j
        PROVE  lastUse'[keyOf[list'[i]]] > lastUse'[keyOf[list'[j]]]
    <3> DEFINE old(q) == IF q <= p THEN q - 1 ELSE q
    <3>1. /\ old(j) \in 1 .. Len(list) /\ list'[j] = list[old(j)] /\ old(j) # p
      BY <1>3, <1>4, <2>2
    <3>2. list[old(j)] # node
      BY <1>1, <1>3, <3>1 DEF Distinct
    <3>3. /\ keyOf[list[old(j)]] \in DOMAIN map /\ keyOf[list[old(j)]] # k
          /\ lastUse'[keyOf[list'[j]]] = lastUse[keyOf[list[old(j)]]]
      <4>1. list[old(j)] \in Tracked(list)
        BY <1>3, <3>1 DEF Tracked, Range
      <4>2. /\ keyOf[list[old(j)]] \in DOMAIN map
            /\ map[keyOf[list[old(j)]]] = list[old(j)]
        BY <4>1 DEF NodesInv
      <4>3. keyOf[list[old(j)]] # k
        BY <3>2, <4>2
      <4> QED
        BY <1>6, <3>1, <4>2, <4>3
    <3>4. CASE i = 1
      <4>1. lastUse'[keyOf[list'[i]]] = clock + 1
        BY <1>1, <1>4, <1>6, <3>4
      <4>2. lastUse[keyOf[list[old(j)]]] \in Nat /\ lastUse[keyOf[list[old(j)]]] <= clock
        BY <3>3 DEF TimesInv
      <4> QED
        BY <3>3, <4>1, <4>2 DEF TimesInv
    <3>5. CASE i # 1
      <4>1. /\ old(i) \in 1 .. Len(list) /\ list'[i] = list[old(i)] /\ old(i) # p
            /\ old(i) < old(j)
        BY <1>3, <1>4, <2>2, <3>5
      <4>2. list[old(i)] # node /\ list[old(i)] \in Tracked(list)
        BY <1>1, <1>3, <4>1 DEF Distinct, Tracked, Range
      <4>3. /\ keyOf[list[old(i)]] \in DOMAIN map
            /\ map[keyOf[list[old(i)]]] = list[old(i)]
        BY <4>2 DEF NodesInv
      <4>4. lastUse'[keyOf[list'[i]]] = lastUse[keyOf[list[old(i)]]]
        BY <1>6, <4>1, <4>2, <4>3
      <4>5. lastUse[keyOf[list[old(i)]]] > lastUse[keyOf[list[old(j)]]]
        BY <1>3, <3>1, <4>1 DEF TimesInv
      <4> QED
        BY <3>3, <4>4, <4>5
    <3> QED
      BY <3>4, <3>5
  <2>3. DOMAIN list' = 1 .. Len(list)
    BY <1>4
  <2> QED
    BY <1>1, <2>1, <2>2, <2>3 DEF TimesInv
<1>8. KeyList' = Splice(KeyList, k)
  <2>1. /\ KeyList = [i \in 1 .. Len(list) |-> keyOf[list[i]]]
        /\ KeyList' = [i \in 1 .. Len(list) |-> keyOf[list'[i]]]
    BY <1>1, <1>3, <1>4 DEF KeyList
  <2>2. \A i \in 1 .. Len(list) : KeyList[i] = k <=> i = p
    <3> TAKE i \in 1 .. Len(list)
    <3>1. list[i] \in Tracked(list)
      BY <1>3 DEF Tracked, Range
    <3>2. KeyList[i] = k <=> list[i] = node
      BY <1>1, <2>1, <3>1 DEF NodesInv
    <3> QED
      BY <1>1, <1>3, <3>2 DEF Distinct
  <2>3. Place(KeyList, k) = p
    BY <1>3, <2>1, <2>2 DEF Place
  <2>4. Splice(KeyList, k)
          = [i \in 1 .. Len(list) |->
               IF i = 1 THEN k ELSE IF i <= p THEN KeyList[i - 1] ELSE KeyList[i]]
    <3>1. DOMAIN KeyList = 1 .. Len(list)
      BY <2>1
    <3> QED
      BY <2>3, <3>1 DEF Splice
  <2>5. ASSUME NEW i \in 1 .. Len(list)
        PROVE  keyOf[list'[i]] = IF i = 1 THEN k ELSE IF i <= p THEN KeyList[i - 1]
                                                              ELSE KeyList[i]
    BY <1>1, <1>3, <1>4, <2>1
  <2>6. [i \in 1 .. Len(list) |-> keyOf[list'[i]]]
          = [i \in 1 .. Len(list) |->
               IF i = 1 THEN k ELSE IF i <= p THEN KeyList[i - 1] ELSE KeyList[i]]
    BY <2>5
  <2> QED
    BY <2>1, <2>4, <2>6
<1> QED
  BY <1>5, <1>7, <1>8
\* A key that was not tracked gets a node that is free.
LEMMA PushFrontKeeps ==
  ASSUME LruInv, NEW k \in Keys, k \notin DOMAIN map, PushFront(k), Used(k)
  PROVE  LruInv' /\ KeyList' = <<k>> \o KeyList
<1> USE DEF LruInv
<1> PICK node \in Nodes \ Tracked(list) :
      /\ list' = <<node>> \o list
      /\ keyOf' = SetAt(keyOf, node, k)
      /\ map' = SetAt(map, k, node)
  BY DEF PushFront
<1>1. list \in Seq(Nodes) /\ Distinct(list) /\ DOMAIN list = 1 .. Len(list) /\ Len(list) \in Nat
  BY DEF NodesInv
<1>2. /\ list' \in Seq(Nodes) /\ DOMAIN list' = 1 .. Len(list) + 1
      /\ list'[1] = node
      /\ \A i \in 2 .. Len(list) + 1 : list'[i] = list[i - 1] /\ i - 1 \in 1 .. Len(list)
  BY <1>1
<1>3. Tracked(list') = Tracked(list) \cup {node} /\ Distinct(list')
  <2>1. ASSUME NEW n PROVE n \in Tracked(list') <=> n \in Tracked(list) \cup {node}
    <3>1. ASSUME n \in Tracked(list) PROVE n \in Tracked(list')
      <4>1. PICK i \in 1 .. Len(list) : list[i] = n
        BY <1>1, <3>1 DEF Tracked, Range
      <4>2. i + 1 \in DOMAIN list' /\ list'[i + 1] = n
        BY <1>1, <1>2, <4>1
      <4> QED
        BY <4>2 DEF Tracked, Range
    <3>2. node \in Tracked(list')
      BY <1>1, <1>2 DEF Tracked, Range
    <3>3. ASSUME n \in Tracked(list'), n # node PROVE n \in Tracked(list)
      <4>1. PICK i \in 1 .. Len(list) + 1 : list'[i] = n
        BY <1>2, <3>3 DEF Tracked, Range
      <4>2. i - 1 \in DOMAIN list /\ list[i - 1] = n
        BY <1>1, <1>2, <3>3, <4>1
      <4> QED
        BY <4>2 DEF Tracked, Range
    <3> QED
      BY <3>1, <3>2, <3>3
  <2>2. ASSUME NEW i \in 1 .. Len(list) + 1, NEW j \in 1 .. Len(list) + 1, list'[i] = list'[j]
        PROVE  i = j
    <3>1. \A q \in 2 .. Len(list) + 1 : list'[q] # node
      BY <1>1, <1>2 DEF Tracked, Range
    <3>2. CASE i = 1 \/ j = 1
      BY <1>1, <1>2, <2>2, <3>1, <3>2
    <3>3. CASE i # 1 /\ j # 1
      <4>1. i - 1 \in 1 .. Len(list) /\ j - 1 \in 1 .. Len(list) /\ list[i - 1] = list[j - 1]
        BY <1>1, <1>2, <2>2, <3>3
      <4>2. i - 1 = j - 1
        BY <1>1, <4>1 DEF Distinct
      <4> QED
        BY <1>1, <4>2
    <3> QED
      BY <3>2, <3>3
  <2> QED
    BY <1>2, <2>1, <2>2 DEF Distinct
<1>4. /\ DOMAIN map' = DOMAIN map \cup {k} /\ map'[k] = node
      /\ \A j \in DOMAIN map : map'[j] = map[j]
      /\ DOMAIN keyOf' = DOMAIN keyOf \cup {node} /\ keyOf'[node] = k
      /\ \A n \in Tracked(list) : keyOf'[n] = keyOf[n]
  BY DEF SetAt, NodesInv
<1>5. NodesInv'
  <2>1. map' \in [DOMAIN map' -> Nodes] /\ keyOf' \in [DOMAIN keyOf' -> Keys]
    BY DEF SetAt, NodesInv
  <2>2. \A j \in DOMAIN map' : map'[j] \in Tracked(list') /\ keyOf'[map'[j]] = j
    BY <1>3, <1>4 DEF NodesInv
  <2>3. \A n \in Tracked(list') : keyOf'[n] \in DOMAIN map' /\ map'[keyOf'[n]] = n
    BY <1>3, <1>4 DEF NodesInv
  <2>4. DOMAIN map' \subseteq Keys /\ Tracked(list') \subseteq DOMAIN keyOf'
    BY <1>3, <1>4 DEF NodesInv
  <2> QED
    BY <1>2, <1>3, <2>1, <2>2, <2>3, <2>4 DEF NodesInv
<1>6. /\ clock' = clock + 1 /\ lastUse' \in [DOMAIN map' -> Nat]
      /\ lastUse'[k] = clock + 1
      /\ \A j \in DOMAIN map : lastUse'[j] = lastUse[j]
  BY <1>4 DEF Used, SetAt, TimesInv
<1>7. TimesInv'
  <2>1. clock' \in Nat /\ \A j \in DOMAIN map' : lastUse'[j] <= clock'
    BY <1>4, <1>6 DEF TimesInv
  <2>2. ASSUME NEW i \in 1 .. Len(list) + 1, NEW j \in 1 .. Len(list) + 1, i < j
        PROVE  lastUse'[keyOf'[list'[i]]] > lastUse'[keyOf'[list'[j]]]
    <3>1. \A q \in 2 .. Len(list) + 1 :
            /\ q - 1 \in 1 .. Len(list)
            /\ keyOf[list[q - 1]] \in DOMAIN map
            /\ lastUse'[keyOf'[list'[q]]] = lastUse[keyOf[list[q - 1]]]
      <4> TAKE q \in 2 .. Len(list) + 1
      <4>1. list'[q] = list[q - 1] /\ q - 1 \in 1 .. Len(list)
        BY <1>2
      <4>2. list[q - 1] \in Tracked(list)
        BY <1>1, <4>1 DEF Tracked, Range
      <4>3. keyOf[list[q - 1]] \in DOMAIN map /\ keyOf'[list'[q]] = keyOf[list[q - 1]]
        BY <1>4, <4>1, <4>2 DEF NodesInv
      <4> QED
        BY <1>6, <4>1, <4>3
    <3>2. j \in 2 .. Len(list) + 1
      BY <1>1, <2>2
    <3>3. CASE i = 1
      <4>1. lastUse'[keyOf'[list'[i]]] = clock + 1
        BY <1>2, <1>4, <1>6, <3>3
      <4>2. lastUse[keyOf[list[j - 1]]] \in Nat /\ lastUse[keyOf[list[j - 1]]] <= clock
        BY <3>1, <3>2 DEF TimesInv
      <4> QED
        BY <3>1, <3>2, <4>1, <4>2 DEF TimesInv
    <3>4. CASE i # 1
      <4>1. i \in 2 .. Len(list) + 1 /\ i - 1 < j - 1
        BY <1>1, <2>2, <3>4
      <4>2. lastUse[keyOf[list[i - 1]]] > lastUse[keyOf[list[j - 1]]]
        BY <1>1, <3>1, <3>2, <4>1 DEF TimesInv
      <4> QED
        BY <3>1, <3>2, <4>1, <4>2
    <3> QED
      BY <3>3, <3>4
  <2> QED
    BY <1>2, <1>6, <2>1, <2>2 DEF TimesInv
<1>8. KeyList' = <<k>> \o KeyList
  <2>1. /\ KeyList = [i \in 1 .. Len(list) |-> keyOf[list[i]]]
        /\ KeyList' = [i \in 1 .. Len(list) + 1 |-> keyOf'[list'[i]]]
    BY <1>1, <1>2 DEF KeyList
  <2>2. ASSUME NEW i \in 1 .. Len(list) PROVE keyOf[list[i]] \in Keys
    BY <1>1, <2>2 DEF NodesInv, Tracked, Range
  <2>3. KeyList \in Seq(Keys) /\ Len(KeyList) = Len(list)
    BY <1>1, <2>1, <2>2
  <2>4. <<k>> \o KeyList = [i \in 1 .. Len(list) + 1 |-> IF i = 1 THEN k ELSE KeyList[i - 1]]
    BY <1>1, <2>3
  <2>5. ASSUME NEW i \in 1 .. Len(list) + 1
        PROVE  keyOf'[list'[i]] = IF i = 1 THEN k ELSE KeyList[i - 1]
    <3>1. CASE i = 1
      BY <1>2, <1>4, <3>1
    <3>2. CASE i # 1
      <4>1. i \in 2 .. Len(list) + 1
        BY <1>1, <3>2
      <4>2. list'[i] = list[i - 1] /\ i - 1 \in 1 .. Len(list)
        BY <1>2, <4>1
      <4>3. list[i - 1] \in Tracked(list)
        BY <1>1, <4>2 DEF Tracked, Range
      <4> QED
        BY <1>4, <2>1, <3>2, <4>2, <4>3
    <3> QED
      BY <3>1, <3>2
  <2>6. [i \in 1 .. Len(list) + 1 |-> keyOf'[list'[i]]]
          = [i \in 1 .. Len(list) + 1 |-> IF i = 1 THEN k ELSE KeyList[i - 1]]
    BY <2>5
  <2> QED
    BY <2>1, <2>4, <2>6
<1> QED
  BY <1>5, <1>7, <1>8

\* Nodes leave the list, and their keys the map; what stays keeps its order.
LEMMA LeavingKeeps ==
  ASSUME LruInv, NEW gone,
         list' \in Seq(Nodes), Distinct(list'), Tracked(list') = Tracked(list) \ gone,
         \A i, j \in DOMAIN list' : i < j =>
           \E a, b \in DOMAIN list : a < b /\ list'[i] = list[a] /\ list'[j] = list[b],
         NEW kept, kept = {k \in DOMAIN map : map[k] \notin gone},
         map' = [k \in kept |-> map[k]], lastUse' = [k \in kept |-> lastUse[k]],
         UNCHANGED <<keyOf, clock>>
  PROVE  LruInv'
<1> USE DEF LruInv
<1>1. \A n \in Tracked(list') : n \in Tracked(list) /\ keyOf[n] \in kept /\ map[keyOf[n]] = n
  BY DEF NodesInv
<1>2. \A k \in kept : k \in DOMAIN map /\ map[k] \in Tracked(list')
  BY DEF NodesInv
<1>3. NodesInv'
  BY <1>1, <1>2 DEF NodesInv
<1>4. TimesInv'
  <2>1. /\ clock' \in Nat /\ lastUse' \in [DOMAIN map' -> Nat]
        /\ \A k \in DOMAIN map' : lastUse'[k] <= clock'
    BY <1>2 DEF TimesInv
  <2>2. ASSUME NEW i \in DOMAIN list', NEW j \in DOMAIN list', i < j
        PROVE  lastUse'[keyOf'[list'[i]]] > lastUse'[keyOf'[list'[j]]]
    <3>1. PICK a \in DOMAIN list, b \in DOMAIN list :
            a < b /\ list'[i] = list[a] /\ list'[j] = list[b]
      BY <2>2
    <3>2. lastUse[keyOf[list[a]]] > lastUse[keyOf[list[b]]]
      BY <3>1 DEF TimesInv
    <3>3. list'[i] \in Tracked(list') /\ list'[j] \in Tracked(list')
      BY DEF Tracked, Range
    <3>4. keyOf[list'[i]] \in kept /\ keyOf[list'[j]] \in kept
      BY <1>1, <3>3
    <3> QED
      BY <3>1, <3>2, <3>4
  <2> QED
    BY <2>1, <2>2 DEF TimesInv
<1> QED
  BY <1>3, <1>4

\* The keys of the list, and as many as it has nodes.
LEMMA KeyListIs ==
  ASSUME LruInv
  PROVE  /\ KeyList \in Seq(Keys) /\ Len(KeyList) = Len(list) /\ Len(list) \in Nat
         /\ DOMAIN list = 1 .. Len(list)
         /\ \A i \in 1 .. Len(list) :
              /\ KeyList[i] = keyOf[list[i]] /\ list[i] \in Tracked(list)
              /\ KeyList[i] \in DOMAIN map /\ map[KeyList[i]] = list[i]
         /\ Distinct(KeyList)
         /\ Tracked(KeyList) = DOMAIN map
<1> USE DEF LruInv
<1>1. list \in Seq(Nodes) /\ DOMAIN list = 1 .. Len(list) /\ Len(list) \in Nat /\ Distinct(list)
  BY DEF NodesInv
<1>2. KeyList = [i \in 1 .. Len(list) |-> keyOf[list[i]]]
  BY <1>1 DEF KeyList
<1>3. \A i \in 1 .. Len(list) :
        /\ KeyList[i] = keyOf[list[i]] /\ list[i] \in Tracked(list)
        /\ KeyList[i] \in DOMAIN map /\ map[KeyList[i]] = list[i]
        /\ KeyList[i] \in Keys
  BY <1>1, <1>2 DEF NodesInv, Tracked, Range
<1>4. KeyList \in Seq(Keys) /\ Len(KeyList) = Len(list) /\ DOMAIN KeyList = 1 .. Len(list)
  BY <1>1, <1>2, <1>3
<1>5. Distinct(KeyList)
  <2> SUFFICES ASSUME NEW i \in 1 .. Len(list), NEW j \in 1 .. Len(list), KeyList[i] = KeyList[j]
               PROVE  i = j
    BY <1>4 DEF Distinct
  <2>1. list[i] = list[j]
    BY <1>3
  <2> QED
    BY <1>1, <2>1 DEF Distinct
<1>6. ASSUME NEW k PROVE k \in Tracked(KeyList) <=> k \in DOMAIN map
  <2>1. ASSUME k \in DOMAIN map PROVE k \in Tracked(KeyList)
    <3>1. map[k] \in Tracked(list) /\ keyOf[map[k]] = k
      BY <2>1 DEF NodesInv
    <3>2. PICK i \in 1 .. Len(list) : list[i] = map[k]
      BY <1>1, <3>1 DEF Tracked, Range
    <3>3. KeyList[i] = k
      BY <1>3, <3>1, <3>2
    <3> QED
      BY <1>4, <3>3 DEF Tracked, Range
  <2>2. ASSUME k \in Tracked(KeyList) PROVE k \in DOMAIN map
    BY <1>3, <1>4, <2>2 DEF Tracked, Range
  <2> QED
    BY <2>1, <2>2
<1> QED
  BY <1>1, <1>3, <1>4, <1>5, <1>6

\* The place of a key among the keys is that of its node among the nodes.
LEMMA SamePlace ==
  ASSUME LruInv, NEW k \in DOMAIN map
  PROVE  Place(KeyList, k) = Place(list, map[k])
<1>1. /\ list \in Seq(Nodes) /\ Distinct(list) /\ map[k] \in Tracked(list)
      /\ keyOf[map[k]] = k
  BY DEF LruInv, NodesInv
<1> PICK p : p = Place(list, map[k])
  OBVIOUS
<1>2. p \in 1 .. Len(list) /\ list[p] = map[k]
  BY <1>1, PlaceIsIndex
<1>3. KeyList \in Seq(Keys) /\ p \in DOMAIN KeyList /\ KeyList[p] = k /\ Distinct(KeyList)
  BY <1>1, <1>2, KeyListIs
<1>4. k \in Tracked(KeyList)
  BY KeyListIs
<1>5. Place(KeyList, k) \in DOMAIN KeyList /\ KeyList[Place(KeyList, k)] = k
  BY <1>3, <1>4, PlaceIsIndex
<1> QED
  BY <1>3, <1>5 DEF Distinct

\* The keys that find_victims returns are those of the nodes it pops.
LEMMA VictimsGo ==
  ASSUME LruInv, NEW count \in Nat
  PROVE  DOMAIN map \ ToSet(VictimKeys(count)) = {k \in DOMAIN map : map[k] \notin Oldest(list, count)}
<1> PICK pop : pop = PopCount(list, count)
  OBVIOUS
<1> DEFINE n == Len(list)
           gone == Oldest(list, count)
<1>1. list \in Seq(Nodes) /\ n \in Nat /\ DOMAIN list = 1 .. n /\ pop \in 0 .. n
  BY DEF LruInv, NodesInv, PopCount
<1>2. ASSUME NEW k \in DOMAIN map
      PROVE  k \in ToSet(VictimKeys(count)) <=> map[k] \in gone
  <2>1. gone = {list[i] : i \in (n - pop + 1) .. n}
    BY DEF Oldest
  <2>2. ToSet(VictimKeys(count)) = {keyOf[list[n + 1 - i]] : i \in 1 .. pop}
    BY DEF ToSet, VictimKeys
  <2>3. map[k] \in Tracked(list) /\ keyOf[map[k]] = k
    BY DEF LruInv, NodesInv
  <2>4. ASSUME map[k] \in gone PROVE k \in ToSet(VictimKeys(count))
    <3>1. PICK i \in (n - pop + 1) .. n : list[i] = map[k]
      BY <2>1, <2>4
    <3>2. n + 1 - i \in 1 .. pop /\ n + 1 - (n + 1 - i) = i
      BY <1>1
    <3>3. k = keyOf[list[n + 1 - (n + 1 - i)]]
      BY <2>3, <3>1, <3>2
    <3> QED
      BY <2>2, <3>2, <3>3
  <2>5. ASSUME k \in ToSet(VictimKeys(count)) PROVE map[k] \in gone
    <3>1. PICK i \in 1 .. pop : k = keyOf[list[n + 1 - i]]
      BY <2>2, <2>5
    <3>2. n + 1 - i \in (n - pop + 1) .. n /\ n + 1 - i \in 1 .. n
      BY <1>1
    <3>3. list[n + 1 - i] \in Tracked(list)
      BY <1>1, <3>2 DEF Tracked, Range
    <3>4. map[k] = list[n + 1 - i]
      BY <3>1, <3>3 DEF LruInv, NodesInv
    <3> QED
      BY <2>1, <3>2, <3>4
  <2> QED
    BY <2>4, <2>5
<1> QED
  BY <1>2

\* find_victims.
LEMMA FindVictimsKeeps ==
  ASSUME LruInv, NEW count \in Nat, FindVictims(count)
  PROVE  LruInv' /\ KeyList' = WithoutOldest(KeyList, count)
<1> PICK pop : pop = PopCount(list, count)
  OBVIOUS
<1> DEFINE n == Len(list)
           gone == Oldest(list, count)
           kept == {k \in DOMAIN map : map[k] \notin gone}
<1>1. /\ list \in Seq(Nodes) /\ Distinct(list) /\ n \in Nat /\ DOMAIN list = 1 .. n
      /\ pop \in 0 .. n
  BY DEF LruInv, NodesInv, PopCount
<1>2. /\ list' \in Seq(Nodes) /\ Distinct(list') /\ Tracked(list') = Tracked(list) \ gone
      /\ list' = SubSeq(list, 1, n - pop)
  BY <1>1, WithoutOldestTracks DEF FindVictims, WithoutOldest
<1>3. DOMAIN list' = 1 .. n - pop /\ \A i \in 1 .. n - pop : list'[i] = list[i] /\ i \in 1 .. n
  BY <1>1, <1>2
<1>5. DOMAIN map \ ToSet(VictimKeys(count)) = kept
  BY VictimsGo
<1>6. /\ map' = [k \in kept |-> map[k]] /\ lastUse' = [k \in kept |-> lastUse[k]]
      /\ UNCHANGED <<keyOf, clock>>
  BY <1>5 DEF FindVictims, MapWithout, Restrict
<1>7. \A i, j \in DOMAIN list' : i < j =>
        \E a, b \in DOMAIN list : a < b /\ list'[i] = list[a] /\ list'[j] = list[b]
  BY <1>1, <1>3
<1>8. LruInv'
  BY <1>2, <1>6, <1>7, LeavingKeeps
<1>9. KeyList' = WithoutOldest(KeyList, count)
  <2>1. KeyList \in Seq(Keys) /\ Len(KeyList) = n /\ \A i \in 1 .. n : KeyList[i] = keyOf[list[i]]
    BY KeyListIs
  <2>2. WithoutOldest(KeyList, count) = SubSeq(KeyList, 1, n - pop)
    BY <2>1 DEF WithoutOldest, PopCount
  <2>3. SubSeq(KeyList, 1, n - pop) = [i \in 1 .. n - pop |-> KeyList[i]]
    BY <1>1, <2>1
  <2>4. KeyList' = [i \in 1 .. n - pop |-> keyOf[list'[i]]]
    BY <1>3, <1>6 DEF KeyList
  <2>5. \A i \in 1 .. n - pop : keyOf[list'[i]] = KeyList[i]
    BY <1>3, <2>1
  <2> QED
    BY <2>2, <2>3, <2>4, <2>5
<1> QED
  BY <1>8, <1>9

\* remove(key) of a tracked key.
LEMMA RemoveKeeps ==
  ASSUME LruInv, NEW k \in DOMAIN map, RemoveOf(k)
  PROVE  LruInv' /\ KeyList' = RemoveKey(KeyList, k)
<1> PICK node : node = map[k]
  OBVIOUS
<1> PICK p : p = Place(list, node)
  OBVIOUS
<1> DEFINE n == Len(list)
           old(i) == IF i < p THEN i ELSE i + 1
           kept == {j \in DOMAIN map : map[j] \notin {node}}
<1>1. /\ list \in Seq(Nodes) /\ Distinct(list) /\ n \in Nat /\ DOMAIN list = 1 .. n
      /\ node \in Tracked(list) /\ keyOf[node] = k /\ list' = RemoveKey(list, node)
  BY DEF LruInv, NodesInv, RemoveOf
<1>2. list' \in Seq(Nodes) /\ Distinct(list') /\ Tracked(list') = Tracked(list) \ {node}
  BY <1>1, RemoveKeyTracks
<1>3. p \in 1 .. n
  BY <1>1, PlaceIsIndex
<1>4. /\ DOMAIN list' = 1 .. n - 1
      /\ \A i \in 1 .. n - 1 : list'[i] = list[old(i)] /\ old(i) \in 1 .. n
  BY <1>1, <1>3 DEF RemoveKey
<1>5. DOMAIN map \ {k} = kept
  BY <1>1 DEF LruInv, NodesInv
<1>6. /\ map' = [j \in kept |-> map[j]] /\ lastUse' = [j \in kept |-> lastUse[j]]
      /\ UNCHANGED <<keyOf, clock>>
  BY <1>5 DEF RemoveOf, MapWithout, Restrict
<1>7. \A i, j \in DOMAIN list' : i < j =>
        \E a, b \in DOMAIN list : a < b /\ list'[i] = list[a] /\ list'[j] = list[b]
  <2> TAKE i, j \in DOMAIN list'
  <2> HAVE i < j
  <2>1. old(i) \in DOMAIN list /\ old(j) \in DOMAIN list /\ old(i) < old(j)
    BY <1>1, <1>3, <1>4
  <2> QED
    BY <1>4, <2>1
<1>8. LruInv'
  BY <1>2, <1>6, <1>7, LeavingKeeps
<1>9. KeyList' = RemoveKey(KeyList, k)
  <2>1. /\ KeyList \in Seq(Keys) /\ Len(KeyList) = n /\ k \in Tracked(KeyList)
        /\ \A i \in 1 .. n : KeyList[i] = keyOf[list[i]]
    BY KeyListIs
  <2>2. Place(KeyList, k) = p
    BY SamePlace
  <2>3. RemoveKey(KeyList, k) =
          [i \in 1 .. n - 1 |-> IF i < p THEN KeyList[i] ELSE KeyList[i + 1]]
    BY <2>1, <2>2 DEF RemoveKey
  <2>4. KeyList' = [i \in 1 .. n - 1 |-> keyOf[list'[i]]]
    BY <1>4, <1>6 DEF KeyList
  <2>5. ASSUME NEW i \in 1 .. n - 1
        PROVE  keyOf[list'[i]] = IF i < p THEN KeyList[i] ELSE KeyList[i + 1]
    BY <1>4, <2>1
  <2> QED
    BY <2>3, <2>4, <2>5
<1> QED
  BY <1>8, <1>9

\* clear empties both views.
LEMMA ClearKeeps ==
  ASSUME LruInv, Clear
  PROVE  LruInv' /\ KeyList' = <<>>
<1>1. LruInv'
  BY DEF Clear, LruInv, NodesInv, TimesInv, Distinct, Tracked, Range
<1> QED
  BY <1>1 DEF Clear, KeyList

\* A call that finds nothing to do changes neither view.
LEMMA UnchangedKeeps ==
  ASSUME LruInv, UNCHANGED <<list, map, keyOf, lastUse, clock>>
  PROVE  LruInv' /\ KeyList' = KeyList
BY DEF LruInv, NodesInv, TimesInv, KeyList

\* What each call does to the keys, and that it keeps the invariant.
MovesRight ==
  KeyList' = CASE done'.op = "notify_insert" -> NotifyInsert(KeyList, done'.key)
               [] done'.op = "notify_access" -> NotifyAccess(KeyList, done'.key)
               [] done'.op = "find_victims"  -> WithoutOldest(KeyList, done'.count)
               [] done'.op = "remove"        -> RemoveKey(KeyList, done'.key)
               [] OTHER                      -> <<>>

\* Each call keeps the invariant and moves the keys as RecencyList says.
LEMMA StepsKeep ==
  ASSUME LruInv, Next
  PROVE  LruInv' /\ MovesRight
<1>0. Tracked(KeyList) = DOMAIN map
  BY KeyListIs
<1>1. ASSUME NEW k \in Keys, NotifyInsertOf(k) PROVE LruInv' /\ MovesRight
  <2>1. done'.op = "notify_insert" /\ done'.key = k
    BY <1>1 DEF NotifyInsertOf
  <2>2. LruInv' /\ KeyList' = NotifyInsert(KeyList, k)
    <3>1. CASE k \in DOMAIN map
      BY <1>0, <1>1, <3>1, MoveToFrontKeeps DEF NotifyInsertOf, NotifyInsert
    <3>2. CASE k \notin DOMAIN map
      BY <1>0, <1>1, <3>2, PushFrontKeeps DEF NotifyInsertOf, NotifyInsert
    <3> QED
      BY <3>1, <3>2
  <2> QED
    BY <2>1, <2>2 DEF MovesRight
<1>2. ASSUME NEW k \in Keys, NotifyAccessOf(k) PROVE LruInv' /\ MovesRight
  <2>1. done'.op = "notify_access" /\ done'.key = k
    BY <1>2 DEF NotifyAccessOf
  <2>2. LruInv' /\ KeyList' = NotifyAccess(KeyList, k)
    <3>1. CASE k \in DOMAIN map
      BY <1>0, <1>2, <3>1, MoveToFrontKeeps DEF NotifyAccessOf, NotifyAccess
    <3>2. CASE k \notin DOMAIN map
      BY <1>0, <1>2, <3>2, UnchangedKeeps DEF NotifyAccessOf, NotifyAccess
    <3> QED
      BY <3>1, <3>2
  <2> QED
    BY <2>1, <2>2 DEF MovesRight
<1>3. ASSUME NEW k \in Keys, RemoveOf(k) PROVE LruInv' /\ MovesRight
  <2>1. done'.op = "remove" /\ done'.key = k
    BY <1>3 DEF RemoveOf
  <2>2. LruInv' /\ KeyList' = RemoveKey(KeyList, k)
    <3>1. CASE k \in DOMAIN map
      BY <1>3, <3>1, RemoveKeeps
    <3>2. CASE k \notin DOMAIN map
      BY <1>0, <1>3, <3>2, UnchangedKeeps DEF RemoveOf, RemoveKey
    <3> QED
      BY <3>1, <3>2
  <2> QED
    BY <2>1, <2>2 DEF MovesRight
<1>4. ASSUME NEW count \in Counts, FindVictims(count) PROVE LruInv' /\ MovesRight
  <2>1. done'.op = "find_victims" /\ done'.count = count
    BY <1>4 DEF FindVictims
  <2>2. LruInv' /\ KeyList' = WithoutOldest(KeyList, count)
    BY <1>4, FindVictimsKeeps, CountsAssumption
  <2> QED
    BY <2>1, <2>2 DEF MovesRight
<1>5. CASE Clear
  <2>1. done'.op = "clear"
    BY <1>5 DEF Clear
  <2>2. LruInv' /\ KeyList' = <<>>
    BY <1>5, ClearKeeps
  <2> QED
    BY <2>1, <2>2 DEF MovesRight
<1> QED
  BY <1>1, <1>2, <1>3, <1>4, <1>5 DEF Next

\* The invariant holds throughout.
LEMMA LruInvAlways == Spec => []LruInv
<1>1. LruInv /\ [Next]_vars => LruInv'
  BY StepsKeep, UnchangedKeeps DEF vars
<1> QED
  BY <1>1, InitLru, PTL DEF Spec

-----------------------------------------------------------------------------
\* The iterators of map_ stay valid and list_ has no other nodes, however
\* often nodes are freed and used again.
THEOREM MapMatchesListAlways == Spec => []MapMatchesList
<1>1. LruInv => MapMatchesList
  <2> SUFFICES ASSUME LruInv PROVE MapMatchesList
    OBVIOUS
  <2>1. ASSUME NEW n PROVE n \in {map[k] : k \in DOMAIN map} <=> n \in Tracked(list)
    BY DEF LruInv, NodesInv
  <2> QED
    BY <2>1 DEF LruInv, NodesInv, Distinct, IsInjective, MapMatchesList
<1> QED
  BY <1>1, LruInvAlways, PTL

\* The back of list_ is the least recently used key.
THEOREM ListIsRecencyOrderAlways == Spec => []ListIsRecencyOrder
<1>1. LruInv => ListIsRecencyOrder
  BY KeyListIs DEF LruInv, TimesInv, ListIsRecencyOrder
<1> QED
  BY <1>1, LruInvAlways, PTL

\* Keys apart from nodes move as the one list of RecencyList: LiquidCacheStore
\* may use its operators for the calls of LruPolicy.
THEOREM MovesAsRecencyListAlways == Spec => MovesAsRecencyList
<1>1. LruInv /\ [Next]_vars => [MovesRight]_vars
  BY StepsKeep
<1> QED
  BY <1>1, LruInvAlways, PTL DEF Spec, MovesAsRecencyList, MovesRight

\* The list has as many nodes as there are tracked keys.
LEMMA TrackedCounted ==
  ASSUME LruInv
  PROVE  Cardinality(DOMAIN map) = Len(list)
<1>1. /\ Len(list) \in Nat
      /\ KeyList \in Seq(Keys) /\ Len(KeyList) = Len(list)
      /\ Distinct(KeyList) /\ Tracked(KeyList) = DOMAIN map
  BY KeyListIs
<1>2. KeyList \in [1 .. Len(list) -> DOMAIN map]
  BY <1>1 DEF Tracked, Range
<1>3. KeyList \in Injection(1 .. Len(list), DOMAIN map)
  BY <1>1, <1>2 DEF Injection, IsInjective, Distinct
<1>4. KeyList \in Surjection(1 .. Len(list), DOMAIN map)
  BY <1>1, <1>2 DEF Surjection, Tracked, Range
<1>5. ExistsBijection(1 .. Len(list), DOMAIN map)
  BY <1>3, <1>4 DEF ExistsBijection, Bijection
<1> QED
  BY <1>1, <1>5, FS_CountingElements

OldestFirst(victims, count) ==
  LET n == Cardinality(DOMAIN map)
  IN  /\ Len(victims) = IF count < n THEN count ELSE n
      /\ \A i, j \in DOMAIN victims : i < j => lastUse[victims[i]] < lastUse[victims[j]]
      /\ \A i \in DOMAIN victims, k \in DOMAIN map' : lastUse[victims[i]] < lastUse[k]

\* What find_victims returns is the oldest keys, from the oldest on.
LEMMA VictimsInOrder ==
  ASSUME LruInv, NEW count \in Nat, FindVictims(count)
  PROVE  OldestFirst(VictimKeys(count), count)
<1> PICK pop : pop = PopCount(list, count)
  OBVIOUS
<1> PICK n : n = Len(list)
  OBVIOUS
<1> DEFINE victims == VictimKeys(count)
<1>1. /\ n \in Nat /\ DOMAIN list = 1 .. n
      /\ \A i \in 1 .. n : /\ keyOf[list[i]] \in DOMAIN map
                          /\ map[keyOf[list[i]]] = list[i]
  BY KeyListIs
<1>2. pop \in 0 .. n /\ pop = IF count < n THEN count ELSE n
  BY <1>1 DEF PopCount
<1>3. /\ DOMAIN victims = 1 .. pop /\ Len(victims) = pop
      /\ \A i \in 1 .. pop : victims[i] = keyOf[list[n + 1 - i]] /\ n + 1 - i \in 1 .. n
  <2>1. victims = [i \in 1 .. pop |-> keyOf[list[n + 1 - i]]]
    BY DEF VictimKeys
  <2>2. pop \in Nat /\ \A i \in 1 .. pop : n + 1 - i \in 1 .. n
    BY <1>1, <1>2
  <2> HIDE DEF victims
  <2> QED
    BY <2>1, <2>2
<1>4. Cardinality(DOMAIN map) = n
  BY TrackedCounted
<1>5. \A i, j \in 1 .. n : i < j => lastUse[keyOf[list[i]]] > lastUse[keyOf[list[j]]]
  BY <1>1 DEF LruInv, TimesInv
<1>6. \A i \in 1 .. n : lastUse[keyOf[list[i]]] \in Nat
  BY <1>1 DEF LruInv, TimesInv
<1>7. ASSUME NEW i \in 1 .. pop, NEW j \in 1 .. pop, i < j
      PROVE  lastUse[victims[i]] < lastUse[victims[j]]
  <2>1. n + 1 - j < n + 1 - i
    BY <1>1, <1>2, <1>7
  <2>2. lastUse[keyOf[list[n + 1 - j]]] > lastUse[keyOf[list[n + 1 - i]]]
    BY <1>3, <1>5, <2>1
  <2> QED
    BY <1>3, <1>6, <2>2
<1>8. ASSUME NEW i \in 1 .. pop, NEW k \in DOMAIN map'
      PROVE  lastUse[victims[i]] < lastUse[k]
  <2>1. DOMAIN map' = {j \in DOMAIN map : map[j] \notin Oldest(list, count)}
    BY VictimsGo DEF FindVictims, MapWithout, Restrict
  <2>2. k \in DOMAIN map /\ map[k] \notin Oldest(list, count)
    BY <2>1
  <2>3. map[k] \in Tracked(list) /\ keyOf[map[k]] = k
    BY <2>2 DEF LruInv, NodesInv
  <2>4. PICK q \in 1 .. n : list[q] = map[k]
    BY <1>1, <2>3 DEF Tracked, Range
  <2>5. q < n + 1 - i
    <3>1. pop \in Nat /\ q \in Nat /\ q <= n /\ i \in Nat /\ i <= pop
      BY <1>1, <1>2
    <3>2. ~(q >= n - pop + 1)
      <4>1. q >= n - pop + 1 => q \in (n - pop + 1) .. n
        BY <1>1, <3>1
      <4> QED
        BY <2>2, <2>4, <4>1 DEF Oldest
    <3>3. q < n - pop + 1
      BY <1>1, <3>1, <3>2
    <3> QED
      BY <1>1, <3>1, <3>3
  <2>6. lastUse[keyOf[list[q]]] > lastUse[keyOf[list[n + 1 - i]]]
    BY <1>3, <1>5, <2>5
  <2> QED
    BY <1>3, <1>6, <2>3, <2>4, <2>6
<1> HIDE DEF victims
<1> QED
  BY <1>2, <1>3, <1>4, <1>7, <1>8 DEF OldestFirst, victims

\* find_victims pops the keys that were not used for longest, oldest first.
THEOREM VictimsAreOldestAlways == Spec => VictimsAreOldest
<1> DEFINE Step == done'.op = "find_victims" => OldestFirst(done'.victims, done'.count)
<1>1. LruInv /\ [Next]_vars => [Step]_vars
  <2> SUFFICES ASSUME LruInv, Next, done'.op = "find_victims"
               PROVE  OldestFirst(done'.victims, done'.count)
    OBVIOUS
  <2>1. PICK count \in Counts : FindVictims(count)
    <3>1. ASSUME NEW k \in Keys, NotifyInsertOf(k) \/ NotifyAccessOf(k) \/ RemoveOf(k)
          PROVE  FALSE
      BY <3>1 DEF NotifyInsertOf, NotifyAccessOf, RemoveOf
    <3>2. ~Clear
      BY DEF Clear
    <3> QED
      BY <3>1, <3>2 DEF Next
  <2>2. done'.victims = VictimKeys(count) /\ done'.count = count
    BY <2>1 DEF FindVictims
  <2>3. OldestFirst(VictimKeys(count), count)
    BY <2>1, VictimsInOrder, CountsAssumption
  <2> HIDE DEF OldestFirst
  <2> QED
    BY <2>2, <2>3
<1> QED
  BY <1>1, LruInvAlways, PTL DEF Spec, VictimsAreOldest, OldestFirst

=============================================================================
