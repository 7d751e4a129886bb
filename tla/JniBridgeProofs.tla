-------------------------- MODULE JniBridgeProofs --------------------------
(***************************************************************************)
(* Theorems about JniBridge, for any number of threads, handles and        *)
(* batches.                                                                *)
(***************************************************************************)
EXTENDS JniBridge, FiniteSetTheorems, TLAPS

Places == {"java", "session", "store", "next", "encode"}
Pending == {"session", "store"}

\* The variables' types.  A scan has the name of the handle it is stored under.
Types ==
  /\ nextHandle \in Nat
  /\ sessions \cup DOMAIN results \cup closed \subseteq returned
  /\ returned \cup DOMAIN scans \cup DOMAIN fetched \subseteq 0 .. nextHandle - 1
  /\ DOMAIN scans \subseteq DOMAIN fetched
  /\ results \in [DOMAIN results -> Nat]
  /\ \A h \in DOMAIN results : results[h] = h
  /\ scans \in [DOMAIN scans -> [batches : Nat, index : Nat, refs : Nat]]
  /\ fetched \in [DOMAIN fetched -> SUBSET Nat]
  /\ pc \in [Threads -> Places]
  /\ local \in [Threads -> [handle : Nat, scan : Nat \cup {None}, batch : Nat]]

\* A handle that was drawn and is not yet in a table is nobody else's.
HandlesInv ==
  /\ sessions \cap DOMAIN results = {}
  /\ closed \cap DOMAIN results = {}
  /\ \A t \in Threads : pc[t] \in Pending =>
       /\ local[t].handle \in (0 .. nextHandle - 1) \ returned
       /\ \A u \in Threads \ {t} : pc[u] \in Pending => local[t].handle # local[u].handle
  /\ \A t \in Threads :
       /\ pc[t] \in {"java", "session"} => local[t].scan = None
       /\ pc[t] = "store" => local[t].scan = local[t].handle
       /\ pc[t] \in {"next", "encode"} => local[t].scan # None

\* The threads that hold a shared_ptr to a scan.
Holders(s) == {t \in Threads : local[t].scan = s}
InTable(s) == IF s \in DOMAIN results THEN 1 ELSE 0

\* The reference counts are right, and pointers lead to objects that are alive.
PointersInv ==
  /\ DOMAIN results \subseteq DOMAIN scans
  /\ \A t \in Threads : local[t].scan \in DOMAIN scans \cup {None}
  /\ \A s \in DOMAIN scans :
       scans[s].refs = Cardinality(Holders(s)) + InTable(s) /\ scans[s].refs > 0

\* What the index has passed was fetched, and nothing else.
IndexInv ==
  \A s \in DOMAIN scans :
    fetched[s] = 0 .. scans[s].index - 1 /\ scans[s].index <= scans[s].batches

\* The inductive invariant of the bridge.
BridgeInv == Types /\ HandlesInv /\ PointersInv /\ IndexInv

\* Whether a thread counts among the holders of a scan.
Points(t, s) == IF local[t].scan = s THEN 1 ELSE 0

\* What one thread does to its pointer moves the count of that scan's holders.
LEMMA HoldersCounted ==
  ASSUME NEW t \in Threads, NEW s,
         \A u \in Threads \ {t} : local'[u] = local[u]
  PROVE  /\ Cardinality(Holders(s)) \in Nat
         /\ Cardinality(Holders(s)') = Cardinality(Holders(s)) - Points(t, s) + Points(t, s)'
         /\ Cardinality(Holders(s)) >= Points(t, s)
<1> DEFINE others == {u \in Threads \ {t} : local[u].scan = s}
<1>1. IsFiniteSet(others) /\ Cardinality(others) \in Nat
  BY ThreadsAssumption, FS_Subset, FS_CardinalityType, others \in SUBSET Threads
<1>2. t \notin others
  OBVIOUS
<1>3. Holders(s) = IF local[t].scan = s THEN others \cup {t} ELSE others
  BY DEF Holders
<1>4. Holders(s)' = IF local'[t].scan = s THEN others \cup {t} ELSE others
  BY DEF Holders
<1> HIDE DEF others
<1>0. Cardinality(others \cup {t}) = Cardinality(others) + 1
  BY <1>1, <1>2, FS_AddElement
<1>5. Cardinality(Holders(s)) = Cardinality(others) + Points(t, s)
  BY <1>0, <1>1, <1>3 DEF Points
<1>6. Cardinality(Holders(s)') = Cardinality(others) + Points(t, s)'
  BY <1>0, <1>1, <1>4 DEF Points
<1> QED
  BY <1>1, <1>5, <1>6 DEF Points

\* The bridge starts with empty tables.
LEMMA InitBridge == Init => BridgeInv
<1> SUFFICES ASSUME Init PROVE BridgeInv
  OBVIOUS
<1>1. DOMAIN results = {} /\ DOMAIN scans = {} /\ DOMAIN fetched = {}
  BY DEF Init
<1>2. Types
  BY <1>1 DEF Init, Types, Places, NoLocal
<1>3. HandlesInv
  BY <1>1 DEF Init, HandlesInv, NoLocal, Pending
<1>4. PointersInv
  BY <1>1 DEF Init, PointersInv, NoLocal
<1>5. IndexInv
  BY <1>1 DEF IndexInv
<1> QED
  BY <1>2, <1>3, <1>4, <1>5 DEF BridgeInv

\* A session is drawn a handle nobody has.
LEMMA CreateSessionKeeps ==
  ASSUME BridgeInv, NEW t \in Threads, CreateSession(t)
  PROVE  BridgeInv'
<1> USE DEF BridgeInv, CreateSession, AllocHandle, Goto
<1>1. Types'
  BY DEF Types, Places
<1>2. HandlesInv'
  BY DEF Types, Places, HandlesInv, Pending
<1>3. PointersInv'
  <2>1. \A s : \/ /\ Cardinality(Holders(s)') = Cardinality(Holders(s))
                  /\ InTable(s)' = InTable(s)
               \/ s = None
    BY HoldersCounted DEF Types, HandlesInv, Points, InTable
  <2> QED
    BY <2>1, NoneAssumption DEF Types, PointersInv
<1>4. IndexInv'
  BY DEF IndexInv
<1> QED
  BY <1>1, <1>2, <1>3, <1>4

\* A scan is made under a new handle, with its thread as only holder.
LEMMA ExecuteScanKeeps ==
  ASSUME BridgeInv, NEW t \in Threads, NEW n \in 0 .. MaxBatches, ExecuteScan(t, n)
  PROVE  BridgeInv'
<1> USE DEF BridgeInv, ExecuteScan, AllocHandle, Goto
<1> PICK new : new = nextHandle
  OBVIOUS
<1>1. /\ DOMAIN scans' = DOMAIN scans \cup {new}
      /\ DOMAIN fetched' = DOMAIN fetched \cup {new}
      /\ scans'[new] = [batches |-> n, index |-> 0, refs |-> 1]
      /\ fetched'[new] = {}
      /\ new \notin DOMAIN scans \cup DOMAIN fetched \cup returned
      /\ \A s \in DOMAIN scans : scans'[s] = scans[s]
      /\ \A s \in DOMAIN fetched : fetched'[s] = fetched[s]
  BY DEF SetAt, Types
<1>2. Types'
  <2>1. /\ nextHandle' \in Nat
        /\ pc' \in [Threads -> Places]
        /\ local' \in [Threads -> [handle : Nat, scan : Nat \cup {None}, batch : Nat]]
    BY DEF Types, Places
  <2>2. /\ scans' \in [DOMAIN scans' -> [batches : Nat, index : Nat, refs : Nat]]
        /\ fetched' \in [DOMAIN fetched' -> SUBSET Nat]
    BY <1>1, BoundsAssumption DEF Types, SetAt
  <2> QED
    BY <1>1, <2>1, <2>2 DEF Types
<1>3. HandlesInv'
  BY DEF Types, Places, HandlesInv, Pending
<1>4. PointersInv'
  <2>1. local[t].scan = None /\ local'[t].scan = new /\ new # None
    BY NoneAssumption DEF Types, HandlesInv
  <2>2. \A s : s \notin {new, None} => Cardinality(Holders(s)') = Cardinality(Holders(s))
    BY <2>1, HoldersCounted DEF Types, Points
  <2>3. Cardinality(Holders(new)') = 1 /\ ~(new \in DOMAIN results')
    <3>1. Holders(new) = {}
      BY <1>1, <2>1 DEF Holders, PointersInv
    <3>2. Holders(new)' = {t}
      BY <2>1, <3>1 DEF Holders, Types
    <3> QED
      BY <1>1, <3>2, FS_Singleton DEF Types
  <2>4. \A s \in DOMAIN scans' :
           /\ scans'[s].refs = Cardinality(Holders(s)') + InTable(s)'
           /\ scans'[s].refs > 0
    <3> TAKE s \in DOMAIN scans'
    <3>1. CASE s = new
      BY <1>1, <2>3, <3>1 DEF InTable
    <3>2. CASE s # new
      BY <1>1, <2>2, <3>2, NoneAssumption DEF InTable, PointersInv, Types
    <3> QED
      BY <3>1, <3>2
  <2> QED
    BY <1>1, <2>1, <2>4 DEF PointersInv, Types
<1>5. IndexInv'
  <2>0. 0 .. 0 - 1 = {} /\ n \in Nat
    BY BoundsAssumption
  <2>1. /\ fetched'[new] = 0 .. scans'[new].index - 1
        /\ scans'[new].index <= scans'[new].batches
    <3>1. scans'[new].index = 0 /\ scans'[new].batches = n
      BY <1>1
    <3>2. 0 .. scans'[new].index - 1 = {}
      BY <3>1
    <3>3. scans'[new].index <= scans'[new].batches
      BY <2>0, <3>1
    <3> QED
      BY <1>1, <3>2, <3>3
  <2>2. SUFFICES ASSUME NEW s \in DOMAIN scans'
                 PROVE  /\ fetched'[s] = 0 .. scans'[s].index - 1
                        /\ scans'[s].index <= scans'[s].batches
    BY DEF IndexInv
  <2>3. CASE s = new
    BY <2>1, <2>3
  <2>4. CASE s # new
    BY <1>1, <2>4 DEF IndexInv, Types
  <2> QED
    BY <2>3, <2>4
<1> QED
  BY <1>2, <1>3, <1>4, <1>5

\* A session's handle goes from its thread to the table and to Java.
LEMMA StoreSessionKeeps ==
  ASSUME BridgeInv, NEW t \in Threads, StoreSession(t)
  PROVE  BridgeInv'
<1> USE DEF BridgeInv, StoreSession, Goto, NoLocal
<1>1. Types'
  BY DEF Types, Places, HandlesInv, Pending
<1>2. HandlesInv'
  BY DEF Types, Places, HandlesInv, Pending
<1>3. PointersInv'
  <2>1. ASSUME NEW s
        PROVE  Cardinality(Holders(s)') = Cardinality(Holders(s)) \/ s = None
    BY HoldersCounted DEF Types, HandlesInv, Points
  <2> QED
    BY <2>1, NoneAssumption DEF Types, PointersInv, InTable
<1>4. IndexInv'
  BY DEF IndexInv
<1> QED
  BY <1>1, <1>2, <1>3, <1>4

\* The local pointer moves into the table, the count stays.
LEMMA StoreResultKeeps ==
  ASSUME BridgeInv, NEW t \in Threads, StoreResult(t)
  PROVE  BridgeInv'
<1> USE DEF BridgeInv, StoreResult, Goto, NoLocal
<1> PICK new : new = local[t].handle
  OBVIOUS
<1>1. /\ new \in Nat /\ new \in 0 .. nextHandle - 1 /\ new \notin returned
      /\ new = local[t].scan /\ new # None
  BY NoneAssumption DEF Types, HandlesInv, Pending
<1>2. /\ DOMAIN results' = DOMAIN results \cup {new} /\ new \notin DOMAIN results
      /\ results'[new] = new
      /\ \A h \in DOMAIN results : results'[h] = results[h]
      /\ results' \in [DOMAIN results' -> Nat]
  BY <1>1 DEF SetAt, Types
<1>3. Types'
  BY <1>1, <1>2 DEF Types, Places
<1>4. HandlesInv'
  BY <1>1, <1>2 DEF Types, Places, HandlesInv, Pending
<1>5. PointersInv'
  <2>1. local'[t].scan = None /\ \A u \in Threads \ {t} : local'[u] = local[u]
    BY DEF Types
  <2>2. ASSUME NEW s \in DOMAIN scans
        PROVE  Cardinality(Holders(s)') + InTable(s)' = Cardinality(Holders(s)) + InTable(s)
    <3>1. s # None
      BY NoneAssumption DEF Types
    <3>2. /\ Cardinality(Holders(s)) \in Nat
          /\ Cardinality(Holders(s)') = Cardinality(Holders(s)) - Points(t, s) + Points(t, s)'
      BY <2>1, HoldersCounted
    <3>3. Points(t, s)' = 0 /\ Points(t, s) = IF s = new THEN 1 ELSE 0
      BY <1>1, <2>1, <3>1 DEF Points
    <3> QED
      BY <1>2, <3>2, <3>3 DEF InTable
  <2>3. DOMAIN results' \subseteq DOMAIN scans'
    BY <1>1, <1>2 DEF PointersInv
  <2>4. \A u \in Threads : local'[u].scan \in DOMAIN scans' \cup {None}
    BY <2>1 DEF PointersInv
  <2> QED
    BY <2>2, <2>3, <2>4 DEF PointersInv
<1>6. IndexInv'
  BY DEF IndexInv
<1> QED
  BY <1>3, <1>4, <1>5, <1>6

\* A fetch of a handle in the table adds a holder.
LEMMA GetResultKeeps ==
  ASSUME BridgeInv, NEW t \in Threads, NEW h \in returned, GetResult(t, h)
  PROVE  BridgeInv'
<1> USE DEF BridgeInv, GetResult, Goto
<1>1. CASE h \in DOMAIN results
  <2>1. results[h] = h /\ h \in DOMAIN scans /\ h \in Nat /\ h # None
    BY <1>1, NoneAssumption DEF Types, PointersInv
  <2>2. /\ local[t].scan = None /\ local'[t].scan = h
        /\ local' = [local EXCEPT ![t] = [handle |-> h, scan |-> h, batch |-> 0]]
        /\ scans' = [scans EXCEPT ![h].refs = @ + 1]
        /\ pc[t] = "java" /\ pc' = [pc EXCEPT ![t] = "next"]
    BY <1>1, <2>1 DEF Types, HandlesInv, Copied
  <2>3. /\ DOMAIN scans' = DOMAIN scans
        /\ scans' \in [DOMAIN scans -> [batches : Nat, index : Nat, refs : Nat]]
        /\ scans'[h].refs = scans[h].refs + 1
        /\ \A s \in DOMAIN scans \ {h} : scans'[s] = scans[s]
        /\ \A s \in DOMAIN scans : /\ scans'[s].index = scans[s].index
                                  /\ scans'[s].batches = scans[s].batches
    BY <2>1, <2>2 DEF Types
  <2>4. Types'
    BY <2>1, <2>2, <2>3 DEF Types, Places
  <2>5. HandlesInv'
    BY <2>1, <2>2 DEF Types, Places, HandlesInv, Pending
  <2>6. PointersInv'
    <3>1. \A u \in Threads \ {t} : local'[u] = local[u]
      BY <2>2 DEF Types
    <3>2. ASSUME NEW s \in DOMAIN scans
          PROVE  scans'[s].refs = Cardinality(Holders(s)') + InTable(s)' /\ scans'[s].refs > 0
      <4>1. s # None
        BY NoneAssumption DEF Types
      <4>2. /\ Cardinality(Holders(s)) \in Nat
            /\ Cardinality(Holders(s)') = Cardinality(Holders(s)) - Points(t, s) + Points(t, s)'
        BY <3>1, HoldersCounted
      <4>3. Points(t, s) = 0 /\ Points(t, s)' = IF s = h THEN 1 ELSE 0
        BY <2>2, <4>1 DEF Points
      <4>4. InTable(s)' = InTable(s)
        BY DEF InTable
      <4>5. scans[s].refs = Cardinality(Holders(s)) + InTable(s) /\ scans[s].refs > 0
        BY DEF PointersInv
      <4> QED
        BY <2>3, <4>2, <4>3, <4>4, <4>5 DEF InTable
    <3> QED
      BY <2>1, <2>2, <2>3, <3>1, <3>2 DEF PointersInv
  <2>7. IndexInv'
    BY <2>3 DEF IndexInv
  <2> QED
    BY <2>4, <2>5, <2>6, <2>7
<1>2. CASE h \notin DOMAIN results
  <2>1. UNCHANGED <<nextHandle, sessions, results, scans, returned, pc, local, fetched, closed>>
    BY <1>2
  <2>2. Types' /\ HandlesInv'
    BY <2>1 DEF Types, HandlesInv
  <2>3. ASSUME NEW s
        PROVE  Holders(s)' = Holders(s) /\ InTable(s)' = InTable(s)
    BY <2>1 DEF Holders, InTable
  <2>4. PointersInv'
    BY <2>1, <2>3 DEF PointersInv
  <2>5. IndexInv'
    BY <2>1 DEF IndexInv
  <2> QED
    BY <2>2, <2>4, <2>5
<1> QED
  BY <1>1, <1>2

\* A scan that loses a pointer lives on if there is another.
LEMMA DroppedScans ==
  ASSUME Types, NEW s \in DOMAIN scans, scans[s].refs > 0, scans' = Dropped(scans, s)
  PROVE  /\ DOMAIN scans' = IF scans[s].refs = 1 THEN DOMAIN scans \ {s} ELSE DOMAIN scans
         /\ scans' \in [DOMAIN scans' -> [batches : Nat, index : Nat, refs : Nat]]
         /\ DOMAIN scans' \subseteq DOMAIN scans
         /\ s \in DOMAIN scans' => scans'[s].refs = scans[s].refs - 1
         /\ \A r \in DOMAIN scans' \ {s} : scans'[r].refs = scans[r].refs
         /\ \A r \in DOMAIN scans' : /\ scans'[r].index = scans[r].index
                                    /\ scans'[r].batches = scans[r].batches
<1>1. CASE scans[s].refs = 1
  BY <1>1 DEF Types, Dropped, Restrict
<1>2. CASE scans[s].refs # 1
  <2>1. scans' = [scans EXCEPT ![s].refs = @ - 1] /\ scans[s].refs - 1 \in Nat
    BY <1>2 DEF Types, Dropped
  <2> QED
    BY <1>2, <2>1 DEF Types
<1> QED
  BY <1>1, <1>2

\* A thread ends its fetch: it drops its pointer and returns to Java.
LEMMA FetchEnds ==
  ASSUME BridgeInv, NEW t \in Threads, pc[t] \in {"next", "encode"},
         scans' = Dropped(scans, local[t].scan),
         local' = [local EXCEPT ![t] = NoLocal],
         pc' = [pc EXCEPT ![t] = "java"],
         UNCHANGED <<nextHandle, sessions, results, returned, fetched, closed>>
  PROVE  BridgeInv'
<1> USE DEF BridgeInv, NoLocal
<1> PICK s : s = local[t].scan
  OBVIOUS
<1>1. s \in DOMAIN scans /\ s # None /\ scans[s].refs > 0
  BY DEF HandlesInv, PointersInv
<1>2. /\ DOMAIN scans' = IF scans[s].refs = 1 THEN DOMAIN scans \ {s} ELSE DOMAIN scans
      /\ scans' \in [DOMAIN scans' -> [batches : Nat, index : Nat, refs : Nat]]
      /\ DOMAIN scans' \subseteq DOMAIN scans
      /\ s \in DOMAIN scans' => scans'[s].refs = scans[s].refs - 1
      /\ \A r \in DOMAIN scans' \ {s} : scans'[r].refs = scans[r].refs
      /\ \A r \in DOMAIN scans' : /\ scans'[r].index = scans[r].index
                                 /\ scans'[r].batches = scans[r].batches
  BY <1>1, DroppedScans
<1>3. /\ local'[t].scan = None
      /\ \A u \in Threads \ {t} : local'[u] = local[u]
  BY DEF Types
<1>4. ASSUME NEW r \in DOMAIN scans
      PROVE  /\ Cardinality(Holders(r)') \in Nat
             /\ scans[r].refs = Cardinality(Holders(r)') + InTable(r)'
                                + (IF r = s THEN 1 ELSE 0)
             /\ scans[r].refs > 0
  <2>1. r # None
    BY NoneAssumption DEF Types
  <2>2. /\ Cardinality(Holders(r)) \in Nat
        /\ Cardinality(Holders(r)') = Cardinality(Holders(r)) - Points(t, r) + Points(t, r)'
        /\ Cardinality(Holders(r)) >= Points(t, r)
    BY <1>3, HoldersCounted
  <2>3. Points(t, r)' = 0 /\ Points(t, r) = IF r = s THEN 1 ELSE 0
    BY <1>3, <2>1 DEF Points
  <2>4. InTable(r)' = InTable(r) /\ InTable(r) \in Nat
    BY DEF InTable
  <2>5. scans[r].refs = Cardinality(Holders(r)) + InTable(r) /\ scans[r].refs > 0
    BY DEF PointersInv
  <2> QED
    BY <2>2, <2>3, <2>4, <2>5
<1>5. scans[s].refs = 1 => s \notin DOMAIN results /\ Holders(s)' = {}
  <2>1. HAVE scans[s].refs = 1
  <2>2. Cardinality(Holders(s)') + InTable(s)' = 0 /\ Cardinality(Holders(s)') \in Nat
    BY <1>1, <1>4, <2>1 DEF InTable
  <2>3. IsFiniteSet(Holders(s)')
    BY ThreadsAssumption, FS_Subset, Holders(s)' \in SUBSET Threads DEF Holders
  <2> QED
    BY <2>2, <2>3, FS_EmptySet DEF InTable
<1>6. Types'
  BY <1>2 DEF Types, Places
<1>7. HandlesInv'
  BY DEF Types, Places, HandlesInv, Pending
<1>8. PointersInv'
  <2>1. DOMAIN results' \subseteq DOMAIN scans'
    BY <1>2, <1>5 DEF PointersInv
  <2>2. \A u \in Threads : local'[u].scan \in DOMAIN scans' \cup {None}
    BY <1>2, <1>3, <1>5 DEF PointersInv, Holders
  <2>3. ASSUME NEW r \in DOMAIN scans'
        PROVE  scans'[r].refs = Cardinality(Holders(r)') + InTable(r)' /\ scans'[r].refs > 0
    <3>1. r \in DOMAIN scans /\ (r = s => scans[r].refs # 1)
      BY <1>2
    <3>2. scans[r].refs \in Nat /\ InTable(r)' \in Nat
      BY <3>1 DEF Types, InTable
    <3>3. Cardinality(Holders(r)') \in Nat
      BY <1>4, <3>1
    <3>4. CASE r = s
      <4>1. scans[r].refs = Cardinality(Holders(r)') + InTable(r)' + 1 /\ scans[r].refs > 1
        BY <1>4, <3>1, <3>2, <3>4
      <4>2. scans'[r].refs = scans[r].refs - 1
        BY <1>2, <3>4
      <4> QED
        BY <3>2, <3>3, <4>1, <4>2
    <3>5. CASE r # s
      <4>1. scans[r].refs = Cardinality(Holders(r)') + InTable(r)' /\ scans[r].refs > 0
        BY <1>4, <3>1, <3>2, <3>3, <3>5
      <4>2. scans'[r].refs = scans[r].refs
        BY <1>2, <3>5
      <4> QED
        BY <4>1, <4>2
    <3> QED
      BY <3>4, <3>5
  <2> QED
    BY <2>1, <2>2, <2>3 DEF PointersInv
<1>9. IndexInv'
  <2>1. SUFFICES ASSUME NEW r \in DOMAIN scans'
                 PROVE  /\ fetched'[r] = 0 .. scans'[r].index - 1
                        /\ scans'[r].index <= scans'[r].batches
    BY DEF IndexInv
  <2>2. r \in DOMAIN scans
    BY <1>2
  <2>3. fetched[r] = 0 .. scans[r].index - 1 /\ scans[r].index <= scans[r].batches
    BY <2>2 DEF IndexInv
  <2> QED
    BY <1>2, <2>3
<1> QED
  BY <1>6, <1>7, <1>8, <1>9

\* A fetch takes the batch at the index, or lets go of the scan at its end.
LEMMA NextBatchKeeps ==
  ASSUME BridgeInv, NEW t \in Threads, NextBatch(t)
  PROVE  BridgeInv'
<1> PICK s : s = local[t].scan
  OBVIOUS
<1>1. /\ pc[t] = "next" /\ s \in DOMAIN scans /\ s # None
      /\ UNCHANGED <<nextHandle, sessions, results, returned, closed>>
  BY DEF NextBatch, BridgeInv, HandlesInv, PointersInv
<1>2. CASE ~AtEnd(s)
  <2>1. /\ scans' = [scans EXCEPT ![s].index = @ + 1]
        /\ fetched' = [fetched EXCEPT ![s] = @ \cup {scans[s].index}]
        /\ local' = [local EXCEPT ![t].batch = scans[s].index]
        /\ pc' = [pc EXCEPT ![t] = "encode"]
    BY <1>2 DEF NextBatch, Advanced, Goto
  <2>2. /\ DOMAIN scans' = DOMAIN scans /\ DOMAIN fetched' = DOMAIN fetched
        /\ scans' \in [DOMAIN scans' -> [batches : Nat, index : Nat, refs : Nat]]
        /\ fetched' \in [DOMAIN fetched' -> SUBSET Nat]
        /\ \A r \in DOMAIN scans : scans'[r].refs = scans[r].refs
        /\ \A r \in DOMAIN scans \ {s} : scans'[r] = scans[r] /\ fetched'[r] = fetched[r]
    BY <1>1, <2>1 DEF BridgeInv, Types
  <2>3. /\ local' \in [Threads -> [handle : Nat, scan : Nat \cup {None}, batch : Nat]]
        /\ pc' \in [Threads -> Places]
        /\ \A u \in Threads : /\ local'[u].scan = local[u].scan
                             /\ local'[u].handle = local[u].handle
    BY <1>1, <2>1 DEF BridgeInv, Types, Places
  <2>4. Types'
    BY <1>1, <2>2, <2>3 DEF BridgeInv, Types
  <2>5. HandlesInv'
    BY <1>1, <2>1, <2>3 DEF BridgeInv, Types, Places, HandlesInv, Pending
  <2>6. PointersInv'
    <3>1. ASSUME NEW r
          PROVE  Holders(r)' = Holders(r) /\ InTable(r)' = InTable(r)
      BY <1>1, <2>3 DEF Holders, InTable
    <3>2. DOMAIN results' \subseteq DOMAIN scans'
      BY <1>1, <2>2 DEF BridgeInv, PointersInv
    <3>3. \A u \in Threads : local'[u].scan \in DOMAIN scans' \cup {None}
      BY <2>2, <2>3 DEF BridgeInv, PointersInv
    <3>4. ASSUME NEW r \in DOMAIN scans'
          PROVE  scans'[r].refs = Cardinality(Holders(r))' + InTable(r)' /\ scans'[r].refs > 0
      BY <2>2, <3>1 DEF BridgeInv, PointersInv
    <3> QED
      BY <3>2, <3>3, <3>4 DEF PointersInv
  <2>7. IndexInv'
    <3>1. /\ scans'[s].index = scans[s].index + 1 /\ scans'[s].batches = scans[s].batches
          /\ scans[s].index \in Nat /\ scans[s].batches \in Nat
          /\ fetched'[s] = fetched[s] \cup {scans[s].index}
      BY <1>1, <2>1 DEF BridgeInv, Types
    <3>2. scans[s].index < scans[s].batches /\ fetched[s] = 0 .. scans[s].index - 1
      BY <1>1, <1>2, <3>1 DEF AtEnd, BridgeInv, IndexInv
    <3>3. fetched'[s] = 0 .. scans'[s].index - 1 /\ scans'[s].index <= scans'[s].batches
      BY <3>1, <3>2
    <3> QED
      BY <2>2, <3>3 DEF BridgeInv, IndexInv
  <2> QED
    BY <2>4, <2>5, <2>6, <2>7 DEF BridgeInv
<1>3. CASE AtEnd(s)
  BY <1>1, <1>3, FetchEnds DEF NextBatch, ReturnFetch, Goto
<1> QED
  BY <1>2, <1>3

\* Closing takes the table's reference; others may remain.
LEMMA CloseResultKeeps ==
  ASSUME BridgeInv, NEW t \in Threads, NEW h \in returned, CloseResult(t, h)
  PROVE  BridgeInv'
<1> USE DEF BridgeInv, CloseResult
<1>1. /\ DOMAIN results' = DOMAIN results \ {h}
      /\ results' \in [DOMAIN results' -> Nat]
      /\ \A g \in DOMAIN results' : results'[g] = g
      /\ h \in DOMAIN results => results[h] = h
  BY DEF Types, Restrict
<1>2. ASSUME NEW r
      PROVE  Holders(r)' = Holders(r) /\ InTable(r)' = IF r = h THEN 0 ELSE InTable(r)
  BY <1>1 DEF Holders, InTable
<1>3. HandlesInv'
  BY <1>1 DEF HandlesInv, Pending
<1>4. CASE h \in DOMAIN results
  <2>1. h \in DOMAIN scans /\ scans[h].refs > 0 /\ scans' = Dropped(scans, h)
    BY <1>1, <1>4 DEF PointersInv
  <2>2. /\ DOMAIN scans' = IF scans[h].refs = 1 THEN DOMAIN scans \ {h} ELSE DOMAIN scans
        /\ scans' \in [DOMAIN scans' -> [batches : Nat, index : Nat, refs : Nat]]
        /\ DOMAIN scans' \subseteq DOMAIN scans
        /\ h \in DOMAIN scans' => scans'[h].refs = scans[h].refs - 1
        /\ \A r \in DOMAIN scans' \ {h} : scans'[r].refs = scans[r].refs
        /\ \A r \in DOMAIN scans' : /\ scans'[r].index = scans[r].index
                                   /\ scans'[r].batches = scans[r].batches
    BY <2>1, DroppedScans
  <2>3. ASSUME NEW r \in DOMAIN scans
        PROVE  /\ Cardinality(Holders(r)) \in Nat /\ scans[r].refs \in Nat
               /\ scans[r].refs = Cardinality(Holders(r)) + InTable(r) /\ scans[r].refs > 0
    BY HoldersCounted DEF PointersInv, Types
  <2>4. scans[h].refs = 1 => Holders(h) = {}
    <3>1. HAVE scans[h].refs = 1
    <3>2. Cardinality(Holders(h)) = 0
      BY <1>4, <2>1, <2>3, <3>1 DEF InTable
    <3>3. IsFiniteSet(Holders(h))
      BY ThreadsAssumption, FS_Subset, Holders(h) \in SUBSET Threads DEF Holders
    <3> QED
      BY <3>2, <3>3, FS_EmptySet
  <2>5. Types'
    BY <1>1, <2>2 DEF Types
  <2>6. PointersInv'
    <3>1. DOMAIN results' \subseteq DOMAIN scans'
      BY <1>1, <2>2 DEF PointersInv
    <3>2. \A u \in Threads : local'[u].scan \in DOMAIN scans' \cup {None}
      BY <2>2, <2>4 DEF PointersInv, Holders
    <3>3. ASSUME NEW r \in DOMAIN scans'
          PROVE  scans'[r].refs = Cardinality(Holders(r)') + InTable(r)' /\ scans'[r].refs > 0
      <4>1. r \in DOMAIN scans /\ (r = h => scans[r].refs # 1)
        BY <2>2
      <4>2. InTable(h) = 1 /\ InTable(r) \in Nat
        BY <1>4 DEF InTable
      <4>3. /\ scans[r].refs = Cardinality(Holders(r)') + InTable(r) /\ scans[r].refs > 0
            /\ Cardinality(Holders(r)') \in Nat
        BY <1>2, <2>3, <4>1
      <4>4. CASE r = h
        <5>1. InTable(r)' = 0 /\ scans'[r].refs = scans[r].refs - 1
          BY <1>2, <2>2, <4>4
        <5>2. scans[r].refs = Cardinality(Holders(r)') + 1 /\ scans[r].refs # 1
          BY <4>1, <4>2, <4>3, <4>4
        <5> QED
          BY <4>3, <5>1, <5>2
      <4>5. CASE r # h
        <5>1. InTable(r)' = InTable(r) /\ scans'[r].refs = scans[r].refs
          BY <1>2, <2>2, <4>5
        <5> QED
          BY <4>3, <5>1
      <4> QED
        BY <4>4, <4>5
    <3> QED
      BY <3>1, <3>2, <3>3 DEF PointersInv
  <2>7. IndexInv'
    <3>1. SUFFICES ASSUME NEW r \in DOMAIN scans'
                   PROVE  /\ fetched'[r] = 0 .. scans'[r].index - 1
                          /\ scans'[r].index <= scans'[r].batches
      BY DEF IndexInv
    <3>2. fetched[r] = 0 .. scans[r].index - 1 /\ scans[r].index <= scans[r].batches
      BY <2>2 DEF IndexInv
    <3> QED
      BY <2>2, <3>2
  <2> QED
    BY <1>3, <2>5, <2>6, <2>7
<1>5. CASE h \notin DOMAIN results
  <2>1. scans' = scans /\ DOMAIN results' = DOMAIN results
    BY <1>1, <1>5
  <2>2. Types'
    BY <1>1, <2>1 DEF Types
  <2>3. PointersInv'
    BY <1>2, <2>1, <1>5 DEF PointersInv, InTable
  <2>4. IndexInv'
    BY <2>1 DEF IndexInv
  <2> QED
    BY <1>3, <2>2, <2>3, <2>4
<1> QED
  BY <1>4, <1>5

\* The rest leave tables and scans alone, or only close a session.
LEMMA OthersKeep ==
  ASSUME BridgeInv, sessions' \subseteq sessions,
         UNCHANGED <<nextHandle, results, scans, returned, pc, local, fetched, closed>>
  PROVE  BridgeInv'
<1>1. Types' /\ HandlesInv'
  BY DEF BridgeInv, Types, HandlesInv
<1>2. ASSUME NEW s
      PROVE  Holders(s)' = Holders(s) /\ InTable(s)' = InTable(s)
  BY DEF Holders, InTable
<1>3. PointersInv'
  BY <1>2 DEF BridgeInv, PointersInv
<1>4. IndexInv'
  BY DEF BridgeInv, IndexInv
<1> QED
  BY <1>1, <1>3, <1>4 DEF BridgeInv

\* Every step of the bridge keeps the invariant.
LEMMA BridgeInductive == BridgeInv /\ [Next]_vars => BridgeInv'
<1> SUFFICES ASSUME BridgeInv, [Next]_vars PROVE BridgeInv'
  OBVIOUS
<1>1. ASSUME NEW t \in Threads, CreateSession(t) PROVE BridgeInv'
  BY <1>1, CreateSessionKeeps
<1>2. ASSUME NEW t \in Threads, StoreSession(t) PROVE BridgeInv'
  BY <1>2, StoreSessionKeeps
<1>3. ASSUME NEW t \in Threads, NEW n \in 0 .. MaxBatches, ExecuteScan(t, n) PROVE BridgeInv'
  BY <1>3, ExecuteScanKeeps
<1>4. ASSUME NEW t \in Threads, StoreResult(t) PROVE BridgeInv'
  BY <1>4, StoreResultKeeps
<1>5. ASSUME NEW t \in Threads, ScanFails(t) PROVE BridgeInv'
  BY <1>5, OthersKeep DEF ScanFails
<1>6. ASSUME NEW t \in Threads, NextBatch(t) PROVE BridgeInv'
  BY <1>6, NextBatchKeeps
<1>7. ASSUME NEW t \in Threads, NEW h \in returned, GetResult(t, h) PROVE BridgeInv'
  BY <1>7, GetResultKeeps
<1>8. ASSUME NEW t \in Threads, NEW h \in returned, CloseResult(t, h) PROVE BridgeInv'
  BY <1>8, CloseResultKeeps
<1>9. ASSUME NEW t \in Threads, NEW h \in returned, CloseSession(t, h) PROVE BridgeInv'
  BY <1>9, OthersKeep DEF CloseSession
<1>10. ASSUME NEW t \in Threads, NEW outcome, EncodeBatch(t, outcome) PROVE BridgeInv'
  BY <1>10, FetchEnds DEF EncodeBatch, ReturnFetch, Goto
<1>11. CASE UNCHANGED vars
  BY <1>11, OthersKeep DEF vars
<1> QED
  BY <1>1, <1>2, <1>3, <1>4, <1>5, <1>6, <1>7, <1>8, <1>9, <1>10, <1>11 DEF Next

\* The invariant holds throughout.
LEMMA BridgeInvAlways == Spec => []BridgeInv
  BY InitBridge, BridgeInductive, PTL DEF Spec

-----------------------------------------------------------------------------
\* No handle names two things, whatever the order in which calls draw a handle
\* and enter it (alloc_handle, createSession, store_result).
THEOREM HandlesAreUniqueAlways == Spec => []HandlesAreUnique
<1>1. BridgeInv => HandlesAreUnique
  BY DEF BridgeInv, Types, HandlesInv, HandlesAreUnique, Pending
<1> QED
  BY <1>1, BridgeInvAlways, PTL

\* closeResult is final: no later executeScan gives the handle a result again.
THEOREM ClosedStaysClosedAlways == Spec => []ClosedStaysClosed
<1>1. BridgeInv => ClosedStaysClosed
  BY DEF BridgeInv, HandlesInv, ClosedStaysClosed
<1> QED
  BY <1>1, BridgeInvAlways, PTL

\* The shared_ptr of get_result keeps a result alive through a fetch, and the
\* last pointer to go frees it.
THEOREM LivesWhileUsedAlways == Spec => []LivesWhileUsed
<1>1. ASSUME BridgeInv PROVE LivesWhileUsed
  <2> USE <1>1 DEF BridgeInv
  <2> DEFINE pointed == (Range(results) \cup {local[t].scan : t \in Threads}) \ {None}
  <2>1. \A s : s \in Range(results) <=> s \in DOMAIN results
    <3>1. \A h \in DOMAIN results : results[h] = h
      BY DEF Types
    <3> QED
      BY <3>1 DEF Range
  <2>2. ASSUME NEW s \in pointed PROVE s \in DOMAIN scans
    <3>1. s # None /\ (s \in Range(results) \/ \E t \in Threads : local[t].scan = s)
      OBVIOUS
    <3> QED
      BY <2>1, <3>1 DEF PointersInv
  <2>3. ASSUME NEW s \in DOMAIN scans PROVE s \in pointed
    <3>1. s # None
      BY NoneAssumption DEF Types
    <3>2. scans[s].refs = Cardinality(Holders(s)) + InTable(s) /\ scans[s].refs > 0
      BY DEF PointersInv
    <3>3. Holders(s) # {} \/ s \in DOMAIN results
      BY <3>2, FS_EmptySet DEF InTable
    <3>4. Holders(s) # {} => s \in {local[t].scan : t \in Threads}
      BY DEF Holders
    <3> QED
      BY <2>1, <3>1, <3>3, <3>4
  <2> QED
    BY <2>2, <2>3 DEF LivesWhileUsed
<1> QED
  BY <1>1, BridgeInvAlways, PTL

\* What the atomic index gives a fetch is a batch that no fetch had before.
LEMMA BatchIsNew ==
  ASSUME BridgeInv, NEW t \in Threads, NextBatch(t), pc'[t] = "encode"
  PROVE  local'[t].batch \notin fetched[local'[t].scan]
<1> PICK s : s = local[t].scan
  OBVIOUS
<1>1. s \in DOMAIN scans /\ pc[t] = "next"
  BY DEF NextBatch, BridgeInv, HandlesInv, PointersInv
<1>2. ~AtEnd(s)
  BY DEF NextBatch, ReturnFetch, Goto, BridgeInv, Types
<1>3. local' = [local EXCEPT ![t].batch = scans[s].index]
  BY <1>2 DEF NextBatch
<1>4. local'[t].batch = scans[s].index /\ local'[t].scan = s
  BY <1>3 DEF BridgeInv, Types
<1>5. fetched[s] = 0 .. scans[s].index - 1 /\ scans[s].index \in Nat
  BY <1>1 DEF BridgeInv, IndexInv, Types
<1> QED
  BY <1>4, <1>5

\* Concurrent calls of fetchNextBatch share out a result's batches.
THEOREM EachBatchOnceAlways == Spec => EachBatchOnce
<1> DEFINE Step == \A t \in Threads :
                     (pc[t] = "next" /\ pc'[t] = "encode") =>
                       local'[t].batch \notin fetched[local'[t].scan]
<1>1. BridgeInv /\ [Next]_vars => [Step]_vars
  <2> SUFFICES ASSUME BridgeInv, Next, NEW t \in Threads, pc[t] = "next", pc'[t] = "encode"
               PROVE  local'[t].batch \notin fetched[local'[t].scan]
    OBVIOUS
  <2> USE DEF Goto
  <2>1. pc \in [Threads -> Places]
    BY DEF BridgeInv, Types
  <2>2. ASSUME NEW u \in Threads, CreateSession(u) \/ StoreSession(u) \/ StoreResult(u) PROVE FALSE
    BY <2>1, <2>2 DEF CreateSession, StoreSession, StoreResult, AllocHandle
  <2>3. ASSUME NEW u \in Threads, NEW n, ExecuteScan(u, n) PROVE FALSE
    BY <2>1, <2>3 DEF ExecuteScan, AllocHandle
  <2>4. ASSUME NEW u \in Threads, NEW h, GetResult(u, h) PROVE FALSE
    BY <2>1, <2>4 DEF GetResult
  <2>5. ASSUME NEW u \in Threads, NEW h, \/ ScanFails(u) \/ CloseResult(u, h) \/ CloseSession(u, h)
        PROVE  FALSE
    BY <2>5 DEF ScanFails, CloseResult, CloseSession
  <2>6. ASSUME NEW u \in Threads, NEW outcome, EncodeBatch(u, outcome) PROVE FALSE
    BY <2>1, <2>6 DEF EncodeBatch, ReturnFetch
  <2>7. ASSUME NEW u \in Threads, NextBatch(u) PROVE u = t
    BY <2>1, <2>7 DEF NextBatch, ReturnFetch
  <2> QED
    BY <2>2, <2>3, <2>4, <2>5, <2>6, <2>7, BatchIsNew DEF Next
<1> QED
  BY <1>1, BridgeInvAlways, PTL DEF Spec, EachBatchOnce

\* A fetch that finds the index at the end finds everything handed out.
LEMMA EndIsExhausted ==
  ASSUME BridgeInv, NEW t \in Threads, NextBatch(t), reply'.op = "fetch"
  PROVE  /\ pc[t] = "next" /\ pc'[t] = "java"
         /\ fetched[local[t].scan] = 0 .. (scans[local[t].scan].batches - 1)
<1> PICK s : s = local[t].scan
  OBVIOUS
<1>1. s \in DOMAIN scans /\ pc[t] = "next"
  BY DEF NextBatch, BridgeInv, HandlesInv, PointersInv
<1>2. AtEnd(s) /\ pc'[t] = "java"
  BY DEF NextBatch, ReturnFetch, Goto, Silent, BridgeInv, Types
<1>3. /\ fetched[s] = 0 .. scans[s].index - 1 /\ scans[s].index <= scans[s].batches
      /\ scans[s].index \in Nat /\ scans[s].batches \in Nat
  BY <1>1 DEF BridgeInv, IndexInv, Types
<1>4. scans[s].index = scans[s].batches
  BY <1>2, <1>3 DEF AtEnd
<1> QED
  BY <1>1, <1>2, <1>3, <1>4

\* fetchNextBatch returns null for the end only when every batch went to a call.
THEOREM EndMeansExhaustedAlways == Spec => EndMeansExhausted
<1> DEFINE Step ==
      (reply'.op = "fetch" /\ reply'.outcome = "end") =>
        \E t \in Threads :
          /\ pc[t] = "next" /\ pc'[t] = "java"
          /\ fetched[local[t].scan] = 0 .. (scans[local[t].scan].batches - 1)
<1>1. BridgeInv /\ [Next]_vars => [Step]_vars
  <2> SUFFICES ASSUME BridgeInv, Next, reply'.op = "fetch", reply'.outcome = "end"
               PROVE  \E t \in Threads :
                        /\ pc[t] = "next" /\ pc'[t] = "java"
                        /\ fetched[local[t].scan] = 0 .. (scans[local[t].scan].batches - 1)
    OBVIOUS
  <2>1. ASSUME NEW u \in Threads, \/ CreateSession(u) \/ StoreSession(u)
                                  \/ StoreResult(u) \/ ScanFails(u)
        PROVE  FALSE
    BY <2>1 DEF CreateSession, StoreSession, StoreResult, ScanFails, AllocHandle, Silent
  <2>2. ASSUME NEW u \in Threads, NEW n, ExecuteScan(u, n) PROVE FALSE
    BY <2>2 DEF ExecuteScan, AllocHandle, Silent
  <2>3. ASSUME NEW u \in Threads, NEW h, \/ GetResult(u, h) \/ CloseResult(u, h)
                                         \/ CloseSession(u, h)
        PROVE  FALSE
    BY <2>3 DEF GetResult, CloseResult, CloseSession, Silent
  <2>4. ASSUME NEW u \in Threads, NEW outcome \in {"batch", "oom"}, EncodeBatch(u, outcome)
        PROVE  FALSE
    BY <2>4 DEF EncodeBatch, ReturnFetch
  <2> QED
    BY <2>1, <2>2, <2>3, <2>4, EndIsExhausted DEF Next
<1> QED
  BY <1>1, BridgeInvAlways, PTL DEF Spec, EndMeansExhausted

=============================================================================
