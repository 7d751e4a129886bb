------------------------ MODULE MemoryBudgetProofs ------------------------
(***************************************************************************)
(* Theorems about MemoryBudget, for any number of threads.                 *)
(***************************************************************************)
EXTENDS MemoryBudget, MapAndListTheorems, TLAPS

\* A thread that is about to exchange has tested the value it expects.
TestedFits ==
  \A t \in Threads : pc[t] = "cas" => maxBytes # 0 /\ Fits(used[t], request[t])

BudgetInv == TypeOK /\ NoUpdateLost /\ TestedFits

\* Unsigned arithmetic is exact when nothing wraps.
LEMMA WordArithmetic ==
  ASSUME NEW a \in Nat, NEW b \in Nat
  PROVE  /\ a + b < Word => Plus(a, b) = a + b
         /\ b <= a /\ a < Word => Minus(a, b) = a - b
<1>1. Word \in Nat /\ Word > 0
  BY WordAssumption
<1>2. a + b < Word => Plus(a, b) = a + b
  BY <1>1 DEF Plus
<1>3. b <= a /\ a < Word => Minus(a, b) = a - b
  BY <1>1 DEF Minus
<1> QED
  BY <1>2, <1>3

\* What the threads hold together fits in a size_t.
LEMMA HeldFitsWord ==
  ASSUME NEW map, IsEntryMap(map, Threads, MaxHeld)
  PROVE  MemorySize(map) \in Nat /\ MemorySize(map) < Word
<1>1. Word \in Nat /\ Cardinality(Threads) \in Nat /\ MaxHeld \in Nat
  BY WordAssumption, ThreadsAssumption, MaxHeldAssumption, FS_CardinalityType
<1>2. MemorySize(map) \in Nat /\ MemorySize(map) <= Cardinality(Threads) * MaxHeld
  BY <1>1, BytesBounded, ThreadsAssumption
<1>3. Cardinality(Threads) * MaxHeld \in Nat
  BY <1>1
<1> QED
  BY <1>1, <1>2, <1>3, WordAssumption

\* One thread holds more or less: the sum moves by the difference.
LEMMA HeldChanges ==
  ASSUME TypeOK, NEW t \in Threads, NEW n \in 0 .. MaxHeld
  PROVE  LET new == Put(held, t, [size |-> n])
         IN  /\ new \in [Threads -> [size : 0 .. MaxHeld]]
             /\ MemorySize(new) = MemorySize(held) - held[t].size + n
             /\ MemorySize(new) \in Nat /\ MemorySize(new) < Word
             /\ MemorySize(held) \in Nat /\ MemorySize(held) < Word
             /\ held[t].size <= MemorySize(held)
             /\ new[t].size = n
             /\ \A s \in Threads \ {t} : new[s] = held[s]
<1> DEFINE new == Put(held, t, [size |-> n])
<1>1. IsEntryMap(held, Threads, MaxHeld) /\ DOMAIN held = Threads /\ MaxHeld \in Nat
  BY MaxHeldAssumption DEF TypeOK, IsEntryMap
<1>2. [size |-> n].size \in 0 .. MaxHeld
  OBVIOUS
<1>3. /\ IsEntryMap(new, Threads, MaxHeld)
      /\ MemorySize(new) = MemorySize(held) - held[t].size + [size |-> n].size
      /\ held[t].size <= MemorySize(held)
  BY <1>1, <1>2, MemorySizePutOld, ThreadsAssumption
<1>4. /\ MemorySize(new) \in Nat /\ MemorySize(new) < Word
      /\ MemorySize(held) \in Nat /\ MemorySize(held) < Word
  BY <1>1, <1>3, HeldFitsWord
<1>5. /\ new \in [Threads -> [size : 0 .. MaxHeld]]
      /\ new[t].size = n
      /\ \A s \in Threads \ {t} : new[s] = held[s]
  BY <1>1 DEF Put, TypeOK
<1> QED
  BY <1>3, <1>4, <1>5

\* A reservation that goes through adds its bytes, no more and no less.
LEMMA ReservedAdds ==
  ASSUME BudgetInv, NEW t \in Threads, Reserved(t), pc[t] # "idle"
  PROVE  /\ TypeOK' /\ NoUpdateLost'
         /\ usedBytes' = usedBytes + request[t]
<1> DEFINE n   == held[t].size + request[t]
           new == Put(held, t, [size |-> n])
<1>1. TypeOK /\ usedBytes = MemorySize(held)
  BY DEF BudgetInv, NoUpdateLost
<1>2. /\ n \in 0 .. MaxHeld /\ request[t] \in Nat /\ held[t].size \in Nat
  BY <1>1, MaxHeldAssumption DEF TypeOK
<1>3. /\ new \in [Threads -> [size : 0 .. MaxHeld]]
      /\ MemorySize(new) = MemorySize(held) - held[t].size + n
      /\ MemorySize(new) \in Nat /\ MemorySize(new) < Word
      /\ MemorySize(held) \in Nat
      /\ \A s \in Threads \ {t} : new[s] = held[s]
  BY <1>1, <1>2, HeldChanges
<1>4. usedBytes + request[t] = MemorySize(new)
  BY <1>1, <1>2, <1>3
<1>5. Plus(usedBytes, request[t]) = usedBytes + request[t]
  BY <1>1, <1>2, <1>3, <1>4, WordArithmetic
<1>6. usedBytes' = usedBytes + request[t] /\ held' = new
  BY <1>5 DEF Reserved
<1> HIDE DEF new, n
<1>7. usedBytes' \in 0 .. (Word - 1)
  BY <1>3, <1>4, <1>6, WordAssumption
<1>8. /\ pc' \in [Threads -> {"idle", "load", "cas"}]
      /\ \A s \in Threads : pc'[s] # "idle" => s # t /\ pc[s] # "idle"
      /\ UNCHANGED <<maxBytes, request, used>>
  BY <1>1 DEF Reserved, TypeOK
<1>9. TypeOK'
  BY <1>1, <1>3, <1>6, <1>7, <1>8 DEF TypeOK
<1> QED
  BY <1>4, <1>6, <1>9 DEF NoUpdateLost

\* Every step keeps the sum of what is held and the tested values.
LEMMA StepKeepsBudgetInv ==
  ASSUME BudgetInv, [Next]_vars
  PROVE  BudgetInv'
<1>1. TypeOK /\ usedBytes = MemorySize(held) /\ TestedFits
  BY DEF BudgetInv, NoUpdateLost
<1>2. ASSUME NEW t \in Threads, AddUnlimited(t) \/ Exchange(t)
      PROVE  BudgetInv'
  <2>1. Reserved(t) /\ pc[t] # "idle"
    BY <1>2 DEF AddUnlimited, Exchange
  <2>2. TypeOK' /\ NoUpdateLost'
    BY <2>1, ReservedAdds
  <2>3. TestedFits'
    BY <1>1, <2>1 DEF TestedFits, Reserved, Fits, TypeOK
  <2> QED
    BY <2>2, <2>3 DEF BudgetInv
<1>3. ASSUME NEW t \in Threads, Load(t) \/ ExchangeFails(t)
      PROVE  BudgetInv'
  <2>1. Test(t) /\ maxBytes # 0 /\ pc[t] # "idle"
    BY <1>1, <1>3 DEF Load, ExchangeFails, TestedFits
  <2>2. TypeOK'
    BY <1>1, <2>1 DEF Test, TypeOK
  <2>3. NoUpdateLost'
    BY <1>1, <2>1 DEF Test, NoUpdateLost
  <2>4. TestedFits'
    BY <1>1, <2>1 DEF TestedFits, Test, Fits, TypeOK
  <2> QED
    BY <2>2, <2>3, <2>4 DEF BudgetInv
<1>4. ASSUME NEW t \in Threads, NEW bytes \in 1 .. MaxHeld, TryReserve(t, bytes)
      PROVE  BudgetInv'
  <2>1. TypeOK'
    BY <1>1, <1>4, MaxHeldAssumption DEF TryReserve, TypeOK
  <2>2. NoUpdateLost'
    BY <1>1, <1>4 DEF TryReserve, NoUpdateLost
  <2>3. TestedFits'
    BY <1>1, <1>4 DEF TestedFits, TryReserve, Fits, TypeOK
  <2> QED
    BY <2>1, <2>2, <2>3 DEF BudgetInv
<1>5. ASSUME NEW t \in Threads, NEW bytes \in 1 .. MaxHeld, Release(t, bytes)
      PROVE  BudgetInv'
  <2> DEFINE n   == held[t].size - bytes
             new == Put(held, t, [size |-> n])
  <2>1. n \in 0 .. MaxHeld /\ held[t].size \in Nat /\ bytes \in Nat /\ bytes <= held[t].size
    BY <1>1, <1>5, MaxHeldAssumption DEF Release, TypeOK
  <2>2. /\ new \in [Threads -> [size : 0 .. MaxHeld]]
        /\ MemorySize(new) = MemorySize(held) - held[t].size + n
        /\ MemorySize(new) \in Nat /\ MemorySize(new) < Word
        /\ MemorySize(held) \in Nat /\ MemorySize(held) < Word
        /\ held[t].size <= MemorySize(held)
        /\ new[t].size = n
        /\ \A s \in Threads \ {t} : new[s] = held[s]
    BY <1>1, <2>1, HeldChanges
  <2>3. usedBytes - bytes = MemorySize(new) /\ bytes <= usedBytes
    BY <1>1, <2>1, <2>2
  <2>4. Minus(usedBytes, bytes) = usedBytes - bytes
    BY <1>1, <2>1, <2>2, <2>3, WordArithmetic
  <2>5. /\ usedBytes' = MemorySize(new) /\ held' = new
        /\ UNCHANGED <<maxBytes, pc, request, used>>
    BY <1>5, <2>3, <2>4 DEF Release
  <2>6. pc[t] = "idle"
    BY <1>5 DEF Release
  <2> HIDE DEF new, n
  <2>7. usedBytes' \in 0 .. (Word - 1)
    BY <2>2, <2>5, WordAssumption
  <2>8. TypeOK'
    BY <1>1, <2>2, <2>5, <2>6, <2>7 DEF TypeOK
  <2>9. TestedFits'
    BY <1>1, <2>5 DEF TestedFits, Fits
  <2> QED
    BY <2>5, <2>8, <2>9 DEF BudgetInv, NoUpdateLost
<1>6. ASSUME NEW max \in MaxBytes, SetMaxBytes(max)
      PROVE  BudgetInv'
  BY <1>1, <1>6 DEF SetMaxBytes, Quiet, BudgetInv, TypeOK, NoUpdateLost, TestedFits
<1>7. ASSUME Reset PROVE BudgetInv'
  <2>1. BytesOf(held') = {}
    BY <1>7 DEF Reset, BytesOf
  <2>2. MemorySize(held') = 0
    BY <2>1, FS_EmptySet DEF MemorySize
  <2>3. TypeOK'
    BY <1>1, <1>7, WordAssumption, MaxHeldAssumption DEF Reset, Quiet, TypeOK
  <2> QED
    BY <1>7, <2>2, <2>3 DEF Reset, Quiet, BudgetInv, NoUpdateLost, TestedFits
<1>8. CASE UNCHANGED vars
  BY <1>1, <1>8 DEF vars, BudgetInv, TypeOK, NoUpdateLost, TestedFits, Fits
<1> QED
  BY <1>2, <1>3, <1>4, <1>5, <1>6, <1>7, <1>8 DEF Next, CallStep

\* A new budget is empty.
LEMMA InitBudgetInv == Init => BudgetInv
<1> SUFFICES ASSUME Init PROVE BudgetInv
  OBVIOUS
<1>1. BytesOf(held) = {}
  BY DEF Init, BytesOf
<1>2. MemorySize(held) = 0
  BY <1>1, FS_EmptySet DEF MemorySize
<1>3. TypeOK
  BY WordAssumption, MaxHeldAssumption DEF Init, TypeOK
<1> QED
  BY <1>2, <1>3 DEF Init, BudgetInv, NoUpdateLost, TestedFits

\* The usage, what threads hold and what they ask for keep their types in
\* every interleaving.
THEOREM BudgetTypeCorrect == Spec => []TypeOK
<1>1. BudgetInv => TypeOK
  BY DEF BudgetInv
<1> QED
  BY <1>1, InitBudgetInv, StepKeepsBudgetInv, PTL DEF Spec

\* The budget counts exactly the bytes that are reserved and not released,
\* however many threads use it and however their calls interleave.
THEOREM NoUpdateIsLost == Spec => []NoUpdateLost
<1>1. BudgetInv => NoUpdateLost
  BY DEF BudgetInv
<1> QED
  BY <1>1, InitBudgetInv, StepKeepsBudgetInv, PTL DEF Spec

\* No interleaving of reservations exceeds the limit.
THEOREM NeverOverReservesAlways == Spec => NeverOverReserves
<1> DEFINE Within == (usedBytes' > usedBytes /\ maxBytes # 0) => usedBytes' <= maxBytes
<1>1. BudgetInv /\ [Next]_vars => [Within]_vars
  <2> SUFFICES ASSUME BudgetInv, Next PROVE Within
    OBVIOUS
  <2>1. TypeOK /\ TestedFits /\ usedBytes \in Nat
    BY WordAssumption DEF BudgetInv, TypeOK
  <2>2. ASSUME NEW t \in Threads, Exchange(t) PROVE Within
    <3>1. Fits(usedBytes, request[t])
      BY <2>1, <2>2 DEF TestedFits, Exchange
    <3>2. usedBytes' = Plus(usedBytes, request[t])
      BY <2>2 DEF Exchange, Reserved
    <3> QED
      BY <3>1, <3>2 DEF Fits
  <2>3. ASSUME NEW t \in Threads, AddUnlimited(t) PROVE Within
    BY <2>3 DEF AddUnlimited
  <2>4. ASSUME NEW t \in Threads, NEW bytes \in 1 .. MaxHeld, Release(t, bytes)
        PROVE  Within
    <3>1. bytes \in Nat /\ bytes <= usedBytes /\ usedBytes < Word
      <4>1. held[t].size <= MemorySize(held)
        <5>1. held[t].size \in 0 .. MaxHeld
          BY <2>1 DEF TypeOK
        <5> QED
          BY <2>1, <5>1, HeldChanges
      <4>2. held[t].size \in Nat /\ bytes <= held[t].size /\ bytes \in Nat
        BY <2>1, <2>4, MaxHeldAssumption DEF Release, TypeOK
      <4>3. usedBytes = MemorySize(held) /\ usedBytes < Word
        BY <2>1, WordAssumption DEF BudgetInv, NoUpdateLost, TypeOK
      <4> QED
        BY <2>1, <4>1, <4>2, <4>3
    <3>2. usedBytes' = usedBytes - bytes
      BY <2>1, <2>4, <3>1, WordArithmetic DEF Release
    <3> QED
      BY <2>1, <3>1, <3>2
  <2>5. ASSUME NEW t \in Threads, Load(t) \/ ExchangeFails(t) PROVE Within
    BY <2>1, <2>5 DEF Load, ExchangeFails, Test
  <2>6. ASSUME NEW t \in Threads, NEW bytes \in 1 .. MaxHeld, TryReserve(t, bytes)
        PROVE  Within
    BY <2>1, <2>6 DEF TryReserve
  <2>7. ASSUME (\E max \in MaxBytes : SetMaxBytes(max)) \/ Reset PROVE Within
    BY <2>1, <2>7 DEF SetMaxBytes, Reset
  <2> QED
    BY <2>2, <2>3, <2>4, <2>5, <2>6, <2>7 DEF Next, CallStep
<1> QED
  BY <1>1, InitBudgetInv, StepKeepsBudgetInv, PTL DEF Spec, NeverOverReserves

\* A call that is under way asks for something: what it reserves can be told
\* from what it is refused.
AsksSomething == \A t \in Threads : pc[t] # "idle" => request[t] > 0

\* No step makes an empty request.
LEMMA StepKeepsAsking ==
  ASSUME TypeOK, AsksSomething, [Next]_vars
  PROVE  AsksSomething'
<1>1. ASSUME NEW t \in Threads, CallStep(t) PROVE AsksSomething'
  BY <1>1 DEF CallStep, AddUnlimited, Load, Exchange, ExchangeFails, Reserved, Test,
              TypeOK, AsksSomething
<1>2. ASSUME NEW t \in Threads, NEW bytes \in 1 .. MaxHeld, TryReserve(t, bytes)
      PROVE  AsksSomething'
  BY <1>2, MaxHeldAssumption DEF TryReserve, TypeOK, AsksSomething
<1>3. ASSUME NEW t \in Threads, NEW bytes \in 1 .. MaxHeld, Release(t, bytes)
      PROVE  AsksSomething'
  BY <1>3 DEF Release, AsksSomething
<1>4. ASSUME (\E max \in MaxBytes : SetMaxBytes(max)) \/ Reset PROVE AsksSomething'
  BY <1>4 DEF SetMaxBytes, Reset, AsksSomething
<1>5. CASE UNCHANGED vars
  BY <1>5 DEF vars, AsksSomething
<1> QED
  BY <1>1, <1>2, <1>3, <1>4, <1>5 DEF Next

\* The test of the loop never wraps around: the usage and the request of a
\* call that is under way fit in a size_t together.
LEMMA RequestAddsUp ==
  ASSUME BudgetInv, NEW t \in Threads, pc[t] # "idle"
  PROVE  /\ request[t] \in Nat /\ usedBytes \in Nat
         /\ Plus(usedBytes, request[t]) = usedBytes + request[t]
<1> DEFINE n   == held[t].size + request[t]
           new == Put(held, t, [size |-> n])
<1>1. TypeOK /\ usedBytes = MemorySize(held)
  BY DEF BudgetInv, NoUpdateLost
<1>2. n \in 0 .. MaxHeld /\ request[t] \in Nat /\ held[t].size \in Nat
  BY <1>1, MaxHeldAssumption DEF TypeOK
<1>3. /\ MemorySize(new) = MemorySize(held) - held[t].size + n
      /\ MemorySize(new) \in Nat /\ MemorySize(new) < Word
      /\ MemorySize(held) \in Nat
  BY <1>1, <1>2, HeldChanges
<1>4. usedBytes \in Nat /\ usedBytes + request[t] < Word
  BY <1>1, <1>2, <1>3
<1> QED
  BY <1>2, <1>4, WordArithmetic

\* No interleaving makes a call fail for want of bytes that were there when it
\* looked: its refusal is the truth at the load that precedes it, however old
\* the value of the load before.
THEOREM RefusesOnlyWhenFullAlways == Spec => RefusesOnlyWhenFull
<1> DEFINE Refuses(t) == pc[t] # "idle" /\ pc'[t] = "idle" /\ held'[t] = held[t]
           Full(t)    == usedBytes + request[t] > maxBytes /\ maxBytes # 0
           Honest     == \A t \in Threads : Refuses(t) => Full(t)
           AskingInv  == BudgetInv /\ AsksSomething
<1>1. AskingInv /\ [Next]_vars => [Honest]_vars
  <2> SUFFICES ASSUME AskingInv, Next, NEW t \in Threads, Refuses(t) PROVE Full(t)
    OBVIOUS
  <2>1. TypeOK /\ TestedFits /\ AsksSomething
    BY DEF BudgetInv
  <2>2. request[t] \in Nat /\ request[t] > 0 /\ held[t].size \in Nat
    BY <2>1, MaxHeldAssumption DEF TypeOK, AsksSomething
  <2>3. ASSUME NEW s \in Threads, AddUnlimited(s) \/ Exchange(s) PROVE FALSE
    <3>1. Reserved(s)
      BY <2>3 DEF AddUnlimited, Exchange
    <3>2. s = t
      BY <2>1, <3>1 DEF Reserved, TypeOK
    <3>3. held'[t] = [size |-> held[t].size + request[t]]
      BY <2>1, <3>1, <3>2 DEF Reserved, Put, TypeOK
    <3>4. held'[t].size = held[t].size + request[t]
      BY <3>3
    <3> QED
      BY <2>2, <3>4
  <2>4. ASSUME NEW s \in Threads, Load(s) \/ ExchangeFails(s) PROVE Full(t)
    <3>1. Test(s) /\ maxBytes # 0
      BY <2>1, <2>4 DEF Load, ExchangeFails, TestedFits
    <3>2. s = t /\ ~ Fits(usedBytes, request[t])
      BY <2>1, <3>1 DEF Test, TypeOK
    <3>3. usedBytes \in Nat /\ Plus(usedBytes, request[t]) = usedBytes + request[t]
      BY RequestAddsUp
    <3>4. maxBytes \in Nat
      BY <2>1, WordAssumption DEF TypeOK
    <3> QED
      BY <2>2, <3>1, <3>2, <3>3, <3>4 DEF Fits
  <2>5. ASSUME NEW s \in Threads, NEW bytes \in 1 .. MaxHeld, TryReserve(s, bytes)
        PROVE  FALSE
    BY <2>1, <2>5 DEF TryReserve, TypeOK
  <2>6. ASSUME NEW s \in Threads, NEW bytes \in 1 .. MaxHeld, Release(s, bytes)
        PROVE  FALSE
    BY <2>6 DEF Release
  <2>7. ASSUME (\E max \in MaxBytes : SetMaxBytes(max)) \/ Reset PROVE FALSE
    BY <2>7 DEF SetMaxBytes, Reset
  <2> QED
    BY <2>3, <2>4, <2>5, <2>6, <2>7 DEF Next, CallStep
<1>2. Init => AskingInv
  BY InitBudgetInv DEF Init, AsksSomething
<1>3. AskingInv /\ [Next]_vars => AskingInv'
  BY StepKeepsBudgetInv, StepKeepsAsking DEF BudgetInv
<1> QED
  BY <1>1, <1>2, <1>3, PTL DEF Spec, RefusesOnlyWhenFull
=============================================================================
