--------------------------- MODULE MemoryBudget ---------------------------
(***************************************************************************)
(* MemoryBudget (lru_policy.h) shared by threads without a lock.  Each     *)
(* thread reserves, grows, shrinks and releases blocks of memory; `held`   *)
(* is what the successful calls of a thread leave it with.  One action is  *)
(* one access to the atomic used_bytes_.  set_max_bytes and reset are not  *)
(* made for concurrent use and run while no call is under way.             *)
(***************************************************************************)
EXTENDS EntryBytes

CONSTANTS
  Threads,
  MaxBytes,   \* the values of max_bytes_; 0 is "unlimited"
  MaxHeld,    \* a thread holds, and asks for, at most this much
  Word        \* size_t arithmetic is modulo Word (2^64)

ASSUME ThreadsAssumption == IsFiniteSet(Threads)
ASSUME MaxHeldAssumption == MaxHeld \in Nat
\* Neither what is held nor a request on top of a limit wraps around.
ASSUME WordAssumption ==
  /\ Word \in Nat \ {0}
  /\ Cardinality(Threads) * MaxHeld < Word
  /\ \A max \in MaxBytes : max \in Nat /\ max + MaxHeld < Word

VARIABLES
  maxBytes,  \* max_bytes_
  usedBytes, \* used_bytes_
  pc,        \* "idle", "load" or "cas", for every thread
  request,   \* request_bytes of a thread's try_reserve
  used,      \* its local `used`
  held       \* the bytes it has reserved and not released: [size |-> n]

vars == <<maxBytes, usedBytes, pc, request, used, held>>

Plus(a, b) == (a + b) % Word

\* Mutant of Minus: the subtraction is not reduced to a size_t.
MinusUnreduced(a, b) == a + Word - b
Minus(a, b) == (a + Word - b) % Word

\* Mutant of Fits: the limit itself is out of bounds.
FitsBelow(seen, bytes) == Plus(seen, bytes) < maxBytes

Fits(seen, bytes) == Plus(seen, bytes) <= maxBytes

Init ==
  /\ maxBytes \in MaxBytes
  /\ usedBytes = 0
  /\ pc = [t \in Threads |-> "idle"]
  /\ request = [t \in Threads |-> 0]
  /\ used = [t \in Threads |-> 0]
  /\ held = [t \in Threads |-> [size |-> 0]]

\* The call has added its bytes.
Reserved(t) ==
  /\ usedBytes' = Plus(usedBytes, request[t])
  /\ held' = Put(held, t, [size |-> held[t].size + request[t]])
  /\ pc' = [pc EXCEPT ![t] = "idle"]
  /\ UNCHANGED <<maxBytes, request, used>>

\* Mutant of Test: the limit is not looked at.
TestNothing(t) ==
  /\ used' = [used EXCEPT ![t] = usedBytes]
  /\ pc' = [pc EXCEPT ![t] = "cas"]
  /\ UNCHANGED <<maxBytes, usedBytes, request, held>>

\* A read of used_bytes_, followed by the test of the loop.
Test(t) ==
  /\ used' = [used EXCEPT ![t] = usedBytes]
  /\ pc' = [pc EXCEPT ![t] = IF Fits(usedBytes, request[t]) THEN "cas" ELSE "idle"]
  /\ UNCHANGED <<maxBytes, usedBytes, request, held>>

\* try_reserve(bytes), or try_update(old, old + bytes).
TryReserve(t, bytes) ==
  /\ pc[t] = "idle"
  /\ held[t].size + bytes <= MaxHeld
  /\ pc' = [pc EXCEPT ![t] = "load"]
  /\ request' = [request EXCEPT ![t] = bytes]
  /\ UNCHANGED <<maxBytes, usedBytes, used, held>>

\* max_bytes_ == 0: fetch_add.
AddUnlimited(t) ==
  /\ pc[t] = "load" /\ maxBytes = 0
  /\ Reserved(t)

\* The first load.
Load(t) ==
  /\ pc[t] = "load" /\ maxBytes # 0
  /\ Test(t)

\* Mutant of Exchange: a store in place of the exchange.
StoreUsed(t) ==
  /\ pc[t] = "cas"
  /\ usedBytes' = Plus(used[t], request[t])
  /\ held' = Put(held, t, [size |-> held[t].size + request[t]])
  /\ pc' = [pc EXCEPT ![t] = "idle"]
  /\ UNCHANGED <<maxBytes, request, used>>

\* compare_exchange_weak succeeds ...
Exchange(t) ==
  /\ pc[t] = "cas" /\ usedBytes = used[t]
  /\ Reserved(t)

\* Mutant of ExchangeFails: the value is not read again.
ExchangeRetries(t) == pc[t] = "cas" /\ UNCHANGED vars

\* ... or fails, because the value has changed or for no reason, and reloads.
ExchangeFails(t) ==
  /\ pc[t] = "cas"
  /\ Test(t)

\* release(bytes), or try_update(old, old - bytes): fetch_sub.
Release(t, bytes) ==
  /\ pc[t] = "idle"
  /\ bytes <= held[t].size
  /\ usedBytes' = Minus(usedBytes, bytes)
  /\ held' = Put(held, t, [size |-> held[t].size - bytes])
  /\ UNCHANGED <<maxBytes, pc, request, used>>

Quiet == \A t \in Threads : pc[t] = "idle"

SetMaxBytes(max) ==
  /\ Quiet
  /\ maxBytes' = max
  /\ UNCHANGED <<usedBytes, pc, request, used, held>>

\* reset(), by a caller that has dropped everything it had reserved.
Reset ==
  /\ Quiet
  /\ usedBytes' = 0
  /\ held' = [t \in Threads |-> [size |-> 0]]
  /\ UNCHANGED <<maxBytes, pc, request, used>>

CallStep(t) == AddUnlimited(t) \/ Load(t) \/ Exchange(t) \/ ExchangeFails(t)

Next ==
  \/ \E t \in Threads : CallStep(t)
  \/ \E t \in Threads, bytes \in 1 .. MaxHeld : TryReserve(t, bytes) \/ Release(t, bytes)
  \/ \E max \in MaxBytes : SetMaxBytes(max)
  \/ Reset

Spec == Init /\ [][Next]_vars

\* Threads keep running, and a compare-exchange that could succeed over and
\* over again succeeds for some thread: spurious failures do not go on for
\* ever.
Fairness ==
  /\ \A t \in Threads : WF_vars(CallStep(t))
  /\ SF_vars(\E t \in Threads : Exchange(t))

FairSpec == Spec /\ Fairness

-----------------------------------------------------------------------------
TypeOK ==
  /\ maxBytes \in MaxBytes
  /\ usedBytes \in 0 .. (Word - 1)
  /\ pc \in [Threads -> {"idle", "load", "cas"}]
  /\ request \in [Threads -> 0 .. MaxHeld]
  /\ used \in [Threads -> 0 .. (Word - 1)]
  /\ held \in [Threads -> [size : 0 .. MaxHeld]]
  /\ \A t \in Threads : pc[t] # "idle" => held[t].size + request[t] <= MaxHeld

\* used_bytes_ is the sum of what the threads hold: no interleaving of
\* reservations and releases loses an update or counts one twice.
NoUpdateLost == usedBytes = MemorySize(held)

\* Reservations never take the usage beyond the limit, although each thread
\* tests a value that may be out of date when it writes.
NeverOverReserves ==
  [][(usedBytes' > usedBytes /\ maxBytes # 0) => usedBytes' <= maxBytes]_vars

\* A call is refused only if its bytes did not fit at that moment: a refusal
\* takes effect at the load that precedes it.
RefusesOnlyWhenFull ==
  [][\A t \in Threads :
       (pc[t] # "idle" /\ pc'[t] = "idle" /\ held'[t] = held[t])
         => usedBytes + request[t] > maxBytes /\ maxBytes # 0]_vars

\* "Lock-free": however the threads get in each other's way, calls keep
\* leaving the loop for as long as there are calls in it.
LockFree ==
  \/ []<>(\A t \in Threads : pc[t] # "cas")
  \/ []<><<\E t \in Threads : pc[t] = "cas" /\ pc'[t] = "idle">>_vars
=============================================================================
