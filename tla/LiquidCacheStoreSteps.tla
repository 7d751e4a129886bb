----------------------- MODULE LiquidCacheStoreSteps -----------------------
(***************************************************************************)
(* insert statement by statement: the loop of make_budget_space, the       *)
(* reservation, the store and the LRU notification.  The caller holds      *)
(* mutex_ meanwhile, so no other operation of the store runs, except that  *)
(* load_from_parquet records a file's metadata without the lock.           *)
(*                                                                         *)
(* Seen from outside mutex_ an insert is one step of LiquidCacheStore      *)
(* (ImplementsStore), which is what justifies its MakeRoomAndStore.        *)
(***************************************************************************)
EXTENDS LiquidCacheStore, SequencesExt

CONSTANT None

VARIABLES
  pc,       \* the next statement of the insert that holds mutex_
  call,     \* its key, entry, and what it found under the key
  victims,  \* the victims that are left of the last find_victims
  freed,    \* memory_size() of the entry that was erased last
  attempt,  \* the loop counter of make_budget_space
  before    \* the store when mutex_ was taken

control == <<pc, call, victims, freed, attempt, before>>
stepVars == <<vars, control>>

Nothing == [entries |-> <<>>, lru |-> <<>>, usedBytes |-> 0]
NoCall == [key |-> None, grows |-> FALSE, needed |-> 0]

\* The victims find_victims(count) returns, the oldest first.
Victims(list, count) ==
  Reverse(SubSeq(list, Len(list) - PopCount(list, count) + 1, Len(list)))

StepsInit ==
  /\ Init
  /\ pc = "idle"
  /\ call = NoCall
  /\ victims = <<>>
  /\ freed = 0
  /\ attempt = 0
  /\ before = Nothing

\* Take mutex_ and look the key up: a new key needs the bytes of its entry,
\* an update the difference to the old entry.
Begin(key, entry) ==
  LET old   == IF key \in DOMAIN entries THEN entries[key].size ELSE 0
      grows == key \notin DOMAIN entries \/ entry.size > old
  IN  /\ pc = "idle"
      /\ pc' = IF grows THEN "room" ELSE "reserve"
      /\ call' = [key |-> key, entry |-> entry, grows |-> grows,
                  needed |-> IF grows THEN entry.size - old ELSE old - entry.size]
      /\ before' = [entries |-> entries, lru |-> lru, usedBytes |-> usedBytes]
      /\ UNCHANGED <<vars, victims, freed, attempt>>

\* Return from insert, dropping mutex_.
Return(ok) ==
  /\ pc' = "idle"
  /\ reply' = [op |-> "insert", key |-> call.key, size |-> call.entry.size, ok |-> ok]
  /\ call' = NoCall
  /\ victims' = <<>>
  /\ freed' = 0
  /\ attempt' = 0
  /\ before' = Nothing

\* The entry of make_budget_space.
EnterRoom ==
  /\ pc = "room"
  /\ \/ /\ maxCacheBytes = 0
        /\ pc' = "reserve"
        /\ UNCHANGED <<vars, call, victims, freed, attempt, before>>
     \/ /\ maxCacheBytes # 0 /\ call.needed > maxCacheBytes
        /\ Return(FALSE)
        /\ UNCHANGED <<entries, fileMetadata, lru, usedBytes, maxCacheBytes>>
     \/ /\ maxCacheBytes # 0 /\ call.needed <= maxCacheBytes
        /\ pc' = "attempt"
        /\ UNCHANGED <<vars, call, victims, freed, attempt, before>>

\* One turn of its loop.
Attempt ==
  /\ pc = "attempt"
  /\ LET found == Victims(lru, VictimBatch)
     IN  \/ /\ Fits(usedBytes, call.needed)
            /\ pc' = "reserve"
            /\ UNCHANGED <<vars, call, victims, freed, attempt, before>>
         \/ /\ ~Fits(usedBytes, call.needed)
            /\ attempt = MaxAttempts \/ found = <<>>
            /\ Return(FALSE)
            /\ UNCHANGED <<entries, fileMetadata, lru, usedBytes, maxCacheBytes>>
         \/ /\ ~Fits(usedBytes, call.needed)
            /\ attempt < MaxAttempts /\ found # <<>>
            /\ victims' = found
            /\ lru' = WithoutOldest(lru, VictimBatch)
            /\ attempt' = attempt + 1
            /\ pc' = "erase"
            /\ UNCHANGED <<entries, fileMetadata, usedBytes, maxCacheBytes, reply,
                           call, freed, before>>

\* Mutant of NextVictims: the loop looks at the same victim again.
SameVictims(list) == list

\* ++it in the loop over the victims.
NextVictims(list) == Tail(list)

\* The loop over the victims: find the next one's entry and erase it ...
EraseVictim ==
  /\ pc = "erase"
  /\ \/ /\ victims = <<>>
        /\ pc' = "attempt"
        /\ UNCHANGED <<vars, call, victims, freed, attempt, before>>
     \/ /\ victims # <<>>
        /\ victims' = NextVictims(victims)
        /\ entries' = Without(entries, {Head(victims)})
        /\ IF Head(victims) \in DOMAIN entries
           THEN freed' = entries[Head(victims)].size /\ pc' = "release"
           ELSE UNCHANGED <<freed, pc>>
        /\ UNCHANGED <<fileMetadata, lru, usedBytes, maxCacheBytes, reply,
                       call, attempt, before>>

\* Mutant of ReleaseVictim: one victim is always enough.
ReleaseOneVictim ==
  /\ pc = "release"
  /\ usedBytes' = Minus(usedBytes, freed)
  /\ pc' = "reserve"
  /\ UNCHANGED <<entries, fileMetadata, lru, maxCacheBytes, reply,
                 call, victims, freed, attempt, before>>

\* ... and release its bytes: enough is enough.
ReleaseVictim ==
  /\ pc = "release"
  /\ usedBytes' = Minus(usedBytes, freed)
  /\ pc' = IF Fits(usedBytes', call.needed) THEN "reserve" ELSE "erase"
  /\ UNCHANGED <<entries, fileMetadata, lru, maxCacheBytes, reply,
                 call, victims, freed, attempt, before>>

\* try_update(old_size, entry_size), or try_reserve(entry_size) of a new key.
Reserve ==
  LET granted == maxCacheBytes = 0 \/ Fits(usedBytes, call.needed)
  IN  /\ pc = "reserve"
      /\ UNCHANGED <<entries, fileMetadata, lru, maxCacheBytes>>
      /\ IF call.grows /\ ~granted
         THEN Return(FALSE) /\ UNCHANGED usedBytes
         ELSE /\ usedBytes' = IF call.grows THEN Plus(usedBytes, call.needed)
                                            ELSE Minus(usedBytes, call.needed)
              /\ pc' = "store"
              /\ UNCHANGED <<reply, call, victims, freed, attempt, before>>

\* entries_[key] = std::move(entry)
StoreEntry ==
  /\ pc = "store"
  /\ entries' = Put(entries, call.key, call.entry)
  /\ pc' = "notify"
  /\ UNCHANGED <<fileMetadata, lru, usedBytes, maxCacheBytes, reply,
                 call, victims, freed, attempt, before>>

\* Mutant of NotifyLru: lru_.notify_access(key), which ignores a new key.
NotifyAccessOnly ==
  /\ pc = "notify"
  /\ lru' = NotifyAccess(lru, call.key)
  /\ Return(TRUE)
  /\ UNCHANGED <<entries, fileMetadata, usedBytes, maxCacheBytes>>

\* lru_.notify_insert(key)
NotifyLru ==
  /\ pc = "notify"
  /\ lru' = NotifyInsert(lru, call.key)
  /\ Return(TRUE)
  /\ UNCHANGED <<entries, fileMetadata, usedBytes, maxCacheBytes>>

InsertStep ==
  \/ \E key \in Keys, entry \in Entry : Begin(key, entry)
  \/ EnterRoom \/ Attempt \/ EraseVictim \/ ReleaseVictim
  \/ Reserve \/ StoreEntry \/ NotifyLru

\* The other operations take mutex_ too (read_batch is left out: it changes
\* nothing); load_from_parquet takes it for a file's columns but not for its
\* metadata.
OtherOperation ==
  /\ \/ pc = "idle" /\ \E key \in Keys : Get(key)
     \/ pc = "idle" /\ Clear
     \/ pc = "idle" /\ \E limit \in Limits : SetMaxCacheBytes(limit)
     \/ pc = "idle" /\ \E key \in Keys, entry \in Entry : LoadColumn(key, entry)
     \/ \E file \in Files : LoadMetadata(file)
  /\ UNCHANGED control

StepsNext == InsertStep \/ OtherOperation

StepsSpec == StepsInit /\ [][StepsNext]_stepVars

\* The thread that has taken mutex_ keeps running.
FairStepsSpec == StepsSpec /\ WF_stepVars(InsertStep /\ pc # "idle")

-----------------------------------------------------------------------------
\* What the threads that wait for mutex_ will see: nothing of an insert
\* until it returns.
Outside == pc = "idle"

Atomic == INSTANCE LiquidCacheStore WITH
  entries   <- IF Outside THEN entries ELSE before.entries,
  lru       <- IF Outside THEN lru ELSE before.lru,
  usedBytes <- IF Outside THEN usedBytes ELSE before.usedBytes

\* The statements of insert, with the loop of make_budget_space and its two
\* early returns, amount to the one step LiquidCacheStore makes of them.
ImplementsStore == Atomic!Spec

\* Every insert gives mutex_ back: the eviction loop ends.
InsertReturns == pc # "idle" ~> pc = "idle"

\* While mutex_ is held the victims that are still to be erased are cached,
\* distinct, and no longer tracked: no key is freed twice in one call.
VictimsAreCached ==
  /\ ToSet(victims) \subseteq DOMAIN entries \ Tracked(lru)
  /\ IsInjective(victims)

\* The reservation that follows make_budget_space never fails: it repeats a
\* test whose outcome nothing has changed since.
RoomIsEnough ==
  (pc = "reserve" /\ call.grows /\ maxCacheBytes # 0) => Fits(usedBytes, call.needed)
=============================================================================
