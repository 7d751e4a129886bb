----------------------------- MODULE JniBridge -----------------------------
(***************************************************************************)
(* The JNI bridge (jni_bridge.h, jni_bridge.cpp): Java threads create      *)
(* sessions, execute scans and fetch batches through integer handles.  A   *)
(* handle is drawn from one atomic counter, then entered in a table under  *)
(* the table's mutex; a fetch looks the handle up under that mutex and     *)
(* goes on without it, holding a shared_ptr.  Each action below is one     *)
(* atomic access or one critical section.                                  *)
(*                                                                         *)
(* Java calls are made with handles that earlier calls returned, open or   *)
(* already closed; Parquet and the JVM are external.                       *)
(***************************************************************************)
EXTENDS Integers, FiniteSets, Functions

CONSTANTS
  Threads,
  MaxBatches,  \* bound: a scan reads at most this many batches
  MaxHandle,   \* bound: how many handles a behaviour allocates
  None

ASSUME BoundsAssumption == MaxBatches \in Nat /\ MaxHandle \in Nat

ASSUME ThreadsAssumption == IsFiniteSet(Threads)

\* nullptr is no scan.
ASSUME NoneAssumption == None \notin Nat

VARIABLES
  nextHandle,  \* next_handle()
  sessions,    \* the keys of sessions()
  results,     \* results(): handle -> the scan it points to
  scans,       \* the ScanResult objects that are alive
  returned,    \* the handles Java has been given
  pc,          \* what each thread does next
  local,       \* its local variables
  fetched,     \* history: for each scan, the batches handed to some fetch
  closed,      \* history: the result handles that were closed
  reply        \* the call that returned last and what it returned

vars == <<nextHandle, sessions, results, scans, returned, pc, local, fetched, closed, reply>>

\* A scan is named by the handle it was stored under.
NoLocal == [handle |-> 0, scan |-> None, batch |-> 0]
Silent  == [op |-> "none"]

Init ==
  /\ nextHandle = 1
  /\ sessions = {}
  /\ results = <<>>
  /\ scans = <<>>
  /\ returned = {}
  /\ pc = [t \in Threads |-> "java"]
  /\ local = [t \in Threads |-> NoLocal]
  /\ fetched = <<>>
  /\ closed = {}
  /\ reply = Silent

SetAt(f, x, y) == [z \in DOMAIN f \cup {x} |-> IF z = x THEN y ELSE f[z]]

\* A shared_ptr to a ScanResult is copied, or dropped: the last one to go
\* destroys the object.
Copied(objects, s) == [objects EXCEPT ![s].refs = @ + 1]

\* Mutant of Dropped: delete, whoever else holds a pointer.
Deleted(objects, s) == Restrict(objects, DOMAIN objects \ {s})

Dropped(objects, s) ==
  IF objects[s].refs = 1 THEN Restrict(objects, DOMAIN objects \ {s})
                         ELSE [objects EXCEPT ![s].refs = @ - 1]

Goto(t, place) == pc' = [pc EXCEPT ![t] = place]

\* Mutant of AllocHandle: the counter is read and not advanced.
PeekHandle(t, place, scan) ==
  /\ pc[t] = "java" /\ nextHandle <= MaxHandle
  /\ local' = [local EXCEPT ![t] = [handle |-> nextHandle, scan |-> scan, batch |-> 0]]
  /\ Goto(t, place)
  /\ reply' = Silent
  /\ UNCHANGED <<nextHandle, sessions, results, returned, closed>>

\* alloc_handle(), in a call that will enter it in a table.
AllocHandle(t, place, scan) ==
  /\ pc[t] = "java" /\ nextHandle <= MaxHandle
  /\ nextHandle' = nextHandle + 1
  /\ local' = [local EXCEPT ![t] = [handle |-> nextHandle, scan |-> scan, batch |-> 0]]
  /\ Goto(t, place)
  /\ reply' = Silent
  /\ UNCHANGED <<sessions, results, returned, closed>>

CreateSession(t) ==
  /\ AllocHandle(t, "session", None)
  /\ UNCHANGED <<scans, fetched>>

StoreSession(t) ==
  /\ pc[t] = "session"
  /\ sessions' = sessions \cup {local[t].handle}
  /\ returned' = returned \cup {local[t].handle}
  /\ reply' = [op |-> "createSession", handle |-> local[t].handle]
  /\ local' = [local EXCEPT ![t] = NoLocal]
  /\ Goto(t, "java")
  /\ UNCHANGED <<nextHandle, results, scans, fetched, closed>>

\* executeScan reads and encodes all batches of the file (a read error ends
\* it early), and store_result draws a handle ...
ExecuteScan(t, n) ==
  /\ AllocHandle(t, "store", nextHandle)
  /\ scans' = SetAt(scans, nextHandle, [batches |-> n, index |-> 0, refs |-> 1])
  /\ fetched' = SetAt(fetched, nextHandle, {})

\* ... and enters the result under results_mutex(); the table's shared_ptr
\* replaces the local one.
StoreResult(t) ==
  /\ pc[t] = "store"
  /\ results' = SetAt(results, local[t].handle, local[t].scan)
  /\ returned' = returned \cup {local[t].handle}
  /\ reply' = [op |-> "executeScan", handle |-> local[t].handle]
  /\ local' = [local EXCEPT ![t] = NoLocal]
  /\ Goto(t, "java")
  /\ UNCHANGED <<nextHandle, sessions, scans, fetched, closed>>

\* The file cannot be opened or read: RuntimeException, nothing stored.
ScanFails(t) ==
  /\ pc[t] = "java"
  /\ reply' = [op |-> "executeScan", handle |-> -1]
  /\ UNCHANGED <<nextHandle, sessions, results, scans, returned, pc, local, fetched, closed>>

\* fetchNextBatch: get_result(handle), or "Invalid result handle" ...
GetResult(t, h) ==
  /\ pc[t] = "java"
  /\ \/ /\ h \in DOMAIN results
        /\ local' = [local EXCEPT ![t] = [handle |-> h, scan |-> results[h], batch |-> 0]]
        /\ scans' = Copied(scans, results[h])
        /\ Goto(t, "next")
        /\ reply' = Silent
     \/ /\ h \notin DOMAIN results
        /\ reply' = [op |-> "fetch", handle |-> h, outcome |-> "invalid"]
        /\ UNCHANGED <<local, pc, scans>>
  /\ UNCHANGED <<nextHandle, sessions, results, returned, fetched, closed>>

\* Drop the shared_ptr and return to Java.
ReturnFetch(t, outcome) ==
  /\ reply' = [op |-> "fetch", handle |-> local[t].handle, outcome |-> outcome]
  /\ local' = [local EXCEPT ![t] = NoLocal]
  /\ Goto(t, "java")

\* Mutant of AtEnd: the end is one batch early.
AtLast(s) == scans[s].index + 1 >= scans[s].batches

AtEnd(s) == scans[s].index >= scans[s].batches

\* Mutant of Advanced: current_index is read, not incremented.
Unmoved(objects, s) == objects

Advanced(objects, s) == [objects EXCEPT ![s].index = @ + 1]

\* ... current_index.fetch_add(1): the index this call owns (how far the
\* counter runs past the end is not kept) ...
NextBatch(t) ==
  LET s   == local[t].scan
      idx == scans[s].index
  IN  /\ pc[t] = "next"
      /\ UNCHANGED <<nextHandle, sessions, results, returned, closed>>
      /\ \/ /\ ~AtEnd(s)
            /\ scans' = Advanced(scans, s)
            /\ fetched' = [fetched EXCEPT ![s] = @ \cup {idx}]
            /\ local' = [local EXCEPT ![t].batch = idx]
            /\ Goto(t, "encode")
            /\ reply' = Silent
         \/ /\ AtEnd(s)
            /\ ReturnFetch(t, "end")
            /\ scans' = Dropped(scans, s)
            /\ UNCHANGED fetched

\* ... and encode the batch into a new Java array, if the JVM has room.
EncodeBatch(t, outcome) ==
  /\ pc[t] = "encode"
  /\ ReturnFetch(t, outcome)
  /\ scans' = Dropped(scans, local[t].scan)
  /\ UNCHANGED <<nextHandle, sessions, results, returned, fetched, closed>>

\* Mutant of CloseResult: the table keeps its entry.
CloseNothing(t, h) ==
  /\ pc[t] = "java"
  /\ closed' = closed \cup {h}
  /\ reply' = [op |-> "closeResult", handle |-> h]
  /\ UNCHANGED <<nextHandle, sessions, results, scans, returned, pc, local, fetched>>

\* closeResult(handle): an unknown handle is ignored.
CloseResult(t, h) ==
  /\ pc[t] = "java"
  /\ results' = Restrict(results, DOMAIN results \ {h})
  /\ scans' = IF h \in DOMAIN results THEN Dropped(scans, results[h]) ELSE scans
  /\ closed' = closed \cup {h}
  /\ reply' = [op |-> "closeResult", handle |-> h]
  /\ UNCHANGED <<nextHandle, sessions, returned, pc, local, fetched>>

CloseSession(t, h) ==
  /\ pc[t] = "java"
  /\ sessions' = sessions \ {h}
  /\ reply' = [op |-> "closeSession", handle |-> h]
  /\ UNCHANGED <<nextHandle, results, scans, returned, pc, local, fetched, closed>>

Next ==
  \E t \in Threads :
    \/ CreateSession(t) \/ StoreSession(t)
    \/ \E n \in 0 .. MaxBatches : ExecuteScan(t, n)
    \/ StoreResult(t) \/ ScanFails(t) \/ NextBatch(t)
    \/ \E h \in returned : GetResult(t, h) \/ CloseResult(t, h) \/ CloseSession(t, h)
    \/ \E outcome \in {"batch", "oom"} : EncodeBatch(t, outcome)

Spec == Init /\ [][Next]_vars

-----------------------------------------------------------------------------
\* A handle is given out once, and never names both a session and a result:
\* closing one kind cannot touch the other.
HandlesAreUnique ==
  /\ sessions \cap DOMAIN results = {}
  /\ \A t, u \in Threads :
       (t # u /\ pc[t] \in {"session", "store"}) =>
         /\ local[t].handle \notin returned \cup sessions \cup DOMAIN results
         /\ pc[u] \in {"session", "store"} => local[t].handle # local[u].handle

\* However many threads fetch from one result, no batch is handed out twice.
EachBatchOnce ==
  [][\A t \in Threads :
       (pc[t] = "next" /\ pc'[t] = "encode") =>
         local'[t].batch \notin fetched[local'[t].scan]]_vars

\* null means the end: by then every batch was handed to some call.
EndMeansExhausted ==
  [][(reply'.op = "fetch" /\ reply'.outcome = "end") =>
       \E t \in Threads :
         /\ pc[t] = "next" /\ pc'[t] = "java"
         /\ fetched[local[t].scan] = 0 .. (scans[local[t].scan].batches - 1)]_vars

\* A result that was closed is never found again.
ClosedStaysClosed == closed \cap DOMAIN results = {}

\* A fetch may go on using its result while another thread closes it, and
\* once nobody can reach a result its memory is gone.
LivesWhileUsed ==
  DOMAIN scans = (Range(results) \cup {local[t].scan : t \in Threads}) \ {None}
=============================================================================
