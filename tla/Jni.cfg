\* Three threads, three handles, results of up to two batches.
SPECIFICATION Spec
CONSTANTS
  t1 = t1
  t2 = t2
  t3 = t3
  None = None
  Threads = {t1, t2, t3}
  MaxBatches = 2
  MaxHandle = 3
SYMMETRY Symmetry
INVARIANTS
  HandlesAreUnique
  ClosedStaysClosed
  LivesWhileUsed
PROPERTIES
  EachBatchOnce
  EndMeansExhausted
