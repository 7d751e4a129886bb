\* A split read of a file that was loaded with a failed read, or evicted from.
SPECIFICATION Spec
CONSTANTS
  f1 = f1
  l1 = l1
  l2 = l2
  Loaders = {l1, l2}
  Calls <- OneFile
  Contents <- LongOrShort
  Columns = 2
  Plain = {}
  Inserted <- SecondBatch
  MaxLoads = 2
  Cuts = {1, 3, 4}
  Projections <- TwoColumns
  Word = 8
SYMMETRY Symmetry
INVARIANTS
  SplitMissesNothing
