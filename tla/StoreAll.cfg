\* Every operation in every order: three keys of one or two bytes.
SPECIFICATION Spec
CONSTANTS
  k1 = k1
  k2 = k2
  k3 = k3
  f1 = f1
  Keys = {k1, k2, k3}
  Files = {f1}
  Types = {"MemoryArrow", "MemoryLiquid"}
  Sizes = {1, 2}
  MaxEntryBytes = 2
  Limits = {0, 2}
  VictimBatch = 2
  MaxAttempts = 1
  Word = 8
SYMMETRY Symmetry
INVARIANTS
  TypeOK
  LruTracksCachedKeys
PROPERTIES
  EvictsOldestFirst
  RefusalDrainsLru
