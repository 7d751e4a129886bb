\* An insert that fits the limit is refused: four keys, victims in batches of two.
SPECIFICATION CarefulSpec
CONSTANTS
  k1 = k1
  k2 = k2
  k3 = k3
  k4 = k4
  f1 = f1
  Keys = {k1, k2, k3, k4}
  Files = {f1}
  Types = {"MemoryLiquid"}
  Sizes = {1, 2}
  MaxEntryBytes = 2
  Limits = {0, 2, 3}
  VictimBatch = 2
  MaxAttempts = 2
  Word = 16
SYMMETRY Symmetry
PROPERTIES
  RefusesOnlyOversize
