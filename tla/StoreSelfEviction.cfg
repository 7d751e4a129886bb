\* An update that evicts the key it updates: three keys.
SPECIFICATION ClientSpec
CONSTANTS
  k1 = k1
  k2 = k2
  k3 = k3
  f1 = f1
  Keys = {k1, k2, k3}
  Files = {f1}
  Types = {"MemoryLiquid"}
  Sizes = {1, 2, 3}
  MaxEntryBytes = 3
  Limits = {0, 3}
  VictimBatch = 2
  MaxAttempts = 2
  Word = 16
SYMMETRY Symmetry
PROPERTIES
  GrowsWithinLimit
