\* insert statement by statement, three keys.
SPECIFICATION FairStepsSpec
CONSTANTS
  k1 = k1
  k2 = k2
  k3 = k3
  f1 = f1
  None = None
  Keys = {k1, k2, k3}
  Files = {f1}
  Types = {"MemoryLiquid"}
  Sizes = {1, 2}
  MaxEntryBytes = 2
  Limits = {0, 2}
  VictimBatch = 2
  MaxAttempts = 1
  Word = 8
INVARIANTS
  VictimsAreCached
  RoomIsEnough
PROPERTIES
  ImplementsStore
  InsertReturns
