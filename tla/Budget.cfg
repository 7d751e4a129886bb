\* Three threads that hold up to two bytes each, limits that bind and not.
SPECIFICATION FairSpec
CONSTANTS
  t1 = t1
  t2 = t2
  t3 = t3
  Threads = {t1, t2, t3}
  MaxBytes = {0, 3}
  MaxHeld = 2
  Word = 16
INVARIANTS
  TypeOK
  NoUpdateLost
PROPERTIES
  NeverOverReserves
  RefusesOnlyWhenFull
  LockFree
