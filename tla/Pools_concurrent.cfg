SPECIFICATION PoolSpec
CONSTANTS
  w1 = w1
  w2 = w2
  Worker <- TwoWorkers
  CAPACITY = 2
  WINDOW = 3
  MayFail = TRUE
  MaxSent = 4
  POOL = 1
INVARIANTS
  TypeOK
  NeverStalled
  QueuedIsReserved
  WrittenIsReserved
  PoolsAreDisjoint
CHECK_DEADLOCK FALSE
