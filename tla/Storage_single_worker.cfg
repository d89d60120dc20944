SPECIFICATION Spec
CONSTANTS
  k1 = k1
  k2 = k2
  w1 = w1
  w2 = w2
  NoWorker = NoWorker
  Key <- TwoKeys
  ScheduledKey = k1
  Worker <- OneWorker
  Ttl = {1, 3}
  Change = {"patch", "increase", "decrease"}
  GRACE = 1
  WORD = 16
  WakeLag = 0
  StartTime = 2
  Horizon = 3
  MaxTime = 6
  MaxStrand = 1
  MaxReady = 1
CHECK_DEADLOCK FALSE
INVARIANTS
  TypeOK
  AlwaysAwaited
PROPERTIES
  ExpireOnlyWhenDue
  CounterKeepsGrace
