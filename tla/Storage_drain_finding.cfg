SPECIFICATION FairSpec
CONSTANTS
  k1 = k1
  k2 = k2
  w1 = w1
  w2 = w2
  NoWorker = NoWorker
  Key <- TwoKeys
  ScheduledKey = k1
  Worker <- TwoWorkers
  Ttl = {1, 2}
  Change = {"patch"}
  GRACE = 1
  WORD = 16
  WakeLag = 1
  StartTime = 0
  Horizon = 1
  MaxTime = 6
  MaxStrand = 1
  MaxReady = 1
CHECK_DEADLOCK FALSE
PROPERTY Drains
