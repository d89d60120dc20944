SPECIFICATION FairDirectorySpec
CONSTANTS
  w1 = w1
  w2 = w2
  Worker <- OneWorker
  Connection = {1, 2}
  Topic = {7}
  MaxRequests = 2
  Maps = 2
  MapOf <- Alternate
INVARIANTS
  Survives
  NoStrangerHears
PROPERTY ClosedLeaves
CHECK_DEADLOCK FALSE
