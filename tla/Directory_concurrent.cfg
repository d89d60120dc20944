SPECIFICATION DirectorySpec
CONSTANTS
  w1 = w1
  w2 = w2
  Worker <- TwoWorkers
  Connection = {1, 2}
  Topic = {7}
  MaxRequests = 3
  Maps = 2
  MapOf <- Alternate
SYMMETRY Symmetry
INVARIANTS
  TypeOK
  SubscriberRegistered
  EveryoneHears
  InfoCovers
CHECK_DEADLOCK FALSE
