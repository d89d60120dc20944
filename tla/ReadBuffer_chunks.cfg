CONSTANTS
  max_length = 5
  Shape <- MCShape
  MayFail = TRUE
  MaxRequests = 4
SPECIFICATION FairSpec
INVARIANTS
  ReadTypeOK
  ViewsAreRequests
  SpinsOnlyOnUnservable
PROPERTY EveryRequestServed
CHECK_DEADLOCK FALSE
