SPECIFICATION FairSpec
CONSTANTS
  w1 = w1
  w2 = w2
  Worker <- OneWorker
  CAPACITY = 5
  WINDOW = 4
  MayFail = TRUE
  MaxSent = 12
INVARIANTS
  AnswersInOrder
  InFlightIsInUse
PROPERTY EveryAnswerDelivered
CHECK_DEADLOCK FALSE
