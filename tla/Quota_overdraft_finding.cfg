SPECIFICATION Spec
CONSTANTS
  w1 = w1
  w2 = w2
  Worker <- TwoWorkers
  Amount = {0, 1, 3, 7}
  Change = {"decrease"}
  VALUE = 8
  MaxSupply = 18
  MaxConsumed = 18
INVARIANT NoOverdraft
CHECK_DEADLOCK FALSE
