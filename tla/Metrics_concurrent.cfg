SPECIFICATION MetricsSpec
CONSTANTS
  w1 = w1
  w2 = w2
  Worker <- TwoWorkers
  Amount = {2, 3}
  Change = {"patch", "increase", "decrease"}
  VALUE = 4
  MaxSupply = 8
  MaxConsumed = 8
  Type = {"update", "stat", "info", "event"}
  MaxCommands = 2
INVARIANTS
  TypeOK
  Conservation
  OverdraftNeedsRace
  WritesConserved
  MinutesAddUp
  CommandsAddUp
  TornNeedsCollection
  TotalsCovered
SYMMETRY Threads
CHECK_DEADLOCK FALSE
