SPECIFICATION Spec
CONSTANTS
  empty = empty
  a = a
  b = b
  Key <- MCKey
  Empty = empty
  Item <- MCItem
  Garbled = {0, 4}
  MaxCommands = 3
  MaxStarts = 3
INVARIANTS
  QuietDumpRestores
  
  
CHECK_DEADLOCK FALSE
