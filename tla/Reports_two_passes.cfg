SPECIFICATION Spec
CONSTANTS
  Item = {1, 2, 3, 4}
  Map <- SmallMap
  Name <- SmallName
  Fixed <- SmallFixed
  MaxFragment = 7
  MaxWalk = 4
  MaxChanges = 2
INVARIANTS
  CutInOrder
  OffsetMeetsSize
CHECK_DEADLOCK FALSE
