CONSTANTS
  None = None
  Keys = {1, 2, 3}
  MaxLevel = 2
  MaxNode = 2
SPECIFICATION Spec
INVARIANT LevelsSorted
PROPERTIES ImplementsList SearchEnds
CHECK_DEADLOCK FALSE
