CONSTANTS
  Types <- NumberAndString
  NameSizes <- JustTwo
  Lengths <- ZeroTwo
  Extras <- ZeroOne
  Times <- JustOne
  MaxCols = 2
  MaxRows = 2
  MaxBlocks = 2
  Garbage = Garbage
SPECIFICATION Spec
CHECK_DEADLOCK FALSE
INVARIANTS LayoutSound NumbersReadBack
