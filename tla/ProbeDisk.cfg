CONSTANTS
  BlockNum = 2
  DiskBlockNum = 10
  CellsPerBlock = 2
  RSSNum = 2
  CheckNum = 1
  Delay = 1
  Reach = 0
  MaxWrites = 2
  MaxStray = 1
  Failures = TRUE
  None = None
SPECIFICATION FairSpec
INVARIANTS SealedBlocks CompleteBlocks TakenOnce NothingLeft
PROPERTIES OnlyDiskStalls
CHECK_DEADLOCK FALSE
