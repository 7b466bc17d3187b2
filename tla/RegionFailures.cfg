CONSTANTS
  WorkerCount = 1
  Regions <- TwoRegions
  Sizes <- JustTwo
  Times <- JustOne
  MaxTime = 3
  Base = 1
  Threshold = 3
  PipeBound = 1
  RingSize = 2
  Recreate = TRUE
  MaxRequests = 7
  MaxFailures = 1
  None = None
SPECIFICATION Spec
CHECK_DEADLOCK FALSE
INVARIANTS DiskInOrder
