CONSTANTS
  WorkerCount = 2
  Regions <- TwoRegions
  Sizes <- JustTwo
  Times <- JustOne
  MaxTime = 3
  Base = 1
  Threshold = 3
  PipeBound = 1
  RingSize = 4
  Recreate = FALSE
  MaxRequests = 8
  MaxFailures = 0
  None = None
SPECIFICATION Spec
CHECK_DEADLOCK FALSE
INVARIANTS NothingLost
