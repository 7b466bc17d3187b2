CONSTANTS
  WorkerCount = 1
  Regions <- OneRegion
  Sizes <- OneTwo
  Times <- OneTwo
  MaxTime = 3
  Base = 2
  Threshold = 3
  PipeBound = 1
  RingSize = 2
  Recreate = FALSE
  MaxRequests = 7
  MaxFailures = 0
  None = None
SPECIFICATION FairSpec
CHECK_DEADLOCK FALSE
INVARIANTS TypeOK IndexReachesRows BlocksCoverRows WithinThreshold
PROPERTIES ImplementsStore FrozenReachesDisk
