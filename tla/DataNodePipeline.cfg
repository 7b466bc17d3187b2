CONSTANTS
  WorkerCount = 2
  Regions <- TwoRegions
  Sizes <- JustOne
  Times <- JustOne
  MaxTime = 3
  Base = 0
  Threshold = 1
  PipeBound = 1
  RingSize = 8
  Recreate = TRUE
  MaxRequests = 4
  MaxFailures = 0
  None = None
  Kinds <- Setup
  MaxBatch = 2
SPECIFICATION FairNodeSpec
CHECK_DEADLOCK FALSE
INVARIANTS NodeTypeOK HandledInOrder OneOwner KnownRegions
PROPERTY FeedsWorkers EveryRequestHandled
