CONSTANTS
  WorkerCount = 2
  Capacity = 2
  Lines = 1
  MaxBatch = 2
  QuitEarly = TRUE
SPECIFICATION FairSpec
CHECK_DEADLOCK FALSE
INVARIANTS TypeOK CleanedWhenQuiet NothingVanishes
PROPERTY CalmQuitExits
