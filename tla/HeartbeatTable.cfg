CONSTANTS
  Nodes = {n1, n2}
  Threshold = 3
  CheckPeriod = 1
  Interval = 1
  SendTime = 1
  ReadTime = 1
  MaxTime = 7
SPECIFICATION HeartbeatSpec
INVARIANTS ShownInTime HealthyIsAlive
CHECK_DEADLOCK FALSE
