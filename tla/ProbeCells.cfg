CONSTANTS
  w1 = w1
  w2 = w2
  f1 = f1
  f2 = f2
  None = None
  Writers <- TwoWriters
  Flows <- TwoFlows
  Lens = {1, 2}
  HeadLen = 3
  PtrLen = 2
  LinkLen = 1
  CellSize = 9
  CellNum = 3
  Threshold = 30
  MaxPackets = 5
SPECIFICATION Spec
INVARIANTS PacketsReadable FlowChained
CHECK_DEADLOCK FALSE
