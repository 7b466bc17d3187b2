CONSTANTS
  None = None
  SliceCount = 2
  V4BloomLen = 8
  V6BloomLen = 8
  PortBits = 2
  V6Bytes = 5
  HashNum = 2
  Hash <- SomeHash
  Datagrams <- SomeDatagrams
  Queries <- SomeQueries
  Capacity = 2
  Narrow = 4
  MaxDatagrams = 2
  MaxReceived = 4
SPECIFICATION Spec
INVARIANTS FilterCoversLists AnswersHold Accounted
PROPERTY StoppedDrains
CHECK_DEADLOCK FALSE
