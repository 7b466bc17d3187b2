CONSTANTS
  w1 = w1
  NULL = NULL
  Rows = 2
  MaxPuts = 34
  Producers <- OneProducer
SPECIFICATION FairSpec
INVARIANTS TypeOK DeliveredInOrder
PROPERTIES WriteNotCovered ImplementsQueue EveryPutReceived
