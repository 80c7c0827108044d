SPECIFICATION Spec
CONSTANTS
  kMaxThreads = 2
  AsyncNode = {10}
  Location = {a}
  MaxEpoch = 2
  MaxGen = 1
  MaxInterrupts = 1
CHECK_DEADLOCK FALSE
INVARIANTS TypeOK OwnedByOneList NoDanglingNode CountedIsWoken WokenIsOrdered
PROPERTIES DueWaitEnds WokenInOrder
