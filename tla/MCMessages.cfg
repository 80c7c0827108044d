SPECIFICATION MessagesSpec
CONSTANTS
  kMaxThreads = 2
  kShadowCellsPerByte = 1
  ByteLength = 1
  SyncAddr = {}
  Ranges <- OneByte
  MaxEpoch = 2
  MaxEdges = 2
CHECK_DEADLOCK FALSE
INVARIANTS EdgeWaits OrderedByMessages
PROPERTIES HandledInOrder MessagesArrive
