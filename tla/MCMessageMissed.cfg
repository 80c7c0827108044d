SPECIFICATION MessageSpec
CONSTANTS
  kMaxThreads = 2
  kShadowCellsPerByte = 1
  ByteLength = 1
  SyncAddr = {a}
  Ranges <- OneByte
  MaxEpoch = 2
  MaxEdges = 1
CHECK_DEADLOCK FALSE
INVARIANTS NoMissedRace
