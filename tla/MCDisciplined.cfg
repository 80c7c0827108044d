SPECIFICATION DisciplinedSpec
INVARIANTS NoMissedRace EpochsUnseen
PROPERTIES ClocksAreTheOrder
CONSTANTS
  kMaxThreads = 2
  kShadowCellsPerByte = 1
  ByteLength = 2
  SyncAddr = {a}
  Ranges <- PastTheEnd
  MaxEpoch = 2
  MaxEdges = 0
CHECK_DEADLOCK FALSE
