SPECIFICATION Spec
CONSTANTS
  kMaxThreads = 2
  kShadowCellsPerByte = 1
  ByteLength = 1
  SyncAddr = {a}
  Ranges <- OneByte
  MaxEpoch = 2
  MaxEdges = 1
CHECK_DEADLOCK FALSE
INVARIANTS TypeOK NoFalseRace
PROPERTIES ClocksNeverGoBack
CONSTRAINTS NobodyRobbed OneChannel
VIEW SpecView
