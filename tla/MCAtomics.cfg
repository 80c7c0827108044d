SPECIFICATION Spec
CONSTANTS
  kMaxThreads = 2
  Location = {l, m}
  Ops = {"store", "load", "exchange", "compareExchange", "wasmLoad", "wasmStore", "wasmAdd", "wasmCompareExchange"}
  ConversionWrites = FALSE
  MaxEpoch = 2
CHECK_DEADLOCK FALSE
INVARIANTS SettledIsPublished HandOffIsOrdered
