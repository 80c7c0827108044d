SPECIFICATION Spec
CONSTANTS
  Thread = {t1, t2}
  Buffer <- TwoBuffers
  Source = {"wasm", "atomics", "range", "bulk"}
  Reentrant = TRUE
  ExclusiveOr <- BitwiseXor
INVARIANTS SiteHasOneReport GuardsMatchFrames
