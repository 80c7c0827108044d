SPECIFICATION Spec
CONSTANTS
  Main = main
  Outer = w1
  Worker = {w1, w2}
  Parent <- MCParent
  MaxScripts = 1
  MayFreeze = {w1, w2}
  MayClose = {w1, w2}
CHECK_DEADLOCK FALSE
INVARIANTS TypeOK PerformedOnce NothingAfterShutdown SlotWhileScript
PROPERTIES TerminationEnds
