CONSTANTS
  Width = 4
  Mantissa = 3
  Lessons <- AllLessons
  Handler <- Handle
  Types <- ModuleTypes
  Functions <- ModuleFunctions
SPECIFICATION Spec
INVARIANTS UseCountsMatch CompiledIsSpecified TracedIsAccessed
CHECK_DEADLOCK FALSE
