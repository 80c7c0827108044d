SPECIFICATION Spec
CONSTANTS
  Thread = {t1, t2}
  PageSize = 2
  MaxPages = 4
  GuardPages = 5
CHECK_DEADLOCK FALSE
INVARIANTS TypeOK LengthIsCommitted TailIsZero NothingLeaked
PROPERTIES LengthIsLinear
