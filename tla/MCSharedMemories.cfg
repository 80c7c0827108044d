SPECIFICATION Spec
CONSTANTS
  Isolate = {i1, i2}
  Address = {a}
  MaxStores = 2
  MaxLength = 2
CHECK_DEADLOCK FALSE
INVARIANTS TypeOK RegisterSucceeds ShadowOfItsStore NobodyGoneIsListed
PROPERTIES MutexIsReleased GrownIsSeen
