CONSTANT wasm_tiering_budget = 8
SPECIFICATION Spec
INVARIANT StaysInLiftoff
CHECK_DEADLOCK FALSE
