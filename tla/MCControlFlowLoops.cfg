SPECIFICATION Spec
CONSTANTS
  MaxNodes = 5
  MaxDepth = 3
  Nested = TRUE
  Buried = FALSE
INVARIANTS
  LoopsRepeat
CHECK_DEADLOCK FALSE
