SPECIFICATION Spec
CONSTANTS
  MaxNodes = 5
  MaxDepth = 3
  Nested = FALSE
  Buried = TRUE
INVARIANTS
  ReturnsReturn
CHECK_DEADLOCK FALSE
