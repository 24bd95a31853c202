SPECIFICATION Spec
CONSTANTS
  MaxNodes = 5
  MaxDepth = 3
  Nested = FALSE
  Buried = FALSE
INVARIANTS
  TypeOK
  VerifierExplained
PROPERTIES
  ImplementsStructured
CHECK_DEADLOCK FALSE
