SPECIFICATION Spec
CONSTANTS
  Text <- MCText
  Inputs <- MCInputs
  MaxAhead = 3
  Disciplined = TRUE
INVARIANTS
  TypeOK
  PendingInOrder
  BufferDrains
  EndNeverPending
  PositionSettles
PROPERTIES
  SuccessTransparent
  FailureLeavesNothing
  ImplementsTokenStream
CHECK_DEADLOCK FALSE
