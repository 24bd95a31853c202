SPECIFICATION Spec
CONSTANTS
  Text <- MCText
  Inputs <- MCInputsSmall
  MaxAhead = 3
  Disciplined = TRUE
PROPERTIES
  LookAheadTransparent
CHECK_DEADLOCK FALSE
