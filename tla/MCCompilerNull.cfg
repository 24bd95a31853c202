SPECIFICATION CSpec
CONSTANTS
  Call <- Dispatch
  Gen <- GenDispatch
  Kinds <- KindsOf
  MaxCalls = 30
  Text <- MCText
  Texts <- SessionTexts
  Sessions <- SessionTexts
  Programs = {}
  Modes = {"module"}
  Garbage <- MCGarbage
  MaxInputs = 2
  MaxErrors = 3
  Floats <- MCFloats
  StaleBits = {"Dereference", "Cast", "Prototype"}
INVARIANTS
  OnlyNullIsNull
CHECK_DEADLOCK FALSE
