SPECIFICATION CSpec
CONSTANTS
  Call <- Dispatch
  Gen <- GenDispatch
  Kinds <- KindsOf
  MaxCalls = 30
  Text <- MCText
  Texts <- MCTexts
  Sessions <- SessionTexts
  Programs = {}
  Modes = {"module", "repl"}
  Garbage <- MCGarbage
  MaxInputs = 3
  MaxErrors = 3
  Floats <- MCFloats
  StaleBits = {"Dereference", "Cast", "Prototype"}
INVARIANTS
  GenTypeOK
  TypingDecides
  OwnValues
  SignaturesAgree
  JitServesDefinitions
PROPERTIES
  DefinedStays
CHECK_DEADLOCK FALSE
