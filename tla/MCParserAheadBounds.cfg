SPECIFICATION Spec
CONSTANTS
  Call <- Dispatch
  MaxCalls = 30
  Text <- MCText
  Texts <- SessionTexts
  Sessions <- SessionTexts
  Programs = {}
  Modes = {"module", "repl"}
  Garbage <- MCGarbage
  MaxInputs = 2
  MaxErrors = 3
INVARIANTS
  LookAheadInBounds
CHECK_DEADLOCK FALSE
