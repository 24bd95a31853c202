SPECIFICATION Spec
CONSTANTS
  Call <- Dispatch
  MaxCalls = 30
  Text <- MCText
  Texts <- MCTexts
  Sessions <- SessionTexts
  Programs = {}
  Modes = {"module"}
  Garbage <- MCGarbage
  MaxInputs = 1
  MaxErrors = 3
INVARIANTS
  RefusedHasTwoAssignments
CHECK_DEADLOCK FALSE
