SPECIFICATION FairSpec
CONSTANTS
  Call <- Dispatch
  MaxCalls = 30
  Text <- MCText
  Texts <- MCTexts
  Sessions <- SessionTexts
  Programs <- MCPrograms
  Modes = {"module", "repl"}
  Garbage <- MCGarbage
  MaxInputs = 3
  MaxErrors = 3
INVARIANTS
  TypeOK
  LookAheadOrderly
  AcceptedSilently
  StatementEndsAtBoundary
  Bracketed
  TreeSpellsText
  OperatorsGroup
  FailedLookAheadReported
  RefusalExplained
PROPERTIES
  HistoryIndependent
  ModuleReachesEnd
CHECK_DEADLOCK FALSE
