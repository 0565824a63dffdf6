SPECIFICATION FairSpec
CONSTANTS
  Paths <- ThreePaths
  Existing <- OldNote
  Declared <- OneFolder
  Bodies <- SixBodies
  MaxToolCalls = 4
  ClientRetries = 1
  MaxCallsPerTurn = 2
  Attempts = 2
  TagAttempts = 2
  MaxNotes = 2
CHECK_DEADLOCK FALSE
INVARIANTS ReturnedBatchIsSound ToolCallsBounded NothingPartialIsUsed RepairIsNarrow
PROPERTIES EveryAnalysisEnds
