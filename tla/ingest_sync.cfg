SPECIFICATION FairSpec
CONSTANTS
  j1 = j1
  j2 = j2
  v1 = v1
  v2 = v2
  x1 = x1
  x2 = x2
  u1 = u1
  u2 = u2
  None = None
  Jobs = {j1, j2}
  Vaults = {v1}
  Texts = {x1}
  VaultOf <- OneVault
  TextOf <- SameText
  NotesPerJob = 2
  Edits = {e1}
  Schemas = {}
  SchemaVault <- SchemaOfV1
  RawArchive = TRUE
  AutoPush = TRUE
  MaxCrashes = 1
  MaxHandled = 2
  MaxEscaping = 1
  MaxForeign = 2
  StatusMayFail = FALSE
  RollbackMayFail = TRUE
  EditWhileBusy = FALSE
  MayRevert = TRUE
CHECK_DEADLOCK FALSE
INVARIANTS TypeOK AllOrNothing ReportedCommitIsRetractable  VocabularyIsCurrent
PROPERTIES PublishedHistoryIsStable EveryIngestEnds
