SPECIFICATION Spec
CONSTANTS
  j1 = j1
  j2 = j2
  v1 = v1
  v2 = v2
  x1 = x1
  x2 = x2
  u1 = u1
  u2 = u2
  None = None
  Jobs = {j1, j2}
  Vaults = {v1}
  Texts = {x1}
  VaultOf <- OneVault
  TextOf <- SameText
  NotesPerJob = 2
  Edits = {}
  Schemas = {}
  SchemaVault <- SchemaOfV1
  RawArchive = TRUE
  AutoPush = FALSE
  MaxCrashes = 0
  MaxHandled = 0
  MaxEscaping = 1
  MaxForeign = 0
  StatusMayFail = FALSE
  RollbackMayFail = FALSE
  EditWhileBusy = FALSE
  MayRevert = FALSE
CHECK_DEADLOCK FALSE
INVARIANT NothingLeftBehind
