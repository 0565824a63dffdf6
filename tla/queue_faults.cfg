SPECIFICATION Spec
CONSTANTS
  j1 = j1
  j2 = j2
  j3 = j3
  v1 = v1
  v2 = v2
  Jobs = {j1, j2, j3}
  Vaults = {v1}
  Threads = {t1, t2}
  NoJob = NoJob
  NoThread = NoThread
  NoVault = NoVault
  VaultOf <- OneVault
  IdRank <- Ids
  MaxRetries = 1
  MaxCrashes = 1
  MaxStoreFaults = 1
  MaxDamage = 1
  MayShutdown = FALSE
CHECK_DEADLOCK FALSE
SYMMETRY ThreadSymmetry
INVARIANTS TypeOK OneWorkerPerVault AnswerIsDurable
PROPERTIES OutcomeNeverRevised
