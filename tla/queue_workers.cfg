SPECIFICATION Spec
CONSTANTS
  j1 = j1
  j2 = j2
  j3 = j3
  v1 = v1
  v2 = v2
  Jobs = {j1, j2, j3}
  Vaults = {v1, v2}
  Threads = {t1, t2, t3}
  NoJob = NoJob
  NoThread = NoThread
  NoVault = NoVault
  VaultOf <- TwoVaults
  IdRank <- Ids
  MaxRetries = 0
  MaxCrashes = 0
  MaxStoreFaults = 0
  MaxDamage = 0
  MayShutdown = TRUE
CHECK_DEADLOCK FALSE
SYMMETRY ThreadSymmetry
INVARIANTS NoStrandedWork FirstInFirstOut ShutdownIsOrderly
PROPERTIES PositionNeverGrows
