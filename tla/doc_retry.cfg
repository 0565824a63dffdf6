SPECIFICATION Spec
CONSTANTS
  j1 = j1
  j2 = j2
  j3 = j3
  v1 = v1
  v2 = v2
  Jobs = {j1, j2}
  Vaults = {v1}
  Threads = {t1, t2}
  NoJob = NoJob
  NoThread = NoThread
  NoVault = NoVault
  VaultOf <- PairVault
  IdRank <- PairIds
  MaxRetries = 2
  MaxCrashes = 0
  MaxStoreFaults = 0
  MaxDamage = 0
  MayShutdown = FALSE
CHECK_DEADLOCK FALSE
INVARIANT NoRestartFailureWithoutRestart
