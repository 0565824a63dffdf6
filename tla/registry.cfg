SPECIFICATION FairSpec
CONSTANTS
  n1 = n1
  n2 = n2
  n3 = n3
  p1 = p1
  p2 = p2
  p3 = p3
  None = None
  NoFile = NoFile
  Unreadable = Unreadable
  Starter = Starter
  Names = {n1, n2, n3}
  Roots = {p1, p2, p3}
  Texts = {x1}
  Requests = {r1, r2}
  Ingests = {i1, i2}
  Offers <- OwnRoots
  Configured <- Listed
  Prepared = {p1, p2}
  Known <- Stored
  MaxRequests = 2
  MaxCrashes = 1
CHECK_DEADLOCK FALSE
INVARIANTS TypeOK   
PROPERTIES ImplementsVaultMap ComesBackUp
