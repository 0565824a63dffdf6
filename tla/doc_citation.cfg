SPECIFICATION Spec
CONSTANTS
  Root <- VaultDir
  Links <- ThreeLinks
  Stem <- FileNames
  SchemaName = "schema.md"
  Rejected <- Unsafe
  Files <- ThreeNotes
  Initial <- OneNoteAtFirst
  Folders <- ThreeFolders
  Asked <- SevenPaths
  Texts <- SevenTexts
  Vault = "v"
  Here = "here"
  Bearer = TRUE
  MaxChanges = 3
  MaxToolCalls = 2
  ClientRetries = 1
  MaxCallsPerTurn = 2
CHECK_DEADLOCK FALSE
INVARIANT CitationLeadsToItsNote
