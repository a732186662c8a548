SPECIFICATION Spec

CONSTANTS
  MaxOps = 2
  MaxTransportAttempts = 2
  Needs <- Independent
  Creates = {}
  CloudAreas = {c1}
  SessionAreas = {}
  NoArea = NoArea
  AreaOf <- OneMap
  MaxGen = 2
  ViewerOf <- ManyAccounts
  RowsCarryRevisions = TRUE
  MaxRebuilds = 1
  Budget <- CrashEvents

INVARIANTS
  JournalMatchesQueue
  OwnCredential

PROPERTIES
  LedgerSpec

CHECK_DEADLOCK FALSE
