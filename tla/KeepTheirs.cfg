SPECIFICATION Spec

CONSTANTS
  MaxOps = 2
  MaxTransportAttempts = 2
  Needs <- Independent
  Creates = {}
  CloudAreas = {c1}
  SessionAreas = {}
  NoArea = NoArea
  AreaOf <- OneMap
  MaxGen = 1
  ViewerOf <- OneAccount
  RowsCarryRevisions = TRUE
  MaxRebuilds = 1
  Budget <- KeepTheirsEvents

INVARIANTS
  NoSilentOverwrite

CHECK_DEADLOCK FALSE
