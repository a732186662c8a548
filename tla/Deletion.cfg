SPECIFICATION Spec

CONSTANTS
  MaxOps = 2
  MaxTransportAttempts = 2
  Needs <- Independent
  Creates = {}
  CloudAreas = {c1}
  SessionAreas = {}
  NoArea = NoArea
  AreaOf <- OneMap
  MaxGen = 1
  ViewerOf <- OneAccount
  RowsCarryRevisions = TRUE
  MaxRebuilds = 1
  Budget <- DeletionEvents

INVARIANTS
  NothingLost
  DeleteAlone
  DeletedStaysDeleted

CHECK_DEADLOCK FALSE
