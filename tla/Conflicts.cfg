SPECIFICATION FairSpec

CONSTANTS
  MaxOps = 3
  MaxTransportAttempts = 2
  Needs <- Chained
  Creates = {1}
  CloudAreas = {c1}
  SessionAreas = {}
  NoArea = NoArea
  AreaOf <- OneMap
  MaxGen = 1
  ViewerOf <- OneAccount
  RowsCarryRevisions = TRUE
  MaxRebuilds = 1
  Budget <- ConflictEvents

INVARIANTS
  TypeOK
  AppliedInOrder
  NoSilentOverwrite

PROPERTIES
  DrainingDrains

CHECK_DEADLOCK FALSE
