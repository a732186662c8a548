SPECIFICATION Spec

CONSTANTS
  MaxOps = 2
  MaxTransportAttempts = 2
  Needs <- Independent
  Creates = {}
  CloudAreas = {c1}
  SessionAreas = {}
  NoArea = NoArea
  AreaOf <- OneMap
  MaxGen = 2
  ViewerOf <- OneAccount
  RowsCarryRevisions = TRUE
  MaxRebuilds = 1
  Budget <- CancelEvents

PROPERTIES
  LeftUnsentStaysUnsent

CHECK_DEADLOCK FALSE
