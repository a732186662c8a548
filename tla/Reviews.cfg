SPECIFICATION Spec

CONSTANTS
  MaxOps = 3
  MaxTransportAttempts = 2
  Needs <- Independent
  Creates = {}
  CloudAreas = {c1}
  SessionAreas = {s1}
  NoArea = NoArea
  AreaOf <- TwoMaps
  MaxGen = 1
  ViewerOf <- OneAccount
  RowsCarryRevisions = TRUE
  MaxRebuilds = 1
  Budget <- ReviewEvents

INVARIANTS
  PhaseOwned
  MarksMatchQueue
  CountsBalance

PROPERTIES
  LeftUnsentStaysUnsent

CHECK_DEADLOCK FALSE
