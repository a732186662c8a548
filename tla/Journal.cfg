SPECIFICATION Spec

CONSTANTS
  MaxOps = 3
  MaxBatches = 2
  BatchOf <- Spanning
  AreaOf <- Maps
  ScopeOf <- Directories
  Local = Local
  Viewers = {v1}
  NoViewer = NoViewer
  MaxCrashes = 2
  ReadOutcomes = {TRUE}

INVARIANTS
  ReplaysExactly
  QueueMatchesJournal
  ReplayOrder

CHECK_DEADLOCK FALSE
