SPECIFICATION Spec
CONSTANTS
  s1 = s1
  s2 = s2
  t1 = t1
  t2 = t2
  Sessions = {s1, s2}
  MaxId <- Three
  MaxHops = 2
  MaxPending <- One
  Timeouts = {2}
  Horizon = 3
  Reach <- Peers
  Callers = {s1}
  Budget <- TwoCalls
  Posts = {p, q, r}
  Cap = 1
  MaxPostReloads = 2
  Ids = {1, 2}
  MaxRuns = 2
  Starters = {t1, t2}
  Starts <- OneIdEach
  Jobs <- TwoStarts
  MaxAttempts = 4
  Stimuli <- TwoScripts
  MaxStimuli = 2
  SendsDuringReload = FALSE
INVARIANTS
  CallsTypeOK
  PromisesAccounted
  AnswerInSight
  BrokerConsistent
  ExpiriesBounded
  PostsTypeOK
  PostsAccounted
  CallsOfThisEngine
  ThreadsTypeOK
  AbsentMeansEnded
  ListedWhileLive
  RolledBack
  PeersDiscovered
  DrainCovers
  ConnTypeOK
  NoGhostConnection
  DialTracked
  LoginOwn
  RedialPaced
  IntentCurrent
PROPERTIES
  EveryCallEnds
  JoinsReturn
  RowsSettle
CHECK_DEADLOCK FALSE
