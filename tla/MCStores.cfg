CONSTANTS
  t1 = t1
  t2 = t2
  t3 = t3
  t4 = t4
  p1 = p1
  p2 = p2
  x = x
  y = y
  Transactions = {t1, t2, t3, t4}
  Projects = {p1, p2}
  ProjectOf <- MCProjectOf
  Aggregates = {x, y}
  Audit = Audit
  AppendsOf <- MCAppendsOf
  Ids = {1, 2, 3, 4}
  NoEntry = NoEntry
  LastInstant = 2
  Rows = {1, 2, 3, 4}
  Traces = {3}
  Limit = 2
  Millisecond = 2
  LastTick = 3
  m1 = m1
  m2 = m2
  m3 = m3
  Migrators = {m1, m2, m3}
  PackageOf <- MCPackageOf
  Keys = {k1, k2, k3}
  Requests = {q1, q2}
  Manage = "api_key:manage"
  Permissions = {"api_key:manage", "run:write"}
  Roles = {{"api_key:manage", "run:write"}, {"run:write"}}
  NoKey = NoKey
  a1 = a1
  a2 = a2
  c1 = c1
  c2 = c2
  Artifacts = {a1, a2}
  Chunks = {c1, c2}
  ChunksOf <- MCChunksOf
  Uploaders = {u1}
  Collectors = {g1, g2}
  NoArtifact = NoArtifact
  Retention = 1
  ScanTime = 1
  MaxTime = 2
SPECIFICATION Spec
INVARIANTS
  YoungArtifactsSurvive
  SequencesGapFree
  ChainForksOnlyOutOfOrder
  SkippedOnlyWithinMillisecond
  EachAppliedOnce
  ReadyMeansComplete
PROPERTIES
  EveryTransactionEnds
  ManagerStepsOnlyAside
CHECK_DEADLOCK FALSE
