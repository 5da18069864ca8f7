SPECIFICATION ApiSpec
CONSTANTS
  c1 = c1  c2 = c2  c3 = c3  c4 = c4  c5 = c5  c6 = c6
  Caller = {c1, c2, c3, c4, c5, c6}
  Scenario <- Scenarios
  NoParent = NoParent
  MaxBroken = 1
  ToolCaller = {c1, c6}
  u1 = u1  u2 = u2  p1 = p1  p2 = p2  q1 = q1
  engine = engine  gpu0 = gpu0  gpu1 = gpu1
  StoredRun = {u1, u2}
  Pass = {p1, p2}
  Reader = {q1}
  Series = {engine, gpu0, gpu1}
  EngineSeries = engine
  Recording <- Recordings
  Budget = {2, 4}
  Base <- Bases
  Sizes <- AxisSizes
  MaxWorkloads = 2
  MaxReplicates = 2
  MaxSweepRuns = 12
  GpuCount = 2
  BenchSeconds <- Bench
  LoadSeconds = 10
  History <- Histories
  Limit = {2, 9}
  MaxRunLimit = 4
INVARIANTS
  LineageHasNoCycle
  RowsAgree
  SweepAllOrNothing
  AuditTellsTheTruth
  MarkMeansGone
  ReclaimedOnce
  EmptyIsExplained
  PlanCoversMatrix
  StartsAsPlanned
  EstimateExact
  VariantsRoundTrip
  AccountedOnce
  FrontierCovers
  CurvesLikeWithLike
  DifferencesAreNamed
CHECK_DEADLOCK FALSE
