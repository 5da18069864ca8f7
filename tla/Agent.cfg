SPECIFICATION AgentFairSpec
CONSTANTS
  a = a  b = b  c = c  s = s  t = t
  Starter = {a, b, c}
  Stopper = {s}
  NoProc = NoProc
  MaxStarts = 2
  MaxDeaths = 1
  r1 = r1  r2 = r2  c1 = c1
  Request = {r1, r2}
  Canceller = {c1}
  NoClient = NoClient
  MaxLives = 2
  Device <- Devices
  Cap = 3
  Interval = 2
  Duration = {0, 5}
  Muted <- MutedSources
  MaxTicks = 6
INVARIANTS
  PartsInvariant
  OwnsAtMostOne
  EngineNeverLost
  StatusTellsHeld
  ReadyCanBeStopped
  CancelledIsNotMeasured
  AnswerLeavesNothing
  ThinnedByTick
PROPERTIES
  EveryCallAnswered
  EveryBenchAnswers
  NoBurst
  HostEngineImplemented
CHECK_DEADLOCK FALSE
