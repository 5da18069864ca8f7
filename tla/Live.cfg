SPECIFICATION FairSpec
CONSTANTS
  r1 = r1  r2 = r2  r3 = r3  s1 = s1  c1 = c1  c2 = c2  h1 = h1
  Run = {r1, r2, r3}
  Sweep = {s1}
  Host = {h1}
  Config = {c1, c2}
  NoSweep = NoSweep
  NoConfig = NoConfig
  NoRun = NoRun
  sweepOf <- SweepThenRun
  hostOf <- OneHost
  configOf <- Alternating
  rank <- InOrder
  Cancellable = {s1}
  MaxFaults = 1
  MaxAttempts = 2
  MaxCrashes = 0
PROPERTIES
  EveryRunEnds
  EverySweepCloses
  CancelStopsRunningClient
CHECK_DEADLOCK FALSE
