SPECIFICATION Spec
CONSTANTS
  r1 = r1  r2 = r2  r3 = r3  s1 = s1  s2 = s2  c1 = c1  c2 = c2  h1 = h1  h2 = h2
  Run = {r1, r2, r3}
  Sweep = {s1, s2}
  Host = {h1, h2}
  Config = {c1}
  NoSweep = NoSweep
  NoConfig = NoConfig
  NoRun = NoRun
  sweepOf <- TwoAndOne
  hostOf <- OwnHosts
  configOf <- Same
  rank <- Between
  Cancellable = {s1}
  MaxFaults = 1
  MaxAttempts = 2
  MaxCrashes = 0
INVARIANT
  EngineHeldForAReason
CHECK_DEADLOCK FALSE
