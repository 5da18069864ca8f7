SPECIFICATION Spec
CONSTANTS
  a = a  b = b  c = c  s = s  t = t
  Starter = {a, b}
  Stopper = {s}
  NoProc = NoProc
  MaxStarts = 2
  MaxDeaths = 1
INVARIANT
  NoOrphanSurvives
SYMMETRY Calls
CHECK_DEADLOCK FALSE
