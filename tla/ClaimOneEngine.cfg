SPECIFICATION Spec
CONSTANTS
  a = a  b = b  c = c  s = s  t = t
  Starter = {a, b, c}
  Stopper = {s}
  NoProc = NoProc
  MaxStarts = 3
  MaxDeaths = 0
INVARIANT
  OwnsAtMostOne
SYMMETRY Calls
CHECK_DEADLOCK FALSE
