SPECIFICATION WorkSpec
CONSTANTS
  w1 = w1
  w2 = w2
  none = none
  c1 = c1
  c2 = c2
  Work = {w1, w2}
  NoWork = none
  Caller = {c1, c2}
  MaxStarts = 2
INVARIANT BlocksUntilDone
