SPECIFICATION RxFairSpec
CONSTANTS
  f1 = f1
  bad = bad
  torn = torn
  nothing = nothing
  Good = {f1}
  Bad = bad
  Torn = torn
  Nothing = nothing
  RxCount = 2
  RxSize = 1
  Faults = {"alloc", "close"}
VIEW View
INVARIANT AllReceived
