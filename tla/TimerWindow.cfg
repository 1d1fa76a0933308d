SPECIFICATION Spec
CONSTANTS
  h = h
  s1 = s1
  s2 = s2
  sleep = sleep
  none = none
  Timer = {h, s1}
  Soft = {s1}
  Sleep = sleep
  NoTimer = none
  Half = 3
  Times = {1, 2}
  MaxHeld = 1
  Calls = {"detach", "control", "wait"}
VIEW View
INVARIANT NoSoftTimer
