SPECIFICATION Spec
CONSTANTS
  low = low
  mid = mid
  high = high
  idle = idle
  m1 = m1
  m2 = m2
  none = none
  NoOwner = none
  Thread <- MCTwo
  Idle = idle
  PrioMax = 4
  Queue = {m1, m2}
  InitTick <- MCInitTick
  BasePrio <- MCTwoPrio
  Started = {idle, low, high}
  HoldMax = 1
  Timeouts <- MCForever
  Users = {low, high}
  Calls = {"nested"}
INVARIANTS PriorityRestored
