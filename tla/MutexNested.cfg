SPECIFICATION FairSpec
CONSTANTS
  low = low
  mid = mid
  high = high
  idle = idle
  m1 = m1
  m2 = m2
  none = none
  NoOwner = none
  Thread <- MCThread
  Idle = idle
  PrioMax = 4
  Queue = {m1, m2}
  InitTick <- MCInitTick
  BasePrio <- MCBasePrio
  Started = {idle, low, mid, high}
  HoldMax = 1
  Timeouts <- MCForever
  Users = {low, high}
  Calls = {"nested"}
PROPERTIES InversionBounded
