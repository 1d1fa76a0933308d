SPECIFICATION FairSpec
CONSTANTS
  low = low
  mid = mid
  high = high
  idle = idle
  m1 = m1
  m2 = m2
  none = none
  NoOwner = none
  Thread <- MCThread
  Idle = idle
  PrioMax = 4
  Queue = {m1}
  InitTick <- MCInitTick
  BasePrio <- MCBasePrio
  Started = {idle, low, mid, high}
  HoldMax = 2
  Timeouts <- MCTimeouts
  Users = {low, mid, high}
  Calls = {"delete"}
INVARIANTS MutexInv OwnerAsUrgent PriorityRestored
PROPERTIES InversionBounded
