SPECIFICATION FairSpec
CONSTANTS
  t1 = t1
  t2 = t2
  t3 = t3
  idle = idle
  Thread <- MCThread
  Idle = idle
  PrioMax = 3
  Queue = {}
  InitTick <- MCOneTick
  BasePrio <- MCEqualPrio
  Started = {idle, t1, t2, t3}
  Calls = {}
  MaxNest = 0
  MaxSleep = 0
PROPERTIES SharesProcessor
