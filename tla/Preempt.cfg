SPECIFICATION FairSpec
CONSTANTS
  t1 = t1
  t2 = t2
  t3 = t3
  idle = idle
  Thread <- MCThread
  Idle = idle
  PrioMax = 3
  Queue = {}
  InitTick <- MCInitTick
  BasePrio <- MCBasePrio
  Started = {idle, t1, t2, t3}
  Calls = {"sleep", "yield", "resume_open", "isr"}
  MaxNest = 0
  MaxSleep = 1
INVARIANTS HighestRuns ReadyTable
PROPERTIES SharesProcessor
