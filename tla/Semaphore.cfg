SPECIFICATION FairSpec
CONSTANTS
  t1 = t1
  t2 = t2
  t3 = t3
  idle = idle
  sem = sem
  Thread <- MCThread
  Idle = idle
  PrioMax = 3
  Queue = {sem}
  Sem = sem
  InitTick <- MCInitTick
  BasePrio <- MCBasePrio
  Started = {idle, t1, t2, t3}
  Flag = "PRIO"
  InitValue = 0
  MaxValue = 2
  Timeouts <- MCTimeouts
  Calls = {"isr", "reset", "delete"}
INVARIANTS SemaphoreInv
PROPERTIES WaitersServed ImplementsCounting
