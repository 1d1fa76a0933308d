SPECIFICATION Spec
CONSTANTS
  t1 = t1
  t2 = t2
  t3 = t3
  idle = idle
  sem = sem
  Thread <- MCTwo
  Idle = idle
  PrioMax = 3
  Queue = {sem}
  Sem = sem
  InitTick <- MCInitTick
  BasePrio <- MCTwoPrio
  Started = {idle, t1, t2}
  Flag = "PRIO"
  InitValue = 0
  MaxValue = 2
  Timeouts <- MCTimeouts
  Calls = {"delete", "delete_timed"}
INVARIANTS ResumesWaiter
