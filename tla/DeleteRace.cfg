SPECIFICATION Spec
CONSTANTS
  t1 = t1
  t2 = t2
  t3 = t3
  idle = idle
  Thread <- MCTwo
  Idle = idle
  PrioMax = 3
  Queue = {}
  InitTick <- MCTwoTick
  BasePrio <- MCTwoPrio
  Started = {idle, t1, t2}
  Calls = {"startup", "sleep", "delete", "delete_timed"}
  MaxNest = 0
  MaxSleep = 2
INVARIANTS DefunctNotReady
