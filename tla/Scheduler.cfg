SPECIFICATION Spec
CONSTANTS
  t1 = t1
  t2 = t2
  t3 = t3
  idle = idle
  Thread <- MCTwo
  Idle = idle
  PrioMax = 3
  Queue = {}
  InitTick <- MCTwoTick
  BasePrio <- MCTwoPrio
  Started = {idle, t1}
  Calls = {"startup", "yield", "sleep", "suspend", "resume", "critical", "control", "exit", "delete", "isr"}
  MaxNest = 2
  MaxSleep = 2
INVARIANTS SchedulerInv FreedUnreachable
PROPERTIES LockedKeepsProcessor

