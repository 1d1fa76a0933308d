SPECIFICATION Spec
CONSTANTS
  t1 = t1
  t2 = t2
  idle = idle
  receivers = receivers
  senders = senders
  msgA = msgA
  msgB = msgB
  none = none
  Thread <- MCThread
  Idle = idle
  PrioMax = 3
  Queue = {receivers, senders}
  Receivers = receivers
  Senders = senders
  InitTick <- MCInitTick
  BasePrio <- MCBasePrio
  Started = {idle, t1, t2}
  Flag = "FIFO"
  Size = 2
  Message = {msgA, msgB}
  Nothing = none
  Timeouts <- MCTimeouts
  Calls = {"isr", "reset", "delete"}
VIEW View
INVARIANTS MailboxInv DeadlineKept
PROPERTIES ImplementsFifo
