SPECIFICATION Spec
CONSTANTS
  t1 = t1
  t2 = t2
  idle = idle
  event = event
  bitA = bitA
  bitB = bitB
  Thread <- MCThread
  Idle = idle
  PrioMax = 3
  Queue = {event}
  Event = event
  InitTick <- MCInitTick
  BasePrio <- MCBasePrio
  Started = {idle, t1, t2}
  Flag = "FIFO"
  Bits = {bitA, bitB}
  Options <- Option
  Timeouts <- MCTimeouts
  Calls = {"isr", "reset", "delete"}
VIEW View
INVARIANTS EventInv ReceivesWhatWasAsked FlagsConserved
