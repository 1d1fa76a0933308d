SPECIFICATION TxFairSpec
CONSTANTS
  s1 = s1
  s2 = s2
  none = none
  f1 = f1
  f2 = f2
  big = big
  nothing = nothing
  Sender = {s1, s2}
  NoSender = none
  TxFrame = {f1, f2, big}
  Big = {big}
  NoFrame = nothing
  TxCount = 2
  TxSize = 1
INVARIANTS MessagesLive EokSent InStep
PROPERTIES TxImplementsFifo Returns
