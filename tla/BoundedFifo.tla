---------------------------- MODULE BoundedFifo ----------------------------
(***************************************************************************)
(* What a mailbox or a message queue promises: a queue of bounded length   *)
(* from which the oldest message is taken, urgent ones before all others.  *)
(***************************************************************************)
EXTENDS Integers, Sequences

CONSTANTS Message,     \* the messages
          Nothing,     \* what has been received before the first message
          Capacity     \* the length of the queue

VARIABLES queue,       \* the messages, the next one to be received first
          got          \* the message received last

Init == queue = <<>> /\ got = Nothing

Put(m) ==
  /\ Len(queue) < Capacity
  /\ queue' = Append(queue, m)
  /\ UNCHANGED got

PutFirst(m) ==
  /\ Len(queue) < Capacity
  /\ queue' = <<m>> \o queue
  /\ UNCHANGED got

Get ==
  /\ queue # <<>>
  /\ got' = Head(queue)
  /\ queue' = Tail(queue)

Clear == queue' = <<>> /\ UNCHANGED got

Next == Get \/ Clear \/ \E m \in Message : Put(m) \/ PutFirst(m)

Spec == Init /\ [][Next]_<<queue, got>>
=============================================================================
