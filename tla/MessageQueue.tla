---------------------------- MODULE MessageQueue ----------------------------
(***************************************************************************)
(* The message queue of ipc.c: blocks on a list of messages and a list of  *)
(* free blocks.  A message is copied into its block, and out of it, with   *)
(* interrupts enabled, between the section that takes the block off one    *)
(* list and the section that puts it on the other.                         *)
(***************************************************************************)
EXTENDS Exchange

CONSTANTS Item,        \* the blocks of mq->msg_pool
          NULL         \* no block

ASSUME MessageQueueAssumption == IsFiniteSet(Item) /\ NULL \notin Item

VARIABLES next,        \* msg->next of each block
          data,        \* the message in each block
          head,        \* mq->msg_queue_head
          tail,        \* mq->msg_queue_tail
          free,        \* mq->msg_queue_free
          mq_entry,    \* mq->entry
          msg,         \* the block that each thread's call works on
          mq_got       \* history: the message received last

blocks == <<next, data, head, tail, free, mq_entry, msg, mq_got>>
mq_vars == <<k, isr, pc, call, due, object, next, data, head, tail, free, mq_entry, msg, mq_got>>

\* rt_mq_init puts every block on the free list; s is the pool from its end.
MqInit ==
  /\ ExchangeInit
  /\ LET s == SetToSeq(Item)
     IN  /\ next = [b \in Item |-> LET i == CHOOSE j \in DOMAIN s : s[j] = b
                                   IN  IF i = Len(s) THEN NULL ELSE s[i + 1]]
         /\ free = IF s = <<>> THEN NULL ELSE s[1]
  /\ data = [b \in Item |-> Nothing]
  /\ head = NULL /\ tail = NULL
  /\ mq_entry = 0
  /\ msg = [t \in Thread |-> NULL]
  /\ mq_got = Nothing

-----------------------------------------------------------------------------
(* rt_mq_send_wait and rt_mq_urgent *)

\* A block is taken off the free list for the message m.
TakeBlock(t, m, at) ==
  /\ free # NULL
  /\ free' = next[free]
  /\ msg' = [msg EXCEPT ![t] = free]
  /\ Proceed(t, at, m)
  /\ UNCHANGED <<k, next, data, head, tail, mq_entry, mq_got>>

MqSendLoop(t, m, timeout) ==
  /\ \/ TakeBlock(t, m, "fill")
     \/ free = NULL /\ timeout = 0 /\ SendGivesUp(t) /\ UNCHANGED blocks
     \/ free = NULL /\ timeout # 0 /\ Block(t, Senders, "send", m, timeout) /\ UNCHANGED blocks
  /\ UNCHANGED <<isr, object>>

MqSend(t, m, timeout) ==
  /\ Executes(t, "run")
  /\ object = "live"
  /\ MqSendLoop(t, m, timeout)

MqSendAgain(t) ==
  /\ Executes(t, "send_woken")
  /\ \/ Fails(t) /\ UNCHANGED blocks
     \/ k.err[t] = "EOK" /\ MqSendLoop(t, call[t].msg, Remaining(call[t]))

MqUrgent(t, m) ==
  /\ Executes(t, "run")
  /\ object = "live"
  /\ TakeBlock(t, m, "fill_urgent")
  /\ UNCHANGED <<isr, object>>

\* The block keeps its link to the rest of the free list.
Fill_keepsNext(t) ==
  /\ Executes(t, "fill") \/ Executes(t, "fill_urgent")
  /\ data' = [data EXCEPT ![msg[t]] = call[t].msg]
  /\ Goto(t, IF pc[t] = "fill" THEN "link" ELSE "link_urgent")
  /\ UNCHANGED <<k, isr, call, due, object, next, head, tail, free, mq_entry, msg, mq_got>>

\* rt_memcpy into the block, with interrupts enabled
Fill(t) ==
  /\ Executes(t, "fill") \/ Executes(t, "fill_urgent")
  /\ next' = IF pc[t] = "fill" THEN [next EXCEPT ![msg[t]] = NULL] ELSE next
  /\ data' = [data EXCEPT ![msg[t]] = call[t].msg]
  /\ Goto(t, IF pc[t] = "fill" THEN "link" ELSE "link_urgent")
  /\ UNCHANGED <<k, isr, call, due, object, head, tail, free, mq_entry, msg, mq_got>>

\* The block is put behind the tail.
Linked(nx, b) ==
  /\ next' = IF tail # NULL THEN [nx EXCEPT ![tail] = b] ELSE nx
  /\ tail' = b
  /\ head' = IF head = NULL THEN b ELSE head

\* The block is put before the head.
LinkedFirst(b) ==
  /\ next' = [next EXCEPT ![b] = head]
  /\ head' = b
  /\ tail' = IF tail = NULL THEN b ELSE tail

\* Only the first message wakes a receiver.
LinkWakes_onFirst == IF mq_entry = 0 THEN Wake(Receivers) ELSE k

LinkWakes == Wake(Receivers)

Link(t) ==
  /\ \/ Executes(t, "link") /\ Linked(next, msg[t])
     \/ Executes(t, "link_urgent") /\ LinkedFirst(msg[t])
  /\ mq_entry' = mq_entry + 1
  /\ k' = LinkWakes
  /\ msg' = [msg EXCEPT ![t] = NULL]
  /\ Finish(t, k.wait[Receivers] # <<>>)
  /\ UNCHANGED <<isr, object, data, free, mq_got>>

\* rt_mq_send from an interrupt handler: nothing comes in between.
MqIsrSend(m) ==
  /\ "isr" \in Calls
  /\ isr = "none"
  /\ object = "live"
  /\ free # NULL
  /\ free' = next[free]
  /\ data' = [data EXCEPT ![free] = m]
  /\ Linked([next EXCEPT ![free] = NULL], free)
  /\ mq_entry' = mq_entry + 1
  /\ k' = IF k.wait[Receivers] # <<>> THEN rt_schedule(LinkWakes) ELSE k
  /\ UNCHANGED <<isr, pc, call, due, object, msg, mq_got>>

-----------------------------------------------------------------------------
(* rt_mq_recv *)

\* The head leaves the list.
Unlinked_keepsTail ==
  /\ head' = next[head]
  /\ mq_entry' = mq_entry - 1
  /\ UNCHANGED tail

Unlinked ==
  /\ head' = next[head]
  /\ tail' = IF tail = head THEN NULL ELSE tail
  /\ mq_entry' = mq_entry - 1

\* The block goes to the free list at once, before its message is copied.
TakeMessage_freesBlock(t) ==
  /\ mq_entry > 0
  /\ Unlinked
  /\ msg' = [msg EXCEPT ![t] = head]
  /\ mq_got' = data[head]
  /\ Proceed(t, "drain", data[head])
  /\ next' = [next EXCEPT ![head] = free]
  /\ free' = head
  /\ UNCHANGED <<k, data>>

TakeMessage(t) ==
  /\ mq_entry > 0
  /\ Unlinked
  /\ msg' = [msg EXCEPT ![t] = head]
  /\ mq_got' = data[head]
  /\ Proceed(t, "drain", data[head])
  /\ UNCHANGED <<k, next, data, free>>

MqRecvLoop(t, timeout) ==
  /\ \/ TakeMessage(t)
     \/ mq_entry = 0 /\ timeout = 0 /\ RecvGivesUp(t) /\ UNCHANGED blocks
     \/ mq_entry = 0 /\ timeout # 0 /\ Block(t, Receivers, "recv", Nothing, timeout) /\ UNCHANGED blocks
  /\ UNCHANGED <<isr, object>>

MqRecv(t, timeout) ==
  /\ Executes(t, "run")
  /\ object = "live"
  /\ MqRecvLoop(t, timeout)

MqRecvAgain(t) ==
  /\ Executes(t, "recv_woken")
  /\ \/ Fails(t) /\ UNCHANGED blocks
     \/ k.err[t] = "EOK" /\ MqRecvLoop(t, Remaining(call[t]))

\* The wrong list is looked at.
FreeWakes_receivers == Wake(Receivers)

FreeWakes == Wake(Senders)

\* The message has been copied to the caller's buffer; its block is free.
FreeBlock(t) ==
  /\ Executes(t, "drain")
  /\ next' = [next EXCEPT ![msg[t]] = free]
  /\ free' = msg[t]
  /\ k' = FreeWakes
  /\ msg' = [msg EXCEPT ![t] = NULL]
  /\ Finish(t, k.wait[Senders] # <<>>)
  /\ UNCHANGED <<isr, object, data, head, tail, mq_entry, mq_got>>

MqSchedule(t) == ExchangeSchedule(t) /\ UNCHANGED blocks

-----------------------------------------------------------------------------
(* rt_mq_control(RT_IPC_CMD_RESET), rt_mq_delete and rt_mq_detach *)

\* What is met by following nx from b, and NULL from the end of the list on.
Walk(nx, b) ==
  LET walk[i \in 1 .. Cardinality(Item) + 1] ==
        IF i = 1 THEN b ELSE IF walk[i - 1] = NULL THEN NULL ELSE nx[walk[i - 1]]
  IN  walk

\* The blocks from b on, as the list that nx makes of them.
Chain(nx, b) ==
  LET walk == Walk(nx, b)
      end  == CHOOSE n \in 0 .. Cardinality(Item) + 1 :
                /\ \A i \in 1 .. n : walk[i] # NULL
                /\ n = Cardinality(Item) + 1 \/ walk[n + 1] = NULL
  IN  SubSeq(walk, 1, end)

MqResetBegin(t) == ExchangeResetBegin(t) /\ UNCHANGED blocks

MqResetTurn(t) == ExchangeResetTurn(t) /\ UNCHANGED blocks

\* All messages go to the free list, the oldest first.
MqResetEnd(t) ==
  /\ ExchangeResetEnd(t)
  /\ LET s == Chain(next, head)
     IN  /\ next' = [b \in Item |->
                       IF b \in ToSet(s)
                       THEN LET i == CHOOSE j \in DOMAIN s : s[j] = b
                            IN  IF i = 1 THEN free ELSE s[i - 1]
                       ELSE next[b]]
         /\ free' = IF s = <<>> THEN free ELSE s[Len(s)]
  /\ head' = NULL
  /\ tail' = IF head = NULL THEN tail ELSE NULL
  /\ mq_entry' = 0
  /\ UNCHANGED <<data, msg, mq_got>>

\* No call works on a block any more.
MqDeleteBegin(t) ==
  /\ ExchangeDeleteBegin(t)
  /\ \A u \in Thread : msg[u] = NULL
  /\ UNCHANGED blocks

MqDeleteStep(t) == ExchangeDeleteStep(t) /\ UNCHANGED blocks

MqTickInterrupt == ExchangeInterrupt /\ UNCHANGED blocks

-----------------------------------------------------------------------------

MqThreadStep(t) ==
  \/ \E m \in Message, n \in Timeouts : MqSend(t, m, n)
  \/ MqSendAgain(t)
  \/ \E m \in Message : MqUrgent(t, m)
  \/ Fill(t)
  \/ Link(t)
  \/ \E n \in Timeouts : MqRecv(t, n)
  \/ MqRecvAgain(t)
  \/ FreeBlock(t)
  \/ MqSchedule(t)
  \/ MqResetBegin(t)
  \/ MqResetTurn(t)
  \/ MqResetEnd(t)
  \/ MqDeleteBegin(t)
  \/ MqDeleteStep(t)

MqNext ==
  \/ \E t \in Thread : MqThreadStep(t)
  \/ MqTickInterrupt
  \/ \E m \in Message : MqIsrSend(m)

MqSpec == MqInit /\ [][MqNext]_mq_vars

-----------------------------------------------------------------------------
(* Properties *)

\* Every variable has its type.
MqTypeOK ==
  /\ KernelInv(k, {})
  /\ isr \in {"none", "check", "masked"}
  /\ pc \in [Thread -> {"run", "send", "send_woken", "fill", "link", "fill_urgent",
                        "link_urgent", "recv", "recv_woken", "drain", "sched",
                        "reset", "delete", "resume", "delete_senders", "resume_senders"}]
  /\ call \in [Thread -> [msg : Message \cup {Nothing}, timeout : Nat \cup {Forever},
                          since : Nat]]
  /\ due \in [Thread -> Nat]
  /\ next \in [Item -> Item \cup {NULL}]
  /\ data \in [Item -> Message \cup {Nothing}]
  /\ {head, tail, free} \subseteq Item \cup {NULL}
  /\ msg \in [Thread -> Item \cup {NULL}]

\* Every block is on one of the two lists, or with one thread that copies a
\* message: none is lost, and none is in two places, whatever calls and
\* interrupts come between the two sections of a call.
BlocksPartitioned ==
  LET queued  == Chain(next, head)
      unused  == Chain(next, free)
      holders == {t \in Thread : msg[t] # NULL}
      held    == {msg[t] : t \in holders}
  IN  /\ IsInjective(queued \o unused)
      /\ ToSet(queued \o unused) \cap held = {}
      /\ ToSet(queued \o unused) \cup held = Item
      /\ Cardinality(held) = Cardinality(holders)
      /\ mq_entry = Len(queued)
      /\ tail = IF queued = <<>> THEN NULL ELSE queued[mq_entry]

\* While a thread copies, nobody touches its block: what is linked is what the
\* sender passed, and what the receiver copies is what it took from the list.
CopiesIntact ==
  \A t \in Thread :
    pc[t] \in {"link", "link_urgent", "drain"} => data[msg[t]] = call[t].msg

\* No wake-up is lost: while a receiver waits there are no more messages than
\* receivers that have been woken to fetch them, whoever came in between.
MqReceiversWoken ==
  object = "live" /\ k.wait[Receivers] # <<>> =>
    mq_entry <= Cardinality(Woken({"recv", "recv_woken"}))

\* The same for the senders and the free blocks.
MqSendersWoken ==
  object = "live" /\ k.wait[Senders] # <<>> =>
    Len(Chain(next, free)) <= Cardinality(Woken({"send", "send_woken"}))

\* The message queue as a whole: no block of rt_mq_send_wait or rt_mq_recv is
\* lost or shared, and no thread is left waiting for what is there.
MessageQueueInv == MqTypeOK /\ BlocksPartitioned /\ MqReceiversWoken /\ MqSendersWoken

\* The lists of blocks are a bounded queue of messages.
MqFifo == INSTANCE BoundedFifo
            WITH Capacity <- Cardinality(Item), got <- mq_got,
                 queue <- LET s == Chain(next, head) IN [i \in DOMAIN s |-> data[s[i]]]

MqImplementsFifo == MqFifo!Spec
=============================================================================
