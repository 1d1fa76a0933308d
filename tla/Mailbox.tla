------------------------------- MODULE Mailbox -------------------------------
(***************************************************************************)
(* The mailbox of ipc.c: a ring of messages.                               *)
(***************************************************************************)
EXTENDS Exchange

CONSTANT Size          \* mb->size, at most RT_MB_ENTRY_MAX by its type

ASSUME MailboxAssumption == Size \in Nat \ {0}

VARIABLES pool,        \* mb->msg_pool
          entry,       \* mb->entry
          in_offset,   \* mb->in_offset
          out_offset,  \* mb->out_offset
          got          \* history: the message received last

ring == <<pool, entry, in_offset, out_offset, got>>
vars == <<k, isr, pc, call, due, object, pool, entry, in_offset, out_offset, got>>

Init ==
  /\ ExchangeInit
  /\ pool = [i \in 0 .. Size - 1 |-> Nothing]
  /\ entry = 0 /\ in_offset = 0 /\ out_offset = 0
  /\ got = Nothing

Advance_late(i) == IF i + 1 > Size THEN 0 ELSE i + 1

Advance(i) == IF i + 1 >= Size THEN 0 ELSE i + 1

Rewind(i) == IF i > 0 THEN i - 1 ELSE Size - 1

-----------------------------------------------------------------------------
(* rt_mb_send_wait and rt_mb_send *)

Put(m) ==
  /\ pool' = [pool EXCEPT ![in_offset] = m]
  /\ in_offset' = Advance(in_offset)
  /\ entry' = entry + 1
  /\ UNCHANGED <<out_offset, got>>

\* Only the first message wakes a receiver.
PutWakes_onFirst == IF entry = 0 THEN Wake(Receivers) ELSE k

PutWakes == Wake(Receivers)

SendLoop(t, m, timeout) ==
  /\ \/ entry < Size /\ Put(m) /\ k' = PutWakes /\ Finish(t, k.wait[Receivers] # <<>>)
     \/ entry = Size /\ timeout = 0 /\ SendGivesUp(t) /\ UNCHANGED ring
     \/ entry = Size /\ timeout # 0 /\ Block(t, Senders, "send", m, timeout) /\ UNCHANGED ring
  /\ UNCHANGED <<isr, object>>

Send(t, m, timeout) ==
  /\ Executes(t, "run")
  /\ object = "live"
  /\ SendLoop(t, m, timeout)

SendAgain(t) ==
  /\ Executes(t, "send_woken")
  /\ \/ Fails(t) /\ UNCHANGED ring
     \/ k.err[t] = "EOK" /\ SendLoop(t, call[t].msg, Remaining(call[t]))

\* rt_mb_send from an interrupt handler
IsrSend(m) ==
  /\ "isr" \in Calls
  /\ isr = "none"
  /\ object = "live"
  /\ entry < Size
  /\ Put(m)
  /\ k' = IF k.wait[Receivers] # <<>> THEN rt_schedule(PutWakes) ELSE k
  /\ UNCHANGED <<isr, pc, call, due, object>>

-----------------------------------------------------------------------------
(* rt_mb_urgent *)

\* The message is put where the reader is, before it steps back.
PutFirst_late(m) ==
  /\ entry < Size
  /\ pool' = [pool EXCEPT ![out_offset] = m]
  /\ out_offset' = Rewind(out_offset)
  /\ entry' = entry + 1

PutFirst(m) ==
  /\ entry < Size
  /\ pool' = [pool EXCEPT ![Rewind(out_offset)] = m]
  /\ out_offset' = Rewind(out_offset)
  /\ entry' = entry + 1

Urgent(t, m) ==
  /\ Executes(t, "run")
  /\ object = "live"
  /\ PutFirst(m)
  /\ k' = PutWakes
  /\ Finish(t, k.wait[Receivers] # <<>>)
  /\ UNCHANGED <<isr, in_offset, got, object>>

-----------------------------------------------------------------------------
(* rt_mb_recv *)

Get ==
  /\ got' = pool[out_offset]
  /\ out_offset' = Advance(out_offset)
  /\ entry' = entry - 1
  /\ UNCHANGED <<pool, in_offset>>

\* The wrong list is looked at.
GetWakes_receivers == Wake(Receivers)

GetWakes == Wake(Senders)

RecvLoop(t, timeout) ==
  /\ \/ entry > 0 /\ Get /\ k' = GetWakes /\ Finish(t, k.wait[Senders] # <<>>)
     \/ entry = 0 /\ timeout = 0 /\ RecvGivesUp(t) /\ UNCHANGED ring
     \/ entry = 0 /\ timeout # 0 /\ Block(t, Receivers, "recv", Nothing, timeout) /\ UNCHANGED ring
  /\ UNCHANGED <<isr, object>>

Recv(t, timeout) ==
  /\ Executes(t, "run")
  /\ object = "live"
  /\ RecvLoop(t, timeout)

RecvAgain(t) ==
  /\ Executes(t, "recv_woken")
  /\ \/ Fails(t) /\ UNCHANGED ring
     \/ k.err[t] = "EOK" /\ RecvLoop(t, Remaining(call[t]))

Schedule(t) == ExchangeSchedule(t) /\ UNCHANGED ring

-----------------------------------------------------------------------------
(* rt_mb_control(RT_IPC_CMD_RESET), rt_mb_delete and rt_mb_detach *)

ResetBegin(t) == ExchangeResetBegin(t) /\ UNCHANGED ring

ResetTurn(t) == ExchangeResetTurn(t) /\ UNCHANGED ring

ResetEnd(t) ==
  /\ ExchangeResetEnd(t)
  /\ entry' = 0 /\ in_offset' = 0 /\ out_offset' = 0
  /\ UNCHANGED <<pool, got>>

DeleteBegin(t) == ExchangeDeleteBegin(t) /\ UNCHANGED ring

DeleteStep(t) == ExchangeDeleteStep(t) /\ UNCHANGED ring

TickInterrupt == ExchangeInterrupt /\ UNCHANGED ring

-----------------------------------------------------------------------------

ThreadStep(t) ==
  \/ \E m \in Message, n \in Timeouts : Send(t, m, n)
  \/ SendAgain(t)
  \/ \E m \in Message : Urgent(t, m)
  \/ \E n \in Timeouts : Recv(t, n)
  \/ RecvAgain(t)
  \/ Schedule(t)
  \/ ResetBegin(t)
  \/ ResetTurn(t)
  \/ ResetEnd(t)
  \/ DeleteBegin(t)
  \/ DeleteStep(t)

Next ==
  \/ \E t \in Thread : ThreadStep(t)
  \/ TickInterrupt
  \/ \E m \in Message : IsrSend(m)

Spec == Init /\ [][Next]_vars

-----------------------------------------------------------------------------
(* Properties *)

\* Every variable has its type.
TypeOK ==
  /\ KernelInv(k, {})
  /\ isr \in {"none", "check", "masked"}
  /\ pc \in [Thread -> {"run", "send", "send_woken", "recv", "recv_woken", "sched",
                        "reset", "delete", "resume", "delete_senders", "resume_senders"}]
  /\ call \in [Thread -> [msg : Message \cup {Nothing}, timeout : Nat \cup {Forever},
                          since : Nat]]
  /\ due \in [Thread -> Nat]
  /\ object \in {"live", "deleting", "deleted"}

\* The slot i places behind offset o.
Slot(o, i) == IF o + i >= Size THEN o + i - Size ELSE o + i

\* The offsets and the count describe one stretch of the ring, and every slot of
\* it holds a message.
RingInv ==
  /\ pool \in [0 .. Size - 1 -> Message \cup {Nothing}]
  /\ entry \in 0 .. Size
  /\ in_offset \in 0 .. Size - 1 /\ out_offset \in 0 .. Size - 1
  /\ in_offset = IF entry = Size THEN out_offset ELSE Slot(out_offset, entry)
  /\ \A i \in 0 .. entry - 1 : pool[Slot(out_offset, i)] \in Message

\* No wake-up is lost: while a receiver waits there are no more messages than
\* receivers that have been woken to fetch them, whoever came in between.
ReceiversWoken ==
  object = "live" /\ k.wait[Receivers] # <<>> =>
    entry <= Cardinality(Woken({"recv", "recv_woken"}))

\* The same for the senders and the free slots.
SendersWoken ==
  object = "live" /\ k.wait[Senders] # <<>> =>
    Size - entry <= Cardinality(Woken({"send", "send_woken"}))

\* The mailbox as a whole: a sound ring and, on both sides, no thread of
\* rt_mb_send_wait or rt_mb_recv left waiting for what is there.
MailboxInv == TypeOK /\ RingInv /\ ReceiversWoken /\ SendersWoken

\* The ring is a bounded queue: whatever sends, urgent sends, receptions and
\* resets do to the offsets, messages come out in the order BoundedFifo says.
Fifo == INSTANCE BoundedFifo
          WITH Capacity <- Size, queue <- [i \in 1 .. entry |-> pool[Slot(out_offset, i - 1)]]

ImplementsFifo == Fifo!Spec
=============================================================================
