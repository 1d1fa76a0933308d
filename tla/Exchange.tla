------------------------------ MODULE Exchange ------------------------------
(***************************************************************************)
(* What the mailbox and the message queue of ipc.c have in common: a list  *)
(* of threads that wait for a message and a list of threads that wait for  *)
(* room.  A thread that is woken looks again, for another thread may have  *)
(* come before it, and waits on for the ticks it has left.                 *)
(***************************************************************************)
EXTENDS Processor

CONSTANTS Receivers,   \* parent.suspend_thread
          Senders,     \* suspend_sender_thread
          Flag,        \* "FIFO" or "PRIO"
          Message,     \* the values sent
          Nothing,     \* no message
          Timeouts,    \* the timeouts: Forever, 0, ticks
          Calls        \* "isr", "reset", "delete"

ASSUME ExchangeAssumption ==
  /\ Receivers \in Queue /\ Senders \in Queue /\ Receivers # Senders
  /\ Flag \in {"FIFO", "PRIO"}
  /\ Nothing \notin Message
  /\ Timeouts \subseteq Nat \cup {Forever}

VARIABLES call,        \* the locals of a call: the message, the timeout and the
                       \* ticks since the timer was started (up to the timeout)
          due,         \* history: ticks until the caller's deadline
          object       \* "live", "deleting" or "deleted"

NoCall == [msg |-> Nothing, timeout |-> 0, since |-> 0]

ExchangeInit ==
  /\ ProcessorInit
  /\ call = [t \in Thread |-> NoCall]
  /\ due = [t \in Thread |-> 0]
  /\ object = "live"

\* The thread is in a call that may have to wait.
Inside(t) == pc[t] \in {"send", "send_woken", "recv", "recv_woken"}

\* The timeout when the loop is entered again.
Remaining_asked(c) == c.timeout

Remaining(c) == IF c.timeout > 0 THEN c.timeout - c.since ELSE c.timeout

\* The thread waits in list q; the caller's deadline is set on the first turn.
Block(t, q, at, m, timeout) ==
  /\ MayBlock(t)
  /\ k' = WaitOn(k, q, t, Flag, timeout)
  /\ call' = [call EXCEPT ![t] = [msg |-> m, timeout |-> timeout, since |-> 0]]
  /\ due' = IF pc[t] = "run" /\ timeout > 0 THEN [due EXCEPT ![t] = timeout] ELSE due
  /\ Goto(t, at)

\* The call goes on at another point, with message m, and waits no more.
Proceed(t, at, m) ==
  /\ call' = [call EXCEPT ![t] = [NoCall EXCEPT !.msg = m]]
  /\ due' = [due EXCEPT ![t] = 0]
  /\ Goto(t, at)

\* The call ends; rt_schedule() follows when it has resumed somebody.
Finish(t, resumed) == Proceed(t, IF resumed THEN "sched" ELSE "run", Nothing)

\* The first thread of list q, if there is one, is resumed.
Wake(q) == IF k.wait[q] # <<>> THEN _ipc_list_resume(k, q) ELSE k

\* There is no room and no time left: the loop has reset the error, unless the
\* call returns before it gets to the loop.
SendGivesUp(t) ==
  /\ k' = IF pc[t] = "run" THEN k ELSE [k EXCEPT !.err[t] = "EOK"]
  /\ Finish(t, FALSE)

RecvGivesUp(t) ==
  /\ k' = IF pc[t] = "run" THEN k ELSE [k EXCEPT !.err[t] = "ETIMEOUT"]
  /\ Finish(t, FALSE)

\* A woken thread that finds its error set returns it.
Fails(t) ==
  /\ k.err[t] # "EOK"
  /\ Finish(t, FALSE)
  /\ UNCHANGED <<k, isr, object>>

ExchangeSchedule(t) ==
  /\ \/ Reschedule(t, "send", "send_woken")
     \/ Reschedule(t, "recv", "recv_woken")
     \/ Reschedule(t, "sched", "run")
  /\ UNCHANGED <<call, due, object>>

-----------------------------------------------------------------------------
(* Reset: _ipc_list_resume_all on both lists, with interrupts disabled     *)

ExchangeResetBegin(t) ==
  /\ "reset" \in Calls
  /\ Executes(t, "run")
  /\ object = "live"
  /\ isr' = "masked"
  /\ Goto(t, "reset")
  /\ UNCHANGED <<k, call, due, object>>

ExchangeResetTurn(t) ==
  /\ \/ ResumeAllMasked(t, Receivers, "reset")
     \/ k.wait[Receivers] = <<>> /\ ResumeAllMasked(t, Senders, "reset")
  /\ UNCHANGED <<call, due, object>>

\* Both lists are empty; interrupts are enabled again.
ExchangeResetEnd(t) ==
  /\ ExecutesMasked(t, "reset")
  /\ k.wait[Receivers] = <<>> /\ k.wait[Senders] = <<>>
  /\ isr' = "none"
  /\ Goto(t, "sched")
  /\ UNCHANGED <<k, call, due, object>>

-----------------------------------------------------------------------------
(* Deletion: _ipc_list_resume_all on both lists, with interrupts enabled *)

\* Nobody else uses an object that is being deleted: all others inside a call
\* are waiters, and none of their timers runs.
ExchangeDeleteBegin(t) ==
  /\ "delete" \in Calls
  /\ Executes(t, "run")
  /\ object = "live"
  /\ \A u \in Thread : Inside(u) => k.stat[u] = "SUSPEND" /\ ~TimerArmed(k, u)
  /\ object' = "deleting"
  /\ Goto(t, "delete")
  /\ UNCHANGED <<k, isr, call, due>>

ExchangeDeleteStep(t) ==
  /\ \/ ResumeAllTest(t, Receivers, "delete", "resume", "delete_senders")
     \/ ResumeAllBody(t, Receivers, "resume", "delete")
     \/ ResumeAllTest(t, Senders, "delete_senders", "resume_senders", "run")
     \/ ResumeAllBody(t, Senders, "resume_senders", "delete_senders")
  /\ object' = IF pc[t] = "delete_senders" /\ k.wait[Senders] = <<>> THEN "deleted" ELSE object
  /\ UNCHANGED <<call, due>>

-----------------------------------------------------------------------------

\* Time passes for the calls too.
ExchangeInterrupt ==
  /\ Interrupt
  /\ IF isr = "none"
     THEN /\ call' = [t \in Thread |->
                        [call[t] EXCEPT !.since = IF @ < call[t].timeout THEN @ + 1 ELSE @]]
          /\ due' = [t \in Thread |-> IF due[t] > 0 THEN due[t] - 1 ELSE 0]
     ELSE UNCHANGED <<call, due>>
  /\ UNCHANGED object

-----------------------------------------------------------------------------
(* Properties *)

\* Threads that have been resumed without an error and have not looked again.
Woken(where) == {t \in Thread : /\ pc[t] \in where
                                /\ k.stat[t] # "SUSPEND"
                                /\ k.err[t] = "EOK"}

\* A thread that was woken in vain waits on for what is left of the caller's
\* timeout: its timer expires exactly at the deadline.
DeadlineKept ==
  \A i \in DOMAIN k.timers : k.timers[i].left = due[k.timers[i].thr]
=============================================================================
