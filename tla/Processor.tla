----------------------------- MODULE Processor -----------------------------
(***************************************************************************)
(* One processor that executes the code of the current thread, and the     *)
(* tick interrupt.  The services of the kernel are modules that extend     *)
(* this one with the state of their objects and the calls threads make.    *)
(*                                                                         *)
(* Only the current thread executes.  A section of code that runs with     *)
(* interrupts disabled is one step (or, where it holds a loop, several     *)
(* steps with isr = "masked"); an interrupt can come between any two       *)
(* steps, and its handler may make rt_current_thread another thread.  A    *)
(* call that ends with rt_schedule() outside its interrupt-disabled        *)
(* section therefore takes another step for it.                            *)
(***************************************************************************)
EXTENDS Kernel

VARIABLES k,    \* the kernel's state
          isr,  \* "none": interrupts are enabled; "check": the tick handler
                \* is inside rt_timer_check; "masked": interrupts are disabled
          pc    \* where each thread is in its code

ProcessorInit ==
  /\ \E tbl \in BootTables : k = rt_system_scheduler_start(tbl)
  /\ isr = "none"
  /\ pc = [t \in Thread |-> "run"]

\* Thread t has the processor at the given point of its code.
Executes(t, at) == isr = "none" /\ k.cur = t /\ pc[t] = at

\* The same with interrupts disabled.
ExecutesMasked(t, at) == isr = "masked" /\ k.cur = t /\ pc[t] = at

Goto(t, at) == pc' = [pc EXCEPT ![t] = at]

\* Blocking is legal in thread context with the scheduler unlocked; the idle
\* thread never blocks.
MayBlock(t) == t # Idle /\ k.nest = 0

\* rt_schedule() with interrupts enabled, between two points of t's code.
Reschedule(t, from, to) ==
  /\ Executes(t, from)
  /\ k' = rt_schedule(k)
  /\ Goto(t, to)
  /\ UNCHANGED isr

\* rt_thread_sleep: after its rt_schedule() the sleeper clears the time-out it
\* was woken by.
SleepBegin(t, ticks) ==
  /\ Executes(t, "run")
  /\ MayBlock(t)
  /\ k' = TimerStart(rt_thread_suspend([k EXCEPT !.err[t] = "EOK"], t), t, ticks)
  /\ Goto(t, "sleep")
  /\ UNCHANGED isr

SleepEnd(t) ==
  /\ Executes(t, "awake")
  /\ k' = [k EXCEPT !.err[t] = IF @ = "ETIMEOUT" THEN "EOK" ELSE @]
  /\ Goto(t, "run")
  /\ UNCHANGED isr

\* _ipc_list_resume_all with interrupts enabled: the test of its loop ...
ResumeAllTest(t, q, test, body, exit) ==
  /\ Executes(t, test)
  /\ Goto(t, IF k.wait[q] # <<>> THEN body ELSE exit)
  /\ UNCHANGED <<k, isr>>

\* ... and its interrupt-disabled body.  If the list has become empty since the
\* test, the code takes the list head for a thread: no step of the model
\* describes what happens then.
ResumeAllBody(t, q, body, test) ==
  /\ Executes(t, body)
  /\ k.wait[q] # <<>>
  /\ k' = ResumeWithError(k, q)
  /\ Goto(t, test)
  /\ UNCHANGED isr

\* The same loop inside an interrupt-disabled section.
ResumeAllMasked(t, q, at) ==
  /\ ExecutesMasked(t, at)
  /\ k.wait[q] # <<>>
  /\ k' = ResumeWithError(k, q)
  /\ UNCHANGED <<isr, pc>>

-----------------------------------------------------------------------------
(* The tick interrupt *)

Tick ==
  /\ isr = "none"
  /\ k' = rt_tick_increase(k)
  /\ isr' = "check"
  /\ UNCHANGED pc

TimerFire ==
  /\ isr = "check"
  /\ TimerExpired(k)
  /\ k' = _thread_timeout(k, Head(k.timers).thr)
  /\ UNCHANGED <<isr, pc>>

TimerCheckEnd ==
  /\ isr = "check"
  /\ ~TimerExpired(k)
  /\ isr' = "none"
  /\ UNCHANGED <<k, pc>>

Interrupt == Tick \/ TimerFire \/ TimerCheckEnd
=============================================================================
