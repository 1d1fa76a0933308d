------------------------------ MODULE Scheduler ------------------------------
(***************************************************************************)
(* Threads, the priority scheduler and the tick interrupt of the           *)
(* uniprocessor kernel (scheduler.c, thread.c, idle.c, clock.c).           *)
(* The calls a thread makes to the thread services, in any order.          *)
(***************************************************************************)
EXTENDS Processor

CONSTANTS Calls,         \* the calls that threads and interrupts make
          MaxNest,       \* bound on the nesting of rt_enter_critical
          MaxSleep       \* bound on the argument of rt_thread_sleep

ASSUME SchedulerAssumption ==
  /\ MaxNest \in Nat
  /\ MaxSleep \in Nat

VARIABLES victim,  \* the thread that t's delete or resume is about
          freed    \* the threads whose stack and object have been released

vars == <<k, isr, pc, victim, freed>>

Init ==
  /\ ProcessorInit
  /\ victim = [t \in Thread |-> Idle]
  /\ freed = {}

-----------------------------------------------------------------------------
(* Calls of the running thread *)

MayCall(t, call) == call \in Calls /\ Executes(t, "run")

\* The call's interrupt-disabled part is done and rt_schedule() comes next.
ThenSchedule(t) == Goto(t, "sched") /\ UNCHANGED <<isr, victim, freed>>

Returns == UNCHANGED <<isr, pc, victim, freed>>

InDeletion(u) == \E t \in Thread : pc[t] = "detach" /\ victim[t] = u

\* The threads that another thread has unlinked and not yet marked closed.
UnlinkedThreads == {u \in Thread : \E t \in Thread \ {u} : pc[t] = "detach" /\ victim[t] = u}

Schedule(t) ==
  /\ Reschedule(t, "sched", "run") \/ Reschedule(t, "sleep", "awake")
  /\ UNCHANGED <<victim, freed>>

\* Nobody uses a thread that is being deleted or has been released: that is
\* the caller's duty, the kernel does not check it.
Usable(u) == ~InDeletion(u) /\ u \notin freed

\* The state is set and rt_thread_resume called with interrupts enabled. It is one
\* step: in between the new thread is in no list and has no timer, so no interrupt
\* can reach it, and that no other thread uses it yet is the caller's duty.
Startup(t, u) ==
  /\ MayCall(t, "startup")
  /\ k.stat[u] = "INIT"
  /\ Usable(u)
  /\ k' = rt_thread_resume([k EXCEPT !.stat[u] = "SUSPEND", !.yield[u] = FALSE], u)
  /\ ThenSchedule(t)

\* rt_schedule() is called with interrupts disabled here.
Yield(t) ==
  /\ MayCall(t, "yield")
  /\ k' = rt_schedule([k EXCEPT !.slice[t] = InitTick[t], !.yield[t] = TRUE])
  /\ Returns

Sleep(t, ticks) == "sleep" \in Calls /\ SleepBegin(t, ticks) /\ UNCHANGED <<victim, freed>>

WakeUp(t) == SleepEnd(t) /\ UNCHANGED <<victim, freed>>

Suspend(t) ==
  /\ MayCall(t, "suspend")
  /\ MayBlock(t)
  /\ k' = rt_thread_suspend(k, t)
  /\ ThenSchedule(t)

\* rt_thread_resume by a caller that has disabled interrupts, rt_schedule()
\* after that; a thread that is not suspended is left alone.
Resume(t, u) ==
  /\ MayCall(t, "resume")
  /\ Usable(u)
  /\ k' = rt_thread_resume(k, u)
  /\ ThenSchedule(t)

\* rt_thread_resume with interrupts enabled: an interrupt can come between the
\* check of the thread's state ...
ResumeCheck(t, u) ==
  /\ MayCall(t, "resume_open")
  /\ Usable(u)
  /\ k.stat[u] = "SUSPEND"
  /\ victim' = [victim EXCEPT ![t] = u]
  /\ Goto(t, "resume")
  /\ UNCHANGED <<k, isr, freed>>

\* ... and the part that makes the thread ready.
ResumeEnd(t) ==
  /\ Executes(t, "resume")
  /\ k' = MakeReady(k, victim[t])
  /\ victim' = [victim EXCEPT ![t] = Idle]
  /\ Goto(t, "sched")
  /\ UNCHANGED <<isr, freed>>

EnterCritical(t) ==
  /\ MayCall(t, "critical")
  /\ k.nest < MaxNest
  /\ k' = [k EXCEPT !.nest = @ + 1]
  /\ Returns

\* An unbalanced call leaves the count at zero.
ExitCritical_noClamp(t) ==
  /\ MayCall(t, "critical")
  /\ k' = [k EXCEPT !.nest = @ - 1]
  /\ IF k.nest <= 1 THEN ThenSchedule(t) ELSE Returns

ExitCritical(t) ==
  /\ MayCall(t, "critical")
  /\ k' = [k EXCEPT !.nest = IF @ <= 1 THEN 0 ELSE @ - 1]
  /\ IF k.nest <= 1 THEN ThenSchedule(t) ELSE Returns

SetPriority(t, u, p) ==
  /\ MayCall(t, "control")
  /\ u # Idle
  /\ Usable(u)
  /\ k' = ChangePriority(k, u, p)
  /\ Returns

\* _thread_exit: the entry function of the thread returned.
Exit_staysRunning(t) ==
  /\ MayCall(t, "exit")
  /\ MayBlock(t)
  /\ k' = [TimerStop(rt_schedule_remove_thread(k, t), t) EXCEPT !.defunct = Cons(t, @)]
  /\ ThenSchedule(t)

Exit(t) ==
  /\ MayCall(t, "exit")
  /\ MayBlock(t)
  /\ k' = LET gone == TimerStop(rt_schedule_remove_thread(k, t), t)
          IN  Close(gone, t)
  /\ ThenSchedule(t)

\* RT_THREAD_CTRL_CLOSE: rt_thread_delete or rt_thread_detach, then
\* rt_schedule().  The thread leaves its list in one step (one that waits
\* with a timeout only where "delete_timed" allows it) ...
Delete(t, u) ==
  /\ MayCall(t, "delete")
  /\ TimerArmed(k, u) => "delete_timed" \in Calls
  /\ u # Idle
  /\ k.nest = 0
  /\ k.stat[u] # "CLOSE"
  /\ Usable(u)
  /\ k' = IF k.stat[u] = "INIT" THEN k ELSE rt_schedule_remove_thread(k, u)
  /\ victim' = [victim EXCEPT ![t] = u]
  /\ Goto(t, "detach")
  /\ UNCHANGED <<isr, freed>>

\* ... and its timer is released and its state changed in the next.
DeleteEnd(t) ==
  /\ Executes(t, "detach")
  /\ k' = Close(TimerStop(k, victim[t]), victim[t])
  /\ victim' = [victim EXCEPT ![t] = Idle]
  /\ Goto(t, "sched")
  /\ UNCHANGED <<isr, freed>>

\* One turn of the loop in rt_defunct_execute, by the idle thread.
Reap ==
  /\ Executes(Idle, "run")
  /\ k.defunct # <<>>
  /\ k' = [k EXCEPT !.defunct = Tail(@)]
  /\ freed' = freed \cup {Head(k.defunct)}
  /\ UNCHANGED <<isr, pc, victim>>

-----------------------------------------------------------------------------
(* Interrupts *)

TickInterrupt == Interrupt /\ UNCHANGED <<victim, freed>>

\* A device interrupt whose handler makes a thread runnable again.
IsrResume(u) ==
  /\ "isr" \in Calls
  /\ isr = "none"
  /\ Usable(u)
  /\ k' = rt_schedule(rt_thread_resume(k, u))
  /\ Returns

-----------------------------------------------------------------------------

ThreadStep(t) ==
  \/ Schedule(t)
  \/ \E u \in Thread : Startup(t, u) \/ Resume(t, u) \/ ResumeCheck(t, u) \/ Delete(t, u)
  \/ Yield(t)
  \/ \E n \in 0 .. MaxSleep : Sleep(t, n)
  \/ WakeUp(t)
  \/ Suspend(t)
  \/ EnterCritical(t)
  \/ ExitCritical(t)
  \/ \E u \in Thread, p \in Prio : SetPriority(t, u, p)
  \/ Exit(t)
  \/ DeleteEnd(t)
  \/ ResumeEnd(t)

Next ==
  \/ \E t \in Thread : ThreadStep(t)
  \/ Reap
  \/ TickInterrupt
  \/ \E u \in Thread : IsrResume(u)

MaySchedule(t) == Executes(t, "sched") \/ Executes(t, "sleep")

\* The tick interrupt keeps coming and its handler returns; a thread that has
\* left its interrupt-disabled section gets on to its rt_schedule() when it
\* runs, because the processor executes its code between two interrupts
\* (strong fairness, with the enabling condition written out: a tick suspends
\* the step again and again).  Nothing obliges a thread to make another call.
Fairness ==
  /\ []<><<TickInterrupt>>_vars
  /\ WF_vars(TimerCheckEnd /\ UNCHANGED <<victim, freed>>)
  /\ \A t \in Thread \ {Idle} : []<>MaySchedule(t) => []<><<Schedule(t)>>_vars

Spec == Init /\ [][Next]_vars

FairSpec == Spec /\ Fairness

-----------------------------------------------------------------------------
(* Properties *)

\* Every variable has its type.
TypeOK ==
  /\ k \in KernelState
  /\ isr \in {"none", "check"}
  /\ pc \in [Thread -> {"run", "sched", "sleep", "awake", "detach", "resume"}]
  /\ victim \in [Thread -> Thread]
  /\ freed \subseteq Thread

\* The ready table, the bitmap and the thread states agree: a list holds each
\* of its threads once, exactly the READY threads of that priority are in it,
\* only the current thread is RUNNING, and a bit is set for exactly the lists that are not empty, so that
\* _scheduler_get_highest_priority_thread always finds a thread.
ReadyTable == ReadyTableOf(k, UnlinkedThreads)

\* A thread timer runs only while its thread is suspended, which is what
\* _thread_timeout asserts when the timer expires.
TimedThreadsSuspended ==
  \A i \in DOMAIN k.timers : k.stat[k.timers[i].thr] = "SUSPEND"

\* A thread being deleted is not the idle thread, is not closed yet, and is
\* deleted by one thread only.
DeletionsDistinct ==
  /\ \A t \in Thread : pc[t] = "detach" => victim[t] # Idle /\ k.stat[victim[t]] # "CLOSE"
  /\ \A t, u \in Thread : pc[t] = "detach" /\ pc[u] = "detach" /\ victim[t] = victim[u] => t = u

\* The processor executes a thread that is not RUNNING only on the thread's way
\* to its rt_schedule(), which the lock of the scheduler then does not stop.
CurrentProceeds ==
  /\ k.stat[k.cur] # "RUNNING" => pc[k.cur] \in {"sched", "sleep"} /\ k.nest = 0
  /\ pc[k.cur] = "detach" => k.nest = 0

\* No thread is inside rt_thread_resume when nobody calls it with interrupts
\* enabled.
ResumesWhole == "resume_open" \notin Calls => \A t \in Thread : pc[t] # "resume"

\* The inductive invariant: every thread is in the list its state calls for,
\* the current thread can proceed, deletions are orderly and a released thread
\* is closed and neither current nor waiting to be released again.
SchedulerInv ==
  /\ TypeOK
  /\ KernelInv(k, UnlinkedThreads)
  /\ CurrentProceeds
  /\ DeletionsDistinct
  /\ \A t \in freed : k.stat[t] = "CLOSE" /\ t \notin ToSet(k.defunct) /\ t # k.cur
  /\ ResumesWhole

\* When the processor executes a thread's own code with the scheduler
\* unlocked, no READY thread is more urgent (one that rt_thread_delete has
\* unlinked counts no more).
HighestRuns ==
  isr = "none" /\ k.nest = 0 /\ pc[k.cur] = "run" =>
    \A t \in Thread \ UnlinkedThreads : k.stat[t] = "READY" => k.prio[k.cur] <= k.prio[t]

\* Once the idle thread has released a thread, nothing refers to it any more.
FreedUnreachable ==
  \A t \in freed :
    /\ t # k.cur
    /\ k.stat[t] = "CLOSE"
    /\ t \notin ToSet(k.defunct)
    /\ ~TimerArmed(k, t)
    /\ \A p \in Prio : t \notin ToSet(k.table[p])

\* "The thread object will be removed from thread queue" (rt_thread_detach): a
\* thread that waits to be released by the idle thread is in no ready list.
DefunctNotReady ==
  \A t \in ToSet(k.defunct), p \in Prio : t \notin ToSet(k.table[p])

\* A thread that has ended never comes back to life.
ClosedForEver == [][\A t \in Thread : k.stat[t] = "CLOSE" => k'.stat[t] = "CLOSE"]_vars

\* rt_enter_critical keeps the processor: while the scheduler is locked,
\* neither a tick, a timeout, an interrupt nor a resumed thread takes it away.
LockedKeepsProcessor == [][k.nest > 0 => k'.cur = k.cur]_vars

\* A thread whose priority is the highest of all is not kept waiting for ever by
\* the threads of the same priority: time slices make it their turn.
SharesProcessor ==
  \A t \in Thread : k.stat[t] = "READY" /\ (\A u \in Thread : k.prio[t] <= k.prio[u])
                      ~> k.stat[t] # "READY"
=============================================================================
