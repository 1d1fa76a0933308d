------------------------------- MODULE Kernel -------------------------------
(***************************************************************************)
(* The state of the RT-Thread uniprocessor kernel as one record, and the   *)
(* kernel-internal routines that every blocking service is made of, as     *)
(* operators from kernel state to kernel state.                            *)
(*                                                                         *)
(* A field of the record stands for                                        *)
(*   stat[t]   thread->stat & RT_THREAD_STAT_MASK                          *)
(*   yield[t]  thread->stat & RT_THREAD_STAT_YIELD                         *)
(*   prio[t]   thread->current_priority (number_mask is 1 << prio)         *)
(*   slice[t]  thread->remaining_tick                                      *)
(*   err[t]    thread->error                                               *)
(*   table     rt_thread_priority_table, one list per priority             *)
(*   group     rt_thread_ready_priority_group, the set of its set bits     *)
(*   cur       rt_current_thread                                           *)
(*   nest      rt_scheduler_lock_nest                                      *)
(*   timers    the armed thread timers in the order of the timer list,     *)
(*             each with the ticks it has left                             *)
(*   wait[q]   the suspend list of IPC object q                            *)
(*   defunct   _rt_thread_defunct                                          *)
(*                                                                         *)
(* A thread has one list node (tlist), so it leaves whatever list it is in *)
(* by rt_list_remove; the kernel relies on its never being in two lists.   *)
(***************************************************************************)
EXTENDS Integers, Sequences, FiniteSets, SequencesExt, Lists

CONSTANTS Thread,      \* the thread control blocks
          Idle,        \* the idle thread: never blocks, lowest priority
          PrioMax,     \* RT_THREAD_PRIORITY_MAX
          Queue,       \* the IPC objects that have a suspend list
          InitTick,    \* thread->init_tick, the time slice of each thread
          BasePrio,    \* the priority each thread is created with
          Started      \* the threads started before the scheduler

Prio == 0 .. PrioMax - 1

ASSUME KernelAssumption ==
  /\ IsFiniteSet(Thread)
  /\ Idle \in Thread
  /\ PrioMax \in Nat \ {0}
  /\ InitTick \in [Thread -> Nat \ {0}]

ASSUME BootAssumption ==
  /\ BasePrio \in [Thread -> Prio]
  /\ BasePrio[Idle] = PrioMax - 1
  /\ Started \subseteq Thread
  /\ Idle \in Started

Stat  == {"INIT", "READY", "RUNNING", "SUSPEND", "CLOSE"}
Error == {"EOK", "ETIMEOUT", "ERROR"}
Timer == [thr : Thread, left : Nat]

KernelState ==
  [stat    : [Thread -> Stat],
   yield   : [Thread -> BOOLEAN],
   prio    : [Thread -> Prio],
   slice   : [Thread -> Nat \ {0}],
   err     : [Thread -> Error],
   table   : [Prio -> Seq(Thread)],
   group   : SUBSET Prio,
   cur     : Thread,
   nest    : Nat,
   timers  : Seq(Timer),
   wait    : [Queue -> Seq(Thread)],
   defunct : Seq(Thread)]

-----------------------------------------------------------------------------
(* Lists and the ready table *)

\* rt_list_remove(&thread->tlist): the node leaves the list it is linked in.
rt_list_remove(k, t) ==
  [k EXCEPT !.table   = [p \in Prio  |-> Unlink(k.table[p], t)],
            !.wait    = [q \in Queue |-> Unlink(k.wait[q], t)],
            !.defunct = Unlink(k.defunct, t)]

\* The running thread is in no list; another thread becomes READY at the tail
\* of its list when its YIELD flag is set and at the head otherwise.
rt_schedule_insert_thread(k, t) ==
  IF t = k.cur
  THEN [k EXCEPT !.stat[t] = "RUNNING"]
  ELSE [k EXCEPT !.stat[t]          = "READY",
                 !.table[k.prio[t]] = IF k.yield[t] THEN Append(@, t) ELSE Cons(t, @),
                 !.group            = @ \cup {k.prio[t]}]

rt_schedule_remove_thread_keepsBit(k, t) == rt_list_remove(k, t)

rt_schedule_remove_thread(k, t) ==
  LET r == rt_list_remove(k, t)
      p == k.prio[t]
  IN  [r EXCEPT !.group = IF r.table[p] = <<>> THEN @ \ {p} ELSE @]

\* __rt_ffs on the bitmap: the most urgent priority with its bit set.
HighestReady(k) == CHOOSE p \in k.group : \A q \in k.group : p <= q

\* _scheduler_get_highest_priority_thread
HighestThread(k) == Head(k.table[HighestReady(k)])

\* The current thread keeps the processor: it can run and nothing READY is
\* more urgent, or equally urgent while it has not yielded.
KeepsProcessor(k) ==
  /\ k.stat[k.cur] = "RUNNING"
  /\ \/ k.prio[k.cur] < HighestReady(k)
     \/ k.prio[k.cur] = HighestReady(k) /\ ~k.yield[k.cur]

\* The YIELD flag of a running thread is cleared before the thread is put
\* back in the ready table.
ClearYield(k) ==
  IF k.stat[k.cur] = "RUNNING" THEN [k EXCEPT !.yield[k.cur] = FALSE] ELSE k

\* The current thread goes on: it is taken out of whatever list it is in.
StayWith(k) ==
  [rt_schedule_remove_thread(k, k.cur) EXCEPT !.stat[k.cur] = "RUNNING"]

SwitchTo(k, to) ==
  LET from  == k.cur
      moved == [k EXCEPT !.cur = to]
      back  == IF k.stat[from] = "RUNNING"
               THEN rt_schedule_insert_thread(moved, from) ELSE moved
  IN  [rt_schedule_remove_thread(back, to) EXCEPT !.stat[to] = "RUNNING"]

rt_schedule_ignoresLock(k) ==
  IF k.group = {} THEN k
  ELSE IF KeepsProcessor(k) THEN StayWith(ClearYield(k))
  ELSE SwitchTo(ClearYield(k), HighestThread(k))

rt_schedule(k) ==
  IF k.nest # 0 \/ k.group = {} THEN k
  ELSE IF KeepsProcessor(k) THEN StayWith(ClearYield(k))
  ELSE SwitchTo(ClearYield(k), HighestThread(k))

-----------------------------------------------------------------------------
(* Thread timers *)

TimerArmed(k, t) == \E i \in DOMAIN k.timers : k.timers[i].thr = t

\* rt_timer_stop / rt_timer_detach on thread->thread_timer
TimerStop(k, t) ==
  IF TimerArmed(k, t)
  THEN [k EXCEPT !.timers =
          RemoveAt(@, CHOOSE i \in DOMAIN @ : @[i].thr = t)]
  ELSE k

\* RT_TIMER_CTRL_SET_TIME and rt_timer_start: behind every timer that expires
\* no later.
TimerStart(k, t, ticks) ==
  LET rest == TimerStop(k, t).timers
      soon == {i \in DOMAIN rest : rest[i].left <= ticks}
  IN  [k EXCEPT !.timers =
         InsertAt(rest, Cardinality(soon) + 1, [thr |-> t, left |-> ticks])]

-----------------------------------------------------------------------------
(* Suspending and resuming threads *)

\* rt_thread_suspend(rt_thread_self()); an unexpected state is an error.
rt_thread_suspend(k, t) ==
  IF k.stat[t] \notin {"READY", "RUNNING"} THEN k
  ELSE TimerStop([rt_schedule_remove_thread(k, t) EXCEPT !.stat[t] = "SUSPEND"], t)

\* The interrupt-disabled part of rt_thread_resume, which comes after the
\* check of the thread's state.
MakeReady_timerRuns(k, t) == rt_schedule_insert_thread(rt_list_remove(k, t), t)

MakeReady(k, t) == rt_schedule_insert_thread(TimerStop(rt_list_remove(k, t), t), t)

\* Called with interrupts disabled, as every IPC service does.
rt_thread_resume(k, t) == IF k.stat[t] # "SUSPEND" THEN k ELSE MakeReady(k, t)

_thread_timeout_noError(k, t) ==
  rt_schedule(rt_schedule_insert_thread(rt_list_remove(TimerStop(k, t), t), t))

_thread_timeout_noSchedule(k, t) ==
  rt_schedule_insert_thread(
    rt_list_remove([TimerStop(k, t) EXCEPT !.err[t] = "ETIMEOUT"], t), t)

\* _thread_timeout, with the one-shot timer taken off the timer list by
\* rt_timer_check before it calls.
_thread_timeout(k, t) ==
  rt_schedule(rt_schedule_insert_thread(
    rt_list_remove([TimerStop(k, t) EXCEPT !.err[t] = "ETIMEOUT"], t), t))

\* The thread, in no list any more, is closed (which clears its flags too) and
\* put at the head of the list of defunct threads.
Close(k, t) ==
  [k EXCEPT !.stat[t] = "CLOSE", !.yield[t] = FALSE, !.defunct = Cons(t, @)]

\* RT_THREAD_CTRL_CHANGE_PRIORITY: a READY thread changes its list; no other
\* list is reordered and nothing is rescheduled.
ChangePriority(k, t, p) ==
  IF k.stat[t] = "READY"
  THEN rt_schedule_insert_thread(
         [rt_schedule_remove_thread(k, t) EXCEPT !.prio[t] = p], t)
  ELSE [k EXCEPT !.prio[t] = p]

\* One tick passes for every armed timer.
Aged(timers) ==
  [i \in DOMAIN timers |-> [timers[i] EXCEPT !.left = IF @ = 0 THEN 0 ELSE @ - 1]]

rt_tick_increase_noYield(k) ==
  LET c    == k.cur
      aged == [k EXCEPT !.timers = Aged(@)]
  IN  IF k.slice[c] > 1
      THEN [aged EXCEPT !.slice[c] = @ - 1]
      ELSE rt_schedule([aged EXCEPT !.slice[c] = InitTick[c]])

\* The time slice part of rt_tick_increase; rt_timer_check follows.
rt_tick_increase(k) ==
  LET c    == k.cur
      aged == [k EXCEPT !.timers = Aged(@)]
  IN  IF k.slice[c] > 1
      THEN [aged EXCEPT !.slice[c] = @ - 1]
      ELSE rt_schedule([aged EXCEPT !.slice[c] = InitTick[c], !.yield[c] = TRUE])

\* rt_timer_check still has an expired timer at the head of the list.
TimerExpired(k) == k.timers # <<>> /\ Head(k.timers).left = 0

-----------------------------------------------------------------------------
(* The suspend lists of IPC objects *)

\* A thread queues behind all waiters, or (flag "PRIO") before the first one
\* that is less urgent.
WaitPosition(k, w, t, flag) ==
  LET after == {i \in DOMAIN w : flag = "PRIO" /\ k.prio[t] < k.prio[w[i]]}
  IN  IF after = {} THEN Len(w) + 1 ELSE Min(after)

_ipc_list_suspend_atHead(k, q, t, flag) ==
  LET s == rt_thread_suspend(k, t)
  IN  [s EXCEPT !.wait[q] = Cons(t, @)]

_ipc_list_suspend(k, q, t, flag) ==
  LET s == rt_thread_suspend(k, t)
  IN  [s EXCEPT !.wait[q] = InsertAt(@, WaitPosition(s, @, t, flag), t)]

Forever == -1    \* RT_WAITING_FOREVER

WaitOn_staleError(k, q, t, flag, timeout) ==
  LET s == _ipc_list_suspend(k, q, t, flag)
  IN  IF timeout > 0 THEN TimerStart(s, t, timeout) ELSE s

\* What every blocking call does with interrupts disabled before it calls
\* rt_schedule(): the error is reset, the thread queues, and its timer is
\* started when the timeout is not RT_WAITING_FOREVER.
WaitOn(k, q, t, flag, timeout) ==
  LET s == _ipc_list_suspend([k EXCEPT !.err[t] = "EOK"], q, t, flag)
  IN  IF timeout > 0 THEN TimerStart(s, t, timeout) ELSE s

_ipc_list_resume(k, q) == rt_thread_resume(k, Head(k.wait[q]))

\* One turn of the loop in _ipc_list_resume_all.
ResumeWithError(k, q) ==
  LET t == Head(k.wait[q]) IN rt_thread_resume([k EXCEPT !.err[t] = "ERROR"], t)

-----------------------------------------------------------------------------
(* Start-up *)

\* rt_application_init and rt_thread_idle_init start the first threads in
\* some order before rt_system_scheduler_start; a thread that never ran is
\* put at the head of its list.
Boot ==
  [stat    |-> [t \in Thread |-> IF t \in Started THEN "READY" ELSE "INIT"],
   yield   |-> [t \in Thread |-> FALSE],
   prio    |-> BasePrio,
   slice   |-> InitTick,
   err     |-> [t \in Thread |-> "EOK"],
   table   |-> [p \in Prio |-> <<>>],
   group   |-> {BasePrio[t] : t \in Started},
   cur     |-> Idle,
   nest    |-> 0,
   timers  |-> <<>>,
   wait    |-> [q \in Queue |-> <<>>],
   defunct |-> <<>>]

\* rt_system_scheduler_start on a ready table that holds the started threads
rt_system_scheduler_start(tbl) ==
  LET b  == [Boot EXCEPT !.table = tbl]
      to == HighestThread(b)
  IN  [rt_schedule_remove_thread(b, to) EXCEPT !.cur = to, !.stat[to] = "RUNNING"]

BootTables ==
  LET starting(p) == {t \in Started : BasePrio[t] = p}
  IN  {tbl \in [Prio -> UNION {SetToSeqs(starting(p)) : p \in Prio}] :
         \A p \in Prio : ToSet(tbl[p]) = starting(p)}

-----------------------------------------------------------------------------
(* What holds of the kernel's state whenever interrupts are enabled.  X is *)
(* a set of threads that are in no list: outside the kernel's own code     *)
(* these are the threads that rt_thread_delete has unlinked and not yet    *)
(* marked closed.                                                          *)

\* The ready lists, the bitmap and the thread states agree.
ReadyTableOf(k, X) ==
  /\ \A p \in Prio : IsInjective(k.table[p])
  /\ \A t \in Thread, p \in Prio :
       t \in ToSet(k.table[p]) <=> k.stat[t] = "READY" /\ k.prio[t] = p /\ t \notin X
  /\ k.group = {p \in Prio : k.table[p] # <<>>}
  /\ \A t \in Thread \ X : k.stat[t] = "RUNNING" => t = k.cur

\* A thread timer runs only while its thread is suspended.
TimersOf(k, X) ==
  /\ \A i \in DOMAIN k.timers :
       k.stat[k.timers[i].thr] = "SUSPEND" /\ k.timers[i].thr \notin X
  /\ \A i, j \in DOMAIN k.timers : k.timers[i].thr = k.timers[j].thr => i = j

\* A thread waits in at most one suspend list, and only while suspended.
WaitersOf(k, X) ==
  /\ \A q \in Queue : IsInjective(k.wait[q])
  /\ \A q \in Queue, t \in Thread :
       t \in ToSet(k.wait[q]) => k.stat[t] = "SUSPEND" /\ t \notin X
  /\ \A q, r \in Queue, t \in Thread :
       t \in ToSet(k.wait[q]) /\ t \in ToSet(k.wait[r]) => q = r

\* A thread that waits to be released is closed.
DefunctOf(k, X) ==
  /\ IsInjective(k.defunct)
  /\ \A t \in ToSet(k.defunct) : k.stat[t] = "CLOSE" /\ t \notin X

\* Every thread is in the one list its state calls for.
ListsConsistent(k, X) ==
  ReadyTableOf(k, X) /\ TimersOf(k, X) /\ WaitersOf(k, X) /\ DefunctOf(k, X)

\* The current thread is in no ready list, and the idle thread can always run.
CurrentOf(k, X) ==
  /\ k.stat[k.cur] \in {"RUNNING", "SUSPEND", "CLOSE"}
  /\ k.cur \notin X
  /\ k.stat[Idle] \in {"READY", "RUNNING"}
  /\ Idle \notin X
  /\ \A t \in X : k.stat[t] # "RUNNING"

KernelInv(k, X) == k \in KernelState /\ ListsConsistent(k, X) /\ CurrentOf(k, X)
=============================================================================
