-------------------------- MODULE SchedulerProofs --------------------------
(***************************************************************************)
(* SchedulerInv is an inductive invariant of Scheduler, for any number of  *)
(* threads, priorities, time slices, sleeps and lock nestings, provided    *)
(* that no thread with an armed timer is deleted and rt_thread_resume is   *)
(* called with interrupts disabled.  (Without these provisos it is false:  *)
(* see DeleteRace.cfg.)                                                    *)
(***************************************************************************)
EXTENDS Scheduler, KernelLemmas

USE DEF Goto

\* Nobody deletes a thread whose timer is armed or calls rt_thread_resume with
\* interrupts enabled.
Orderly == {"delete_timed", "resume_open"} \cap Calls = {}

\* The initial states satisfy the invariant.
LEMMA InitInv == Init => SchedulerInv
<1> SUFFICES ASSUME Init PROVE SchedulerInv
  OBVIOUS
<1>1. PICK tbl \in BootTables : k = rt_system_scheduler_start(tbl)
  BY DEF Init, ProcessorInit
<1>2. KernelInv(k, {}) /\ k.stat[k.cur] = "RUNNING" /\ k.nest = 0
  BY <1>1, BootInv
<1>3. TypeOK
  BY <1>2, KernelAssumption DEF Init, ProcessorInit, TypeOK, KernelInv
<1>4. k.cur \in Thread
  BY <1>2 DEF KernelInv, KernelState
<1>5. \A t \in Thread : pc[t] = "run"
  BY DEF Init, ProcessorInit
<1>6. UnlinkedThreads = {}
  BY <1>5 DEF UnlinkedThreads
<1>7. CurrentProceeds /\ DeletionsDistinct
  BY <1>2, <1>4, <1>5 DEF CurrentProceeds, DeletionsDistinct
<1>8. ResumesWhole
  BY <1>5 DEF ResumesWhole
<1> QED BY <1>2, <1>3, <1>6, <1>7, <1>8 DEF SchedulerInv, Init

\* The threads whose deletion is under way stay the same when no deletion
\* begins or ends.
LEMMA SameUnlinked ==
  ASSUME victim' = victim, \A t \in Thread : pc'[t] = "detach" <=> pc[t] = "detach"
  PROVE  UnlinkedThreads' = UnlinkedThreads
BY DEF UnlinkedThreads

\* No step takes the processor from a thread that has locked the scheduler.
LockRespected == k.nest > 0 => k'.cur = k.cur

\* No step brings a closed thread back.
NoneRevived == \A t \in Thread : k.stat[t] = "CLOSE" => k'.stat[t] = "CLOSE"

\* A step that begins or ends no deletion and whose kernel routine keeps
\* threads open and the current thread running preserves the invariant.
LEMMA KeepsStep ==
  ASSUME SchedulerInv, KernelInv(k', UnlinkedThreads), Keeps(k', k),
         victim' = victim, freed' = freed, isr' \in {"none", "check"},
         pc' \in [Thread -> {"run", "sched", "sleep", "awake", "detach", "resume"}],
         \A t \in Thread : pc'[t] = "detach" <=> pc[t] = "detach",
         \A t \in Thread : pc'[t] = "resume" => pc[t] = "resume",
         k'.stat[k'.cur] = "RUNNING" \/ pc'[k.cur] = pc[k.cur]
  PROVE  SchedulerInv' /\ LockRespected /\ NoneRevived
<1>1. k \in KernelState /\ k' \in KernelState
  BY DEF SchedulerInv, KernelInv
<1>2. TypeOK'
  BY <1>1 DEF SchedulerInv, TypeOK
<1>3. KernelInv(k', UnlinkedThreads')
  BY SameUnlinked
<1>4. k.cur \in Thread /\ k'.cur \in Thread
  BY <1>1 DEF KernelState
<1>5. CurrentProceeds'
  BY <1>4 DEF SchedulerInv, CurrentProceeds, Keeps
<1>6. DeletionsDistinct'
  <2>1. \A t \in Thread : victim[t] \in Thread
    BY DEF SchedulerInv, TypeOK
  <2>2. \A t \in Thread : pc'[t] = "detach" => victim'[t] # Idle /\ k'.stat[victim'[t]] # "CLOSE"
    BY <2>1 DEF SchedulerInv, DeletionsDistinct, Keeps
  <2>3. \A t, u \in Thread : pc'[t] = "detach" /\ pc'[u] = "detach" /\ victim'[t] = victim'[u] => t = u
    BY DEF SchedulerInv, DeletionsDistinct
  <2> QED BY <2>2, <2>3 DEF DeletionsDistinct
<1>7. \A t \in freed' : k'.stat[t] = "CLOSE" /\ t \notin ToSet(k'.defunct) /\ t # k'.cur
  BY <1>4 DEF SchedulerInv, TypeOK, Keeps
<1>8. LockRespected /\ NoneRevived
  BY DEF Keeps, LockRespected, NoneRevived
<1>9. ResumesWhole'
  BY DEF SchedulerInv, ResumesWhole
<1> QED BY <1>2, <1>3, <1>5, <1>6, <1>7, <1>8, <1>9 DEF SchedulerInv

\* A thread whose deletion is not under way is in the list its state calls for.
LEMMA NotUnlinked ==
  ASSUME NEW u \in Thread, ~InDeletion(u)
  PROVE  u \notin UnlinkedThreads
BY DEF InDeletion, UnlinkedThreads

\* What a thread's own step knows of the thread.
LEMMA Executing ==
  ASSUME SchedulerInv, NEW t \in Thread, NEW at, Executes(t, at)
  PROVE  /\ k \in KernelState /\ KernelInv(k, UnlinkedThreads)
         /\ ListsConsistent(k, UnlinkedThreads) /\ CurrentOf(k, UnlinkedThreads)
         /\ t = k.cur /\ t \in Thread \ UnlinkedThreads /\ pc[t] = at /\ isr = "none"
         /\ at \notin {"sched", "sleep"} => k.stat[t] = "RUNNING"
         /\ at = "detach" => k.nest = 0
         /\ UnlinkedThreads \in SUBSET Thread
         /\ pc \in [Thread -> {"run", "sched", "sleep", "awake", "detach", "resume"}]
         /\ victim \in [Thread -> Thread]
<1>1. UnlinkedThreads \in SUBSET Thread
  BY DEF UnlinkedThreads
<1>2. KernelInv(k, UnlinkedThreads)
  BY DEF SchedulerInv
<1>3. t = k.cur /\ pc[t] = at /\ isr = "none"
  BY DEF Executes
<1>4. t \notin UnlinkedThreads
  BY <1>2, <1>3 DEF KernelInv, CurrentOf
<1>5. /\ at \notin {"sched", "sleep"} => k.stat[t] = "RUNNING"
      /\ at = "detach" => k.nest = 0
  BY <1>3 DEF SchedulerInv, CurrentProceeds
<1> QED BY <1>1, <1>2, <1>3, <1>4, <1>5 DEF KernelInv, SchedulerInv, TypeOK

\* rt_schedule() at the end of a call.
LEMMA ScheduleStep ==
  ASSUME SchedulerInv, NEW t \in Thread, Schedule(t)
  PROVE  SchedulerInv' /\ LockRespected /\ NoneRevived
<1>1. PICK at \in {"sched", "sleep"} : Executes(t, at)
  BY DEF Schedule, Reschedule
<1>2. /\ KernelInv(k, UnlinkedThreads) /\ UnlinkedThreads \in SUBSET Thread
      /\ t = k.cur /\ pc[t] = at /\ isr = "none"
      /\ pc \in [Thread -> {"run", "sched", "sleep", "awake", "detach", "resume"}]
  BY <1>1, Executing
<1>3. k' = rt_schedule(k) /\ isr' = isr /\ victim' = victim /\ freed' = freed
  BY DEF Schedule, Reschedule
<1>4. /\ pc' \in [Thread -> {"run", "sched", "sleep", "awake", "detach", "resume"}]
      /\ \A u \in Thread : pc'[u] = "detach" <=> pc[u] = "detach"
      /\ \A u \in Thread : pc'[u] = "resume" => pc[u] = "resume"
  BY <1>2 DEF Schedule, Reschedule, Executes
<1>5. KernelInv(k', UnlinkedThreads) /\ Keeps(k', k)
  BY <1>2, <1>3, ScheduleInv
<1>6. k'.stat[k'.cur] = "RUNNING"
  <2>1. CASE k.nest = 0
    BY <1>2, <1>3, <2>1, ScheduleRuns
  <2>2. CASE k.nest # 0
    <3>1. k' = k
      BY <1>3, <2>2 DEF rt_schedule
    <3> QED BY <2>2, <3>1 DEF SchedulerInv, CurrentProceeds
  <2> QED BY <2>1, <2>2
<1> QED BY <1>2, <1>3, <1>4, <1>5, <1>6, KeepsStep

\* The calls that start, resume, reprioritise or yield.
LEMMA WakeStep ==
  ASSUME SchedulerInv, NEW t \in Thread, NEW u \in Thread, Startup(t, u) \/ Resume(t, u)
  PROVE  SchedulerInv' /\ LockRespected /\ NoneRevived
<1>1. Executes(t, "run") /\ ~InDeletion(u) /\ ThenSchedule(t)
  BY DEF Startup, Resume, MayCall, Usable
<1>2. /\ KernelInv(k, UnlinkedThreads) /\ UnlinkedThreads \in SUBSET Thread
      /\ t = k.cur /\ pc[t] = "run" /\ isr = "none" /\ k.stat[t] = "RUNNING"
      /\ pc \in [Thread -> {"run", "sched", "sleep", "awake", "detach", "resume"}]
  BY <1>1, Executing
<1>3. u \in Thread \ UnlinkedThreads
  BY <1>1, NotUnlinked
<1>4. /\ isr' = isr /\ victim' = victim /\ freed' = freed
      /\ pc' \in [Thread -> {"run", "sched", "sleep", "awake", "detach", "resume"}]
      /\ \A v \in Thread : pc'[v] = "detach" <=> pc[v] = "detach"
      /\ \A v \in Thread : pc'[v] = "resume" => pc[v] = "resume"
  BY <1>1, <1>2 DEF ThenSchedule
<1>5. KernelInv(k', UnlinkedThreads) /\ Keeps(k', k)
  <2>1. CASE Startup(t, u)
    <3> DEFINE s == [k EXCEPT !.stat[u] = "SUSPEND", !.yield[u] = FALSE]
               r == rt_thread_resume(s, u)
    <3>1. k' = r /\ k.stat[u] = "INIT"
      BY <2>1 DEF Startup
    <3>2. KernelInv(s, UnlinkedThreads) /\ Keeps(s, k)
      BY <1>2, <1>3, <3>1, StartInv
    <3> HIDE DEF s
    <3>3. KernelInv(r, UnlinkedThreads) /\ Keeps(r, s)
      BY <1>2, <1>3, <3>2, ResumeInv
    <3> HIDE DEF r
    <3>4. Keeps(r, k)
      BY <3>2, <3>3, KeepsTrans DEF KernelInv
    <3> QED BY <3>1, <3>3, <3>4
  <2>2. CASE Resume(t, u)
    <3>1. k' = rt_thread_resume(k, u)
      BY <2>2 DEF Resume
    <3> QED BY <1>2, <1>3, <3>1, ResumeInv
  <2> QED BY <2>1, <2>2
<1>6. k'.stat[k'.cur] = "RUNNING"
  BY <1>2, <1>5 DEF Keeps
<1> QED BY <1>2, <1>4, <1>5, <1>6, KeepsStep

\* Giving up the processor (rt_thread_yield) preserves the invariant.
LEMMA YieldStep ==
  ASSUME SchedulerInv, NEW t \in Thread, Yield(t)
  PROVE  SchedulerInv' /\ LockRespected /\ NoneRevived
<1>1. Executes(t, "run")
  BY DEF Yield, MayCall
<1>2. /\ KernelInv(k, UnlinkedThreads) /\ UnlinkedThreads \in SUBSET Thread
      /\ t = k.cur /\ isr = "none" /\ k \in KernelState
      /\ pc \in [Thread -> {"run", "sched", "sleep", "awake", "detach", "resume"}]
  BY <1>1, Executing
<1> DEFINE y == [k EXCEPT !.slice[t] = InitTick[t], !.yield[t] = TRUE]
<1>3. k' = rt_schedule(y) /\ UNCHANGED <<isr, pc, victim, freed>>
  BY DEF Yield, Returns
<1>4. y \in KernelState /\ SameLists(y, k) /\ y.nest = k.nest
  BY <1>2, KernelAssumption DEF KernelState, SameLists
<1> HIDE DEF y
<1>5. KernelInv(y, UnlinkedThreads) /\ Keeps(y, k)
  BY <1>2, <1>4, FieldsInv
<1>6. KernelInv(k', UnlinkedThreads) /\ Keeps(k', y)
  BY <1>2, <1>3, <1>5, ScheduleInv
<1>7. Keeps(k', k)
  BY <1>5, <1>6, KeepsTrans DEF KernelInv
<1> QED BY <1>2, <1>3, <1>6, <1>7, KeepsStep

\* RT_THREAD_CTRL_CHANGE_PRIORITY preserves the invariant.
LEMMA SetPriorityStep ==
  ASSUME SchedulerInv, NEW t \in Thread, NEW u \in Thread, NEW p \in Prio, SetPriority(t, u, p)
  PROVE  SchedulerInv' /\ LockRespected /\ NoneRevived
<1>1. Executes(t, "run") /\ ~InDeletion(u)
  BY DEF SetPriority, MayCall, Usable
<1>2. /\ KernelInv(k, UnlinkedThreads) /\ UnlinkedThreads \in SUBSET Thread /\ isr = "none"
      /\ pc \in [Thread -> {"run", "sched", "sleep", "awake", "detach", "resume"}]
  BY <1>1, Executing
<1>3. u \in Thread \ UnlinkedThreads
  BY <1>1, NotUnlinked
<1>4. k' = ChangePriority(k, u, p) /\ UNCHANGED <<isr, pc, victim, freed>>
  BY DEF SetPriority, Returns
<1>5. KernelInv(k', UnlinkedThreads) /\ Keeps(k', k)
  BY <1>2, <1>3, <1>4, ChangePriorityInv
<1> QED BY <1>2, <1>4, <1>5, KeepsStep

\* The end of rt_thread_sleep, which clears the error, preserves the invariant.
LEMMA SleepEndStep ==
  ASSUME SchedulerInv, NEW t \in Thread, WakeUp(t)
  PROVE  SchedulerInv' /\ LockRespected /\ NoneRevived
<1>1. Executes(t, "awake")
  BY DEF WakeUp, SleepEnd
<1>2. /\ KernelInv(k, UnlinkedThreads) /\ isr = "none" /\ k \in KernelState
      /\ t = k.cur /\ k.stat[t] = "RUNNING" /\ pc[t] = "awake"
      /\ pc \in [Thread -> {"run", "sched", "sleep", "awake", "detach", "resume"}]
  BY <1>1, Executing
<1>3. /\ isr' = isr /\ victim' = victim /\ freed' = freed
      /\ pc' \in [Thread -> {"run", "sched", "sleep", "awake", "detach", "resume"}]
      /\ \A v \in Thread : pc'[v] = "detach" <=> pc[v] = "detach"
      /\ \A v \in Thread : pc'[v] = "resume" => pc[v] = "resume"
  BY <1>2 DEF WakeUp, SleepEnd
<1>4. k' = [k EXCEPT !.err[t] = IF @ = "ETIMEOUT" THEN "EOK" ELSE @]
  BY DEF WakeUp, SleepEnd
<1>5. k' \in KernelState /\ SameLists(k', k) /\ k'.nest = k.nest
  BY <1>2, <1>4 DEF KernelState, SameLists, Error
<1>6. KernelInv(k', UnlinkedThreads) /\ Keeps(k', k)
  BY <1>2, <1>5, FieldsInv
<1>7. k'.stat[k'.cur] = "RUNNING"
  BY <1>2, <1>6 DEF Keeps
<1> QED BY <1>2, <1>3, <1>6, <1>7, KeepsStep

\* The tick and device interrupts.
LEMMA InterruptStep ==
  ASSUME SchedulerInv, TickInterrupt \/ \E u \in Thread : IsrResume(u)
  PROVE  SchedulerInv' /\ LockRespected /\ NoneRevived
<1>1. /\ KernelInv(k, UnlinkedThreads) /\ UnlinkedThreads \in SUBSET Thread
      /\ pc \in [Thread -> {"run", "sched", "sleep", "awake", "detach", "resume"}]
      /\ isr \in {"none", "check"}
  BY DEF SchedulerInv, TypeOK, UnlinkedThreads
<1>2. /\ pc' = pc /\ victim' = victim /\ freed' = freed /\ isr' \in {"none", "check"}
  BY <1>1 DEF TickInterrupt, Interrupt, Tick, TimerFire, TimerCheckEnd, IsrResume, Returns
<1>3. KernelInv(k', UnlinkedThreads) /\ Keeps(k', k)
  <2>1. CASE Tick
    <3>1. k' = rt_tick_increase(k)
      BY <2>1 DEF Tick
    <3> QED BY <1>1, <3>1, TickInv
  <2>2. CASE TimerFire
    <3> DEFINE t == Head(k.timers).thr
    <3>1. k' = _thread_timeout(k, t) /\ k.timers # <<>>
      BY <2>2 DEF TimerFire, TimerExpired
    <3>2. k.timers \in Seq(Timer)
      BY <1>1 DEF KernelInv, KernelState
    <3>3. 1 \in DOMAIN k.timers /\ k.timers[1] \in Timer /\ t = k.timers[1].thr
      BY <3>1, <3>2
    <3>4. t \in Thread
      BY <3>3 DEF Timer
    <3>5. k.stat[t] = "SUSPEND" /\ t \notin UnlinkedThreads
      BY <1>1, <3>3 DEF KernelInv, ListsConsistent, TimersOf
    <3> HIDE DEF t
    <3> QED BY <1>1, <3>1, <3>4, <3>5, TimeoutInv
  <2>3. CASE TimerCheckEnd
    BY <1>1, <2>3 DEF TimerCheckEnd, Keeps
  <2>4. ASSUME NEW u \in Thread, IsrResume(u)
        PROVE  KernelInv(k', UnlinkedThreads) /\ Keeps(k', k)
    <3> DEFINE r == rt_thread_resume(k, u)
    <3>1. k' = rt_schedule(r) /\ ~InDeletion(u)
      BY <2>4 DEF IsrResume, Usable
    <3>2. u \in Thread \ UnlinkedThreads
      BY <3>1, NotUnlinked
    <3>3. KernelInv(r, UnlinkedThreads) /\ Keeps(r, k)
      BY <1>1, <3>2, ResumeInv
    <3> HIDE DEF r
    <3>4. KernelInv(k', UnlinkedThreads) /\ Keeps(k', r)
      BY <1>1, <3>1, <3>3, ScheduleInv
    <3>5. Keeps(k', k)
      BY <3>3, <3>4, KeepsTrans DEF KernelInv
    <3> QED BY <3>4, <3>5
  <2> QED BY <2>1, <2>2, <2>3, <2>4 DEF TickInterrupt, Interrupt
<1> QED BY <1>1, <1>2, <1>3, KeepsStep

\* The running thread suspends itself, with or without a timer.
LEMMA SuspendStep ==
  ASSUME SchedulerInv, NEW t \in Thread, Suspend(t) \/ \E n \in 0 .. MaxSleep : Sleep(t, n)
  PROVE  SchedulerInv' /\ LockRespected /\ NoneRevived
<1>1. Executes(t, "run") /\ MayBlock(t)
  BY DEF Suspend, Sleep, SleepBegin, MayCall
<1>2. /\ KernelInv(k, UnlinkedThreads) /\ UnlinkedThreads \in SUBSET Thread
      /\ t = k.cur /\ t \in Thread \ UnlinkedThreads
      /\ pc[t] = "run" /\ isr = "none" /\ k.stat[t] = "RUNNING" /\ k \in KernelState
      /\ pc \in [Thread -> {"run", "sched", "sleep", "awake", "detach", "resume"}]
  BY <1>1, Executing
<1>3. /\ isr' = isr /\ victim' = victim /\ freed' = freed
      /\ pc' \in [Thread -> {"run", "sched", "sleep", "awake", "detach", "resume"}]
      /\ \A v \in Thread : pc'[v] = "detach" <=> pc[v] = "detach"
      /\ \A v \in Thread : pc'[v] = "resume" => pc[v] = "resume"
      /\ pc'[t] \in {"sched", "sleep"}
  BY <1>2 DEF Suspend, Sleep, SleepBegin, ThenSchedule
<1>4. t # Idle /\ k.nest = 0
  BY <1>1 DEF MayBlock
<1>5. /\ KernelInv(k', UnlinkedThreads)
      /\ k'.cur = t /\ k'.nest = 0 /\ ToSet(k'.defunct) = ToSet(k.defunct)
      /\ \A u \in Thread : k'.stat[u] = IF u = t THEN "SUSPEND" ELSE k.stat[u]
  <2>1. CASE Suspend(t)
    <3>1. k' = rt_thread_suspend(k, t)
      BY <2>1 DEF Suspend
    <3> QED BY <1>2, <1>4, <3>1, SuspendInv
  <2>2. ASSUME NEW n \in 0 .. MaxSleep, Sleep(t, n)
        PROVE  /\ KernelInv(k', UnlinkedThreads)
               /\ k'.cur = t /\ k'.nest = 0 /\ ToSet(k'.defunct) = ToSet(k.defunct)
               /\ \A u \in Thread : k'.stat[u] = IF u = t THEN "SUSPEND" ELSE k.stat[u]
    <3> DEFINE e == [k EXCEPT !.err[t] = "EOK"]
               s == rt_thread_suspend(e, t)
    <3>1. k' = TimerStart(s, t, n)
      BY <2>2 DEF Sleep, SleepBegin
    <3>2. e \in KernelState /\ SameLists(e, k) /\ e.nest = k.nest
      BY <1>2 DEF KernelState, SameLists, Error
    <3> HIDE DEF e
    <3>3. KernelInv(e, UnlinkedThreads)
      BY <1>2, <3>2, FieldsInv
    <3>4. e.stat = k.stat /\ e.cur = k.cur /\ e.defunct = k.defunct
      BY <3>2 DEF SameLists
    <3>5. /\ KernelInv(s, UnlinkedThreads)
          /\ s.cur = e.cur /\ s.nest = e.nest /\ ToSet(s.defunct) = ToSet(e.defunct)
          /\ \A u \in Thread : s.stat[u] = IF u = t THEN "SUSPEND" ELSE e.stat[u]
      BY <1>2, <1>4, <3>3, <3>4, SuspendInv
    <3> HIDE DEF s
    <3>6. n \in Nat
      BY SchedulerAssumption
    <3>7. k' \in KernelState /\ SameButTimers(k', s) /\ ListsConsistent(k', UnlinkedThreads)
      BY <1>2, <3>1, <3>5, <3>6, TimerStartInv DEF KernelInv
    <3>8. KernelInv(k', UnlinkedThreads)
      BY <3>5, <3>7 DEF KernelInv, CurrentOf, SameButTimers
    <3> QED BY <1>2, <1>4, <3>2, <3>4, <3>5, <3>7, <3>8 DEF SameButTimers
  <2> QED BY <2>1, <2>2
<1>6. UnlinkedThreads' = UnlinkedThreads
  BY <1>3, SameUnlinked
<1>7. TypeOK'
  BY <1>2, <1>3, <1>5 DEF SchedulerInv, TypeOK, KernelInv
<1>8. CurrentProceeds'
  BY <1>3, <1>5 DEF CurrentProceeds
<1>9. DeletionsDistinct'
  <2>1. \A u \in Thread : victim[u] \in Thread
    BY DEF SchedulerInv, TypeOK
  <2> QED BY <1>3, <1>5, <2>1 DEF SchedulerInv, DeletionsDistinct
<1>10. \A u \in freed' : k'.stat[u] = "CLOSE" /\ u \notin ToSet(k'.defunct) /\ u # k'.cur
  BY <1>2, <1>3, <1>5 DEF SchedulerInv, TypeOK
<1>11. LockRespected /\ NoneRevived
  BY <1>2, <1>5 DEF LockRespected, NoneRevived
<1>12. ResumesWhole'
  BY <1>3 DEF SchedulerInv, ResumesWhole
<1> QED BY <1>5, <1>6, <1>7, <1>8, <1>9, <1>10, <1>11, <1>12 DEF SchedulerInv

\* The scheduler's lock.
LEMMA CriticalStep ==
  ASSUME SchedulerInv, NEW t \in Thread, EnterCritical(t) \/ ExitCritical(t)
  PROVE  SchedulerInv' /\ LockRespected /\ NoneRevived
<1>1. Executes(t, "run")
  BY DEF EnterCritical, ExitCritical, MayCall
<1>2. /\ KernelInv(k, UnlinkedThreads) /\ t = k.cur
      /\ pc[t] = "run" /\ isr = "none" /\ k.stat[t] = "RUNNING" /\ k \in KernelState
      /\ pc \in [Thread -> {"run", "sched", "sleep", "awake", "detach", "resume"}]
  BY <1>1, Executing
<1>3. /\ isr' = isr /\ victim' = victim /\ freed' = freed
      /\ pc' \in [Thread -> {"run", "sched", "sleep", "awake", "detach", "resume"}]
      /\ \A v \in Thread : pc'[v] = "detach" <=> pc[v] = "detach"
      /\ \A v \in Thread : pc'[v] = "resume" => pc[v] = "resume"
  BY <1>2 DEF EnterCritical, ExitCritical, ThenSchedule, Returns
<1>4. PICK n \in Nat : k' = [k EXCEPT !.nest = n]
  <2>1. k.nest \in Nat
    BY <1>2 DEF KernelState
  <2>2. CASE EnterCritical(t)
    BY <2>1, <2>2 DEF EnterCritical
  <2>3. CASE ExitCritical(t)
    <3> DEFINE n == IF k.nest <= 1 THEN 0 ELSE k.nest - 1
    <3>1. n \in Nat /\ k' = [k EXCEPT !.nest = n]
      BY <2>1, <2>3 DEF ExitCritical
    <3> QED BY <3>1
  <2> QED BY <2>2, <2>3
<1>5. k' \in KernelState /\ SameLists(k', k)
  BY <1>2, <1>4 DEF KernelState, SameLists
<1>6. KernelInv(k', UnlinkedThreads)
  <2>1. ListsConsistent(k', UnlinkedThreads)
    BY <1>2, <1>5, OtherFields DEF KernelInv, SameLists
  <2> QED BY <1>2, <1>5, <2>1 DEF KernelInv, CurrentOf, SameLists
<1>7. UnlinkedThreads' = UnlinkedThreads
  BY <1>3, SameUnlinked
<1>8. TypeOK'
  BY <1>2, <1>3, <1>5 DEF SchedulerInv, TypeOK
<1>9. CurrentProceeds'
  BY <1>2, <1>3, <1>5 DEF CurrentProceeds, SameLists
<1>10. DeletionsDistinct'
  BY <1>3, <1>5 DEF SchedulerInv, DeletionsDistinct, SameLists
<1>11. \A u \in freed' : k'.stat[u] = "CLOSE" /\ u \notin ToSet(k'.defunct) /\ u # k'.cur
  BY <1>3, <1>5 DEF SchedulerInv, SameLists
<1>12. LockRespected /\ NoneRevived
  BY <1>5 DEF LockRespected, SameLists, NoneRevived
<1>13. ResumesWhole'
  BY <1>3 DEF SchedulerInv, ResumesWhole
<1> QED BY <1>6, <1>7, <1>8, <1>9, <1>10, <1>11, <1>12, <1>13 DEF SchedulerInv

\* _thread_exit: the thread that runs is closed and left to the idle thread.
LEMMA ExitStep ==
  ASSUME SchedulerInv, NEW t \in Thread, Exit(t)
  PROVE  SchedulerInv' /\ LockRespected /\ NoneRevived
<1>1. Executes(t, "run") /\ MayBlock(t)
  BY DEF Exit, MayCall
<1> DEFINE X == UnlinkedThreads
<1>2. /\ KernelInv(k, X) /\ X \in SUBSET Thread
      /\ ListsConsistent(k, X) /\ CurrentOf(k, X)
      /\ t = k.cur /\ t \in Thread \ X
      /\ pc[t] = "run" /\ isr = "none" /\ k.stat[t] = "RUNNING" /\ k \in KernelState
      /\ pc \in [Thread -> {"run", "sched", "sleep", "awake", "detach", "resume"}]
  BY <1>1, Executing
<1>3. /\ isr' = isr /\ victim' = victim /\ freed' = freed
      /\ pc' \in [Thread -> {"run", "sched", "sleep", "awake", "detach", "resume"}]
      /\ \A v \in Thread : pc'[v] = "detach" <=> pc[v] = "detach"
      /\ \A v \in Thread : pc'[v] = "resume" => pc[v] = "resume"
      /\ pc'[t] = "sched"
  BY <1>2 DEF Exit, ThenSchedule
<1>4. t # Idle /\ k.nest = 0
  BY <1>1 DEF MayBlock
<1> DEFINE l == rt_schedule_remove_thread(k, t)
           s == TimerStop(l, t)
<1>5. k' = Close(s, t)
  BY DEF Exit
<1>6. ~TimerArmed(k, t)
  BY <1>2 DEF ListsConsistent, TimersOf, TimerArmed
<1> HIDE DEF X
<1>7. /\ l \in KernelState /\ SameBut(l, k) /\ ListsConsistent(l, X \cup {t})
      /\ ToSet(l.defunct) = ToSet(k.defunct) \ {t}
  BY <1>2, <1>6, TakeOut
<1> HIDE DEF l
<1>8. s \in KernelState /\ SameButTimers(s, l) /\ ListsConsistent(s, X \cup {t})
  BY <1>7, TimerStopInv
<1> HIDE DEF s
<1>9. /\ k' \in KernelState /\ ListsConsistent(k', (X \cup {t}) \ {t})
      /\ ToSet(k'.defunct) = ToSet(s.defunct) \cup {t}
      /\ k'.cur = s.cur /\ k'.nest = s.nest
      /\ \A u \in Thread : k'.stat[u] = IF u = t THEN "CLOSE" ELSE s.stat[u]
  <2> DEFINE Y == X \cup {t}
             c == Close(s, t)
  <2>1. t \in Y /\ ListsConsistent(s, Y)
    BY <1>8
  <2> HIDE DEF Y
  <2>2. /\ c \in KernelState /\ ListsConsistent(c, Y \ {t})
        /\ ToSet(c.defunct) = ToSet(s.defunct) \cup {t}
        /\ c.cur = s.cur /\ c.nest = s.nest
        /\ \A u \in Thread : c.stat[u] = IF u = t THEN "CLOSE" ELSE s.stat[u]
    BY <1>8, <2>1, PutDefunct
  <2> HIDE DEF c
  <2>3. k' = c
    BY <1>5 DEF c
  <2> QED BY <2>2, <2>3 DEF Y
<1>10. (X \cup {t}) \ {t} = X
  BY <1>2
<1>11. /\ k'.cur = t /\ k'.nest = 0 /\ ToSet(k'.defunct) = ToSet(k.defunct) \cup {t}
       /\ \A u \in Thread : k'.stat[u] = IF u = t THEN "CLOSE" ELSE k.stat[u]
  <2>1. s.stat = k.stat /\ s.cur = k.cur /\ s.nest = k.nest /\ s.defunct = l.defunct
    BY <1>7, <1>8 DEF SameBut, SameButTimers
  <2>2. \A S, T : S \cup {t} = (S \ {t}) \cup {t}
    OBVIOUS
  <2> QED BY <1>2, <1>4, <1>7, <1>9, <2>1, <2>2
<1>12. KernelInv(k', X)
  <2>1. CurrentOf(k', X)
    BY <1>2, <1>4, <1>11, KernelAssumption DEF CurrentOf
  <2> QED BY <1>9, <1>10, <2>1 DEF KernelInv
<1>13. UnlinkedThreads' = X
  BY <1>3, SameUnlinked DEF X
<1>14. TypeOK'
  BY <1>2, <1>3, <1>9 DEF SchedulerInv, TypeOK
<1>15. CurrentProceeds'
  BY <1>3, <1>11 DEF CurrentProceeds
<1>16. DeletionsDistinct'
  <2>1. \A u \in Thread : victim[u] \in Thread
    BY DEF SchedulerInv, TypeOK
  <2>2. \A u \in Thread : pc[u] = "detach" => victim[u] # t
    BY <1>2 DEF X, UnlinkedThreads
  <2> QED BY <1>3, <1>11, <2>1, <2>2 DEF SchedulerInv, DeletionsDistinct
<1>17. \A u \in freed' : k'.stat[u] = "CLOSE" /\ u \notin ToSet(k'.defunct) /\ u # k'.cur
  BY <1>2, <1>3, <1>11 DEF SchedulerInv, TypeOK
<1>18. LockRespected /\ NoneRevived
  BY <1>2, <1>11 DEF LockRespected, NoneRevived
<1>19. ResumesWhole'
  BY <1>3 DEF SchedulerInv, ResumesWhole
<1> QED BY <1>12, <1>13, <1>14, <1>15, <1>16, <1>17, <1>18, <1>19 DEF SchedulerInv

\* The idle thread releases a thread.
LEMMA ReapStep ==
  ASSUME SchedulerInv, Reap
  PROVE  SchedulerInv' /\ LockRespected /\ NoneRevived
<1> DEFINE h == Head(k.defunct)
<1>1. KernelInv(k, UnlinkedThreads) /\ k.cur = Idle /\ k.stat[Idle] # "CLOSE"
  BY DEF SchedulerInv, Reap, Executes, KernelInv, CurrentOf
<1>2. /\ k.defunct # <<>> /\ k' = [k EXCEPT !.defunct = Tail(@)]
      /\ freed' = freed \cup {h} /\ UNCHANGED <<isr, pc, victim>>
  BY DEF Reap
<1>3. /\ KernelInv(k', UnlinkedThreads)
      /\ ToSet(k'.defunct) = ToSet(k.defunct) \ {h}
      /\ k'.stat = k.stat /\ k'.cur = k.cur /\ k'.nest = k.nest
      /\ h \in Thread /\ k.stat[h] = "CLOSE"
  BY <1>1, <1>2, ReapInv
<1> HIDE DEF h
<1>4. UnlinkedThreads' = UnlinkedThreads
  BY <1>2, SameUnlinked
<1>5. TypeOK'
  BY <1>2, <1>3 DEF SchedulerInv, TypeOK, KernelInv
<1>6. CurrentProceeds' /\ DeletionsDistinct'
  BY <1>2, <1>3 DEF SchedulerInv, CurrentProceeds, DeletionsDistinct
<1>7. \A u \in freed' : k'.stat[u] = "CLOSE" /\ u \notin ToSet(k'.defunct) /\ u # k'.cur
  BY <1>1, <1>2, <1>3 DEF SchedulerInv
<1>8. LockRespected /\ NoneRevived
  BY <1>3 DEF LockRespected, NoneRevived
<1>9. ResumesWhole'
  BY <1>2 DEF SchedulerInv, ResumesWhole
<1> QED BY <1>3, <1>4, <1>5, <1>6, <1>7, <1>8, <1>9 DEF SchedulerInv

\* rt_thread_delete unlinks a thread that has no armed timer.
LEMMA DeleteStep ==
  ASSUME SchedulerInv, Orderly, NEW t \in Thread, NEW u \in Thread, Delete(t, u)
  PROVE  SchedulerInv' /\ LockRespected /\ NoneRevived
<1> DEFINE X == UnlinkedThreads
           Y == IF u = t THEN X ELSE X \cup {u}
<1>1. /\ Executes(t, "run") /\ ~InDeletion(u) /\ ~TimerArmed(k, u)
      /\ u # Idle /\ k.nest = 0 /\ k.stat[u] # "CLOSE"
  BY DEF Orderly, Delete, MayCall, Usable
<1>2. /\ KernelInv(k, X) /\ X \in SUBSET Thread
      /\ ListsConsistent(k, X) /\ CurrentOf(k, X)
      /\ t = k.cur /\ t \in Thread \ X
      /\ pc[t] = "run" /\ isr = "none" /\ k.stat[t] = "RUNNING" /\ k \in KernelState
      /\ pc \in [Thread -> {"run", "sched", "sleep", "awake", "detach", "resume"}]
      /\ victim \in [Thread -> Thread]
  BY <1>1, Executing
<1>3. /\ isr' = isr /\ freed' = freed
      /\ pc' = [pc EXCEPT ![t] = "detach"] /\ victim' = [victim EXCEPT ![t] = u]
      /\ k' = IF k.stat[u] = "INIT" THEN k ELSE rt_schedule_remove_thread(k, u)
  BY DEF Delete
<1>4. UnlinkedThreads' = Y
  <2>1. \A v \in Thread : v \in UnlinkedThreads' <=>
          \E w \in Thread \ {v} : pc'[w] = "detach" /\ victim'[w] = v
    BY DEF UnlinkedThreads
  <2>2. \A v \in Thread : v \in X <=> \E w \in Thread \ {v} : pc[w] = "detach" /\ victim[w] = v
    BY DEF UnlinkedThreads
  <2>3. \A w \in Thread : /\ w # t => pc'[w] = pc[w] /\ victim'[w] = victim[w]
                          /\ pc'[t] = "detach" /\ victim'[t] = u /\ pc[t] # "detach"
    BY <1>2, <1>3
  <2>4. \A v \in Thread : v \in UnlinkedThreads' <=> v \in Y
    BY <2>1, <2>2, <2>3
  <2>5. UnlinkedThreads' \subseteq Thread /\ Y \subseteq Thread
    BY <1>2 DEF UnlinkedThreads
  <2> QED BY <2>4, <2>5
<1>5. u \in Thread \ X
  BY <1>1, NotUnlinked
<1> HIDE DEF X
<1>6. /\ k' \in KernelState /\ ListsConsistent(k', X \cup {u})
      /\ SameBut(k', k) /\ ToSet(k'.defunct) = ToSet(k.defunct)
  <2>1. CASE k.stat[u] = "INIT"
    <3>1. ListsConsistent(k, X \cup {u})
      BY <1>2, <2>1, AddExempt
    <3>2. k' = k
      BY <1>3, <2>1
    <3> QED BY <1>2, <3>1, <3>2 DEF SameBut
  <2>2. CASE k.stat[u] # "INIT"
    <3> DEFINE l == rt_schedule_remove_thread(k, u)
    <3>1. /\ l \in KernelState /\ SameBut(l, k) /\ ListsConsistent(l, X \cup {u})
          /\ ToSet(l.defunct) = ToSet(k.defunct) \ {u}
      BY <1>1, <1>2, TakeOut
    <3> HIDE DEF l
    <3>2. k' = l
      BY <1>3, <2>2 DEF l
    <3>3. u \notin ToSet(k.defunct)
      BY <1>1, <1>2 DEF ListsConsistent, DefunctOf
    <3> QED BY <3>1, <3>2, <3>3
  <2> QED BY <2>1, <2>2
<1>7. k'.stat = k.stat /\ k'.cur = k.cur /\ k'.nest = k.nest
  BY <1>6 DEF SameBut
<1>8. KernelInv(k', Y)
  <2>1. CASE u = t
    <3>1. (X \cup {u}) \ {u} = X
      BY <1>5
    <3>2. ListsConsistent(k', X)
      BY <1>2, <1>6, <1>7, <2>1, <3>1, DropExempt
    <3> QED BY <1>2, <1>6, <1>7, <2>1, <3>2 DEF KernelInv, CurrentOf
  <2>2. CASE u # t
    <3>1. k.stat[u] # "RUNNING"
      BY <1>2, <1>5, <2>2 DEF ListsConsistent, ReadyTableOf
    <3>2. CurrentOf(k', X \cup {u})
      BY <1>1, <1>2, <1>7, <2>2, <3>1 DEF CurrentOf
    <3> QED BY <1>6, <2>2, <3>2 DEF KernelInv
  <2> QED BY <2>1, <2>2
<1> HIDE DEF Y
<1>9. TypeOK'
  BY <1>2, <1>3, <1>6 DEF SchedulerInv, TypeOK
<1>10. CurrentProceeds'
  BY <1>1, <1>2, <1>7 DEF CurrentProceeds
<1>11. DeletionsDistinct'
  <2>1. \A w \in Thread : pc[w] = "detach" => victim[w] # u
    BY <1>1 DEF InDeletion
  <2>2. \A w \in Thread : IF w = t THEN pc'[w] = "detach" /\ victim'[w] = u
                          ELSE pc'[w] = pc[w] /\ victim'[w] = victim[w]
    BY <1>2, <1>3
  <2> QED BY <1>1, <1>7, <2>1, <2>2 DEF SchedulerInv, DeletionsDistinct
<1>12. \A v \in freed' : k'.stat[v] = "CLOSE" /\ v \notin ToSet(k'.defunct) /\ v # k'.cur
  BY <1>3, <1>6, <1>7 DEF SchedulerInv
<1>13. LockRespected /\ NoneRevived
  BY <1>7 DEF LockRespected, NoneRevived
<1>14. ResumesWhole'
  BY <1>2, <1>3 DEF SchedulerInv, ResumesWhole
<1> QED BY <1>4, <1>8, <1>9, <1>10, <1>11, <1>12, <1>13, <1>14 DEF SchedulerInv

\* The deletion ends: the thread is closed and left to the idle thread.
LEMMA DeleteEndStep ==
  ASSUME SchedulerInv, NEW t \in Thread, DeleteEnd(t)
  PROVE  SchedulerInv' /\ LockRespected /\ NoneRevived
<1> DEFINE X == UnlinkedThreads
           u == victim[t]
           Y == X \cup {u}
           s == TimerStop(k, u)
           c == Close(s, u)
<1>1. Executes(t, "detach")
  BY DEF DeleteEnd
<1>2. /\ KernelInv(k, X) /\ X \in SUBSET Thread
      /\ ListsConsistent(k, X) /\ CurrentOf(k, X)
      /\ t = k.cur /\ t \in Thread \ X
      /\ pc[t] = "detach" /\ isr = "none" /\ k.stat[t] = "RUNNING" /\ k \in KernelState
      /\ pc \in [Thread -> {"run", "sched", "sleep", "awake", "detach", "resume"}]
      /\ victim \in [Thread -> Thread] /\ k.nest = 0
  BY <1>1, Executing
<1>3. /\ isr' = isr /\ freed' = freed
      /\ pc' = [pc EXCEPT ![t] = "sched"] /\ victim' = [victim EXCEPT ![t] = Idle]
      /\ k' = c
  BY DEF DeleteEnd
<1>4. /\ u \in Thread /\ u # Idle /\ k.stat[u] # "CLOSE"
      /\ \A w \in Thread : pc[w] = "detach" /\ victim[w] = u => w = t
  BY <1>2 DEF SchedulerInv, DeletionsDistinct
<1>5. UnlinkedThreads' = X \ {u}
  <2>1. \A v \in Thread : v \in UnlinkedThreads' <=>
          \E w \in Thread \ {v} : pc'[w] = "detach" /\ victim'[w] = v
    BY DEF UnlinkedThreads
  <2>2. \A v \in Thread : v \in X <=> \E w \in Thread \ {v} : pc[w] = "detach" /\ victim[w] = v
    BY DEF UnlinkedThreads
  <2>3. \A w \in Thread : /\ w # t => pc'[w] = pc[w] /\ victim'[w] = victim[w]
                          /\ pc'[t] # "detach"
    BY <1>2, <1>3
  <2>4. ASSUME NEW v \in Thread
        PROVE  v \in UnlinkedThreads' <=> v \in X \ {u}
    <3>1. CASE v = u
      BY <1>4, <2>1, <2>3, <3>1
    <3>2. CASE v # u
      BY <2>1, <2>2, <2>3, <3>2
    <3> QED BY <3>1, <3>2
  <2>5. UnlinkedThreads' \subseteq Thread /\ X \subseteq Thread
    BY <1>2 DEF UnlinkedThreads
  <2> QED BY <2>4, <2>5
<1>6. u = t \/ u \in X
  BY <1>2, <1>4 DEF UnlinkedThreads
<1> HIDE DEF X, u
<1>7. ListsConsistent(k, Y)
  <2>1. CASE u = t
    BY <1>2, <2>1, AddExempt
  <2>2. CASE u \in X
    <3>1. Y = X
      BY <2>2
    <3> QED BY <1>2, <3>1
  <2> QED BY <1>6, <2>1, <2>2
<1>8. u \in Y
  OBVIOUS
<1>18. Y \ {u} = X \ {u}
  OBVIOUS
<1> HIDE DEF Y
<1>9. s \in KernelState /\ SameButTimers(s, k) /\ ListsConsistent(s, Y)
  BY <1>2, <1>4, <1>7, TimerStopInv
<1> HIDE DEF s
<1>10. /\ c \in KernelState /\ ListsConsistent(c, Y \ {u})
       /\ ToSet(c.defunct) = ToSet(s.defunct) \cup {u}
       /\ c.cur = s.cur /\ c.nest = s.nest
       /\ \A v \in Thread : c.stat[v] = IF v = u THEN "CLOSE" ELSE s.stat[v]
  <2>1. u \in Thread /\ s \in KernelState /\ ListsConsistent(s, Y)
    BY <1>4, <1>9
  <2> QED BY <1>8, <2>1, PutDefunct
<1> HIDE DEF c
<1>11. /\ k' \in KernelState /\ ListsConsistent(k', X \ {u})
       /\ ToSet(k'.defunct) = ToSet(k.defunct) \cup {u}
       /\ k'.cur = k.cur /\ k'.nest = 0
       /\ \A v \in Thread : k'.stat[v] = IF v = u THEN "CLOSE" ELSE k.stat[v]
  BY <1>2, <1>3, <1>18, <1>9, <1>10 DEF SameButTimers
<1>12. CurrentOf(k', X \ {u})
  BY <1>2, <1>4, <1>11, KernelAssumption DEF CurrentOf
<1>13. KernelInv(k', UnlinkedThreads')
  BY <1>5, <1>11, <1>12 DEF KernelInv
<1>14. TypeOK'
  BY <1>2, <1>3, <1>11, KernelAssumption DEF SchedulerInv, TypeOK
<1>15. CurrentProceeds'
  BY <1>2, <1>3, <1>11 DEF CurrentProceeds
<1>16. DeletionsDistinct'
  <2>1. \A w \in Thread : IF w = t THEN pc'[w] = "sched"
                          ELSE pc'[w] = pc[w] /\ victim'[w] = victim[w]
    BY <1>2, <1>3
  <2>2. \A w \in Thread : pc'[w] = "detach" => /\ w # t /\ victim'[w] = victim[w] /\ pc[w] = "detach"
                                               /\ victim[w] # u /\ victim[w] \in Thread
    BY <1>2, <1>4, <2>1
  <2> QED BY <1>11, <2>2 DEF SchedulerInv, DeletionsDistinct
<1>17. \A v \in freed' : k'.stat[v] = "CLOSE" /\ v \notin ToSet(k'.defunct) /\ v # k'.cur
  <2>1. \A v \in freed : v \in Thread /\ v # u
    BY <1>4 DEF SchedulerInv, TypeOK
  <2> QED BY <1>3, <1>11, <2>1 DEF SchedulerInv
<1>19. LockRespected /\ NoneRevived
  BY <1>11 DEF LockRespected, NoneRevived
<1>20. ResumesWhole'
  BY <1>2, <1>3 DEF SchedulerInv, ResumesWhole
<1> QED BY <1>13, <1>14, <1>15, <1>16, <1>17, <1>19, <1>20 DEF SchedulerInv

\* Every step preserves the invariant and respects the scheduler's lock.
LEMMA NextInv ==
  ASSUME Orderly, SchedulerInv, [Next]_vars
  PROVE  SchedulerInv' /\ LockRespected /\ NoneRevived
<1>1. CASE UNCHANGED vars
  BY <1>1 DEF vars, SchedulerInv, TypeOK, UnlinkedThreads, CurrentProceeds, DeletionsDistinct, ResumesWhole,
               LockRespected, NoneRevived
<1>2. ASSUME NEW t \in Thread, ThreadStep(t)
      PROVE  SchedulerInv' /\ LockRespected /\ NoneRevived
  <2>1. CASE Schedule(t)
    BY <2>1, ScheduleStep
  <2>2. ASSUME NEW u \in Thread, Startup(t, u) \/ Resume(t, u)
        PROVE  SchedulerInv' /\ LockRespected /\ NoneRevived
    BY <2>2, WakeStep
  <2>3. ASSUME NEW u \in Thread, Delete(t, u)
        PROVE  SchedulerInv' /\ LockRespected /\ NoneRevived
    BY <2>3, DeleteStep
  <2>4. CASE Yield(t)
    BY <2>4, YieldStep
  <2>5. CASE Suspend(t) \/ \E n \in 0 .. MaxSleep : Sleep(t, n)
    BY <2>5, SuspendStep
  <2>6. CASE WakeUp(t)
    BY <2>6, SleepEndStep
  <2>7. CASE EnterCritical(t) \/ ExitCritical(t)
    BY <2>7, CriticalStep
  <2>8. ASSUME NEW u \in Thread, NEW p \in Prio, SetPriority(t, u, p)
        PROVE  SchedulerInv' /\ LockRespected /\ NoneRevived
    BY <2>8, SetPriorityStep
  <2>9. CASE Exit(t)
    BY <2>9, ExitStep
  <2>10. CASE DeleteEnd(t)
    BY <2>10, DeleteEndStep
  <2>11. \A u \in Thread : ~ResumeCheck(t, u)
    BY DEF Orderly, ResumeCheck, MayCall
  <2>12. ~ResumeEnd(t)
    BY DEF Orderly, ResumeEnd, Executes, SchedulerInv, ResumesWhole
  <2> QED BY <1>2, <2>1, <2>2, <2>3, <2>4, <2>5, <2>6, <2>7, <2>8, <2>9, <2>10, <2>11, <2>12
          DEF ThreadStep
<1>3. CASE Reap
  BY <1>3, ReapStep
<1>4. CASE TickInterrupt \/ \E u \in Thread : IsrResume(u)
  BY <1>4, InterruptStep
<1> QED BY <1>1, <1>2, <1>3, <1>4 DEF Next

\* Whatever the threads and interrupts call, and whenever a tick comes, every
\* thread is in exactly the list its state calls for, the current thread can
\* proceed and a released thread is in no list.
THEOREM SchedulerCorrect == ASSUME Orderly PROVE Spec => []SchedulerInv
<1>1. Init => SchedulerInv
  BY InitInv
<1>2. SchedulerInv /\ [Next]_vars => SchedulerInv'
  BY NextInv
<1> QED BY <1>1, <1>2, PTL DEF Spec

\* Every variable keeps its type: no operation of the kernel's lists, bitmap
\* and counters leaves them.
THEOREM SchedulerTypeOK == ASSUME Orderly PROVE Spec => []TypeOK
<1>1. SchedulerInv => TypeOK
  BY DEF SchedulerInv
<1> QED BY <1>1, SchedulerCorrect, PTL

\* rt_thread_priority_table, rt_thread_ready_priority_group and the thread
\* states agree at every moment at which interrupts are enabled.
THEOREM SchedulerReadyTable == ASSUME Orderly PROVE Spec => []ReadyTable
<1>1. SchedulerInv => ReadyTable
  BY DEF SchedulerInv, KernelInv, ListsConsistent, ReadyTable
<1> QED BY <1>1, SchedulerCorrect, PTL

\* The assertion of _thread_timeout holds: whenever a thread timer is armed its
\* thread is suspended.
THEOREM SchedulerTimers == ASSUME Orderly PROVE Spec => []TimedThreadsSuspended
<1>1. SchedulerInv => TimedThreadsSuspended
  BY DEF SchedulerInv, KernelInv, ListsConsistent, TimersOf, TimedThreadsSuspended
<1> QED BY <1>1, SchedulerCorrect, PTL

\* The idle thread frees the stack and the object of a thread only after the
\* last reference to it is gone.
THEOREM SchedulerFreed == ASSUME Orderly PROVE Spec => []FreedUnreachable
<1>1. SchedulerInv => FreedUnreachable
  <2> SUFFICES ASSUME SchedulerInv, NEW t \in freed
               PROVE  /\ t # k.cur /\ k.stat[t] = "CLOSE" /\ t \notin ToSet(k.defunct)
                      /\ ~TimerArmed(k, t) /\ \A p \in Prio : t \notin ToSet(k.table[p])
    BY DEF FreedUnreachable
  <2>1. t \in Thread /\ k.stat[t] = "CLOSE" /\ t \notin ToSet(k.defunct) /\ t # k.cur
    BY DEF SchedulerInv, TypeOK
  <2>2. ~TimerArmed(k, t)
    BY <2>1 DEF SchedulerInv, KernelInv, ListsConsistent, TimersOf, TimerArmed
  <2>3. \A p \in Prio : t \notin ToSet(k.table[p])
    BY <2>1 DEF SchedulerInv, KernelInv, ListsConsistent, ReadyTableOf
  <2> QED BY <2>1, <2>2, <2>3
<1> QED BY <1>1, SchedulerCorrect, PTL

\* rt_enter_critical: no tick, timeout, interrupt or resumed thread takes the
\* processor from the thread that holds the scheduler's lock.
THEOREM SchedulerLock == ASSUME Orderly PROVE Spec => LockedKeepsProcessor
<1>1. SchedulerInv /\ [Next]_vars => [k.nest > 0 => k'.cur = k.cur]_vars
  BY NextInv DEF LockRespected
<1> QED BY <1>1, SchedulerCorrect, PTL DEF Spec, LockedKeepsProcessor

\* A thread that has ended is never made ready or run again.
THEOREM SchedulerClosed == ASSUME Orderly PROVE Spec => ClosedForEver
<1>1. SchedulerInv /\ [Next]_vars =>
        [\A t \in Thread : k.stat[t] = "CLOSE" => k'.stat[t] = "CLOSE"]_vars
  BY NextInv DEF NoneRevived
<1> QED BY <1>1, SchedulerCorrect, PTL DEF Spec, ClosedForEver

-----------------------------------------------------------------------------
(* The processor goes to the most urgent thread *)

\* Except on the way to rt_schedule(), and while the scheduler is locked, the
\* current thread is the most urgent one.  Nothing depends on interrupts here:
\* their handlers call rt_schedule() themselves.
BestInv == k.nest = 0 /\ pc[k.cur] \notin {"sched", "sleep"} => Best(k)

\* rt_schedule() with the scheduler unlocked leaves the most urgent thread
\* running.
LEMMA ScheduleBest ==
  ASSUME NEW r, NEW X \in SUBSET Thread, KernelInv(r, X), r.nest = 0
  PROVE  Best(rt_schedule(r))
<1>0. /\ r \in KernelState /\ ListsConsistent(r, X) /\ r.cur \in Thread /\ r.group \subseteq Prio
      /\ r.prio \in [Thread -> Prio] /\ PrioMax \in Nat
  BY KernelAssumption DEF KernelInv, KernelState
<1>1. CASE r.group = {}
  BY <1>1 DEF rt_schedule, Best
<1>2. CASE r.group # {}
  <2> DEFINE c == ClearYield(r)
             h == HighestReady(r)
  <2>1. /\ h \in r.group /\ \A q \in r.group : h <= q
        /\ HighestThread(r) \in Thread /\ r.prio[HighestThread(r)] = h
    BY <1>0, <1>2, HighestIsReady
  <2>2. /\ c \in KernelState /\ c.group = r.group /\ c.prio = r.prio /\ c.cur = r.cur
        /\ c.stat = r.stat
    BY <1>0 DEF ClearYield, KernelState
  <2>3. h \in Int /\ r.prio[r.cur] \in Int
    BY <1>0, <2>1 DEF Prio
  <2> HIDE DEF c
  <2>4. CASE KeepsProcessor(r)
    <3>1. rt_schedule(r) = StayWith(c)
      BY <1>2, <2>4 DEF rt_schedule, c
    <3> DEFINE s == rt_schedule_remove_thread(c, c.cur)
    <3>2. s.group \subseteq r.group /\ s.prio = r.prio /\ s.cur = r.cur /\ s \in KernelState
      BY <1>0, <2>2, RemoveBits, RemoveType
    <3> HIDE DEF s
    <3>3. /\ StayWith(c).group = s.group /\ StayWith(c).prio = s.prio /\ StayWith(c).cur = s.cur
      BY <3>2 DEF StayWith, s, KernelState
    <3>4. r.prio[r.cur] <= h
      BY <2>3, <2>4 DEF KeepsProcessor
    <3>5. \A p \in s.group : r.prio[r.cur] <= p
      BY <1>0, <2>1, <2>3, <3>2, <3>4 DEF Prio
    <3> QED BY <3>1, <3>2, <3>3, <3>5 DEF Best
  <2>5. CASE ~KeepsProcessor(r)
    <3> DEFINE to == HighestThread(r)
               moved == [c EXCEPT !.cur = to]
               back == IF c.stat[c.cur] = "RUNNING"
                       THEN rt_schedule_insert_thread(moved, c.cur) ELSE moved
               s == rt_schedule_remove_thread(back, to)
    <3>1. rt_schedule(r) = SwitchTo(c, to)
      BY <1>2, <2>5 DEF rt_schedule, c
    <3>2. /\ moved \in KernelState /\ moved.group = r.group /\ moved.prio = r.prio
          /\ moved.cur = to
      BY <2>1, <2>2 DEF KernelState
    <3>3. /\ back \in KernelState /\ back.prio = r.prio /\ back.cur = to
          /\ \A p \in back.group : p \in r.group \/ (p = r.prio[r.cur] /\ r.stat[r.cur] = "RUNNING")
      <4>1. CASE c.stat[c.cur] = "RUNNING"
        <5>1. back = rt_schedule_insert_thread(moved, c.cur) /\ c.cur \in Thread
          BY <1>0, <2>2, <4>1
        <5> HIDE DEF moved, to
        <5>2. back \in KernelState
          BY <3>2, <5>1, InsertType
        <5>3. back.prio = moved.prio /\ back.cur = moved.cur
              /\ back.group \subseteq moved.group \cup {moved.prio[c.cur]}
          BY <3>2, <5>1 DEF rt_schedule_insert_thread, KernelState
        <5> HIDE DEF back
        <5> QED BY <2>2, <3>2, <4>1, <5>2, <5>3
      <4>2. CASE c.stat[c.cur] # "RUNNING"
        BY <3>2, <4>2
      <4> QED BY <4>1, <4>2
    <3> HIDE DEF to, moved, back
    <3>4. s \in KernelState /\ s.group \subseteq back.group /\ s.prio = r.prio /\ s.cur = to
      BY <2>1, <3>3, RemoveBits, RemoveType DEF to
    <3>5. SwitchTo(c, to) = [s EXCEPT !.stat[to] = "RUNNING"]
      BY DEF SwitchTo, s, back, moved
    <3> HIDE DEF s
    <3>6. /\ SwitchTo(c, to).group = s.group /\ SwitchTo(c, to).prio = s.prio
          /\ SwitchTo(c, to).cur = s.cur
      BY <3>4, <3>5 DEF KernelState
    <3>7. r.stat[r.cur] = "RUNNING" => h <= r.prio[r.cur]
      BY <2>3, <2>5 DEF KeepsProcessor
    <3>8. \A p \in s.group : h <= p
      BY <2>1, <3>3, <3>4, <3>7
    <3> QED BY <2>1, <3>1, <3>4, <3>6, <3>8 DEF Best, to
  <2> QED BY <2>4, <2>5
<1> QED BY <1>1, <1>2

\* rt_schedule() as the last thing a handler does.
LEMMA ScheduledLast ==
  ASSUME NEW r, NEW X \in SUBSET Thread, KernelInv(r, X), k' = rt_schedule(r)
  PROVE  BestInv'
<1>1. k'.nest = r.nest
  BY ScheduleInv DEF Keeps
<1> QED BY <1>1, ScheduleBest DEF BestInv

\* Nothing is made READY and the processor stays where it is.
LEMMA StaysBest ==
  ASSUME BestInv, k'.group \subseteq k.group, k'.prio = k.prio, k'.cur = k.cur,
         k'.nest = 0 => k.nest = 0,
         pc'[k.cur] \notin {"sched", "sleep"} => pc[k.cur] \notin {"sched", "sleep"}
  PROVE  BestInv'
BY DEF BestInv, Best

\* The current thread has yet to call rt_schedule().
LEMMA OnTheWay ==
  ASSUME k'.cur = k.cur, pc'[k.cur] \in {"sched", "sleep"}
  PROVE  BestInv'
BY DEF BestInv

\* What these routines do to the ready table, they leave the processor alone.
LEMMA SameCurrent ==
  ASSUME NEW r \in KernelState, NEW t
  PROVE  /\ rt_list_remove(r, t).cur = r.cur /\ rt_schedule_remove_thread(r, t).cur = r.cur
         /\ TimerStop(r, t).cur = r.cur /\ rt_thread_resume(r, t).cur = r.cur
         /\ rt_thread_suspend(r, t).cur = r.cur /\ Close(r, t).cur = r.cur
         /\ \A n : TimerStart(r, t, n).cur = r.cur
<1>1. rt_list_remove(r, t).cur = r.cur /\ rt_schedule_remove_thread(r, t).cur = r.cur
  BY DEF rt_list_remove, rt_schedule_remove_thread, KernelState
<1>2. TimerStop(r, t).cur = r.cur /\ \A n : TimerStart(r, t, n).cur = r.cur
  BY DEF TimerStop, TimerStart, KernelState
<1>3. rt_thread_resume(r, t).cur = r.cur
  BY DEF rt_thread_resume, MakeReady, rt_schedule_insert_thread, TimerStop, rt_list_remove, KernelState
<1>4. rt_thread_suspend(r, t).cur = r.cur
  BY DEF rt_thread_suspend, TimerStop, rt_schedule_remove_thread, rt_list_remove, KernelState
<1>5. Close(r, t).cur = r.cur
  BY DEF Close, KernelState
<1> QED BY <1>1, <1>2, <1>3, <1>4, <1>5

\* Stopping a timer keeps the kernel's state well typed.
LEMMA TimerStopType ==
  ASSUME NEW r \in KernelState, NEW t
  PROVE  TimerStop(r, t) \in KernelState
<1>1. CASE ~TimerArmed(r, t)
  BY <1>1 DEF TimerStop
<1>2. CASE TimerArmed(r, t)
  <2> DEFINE n == CHOOSE i \in DOMAIN r.timers : r.timers[i].thr = t
             s == RemoveAt(r.timers, n)
  <2>1. n \in DOMAIN r.timers
    BY <1>2 DEF TimerArmed
  <2>2. TimerStop(r, t) = [r EXCEPT !.timers = s]
    BY <1>2 DEF TimerStop
  <2> HIDE DEF n
  <2>3. r.timers \in Seq(Timer)
    BY DEF KernelState
  <2>4. n \in 1 .. Len(r.timers)
    BY <2>1, <2>3
  <2>5. s \in Seq(Timer)
    BY <2>3, <2>4, RemoveAtType
  <2> HIDE DEF s
  <2> QED BY <2>2, <2>5 DEF KernelState
<1> QED BY <1>1, <1>2

\* The same for rt_thread_suspend.
LEMMA SuspendType ==
  ASSUME NEW r \in KernelState, NEW t \in Thread
  PROVE  rt_thread_suspend(r, t) \in KernelState
<1> DEFINE l == rt_schedule_remove_thread(r, t)
           m == [l EXCEPT !.stat[t] = "SUSPEND"]
<1>1. l \in KernelState
  BY RemoveType
<1>2. rt_thread_suspend(r, t) = IF r.stat[t] \notin {"READY", "RUNNING"} THEN r ELSE TimerStop(m, t)
  BY DEF rt_thread_suspend
<1> HIDE DEF l
<1>3. m \in KernelState
  BY <1>1 DEF KernelState, Stat
<1> HIDE DEF m
<1>4. TimerStop(m, t) \in KernelState
  BY <1>3, TimerStopType
<1> QED BY <1>2, <1>4

\* The calls that end on the way to rt_schedule().
LEMMA CallBest ==
  ASSUME SchedulerInv, NEW t \in Thread,
         \/ \E u \in Thread : Startup(t, u) \/ Resume(t, u)
         \/ Suspend(t) \/ (\E n \in 0 .. MaxSleep : Sleep(t, n)) \/ Exit(t) \/ DeleteEnd(t)
  PROVE  BestInv'
<1>1. PICK at \in {"run", "detach"} : Executes(t, at)
  BY DEF Startup, Resume, Suspend, Sleep, SleepBegin, Exit, DeleteEnd, MayCall
<1>2. /\ k \in KernelState /\ t = k.cur /\ ListsConsistent(k, UnlinkedThreads)
      /\ pc \in [Thread -> {"run", "sched", "sleep", "awake", "detach", "resume"}]
      /\ victim \in [Thread -> Thread]
  BY <1>1, Executing
<1>3. pc'[k.cur] \in {"sched", "sleep"}
  BY <1>2 DEF Startup, Resume, Suspend, Sleep, SleepBegin, Exit, DeleteEnd, ThenSchedule
<1>4. k'.cur = k.cur
  <2>1. ASSUME NEW u \in Thread, Startup(t, u)
        PROVE  k'.cur = k.cur
    <3> DEFINE s == [k EXCEPT !.stat[u] = "SUSPEND", !.yield[u] = FALSE]
    <3>1. s \in KernelState /\ s.cur = k.cur
      BY <1>2 DEF KernelState, Stat
    <3>2. k' = rt_thread_resume(s, u)
      BY <2>1 DEF Startup
    <3> HIDE DEF s
    <3> QED BY <3>1, <3>2, SameCurrent
  <2>2. ASSUME NEW u \in Thread, Resume(t, u)
        PROVE  k'.cur = k.cur
    BY <1>2, <2>2, SameCurrent DEF Resume
  <2>3. CASE Suspend(t)
    BY <1>2, <2>3, SameCurrent DEF Suspend
  <2>4. ASSUME NEW n \in 0 .. MaxSleep, Sleep(t, n)
        PROVE  k'.cur = k.cur
    <3> DEFINE e == [k EXCEPT !.err[t] = "EOK"]
               s == rt_thread_suspend(e, t)
    <3>1. e \in KernelState /\ e.cur = k.cur
      BY <1>2 DEF KernelState, Error
    <3>2. k' = TimerStart(s, t, n)
      BY <2>4 DEF Sleep, SleepBegin
    <3> HIDE DEF e
    <3>3. s.cur = k.cur
      BY <3>1, SameCurrent
    <3>4. s \in KernelState
      BY <3>1, SuspendType
    <3> HIDE DEF s
    <3> QED BY <3>2, <3>3, <3>4, SameCurrent
  <2>5. CASE Exit(t)
    <3> DEFINE l == rt_schedule_remove_thread(k, t)
               s == TimerStop(l, t)
    <3>1. l \in KernelState /\ l.cur = k.cur
      BY <1>2, RemoveType, SameCurrent
    <3>2. k' = Close(s, t)
      BY <2>5 DEF Exit
    <3> HIDE DEF l
    <3>3. s \in KernelState /\ s.cur = l.cur
      BY <3>1, TimerStopType, SameCurrent
    <3> HIDE DEF s
    <3> QED BY <3>1, <3>2, <3>3, SameCurrent
  <2>6. CASE DeleteEnd(t)
    <3> DEFINE s == TimerStop(k, victim[t])
    <3>1. k' = Close(s, victim[t])
      BY <2>6 DEF DeleteEnd
    <3>2. s \in KernelState /\ s.cur = k.cur
      BY <1>2, TimerStopType, SameCurrent
    <3> HIDE DEF s
    <3> QED BY <3>1, <3>2, SameCurrent
  <2> QED BY <2>1, <2>2, <2>3, <2>4, <2>5, <2>6
<1> QED BY <1>3, <1>4, OnTheWay

\* The calls and interrupts that make nothing READY.
LEMMA QuietBest ==
  ASSUME SchedulerInv, BestInv, NEW t \in Thread,
         \/ WakeUp(t) \/ EnterCritical(t) \/ ExitCritical(t)
         \/ Reap \/ TimerCheckEnd \/ \E u \in Thread : Delete(t, u)
  PROVE  BestInv'
<1>0. k \in KernelState /\ k.nest \in Nat /\ k.cur \in Thread
      /\ pc \in [Thread -> {"run", "sched", "sleep", "awake", "detach", "resume"}]
  BY DEF SchedulerInv, TypeOK, KernelState
<1>1. CASE WakeUp(t)
  BY <1>0, <1>1, StaysBest DEF WakeUp, SleepEnd, Executes, KernelState
<1>2. CASE EnterCritical(t)
  <2>1. k'.nest = k.nest + 1
    BY <1>0, <1>2 DEF EnterCritical, KernelState
  <2> QED BY <1>0, <2>1 DEF BestInv
<1>3. CASE ExitCritical(t)
  <2>1. k'.nest = (IF k.nest <= 1 THEN 0 ELSE k.nest - 1) /\ k'.cur = k.cur /\ t = k.cur
    BY <1>0, <1>3 DEF ExitCritical, KernelState, MayCall, Executes
  <2>2. CASE k.nest <= 1
    <3>1. pc'[k.cur] = "sched"
      BY <1>0, <1>3, <2>1, <2>2 DEF ExitCritical, ThenSchedule
    <3> QED BY <2>1, <3>1, OnTheWay
  <2>3. CASE ~(k.nest <= 1)
    <3>1. k'.nest # 0
      BY <1>0, <2>1, <2>3
    <3> QED BY <3>1 DEF BestInv
  <2> QED BY <2>2, <2>3
<1>4. CASE Reap
  BY <1>0, <1>4, StaysBest DEF Reap, KernelState
<1>5. CASE TimerCheckEnd
  BY <1>5 DEF TimerCheckEnd, BestInv
<1>6. ASSUME NEW u \in Thread, Delete(t, u)
      PROVE  BestInv'
  <2>1. /\ k.nest = 0 /\ t = k.cur /\ pc[k.cur] = "run"
        /\ k' = IF k.stat[u] = "INIT" THEN k ELSE rt_schedule_remove_thread(k, u)
    BY <1>6 DEF Delete, MayCall, Executes
  <2>2. k'.group \subseteq k.group /\ k'.prio = k.prio /\ k'.cur = k.cur
    BY <1>0, <2>1, RemoveBits
  <2> QED BY <2>1, <2>2, StaysBest
<1> QED BY <1>1, <1>2, <1>3, <1>4, <1>5, <1>6

\* The calls and interrupts whose last act is rt_schedule().
LEMMA SwitchBest ==
  ASSUME SchedulerInv, BestInv,
         \/ \E t \in Thread : Schedule(t) \/ Yield(t)
         \/ Tick \/ TimerFire \/ \E u \in Thread : IsrResume(u)
  PROVE  BestInv'
<1> DEFINE X == UnlinkedThreads
<1>1. /\ KernelInv(k, X) /\ X \in SUBSET Thread /\ k \in KernelState /\ k.cur \in Thread
      /\ InitTick[k.cur] \in Nat \ {0} /\ k.slice[k.cur] \in Nat
  BY KernelAssumption DEF SchedulerInv, UnlinkedThreads, KernelInv, KernelState
<1>2. ASSUME NEW t \in Thread, Schedule(t)
      PROVE  BestInv'
  BY <1>1, <1>2, ScheduledLast DEF Schedule, Reschedule
<1>3. ASSUME NEW t \in Thread, Yield(t)
      PROVE  BestInv'
  <2> DEFINE y == [k EXCEPT !.slice[t] = InitTick[t], !.yield[t] = TRUE]
  <2>1. k' = rt_schedule(y) /\ t = k.cur
    BY <1>3 DEF Yield, MayCall, Executes
  <2>2. y \in KernelState /\ SameLists(y, k) /\ y.nest = k.nest
    BY <1>1, <2>1 DEF KernelState, SameLists
  <2> HIDE DEF y
  <2>3. KernelInv(y, X)
    BY <1>1, <2>2, FieldsInv
  <2> QED BY <1>1, <2>1, <2>3, ScheduledLast
<1>4. CASE Tick
  <2> DEFINE a == [k EXCEPT !.timers = Aged(@)]
             c == k.cur
  <2>1. /\ KernelInv(a, X) /\ a.slice = k.slice /\ a.group = k.group /\ a.prio = k.prio
        /\ a.cur = c /\ a.nest = k.nest /\ a \in KernelState
    BY <1>1, AgedInv DEF KernelInv, KernelState
  <2>2. k' = rt_tick_increase(k) /\ pc' = pc
    BY <1>4 DEF Tick
  <2>3. CASE k.slice[c] > 1
    <3>1. k' = [a EXCEPT !.slice[c] = @ - 1]
      BY <2>2, <2>3 DEF rt_tick_increase
    <3> HIDE DEF a
    <3>2. k'.group = k.group /\ k'.prio = k.prio /\ k'.cur = k.cur /\ k'.nest = k.nest
      BY <2>1, <3>1 DEF KernelState
    <3> QED BY <2>2, <3>2, StaysBest
  <2>4. CASE ~(k.slice[c] > 1)
    <3> DEFINE r == [a EXCEPT !.slice[c] = InitTick[c], !.yield[c] = TRUE]
    <3>1. k' = rt_schedule(r)
      BY <2>2, <2>4 DEF rt_tick_increase
    <3> HIDE DEF a
    <3>2. r \in KernelState /\ SameLists(r, a) /\ r.nest = a.nest
      BY <1>1, <2>1 DEF KernelState, SameLists
    <3> HIDE DEF r
    <3>3. KernelInv(r, X)
      BY <2>1, <3>2, FieldsInv
    <3> QED BY <1>1, <3>1, <3>3, ScheduledLast
  <2> QED BY <2>3, <2>4
<1>5. CASE TimerFire
  <2> DEFINE t == Head(k.timers).thr
             s == TimerStop(k, t)
             e == [s EXCEPT !.err[t] = "ETIMEOUT"]
             r == rt_schedule_insert_thread(rt_list_remove(e, t), t)
  <2>1. k' = rt_schedule(r) /\ k.timers # <<>>
    BY <1>5 DEF TimerFire, TimerExpired, _thread_timeout
  <2>2. 1 \in DOMAIN k.timers /\ t = k.timers[1].thr /\ t \in Thread
    <3>1. k.timers \in Seq(Timer)
      BY <1>1 DEF KernelState
    <3>2. 1 \in DOMAIN k.timers /\ k.timers[1] \in Timer /\ t = k.timers[1].thr
      BY <2>1, <3>1
    <3> QED BY <3>2 DEF Timer
  <2>3. k.stat[t] = "SUSPEND" /\ t \in Thread \ X
    BY <1>1, <2>2 DEF KernelInv, ListsConsistent, TimersOf
  <2> HIDE DEF t
  <2>4. KernelInv(s, X) /\ ~TimerArmed(s, t) /\ SameButTimers(s, k)
    BY <1>1, <2>2, TimerStopKeeps
  <2> HIDE DEF s
  <2>5. e \in KernelState /\ SameLists(e, s) /\ e.nest = s.nest
    BY <2>2, <2>4 DEF KernelInv, KernelState, SameLists, Error
  <2> HIDE DEF e
  <2>6. KernelInv(e, X) /\ e.stat[t] = "SUSPEND" /\ ~TimerArmed(e, t)
    BY <2>3, <2>4, <2>5, FieldsInv DEF SameButTimers, SameLists, TimerArmed
  <2>7. KernelInv(r, X)
    BY <1>1, <2>3, <2>6, WakeInv
  <2> HIDE DEF r
  <2> QED BY <1>1, <2>1, <2>7, ScheduledLast
<1>6. ASSUME NEW u \in Thread, IsrResume(u)
      PROVE  BestInv'
  <2> DEFINE r == rt_thread_resume(k, u)
  <2>1. k' = rt_schedule(r) /\ u \in Thread \ X
    BY <1>6, NotUnlinked DEF IsrResume, Usable
  <2>2. KernelInv(r, X)
    BY <1>1, <2>1, ResumeInv
  <2> HIDE DEF r
  <2> QED BY <1>1, <2>1, <2>2, ScheduledLast
<1> QED BY <1>2, <1>3, <1>4, <1>5, <1>6

\* Every step but a change of priority keeps the most urgent thread running.
LEMMA BestStep ==
  ASSUME Orderly, "control" \notin Calls, SchedulerInv, BestInv, [Next]_vars
  PROVE  BestInv'
<1>1. CASE UNCHANGED vars
  BY <1>1 DEF vars, BestInv
<1>2. ASSUME NEW t \in Thread, ThreadStep(t)
      PROVE  BestInv'
  <2>1. \A u \in Thread : ~ResumeCheck(t, u) /\ \A p \in Prio : ~SetPriority(t, u, p)
    BY DEF Orderly, ResumeCheck, SetPriority, MayCall
  <2>2. ~ResumeEnd(t)
    BY DEF Orderly, ResumeEnd, Executes, SchedulerInv, ResumesWhole
  <2>3. CASE Schedule(t) \/ Yield(t)
    BY <2>3, SwitchBest
  <2>4. CASE WakeUp(t) \/ EnterCritical(t) \/ ExitCritical(t)
    BY <2>4, QuietBest
  <2>5. ASSUME NEW u \in Thread, Delete(t, u)
        PROVE  BestInv'
    BY <2>5, QuietBest
  <2>6. ASSUME NEW u \in Thread, Startup(t, u) \/ Resume(t, u)
        PROVE  BestInv'
    BY <2>6, CallBest
  <2>7. CASE Suspend(t) \/ Exit(t) \/ DeleteEnd(t)
    BY <2>7, CallBest
  <2>8. ASSUME NEW n \in 0 .. MaxSleep, Sleep(t, n)
        PROVE  BestInv'
    BY <2>8, CallBest
  <2> QED BY <1>2, <2>1, <2>2, <2>3, <2>4, <2>5, <2>6, <2>7, <2>8 DEF ThreadStep
<1>3. CASE Reap \/ TimerCheckEnd
  BY <1>3, QuietBest, KernelAssumption
<1>4. CASE Tick \/ TimerFire \/ \E u \in Thread : IsrResume(u)
  BY <1>4, SwitchBest
<1> QED BY <1>1, <1>2, <1>3, <1>4 DEF Next, TickInterrupt, Interrupt

\* Whenever a thread executes its own code with the scheduler unlocked, no READY
\* thread is more urgent: no wake-up, time-out, interrupt or critical section
\* loses a reschedule.  (RT_THREAD_CTRL_CHANGE_PRIORITY, which does, is left
\* out.)
THEOREM SchedulerHighest ==
  ASSUME Orderly, "control" \notin Calls PROVE Spec => []HighestRuns
<1>1. Init => BestInv
  <2> SUFFICES ASSUME Init PROVE BestInv
    OBVIOUS
  <2>1. PICK tbl \in BootTables : k = rt_system_scheduler_start(tbl)
    BY DEF Init, ProcessorInit
  <2> QED BY <2>1, BootInv DEF BestInv
<1>2. SchedulerInv /\ BestInv /\ [Next]_vars => BestInv'
  BY BestStep
<1>3. SchedulerInv /\ BestInv => HighestRuns
  <2> SUFFICES ASSUME SchedulerInv, BestInv, k.nest = 0, pc[k.cur] = "run",
                      NEW t \in Thread \ UnlinkedThreads, k.stat[t] = "READY"
               PROVE  k.prio[k.cur] <= k.prio[t]
    BY DEF HighestRuns
  <2>1. k \in KernelState /\ ReadyTableOf(k, UnlinkedThreads) /\ k.prio[t] \in Prio
    BY DEF SchedulerInv, KernelInv, ListsConsistent, KernelState
  <2>2. t \in ToSet(k.table[k.prio[t]])
    BY <2>1 DEF ReadyTableOf
  <2>3. k.table[k.prio[t]] # <<>>
    <3>1. ToSet(<<>>) = {}
      BY DEF ToSet
    <3> QED BY <2>2, <3>1
  <2>4. k.prio[t] \in k.group
    BY <2>1, <2>3 DEF ReadyTableOf
  <2> QED BY <2>4 DEF BestInv, Best
<1> QED BY <1>1, <1>2, <1>3, SchedulerCorrect, PTL DEF Spec
=============================================================================
