------------------------------- MODULE Mutex -------------------------------
(***************************************************************************)
(* The mutexes of ipc.c: recursive, with priority inheritance.  A thread   *)
(* that waits lends its priority to the owner; the owner gets back the     *)
(* priority it had when it took the mutex.                                 *)
(***************************************************************************)
EXTENDS Processor

CONSTANTS NoOwner,     \* mutex->owner = RT_NULL
          HoldMax,     \* RT_MUTEX_HOLD_MAX
          Timeouts,    \* the timeouts of rt_mutex_take: Forever, 0, ticks
          Users,       \* the threads that use mutexes; the others just run
          Calls        \* "nested": an owner may take another mutex;
                       \* "delete": mutexes are deleted

ASSUME MutexAssumption ==
  /\ NoOwner \notin Thread
  /\ HoldMax \in Nat \ {0}
  /\ Timeouts \subseteq Nat \cup {Forever}
  /\ Users \subseteq Thread \ {Idle}

Mutex == Queue

VARIABLES mutex,    \* the fields of each mutex
          live,     \* the mutexes that have not been deleted
          want,     \* the mutex that each blocked thread waits for
          holds     \* history: how often a thread has taken each mutex and
                    \* not released it, by the results of its own calls

vars == <<k, isr, pc, mutex, live, want, holds>>

NoPrio == 255       \* original_priority of a free mutex

Free == [value |-> 1, owner |-> NoOwner, original_priority |-> NoPrio, hold |-> 0]

Init ==
  /\ ProcessorInit
  /\ mutex = [m \in Mutex |-> Free]
  /\ live = Mutex
  /\ want \in {[t \in Thread |-> m] : m \in Mutex}
  /\ holds = [t \in Thread |-> [m \in Mutex |-> 0]]

-----------------------------------------------------------------------------
(* rt_mutex_take *)

\* A thread that owns another mutex takes a second one only in nested use.
MayTake(t, m) ==
  /\ t \in Users /\ m \in live
  /\ Executes(t, "run")
  /\ "nested" \in Calls \/ \A n \in Mutex \ {m} : holds[t][n] = 0

TakeAgain_noMax(t, m) ==
  /\ MayTake(t, m)
  /\ mutex[m].owner = t
  /\ k' = [k EXCEPT !.err[t] = "EOK"]
  /\ mutex' = [mutex EXCEPT ![m].hold = @ + 1]
  /\ holds' = [holds EXCEPT ![t][m] = @ + 1]
  /\ UNCHANGED <<isr, pc, live, want>>

TakeAgain(t, m) ==
  /\ MayTake(t, m)
  /\ mutex[m].owner = t
  /\ k' = [k EXCEPT !.err[t] = "EOK"]
  /\ IF mutex[m].hold < HoldMax
     THEN mutex' = [mutex EXCEPT ![m].hold = @ + 1] /\ holds' = [holds EXCEPT ![t][m] = @ + 1]
     ELSE UNCHANGED <<mutex, holds>>
  /\ UNCHANGED <<isr, pc, live, want>>

TakeFree(t, m) ==
  /\ MayTake(t, m)
  /\ mutex[m].owner # t /\ mutex[m].value > 0
  /\ k' = [k EXCEPT !.err[t] = "EOK"]
  /\ mutex' = [mutex EXCEPT ![m].value = @ - 1, ![m].owner = t,
                            ![m].original_priority = k.prio[t], ![m].hold = @ + 1]
  /\ holds' = [holds EXCEPT ![t][m] = @ + 1]
  /\ UNCHANGED <<isr, pc, live, want>>

TryFails(t, m) ==
  /\ MayTake(t, m)
  /\ 0 \in Timeouts
  /\ mutex[m].owner # t /\ mutex[m].value = 0
  /\ k' = [k EXCEPT !.err[t] = "ETIMEOUT"]
  /\ UNCHANGED <<isr, pc, mutex, live, want, holds>>

\* The owner inherits the priority of a more urgent waiter.
Boost_none(t, owner) == k

Boost(t, owner) ==
  IF k.prio[t] < k.prio[owner] THEN ChangePriority(k, owner, k.prio[t]) ELSE k

TakeBlocks(t, m, timeout) ==
  /\ MayTake(t, m)
  /\ MayBlock(t)
  /\ timeout # 0
  /\ mutex[m].owner # t /\ mutex[m].value = 0
  /\ k' = WaitOn(Boost(t, mutex[m].owner), m, t, "PRIO", timeout)
  /\ want' = [want EXCEPT ![t] = m]
  /\ Goto(t, "blocked")
  /\ UNCHANGED <<isr, mutex, live, holds>>

TakeReturn(t) ==
  /\ Executes(t, "woken")
  /\ holds' = IF k.err[t] = "EOK" THEN [holds EXCEPT ![t][want[t]] = @ + 1] ELSE holds
  /\ Goto(t, "run")
  /\ UNCHANGED <<k, isr, mutex, live, want>>

Schedule(t) ==
  /\ \/ Reschedule(t, "blocked", "woken")
     \/ Reschedule(t, "sched", "run")
     \/ Reschedule(t, "sleep", "awake")
  /\ UNCHANGED <<mutex, live, want, holds>>

\* Threads sleep now and then, so that others run.
Sleep(t)  == SleepBegin(t, 1) /\ UNCHANGED <<mutex, live, want, holds>>
WakeUp(t) == SleepEnd(t) /\ UNCHANGED <<mutex, live, want, holds>>

-----------------------------------------------------------------------------
(* rt_mutex_release *)

MayRelease(t, m) == t \in Users /\ m \in live /\ Executes(t, "run")

ReleaseForeign(t, m) ==
  /\ MayRelease(t, m)
  /\ mutex[m].owner # t
  /\ k' = [k EXCEPT !.err[t] = "ERROR"]
  /\ UNCHANGED <<isr, pc, mutex, live, want, holds>>

ReleaseInner(t, m) ==
  /\ MayRelease(t, m)
  /\ mutex[m].owner = t /\ mutex[m].hold > 1
  /\ mutex' = [mutex EXCEPT ![m].hold = @ - 1]
  /\ holds' = [holds EXCEPT ![t][m] = @ - 1]
  /\ UNCHANGED <<k, isr, pc, live, want>>

\* The owner gets its original priority back.
Restored_kept(t, m) == k

Restored(t, m) ==
  IF mutex[m].original_priority # k.prio[t]
  THEN ChangePriority(k, t, mutex[m].original_priority) ELSE k

\* The last release hands the mutex to the first waiter.
HandOver_free(t, m) ==
  LET r == Restored(t, m)
  IN  /\ k' = _ipc_list_resume(r, m)
      /\ mutex' = [mutex EXCEPT ![m] = Free]
      /\ Goto(t, "sched")

HandOver(t, m) ==
  LET r == Restored(t, m)
      u == Head(r.wait[m])
  IN  /\ k' = _ipc_list_resume(r, m)
      /\ mutex' = [mutex EXCEPT ![m].owner = u, ![m].original_priority = r.prio[u],
                                ![m].hold = 1]
      /\ Goto(t, "sched")

ReleaseLast(t, m) ==
  /\ MayRelease(t, m)
  /\ mutex[m].owner = t /\ mutex[m].hold = 1
  /\ IF k.wait[m] # <<>>
     THEN HandOver(t, m)
     ELSE /\ k' = Restored(t, m)
          /\ mutex' = [mutex EXCEPT ![m].value = @ + 1, ![m].owner = NoOwner,
                                    ![m].original_priority = NoPrio, ![m].hold = 0]
          /\ UNCHANGED pc
  /\ holds' = [holds EXCEPT ![t][m] = @ - 1]
  /\ UNCHANGED <<isr, live, want>>

-----------------------------------------------------------------------------
(* rt_mutex_delete and rt_mutex_detach *)

\* The owner deletes its mutex, or any thread a free one; no waiter's timer runs.
DeleteBegin(t, m) ==
  /\ "delete" \in Calls
  /\ MayRelease(t, m)
  /\ mutex[m].owner \in {t, NoOwner}
  /\ \A u \in ToSet(k.wait[m]) : ~TimerArmed(k, u)
  /\ live' = live \ {m}
  /\ want' = [want EXCEPT ![t] = m]
  /\ holds' = [holds EXCEPT ![t][m] = 0]
  /\ Goto(t, "delete")
  /\ UNCHANGED <<k, isr, mutex>>

DeleteStep(t) ==
  /\ \/ ResumeAllTest(t, want[t], "delete", "resume", "run")
     \/ ResumeAllBody(t, want[t], "resume", "delete")
  /\ UNCHANGED <<mutex, live, want, holds>>

-----------------------------------------------------------------------------

TickInterrupt == Interrupt /\ UNCHANGED <<mutex, live, want, holds>>

Release(t, m) == ReleaseInner(t, m) \/ ReleaseLast(t, m)

ThreadStep(t) ==
  \/ \E m \in Mutex :
       \/ TakeAgain(t, m) \/ TakeFree(t, m) \/ TryFails(t, m)
       \/ \E n \in Timeouts : TakeBlocks(t, m, n)
       \/ ReleaseForeign(t, m) \/ Release(t, m)
       \/ DeleteBegin(t, m)
  \/ TakeReturn(t)
  \/ Schedule(t)
  \/ Sleep(t)
  \/ WakeUp(t)
  \/ DeleteStep(t)

Next == TickInterrupt \/ \E t \in Thread : ThreadStep(t)

\* A thread that is inside a call goes on with it.
Proceeds(t) == Schedule(t) \/ TakeReturn(t) \/ WakeUp(t) \/ DeleteStep(t)

\* The tick keeps coming and its handler returns; a thread that is given the
\* processor again and again gets on with its call and, between its calls,
\* releases for good what it holds (strong fairness, with the enabling
\* conditions written out).
Fairness ==
  /\ []<><<TickInterrupt>>_vars
  /\ WF_vars(TimerCheckEnd /\ UNCHANGED <<mutex, live, want, holds>>)
  /\ \A t \in Thread \ {Idle} :
       []<>(isr = "none" /\ k.cur = t /\ pc[t] # "run") => []<><<Proceeds(t)>>_vars
  /\ \A t \in Users, m \in Mutex :
       []<>(MayRelease(t, m) /\ mutex[m].owner = t) => []<><<ReleaseLast(t, m)>>_vars

Spec == Init /\ [][Next]_vars

FairSpec == Spec /\ Fairness

-----------------------------------------------------------------------------
(* Properties *)

\* Every variable has its type and every thread is in the list its state calls for.
TypeOK ==
  /\ KernelInv(k, {})
  /\ isr \in {"none", "check"}
  /\ pc \in [Thread -> {"run", "blocked", "woken", "sched", "sleep", "awake", "delete", "resume"}]
  /\ mutex \in [Mutex -> [value : {0, 1}, owner : Thread \cup {NoOwner},
                          original_priority : Prio \cup {NoPrio}, hold : 0 .. HoldMax]]
  /\ live \subseteq Mutex
  /\ want \in [Thread -> Mutex]
  /\ holds \in [Thread -> [Mutex -> 0 .. HoldMax]]

\* Mutual exclusion, by what the callers were told: a thread whose takes
\* succeeded is the owner, so no two threads hold a mutex, and the owner's
\* count is exactly the takes it has not released.
MutualExclusion ==
  \A m \in live, t \in Thread :
    holds[t][m] > 0 => mutex[m].owner = t /\ mutex[m].hold = holds[t][m]

\* A mutex is handed over without ever being free: it has an owner exactly when
\* its value is zero, an owner that has not been told yet is on its way out of
\* rt_mutex_take with success, and nobody waits for a free mutex.
OwnerKnown ==
  \A m \in live :
    LET o == mutex[m].owner
    IN  /\ o = NoOwner <=> mutex[m].value = 1
        /\ o = NoOwner => k.wait[m] = <<>> /\ mutex[m].hold = 0
        /\ o # NoOwner /\ holds[o][m] = 0 =>
             /\ pc[o] \in {"blocked", "woken"} /\ want[o] = m
             /\ o \notin ToSet(k.wait[m]) /\ k.err[o] = "EOK"

\* The ownership of a mutex as rt_mutex_take and rt_mutex_release keep it: what
\* the fields say is what the callers were told, through hand-overs, recursive
\* takes, timeouts and deletion.
MutexInv == TypeOK /\ MutualExclusion /\ OwnerKnown

\* Priority inheritance: the owner is at least as urgent as every waiter.
OwnerAsUrgent ==
  \A m \in live : \A t \in ToSet(k.wait[m]) : k.prio[mutex[m].owner] <= k.prio[t]

\* A thread gives back the priority it was lent: when it owns no mutex it has
\* the priority it was created with.
PriorityRestored ==
  \A t \in Thread : (\A m \in Mutex : mutex[m].owner # t) => k.prio[t] = BasePrio[t]

\* No unbounded priority inversion: the most urgent thread does not wait for
\* ever, although a thread of middle priority never gives up the processor.
InversionBounded ==
  \A t \in Users : (\A u \in Thread : BasePrio[t] <= BasePrio[u]) =>
    (pc[t] \in {"blocked", "woken"} ~> pc[t] = "run")
=============================================================================
