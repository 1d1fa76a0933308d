------------------------------ MODULE Semaphore ------------------------------
(***************************************************************************)
(* The counting semaphore of ipc.c: threads take with a timeout, threads   *)
(* and interrupt handlers release, a thread resets or deletes it.          *)
(***************************************************************************)
EXTENDS Processor

CONSTANTS Sem,         \* the semaphore: the one object with a suspend list
          Flag,        \* "FIFO" or "PRIO": the order of the suspend list
          InitValue,   \* the value it is created with
          MaxValue,    \* RT_SEM_VALUE_MAX
          Timeouts,    \* the timeouts of rt_sem_take: Forever, 0, ticks
          Calls        \* the calls that are made besides take and release

ASSUME SemaphoreAssumption ==
  /\ Sem \in Queue
  /\ Flag \in {"FIFO", "PRIO"}
  /\ MaxValue \in Nat
  /\ InitValue \in 0 .. MaxValue
  /\ Timeouts \subseteq Nat \cup {Forever}

VARIABLES value,    \* sem->value
          object,   \* "live", "deleting" or "deleted"
          tokens    \* history: tokens put in and not yet handed to a caller

vars == <<k, isr, pc, value, object, tokens>>

Init ==
  /\ ProcessorInit
  /\ value = InitValue
  /\ object = "live"
  /\ tokens = InitValue

Waiters == k.wait[Sem]

\* The threads that a release has woken and that have not returned from
\* rt_sem_take yet.
Granted == {t \in Thread : /\ pc[t] \in {"blocked", "woken"}
                           /\ t \notin ToSet(Waiters)
                           /\ k.err[t] = "EOK"}

-----------------------------------------------------------------------------
(* rt_sem_take *)

Take(t, timeout) ==
  /\ Executes(t, "run")
  /\ object = "live"
  /\ \/ /\ value > 0
        /\ value' = value - 1
        /\ tokens' = tokens - 1
        /\ UNCHANGED <<k, pc>>
     \/ value = 0 /\ timeout = 0 /\ UNCHANGED <<k, pc, value, tokens>>
     \/ /\ value = 0 /\ timeout # 0
        /\ MayBlock(t)
        /\ k' = WaitOn(k, Sem, t, Flag, timeout)
        /\ Goto(t, "blocked")
        /\ UNCHANGED <<value, tokens>>
  /\ UNCHANGED <<isr, object>>

\* The call returns what the thread's error says.
TakeReturn(t) ==
  /\ Executes(t, "woken")
  /\ tokens' = IF k.err[t] = "EOK" THEN tokens - 1 ELSE tokens
  /\ Goto(t, "run")
  /\ UNCHANGED <<k, isr, value, object>>

Schedule(t) ==
  /\ Reschedule(t, "blocked", "woken") \/ Reschedule(t, "sched", "run")
  /\ UNCHANGED <<value, object, tokens>>

-----------------------------------------------------------------------------
(* rt_sem_release *)

\* The interrupt-disabled section without its list operation: the token goes to
\* the first waiter, to the value, or nowhere when the value is at its maximum.
PutToken_noMax ==
  /\ value' = IF Waiters = <<>> THEN value + 1 ELSE value
  /\ tokens' = tokens + 1

PutToken_wakesToo ==
  /\ value' = IF value < MaxValue THEN value + 1 ELSE value
  /\ tokens' = IF Waiters # <<>> \/ value < MaxValue THEN tokens + 1 ELSE tokens

PutToken ==
  /\ value' = IF Waiters = <<>> /\ value < MaxValue THEN value + 1 ELSE value
  /\ tokens' = IF Waiters # <<>> \/ value < MaxValue THEN tokens + 1 ELSE tokens

Release(t) ==
  /\ Executes(t, "run")
  /\ object = "live"
  /\ PutToken
  /\ IF Waiters # <<>>
     THEN k' = _ipc_list_resume(k, Sem) /\ Goto(t, "sched")
     ELSE UNCHANGED <<k, pc>>
  /\ UNCHANGED <<isr, object>>

\* The same from an interrupt handler, where rt_schedule() follows at once.
IsrRelease ==
  /\ isr = "none"
  /\ object = "live"
  /\ PutToken
  /\ k' = IF Waiters # <<>> THEN rt_schedule(_ipc_list_resume(k, Sem)) ELSE k
  /\ UNCHANGED <<isr, pc, object>>

-----------------------------------------------------------------------------
(* rt_sem_control(RT_IPC_CMD_RESET): _ipc_list_resume_all with interrupts  *)
(* disabled throughout                                                     *)

ResetBegin(t) ==
  /\ "reset" \in Calls
  /\ Executes(t, "run")
  /\ object = "live"
  /\ isr' = "masked"
  /\ Goto(t, "reset")
  /\ UNCHANGED <<k, value, object, tokens>>

ResetTurn(t) ==
  /\ ResumeAllMasked(t, Sem, "reset")
  /\ UNCHANGED <<value, object, tokens>>

ResetEnd(t, v) ==
  /\ ExecutesMasked(t, "reset")
  /\ Waiters = <<>>
  /\ value' = v
  /\ tokens' = tokens - value + v
  /\ isr' = "none"
  /\ Goto(t, "sched")
  /\ UNCHANGED <<k, object>>

-----------------------------------------------------------------------------
(* rt_sem_delete and rt_sem_detach: _ipc_list_resume_all with interrupts   *)
(* enabled between its test of the list and its interrupt-disabled section *)

\* Nobody else uses a semaphore that is being deleted; only the timers of the
\* waiters still run (where "delete_timed" allows any).
DeleteBegin(t) ==
  /\ "delete" \in Calls
  /\ Executes(t, "run")
  /\ object = "live"
  /\ "delete_timed" \in Calls \/ \A u \in ToSet(Waiters) : ~TimerArmed(k, u)
  /\ object' = "deleting"
  /\ Goto(t, "delete")
  /\ UNCHANGED <<k, isr, value, tokens>>

DeleteTest(t) ==
  /\ ResumeAllTest(t, Sem, "delete", "resume", "run")
  /\ object' = IF Waiters = <<>> THEN "deleted" ELSE object
  /\ UNCHANGED <<value, tokens>>

DeleteResume(t) ==
  /\ ResumeAllBody(t, Sem, "resume", "delete")
  /\ UNCHANGED <<value, object, tokens>>

-----------------------------------------------------------------------------

TickInterrupt == Interrupt /\ UNCHANGED <<value, object, tokens>>

ThreadStep(t) ==
  \/ \E n \in Timeouts : Take(t, n)
  \/ TakeReturn(t)
  \/ Schedule(t)
  \/ Release(t)
  \/ ResetBegin(t)
  \/ ResetTurn(t)
  \/ \E v \in 0 .. MaxValue : ResetEnd(t, v)
  \/ DeleteBegin(t)
  \/ DeleteTest(t)
  \/ DeleteResume(t)

Next ==
  \/ \E t \in Thread : ThreadStep(t)
  \/ TickInterrupt
  \/ "isr" \in Calls /\ IsrRelease

\* A thread that is inside a call goes on with it.
Proceeds(t) == Schedule(t) \/ TakeReturn(t) \/ DeleteTest(t) \/ DeleteResume(t)

\* The tick keeps coming, so no thread masks it for ever, and its handler
\* returns; a device keeps releasing the semaphore; a thread that is given the
\* processor again and again gets on with its call (strong fairness, with the
\* enabling conditions written out: an interrupt may come before the step again
\* and again).
Fairness ==
  /\ []<><<TickInterrupt>>_vars
  /\ WF_vars(TimerCheckEnd /\ UNCHANGED <<value, object, tokens>>)
  /\ []<>(object = "live" /\ isr = "none" /\ (Waiters # <<>> \/ value < MaxValue))
       => []<><<IsrRelease>>_vars
  /\ \A t \in Thread \ {Idle} :
       []<>(isr = "none" /\ k.cur = t /\ pc[t] # "run") => []<><<Proceeds(t)>>_vars

Spec == Init /\ [][Next]_vars

FairSpec == Spec /\ Fairness

-----------------------------------------------------------------------------
(* Properties *)

\* Every variable has its type and every thread is in the list its
\* state calls for; the value stays within RT_SEM_VALUE_MAX.
TypeOK ==
  /\ KernelInv(k, {})
  /\ isr \in {"none", "check", "masked"}
  /\ pc \in [Thread -> {"run", "blocked", "woken", "sched", "reset", "delete", "resume"}]
  /\ value \in 0 .. MaxValue
  /\ object \in {"live", "deleting", "deleted"}
  /\ tokens \in Nat

\* No thread waits while the semaphore is available: a release never leaves its
\* token in the value when somebody waits, and a take never waits for a token
\* that is there.
NoneWaitsForNothing == value > 0 => Waiters = <<>>

\* No token is lost or made up, whatever timeouts, releases by interrupt
\* handlers and resets come together: what has been put in and not been
\* returned to a caller is in the value or with a thread that a release woke.
TokensConserved == tokens = value + Cardinality(Granted)

\* rt_thread_resume asserts that it is given a thread: when rt_sem_delete gets
\* to its interrupt-disabled section there is still a waiter to resume.
ResumesWaiter == \A t \in Thread : Executes(t, "resume") => Waiters # <<>>

\* The semaphore as a whole: the kernel's lists, the value and the tokens agree
\* at every point where an interrupt can come into rt_sem_take, rt_sem_release,
\* rt_sem_control or rt_sem_delete.
SemaphoreInv == TypeOK /\ NoneWaitsForNothing /\ TokensConserved

\* The thread is more urgent than all others that use the semaphore.
MostUrgent(t) == \A u \in Thread \ {t} : k.prio[t] < k.prio[u]

\* A device that keeps releasing is enough for the most urgent thread: it is
\* served or gives up, however many others come and go meanwhile.
WaitersServed ==
  \A t \in Thread :
    t \in ToSet(Waiters) /\ MostUrgent(t) ~> t \notin ToSet(Waiters) \/ object # "live"

\* The semaphore is a counting semaphore: whatever the scheduler, the timers and
\* the interrupts do in between, tokens move only as CountingSemaphore says.
Abstract == INSTANCE CountingSemaphore
              WITH Client <- Thread, InitCount <- InitValue, MaxCount <- MaxValue,
                   count <- value, queue <- Waiters, served <- Granted

ImplementsCounting == Abstract!Spec
=============================================================================
