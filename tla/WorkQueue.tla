----------------------------- MODULE WorkQueue -----------------------------
(***************************************************************************)
(* workqueue.c: works that are submitted at once, urgently or with a delay *)
(* and run one after the other by the thread of the queue.  A delayed work *)
(* waits for its soft timer, whose callback runs in the timer thread.  The *)
(* calls come from threads and interrupt handlers; each critical section   *)
(* is a step, and what a call does outside one is a step of its own.       *)
(***************************************************************************)
EXTENDS Naturals, Sequences, SequencesExt, Lists

CONSTANTS Work,    \* the works
          NoWork,  \* RT_NULL
          Caller,  \* threads that call rt_workqueue_cancel_work_sync
          MaxStarts \* bound: submitters of a work about to start its timer

ASSUME WorkQueueAssumption == NoWork \notin Work /\ MaxStarts \in Nat \ {0}

VARIABLES work_list, delayed_list, \* of the queue
          work_current,
          pending, submitting,  \* works with RT_WORK_STATE_PENDING, _SUBMITTING
          queued,               \* works whose workqueue field is set
          starting,             \* how many submitters are about to start a work's timer
          armed,                \* works whose timer runs
          handler,              \* the callback of a work's timer
          worker,               \* where the thread of the queue is
          crit,                 \* where a rt_workqueue_cancel_all_work is
          sync,                 \* what each caller waits for
          stuck,                \* a submitter failed the assertion of rt_timer_start
          accepted,             \* history: works submitted with RT_EOK and neither
                                \* started nor cancelled since
          lost,                 \* history: works whose delay ended, or that were
                                \* refused a second submission, while they ran
          mixed                 \* history: a work was submitted without delay while
                                \* it was delayed, or cancelled or submitted with a
                                \* delay while its timer was being started or had
                                \* just expired

work_lists   == <<work_list, delayed_list>>
flags        == <<pending, submitting, queued>>
timers       == <<starting, armed, handler>>
work_history == <<accepted, lost, mixed>>
work_vars    == <<work_list, delayed_list, work_current, pending, submitting, queued, starting,
                  armed, handler, worker, crit, sync, stuck, accepted, lost, mixed>>

Idle == [at |-> "idle", work |-> NoWork]

\* rt_workqueue_create and rt_work_init
WorkInit ==
  /\ work_list = <<>> /\ delayed_list = <<>> /\ work_current = NoWork
  /\ pending = {} /\ submitting = {} /\ queued = {}
  /\ starting = [w \in Work |-> 0] /\ armed = {} /\ handler = Idle /\ stuck = FALSE
  /\ worker = "loop" /\ crit = "none"
  /\ sync = [c \in Caller |-> Idle]
  /\ accepted = {} /\ lost = {} /\ mixed = FALSE

\* The timer of w is between its expiry and the end of its callback, or between
\* its initialisation and its start.
InTransit(w) == handler.work = w \/ starting[w] > 0

\* The worker is left asleep.
Resumed_never == worker

\* The worker is resumed when it sleeps for want of work.
Resumed == IF work_current = NoWork /\ worker = "asleep" THEN "loop" ELSE worker

-----------------------------------------------------------------------------
(* Submitting *)

\* rt_workqueue_dowork, and rt_workqueue_submit_work without delay.  A work that
\* runs is refused, but leaves the list where an urgent call may have put it.
DoWork(w) ==
  /\ LET busy == work_current = w
     IN  /\ work_list' = IF busy THEN Unlink(work_list, w) ELSE Append(Unlink(work_list, w), w)
         /\ pending' = IF busy THEN pending \ {w} ELSE pending \cup {w}
         /\ queued' = IF busy THEN queued ELSE queued \cup {w}
         /\ accepted' = IF busy THEN accepted ELSE accepted \cup {w}
         /\ lost' = CASE ~busy -> lost \ {w}
                      [] w \in ToSet(work_list) -> lost \cup {w}
                      [] OTHER -> lost
  /\ delayed_list' = Unlink(delayed_list, w)
  /\ worker' = Resumed
  /\ mixed' = (mixed \/ w \in submitting)
  /\ UNCHANGED <<work_current, submitting, timers, crit, sync, stuck>>

\* The timer of a work that is delayed already keeps running.
StopTimer_running(w) == armed

\* rt_timer_stop, or rt_timer_init for a work that is not delayed.  What the list
\* of timers suffers when that timer is linked, after a late start, is left out.
StopTimer(w) == armed \ {w}

\* rt_workqueue_submit_work with a delay, up to the start of the timer
SubmitDelayed(w) ==
  /\ starting[w] < MaxStarts
  /\ work_list' = Unlink(work_list, w)
  /\ delayed_list' = Append(Unlink(delayed_list, w), w)
  /\ pending' = pending \ {w}
  /\ submitting' = submitting \cup {w}
  /\ queued' = queued \cup {w}
  /\ armed' = StopTimer(w)
  /\ starting' = [starting EXCEPT ![w] = @ + 1]
  /\ accepted' = accepted \cup {w}
  /\ lost' = lost \ {w}
  /\ mixed' = (mixed \/ InTransit(w))
  /\ UNCHANGED <<work_current, handler, worker, crit, sync, stuck>>

\* Each submitter calls rt_timer_start, with interrupts enabled again.  It asserts
\* that the timer is an object: a timer that was detached meanwhile fails the
\* assertion, unless the submitter had it behind it, and is started all the same.
StartTimer(w) ==
  /\ starting[w] > 0
  /\ starting' = [starting EXCEPT ![w] = @ - 1]
  /\ \/ armed' = armed \cup {w} /\ UNCHANGED stuck
     \/ w \notin submitting /\ stuck' = TRUE /\ UNCHANGED armed
  /\ UNCHANGED <<work_lists, work_current, flags, handler, worker, crit, sync, work_history>>

\* rt_workqueue_urgent_work, which sets neither the flag nor the workqueue field
Urgent(w) ==
  /\ work_list' = Cons(w, Unlink(work_list, w))
  /\ delayed_list' = Unlink(delayed_list, w)
  /\ worker' = Resumed
  /\ accepted' = accepted \cup {w}
  /\ lost' = lost \ {w}
  /\ mixed' = (mixed \/ w \in submitting)
  /\ UNCHANGED <<work_current, flags, timers, crit, sync, stuck>>

-----------------------------------------------------------------------------
(* Cancelling *)

\* The timer of a delayed work is left running.
Cancel_timerKept(w) ==
  /\ work_list' = Unlink(work_list, w) /\ delayed_list' = Unlink(delayed_list, w)
  /\ pending' = pending \ {w} /\ submitting' = submitting \ {w} /\ queued' = queued \ {w}
  /\ accepted' = accepted \ {w}
  /\ mixed' = (mixed \/ InTransit(w))
  /\ UNCHANGED <<work_current, starting, armed, handler, worker, stuck, lost>>

\* _workqueue_cancel_work
Cancel(w) ==
  /\ work_list' = Unlink(work_list, w) /\ delayed_list' = Unlink(delayed_list, w)
  /\ pending' = pending \ {w} /\ submitting' = submitting \ {w} /\ queued' = queued \ {w}
  /\ armed' = IF w \in submitting THEN armed \ {w} ELSE armed
  /\ accepted' = accepted \ {w}
  /\ mixed' = (mixed \/ InTransit(w))
  /\ UNCHANGED <<work_current, starting, handler, worker, stuck, lost>>

CancelWork(w) == Cancel(w) /\ UNCHANGED <<crit, sync>>

\* rt_workqueue_cancel_work_sync looks at work_current without disabling
\* interrupts, ...
SyncTest(c, w) ==
  /\ crit = "none" /\ sync[c].at = "idle"
  /\ sync' = [sync EXCEPT ![c] = [at |-> IF work_current = w THEN "take" ELSE "cancel", work |-> w]]
  /\ UNCHANGED <<work_lists, work_current, flags, timers, worker, crit, stuck, work_history>>

SyncCancel(c) ==
  /\ crit = "none" /\ sync[c].at = "cancel"
  /\ Cancel(sync[c].work)
  /\ sync' = [sync EXCEPT ![c] = Idle]
  /\ UNCHANGED crit

\* ... and then waits for the next work to end; "late" if it has waited for none.
SyncTake(c) ==
  /\ crit = "none" /\ sync[c].at = "take"
  /\ sync' = [sync EXCEPT ![c].at =
                IF work_current # NoWork \/ worker = "ack" THEN "wait" ELSE "late"]
  /\ UNCHANGED <<work_lists, work_current, flags, timers, worker, crit, stuck, work_history>>

\* rt_workqueue_cancel_all_work locks the scheduler; interrupt handlers may
\* submit meanwhile.
CancelAllBegin ==
  /\ crit = "none"
  /\ crit' = "work"
  /\ UNCHANGED <<work_lists, work_current, flags, timers, worker, sync, stuck, work_history>>

CancelAllStep ==
  /\ \/ crit = "work" /\ work_list # <<>> /\ Cancel(Head(work_list))
     \/ crit = "delayed" /\ delayed_list # <<>> /\ Cancel(Head(delayed_list))
  /\ UNCHANGED <<crit, sync>>

CancelAllNext ==
  /\ \/ crit = "work" /\ work_list = <<>> /\ crit' = "delayed"
     \/ crit = "delayed" /\ delayed_list = <<>> /\ crit' = "none"
  /\ UNCHANGED <<work_lists, work_current, flags, timers, worker, sync, stuck, work_history>>

CancelAll == CancelAllStep \/ CancelAllNext

-----------------------------------------------------------------------------
(* _delayed_work_timeout_handler in the timer thread *)

\* rt_soft_timer_check takes the timer, which is one-shot, off its list, ...
TimerExpires(w) ==
  /\ crit = "none" /\ handler.at = "idle" /\ w \in armed
  /\ armed' = armed \ {w}
  /\ handler' = [at |-> "read", work |-> w]
  /\ UNCHANGED <<work_lists, work_current, flags, starting, worker, crit, sync, stuck, work_history>>

\* ... the callback reads the workqueue field, which must not be RT_NULL, ...
HandlerRead ==
  /\ crit = "none" /\ handler.at = "read"
  /\ handler' = [handler EXCEPT !.at = IF handler.work \in queued THEN "body" ELSE "failed"]
  /\ UNCHANGED <<work_lists, work_current, flags, starting, armed, worker, crit, sync,
                 stuck, work_history>>

\* ... before interrupts are disabled.  A work that is running is dropped.
HandlerBody ==
  LET w    == handler.work
      runs == work_current = w
  IN  /\ crit = "none" /\ handler.at = "body"
      /\ handler' = Idle
      /\ armed' = armed \ {w}
      /\ submitting' = submitting \ {w}
      /\ delayed_list' = Unlink(delayed_list, w)
      /\ work_list' = IF runs THEN Unlink(work_list, w) ELSE Append(Unlink(work_list, w), w)
      /\ pending' = IF runs THEN pending ELSE pending \cup {w}
      /\ worker' = Resumed
      /\ lost' = IF runs THEN lost \cup {w} ELSE lost
      /\ UNCHANGED <<work_current, queued, starting, crit, sync, stuck, accepted, mixed>>

-----------------------------------------------------------------------------
(* _workqueue_thread_entry *)

WorkerAt(where) == crit = "none" /\ worker = where

WorkerSleep ==
  /\ WorkerAt("loop") /\ work_list = <<>>
  /\ worker' = "asleep"
  /\ UNCHANGED <<work_lists, work_current, flags, timers, crit, sync, stuck, work_history>>

WorkerTake ==
  LET w == Head(work_list)
  IN  /\ WorkerAt("loop") /\ work_list # <<>>
      /\ work_list' = Tail(work_list)
      /\ work_current' = w
      /\ pending' = pending \ {w} /\ queued' = queued \ {w}
      /\ worker' = "run"
      /\ accepted' = accepted \ {w}
      /\ UNCHANGED <<delayed_list, submitting, timers, crit, sync, stuck, lost, mixed>>

WorkerDone ==
  /\ WorkerAt("run")
  /\ work_current' = NoWork
  /\ worker' = "ack"
  /\ UNCHANGED <<work_lists, flags, timers, crit, sync, stuck, work_history>>

\* One release of the semaphore
Woken_one(c) ==
  /\ sync[c].at \in {"wait", "late"}
  /\ c = CHOOSE d \in Caller : sync[d].at \in {"wait", "late"}

Woken(c) == sync[c].at \in {"wait", "late"}

\* _workqueue_work_completion: the semaphore is released until a trytake gets it,
\* that is, until nobody waits.  The scheduler is locked and only threads take the
\* semaphore, so nobody sees the loop half done.
WorkerAck ==
  /\ WorkerAt("ack")
  /\ sync' = [c \in Caller |-> IF Woken(c) THEN Idle ELSE sync[c]]
  /\ worker' = "loop"
  /\ UNCHANGED <<work_lists, work_current, flags, timers, crit, stuck, work_history>>

-----------------------------------------------------------------------------

WorkCall(w) == DoWork(w) \/ SubmitDelayed(w) \/ Urgent(w) \/ CancelWork(w)

SyncStep(c) == SyncCancel(c) \/ SyncTake(c)

Handler == HandlerRead \/ HandlerBody

Worker == WorkerSleep \/ WorkerTake \/ WorkerDone \/ WorkerAck

WorkNext ==
  \/ \E w \in Work : WorkCall(w) \/ StartTimer(w) \/ TimerExpires(w)
  \/ \E c \in Caller : SyncStep(c) \/ \E w \in Work : SyncTest(c, w)
  \/ CancelAllBegin \/ CancelAll
  \/ Handler
  \/ Worker

WorkSpec == WorkInit /\ [][WorkNext]_work_vars

\* Threads that can run get the processor, works return and timers expire;
\* interrupt handlers do not keep rt_workqueue_cancel_all_work in its loops by
\* submitting works for ever.
WorkFairness ==
  /\ \A w \in Work : WF_work_vars(StartTimer(w)) /\ SF_work_vars(TimerExpires(w))
  /\ []<>(crit = "none")
  /\ []<>(handler.at \in {"read", "body"}) => []<><<Handler>>_work_vars
  /\ []<>(worker # "asleep") => []<><<Worker>>_work_vars

WorkFairSpec == WorkSpec /\ WorkFairness

-----------------------------------------------------------------------------
(* Properties *)

\* A work is in one list at most, the flags say in which, a delayed work has a
\* timer that will move it, and the worker sleeps only when there is no work.
\* The callback of that timer finds the queue the work belongs to, as it asserts,
\* if nobody submits or cancels the work behind the timer's back, and nobody
\* starts a timer that is gone.
QueueSound ==
  /\ IsInjective(work_list) /\ IsInjective(delayed_list)
  /\ ToSet(work_list) \cap ToSet(delayed_list) = {}
  /\ pending \subseteq ToSet(work_list)
  /\ worker = "asleep" => work_list = <<>>
  /\ mixed \/ submitting = ToSet(delayed_list)
  /\ mixed \/ \A w \in submitting : w \in armed \cap queued \/ InTransit(w)
  /\ handler.at = "failed" \/ stuck => mixed

\* The worker starts only works that were submitted and neither started nor
\* cancelled since: no submission runs twice, none after it was cancelled.
StartsAccepted ==
  [][WorkerTake => mixed \/ Head(work_list) \in accepted]_work_vars

\* A caller of rt_workqueue_cancel_work_sync that began to wait while a work ran
\* is woken when that work ends: nobody is left waiting for a work that is over.
SyncWoken ==
  \A c \in Caller : sync[c].at = "wait" => work_current # NoWork \/ worker = "ack"

\* A work that was accepted is started, unless it is submitted again or
\* overtaken by urgent works for ever, or lost while it runs.
AcceptedRuns ==
  \A w \in Work :
    <>[](w \in accepted \ lost /\ ~mixed) =>
      []<><<DoWork(w) \/ SubmitDelayed(w) \/ \E u \in Work : Urgent(u)>>_work_vars

\* The assertion of _delayed_work_timeout_handler: a work whose timer expires has
\* a queue.  A call that cancels the work between the two refutes it.
CallbackFindsQueue == handler.at # "failed"

\* The assertion of rt_timer_start in _workqueue_submit_work: the timer that a
\* submitter starts is initialised.  A call that cancels the work, or the expiry
\* of a timer that a second submitter started, refutes it.
StartsLiveTimer == ~stuck

\* A delayed work whose time has come is in the list of the queue; refuted by one
\* that is still running.
DelayDelivers == [][HandlerBody => handler.work \in ToSet(work_list')]_work_vars

\* rt_workqueue_cancel_work_sync blocks only while the work it was given executes
\* or its end is being reported; refuted by a work that ends before the wait.
BlocksUntilDone ==
  \A c \in Caller : sync[c].at \in {"wait", "late"} =>
    work_current = sync[c].work \/ worker = "ack"
=============================================================================
