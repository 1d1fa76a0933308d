--------------------------- MODULE ServiceProofs ---------------------------
(***************************************************************************)
(* The timers, the work queue and the Ethernet driver keep their promises  *)
(* for any number of timers, works, callers, senders and descriptors and   *)
(* any size of the mailboxes.                                              *)
(*                                                                         *)
(* Timers: no deadline in a list is half the range of the tick behind,     *)
(* because a soft timer is late by at most what its callbacks and a call   *)
(* can keep the timer thread, so comparisons modulo the range order the    *)
(* deadlines as the integer clock does.  The exception are soft timers     *)
(* that the thread overlooked on its way to sleep: the timing facts are    *)
(* stated until one of them is later than that.                            *)
(* Work queue: every work that is listed or has a timer was submitted and  *)
(* not cancelled since, as long as no call crossed the work's timer; the   *)
(* lists are sound even then.                                              *)
(* Transmission: the only descriptor that can be the engine's is the one   *)
(* at tx_index, because a descriptor that was given up keeps the driver    *)
(* from going on to the next.                                              *)
(* Reception: from the descriptor the driver looks at next, the full       *)
(* descriptors come first and the engine's own after them, and the engine  *)
(* is at the first of its own.                                             *)
(***************************************************************************)
EXTENDS Timer, WorkQueue, GmacTransmit, GmacReceive, ListLemmas, FiniteSetTheorems

-----------------------------------------------------------------------------
(* The work queue: its invariant *)

\* Every variable has its type; the timer's callback has a work while it runs.
QueueTypes ==
  /\ work_list \in Seq(Work) /\ delayed_list \in Seq(Work)
  /\ work_current \in Work \cup {NoWork}
  /\ pending \subseteq Work /\ submitting \subseteq Work /\ queued \subseteq Work
  /\ starting \in [Work -> Nat] /\ armed \subseteq Work
  /\ handler \in [at : {"idle", "read", "body", "failed"}, work : Work \cup {NoWork}]
  /\ handler.at = "idle" <=> handler.work = NoWork
  /\ worker \in {"loop", "asleep", "run", "ack"}
  /\ sync \in [Caller -> [at   : {"idle", "take", "cancel", "wait", "late"},
                          work : Work \cup {NoWork}]]
  /\ \A c \in Caller : sync[c].at = "cancel" => sync[c].work \in Work

\* The worker has a current work exactly while it runs one, and that work is
\* not marked as pending: the callback may take it off the list unmarked.
Running ==
  /\ work_current # NoWork <=> worker = "run"
  /\ work_current \notin pending

\* A timer that runs, is being started or has just expired belongs to a work
\* that is delayed and knows its queue, and it does only one of the three, for
\* one submitter.
TimersKnown ==
  /\ armed \subseteq submitting
  /\ handler.work # NoWork => handler.work \in submitting
  /\ submitting \subseteq queued
  /\ handler.work \notin armed
  /\ \A w \in Work : starting[w] > 0 => /\ w \in submitting /\ w \notin armed
                                         /\ handler.work # w /\ starting[w] = 1

\* Every work in a list was submitted and neither started nor cancelled since.
ListedAccepted == ToSet(work_list) \cup ToSet(delayed_list) \subseteq accepted

WorkQueueInv ==
  /\ QueueTypes /\ Running /\ QueueSound /\ SyncWoken
  /\ ~mixed => TimersKnown /\ ListedAccepted

-----------------------------------------------------------------------------

\* A work leaves both lists.
LEMMA UnlinkedWork ==
  ASSUME WorkQueueInv, NEW w \in Work
  PROVE  LET a == Unlink(work_list, w)
             b == Unlink(delayed_list, w)
         IN  /\ a \in Seq(Work) /\ IsInjective(a) /\ ToSet(a) = ToSet(work_list) \ {w}
             /\ b \in Seq(Work) /\ IsInjective(b) /\ ToSet(b) = ToSet(delayed_list) \ {w}
BY UnlinkProperties DEF WorkQueueInv, QueueTypes, QueueSound

\* ... and joins one of them, at its end or at its head.
LEMMA RelinkedWork ==
  ASSUME WorkQueueInv, NEW w \in Work
  PROVE  LET a == Append(Unlink(work_list, w), w)
             b == Append(Unlink(delayed_list, w), w)
             c == Cons(w, Unlink(work_list, w))
         IN  /\ a \in Seq(Work) /\ IsInjective(a) /\ ToSet(a) = ToSet(work_list) \cup {w}
             /\ b \in Seq(Work) /\ IsInjective(b) /\ ToSet(b) = ToSet(delayed_list) \cup {w}
             /\ c \in Seq(Work) /\ IsInjective(c) /\ ToSet(c) = ToSet(work_list) \cup {w}
<1> DEFINE a == Unlink(work_list, w)
           b == Unlink(delayed_list, w)
<1>1. /\ a \in Seq(Work) /\ IsInjective(a) /\ ToSet(a) = ToSet(work_list) \ {w}
      /\ b \in Seq(Work) /\ IsInjective(b) /\ ToSet(b) = ToSet(delayed_list) \ {w}
  BY UnlinkedWork
<1> HIDE DEF a, b
<1>2. w \notin ToSet(a) /\ w \notin ToSet(b)
  BY <1>1
<1>3. /\ Append(a, w) \in Seq(Work) /\ IsInjective(Append(a, w)) /\ ToSet(Append(a, w)) = ToSet(a) \cup {w}
      /\ Cons(w, a) \in Seq(Work) /\ IsInjective(Cons(w, a)) /\ ToSet(Cons(w, a)) = ToSet(a) \cup {w}
      /\ Append(b, w) \in Seq(Work) /\ IsInjective(Append(b, w)) /\ ToSet(Append(b, w)) = ToSet(b) \cup {w}
  BY <1>1, <1>2, AppendProps, ConsProps
<1>4. ToSet(a) \cup {w} = ToSet(work_list) \cup {w} /\ ToSet(b) \cup {w} = ToSet(delayed_list) \cup {w}
  BY <1>1
<1> QED BY <1>3, <1>4 DEF a, b

\* Initially the lists are empty and nothing runs.
LEMMA WorkQueueInit == WorkInit => WorkQueueInv
<1> SUFFICES ASSUME WorkInit PROVE WorkQueueInv
  OBVIOUS
<1> USE WorkQueueAssumption DEF WorkInit
<1>1. QueueTypes
  BY DEF QueueTypes, Idle
<1>2. Running /\ SyncWoken
  BY DEF Running, SyncWoken, Idle
<1>3. ToSet(<<>>) = {} /\ IsInjective(<<>>)
  BY DEF ToSet, IsInjective
<1>4. QueueSound
  BY <1>3 DEF QueueSound, Idle
<1>5. TimersKnown /\ ListedAccepted
  BY <1>3 DEF TimersKnown, ListedAccepted, Idle
<1> QED BY <1>1, <1>2, <1>4, <1>5 DEF WorkQueueInv

\* rt_workqueue_dowork
LEMMA DoWorkInv ==
  ASSUME WorkQueueInv, NEW w \in Work, DoWork(w)
  PROVE  WorkQueueInv'
<1> DEFINE W == IF work_current = w THEN ToSet(work_list) \ {w} ELSE ToSet(work_list) \cup {w}
<1>1. /\ work_list' \in Seq(Work) /\ IsInjective(work_list') /\ ToSet(work_list') = W
      /\ delayed_list' \in Seq(Work) /\ IsInjective(delayed_list')
      /\ ToSet(delayed_list') = ToSet(delayed_list) \ {w}
  <2>1. CASE work_current = w
    BY <2>1, UnlinkedWork DEF DoWork
  <2>2. CASE work_current # w
    BY <2>2, UnlinkedWork, RelinkedWork DEF DoWork
  <2> QED BY <2>1, <2>2
<1>2. /\ pending' = (IF work_current = w THEN pending \ {w} ELSE pending \cup {w})
      /\ queued' = (IF work_current = w THEN queued ELSE queued \cup {w})
      /\ accepted' = (IF work_current = w THEN accepted ELSE accepted \cup {w})
      /\ worker' = Resumed
      /\ mixed' = (mixed \/ w \in submitting)
      /\ UNCHANGED <<work_current, submitting, starting, armed, handler, crit, sync, stuck>>
  BY DEF DoWork, timers
<1> USE DEF WorkQueueInv
<1>3. QueueTypes'
  BY <1>1, <1>2 DEF QueueTypes, Resumed
<1>4. Running' /\ SyncWoken'
  BY <1>2 DEF Running, SyncWoken, Resumed
<1>5. QueueSound'
  <2>1. /\ ToSet(work_list') \cap ToSet(delayed_list') = {}
        /\ pending' \subseteq ToSet(work_list')
    BY <1>1, <1>2 DEF QueueSound
  <2>2. worker' # "asleep" \/ work_list' = <<>>
    <3>1. CASE work_current = NoWork
      BY <1>2, <3>1 DEF Resumed, QueueTypes
    <3>2. CASE work_current # NoWork
      BY <1>2, <3>2 DEF Resumed, Running
    <3> QED BY <3>1, <3>2
  <2>3. ASSUME ~mixed' PROVE submitting' = ToSet(delayed_list')
    BY <1>1, <1>2, <2>3 DEF QueueSound
  <2>4. ASSUME ~mixed', NEW u \in submitting' PROVE u \in armed' \cap queued' \/ InTransit(u)'
    BY <1>2, <2>4 DEF QueueSound, InTransit
  <2>5. handler'.at = "failed" \/ stuck' => mixed'
    BY <1>2 DEF QueueSound
  <2> QED BY <1>1, <2>1, <2>2, <2>3, <2>4, <2>5 DEF QueueSound
<1>6. ~mixed' => TimersKnown' /\ ListedAccepted'
  BY <1>1, <1>2 DEF TimersKnown, ListedAccepted
<1> QED BY <1>3, <1>4, <1>5, <1>6

\* rt_workqueue_submit_work with a delay
LEMMA SubmitDelayedInv ==
  ASSUME WorkQueueInv, NEW w \in Work, SubmitDelayed(w)
  PROVE  WorkQueueInv'
<1>1. /\ work_list' \in Seq(Work) /\ IsInjective(work_list')
      /\ ToSet(work_list') = ToSet(work_list) \ {w}
      /\ delayed_list' \in Seq(Work) /\ IsInjective(delayed_list')
      /\ ToSet(delayed_list') = ToSet(delayed_list) \cup {w}
  BY UnlinkedWork, RelinkedWork DEF SubmitDelayed
<1>2. /\ pending' = pending \ {w} /\ submitting' = submitting \cup {w}
      /\ queued' = queued \cup {w} /\ armed' = armed \ {w} 
      /\ starting' = [starting EXCEPT ![w] = @ + 1]
      /\ accepted' = accepted \cup {w}
      /\ mixed' = (mixed \/ InTransit(w))
      /\ UNCHANGED <<work_current, handler, worker, crit, sync, stuck>>
  BY DEF SubmitDelayed, StopTimer
<1> USE DEF WorkQueueInv
<1>3. QueueTypes'
  BY <1>1, <1>2 DEF QueueTypes
<1>4. Running' /\ SyncWoken'
  BY <1>2 DEF Running, SyncWoken
<1>5. QueueSound'
  <2>1. /\ ToSet(work_list') \cap ToSet(delayed_list') = {}
        /\ pending' \subseteq ToSet(work_list')
    BY <1>1, <1>2 DEF QueueSound
  <2>2. ASSUME worker' = "asleep" PROVE work_list' = <<>>
    <3>1. ToSet(work_list) = {}
      BY <1>2, <2>2, EmptyToSet DEF QueueSound, QueueTypes
    <3> QED BY <1>1, <3>1, EmptyToSet
  <2>3. ASSUME ~mixed' PROVE submitting' = ToSet(delayed_list')
    BY <1>1, <1>2, <2>3 DEF QueueSound
  <2>4. ASSUME ~mixed', NEW u \in submitting' PROVE u \in armed' \cap queued' \/ InTransit(u)'
    <3>1. CASE u = w
      BY <1>2, <3>1 DEF QueueTypes, InTransit
    <3>2. CASE u # w
      <4>1. u \in submitting /\ u \in Work /\ ~mixed
        BY <1>2, <2>4, <3>2 DEF QueueTypes
      <4>2. starting'[u] = starting[u]
        BY <1>2, <3>2, <4>1 DEF QueueTypes
      <4> QED BY <1>2, <3>2, <4>1, <4>2 DEF QueueSound, InTransit
    <3> QED BY <3>1, <3>2
  <2>5. handler'.at = "failed" \/ stuck' => mixed'
    BY <1>2 DEF QueueSound
  <2> QED BY <1>1, <2>1, <2>2, <2>3, <2>4, <2>5 DEF QueueSound
<1>6. ASSUME ~mixed' PROVE TimersKnown' /\ ListedAccepted'
  <2>1. ~mixed /\ handler.work # w /\ starting[w] = 0
    <3>1. ~mixed /\ handler.work # w /\ ~ (starting[w] > 0)
      BY <1>2, <1>6 DEF InTransit
    <3>2. starting[w] \in Nat
      BY DEF QueueTypes
    <3> QED BY <3>1, <3>2
  <2>2. starting'[w] = 1 /\ \A u \in Work \ {w} : starting'[u] = starting[u]
    BY <1>2, <2>1 DEF QueueTypes
  <2>3. TimersKnown'
    BY <1>2, <2>1, <2>2 DEF TimersKnown
  <2> QED BY <1>1, <1>2, <2>1, <2>3 DEF ListedAccepted
<1> QED BY <1>3, <1>4, <1>5, <1>6

\* rt_timer_start for a delayed work
LEMMA StartTimerInv ==
  ASSUME WorkQueueInv, NEW w \in Work, StartTimer(w)
  PROVE  WorkQueueInv'
<1>2. /\ starting[w] > 0 /\ starting' = [starting EXCEPT ![w] = @ - 1]
      /\ \/ armed' = armed \cup {w} /\ stuck' = stuck
         \/ w \notin submitting /\ armed' = armed
      /\ UNCHANGED <<work_list, delayed_list, work_current, pending, submitting, queued,
                     handler, worker, crit, sync, accepted, lost, mixed>>
  BY DEF StartTimer, work_lists, flags, work_history
<1> USE DEF WorkQueueInv
<1>3. QueueTypes'
  BY <1>2 DEF QueueTypes
<1>4. Running' /\ SyncWoken'
  BY <1>2 DEF Running, SyncWoken
<1>a. ASSUME ~mixed'
      PROVE  /\ armed' = armed \cup {w} /\ stuck' = stuck /\ w \in submitting
             /\ handler.work # w
             /\ starting'[w] = 0 /\ \A u \in Work \ {w} : starting'[u] = starting[u]
  <2>1. w \in submitting /\ handler.work # w /\ starting[w] = 1
    BY <1>2, <1>a DEF TimersKnown
  <2> QED BY <1>2, <2>1 DEF QueueTypes
<1>5. QueueSound'
  <2>1. ASSUME ~mixed', NEW u \in submitting' PROVE u \in armed' \cap queued' \/ InTransit(u)'
    BY <1>2, <1>a, <2>1 DEF QueueSound, InTransit, TimersKnown, QueueTypes
  <2>2. handler'.at = "failed" \/ stuck' => mixed'
    BY <1>2, <1>a DEF QueueSound
  <2> QED BY <1>2, <2>1, <2>2 DEF QueueSound
<1>6. ASSUME ~mixed' PROVE TimersKnown' /\ ListedAccepted'
  BY <1>2, <1>a, <1>6 DEF TimersKnown, ListedAccepted
<1> QED BY <1>3, <1>4, <1>5, <1>6

\* rt_workqueue_urgent_work
LEMMA UrgentInv ==
  ASSUME WorkQueueInv, NEW w \in Work, Urgent(w)
  PROVE  WorkQueueInv'
<1>1. /\ work_list' \in Seq(Work) /\ IsInjective(work_list')
      /\ ToSet(work_list') = ToSet(work_list) \cup {w}
      /\ delayed_list' \in Seq(Work) /\ IsInjective(delayed_list')
      /\ ToSet(delayed_list') = ToSet(delayed_list) \ {w}
  BY UnlinkedWork, RelinkedWork DEF Urgent
<1>2. /\ accepted' = accepted \cup {w}
      /\ worker' = Resumed
      /\ mixed' = (mixed \/ w \in submitting)
      /\ UNCHANGED <<work_current, pending, submitting, queued, starting, armed, handler, crit, sync, stuck>>
  BY DEF Urgent, flags, timers
<1> USE DEF WorkQueueInv
<1>3. QueueTypes'
  BY <1>1, <1>2 DEF QueueTypes, Resumed
<1>4. Running' /\ SyncWoken'
  BY <1>2 DEF Running, SyncWoken, Resumed
<1>5. QueueSound'
  <2>1. /\ ToSet(work_list') \cap ToSet(delayed_list') = {}
        /\ pending' \subseteq ToSet(work_list')
    BY <1>1, <1>2 DEF QueueSound
  <2>2. worker' # "asleep"
    BY <1>2 DEF Resumed, Running
  <2>3. ASSUME ~mixed' PROVE submitting' = ToSet(delayed_list')
    BY <1>1, <1>2, <2>3 DEF QueueSound
  <2>4. ASSUME ~mixed', NEW u \in submitting' PROVE u \in armed' \cap queued' \/ InTransit(u)'
    BY <1>2, <2>4 DEF QueueSound, InTransit
  <2>5. handler'.at = "failed" \/ stuck' => mixed'
    BY <1>2 DEF QueueSound
  <2> QED BY <1>1, <2>1, <2>2, <2>3, <2>4, <2>5 DEF QueueSound
<1>6. ~mixed' => TimersKnown' /\ ListedAccepted'
  BY <1>1, <1>2 DEF TimersKnown, ListedAccepted
<1> QED BY <1>3, <1>4, <1>5, <1>6

\* _workqueue_cancel_work, on its own or as a step of another call: only
\* SyncWoken may be disturbed by what the caller does next to it.
LEMMA CancelInv ==
  ASSUME WorkQueueInv, NEW w \in Work, Cancel(w),
         sync' \in [Caller -> [at   : {"idle", "take", "cancel", "wait", "late"},
                               work : Work \cup {NoWork}]],
         \A c \in Caller : sync'[c] = sync[c] \/ sync'[c] = Idle
  PROVE  WorkQueueInv'
<1>1. /\ work_list' \in Seq(Work) /\ IsInjective(work_list')
      /\ ToSet(work_list') = ToSet(work_list) \ {w}
      /\ delayed_list' \in Seq(Work) /\ IsInjective(delayed_list')
      /\ ToSet(delayed_list') = ToSet(delayed_list) \ {w}
  BY UnlinkedWork DEF Cancel
<1>2. /\ pending' = pending \ {w} /\ submitting' = submitting \ {w} /\ queued' = queued \ {w}
      /\ armed' = (IF w \in submitting THEN armed \ {w} ELSE armed)
      /\ accepted' = accepted \ {w}
      /\ mixed' = (mixed \/ InTransit(w))
      /\ UNCHANGED <<work_current, starting, handler, worker, stuck>>
  BY DEF Cancel
<1> USE DEF WorkQueueInv
<1>3. QueueTypes'
  <2>1. \A c \in Caller : sync'[c].at = "cancel" => sync'[c].work \in Work
    BY DEF QueueTypes, Idle
  <2>2. armed' \subseteq Work
    BY <1>2 DEF QueueTypes
  <2> QED
    BY <1>1, <1>2, <2>1, <2>2 DEF QueueTypes
<1>4. Running' /\ SyncWoken'
  BY <1>2 DEF Running, SyncWoken, Idle
<1>5. QueueSound'
  <2>1. /\ ToSet(work_list') \cap ToSet(delayed_list') = {}
        /\ pending' \subseteq ToSet(work_list')
    BY <1>1, <1>2 DEF QueueSound
  <2>2. ASSUME worker' = "asleep" PROVE work_list' = <<>>
    <3>1. ToSet(work_list) = {}
      BY <1>2, <2>2, EmptyToSet DEF QueueSound, QueueTypes
    <3> QED BY <1>1, <3>1, EmptyToSet
  <2>3. ASSUME ~mixed' PROVE submitting' = ToSet(delayed_list')
    BY <1>1, <1>2, <2>3 DEF QueueSound
  <2>4. ASSUME ~mixed', NEW u \in submitting' PROVE u \in armed' \cap queued' \/ InTransit(u)'
    BY <1>2, <2>4 DEF QueueSound, InTransit
  <2>5. handler'.at = "failed" \/ stuck' => mixed'
    BY <1>2 DEF QueueSound
  <2> QED BY <1>1, <2>1, <2>2, <2>3, <2>4, <2>5 DEF QueueSound
<1>6. ~mixed' => TimersKnown' /\ ListedAccepted'
  BY <1>1, <1>2 DEF TimersKnown, ListedAccepted, InTransit
<1> QED BY <1>3, <1>4, <1>5, <1>6

\* rt_workqueue_cancel_work_sync: its test, its cancellation and its wait
LEMMA SyncInv ==
  ASSUME WorkQueueInv, NEW c \in Caller, SyncStep(c) \/ \E w \in Work : SyncTest(c, w)
  PROVE  WorkQueueInv'
<1>0. QueueTypes
  BY DEF WorkQueueInv
<1>1. CASE SyncCancel(c)
  <2>1. sync[c].work \in Work /\ Cancel(sync[c].work) /\ sync' = [sync EXCEPT ![c] = Idle]
    BY <1>0, <1>1 DEF SyncCancel, QueueTypes
  <2>2. /\ sync' \in [Caller -> [at   : {"idle", "take", "cancel", "wait", "late"},
                               work : Work \cup {NoWork}]]
        /\ \A d \in Caller : sync'[d] = sync[d] \/ sync'[d] = Idle
    BY <1>0, <2>1 DEF QueueTypes, Idle
  <2> QED BY <2>1, <2>2, CancelInv
<1>2. CASE SyncTake(c) \/ \E w \in Work : SyncTest(c, w)
  <2>1. UNCHANGED <<work_list, delayed_list, work_current, pending, submitting, queued, starting,
                    armed, handler, worker, stuck, accepted, mixed>>
    BY <1>2 DEF SyncTake, SyncTest, work_lists, flags, timers, work_history
  <2>0. /\ sync' \in [Caller -> [at   : {"idle", "take", "cancel", "wait", "late"},
                                 work : Work \cup {NoWork}]]
        /\ \A d \in Caller : sync'[d].at = "cancel" => sync'[d].work \in Work
    <3>1. CASE SyncTake(c)
      BY <1>0, <3>1 DEF SyncTake, QueueTypes
    <3>2. CASE \E w \in Work : SyncTest(c, w)
      BY <1>0, <3>2 DEF SyncTest, QueueTypes
    <3> QED BY <1>2, <3>1, <3>2
  <2>2. QueueTypes'
    BY <1>0, <2>0, <2>1 DEF QueueTypes
  <2>3. SyncWoken'
    <3>1. SyncWoken
      BY DEF WorkQueueInv
    <3>2. CASE SyncTake(c)
      <4>1. sync' = [sync EXCEPT ![c].at =
                       IF work_current # NoWork \/ worker = "ack" THEN "wait" ELSE "late"]
        BY <3>2 DEF SyncTake
      <4>2. \A d \in Caller \ {c} : sync'[d] = sync[d]
        BY <1>0, <4>1 DEF QueueTypes
      <4>3. sync'[c].at = "wait" => work_current # NoWork \/ worker = "ack"
        BY <1>0, <4>1 DEF QueueTypes
      <4> QED BY <2>1, <3>1, <4>2, <4>3 DEF SyncWoken
    <3>3. CASE \E w \in Work : SyncTest(c, w)
      <4>1. sync'[c].at # "wait" /\ \A d \in Caller \ {c} : sync'[d] = sync[d]
        BY <1>0, <3>3 DEF SyncTest, QueueTypes
      <4> QED BY <2>1, <3>1, <4>1 DEF SyncWoken
    <3> QED BY <1>2, <3>2, <3>3
  <2>4. Running' /\ QueueSound' /\ (~mixed' => TimersKnown' /\ ListedAccepted')
    BY <2>1 DEF WorkQueueInv, Running, QueueSound, InTransit, TimersKnown, ListedAccepted
  <2> QED BY <2>2, <2>3, <2>4 DEF WorkQueueInv
<1> QED BY <1>1, <1>2 DEF SyncStep

\* rt_workqueue_cancel_all_work
LEMMA CancelAllInv ==
  ASSUME WorkQueueInv, CancelAllBegin \/ CancelAll
  PROVE  WorkQueueInv'
<1>0. QueueTypes
  BY DEF WorkQueueInv
<1>1. CASE CancelAllStep
  <2>1. PICK w \in Work : Cancel(w)
    BY <1>0, <1>1, EmptyToSet DEF CancelAllStep, QueueTypes
  <2>2. sync' = sync
    BY <1>1 DEF CancelAllStep
  <2> QED BY <1>0, <2>1, <2>2, CancelInv DEF QueueTypes
<1>2. CASE CancelAllBegin \/ CancelAllNext
  <2>1. UNCHANGED <<work_list, delayed_list, work_current, pending, submitting, queued, starting,
                    armed, handler, worker, sync, stuck, accepted, mixed>>
    BY <1>2 DEF CancelAllBegin, CancelAllNext, work_lists, flags, timers, work_history
  <2> QED
    BY <2>1 DEF WorkQueueInv, QueueTypes, Running, QueueSound, InTransit, SyncWoken, TimersKnown,
                ListedAccepted
<1> QED BY <1>1, <1>2 DEF CancelAll

\* A timer expires, and its callback reads the queue of the work.
LEMMA ExpiryInv ==
  ASSUME WorkQueueInv, (\E w \in Work : TimerExpires(w)) \/ HandlerRead
  PROVE  WorkQueueInv'
<1> USE DEF WorkQueueInv
<1>1. UNCHANGED <<work_list, delayed_list, work_current, pending, submitting, queued, starting,
                  worker, sync, stuck, accepted, mixed>>
  BY DEF TimerExpires, HandlerRead, work_lists, flags, work_history
<1>2. Running' /\ SyncWoken' /\ ListedAccepted' = ListedAccepted
  BY <1>1 DEF Running, SyncWoken, ListedAccepted
<1>3. CASE \E w \in Work : TimerExpires(w)
  <2>1. PICK w \in Work : TimerExpires(w)
    BY <1>3
  <2>2. /\ handler.at = "idle" /\ w \in armed /\ armed' = armed \ {w}
        /\ handler'.at = "read" /\ handler'.work = w
    BY <2>1 DEF TimerExpires
  <2>3. QueueTypes'
    BY <1>1, <2>1, <2>2, WorkQueueAssumption DEF QueueTypes, TimerExpires
  <2>4. ~mixed' => TimersKnown'
    BY <1>1, <2>2, WorkQueueAssumption DEF TimersKnown, QueueTypes
  <2>5. QueueSound'
    <3>1. ASSUME ~mixed', NEW u \in submitting' PROVE u \in armed' \cap queued' \/ InTransit(u)'
      BY <1>1, <2>2, <3>1, WorkQueueAssumption DEF QueueSound, InTransit, QueueTypes
    <3> QED BY <1>1, <2>2, <3>1 DEF QueueSound
  <2> QED BY <1>1, <1>2, <2>3, <2>4, <2>5
<1>4. CASE HandlerRead
  <2>2. /\ armed' = armed /\ handler.at = "read" /\ handler.work \in Work
        /\ handler'.work = handler.work
        /\ handler'.at = IF handler.work \in queued THEN "body" ELSE "failed"
    BY <1>4 DEF HandlerRead, QueueTypes
  <2>3. QueueTypes'
    BY <1>1, <1>4, <2>2 DEF QueueTypes, HandlerRead
  <2>4. ~mixed' => TimersKnown'
    BY <1>1, <2>2 DEF TimersKnown
  <2>5. QueueSound'
    BY <1>1, <2>2, WorkQueueAssumption DEF QueueSound, InTransit, TimersKnown
  <2> QED BY <1>1, <1>2, <2>3, <2>4, <2>5
<1> QED BY <1>3, <1>4

\* The callback moves its work to the list, or drops it.
LEMMA HandlerBodyInv ==
  ASSUME WorkQueueInv, HandlerBody
  PROVE  WorkQueueInv'
<1> DEFINE w == handler.work
           W == IF work_current = w THEN ToSet(work_list) \ {w} ELSE ToSet(work_list) \cup {w}
<1>0. w \in Work
  BY WorkQueueAssumption DEF HandlerBody, WorkQueueInv, QueueTypes
<1>2. /\ handler' = Idle /\ armed' = armed \ {w} /\ submitting' = submitting \ {w}
      /\ delayed_list' = Unlink(delayed_list, w)
      /\ work_list' = IF work_current = w THEN Unlink(work_list, w) ELSE Append(Unlink(work_list, w), w)
      /\ pending' = IF work_current = w THEN pending ELSE pending \cup {w}
      /\ worker' = Resumed
      /\ UNCHANGED <<work_current, queued, starting, crit, sync, stuck, accepted, mixed>>
  BY DEF HandlerBody
<1> HIDE DEF w
<1>1. /\ work_list' \in Seq(Work) /\ IsInjective(work_list') /\ ToSet(work_list') = W
      /\ delayed_list' \in Seq(Work) /\ IsInjective(delayed_list')
      /\ ToSet(delayed_list') = ToSet(delayed_list) \ {w}
  <2>1. CASE work_current = w
    BY <1>0, <1>2, <2>1, UnlinkedWork
  <2>2. CASE work_current # w
    BY <1>0, <1>2, <2>2, UnlinkedWork, RelinkedWork
  <2> QED BY <2>1, <2>2
<1> USE DEF WorkQueueInv
<1>3. QueueTypes'
  BY <1>0, <1>1, <1>2 DEF QueueTypes, Resumed, Idle
<1>4. Running' /\ SyncWoken'
  BY <1>2 DEF Running, SyncWoken, Resumed
<1>5. ASSUME ~mixed' PROVE TimersKnown' /\ ListedAccepted'
  <2>1. /\ handler'.work = NoWork /\ w \in submitting /\ submitting = ToSet(delayed_list)
        /\ w \notin armed /\ ~ (starting[w] > 0)
    BY <1>0, <1>2, <1>5, WorkQueueAssumption DEF TimersKnown, QueueSound, Idle, w
  <2>2. TimersKnown'
    BY <1>2, <1>5, <2>1, WorkQueueAssumption DEF TimersKnown, QueueTypes
  <2>3. ListedAccepted'
    BY <1>1, <1>2, <1>5, <2>1 DEF ListedAccepted
  <2> QED BY <2>2, <2>3
<1>6. QueueSound'
  <2>1. /\ ToSet(work_list') \cap ToSet(delayed_list') = {}
        /\ pending' \subseteq ToSet(work_list')
    BY <1>1, <1>2 DEF QueueSound, Running
  <2>2. worker' # "asleep"
    BY <1>2 DEF Resumed, Running
  <2>3. ASSUME ~mixed' PROVE submitting' = ToSet(delayed_list')
    BY <1>1, <1>2, <2>3 DEF QueueSound
  <2>4. ASSUME ~mixed', NEW u \in submitting' PROVE u \in armed' \cap queued' \/ InTransit(u)'
    BY <1>2, <2>4 DEF QueueSound, InTransit, w
  <2>5. handler'.at = "failed" \/ stuck' => mixed'
    BY <1>2 DEF Idle, QueueSound
  <2> QED BY <1>1, <2>1, <2>2, <2>3, <2>4, <2>5 DEF QueueSound
<1> QED BY <1>3, <1>4, <1>5, <1>6

\* The worker takes the first work.
LEMMA WorkerTakeInv ==
  ASSUME WorkQueueInv, WorkerTake
  PROVE  WorkQueueInv' /\ (~mixed => Head(work_list) \in accepted)
<1> DEFINE w == Head(work_list)
<1> USE DEF WorkQueueInv
<1>1. /\ work_list # <<>> /\ worker = "loop"
      /\ work_list' = Tail(work_list) /\ work_current' = w
      /\ pending' = pending \ {w} /\ queued' = queued \ {w} /\ worker' = "run"
      /\ accepted' = accepted \ {w}
      /\ UNCHANGED <<delayed_list, submitting, starting, armed, handler, crit, sync, stuck, mixed>>
  BY DEF WorkerTake, WorkerAt, timers
<1>2. /\ w \in ToSet(work_list) /\ w \in Work
      /\ work_list' \in Seq(Work) /\ IsInjective(work_list')
      /\ ToSet(work_list') = ToSet(work_list) \ {w}
  BY <1>1, EmptyToSet, TailProps DEF QueueTypes, QueueSound
<1> HIDE DEF w
<1>3. QueueTypes'
  BY <1>1, <1>2 DEF QueueTypes
<1>4. Running' /\ SyncWoken'
  BY <1>1, <1>2, WorkQueueAssumption DEF Running, SyncWoken
<1>5. ASSUME ~mixed' PROVE TimersKnown' /\ ListedAccepted'
  <2>1. w \notin submitting
    BY <1>1, <1>2, <1>5 DEF QueueSound
  <2> QED BY <1>1, <1>2, <1>5, <2>1 DEF TimersKnown, ListedAccepted, QueueSound
<1>6. QueueSound'
  <2>1. ASSUME ~mixed', NEW u \in submitting' PROVE u \in armed' \cap queued' \/ InTransit(u)'
    BY <1>1, <1>2, <2>1 DEF QueueSound, InTransit
  <2> QED BY <1>1, <1>2, <2>1 DEF QueueSound
<1>7. ~mixed => w \in accepted
  BY <1>2 DEF ListedAccepted
<1> QED BY <1>3, <1>4, <1>5, <1>6, <1>7 DEF w

\* The worker sleeps, finishes a work or wakes who waits for its end.
LEMMA WorkerInv ==
  ASSUME WorkQueueInv, WorkerSleep \/ WorkerDone \/ WorkerAck
  PROVE  WorkQueueInv'
<1> USE DEF WorkQueueInv
<1>1. UNCHANGED <<work_list, delayed_list, pending, submitting, queued, starting, armed, handler,
                  stuck, accepted, mixed>>
  BY DEF WorkerSleep, WorkerDone, WorkerAck, work_lists, flags, timers, work_history
<1>2. ~mixed' => TimersKnown' /\ ListedAccepted'
  BY <1>1 DEF TimersKnown, ListedAccepted
<1>3. QueueTypes'
  <2>1. /\ work_current' \in Work \cup {NoWork}
        /\ worker' \in {"loop", "asleep", "run", "ack"}
        /\ sync' = sync \/ sync' = [c \in Caller |-> IF Woken(c) THEN Idle ELSE sync[c]]
    BY DEF QueueTypes, WorkerSleep, WorkerDone, WorkerAck, work_lists
  <2>2. /\ sync' \in [Caller -> [at   : {"idle", "take", "cancel", "wait", "late"},
                                 work : Work \cup {NoWork}]]
        /\ \A c \in Caller : sync'[c].at = "cancel" => sync'[c].work \in Work
    BY <2>1 DEF QueueTypes, Idle
  <2> QED BY <1>1, <2>1, <2>2 DEF QueueTypes
<1>4. QueueSound'
  BY <1>1 DEF QueueSound, InTransit, WorkerSleep, WorkerDone, WorkerAck, WorkerAt
<1>5. Running'
  BY <1>1, WorkQueueAssumption DEF Running, QueueSound, QueueTypes, WorkerSleep, WorkerDone, WorkerAck, WorkerAt
<1>6. SyncWoken'
  BY <1>1 DEF SyncWoken, QueueTypes, WorkerSleep, WorkerDone, WorkerAck, WorkerAt, Woken, Idle
<1> QED BY <1>2, <1>3, <1>4, <1>5, <1>6

\* Every step keeps the invariant.
LEMMA WorkQueueStep == WorkQueueInv /\ [WorkNext]_work_vars => WorkQueueInv'
<1> SUFFICES ASSUME WorkQueueInv, [WorkNext]_work_vars PROVE WorkQueueInv'
  OBVIOUS
<1>1. ASSUME NEW w \in Work, WorkCall(w) \/ StartTimer(w) \/ TimerExpires(w) PROVE WorkQueueInv'
  <2>1. CASE CancelWork(w)
    <3>1. Cancel(w) /\ sync' = sync /\ QueueTypes
      BY <2>1 DEF CancelWork, WorkQueueInv
    <3> QED BY <3>1, CancelInv DEF QueueTypes
  <2> QED BY <1>1, <2>1, DoWorkInv, SubmitDelayedInv, UrgentInv, StartTimerInv, ExpiryInv DEF WorkCall
<1>2. CASE UNCHANGED work_vars
  BY <1>2 DEF work_vars, WorkQueueInv, QueueTypes, Running, QueueSound, InTransit, SyncWoken,
              TimersKnown, ListedAccepted
<1> QED BY <1>1, <1>2, SyncInv, CancelAllInv, ExpiryInv, HandlerBodyInv, WorkerTakeInv, WorkerInv
        DEF WorkNext, Handler, Worker

\* The invariant of the work queue holds for any works and callers.
THEOREM WorkQueueCorrect == WorkSpec => []WorkQueueInv
BY WorkQueueInit, WorkQueueStep, PTL DEF WorkSpec

\* The lists, flags and timers of the work queue agree, and the worker does not
\* sleep while there is work.
THEOREM WorkQueueSound == WorkSpec => []QueueSound
<1>1. WorkQueueInv => QueueSound
  BY DEF WorkQueueInv
<1> QED BY <1>1, WorkQueueCorrect, PTL

\* Nobody is left waiting in rt_workqueue_cancel_work_sync for a work that has
\* ended.
THEOREM WorkQueueSync == WorkSpec => []SyncWoken
<1>1. WorkQueueInv => SyncWoken
  BY DEF WorkQueueInv
<1> QED BY <1>1, WorkQueueCorrect, PTL

\* The worker starts only works that were submitted and neither started nor
\* cancelled since.
THEOREM WorkQueueStarts == WorkSpec => StartsAccepted
<1>1. WorkQueueInv /\ [WorkNext]_work_vars => [WorkerTake => mixed \/ Head(work_list) \in accepted]_work_vars
  BY WorkerTakeInv
<1> QED BY <1>1, WorkQueueCorrect, PTL DEF WorkSpec, StartsAccepted

-----------------------------------------------------------------------------
(* Transmission: its invariant *)

\* Every variable has its type, and a message that is on its way has a frame.
TransmitTypes ==
  /\ sender_at \in [Sender -> {"idle", "posted", "waiting"}]
  /\ buf \in [Sender -> TxFrame \cup {NoFrame}]
  /\ \A s \in Sender : sender_at[s] # "idle" => buf[s] \in TxFrame
  /\ ack \in [Sender -> BOOLEAN]
  /\ tx_mails \in Seq(Sender)
  /\ etx \in {"recv", "test", "free", "copy", "own", "tail", "wait", "advance", "ack"}
  /\ msg \in Sender \cup {NoSender}
  /\ tx_own \in [TxSlot -> BOOLEAN]
  /\ tx_buffer \in [TxSlot -> TxFrame \cup {NoFrame}]
  /\ tx_index \in TxSlot /\ tx_current \in TxSlot
  /\ late \in BOOLEAN

\* The etx thread has a message exactly while it handles one.
Handling == etx = "recv" <=> msg = NoSender

\* The engine owns the descriptor at tx_index or none, and the driver prepares
\* a frame or goes on only when it owns none.
OwnsOne ==
  \A i \in TxSlot : tx_own[i] =>
    /\ i = tx_index
    /\ etx \notin {"copy", "own", "advance"}
    /\ etx \in {"tail", "wait"} \/ late

\* The engine sends a frame it owns.
SendsOwn == tx_dma = "send" => tx_own[tx_current]

\* The frame handed over is that of the message, and once the engine has given
\* the descriptor back it was the last frame sent.
FrameSent ==
  /\ etx \in {"own", "tail", "wait"} => tx_buffer[tx_index] = buf[msg]
  /\ etx \in {"tail", "wait"} /\ ~tx_own[tx_index] => wire = buf[msg]

TransmitInv ==
  /\ TransmitTypes /\ Handling /\ OwnsOne /\ SendsOwn /\ FrameSent
  /\ MessagesLive /\ EokSent /\ InStep

-----------------------------------------------------------------------------

\* The descriptor after one of the ring is in the ring.
LEMMA NextSlotType ==
  ASSUME NEW i \in TxSlot
  PROVE  TxNextSlot(i) \in TxSlot
BY GmacTransmitAssumption DEF TxSlot, TxNextSlot

\* Initially nothing is posted, handed over or sent.
LEMMA TransmitInit == TxInit => TransmitInv
<1> SUFFICES ASSUME TxInit PROVE TransmitInv
  OBVIOUS
<1> USE GmacTransmitAssumption DEF TxInit
<1>1. TransmitTypes
  <2>1. 0 \in TxSlot
    BY DEF TxSlot
  <2>2. tx_mails \in Seq(Sender)
    OBVIOUS
  <2> QED
    BY <2>1, <2>2 DEF TransmitTypes
<1>2. Handling /\ OwnsOne /\ SendsOwn /\ FrameSent
  BY DEF Handling, OwnsOne, SendsOwn, FrameSent, TxSlot
<1>3. MessagesLive
  BY DEF MessagesLive, IsInjective, ToSet
<1>4. EokSent /\ InStep
  BY DEF EokSent, InStep
<1> QED BY <1>1, <1>2, <1>3, <1>4 DEF TransmitInv

\* ethernetif_linkoutput: the message of an idle sender is posted.
LEMMA OutputInv ==
  ASSUME TransmitInv, NEW s \in Sender, NEW f \in TxFrame, Output(s, f)
  PROVE  TransmitInv'
<1> USE DEF TransmitInv, tx_ring, tx_engine
<1>1. CASE Len(tx_mails) < TxSize
  <2>0. /\ tx_mails' = Append(tx_mails, s) /\ sender_at[s] = "idle"
        /\ sender_at' = [sender_at EXCEPT ![s] = "posted"]
        /\ buf' = [buf EXCEPT ![s] = f] /\ ack' = [ack EXCEPT ![s] = FALSE]
        /\ UNCHANGED <<etx, msg, tx_ring, tx_engine, tx_link_up, late>>
    BY <1>1 DEF Output
  <2>1. s \notin ToSet(tx_mails) /\ s # msg
    BY <2>0, GmacTransmitAssumption DEF MessagesLive
  <2>2. /\ tx_mails' \in Seq(Sender) /\ IsInjective(tx_mails')
        /\ ToSet(tx_mails') = ToSet(tx_mails) \cup {s}
    BY <2>0, <2>1, AppendProps DEF TransmitTypes, MessagesLive
  <2>3. TransmitTypes'
    BY <2>0, <2>2 DEF TransmitTypes
  <2>4. MessagesLive'
    BY <2>0, <2>1, <2>2, GmacTransmitAssumption DEF MessagesLive, TransmitTypes
  <2>5. buf'[msg] = buf[msg] \/ msg = NoSender
    BY <2>0, <2>1 DEF TransmitTypes
  <2>6. Handling' /\ OwnsOne' /\ SendsOwn' /\ InStep'
    BY <2>0 DEF Handling, OwnsOne, SendsOwn, InStep
  <2>7. FrameSent' /\ EokSent'
    BY <2>0, <2>5 DEF FrameSent, EokSent, Handling
  <2> QED BY <2>3, <2>4, <2>6, <2>7
<1>2. CASE ~(Len(tx_mails) < TxSize)
  <2>0. UNCHANGED tx_vars
    BY <1>2 DEF Output, senders, tx_vars
  <2> QED
    BY <2>0 DEF tx_vars, TransmitTypes, Handling, OwnsOne, SendsOwn, FrameSent, MessagesLive, EokSent, InStep
<1> QED BY <1>1, <1>2

\* A sender that waits has its message posted or handled until it is told.
LEMMA WaitInv ==
  ASSUME TransmitInv, NEW s \in Sender, Wait(s)
  PROVE  TransmitInv'
<1> USE DEF TransmitInv, tx_ring, tx_engine, Wait
<1>1. TransmitTypes'
  BY DEF TransmitTypes
<1>2. MessagesLive'
  BY DEF MessagesLive, TransmitTypes
<1>3. Handling' /\ OwnsOne' /\ SendsOwn' /\ FrameSent' /\ EokSent' /\ InStep'
  BY DEF Handling, OwnsOne, SendsOwn, FrameSent, EokSent, InStep
<1> QED BY <1>1, <1>2, <1>3

\* The etx thread takes the first message.
LEMMA RecvMailInv ==
  ASSUME TransmitInv, RecvMail
  PROVE  TransmitInv'
<1> USE DEF TransmitInv, RecvMail, tx_ring, tx_engine, senders
<1>0. tx_mails \in Seq(Sender) /\ tx_mails # <<>> /\ IsInjective(tx_mails) /\ msg = NoSender
  BY DEF TransmitTypes, MessagesLive, Handling
<1>1. /\ tx_mails' \in Seq(Sender) /\ IsInjective(tx_mails')
      /\ ToSet(tx_mails') = ToSet(tx_mails) \ {msg'}
  BY <1>0, TailProps
<1>2. msg' \in ToSet(tx_mails) /\ msg' \in Sender
  BY <1>0, EmptyToSet
<1>3. TransmitTypes'
  BY <1>1, <1>2 DEF TransmitTypes
<1>4. MessagesLive'
  BY <1>0, <1>1, <1>2 DEF MessagesLive
<1>5. Handling' /\ OwnsOne' /\ SendsOwn' /\ FrameSent' /\ EokSent' /\ InStep'
  BY <1>2, GmacTransmitAssumption DEF Handling, OwnsOne, SendsOwn, FrameSent, EokSent, InStep
<1> QED BY <1>3, <1>4, <1>5

\* The tests and the polling of rk3576_gmac_dma_transmit; giving up a
\* descriptor that was handed over is late.
LEMMA PollInv ==
  ASSUME TransmitInv, Test \/ WaitFree \/ WaitSent
  PROVE  TransmitInv'
<1> USE DEF TransmitInv, Test, WaitFree, WaitSent, tx_ring, tx_engine, senders
<1>1. TransmitTypes'
  BY DEF TransmitTypes
<1>2. MessagesLive' /\ Handling' /\ SendsOwn'
  BY DEF MessagesLive, Handling, SendsOwn
<1>3. OwnsOne'
  BY DEF OwnsOne, TransmitTypes
<1>4. FrameSent' /\ EokSent'
  BY DEF FrameSent, EokSent
<1>5. InStep'
  BY DEF InStep, OwnsOne, TransmitTypes
<1> QED BY <1>1, <1>2, <1>3, <1>4, <1>5

\* The frame is copied, handed over and announced.
LEMMA HandOverInv ==
  ASSUME TransmitInv, TxCopy \/ HandOver \/ TxWriteTail
  PROVE  TransmitInv'
<1> USE DEF TransmitInv, TxCopy, HandOver, TxWriteTail, tx_ring, tx_engine, senders
<1>0. buf[msg] \in TxFrame \cup {NoFrame}
  BY DEF TransmitTypes, Handling
<1>1. TransmitTypes'
  BY <1>0 DEF TransmitTypes
<1>2. MessagesLive' /\ Handling'
  BY DEF MessagesLive, Handling
<1>3. OwnsOne' /\ SendsOwn'
  BY DEF OwnsOne, SendsOwn, TransmitTypes
<1>4. FrameSent' /\ EokSent'
  BY DEF FrameSent, EokSent, TransmitTypes
<1>5. InStep'
  BY DEF InStep, OwnsOne, TransmitTypes
<1> QED BY <1>1, <1>2, <1>3, <1>4, <1>5

\* The driver goes on to the next descriptor when the engine owns none.
LEMMA TxAdvanceInv ==
  ASSUME TransmitInv, TxAdvance
  PROVE  TransmitInv'
<1> USE DEF TransmitInv, TxAdvance, TxFollowing, tx_engine, senders
<1>0. tx_index' \in TxSlot
  BY NextSlotType DEF TransmitTypes
<1>1. TransmitTypes'
  BY <1>0 DEF TransmitTypes
<1>2. MessagesLive' /\ Handling' /\ SendsOwn'
  BY DEF MessagesLive, Handling, SendsOwn
<1>3. \A i \in TxSlot : ~tx_own[i]
  BY DEF OwnsOne
<1>4. OwnsOne' /\ FrameSent' /\ EokSent'
  BY <1>3 DEF OwnsOne, FrameSent, EokSent
<1>5. InStep'
  BY <1>3 DEF InStep, TransmitTypes
<1> QED BY <1>1, <1>2, <1>4, <1>5

\* The sender is told, and its message is not used any more.
LEMMA AcknowledgeInv ==
  ASSUME TransmitInv, Acknowledge
  PROVE  TransmitInv'
<1> USE DEF TransmitInv, Acknowledge, Complete, tx_ring, tx_engine
<1>0. msg \in Sender
  BY DEF TransmitTypes, Handling
<1>1. TransmitTypes'
  BY <1>0 DEF TransmitTypes
<1>2. MessagesLive'
  <2>1. NoSender \notin ToSet(tx_mails) /\ \A s \in ToSet(tx_mails) : s # msg /\ s \in Sender
    BY EmptyToSet, GmacTransmitAssumption DEF TransmitTypes, MessagesLive
  <2> QED BY <2>1, <1>0 DEF MessagesLive, TransmitTypes
<1>3. Handling' /\ OwnsOne' /\ SendsOwn' /\ FrameSent' /\ EokSent' /\ InStep'
  BY DEF Handling, OwnsOne, SendsOwn, FrameSent, EokSent, InStep
<1> QED BY <1>1, <1>2, <1>3

\* The engine sends the one frame it owns, and only that.
LEMMA TxEngineInv ==
  ASSUME TransmitInv, TxDmaFetch \/ TxDmaClose
  PROVE  TransmitInv'
<1> USE DEF TransmitInv, tx_ring, senders
<1>1. CASE TxDmaFetch
  <2>1. TransmitTypes' /\ MessagesLive' /\ Handling' /\ OwnsOne' /\ SendsOwn'
    BY <1>1 DEF TxDmaFetch, TransmitTypes, MessagesLive, Handling, OwnsOne, SendsOwn
  <2>2. FrameSent' /\ EokSent' /\ InStep'
    BY <1>1 DEF TxDmaFetch, FrameSent, EokSent, InStep
  <2> QED BY <2>1, <2>2
<1>2. CASE TxDmaClose
  <2> USE <1>2 DEF TxDmaClose
  <2>0. /\ tx_current \in TxSlot /\ tx_own[tx_current] /\ tx_current = tx_index
        /\ etx \notin {"copy", "own", "advance"} /\ (etx \in {"tail", "wait"} \/ late)
    BY DEF OwnsOne, SendsOwn, TransmitTypes
  <2>1. tx_current' \in TxSlot
    BY <2>0, NextSlotType
  <2>2. TransmitTypes'
    BY <2>0, <2>1 DEF TransmitTypes
  <2>3. \A i \in TxSlot : ~tx_own'[i]
    BY <2>0 DEF OwnsOne, TransmitTypes
  <2>4. OwnsOne' /\ SendsOwn'
    BY <2>3 DEF OwnsOne, SendsOwn
  <2>5. MessagesLive' /\ Handling'
    BY DEF MessagesLive, Handling
  <2>6. FrameSent' /\ EokSent'
    BY <2>0 DEF FrameSent, EokSent
  <2>7. InStep'
    BY <2>0, <2>3 DEF InStep, TransmitTypes
  <2> QED BY <2>2, <2>4, <2>5, <2>6, <2>7
<1> QED BY <1>1, <1>2

\* The link changes, or the engine stops between two frames.
LEMMA TxOutsideInv ==
  ASSUME TransmitInv, TxPhyPoll \/ TxClose
  PROVE  TransmitInv'
BY DEF TransmitInv, TxPhyPoll, TxClose, tx_ring, tx_engine, senders, TransmitTypes, MessagesLive, Handling,
       OwnsOne, SendsOwn, FrameSent, EokSent, InStep

\* The invariant holds in every state of the transmit path.
THEOREM TransmitCorrect == TxSpec => []TransmitInv
<1>1. TxInit => TransmitInv
  BY TransmitInit
<1>2. TransmitInv /\ [TxNext]_tx_vars => TransmitInv'
  <2> SUFFICES ASSUME TransmitInv, [TxNext]_tx_vars PROVE TransmitInv'
    OBVIOUS
  <2>1. CASE UNCHANGED tx_vars
    BY <2>1 DEF tx_vars, TransmitInv, TransmitTypes, Handling, OwnsOne, SendsOwn, FrameSent,
                MessagesLive, EokSent, InStep
  <2>2. ASSUME NEW s \in Sender, Wait(s) \/ \E f \in TxFrame : Output(s, f) PROVE TransmitInv'
    BY <2>2, WaitInv, OutputInv
  <2>3. CASE EtxStep
    BY <2>3, RecvMailInv, PollInv, HandOverInv, TxAdvanceInv, AcknowledgeInv DEF EtxStep
  <2>4. CASE TxDmaFetch \/ TxDmaClose
    BY <2>4, TxEngineInv
  <2>5. CASE TxPhyPoll \/ TxClose
    BY <2>5, TxOutsideInv
  <2> QED BY <2>1, <2>2, <2>3, <2>4, <2>5 DEF TxNext
<1> QED BY <1>1, <1>2, PTL DEF TxSpec

\* No message on a sender's stack is used after ethernetif_linkoutput returned.
THEOREM TransmitMessagesLive == TxSpec => []MessagesLive
<1>1. TransmitInv => MessagesLive
  BY DEF TransmitInv
<1> QED BY <1>1, TransmitCorrect, PTL

\* rk3576_gmac_dma_transmit returns RT_EOK only for a frame that was sent.
THEOREM TransmitEok == TxSpec => []EokSent
<1>1. TransmitInv => EokSent
  BY DEF TransmitInv
<1> QED BY <1>1, TransmitCorrect, PTL

\* The driver and the engine stay in step until a frame is given up.
THEOREM TransmitInStep == TxSpec => []InStep
<1>1. TransmitInv => InStep
  BY DEF TransmitInv
<1> QED BY <1>1, TransmitCorrect, PTL

-----------------------------------------------------------------------------
(* Transmission: the refinement of a queue of one frame *)

\* A set of no or of one descriptor as a sequence.
LEMMA SmallSetToSeq ==
  ASSUME NEW i
  PROVE  SetToSeq({}) = <<>> /\ SetToSeq({i}) = <<i>>
<1>1. [1 .. Cardinality({}) -> {}] = {<<>>} /\ IsInjective(<<>>)
  <2>1. Cardinality({}) = 0 /\ 1 .. 0 = {}
    BY FS_EmptySet
  <2>2. ASSUME NEW f \in [{} -> {}] PROVE f = <<>>
    <3>1. f = [x \in {} |-> f[x]] /\ <<>> = [x \in {} |-> f[x]]
      OBVIOUS
    <3> QED BY <3>1
  <2>3. <<>> \in [{} -> {}] /\ IsInjective(<<>>)
    BY DEF IsInjective
  <2> QED BY <2>1, <2>2, <2>3
<1>2. [1 .. Cardinality({i}) -> {i}] = {<<i>>} /\ IsInjective(<<i>>)
  <2>1. Cardinality({i}) = 1
    BY FS_Singleton
  <2>2. ASSUME NEW f \in [1 .. 1 -> {i}] PROVE f = <<i>>
    OBVIOUS
  <2>3. <<i>> \in [1 .. 1 -> {i}] /\ IsInjective(<<i>>)
    BY DEF IsInjective
  <2> QED BY <2>1, <2>2, <2>3
<1>3. SetToSeq({}) \in [1 .. Cardinality({}) -> {}]
  BY <1>1 DEF SetToSeq
<1>4. SetToSeq({i}) \in [1 .. Cardinality({i}) -> {i}]
  BY <1>2 DEF SetToSeq
<1> QED BY <1>1, <1>2, <1>3, <1>4

\* The queue has no frame, or the one at tx_index.
LEMMA HandedOverIs ==
  TransmitInv => HandedOver = IF tx_own[tx_index] THEN <<tx_buffer[tx_index]>> ELSE <<>>
<1> SUFFICES ASSUME TransmitTypes, OwnsOne
             PROVE  HandedOver = IF tx_own[tx_index] THEN <<tx_buffer[tx_index]>> ELSE <<>>
  BY DEF TransmitInv
<1> DEFINE S == {i \in TxSlot : tx_own[i]}
<1>1. CASE tx_own[tx_index]
  <2>1. S = {tx_index}
    BY <1>1 DEF TransmitTypes, OwnsOne
  <2>2. SetToSeq(S) = <<tx_index>>
    BY <2>1, SmallSetToSeq
  <2> HIDE DEF S
  <2>3. HandedOver = [j \in DOMAIN SetToSeq(S) |-> tx_buffer[SetToSeq(S)[j]]]
    BY DEF HandedOver, S
  <2> QED BY <1>1, <2>2, <2>3
<1>2. CASE ~tx_own[tx_index]
  <2>1. S = {}
    BY <1>2 DEF OwnsOne
  <2>2. SetToSeq(S) = <<>>
    BY <2>1, SmallSetToSeq
  <2> HIDE DEF S
  <2>3. HandedOver = [j \in DOMAIN SetToSeq(S) |-> tx_buffer[SetToSeq(S)[j]]]
    BY DEF HandedOver, S
  <2> QED BY <1>2, <2>2, <2>3
<1> QED BY <1>1, <1>2

\* Frames are put in by HandOver and taken out by the engine; no other step
\* touches the queue.
LEMMA TransmitStepFifo ==
  TransmitInv /\ TransmitInv' /\ [TxNext]_tx_vars =>
    [TxFifo!Get \/ \E f \in TxFrame : TxFifo!Put(f)]_<<HandedOver, wire>>
<1> DEFINE Goal == [TxFifo!Get \/ \E f \in TxFrame : TxFifo!Put(f)]_<<HandedOver, wire>>
<1> SUFFICES ASSUME TransmitInv, TransmitInv', [TxNext]_tx_vars PROVE Goal
  OBVIOUS
<1>1. HandedOver = IF tx_own[tx_index] THEN <<tx_buffer[tx_index]>> ELSE <<>>
  BY HandedOverIs
<1>2. HandedOver' = IF tx_own'[tx_index'] THEN <<tx_buffer'[tx_index']>> ELSE <<>>
  <2>1. (TransmitInv => HandedOver = IF tx_own[tx_index] THEN <<tx_buffer[tx_index]>> ELSE <<>>)'
    BY HandedOverIs, PTL
  <2> QED BY <2>1
<1>3. CASE HandOver
  <2>1. /\ ~tx_own[tx_index] /\ tx_own'[tx_index'] /\ tx_index' = tx_index
        /\ tx_buffer' = tx_buffer /\ tx_buffer[tx_index] = buf[msg] /\ wire' = wire
    BY <1>3 DEF HandOver, TransmitInv, TransmitTypes, OwnsOne, FrameSent, tx_engine
  <2>2. buf[msg] \in TxFrame
    BY <1>3 DEF HandOver, TransmitInv, TransmitTypes, MessagesLive, Handling
  <2>3. HandedOver = <<>> /\ HandedOver' = <<buf[msg]>>
    BY <1>1, <1>2, <2>1
  <2>4. Len(HandedOver) < 1 /\ HandedOver' = Append(HandedOver, buf[msg])
    BY <2>3
  <2> QED BY <2>1, <2>2, <2>4 DEF TxFifo!Put
<1>4. CASE TxDmaClose
  <2>1. /\ tx_own[tx_index] /\ ~tx_own'[tx_index'] /\ wire' = tx_buffer[tx_index]
    BY <1>4 DEF TxDmaClose, TransmitInv, TransmitTypes, OwnsOne, SendsOwn
  <2>2. HandedOver = <<tx_buffer[tx_index]>> /\ HandedOver' = <<>>
    BY <1>1, <1>2, <2>1
  <2> QED BY <2>1, <2>2 DEF TxFifo!Get
<1>5. CASE TxCopy \/ TxAdvance
  <2>1. ~tx_own[tx_index] /\ ~tx_own'[tx_index'] /\ wire' = wire
    BY <1>5, NextSlotType DEF TxCopy, TxAdvance, TxFollowing, TransmitInv, TransmitTypes, OwnsOne, tx_engine
  <2> QED BY <2>1, <1>1, <1>2
<1>6. CASE UNCHANGED <<tx_ring, wire>>
  BY <1>6, <1>1, <1>2 DEF tx_ring
<1>7. \/ HandOver \/ TxDmaClose \/ TxCopy \/ TxAdvance \/ UNCHANGED <<tx_ring, wire>>
  BY DEF TxNext, EtxStep, Output, Wait, RecvMail, Test, WaitFree, TxWriteTail, WaitSent, Acknowledge,
         TxDmaFetch, TxPhyPoll, TxClose, tx_ring, tx_engine, tx_vars
<1> QED BY <1>3, <1>4, <1>5, <1>6, <1>7

\* The transmit ring implements a queue of one frame, for every number of
\* senders and descriptors: no frame is sent twice, replaced or torn.
THEOREM TransmitFifo == TxSpec => TxImplementsFifo
<1>1. TxInit => TxFifo!Init
  <2> SUFFICES ASSUME TxInit PROVE HandedOver = <<>> /\ wire = NoFrame
    BY DEF TxFifo!Init
  <2>1. tx_index \in TxSlot /\ ~tx_own[tx_index] /\ TransmitInv
    BY TransmitInit DEF TxInit, TransmitInv, TransmitTypes
  <2> QED BY <2>1, HandedOverIs DEF TxInit
<1> QED BY <1>1, TransmitCorrect, TransmitStepFifo, PTL DEF TxSpec, TxImplementsFifo
-----------------------------------------------------------------------------
(* Reception: its invariant *)

\* Every variable has its type.
ReceiveTypes ==
  /\ rx_own \in [RxSlot -> BOOLEAN]
  /\ rx_buffer \in [RxSlot -> RxFrame \cup {Torn, Nothing}]
  /\ rx_index \in RxSlot /\ rx_current \in RxSlot
  /\ rx_dma \in {"run", "write", "raise", "halt", "stop"}
  /\ enabled \in BOOLEAN
  /\ isr.at \in {"idle", "ack"}
  /\ rx_notice \in BOOLEAN
  /\ rx_mails \in Nat
  /\ erx \in {"recv", "link", "status", "set", "notice", "look", "copy", "recycle", "advance"}
  /\ phy \in {"poll", "change", "send"}

\* The descriptor n places behind descriptor i.
Behind(i, n) == IF i + n >= RxCount THEN i + n - RxCount ELSE i + n

\* The first descriptor that the driver has not given back: rx_index is
\* advanced after the descriptor is.
First == IF erx = "advance" THEN Behind(rx_index, 1) ELSE rx_index

\* n descriptors from the first are full, and the engine is at the next one.
Shape(n) ==
  /\ n \in 0 .. RxCount
  /\ rx_current = Behind(First, n)
  /\ \A j \in 0 .. RxCount - 1 :
       /\ rx_own[Behind(First, j)] <=> j >= n
       /\ j < n => rx_buffer[Behind(First, j)] \in RxFrame

\* The ring has that shape, the engine writes only into a descriptor of its own
\* and halts only when it has none, and the driver takes a frame only from one
\* that is full.
RingShape ==
  /\ \E n \in 0 .. RxCount : Shape(n)
  /\ rx_dma = "write" => rx_own[rx_current]
  /\ erx \in {"copy", "recycle"} => ~rx_own[rx_index]

\* What the erx thread has to tell the netif is the status the PHY thread left,
\* unless link_changed is set; and while it is set a mail is on the way.
LinkInv ==
  /\ phy # "change" => link_status = link_up
  /\ ~link_changed => (IF erx = "set" THEN link ELSE netif_up) = link_status
  /\ erx = "status" => link_changed
  /\ link_changed /\ phy = "poll" => rx_mails > 0 \/ erx \in {"link", "status"}

ReceiveInv == ReceiveTypes /\ Noticed /\ RingShape /\ EngineGoesOn /\ LinkInv

-----------------------------------------------------------------------------
(* Arithmetic of the ring *)

\* Going n places on from a descriptor stays in the ring.
LEMMA BehindType ==
  ASSUME NEW i \in RxSlot, NEW n \in 0 .. RxCount
  PROVE  Behind(i, n) \in RxSlot
BY GmacReceiveAssumption DEF RxSlot, Behind

\* The remainder that the code computes.
LEMMA BehindMod ==
  ASSUME NEW i \in RxSlot, NEW n \in 0 .. RxCount
  PROVE  (i + n) % RxCount = Behind(i, n)
BY GmacReceiveAssumption DEF RxSlot, Behind

LEMMA NextSlotBehind ==
  ASSUME NEW i \in RxSlot
  PROVE  RxNextSlot(i) = Behind(i, 1) /\ RxNextSlot(i) \in RxSlot
BY BehindMod, BehindType, GmacReceiveAssumption DEF RxNextSlot

\* Different distances lead to different descriptors.
LEMMA BehindInjective ==
  ASSUME NEW i \in RxSlot, NEW m \in 0 .. RxCount - 1, NEW n \in 0 .. RxCount - 1,
         Behind(i, m) = Behind(i, n)
  PROVE  m = n
BY GmacReceiveAssumption DEF RxSlot, Behind

\* Distances add up.
LEMMA BehindNext ==
  ASSUME NEW i \in RxSlot, NEW n \in 0 .. RxCount - 1
  PROVE  /\ Behind(Behind(i, n), 1) = Behind(i, n + 1)
         /\ Behind(Behind(i, 1), n) = Behind(i, n + 1)
         /\ Behind(i, 0) = i /\ Behind(i, RxCount) = i
BY GmacReceiveAssumption DEF RxSlot, Behind

\* Every descriptor is at some distance.
LEMMA BehindOnto ==
  ASSUME NEW i \in RxSlot, NEW s \in RxSlot
  PROVE  \E j \in 0 .. RxCount - 1 : Behind(i, j) = s
<1>1. CASE s >= i
  <2>1. s - i \in 0 .. RxCount - 1 /\ Behind(i, s - i) = s
    BY <1>1, GmacReceiveAssumption DEF RxSlot, Behind
  <2> QED BY <2>1
<1>2. CASE s < i
  <2>1. s - i + RxCount \in 0 .. RxCount - 1 /\ Behind(i, s - i + RxCount) = s
    BY <1>2, GmacReceiveAssumption DEF RxSlot, Behind
  <2> QED BY <2>1
<1> QED BY <1>1, <1>2 DEF RxSlot

\* The first descriptor is one of the ring, and in the slots of a shape the own
\* bit says whether it is full.
LEMMA FirstType == ReceiveTypes => First \in RxSlot
<1>1. 1 \in 0 .. RxCount
  BY GmacReceiveAssumption
<1> QED BY <1>1, BehindType DEF ReceiveTypes, First

-----------------------------------------------------------------------------
(* The shape of the ring *)

\* A step that leaves the descriptors and the first of them alone.
LEMMA ShapeFrame ==
  ASSUME UNCHANGED <<rx_own, rx_buffer, rx_current>>, First' = First, NEW n, Shape(n)
  PROVE  Shape(n)'
BY DEF Shape, Behind

LEMMA OwnEngine ==
  ASSUME ReceiveTypes, NEW n, Shape(n), rx_own[rx_current]
  PROVE  n \in 0 .. RxCount - 1
<1>1. CASE n = RxCount
  <2>1. rx_current = First /\ 0 \in 0 .. RxCount - 1 /\ Behind(First, 0) = First
    BY <1>1, FirstType, BehindNext, GmacReceiveAssumption DEF Shape
  <2> QED BY <1>1, <2>1, GmacReceiveAssumption DEF Shape
<1> QED BY <1>1, GmacReceiveAssumption DEF Shape

\* The engine starts to write into a descriptor of its own.
LEMMA WriteShape ==
  ASSUME ReceiveTypes, NEW n, Shape(n), rx_own[rx_current], First' = First,
         rx_buffer' = [rx_buffer EXCEPT ![rx_current] = Torn], UNCHANGED <<rx_own, rx_current>>
  PROVE  Shape(n)'
<1>1. n \in 0 .. RxCount - 1
  BY OwnEngine
<1>2. ASSUME NEW j \in 0 .. RxCount - 1, j < n
      PROVE  rx_buffer'[Behind(First, j)] = rx_buffer[Behind(First, j)]
  <2>1. Behind(First, j) # rx_current
    <3>1. First \in RxSlot /\ rx_current = Behind(First, n) /\ j # n
      BY <1>1, <1>2, FirstType DEF Shape
    <3> QED BY <1>1, <3>1, BehindInjective
  <2>2. Behind(First, j) \in RxSlot
    BY FirstType, BehindType, GmacReceiveAssumption
  <2> QED BY <2>1, <2>2 DEF ReceiveTypes
<1> QED BY <1>2 DEF Shape, Behind

\* The engine gives a full descriptor back and goes on to the next.
LEMMA CloseShape ==
  ASSUME ReceiveTypes, NEW n, Shape(n), rx_own[rx_current], First' = First, NEW f \in RxFrame,
         rx_buffer' = [rx_buffer EXCEPT ![rx_current] = f], rx_own' = [rx_own EXCEPT ![rx_current] = FALSE],
         rx_current' = RxNextSlot(rx_current)
  PROVE  Shape(n + 1)'
<1>1. n \in 0 .. RxCount - 1 /\ n + 1 \in 0 .. RxCount
  BY OwnEngine, GmacReceiveAssumption
<1>2. rx_current' = Behind(First, n + 1)
  BY <1>1, FirstType, NextSlotBehind, BehindNext DEF Shape, ReceiveTypes
<1>3. ASSUME NEW j \in 0 .. RxCount - 1
      PROVE  /\ rx_own'[Behind(First, j)] <=> j >= n + 1
             /\ j < n + 1 => rx_buffer'[Behind(First, j)] \in RxFrame
  <2>1. Behind(First, j) \in RxSlot /\ (Behind(First, j) = rx_current <=> j = n)
    <3>1. First \in RxSlot /\ rx_current = Behind(First, n) /\ j \in 0 .. RxCount
      BY FirstType, GmacReceiveAssumption DEF Shape
    <3> QED BY <1>1, <3>1, BehindInjective, BehindType
  <2>2. CASE j = n
    BY <2>1, <2>2 DEF ReceiveTypes
  <2>3. CASE j # n
    <3>1. /\ rx_own'[Behind(First, j)] = rx_own[Behind(First, j)]
          /\ rx_buffer'[Behind(First, j)] = rx_buffer[Behind(First, j)]
      BY <2>1, <2>3 DEF ReceiveTypes
    <3>2. (j >= n + 1 <=> j >= n) /\ (j < n + 1 => j < n)
      BY <1>1, <2>3
    <3> QED BY <3>1, <3>2 DEF Shape
  <2> QED BY <2>2, <2>3
<1>4. PICK m : m = n + 1
  OBVIOUS
<1>5. Shape(m)'
  BY <1>1, <1>2, <1>3, <1>4 DEF Shape, Behind
<1> QED BY <1>4, <1>5

\* The driver gives the first descriptor, which is full, back.
LEMMA RecycleShape ==
  ASSUME ReceiveTypes, NEW n, Shape(n), First = rx_index, ~rx_own[rx_index],
         First' = Behind(rx_index, 1), rx_own' = [rx_own EXCEPT ![rx_index] = TRUE],
         UNCHANGED <<rx_buffer, rx_current>>
  PROVE  n > 0 /\ Shape(n - 1)'
<1>0. First \in RxSlot /\ RxCount \in Nat \ {0} /\ n \in 0 .. RxCount
  BY FirstType, GmacReceiveAssumption DEF Shape
<1>1. n > 0 /\ n - 1 \in 0 .. RxCount - 1
  <2>1. 0 \in 0 .. RxCount - 1 /\ Behind(First, 0) = First
    BY <1>0, BehindNext
  <2> QED BY <1>0, <2>1 DEF Shape
<1>2. First' \in RxSlot /\ rx_current' = Behind(First', n - 1)
  <2>1. Behind(Behind(First, 1), n - 1) = Behind(First, n)
    BY <1>0, <1>1, BehindNext
  <2> QED BY <1>0, <2>1, BehindType DEF Shape
<1>3. ASSUME NEW j \in 0 .. RxCount - 1
      PROVE  /\ rx_own'[Behind(First', j)] <=> j >= n - 1
             /\ j < n - 1 => rx_buffer'[Behind(First', j)] \in RxFrame
  <2>0. Behind(First', j) = Behind(First, j + 1)
    BY <1>0, BehindNext
  <2>1. CASE j = RxCount - 1
    <3>1. Behind(First', j) = rx_index
      BY <1>0, <2>0, <2>1, BehindNext
    <3> QED BY <1>0, <1>1, <2>1, <3>1 DEF ReceiveTypes
  <2>2. CASE j # RxCount - 1
    <3>1. j + 1 \in 0 .. RxCount - 1 /\ 0 \in 0 .. RxCount - 1
      BY <1>0, <2>2
    <3>2. Behind(First, j + 1) # rx_index /\ Behind(First, j + 1) \in RxSlot
      BY <1>0, <3>1, BehindInjective, BehindNext, BehindType
    <3>3. rx_own'[Behind(First', j)] = rx_own[Behind(First, j + 1)] /\ rx_buffer' = rx_buffer
      BY <2>0, <3>2 DEF ReceiveTypes
    <3>4. (j >= n - 1 <=> j + 1 >= n) /\ (j < n - 1 => j + 1 < n)
      BY <1>0
    <3> QED BY <2>0, <3>1, <3>3, <3>4 DEF Shape
  <2> QED BY <2>1, <2>2
<1>4. PICK m : m = n - 1
  OBVIOUS
<1>5. m \in 0 .. RxCount
  BY <1>0, <1>1, <1>4
<1>6. Shape(m)'
  BY <1>2, <1>3, <1>4, <1>5 DEF Shape, Behind
<1> QED BY <1>1, <1>4, <1>6

\* An engine at a full descriptor has none of its own.
LEMMA NoneOwned ==
  ASSUME ReceiveTypes, NEW n, Shape(n), ~rx_own[rx_current]
  PROVE  \A i \in RxSlot : ~rx_own[i]
<1>1. n = RxCount
  BY GmacReceiveAssumption DEF Shape
<1>2. \A j \in 0 .. RxCount - 1 : ~rx_own[Behind(First, j)]
  BY <1>1, GmacReceiveAssumption DEF Shape
<1> QED BY <1>2, FirstType, BehindOnto

\* A step that leaves the ring alone and takes the erx thread nowhere near it.
LEMMA RingFrame ==
  ASSUME RingShape, UNCHANGED <<rx_own, rx_buffer, rx_index, rx_current>>,
         rx_dma' = "write" => rx_dma = "write",
         erx' = "advance" <=> erx = "advance",
         erx' \in {"copy", "recycle"} => erx \in {"copy", "recycle"}
  PROVE  RingShape'
<1>1. First' = First
  BY DEF First, Behind
<1>2. PICK n \in 0 .. RxCount : Shape(n)
  BY DEF RingShape
<1>3. Shape(n)'
  BY <1>1, <1>2, ShapeFrame
<1> QED BY <1>3 DEF RingShape

-----------------------------------------------------------------------------
(* Reception: one lemma per actor *)

\* Initially the whole ring is the engine's and nothing is on the way.
LEMMA ReceiveInit == RxInit => ReceiveInv
<1> SUFFICES ASSUME RxInit PROVE ReceiveInv
  OBVIOUS
<1> USE GmacReceiveAssumption DEF RxInit
<1>1. 0 \in RxSlot /\ 0 \in 0 .. RxCount /\ Behind(0, 0) = 0
  BY DEF RxSlot, Behind
<1>2. ReceiveTypes
  BY <1>1 DEF ReceiveTypes, IsrIdle
<1>3. RingShape
  <2>1. \A j \in 0 .. RxCount - 1 : Behind(First, j) \in RxSlot
    BY <1>2, FirstType, BehindType
  <2>2. Shape(0)
    BY <1>1, <2>1 DEF Shape, First
  <2> QED BY <1>1, <2>2 DEF RingShape
<1>4. Noticed /\ EngineGoesOn /\ LinkInv
  BY <1>1 DEF Noticed, EngineGoesOn, LinkInv
<1> QED BY <1>2, <1>3, <1>4 DEF ReceiveInv

\* The engine fills a descriptor of its own, or halts when it has none.
LEMMA RxEngineInv ==
  ASSUME ReceiveInv, RxDmaFetch \/ DmaRaise \/ \E f \in RxFrame : RxDmaClose(f)
  PROVE  ReceiveInv'
<1> USE DEF ReceiveInv, rx_handler, history, links
<1>1. CASE RxDmaFetch
  <2> USE <1>1 DEF RxDmaFetch
  <2>1. ReceiveTypes'
    BY DEF ReceiveTypes
  <2>2. Noticed'
    BY DEF Noticed, OnTheWay
  <2>0. PICK n \in 0 .. RxCount : Shape(n)
    BY DEF RingShape
  <2>3. RingShape'
    <3>1. First' = First
      BY DEF First, Behind
    <3>2. Shape(n)'
      BY <2>0, <3>1, WriteShape, ShapeFrame
    <3> QED BY <3>2 DEF RingShape
  <2>4. EngineGoesOn'
    BY <2>0, NoneOwned DEF EngineGoesOn
  <2>5. LinkInv'
    BY DEF LinkInv
  <2> QED BY <2>1, <2>2, <2>3, <2>4, <2>5
<1>2. CASE DmaRaise
  <2> USE <1>2 DEF DmaRaise, rx_ring
  <2>1. ReceiveTypes'
    BY DEF ReceiveTypes
  <2>2. Noticed' /\ EngineGoesOn' /\ LinkInv'
    BY DEF Noticed, OnTheWay, EngineGoesOn, LinkInv
  <2>3. RingShape'
    BY RingFrame
  <2> QED BY <2>1, <2>2, <2>3
<1>3. ASSUME NEW f \in RxFrame, RxDmaClose(f) PROVE ReceiveInv'
  <2> USE <1>3 DEF RxDmaClose
  <2>0. PICK n \in 0 .. RxCount : Shape(n)
    BY DEF RingShape
  <2>1. ReceiveTypes'
    BY NextSlotBehind DEF ReceiveTypes
  <2>2. Noticed'
    BY DEF Noticed, OnTheWay
  <2>3. RingShape'
    <3>1. First' = First /\ rx_own[rx_current]
      BY DEF First, Behind, RingShape
    <3>2. n + 1 \in 0 .. RxCount
      BY <2>0, <3>1, OwnEngine, GmacReceiveAssumption
    <3>3. Shape(n + 1)'
      BY <2>0, <3>1, CloseShape
    <3>4. \E m \in 0 .. RxCount : Shape(m)'
      BY <3>2, <3>3
    <3>5. erx' \in {"copy", "recycle"} => ~rx_own'[rx_index']
      BY DEF RingShape, ReceiveTypes
    <3> QED BY <3>4, <3>5 DEF RingShape
  <2>4. EngineGoesOn' /\ LinkInv'
    BY DEF EngineGoesOn, LinkInv
  <2> QED BY <2>1, <2>2, <2>3, <2>4
<1> QED BY <1>1, <1>2, <1>3

\* What the handler clears it has told the erx thread.
LEMMA HandlerInv ==
  ASSUME ReceiveInv, IsrRead \/ IsrAck
  PROVE  ReceiveInv'
<1> USE DEF ReceiveInv, rx_ring, links
<1>1. CASE IsrRead
  <2> USE <1>1 DEF IsrRead, rx_engine, history
  <2>1. ReceiveTypes'
    BY DEF ReceiveTypes
  <2>2. Noticed' /\ EngineGoesOn' /\ LinkInv'
    BY DEF Noticed, OnTheWay, EngineGoesOn, LinkInv
  <2>3. RingShape'
    BY RingFrame
  <2> QED BY <2>1, <2>2, <2>3
<1>2. CASE IsrAck
  <2> USE <1>2 DEF IsrAck
  <2>0. rx_mails \in Nat /\ rx_mails' \in Nat /\ rx_mails' >= rx_mails /\ (rx_notice \/ rx_mails' > 0)
    BY GmacReceiveAssumption DEF ReceiveTypes, Mailed
  <2>1. ReceiveTypes'
    BY <2>0 DEF ReceiveTypes, IsrIdle
  <2>2. Noticed'
    BY <2>0 DEF Noticed, OnTheWay
  <2>3. RingShape'
    BY RingFrame
  <2>4. EngineGoesOn' /\ LinkInv'
    BY <2>0 DEF EngineGoesOn, LinkInv
  <2> QED BY <2>1, <2>2, <2>3, <2>4
<1> QED BY <1>1, <1>2

\* The erx thread on its way from the mailbox to the ring.
LEMMA ErxLinkInv ==
  ASSUME ReceiveInv, Recv \/ TestLink \/ ReadLink \/ SetLink \/ ClearNotice
  PROVE  ReceiveInv'
<1> USE DEF ReceiveInv, rx_ring, rx_engine, rx_handler, history, links, Recv, TestLink, ReadLink, SetLink,
            ClearNotice, ErxAt
<1>0. rx_mails' \in Nat
  BY DEF ReceiveTypes
<1>1. ReceiveTypes'
  <2>1. CASE Recv
    BY <1>0, <2>1 DEF ReceiveTypes
  <2>2. CASE TestLink
    BY <1>0, <2>2 DEF ReceiveTypes
  <2>3. CASE ReadLink \/ SetLink
    BY <1>0, <2>3 DEF ReceiveTypes
  <2>4. CASE ClearNotice
    BY <1>0, <2>4 DEF ReceiveTypes
  <2> QED BY <2>1, <2>2, <2>3, <2>4
<1>2. Noticed' /\ EngineGoesOn'
  BY DEF Noticed, OnTheWay, EngineGoesOn, ReceiveTypes
<1>3. RingShape'
  BY RingFrame
<1>4. LinkInv'
  BY DEF LinkInv, ReceiveTypes
<1> QED BY <1>1, <1>2, <1>3, <1>4

\* rk3576_gmac_dma_receive looks at a descriptor and copies its frame.
LEMMA ErxCopyInv ==
  ASSUME ReceiveInv, Look \/ RxCopy
  PROVE  ReceiveInv'
<1> USE DEF ReceiveInv, rx_ring, rx_engine, rx_handler, links, Look, RxCopy, ErxAt
<1>1. ReceiveTypes'
  BY DEF ReceiveTypes, history
<1>2. Noticed' /\ EngineGoesOn' /\ LinkInv'
  BY DEF Noticed, OnTheWay, EngineGoesOn, LinkInv, history
<1>3. RingShape'
  <2>1. First' = First
    BY DEF First, Behind
  <2>2. PICK n \in 0 .. RxCount : Shape(n)
    BY DEF RingShape
  <2>3. Shape(n)'
    BY <2>1, <2>2, ShapeFrame
  <2> QED BY <2>3 DEF RingShape
<1> QED BY <1>1, <1>2, <1>3

\* ... gives it back ...
LEMMA RecycleInv ==
  ASSUME ReceiveInv, Recycle
  PROVE  ReceiveInv'
<1> USE DEF ReceiveInv, rx_engine, rx_handler, links, history, Recycle, ErxAt
<1>1. ReceiveTypes'
  BY DEF ReceiveTypes
<1>2. Noticed' /\ EngineGoesOn' /\ LinkInv'
  BY DEF Noticed, OnTheWay, EngineGoesOn, LinkInv
<1>3. RingShape'
  <2>1. First = rx_index /\ First' = Behind(rx_index, 1) /\ ~rx_own[rx_index]
    BY DEF First, Behind, RingShape
  <2>2. PICK n \in 0 .. RxCount : Shape(n)
    BY DEF RingShape
  <2>3. n > 0 /\ Shape(n - 1)'
    BY <2>1, <2>2, RecycleShape
  <2>4. n - 1 \in 0 .. RxCount
    BY <2>3, GmacReceiveAssumption
  <2>5. \E m \in 0 .. RxCount : Shape(m)'
    BY <2>3, <2>4
  <2>6. rx_dma' = "write" => rx_own'[rx_current']
    BY DEF RingShape, ReceiveTypes
  <2> QED BY <2>5, <2>6 DEF RingShape
<1> QED BY <1>1, <1>2, <1>3

\* ... and goes on, with the engine.
LEMMA RxAdvanceInv ==
  ASSUME ReceiveInv, RxAdvance
  PROVE  ReceiveInv'
<1> USE DEF ReceiveInv, rx_handler, links, RxAdvance, RxFollowing, RxWriteTail, ErxAt
<1>1. ReceiveTypes'
  BY NextSlotBehind DEF ReceiveTypes
<1>2. Noticed' /\ EngineGoesOn' /\ LinkInv'
  BY DEF Noticed, OnTheWay, EngineGoesOn, LinkInv
<1>3. RingShape'
  <2>1. First' = First
    BY NextSlotBehind DEF First, ReceiveTypes
  <2>2. PICK n \in 0 .. RxCount : Shape(n)
    BY DEF RingShape
  <2>3. Shape(n)'
    BY <2>1, <2>2, ShapeFrame
  <2> QED BY <2>3 DEF RingShape
<1> QED BY <1>1, <1>2, <1>3

\* The PHY thread and the close leave the ring alone.
LEMMA RxOutsideInv ==
  ASSUME ReceiveInv, PhyChange \/ PhySend \/ RxClose \/ RxStop \/ \E up \in BOOLEAN : RxPhyPoll(up)
  PROVE  ReceiveInv'
<1> USE DEF ReceiveInv, rx_ring, rx_handler, history, PhyChange, PhySend, RxClose, RxStop, RxPhyPoll, PhyAt
<1>0. rx_mails \in Nat /\ rx_mails' \in Nat /\ rx_mails' >= rx_mails /\ (PhySend => rx_mails' > 0)
  BY GmacReceiveAssumption DEF ReceiveTypes, Mailed
<1>1. ReceiveTypes'
  <2>1. CASE PhyChange
    BY <1>0, <2>1 DEF ReceiveTypes, rx_engine
  <2>2. CASE PhySend
    BY <1>0, <2>2 DEF ReceiveTypes, rx_engine
  <2>3. CASE RxClose
    BY <1>0, <2>3 DEF ReceiveTypes, links
  <2>4. CASE RxStop
    BY <1>0, <2>4 DEF ReceiveTypes, links
  <2>5. ASSUME NEW up \in BOOLEAN, RxPhyPoll(up) PROVE ReceiveTypes'
    BY <1>0, <2>5 DEF ReceiveTypes, rx_engine
  <2> QED BY <2>1, <2>2, <2>3, <2>4, <2>5
<1>2. Noticed'
  BY <1>0 DEF Noticed, OnTheWay, rx_engine
<1>3. RingShape'
  BY RingFrame DEF rx_engine
<1>4. EngineGoesOn'
  BY DEF EngineGoesOn, rx_engine
<1>5. LinkInv'
  BY <1>0 DEF LinkInv, links, ReceiveTypes
<1> QED BY <1>1, <1>2, <1>3, <1>4, <1>5

-----------------------------------------------------------------------------
(* Reception: the theorems *)

\* Reception keeps its invariant, whatever the engine, the interrupt handler,
\* the two threads and a close do in between.
LEMMA ReceiveStep == ReceiveInv /\ [RxNext]_rx_vars => ReceiveInv'
<1> SUFFICES ASSUME ReceiveInv, [RxNext]_rx_vars PROVE ReceiveInv'
  OBVIOUS
<1>1. CASE Engine
  BY <1>1, RxEngineInv DEF Engine
<1>2. CASE RxHandler
  BY <1>2, HandlerInv DEF RxHandler
<1>3. CASE ErxStep
  BY <1>3, ErxLinkInv, ErxCopyInv, RecycleInv, RxAdvanceInv DEF ErxStep
<1>4. CASE Phy \/ RxClose \/ RxStop
  BY <1>4, RxOutsideInv DEF Phy
<1>5. CASE UNCHANGED rx_vars
  <2> USE <1>5 DEF rx_vars
  <2>1. ReceiveTypes'
    BY DEF ReceiveInv, ReceiveTypes
  <2>2. Noticed' /\ EngineGoesOn' /\ LinkInv'
    BY DEF ReceiveInv, Noticed, OnTheWay, EngineGoesOn, LinkInv
  <2>3. RingShape'
    BY RingFrame DEF ReceiveInv
  <2> QED BY <2>1, <2>2, <2>3 DEF ReceiveInv
<1> QED BY <1>1, <1>2, <1>3, <1>4, <1>5 DEF RxNext

\* The types, the shape of the ring and what is known of the link hold for ever.
THEOREM ReceiveCorrect == RxSpec => []ReceiveInv
BY ReceiveInit, ReceiveStep, PTL DEF RxSpec

\* No frame stays in the ring unnoticed, for any number of descriptors and any
\* size of the mailbox: what gmac_isr clears, it has told the erx thread.
THEOREM ReceiveNoticed == RxSpec => []Noticed
<1>1. ReceiveInv => Noticed
  BY DEF ReceiveInv
<1> QED BY <1>1, ReceiveCorrect, PTL

\* A halted engine has no descriptor that the driver will not tell it of.
THEOREM ReceiveEngine == RxSpec => []EngineGoesOn
<1>1. ReceiveInv => EngineGoesOn
  BY DEF ReceiveInv
<1> QED BY <1>1, ReceiveCorrect, PTL

\* The netif knows the link once the erx thread has nothing left to do, although
\* eth_device_linkchange may find the mailbox full.
THEOREM ReceiveLink == RxSpec => []LinkKnown
<1>1. ReceiveInv => LinkKnown
  BY DEF ReceiveInv, LinkInv, LinkKnown, ReceiveTypes
<1> QED BY <1>1, ReceiveCorrect, PTL

-----------------------------------------------------------------------------
(* Reception: the refinement of a queue *)

\* One frame is out of the queue already while its descriptor is still full.
Copied == IF erx = "recycle" THEN 1 ELSE 0

\* The frames that wait, counted from the first full descriptor.
View(n) == [j \in 1 .. n - Copied |-> rx_buffer[Behind(First, Copied + j - 1)]]

\* As many descriptors are full as the shape says.
LEMMA FullDescriptors ==
  ASSUME ReceiveTypes, NEW n, Shape(n)
  PROVE  Cardinality({i \in RxSlot : ~rx_own[i]}) = n
<1> DEFINE S == {i \in RxSlot : ~rx_own[i]}
           F == [j \in 1 .. n |-> Behind(First, j - 1)]
<1>0. First \in RxSlot /\ RxCount \in Nat \ {0} /\ n \in 0 .. RxCount
  BY FirstType, GmacReceiveAssumption DEF Shape
<1>1. ASSUME NEW j \in 1 .. n PROVE j - 1 \in 0 .. RxCount - 1 /\ F[j] = Behind(First, j - 1) /\ F[j] \in S
  <2>1. j - 1 \in 0 .. RxCount - 1 /\ j - 1 \in 0 .. RxCount /\ j - 1 < n
    BY <1>0
  <2> QED BY <1>0, <2>1, BehindType DEF Shape
<1>2. F \in [1 .. n -> S]
  BY <1>1
<1>3. ASSUME NEW i \in 1 .. n, NEW j \in 1 .. n, F[i] = F[j] PROVE i = j
  <2>1. i - 1 = j - 1
    BY <1>0, <1>1, <1>3, BehindInjective
  <2> QED BY <1>0, <2>1
<1>4. ASSUME NEW s \in S PROVE \E j \in 1 .. n : F[j] = s
  <2>1. PICK k \in 0 .. RxCount - 1 : Behind(First, k) = s
    BY <1>0, BehindOnto
  <2>2. k < n
    BY <1>0, <2>1 DEF Shape
  <2>3. k + 1 \in 1 .. n /\ k + 1 - 1 = k
    BY <1>0, <2>2
  <2> QED BY <2>1, <2>3
<1>5. F \in Bijection(1 .. n, S)
  BY <1>2, <1>3, <1>4 DEF Bijection, Injection, Surjection, IsInjective
<1>6. ExistsBijection(1 .. n, S)
  BY <1>5 DEF ExistsBijection
<1>7. n \in Nat
  BY <1>0
<1> HIDE DEF S, F
<1>8. Cardinality(S) = n
  BY <1>6, <1>7, FS_CountingElements
<1> QED BY <1>8 DEF S

\* The queue as the shape shows it.
LEMMA WaitingIs ==
  ASSUME ReceiveTypes, NEW n, Shape(n)
  PROVE  Waiting = View(n)
<1>0. rx_index \in RxSlot /\ First \in RxSlot /\ RxCount \in Nat \ {0} /\ n \in 0 .. RxCount
  BY FirstType, GmacReceiveAssumption DEF Shape, ReceiveTypes
<1> DEFINE past == IF erx \in {"recycle", "advance"} THEN 1 ELSE 0
<1>1. Waiting = [j \in 1 .. n - Copied |-> rx_buffer[(rx_index + past + j - 1) % RxCount]]
  BY FullDescriptors DEF Waiting, Copied
<1>2. ASSUME NEW j \in 1 .. n - Copied
      PROVE  (rx_index + past + j - 1) % RxCount = Behind(First, Copied + j - 1)
  <2>1. CASE erx = "recycle"
    <3>1. past = 1 /\ Copied = 1 /\ First = rx_index /\ j \in 0 .. RxCount
      BY <1>0, <2>1 DEF Copied, First
    <3>2. rx_index + past + j - 1 = rx_index + j /\ Copied + j - 1 = j
      BY <1>0, <3>1 DEF RxSlot
    <3> QED BY <1>0, <3>1, <3>2, BehindMod
  <2>2. CASE erx = "advance"
    <3>1. past = 1 /\ Copied = 0 /\ First = Behind(rx_index, 1) /\ j - 1 \in 0 .. RxCount - 1 /\ j \in 0 .. RxCount
      BY <1>0, <2>2 DEF Copied, First
    <3>2. rx_index + past + j - 1 = rx_index + j /\ Copied + j - 1 = j - 1 /\ j - 1 + 1 = j
      BY <1>0, <3>1 DEF RxSlot
    <3>3. Behind(Behind(rx_index, 1), j - 1) = Behind(rx_index, j)
      BY <1>0, <3>1, <3>2, BehindNext
    <3> QED BY <1>0, <3>1, <3>2, <3>3, BehindMod
  <2>3. CASE erx \notin {"recycle", "advance"}
    <3>1. past = 0 /\ Copied = 0 /\ First = rx_index /\ j - 1 \in 0 .. RxCount
      BY <1>0, <2>3 DEF Copied, First
    <3>2. rx_index + past + j - 1 = rx_index + (j - 1) /\ Copied + j - 1 = j - 1
      BY <1>0, <3>1 DEF RxSlot
    <3> QED BY <1>0, <3>1, <3>2, BehindMod
  <2> QED BY <2>1, <2>2, <2>3
<1> HIDE DEF past
<1> QED BY <1>1, <1>2 DEF View

\* The same for every shape, and of the next state.
WaitingShown == \A n : ReceiveTypes /\ Shape(n) => Waiting = View(n)

LEMMA WaitingIsAll == WaitingShown
BY WaitingIs DEF WaitingShown

LEMMA WaitingIsNext ==
  ASSUME ReceiveTypes', NEW n, Shape(n)'
  PROVE  Waiting' = View(n)'
<1>1. WaitingShown'
  BY WaitingIsAll, PTL
<1> QED BY <1>1 DEF WaitingShown

\* Only the copy, the engine and the return of a descriptor touch the queue.
LEMMA FetchWaiting ==
  ASSUME ReceiveInv, ReceiveInv', RxDmaFetch
  PROVE  Waiting' = Waiting
<1>0. PICK n \in 0 .. RxCount : Shape(n)
  BY DEF ReceiveInv, RingShape
<1>1. ReceiveTypes /\ ReceiveTypes' /\ First' = First /\ Copied' = Copied
  BY DEF ReceiveInv, RxDmaFetch, First, Behind, Copied
<1>2. CASE rx_own[rx_current]
  <2>1. Shape(n)'
    BY <1>0, <1>1, <1>2, WriteShape DEF RxDmaFetch
  <2>2. n \in 0 .. RxCount - 1 /\ rx_current = Behind(First, n) /\ First \in RxSlot
    BY <1>0, <1>1, <1>2, OwnEngine, FirstType DEF Shape
  <2>3. ASSUME NEW j \in 1 .. n - Copied
        PROVE  rx_buffer'[Behind(First, Copied + j - 1)] = rx_buffer[Behind(First, Copied + j - 1)]
    <3>1. /\ Copied + j - 1 \in 0 .. RxCount - 1 /\ Copied + j - 1 \in 0 .. RxCount
          /\ Copied + j - 1 # n
      BY <2>2, GmacReceiveAssumption DEF Copied
    <3>2. Behind(First, Copied + j - 1) # rx_current /\ Behind(First, Copied + j - 1) \in RxSlot
      BY <2>2, <3>1, BehindInjective, BehindType
    <3> QED BY <1>1, <1>2, <3>2 DEF RxDmaFetch, ReceiveTypes
  <2>4. View(n)' = View(n)
    BY <1>1, <2>3 DEF View, Behind
  <2> QED BY <1>0, <1>1, <2>1, <2>4, WaitingIs, WaitingIsNext
<1>3. CASE ~rx_own[rx_current]
  BY <1>3 DEF RxDmaFetch, Waiting
<1> QED BY <1>2, <1>3

LEMMA ClosePuts ==
  ASSUME ReceiveInv, ReceiveInv', NEW f \in RxFrame, RxDmaClose(f)
  PROVE  RxFifo!Put(f)
<1>0. PICK n \in 0 .. RxCount : Shape(n)
  BY DEF ReceiveInv, RingShape
<1>1. /\ ReceiveTypes /\ ReceiveTypes' /\ First' = First /\ Copied' = Copied
      /\ rx_own[rx_current] /\ taken' = taken
  BY DEF ReceiveInv, RingShape, RxDmaClose, First, Behind, Copied, history
<1>2. n \in 0 .. RxCount - 1 /\ rx_current = Behind(First, n) /\ First \in RxSlot
  BY <1>0, <1>1, OwnEngine, FirstType DEF Shape
<1>3. Shape(n + 1)'
  BY <1>0, <1>1, CloseShape DEF RxDmaClose
<1>4. Waiting = View(n) /\ Waiting' = View(n + 1)'
  BY <1>0, <1>1, <1>3, WaitingIs, WaitingIsNext
<1>5. Copied \in 0 .. n
  <2>1. CASE erx = "recycle"
    <3>1. ~rx_own[First] /\ Behind(First, 0) = First /\ 0 \in 0 .. RxCount - 1
      BY <1>2, <2>1, BehindNext, GmacReceiveAssumption DEF ReceiveInv, RingShape, First
    <3>2. 0 < n
      BY <1>0, <1>2, <3>1 DEF Shape
    <3> QED BY <1>2, <2>1, <3>2 DEF Copied
  <2> QED BY <1>2, <2>1 DEF Copied
<1>6. n - Copied \in Nat /\ n - Copied < RxCount /\ n + 1 - Copied = n - Copied + 1
  BY <1>2, <1>5, GmacReceiveAssumption
<1>7. Len(Waiting) = n - Copied /\ Waiting = [j \in 1 .. n - Copied |-> rx_buffer[Behind(First, Copied + j - 1)]]
  BY <1>4, <1>6 DEF View
<1>8. ASSUME NEW j \in 1 .. n - Copied + 1
      PROVE  rx_buffer'[Behind(First, Copied + j - 1)] = Append(Waiting, f)[j]
  <2>1. Copied + j - 1 \in 0 .. RxCount - 1 /\ Copied + j - 1 \in 0 .. RxCount
    BY <1>2, <1>5, GmacReceiveAssumption
  <2>2. Behind(First, Copied + j - 1) \in RxSlot /\ (Behind(First, Copied + j - 1) = rx_current <=> Copied + j - 1 = n)
    BY <1>2, <2>1, BehindInjective, BehindType
  <2>3. CASE j = n - Copied + 1
    <3>1. Behind(First, Copied + j - 1) = rx_current
      BY <1>2, <1>5, <2>2, <2>3
    <3>2. Append(Waiting, f)[j] = f
      BY <1>6, <1>7, <2>3
    <3> QED BY <1>1, <3>1, <3>2 DEF RxDmaClose, ReceiveTypes
  <2>4. CASE j # n - Copied + 1
    <3>1. j \in 1 .. n - Copied /\ Copied + j - 1 # n
      BY <1>6, <2>4, <1>5, <1>2
    <3>2. rx_buffer'[Behind(First, Copied + j - 1)] = rx_buffer[Behind(First, Copied + j - 1)]
      BY <1>1, <2>2, <3>1 DEF RxDmaClose, ReceiveTypes
    <3>3. Append(Waiting, f)[j] = Waiting[j]
      BY <1>6, <1>7, <3>1
    <3> QED BY <1>7, <3>1, <3>2, <3>3
  <2> QED BY <2>3, <2>4
<1>9. Waiting' = [j \in 1 .. n - Copied + 1 |-> rx_buffer'[Behind(First, Copied + j - 1)]]
  <2>1. PICK m : m = n + 1
    OBVIOUS
  <2>2. Waiting' = View(m)'
    BY <1>4, <2>1
  <2>4. m - Copied = n - Copied + 1
    BY <1>2, <1>5, <2>1, GmacReceiveAssumption
  <2>3. View(m)' = [j \in 1 .. m - Copied |-> rx_buffer'[Behind(First, Copied + j - 1)]]
    BY <1>1 DEF View, Behind
  <2> QED BY <2>2, <2>3, <2>4
<1>10. Append(Waiting, f) = [j \in 1 .. n - Copied + 1 |-> Append(Waiting, f)[j]]
  BY <1>6, <1>7
<1>11. Waiting' = Append(Waiting, f)
  BY <1>8, <1>9, <1>10
<1> QED BY <1>1, <1>6, <1>7, <1>11 DEF RxFifo!Put

LEMMA CopyGets ==
  ASSUME ReceiveInv, ReceiveInv', RxCopy
  PROVE  RxFifo!Get
<1>0. PICK n \in 0 .. RxCount : Shape(n)
  BY DEF ReceiveInv, RingShape
<1>1. /\ ReceiveTypes /\ ReceiveTypes' /\ First = rx_index /\ First' = First
      /\ Copied = 0 /\ Copied' = 1 /\ ~rx_own[rx_index] /\ taken' = rx_buffer[rx_index]
      /\ UNCHANGED <<rx_own, rx_buffer, rx_current>>
  BY DEF ReceiveInv, RingShape, RxCopy, ErxAt, First, Behind, Copied, rx_ring, rx_engine
<1>2. First \in RxSlot /\ Behind(First, 0) = First /\ 0 \in 0 .. RxCount - 1 /\ n \in 0 .. RxCount
  BY <1>0, <1>1, FirstType, BehindNext, GmacReceiveAssumption
<1>3. 0 < n
  BY <1>0, <1>1, <1>2 DEF Shape
<1>4. Shape(n)'
  BY <1>0, <1>1, ShapeFrame
<1>5. Waiting = View(n) /\ Waiting' = View(n)'
  BY <1>0, <1>1, <1>4, WaitingIs, WaitingIsNext
<1>6. Waiting = [j \in 1 .. n |-> rx_buffer[Behind(First, j - 1)]]
  BY <1>1, <1>2, <1>5 DEF View
<1>7. Waiting' = [j \in 1 .. n - 1 |-> rx_buffer[Behind(First, j)]]
  BY <1>1, <1>2, <1>5 DEF View, Behind
<1>8. n \in Nat /\ n - 1 \in Nat /\ 1 \in 1 .. n
  BY <1>2, <1>3, GmacReceiveAssumption
<1>9. Len(Waiting) = n /\ Waiting # <<>> /\ Head(Waiting) = rx_buffer[rx_index]
  BY <1>1, <1>2, <1>3, <1>6, <1>8
<1>10. Tail(Waiting) = [j \in 1 .. n - 1 |-> Waiting[j + 1]]
  BY <1>6, <1>8
<1>11. Waiting' = Tail(Waiting)
  BY <1>6, <1>7, <1>8, <1>10
<1> QED BY <1>1, <1>9, <1>11 DEF RxFifo!Get

LEMMA RecycleWaiting ==
  ASSUME ReceiveInv, ReceiveInv', Recycle
  PROVE  Waiting' = Waiting
<1>0. PICK n \in 0 .. RxCount : Shape(n)
  BY DEF ReceiveInv, RingShape
<1>1. /\ ReceiveTypes /\ ReceiveTypes' /\ First = rx_index /\ First' = Behind(rx_index, 1)
      /\ Copied = 1 /\ Copied' = 0 /\ ~rx_own[rx_index] /\ rx_buffer' = rx_buffer /\ rx_current' = rx_current
  BY DEF ReceiveInv, RingShape, Recycle, ErxAt, First, Behind, Copied, rx_engine
<1>2. n > 0 /\ Shape(n - 1)'
  BY <1>0, <1>1, RecycleShape DEF Recycle
<1>3. First \in RxSlot /\ n \in 0 .. RxCount /\ RxCount \in Nat
  BY <1>0, <1>1, FirstType, GmacReceiveAssumption
<1>4. Waiting = View(n) /\ Waiting' = View(n - 1)'
  BY <1>0, <1>1, <1>2, WaitingIs, WaitingIsNext
<1>5. ASSUME NEW j \in 1 .. n - 1 PROVE Behind(Behind(First, 1), j - 1) = Behind(First, j)
  <2>1. j - 1 \in 0 .. RxCount - 1 /\ j - 1 + 1 = j
    BY <1>3
  <2> QED BY <1>3, <2>1, BehindNext
<1>6. Waiting = [j \in 1 .. n - 1 |-> rx_buffer[Behind(First, j)]]
  BY <1>1, <1>3, <1>4 DEF View
<1>7. Waiting' = [j \in 1 .. n - 1 |-> rx_buffer[Behind(Behind(First, 1), j - 1)]]
  BY <1>1, <1>3, <1>4 DEF View, Behind
<1> QED BY <1>5, <1>6, <1>7

LEMMA AdvanceWaiting ==
  ASSUME ReceiveInv, ReceiveInv', RxAdvance
  PROVE  Waiting' = Waiting
<1>0. PICK n \in 0 .. RxCount : Shape(n)
  BY DEF ReceiveInv, RingShape
<1>1. /\ ReceiveTypes /\ ReceiveTypes' /\ First' = First /\ Copied = 0 /\ Copied' = 0
      /\ UNCHANGED <<rx_own, rx_buffer, rx_current>>
  BY NextSlotBehind DEF ReceiveInv, ReceiveTypes, RxAdvance, ErxAt, RxFollowing, First, Copied
<1>2. Shape(n)'
  BY <1>0, <1>1, ShapeFrame
<1>3. View(n)' = View(n)
  BY <1>1 DEF View, Behind
<1> QED BY <1>0, <1>1, <1>2, <1>3, WaitingIs, WaitingIsNext

\* Every other step leaves the ring alone.
LEMMA OtherWaiting ==
  ASSUME [RxNext]_rx_vars
  PROVE  \/ RxDmaFetch \/ RxCopy \/ Recycle \/ RxAdvance \/ \E f \in RxFrame : RxDmaClose(f)
         \/ Waiting' = Waiting /\ taken' = taken
<1>1. CASE DmaRaise \/ RxHandler
  BY <1>1 DEF DmaRaise, RxHandler, IsrRead, IsrAck, rx_ring, history, Waiting
<1>2. CASE Recv \/ TestLink \/ ReadLink \/ SetLink
  BY <1>2 DEF Recv, TestLink, ReadLink, SetLink, ErxAt, rx_ring, history, Waiting
<1>3. CASE ClearNotice \/ Look
  BY <1>3 DEF ClearNotice, Look, ErxAt, rx_ring, history, Waiting
<1>4. CASE Phy \/ RxClose \/ RxStop
  BY <1>4 DEF Phy, PhyChange, PhySend, RxPhyPoll, RxClose, RxStop, rx_ring, history, Waiting
<1>5. CASE UNCHANGED rx_vars
  BY <1>5 DEF rx_vars, Waiting
<1> QED BY <1>1, <1>2, <1>3, <1>4, <1>5 DEF RxNext, Engine, ErxStep

LEMMA ReceiveStepFifo ==
  ReceiveInv /\ ReceiveInv' /\ [RxNext]_rx_vars =>
    [RxFifo!Get \/ \E f \in RxFrame : RxFifo!Put(f)]_<<Waiting, taken>>
<1> SUFFICES ASSUME ReceiveInv, ReceiveInv', [RxNext]_rx_vars
             PROVE  \/ RxFifo!Get \/ \E f \in RxFrame : RxFifo!Put(f)
                    \/ Waiting' = Waiting /\ taken' = taken
  OBVIOUS
<1>1. RxDmaFetch \/ Recycle \/ RxAdvance => taken' = taken
  BY DEF RxDmaFetch, Recycle, RxAdvance, history
<1> QED BY <1>1, FetchWaiting, ClosePuts, CopyGets, RecycleWaiting, AdvanceWaiting, OtherWaiting

\* The receive ring implements a bounded queue for every number of descriptors:
\* frames are taken whole, in the order in which they arrived, none twice and
\* none skipped, with no lock between rk3576_gmac_dma_receive and the engine.
THEOREM ReceiveFifo == RxSpec => RxImplementsFifo
<1>1. RxInit => RxFifo!Init
  <2> SUFFICES ASSUME RxInit PROVE Waiting = <<>> /\ taken = Nothing
    BY DEF RxFifo!Init
  <2>1. ReceiveTypes /\ Shape(0)
    <3>1. ReceiveInv
      BY ReceiveInit
    <3>2. PICK n \in 0 .. RxCount : Shape(n)
      BY <3>1 DEF ReceiveInv, RingShape
    <3>3. 0 \in RxSlot /\ First = 0 /\ 0 \in 0 .. RxCount - 1 /\ Behind(First, 0) = First /\ rx_own[First]
      BY BehindNext, GmacReceiveAssumption DEF RxInit, First, RxSlot
    <3>4. n = 0
      BY <3>2, <3>3, GmacReceiveAssumption DEF Shape
    <3> QED BY <3>1, <3>2, <3>4 DEF ReceiveInv
  <2>2. Waiting = View(0)
    BY <2>1, WaitingIs
  <2>3. 0 - Copied <= 0 /\ 0 - Copied \in Int
    BY DEF Copied
  <2>4. Waiting = <<>>
    BY <2>2, <2>3 DEF View
  <2> QED BY <2>4 DEF RxInit
<1> QED BY <1>1, ReceiveCorrect, ReceiveStepFifo, PTL DEF RxSpec, RxImplementsFifo

-----------------------------------------------------------------------------
(* Timers: the invariant *)

\* Every variable has its type.
TimerTypes ==
  /\ tick \in 0 .. Modulus - 1
  /\ mode \in {"open", "tick", "call", "soft"}
  /\ hard \in Seq(All \ Soft) /\ soft \in Seq(Soft)
  /\ tmp \subseteq Timer
  /\ ringing \in [BOOLEAN -> Timer \cup {NoTimer}]
  /\ init_tick \in [Timer -> Times]
  /\ timeout_tick \in [All -> 0 .. Modulus - 1]
  /\ periodic \in [Timer -> BOOLEAN] /\ active \in [All -> BOOLEAN]
  /\ dead \subseteq Timer /\ stopping \in (Timer \ dead) \cup {NoTimer}
  /\ status \in {"IDLE", "BUSY"} /\ stat \in {"ready", "suspend"}
  /\ at \in {"next", "suspend", "tick", "delay", "asleep", "check", "call"}
  /\ next \in 0 .. Modulus - 1
  /\ waits \in BOOLEAN
  /\ held \in 0 .. MaxHeld
  /\ overlooked \subseteq Soft /\ turned \subseteq Timer /\ stale \in BOOLEAN

\* Ticks until a deadline that the timer thread has read.
Until(due) == Signed(Minus(due, tick))

\* Ticks until each timer is due, whether it is linked or not.
Lefts == [u \in All |-> Until(timeout_tick[u])]

\* The elements of s are in the order of f.
Sorted(s, f) == \A i, j \in DOMAIN s : i < j => f[s[i]] <= f[s[j]]

Linked == ToSet(hard) \cup ToSet(soft)

\* The lists as such.
ListShape ==
  /\ IsInjective(hard) /\ IsInjective(soft)
  /\ Sorted(hard, Lefts)
  /\ ~stale => Sorted(soft, Lefts)

\* Which timers are linked.
Membership ==
  /\ tmp \subseteq {ringing[FALSE], ringing[TRUE]} \ Linked
  /\ \A t \in Linked : active[t] /\ t \notin dead
  /\ \A t \in All : active[t] => t \in Linked \cup tmp \cup turned
  /\ tmp \cap dead = {}

\* Which loop calls which callback, and that a timer which stays activated while
\* its callback runs will be started again, unless it was made one-shot.
Callbacks ==
  /\ ringing[FALSE] \in IF mode = "call" THEN Timer \ Soft ELSE {NoTimer}
  /\ ringing[TRUE] \in IF at = "call" THEN Soft ELSE {NoTimer}
  /\ \A t \in tmp : active[t] => periodic[t] \/ t \in turned

\* Where the timer thread is, and that its own timer runs only while it sleeps.
ThreadSound ==
  /\ status = "BUSY" <=> at = "call"
  /\ waits => stat = "suspend" /\ at = "call"
  /\ stat = "suspend" => waits \/ at = "asleep"
  /\ mode = "soft" => stat = "ready" /\ at = "check"
  /\ Asleep => held = 0
  /\ Sleep \in ToSet(hard) => Asleep

\* How late a timer can be: a hard timer not at all once the tick handler has
\* returned, a soft timer by the ticks the timer thread was kept from going to
\* sleep and those since it woke up.  An overlooked timer that is later than that
\* goes stale.
Lateness(t) == IF t \in overlooked THEN 2 * MaxHeld ELSE MaxHeld + held

Deadlines ==
  /\ \A t \in ToSet(hard) :
       Lefts[t] >= (IF mode \in {"open", "soft"} THEN 1 ELSE 0) - (IF t = Sleep THEN 1 ELSE 0)
  /\ ~stale => \A t \in ToSet(soft) : Lefts[t] >= 0 - Lateness(t)

\* What the timer thread knows on its way to sleep, about any soft timer that it
\* has not overlooked: it read the earliest deadline, and at most held ticks have
\* passed since.
TowardsSleep ==
  /\ at = "next" => overlooked = {}
  /\ at = "suspend" => ToSet(soft) \subseteq overlooked
  /\ at = "delay" => next < Half
  /\ ~stale => \A u \in ToSet(soft) \ overlooked :
       /\ at = "next" => 1 <= Lefts[u] + held
       /\ at = "tick" => 1 <= Until(next) + held /\ Until(next) <= Lefts[u]
       /\ at = "delay" => next <= Lefts[u] + held /\ 1 <= Lefts[u] + held
       /\ Asleep => /\ Sleep \in ToSet(hard) /\ Lefts[Sleep] <= Lefts[u] + MaxHeld
                    /\ (IF mode = "open" THEN 1 ELSE 0) <= Lefts[u] + MaxHeld

\* The inductive invariant of the timers.
TimerInv ==
  /\ TimerTypes /\ ListShape /\ Membership
  /\ Callbacks /\ ThreadSound /\ Deadlines /\ TowardsSleep

-----------------------------------------------------------------------------
(* Timers: arithmetic of ticks *)

\* Unsigned subtraction wraps once at most.
LEMMA MinusValue ==
  ASSUME NEW a \in 0 .. Modulus - 1, NEW b \in 0 .. Modulus - 1
  PROVE  /\ Minus(a, b) = IF b <= a THEN a - b ELSE a - b + Modulus
         /\ Minus(a, b) \in 0 .. Modulus - 1
<1> DEFINE M == Modulus
<1>1. M \in Nat \ {0}
  BY TimerAssumption DEF Modulus
<1> HIDE DEF M
<1>2. \A x, y \in 0 .. M - 1 : (x - y) % M = IF y <= x THEN x - y ELSE x - y + M
  BY <1>1
<1> QED BY <1>1, <1>2 DEF Minus, M

\* So does the addition of a time.
LEMMA PlusValue ==
  ASSUME NEW a \in 0 .. Modulus - 1, NEW n \in 0 .. Half
  PROVE  /\ (a + n) % Modulus = IF a + n < Modulus THEN a + n ELSE a + n - Modulus
         /\ (a + n) % Modulus \in 0 .. Modulus - 1
<1> DEFINE M == Modulus
<1>1. M \in Nat \ {0} /\ n \in 0 .. M
  BY TimerAssumption DEF Modulus
<1> HIDE DEF M
<1>2. \A x \in 0 .. M - 1, y \in 0 .. M : (x + y) % M = IF x + y < M THEN x + y ELSE x + y - M
  BY <1>1
<1>3. a \in 0 .. M - 1
  BY DEF M
<1>4. (a + n) % M = IF a + n < M THEN a + n ELSE a + n - M
  BY <1>1, <1>2, <1>3
<1>5. (a + n) % M \in 0 .. M - 1
  BY <1>1, <1>3, <1>4
<1> QED BY <1>4, <1>5 DEF M

\* The range of ticks.
LEMMA ModulusValue == Half \in Nat \ {0, 1} /\ Modulus = 2 * Half + 2
BY TimerAssumption DEF Modulus

\* The ticks until a deadline, as a signed number.
LEMMA UntilValue ==
  ASSUME tick \in 0 .. Modulus - 1, NEW a \in 0 .. Modulus - 1
  PROVE  Until(a) \in 0 - Half - 2 .. Half - 1
<1>1. Minus(a, tick) \in 0 .. Modulus - 1
  BY MinusValue
<1> QED BY <1>1, ModulusValue DEF Until, Signed

\* A timer that is started for n ticks is due in n ticks.
LEMMA UntilDue ==
  ASSUME tick \in 0 .. Modulus - 1, NEW n \in 0 .. Half - 1
  PROVE  Until((tick + n) % Modulus) = n
<1> DEFINE a == (tick + n) % Modulus
<1>1. n \in 0 .. Half
  BY ModulusValue
<1>2. a \in 0 .. Modulus - 1 /\ a = IF tick + n < Modulus THEN tick + n ELSE tick + n - Modulus
  BY <1>1, PlusValue
<1> HIDE DEF a
<1>3. Minus(a, tick) = IF tick <= a THEN a - tick ELSE a - tick + Modulus
  BY <1>2, MinusValue
<1>4. Minus(a, tick) = n
  BY <1>2, <1>3, ModulusValue
<1>5. Until(a) = n
  BY <1>4, ModulusValue DEF Until, Signed
<1> QED BY <1>5 DEF a

\* A tick brings every deadline nearer, unless it is half the range behind.
LEMMA UntilTick ==
  ASSUME tick \in 0 .. Modulus - 1, NEW a \in 0 .. Modulus - 1, Until(a) > 0 - Half - 2
  PROVE  /\ (tick + 1) % Modulus \in 0 .. Modulus - 1
         /\ Signed(Minus(a, (tick + 1) % Modulus)) = Until(a) - 1
<1> DEFINE n == (tick + 1) % Modulus
<1>1. 1 \in 0 .. Half
  BY ModulusValue
<1>2. n \in 0 .. Modulus - 1 /\ n = IF tick + 1 < Modulus THEN tick + 1 ELSE tick + 1 - Modulus
  BY <1>1, PlusValue
<1> HIDE DEF n
<1>3. /\ Minus(a, n) = IF n <= a THEN a - n ELSE a - n + Modulus
      /\ Minus(a, tick) = IF tick <= a THEN a - tick ELSE a - tick + Modulus
  BY <1>2, MinusValue
<1>4. Minus(a, tick) # Half
  BY <1>3, ModulusValue DEF Until, Signed
<1>5. Minus(a, n) = IF Minus(a, tick) = 0 THEN Modulus - 1 ELSE Minus(a, tick) - 1
  BY <1>2, <1>3, ModulusValue
<1>6. Minus(a, tick) \in 0 .. Modulus - 1
  BY MinusValue
<1>7. Signed(Minus(a, n)) = Until(a) - 1
  BY <1>4, <1>5, <1>6, ModulusValue DEF Until, Signed
<1> QED BY <1>2, <1>7 DEF n

\* The comparison of rt_timer_start is that of the signed numbers when the
\* deadlines are not too far apart.
LEMMA UntilLater ==
  ASSUME tick \in 0 .. Modulus - 1, NEW a \in 0 .. Modulus - 1, NEW due \in 0 .. Modulus - 1,
         Until(due) >= 0, Until(due) - Until(a) <= Half + 2
  PROVE  a # due /\ Minus(a, due) < Half <=> Until(a) > Until(due)
<1>1. /\ Minus(a, due) = IF due <= a THEN a - due ELSE a - due + Modulus
      /\ Minus(a, tick) = IF tick <= a THEN a - tick ELSE a - tick + Modulus
      /\ Minus(due, tick) = IF tick <= due THEN due - tick ELSE due - tick + Modulus
  BY MinusValue
<1>2. /\ Until(a) = IF Minus(a, tick) < Half THEN Minus(a, tick) ELSE Minus(a, tick) - Modulus
      /\ Until(due) = IF Minus(due, tick) < Half THEN Minus(due, tick) ELSE Minus(due, tick) - Modulus
  BY DEF Until, Signed
<1> QED BY <1>1, <1>2, ModulusValue

\* The comparison of the check loops finds what is due.
LEMMA UntilExpired ==
  ASSUME tick \in 0 .. Modulus - 1, NEW a \in 0 .. Modulus - 1, Until(a) > 0 - Half
  PROVE  Minus(tick, a) < Half <=> Until(a) <= 0
<1>1. /\ Minus(tick, a) = IF a <= tick THEN tick - a ELSE tick - a + Modulus
      /\ Minus(a, tick) = IF tick <= a THEN a - tick ELSE a - tick + Modulus
  BY MinusValue
<1>2. Until(a) = IF Minus(a, tick) < Half THEN Minus(a, tick) ELSE Minus(a, tick) - Modulus
  BY DEF Until, Signed
<1> QED BY <1>1, <1>2, ModulusValue

-----------------------------------------------------------------------------
(* Timers: lists in the order of a function *)

\* So does the list without t.
LEMMA UnlinkSorted ==
  ASSUME NEW S, NEW s \in Seq(S), NEW t, NEW f, Sorted(s, f)
  PROVE  Sorted(Unlink(s, t), f)
<1>1. CASE Unlink(s, t) = s
  BY <1>1
<1>2. CASE \E i \in 1 .. Len(s) : Unlink(s, t) = RemoveAt(s, i)
  <2>1. PICK i \in 1 .. Len(s) : Unlink(s, t) = RemoveAt(s, i)
    BY <1>2
  <2> DEFINE r == RemoveAt(s, i)
  <2>2. /\ r \in Seq(S) /\ Len(r) = Len(s) - 1
        /\ \A j \in 1 .. Len(s) - 1 : r[j] = IF j < i THEN s[j] ELSE s[j + 1]
    BY RemoveAtType
  <2>3. Len(s) \in Nat /\ DOMAIN s = 1 .. Len(s) /\ DOMAIN r = 1 .. Len(s) - 1
    BY <2>2, LenProperties
  <2> HIDE DEF r
  <2>4. ASSUME NEW a \in 1 .. Len(s) - 1, NEW b \in 1 .. Len(s) - 1, a < b PROVE f[r[a]] <= f[r[b]]
    <3> DEFINE c == IF a < i THEN a ELSE a + 1
               d == IF b < i THEN b ELSE b + 1
    <3>1. c \in 1 .. Len(s) /\ d \in 1 .. Len(s) /\ c < d
      BY <2>3, <2>4
    <3>2. r[a] = s[c] /\ r[b] = s[d]
      BY <2>2
    <3> HIDE DEF c, d
    <3> QED BY <3>1, <3>2, <2>3 DEF Sorted
  <2>5. Sorted(r, f)
    BY <2>3, <2>4 DEF Sorted
  <2> QED BY <2>1, <2>5 DEF r
<1> QED BY <1>1, <1>2, UnlinkCases

\* The first element is the smallest, and the others are in order.
LEMMA TailSorted ==
  ASSUME NEW S, NEW s \in Seq(S), s # <<>>, NEW f, Sorted(s, f)
  PROVE  Sorted(Tail(s), f) /\ \A u \in ToSet(s) : f[Head(s)] <= f[u] \/ u = Head(s)
<1>1. /\ Tail(s) \in Seq(S) /\ Len(Tail(s)) = Len(s) - 1 /\ Len(s) \in Nat \ {0}
      /\ \A i \in 1 .. Len(s) - 1 : Tail(s)[i] = s[i + 1]
      /\ Head(s) = s[1]
  BY HeadTailProperties, EmptySeq, LenProperties
<1>2. DOMAIN s = 1 .. Len(s) /\ DOMAIN Tail(s) = 1 .. Len(s) - 1
  BY <1>1, LenProperties
<1>3. Sorted(Tail(s), f)
  BY <1>1, <1>2 DEF Sorted
<1>4. \A u \in ToSet(s) : f[Head(s)] <= f[u] \/ u = Head(s)
  BY <1>1, <1>2 DEF Sorted, ToSet
<1> QED BY <1>3, <1>4

\* The place of the first element that is greater than v.
FirstAbove(s, f, v) ==
  LET later == {i \in DOMAIN s : f[s[i]] > v}
  IN  IF later = {} THEN Len(s) + 1 ELSE Min(later)

\* The place of the first element with a property, or behind the last.
LEMMA PlaceIn ==
  ASSUME NEW S, NEW s \in Seq(S), NEW later \in SUBSET (DOMAIN s)
  PROVE  (IF later = {} THEN Len(s) + 1 ELSE Min(later)) \in 1 .. Len(s) + 1
<1>1. Len(s) \in Nat /\ DOMAIN s = 1 .. Len(s)
  BY LenProperties
<1>2. later \subseteq Nat
  BY <1>1
<1>3. CASE later = {}
  BY <1>1, <1>3
<1>4. CASE later # {}
  <2>1. PICK m \in later : \A i \in later : m <= i
    BY <1>2, <1>4, SmallestOf
  <2>2. Min(later) \in later
    BY <2>1 DEF Min
  <2> QED BY <1>1, <1>4, <2>2
<1> QED BY <1>3, <1>4

\* That place splits the list.
LEMMA FirstLater ==
  ASSUME NEW S, NEW s \in Seq(S), NEW f \in [S -> Int], NEW v \in Int
  PROVE  /\ FirstAbove(s, f, v) \in 1 .. Len(s) + 1
         /\ \A i \in 1 .. Len(s) : i < FirstAbove(s, f, v) => f[s[i]] <= v
         /\ FirstAbove(s, f, v) <= Len(s) => f[s[FirstAbove(s, f, v)]] > v
<1> DEFINE later == {i \in DOMAIN s : f[s[i]] > v}
           n     == IF later = {} THEN Len(s) + 1 ELSE Min(later)
<1>1. Len(s) \in Nat /\ DOMAIN s = 1 .. Len(s)
  BY LenProperties
<1>2. \A i \in 1 .. Len(s) : f[s[i]] \in Int
  <2> SUFFICES ASSUME NEW i \in 1 .. Len(s) PROVE f[s[i]] \in Int
    OBVIOUS
  <2>1. s[i] \in S
    BY ElementOfSeq
  <2> QED BY <2>1
<1>3. /\ later \subseteq Nat /\ later \subseteq 1 .. Len(s)
      /\ \A i \in 1 .. Len(s) : i \in later <=> f[s[i]] > v
  BY <1>1
<1> SUFFICES /\ n \in 1 .. Len(s) + 1
             /\ \A i \in 1 .. Len(s) : i < n => f[s[i]] <= v
             /\ n <= Len(s) => f[s[n]] > v
  BY DEF FirstAbove
<1> HIDE DEF later
<1>4. CASE later = {}
  <2>1. n = Len(s) + 1
    BY <1>4
  <2>2. \A i \in 1 .. Len(s) : f[s[i]] <= v
    BY <1>2, <1>3, <1>4
  <2> QED BY <1>1, <2>1, <2>2
<1>5. CASE later # {}
  <2>1. PICK m \in later : \A i \in later : m <= i
    BY <1>5, <1>3, SmallestOf
  <2>2. n = Min(later)
    BY <1>5
  <2>3. n \in later /\ \A i \in later : n <= i
    BY <2>1, <2>2 DEF Min
  <2> HIDE DEF n
  <2>4. n \in 1 .. Len(s) /\ f[s[n]] > v
    BY <1>3, <2>3
  <2>5. ASSUME NEW i \in 1 .. Len(s), i < n PROVE f[s[i]] <= v
    <3>1. i \in Int /\ n \in Int /\ ~(n <= i)
      BY <1>1, <2>4, <2>5
    <3>2. i \notin later
      BY <2>3, <3>1
    <3>3. ~(f[s[i]] > v) /\ f[s[i]] \in Int
      BY <3>2, <1>2, <1>3
    <3> QED BY <3>3
  <2> QED BY <1>1, <2>4, <2>5
<1> QED BY <1>4, <1>5

\* A new element that comes before the first that is greater keeps the order.
LEMMA InsertSorted ==
  ASSUME NEW S, NEW s \in Seq(S), NEW f \in [S -> Int], NEW t \in S,
         NEW n \in 1 .. Len(s) + 1
  PROVE  (/\ Sorted(s, f)
          /\ \A i \in 1 .. Len(s) : i < n => f[s[i]] <= f[t]
          /\ n <= Len(s) => f[s[n]] > f[t])
         => Sorted(InsertAt(s, n, t), f)
<1>1. Len(s) \in Nat /\ DOMAIN s = 1 .. Len(s)
  BY LenProperties
<1> DEFINE r == InsertAt(s, n, t)
           g == [i \in 1 .. Len(s) |-> f[s[i]]]
           v == f[t]
<1>2. /\ r \in Seq(S) /\ Len(r) = Len(s) + 1
      /\ \A j \in 1 .. Len(s) + 1 : r[j] = IF j < n THEN s[j] ELSE IF j = n THEN t ELSE s[j - 1]
  BY InsertAtType
<1>3. DOMAIN r = 1 .. Len(s) + 1
  BY <1>2, LenProperties
<1>4. v \in Int /\ \A i \in 1 .. Len(s) : g[i] \in Int
  <2> SUFFICES ASSUME NEW i \in 1 .. Len(s) PROVE f[s[i]] \in Int
    OBVIOUS
  <2>1. s[i] \in S
    BY ElementOfSeq
  <2> QED BY <2>1
<1> HIDE DEF r
<1>5. \A j \in 1 .. Len(s) + 1 : f[r[j]] = IF j < n THEN g[j] ELSE IF j = n THEN v ELSE g[j - 1]
  BY <1>1, <1>2
<1>6. SUFFICES ASSUME Sorted(s, f),
                      \A i \in 1 .. Len(s) : i < n => f[s[i]] <= f[t],
                      n <= Len(s) => f[s[n]] > f[t]
               PROVE  Sorted(r, f)
  BY DEF r
<1>7. \A i, j \in 1 .. Len(s) : i < j => g[i] <= g[j]
  BY <1>1, <1>6 DEF Sorted
<1>8. /\ \A i \in 1 .. Len(s) : i < n => g[i] <= v
      /\ n <= Len(s) => g[n] > v
  BY <1>1, <1>6
<1> HIDE DEF g, v
<1>9. ASSUME NEW i \in 1 .. Len(s) + 1, NEW j \in 1 .. Len(s) + 1, i < j
      PROVE  f[r[i]] <= f[r[j]]
  <2>1. i \in Nat /\ j \in Nat /\ n \in Nat
    BY <1>1
  <2>2. CASE j <= n
    <3>1. i \in 1 .. Len(s) /\ i < n /\ f[r[i]] = g[i]
      BY <2>1, <2>2, <1>1, <1>5, <1>9
    <3>2. f[r[j]] = IF j = n THEN v ELSE g[j]
      BY <2>1, <2>2, <1>5
    <3>3. j # n => j \in 1 .. Len(s)
      BY <2>1, <2>2, <1>1
    <3> QED BY <3>1, <3>2, <3>3, <1>7, <1>8, <1>9
  <2>3. CASE j > n /\ i <= n
    <3>1. j - 1 \in 1 .. Len(s) /\ n \in 1 .. Len(s) /\ n <= j - 1 /\ n <= Len(s)
      BY <2>1, <2>3, <1>1
    <3>2. g[n] <= g[j - 1] /\ g[n] > v
      <4>1. g[n] \in Int /\ g[n] > v
        BY <3>1, <1>4, <1>8
      <4>2. n = j - 1 \/ n < j - 1
        BY <3>1, <2>1
      <4> QED BY <3>1, <4>1, <4>2, <1>7
    <3>3. f[r[j]] = g[j - 1]
      BY <2>1, <2>3, <1>5
    <3>4. f[r[i]] = IF i = n THEN v ELSE g[i]
      BY <2>1, <2>3, <1>5
    <3>5. i # n => i \in 1 .. Len(s) /\ i < n
      BY <2>1, <2>3, <3>1
    <3>6. f[r[i]] <= v /\ f[r[i]] \in Int
      BY <3>4, <3>5, <1>4, <1>8
    <3>7. g[n] \in Int /\ g[j - 1] \in Int /\ v \in Int
      BY <3>1, <1>4
    <3> QED BY <3>2, <3>3, <3>6, <3>7
  <2>4. CASE i > n
    <3>1. i - 1 \in 1 .. Len(s) /\ j - 1 \in 1 .. Len(s) /\ i - 1 < j - 1
      BY <2>1, <2>4, <1>1, <1>9
    <3>2. f[r[i]] = g[i - 1] /\ f[r[j]] = g[j - 1]
      BY <2>1, <2>4, <1>5, <1>9
    <3> QED BY <3>1, <3>2, <1>7
  <2> QED BY <2>1, <2>2, <2>3, <2>4
<1> QED BY <1>3, <1>9 DEF Sorted

\* The order depends on the values of the elements only.
LEMMA SortedSame ==
  ASSUME NEW S, NEW s \in Seq(S), NEW f, NEW g, Sorted(s, f), \A u \in ToSet(s) : g[u] = f[u]
  PROVE  Sorted(s, g)
<1>1. \A i \in DOMAIN s : s[i] \in ToSet(s)
  BY DEF ToSet
<1> QED BY <1>1 DEF Sorted

\* It stays when every value shrinks by one.
LEMMA SortedShift ==
  ASSUME NEW S, NEW s \in Seq(S), NEW f, NEW g, Sorted(s, f),
         \A u \in ToSet(s) : f[u] \in Int /\ g[u] = f[u] - 1
  PROVE  Sorted(s, g)
<1>1. \A i \in DOMAIN s : s[i] \in ToSet(s)
  BY DEF ToSet
<1>2. ASSUME NEW i \in DOMAIN s, NEW j \in DOMAIN s, i < j PROVE g[s[i]] <= g[s[j]]
  <2>1. f[s[i]] <= f[s[j]]
    BY <1>2 DEF Sorted
  <2>2. /\ f[s[i]] \in Int /\ g[s[i]] = f[s[i]] - 1
        /\ f[s[j]] \in Int /\ g[s[j]] = f[s[j]] - 1
    BY <1>1
  <2> QED BY <2>1, <2>2
<1> QED BY <1>2 DEF Sorted

-----------------------------------------------------------------------------
(* Timers: the lists *)

\* The ticks left of every timer.
LEMMA LeftsType ==
  ASSUME TimerTypes
  PROVE  /\ Lefts \in [All -> Int]
         /\ \A u \in All : /\ Lefts[u] = Until(timeout_tick[u])
                           /\ timeout_tick[u] \in 0 .. Modulus - 1
                           /\ Lefts[u] \in 0 - Half - 2 .. Half - 1
<1>1. \A u \in All : Lefts[u] = Until(timeout_tick[u]) /\ timeout_tick[u] \in 0 .. Modulus - 1
  BY DEF TimerTypes, Lefts
<1>2. tick \in 0 .. Modulus - 1
  BY DEF TimerTypes
<1>3. \A u \in All : Lefts[u] \in 0 - Half - 2 .. Half - 1
  BY <1>1, <1>2, UntilValue
<1>4. DOMAIN Lefts = All /\ Lefts = [u \in All |-> Lefts[u]]
  BY DEF Lefts
<1>5. \A u \in All : Lefts[u] \in Int
  BY <1>3, ModulusValue
<1> QED BY <1>1, <1>3, <1>4, <1>5

\* What rt_timer_start does to a list: the timer is linked where it is due.
LEMMA LinkProps ==
  ASSUME TimerTypes, NEW S \in SUBSET All, NEW s \in Seq(S), IsInjective(s),
         NEW t \in S, t \notin ToSet(s), NEW n \in 0 .. Half - 1
  PROVE  LET r == Link(s, t, (tick + n) % Modulus)
         IN  /\ r \in Seq(S) /\ IsInjective(r) /\ ToSet(r) = ToSet(s) \cup {t}
             /\ Sorted(s, Lefts) /\ (\A u \in ToSet(s) : n - Lefts[u] <= Half + 2)
                => Sorted(r, [Lefts EXCEPT ![t] = n])
<1> DEFINE due   == (tick + n) % Modulus
           f     == [Lefts EXCEPT ![t] = n]
           later == {i \in DOMAIN s : /\ timeout_tick[s[i]] # due
                                      /\ Minus(timeout_tick[s[i]], due) < Half}
           after == {i \in DOMAIN s : f[s[i]] > n}
           place == Position(s, due)
<1>1. Half \in Nat \ {0} /\ n \in Int /\ n >= 0 /\ n \in 0 .. Half
  BY ModulusValue
<1>2. /\ due \in 0 .. Modulus - 1 /\ Until(due) = n /\ tick \in 0 .. Modulus - 1
  BY <1>1, PlusValue, UntilDue DEF TimerTypes
<1>3. /\ f \in [All -> Int] /\ f[t] = n
      /\ \A u \in ToSet(s) : f[u] = Lefts[u]
  BY <1>1, LeftsType
<1>4. \A i \in DOMAIN s : s[i] \in ToSet(s) /\ s[i] \in All
  BY SeqViews, ElementOfSeq DEF ToSet
<1> HIDE DEF due
<1>5. s \in Seq(All) /\ t \in All
  OBVIOUS
<1>6. place \in 1 .. Len(s) + 1
  BY PlaceIn DEF Position
<1>7. /\ InsertAt(s, place, t) \in Seq(S) /\ IsInjective(InsertAt(s, place, t))
      /\ ToSet(InsertAt(s, place, t)) = ToSet(s) \cup {t}
  <2> HIDE DEF place
  <2> QED BY <1>6, InsertAtProps
<1>8. ASSUME Sorted(s, Lefts), \A u \in ToSet(s) : n - Lefts[u] <= Half + 2
      PROVE  Sorted(InsertAt(s, place, t), f)
  <2>1. ASSUME NEW i \in DOMAIN s
        PROVE  timeout_tick[s[i]] # due /\ Minus(timeout_tick[s[i]], due) < Half <=> f[s[i]] > n
    <3> DEFINE a == timeout_tick[s[i]]
    <3>1. a \in 0 .. Modulus - 1 /\ Lefts[s[i]] = Until(a) /\ f[s[i]] = Until(a)
      BY <1>3, <1>4, LeftsType
    <3>2. Until(due) - Until(a) <= Half + 2
      BY <1>2, <1>4, <1>8, <3>1
    <3> HIDE DEF a
    <3>3. a # due /\ Minus(a, due) < Half <=> Until(a) > Until(due)
      BY <1>1, <1>2, <3>1, <3>2, UntilLater
    <3> QED BY <1>2, <3>1, <3>3 DEF a
  <2>2. later = after
    BY <2>1
  <2>3. place = FirstAbove(s, f, n)
    BY <2>2 DEF Position, FirstAbove
  <2> HIDE DEF f, place
  <2>4. /\ \A i \in 1 .. Len(s) : i < place => f[s[i]] <= f[t]
        /\ place <= Len(s) => f[s[place]] > f[t]
    BY <1>1, <1>3, <1>5, <2>3, FirstLater
  <2> HIDE DEF after
  <2>5. Sorted(s, f)
    BY <1>3, <1>8, SortedSame
  <2> QED BY <1>3, <1>5, <1>6, <2>4, <2>5, InsertSorted
<1>9. Link(s, t, due) = InsertAt(s, place, t)
  BY DEF Link
<1> HIDE DEF place
<1> QED BY <1>7, <1>8, <1>9 DEF f, due

\* The sets of timers.
LEMMA TimerSets ==
  /\ Soft \subseteq Timer /\ All = Timer \cup {Sleep} /\ Sleep \notin Timer
  /\ Sleep \notin Soft /\ NoTimer \notin All /\ Timer \subseteq All
  /\ Soft \subseteq All /\ All \ Soft \subseteq All /\ Sleep \in All \ Soft
BY TimerAssumption DEF All

\* What the lists hold.
LEMMA LinkedTypes ==
  ASSUME TimerTypes
  PROVE  ToSet(hard) \subseteq All \ Soft /\ ToSet(soft) \subseteq Soft
<1>1. hard \in Seq(All \ Soft) /\ soft \in Seq(Soft)
  BY DEF TimerTypes
<1> QED BY <1>1, EmptyToSet

\* Times and lateness are small enough for the comparisons.
LEMMA Bounds ==
  ASSUME TimerTypes, Deadlines
  PROVE  /\ \A u \in ToSet(hard) : Lefts[u] \in Int /\ Lefts[u] >= 0 - 1
         /\ \A u \in ToSet(soft) : Lefts[u] \in Int /\ (~stale => Lefts[u] >= 0 - 2 * MaxHeld)
         /\ \A n \in Times : n \in 1 .. Half - 1 /\ n + 2 * MaxHeld <= Half + 2
         /\ MaxHeld \in Nat /\ Half \in Nat /\ 2 * MaxHeld < Half
<1>1. MaxHeld \in Nat /\ Half \in Nat /\ 2 * MaxHeld < Half /\ held \in 0 .. MaxHeld
  BY TimerAssumption DEF TimerTypes
<1>2. \A n \in Times : n \in 1 .. Half - 1 /\ n + 2 * MaxHeld <= Half + 2
  BY TimerAssumption
<1>3. \A u \in ToSet(hard) \cup ToSet(soft) : Lefts[u] \in Int
  BY LeftsType, LinkedTypes, TimerSets
<1>4. \A u \in ToSet(hard) : Lefts[u] >= 0 - 1
  BY <1>3 DEF Deadlines
<1>5. ~stale => \A u \in ToSet(soft) : Lefts[u] >= 0 - 2 * MaxHeld
  BY <1>1, <1>3 DEF Deadlines, Lateness
<1> QED BY <1>1, <1>2, <1>3, <1>4, <1>5

\* A timer is unlinked and linked again where it is due now.
LEMMA Relinked ==
  ASSUME TimerTypes, NEW S \in SUBSET All, NEW s \in Seq(S), IsInjective(s),
         NEW t \in S, NEW n \in 0 .. Half - 1
  PROVE  LET r == Link(Unlink(s, t), t, (tick + n) % Modulus)
         IN  /\ r \in Seq(S) /\ IsInjective(r) /\ ToSet(r) = ToSet(s) \cup {t}
             /\ Sorted(s, Lefts) /\ (\A u \in ToSet(s) : n - Lefts[u] <= Half + 2)
                => Sorted(r, [Lefts EXCEPT ![t] = n])
<1> DEFINE q == Unlink(s, t)
<1>1. q \in Seq(S) /\ IsInjective(q) /\ ToSet(q) = ToSet(s) \ {t}
  BY UnlinkProperties
<1>2. Sorted(s, Lefts) => Sorted(q, Lefts)
  BY UnlinkSorted
<1> HIDE DEF q
<1>3. t \notin ToSet(q)
  BY <1>1
<1> DEFINE r == Link(q, t, (tick + n) % Modulus)
<1>4. /\ r \in Seq(S) /\ IsInjective(r) /\ ToSet(r) = ToSet(q) \cup {t}
      /\ Sorted(q, Lefts) /\ (\A u \in ToSet(q) : n - Lefts[u] <= Half + 2)
         => Sorted(r, [Lefts EXCEPT ![t] = n])
  BY <1>1, <1>3, LinkProps
<1> HIDE DEF r
<1>5. ToSet(r) = ToSet(s) \cup {t} /\ ToSet(q) \subseteq ToSet(s)
  BY <1>1, <1>4
<1> QED BY <1>2, <1>4, <1>5 DEF r, q

\* What rt_timer_start does.
LEMMA Started ==
  ASSUME TimerTypes, ListShape, Deadlines, NEW t \in Timer, rt_timer_start(t), UNCHANGED <<tick, stale>>
  PROVE  /\ hard' \in Seq(All \ Soft) /\ soft' \in Seq(Soft)
         /\ timeout_tick' \in [All -> 0 .. Modulus - 1]
         /\ ListShape'
         /\ Lefts' = [Lefts EXCEPT ![t] = init_tick[t]]
         /\ ToSet(hard)' = IF t \notin Soft THEN ToSet(hard) \cup {t}
                           ELSE IF Resumes(t) THEN ToSet(hard) \ {Sleep} ELSE ToSet(hard)
         /\ ToSet(soft)' = IF t \in Soft THEN ToSet(soft) \cup {t} ELSE ToSet(soft)
<1> DEFINE n   == init_tick[t]
           due == (tick + n) % Modulus
           f   == [Lefts EXCEPT ![t] = n]
<1>1. n \in Times /\ n \in 0 .. Half - 1 /\ n \in 0 .. Half /\ n \in Int /\ tick \in 0 .. Modulus - 1
  BY Bounds, ModulusValue DEF TimerTypes
<1>2. due \in 0 .. Modulus - 1 /\ Until(due) = n
  BY <1>1, PlusValue, UntilDue
<1>3. /\ timeout_tick' = [timeout_tick EXCEPT ![t] = due]
      /\ hard' = IF t \notin Soft THEN Link(Unlink(hard, t), t, due)
                 ELSE IF Resumes(t) THEN Unlink(hard, Sleep) ELSE hard
      /\ soft' = IF t \in Soft THEN Link(Unlink(soft, t), t, due) ELSE soft
  BY DEF rt_timer_start
<1> HIDE DEF n
<1>4. /\ \A u \in ToSet(hard) : n - Lefts[u] <= Half + 2
      /\ ~stale => \A u \in ToSet(soft) : n - Lefts[u] <= Half + 2
  BY <1>1, Bounds
<1>5. /\ hard \in Seq(All \ Soft) /\ IsInjective(hard) /\ Sorted(hard, Lefts)
      /\ soft \in Seq(Soft) /\ IsInjective(soft) /\ (~stale => Sorted(soft, Lefts))
      /\ (~stale)' = ~stale
  BY DEF TimerTypes, ListShape
<1>6. timeout_tick' \in [All -> 0 .. Modulus - 1] /\ Lefts' = f
  <2> HIDE DEF due
  <2>1. timeout_tick \in [All -> 0 .. Modulus - 1] /\ t \in All
    BY TimerSets DEF TimerTypes
  <2>2. timeout_tick' \in [All -> 0 .. Modulus - 1]
    BY <1>2, <1>3, <2>1
  <2>3. \A u \in All : timeout_tick'[u] = IF u = t THEN due ELSE timeout_tick[u]
    BY <1>3, <2>1
  <2>4. Lefts' = [u \in All |-> Signed(Minus(timeout_tick'[u], tick))]
    BY DEF Lefts, Until
  <2>5. Lefts = [u \in All |-> Signed(Minus(timeout_tick[u], tick))]
    BY DEF Lefts, Until
  <2>6. Signed(Minus(due, tick)) = n
    BY <1>2 DEF Until
  <2>7. Lefts' = f
    BY <2>1, <2>3, <2>4, <2>5, <2>6
  <2> QED BY <2>2, <2>7
<1>7. CASE t \notin Soft
  <2>1. t \in All \ Soft /\ All \ Soft \in SUBSET All
    BY <1>7, TimerSets
  <2>2. hard' = Link(Unlink(hard, t), t, due) /\ soft' = soft
    BY <1>3, <1>7
  <2>3. /\ hard' \in Seq(All \ Soft) /\ IsInjective(hard')
        /\ ToSet(hard') = ToSet(hard) \cup {t} /\ Sorted(hard', f)
    <3>1. /\ hard \in Seq(All \ Soft) /\ IsInjective(hard) /\ n \in 0 .. Half - 1
      BY <1>1, <1>5
    <3> DEFINE r == Link(Unlink(hard, t), t, (tick + n) % Modulus)
    <3>2. /\ r \in Seq(All \ Soft) /\ IsInjective(r) /\ ToSet(r) = ToSet(hard) \cup {t}
          /\ Sorted(hard, Lefts) /\ (\A u \in ToSet(hard) : n - Lefts[u] <= Half + 2)
             => Sorted(r, [Lefts EXCEPT ![t] = n])
      BY <3>1, <2>1, Relinked
    <3>3. hard' = r
      BY <2>2
    <3> HIDE DEF r
    <3> QED BY <1>4, <1>5, <3>2, <3>3
  <2>4. t \notin ToSet(soft) /\ \A u \in ToSet(soft) : f[u] = Lefts[u]
    BY <1>7, LinkedTypes, LeftsType, TimerSets
  <2> HIDE DEF f
  <2>5. ~stale => Sorted(soft, f)
    BY <1>5, <2>4, SortedSame
  <2>6. ListShape'
    BY <1>5, <1>6, <2>2, <2>3, <2>5 DEF ListShape
  <2> QED BY <1>5, <1>6, <1>7, <2>2, <2>3, <2>6 DEF f, n
<1>8. CASE t \in Soft
  <2>1. Soft \in SUBSET All
    BY TimerSets
  <2>2. soft' = Link(Unlink(soft, t), t, due)
    BY <1>3, <1>8
  <2>3. /\ soft' \in Seq(Soft) /\ IsInjective(soft')
        /\ ToSet(soft') = ToSet(soft) \cup {t} /\ (~stale => Sorted(soft', f))
    <3>1. /\ soft \in Seq(Soft) /\ IsInjective(soft) /\ n \in 0 .. Half - 1
      BY <1>1, <1>5
    <3> DEFINE r == Link(Unlink(soft, t), t, (tick + n) % Modulus)
    <3>2. /\ r \in Seq(Soft) /\ IsInjective(r) /\ ToSet(r) = ToSet(soft) \cup {t}
          /\ Sorted(soft, Lefts) /\ (\A u \in ToSet(soft) : n - Lefts[u] <= Half + 2)
             => Sorted(r, [Lefts EXCEPT ![t] = n])
      BY <3>1, <1>8, <2>1, Relinked
    <3>3. soft' = r
      BY <2>2
    <3> HIDE DEF r
    <3> QED BY <1>4, <1>5, <3>2, <3>3
  <2>4. t \notin ToSet(hard) /\ \A u \in ToSet(hard) : f[u] = Lefts[u]
    BY <1>8, LinkedTypes, LeftsType, TimerSets
  <2> HIDE DEF f
  <2>5. hard' = IF Resumes(t) THEN Unlink(hard, Sleep) ELSE hard
    BY <1>3, <1>8
  <2>6. Sorted(hard, f)
    BY <1>5, <2>4, SortedSame
  <2>7. /\ Unlink(hard, Sleep) \in Seq(All \ Soft) /\ IsInjective(Unlink(hard, Sleep))
        /\ ToSet(Unlink(hard, Sleep)) = ToSet(hard) \ {Sleep}
        /\ Sorted(Unlink(hard, Sleep), f)
    BY <1>5, <2>6, UnlinkProperties, UnlinkSorted
  <2>8. /\ hard' \in Seq(All \ Soft) /\ IsInjective(hard') /\ Sorted(hard', f)
        /\ ToSet(hard') = IF Resumes(t) THEN ToSet(hard) \ {Sleep} ELSE ToSet(hard)
    BY <1>5, <2>5, <2>6, <2>7
  <2>9. ListShape'
    BY <1>6, <2>3, <2>8 DEF ListShape
  <2> QED BY <1>6, <1>8, <2>3, <2>8, <2>9 DEF f, n
<1> QED BY <1>7, <1>8

\* What _timer_remove does.
LEMMA Removed ==
  ASSUME TimerTypes, ListShape, NEW t \in Timer, TimerRemove(t), UNCHANGED <<tick, timeout_tick, stale>>
  PROVE  /\ hard' \in Seq(All \ Soft) /\ soft' \in Seq(Soft)
         /\ ListShape' /\ Lefts' = Lefts
         /\ ToSet(hard)' = ToSet(hard) \ {t} /\ ToSet(soft)' = ToSet(soft) \ {t}
         /\ tmp' = tmp \ {t} /\ active' = [active EXCEPT ![t] = FALSE] /\ turned' = turned \ {t}
<1>1. /\ hard' = Unlink(hard, t) /\ soft' = Unlink(soft, t) /\ tmp' = tmp \ {t}
      /\ active' = [active EXCEPT ![t] = FALSE] /\ turned' = turned \ {t}
  BY DEF TimerRemove
<1>2. Lefts' = Lefts
  BY DEF Lefts, Until
<1>3. /\ hard \in Seq(All \ Soft) /\ IsInjective(hard) /\ Sorted(hard, Lefts)
      /\ soft \in Seq(Soft) /\ IsInjective(soft) /\ (~stale => Sorted(soft, Lefts))
  BY DEF TimerTypes, ListShape
<1>4. /\ hard' \in Seq(All \ Soft) /\ IsInjective(hard') /\ ToSet(hard') = ToSet(hard) \ {t}
      /\ soft' \in Seq(Soft) /\ IsInjective(soft') /\ ToSet(soft') = ToSet(soft) \ {t}
  BY <1>1, <1>3, UnlinkProperties
<1>5. Sorted(hard', Lefts) /\ (~stale => Sorted(soft', Lefts))
  BY <1>1, <1>3, UnlinkSorted
<1>6. ListShape'
  BY <1>2, <1>4, <1>5 DEF ListShape
<1> QED BY <1>1, <1>2, <1>4, <1>6

-----------------------------------------------------------------------------
(* Timers: the steps that leave the lists and the time alone *)

\* Nothing about the lists changes.
LEMMA ListsKept ==
  ASSUME ListShape, UNCHANGED <<lists, tick, timeout_tick, stale>>
  PROVE  /\ hard' = hard /\ soft' = soft /\ tmp' = tmp /\ Lefts' = Lefts
         /\ Linked' = Linked /\ ListShape'
<1>1. hard' = hard /\ soft' = soft /\ tmp' = tmp
  BY DEF lists
<1>2. Lefts' = Lefts
  BY DEF Lefts, Until
<1> QED BY <1>1, <1>2 DEF Linked, ListShape

\* Numbers that the deadlines are compared with.
LEMMA Numbers ==
  ASSUME TimerInv
  PROVE  /\ \A u \in All : Lefts[u] \in Int
         /\ ToSet(hard) \subseteq All /\ ToSet(soft) \subseteq All
         /\ held \in Nat /\ MaxHeld \in Nat /\ held <= MaxHeld /\ Half \in Nat
         /\ next \in 0 .. Modulus - 1 /\ tick \in 0 .. Modulus - 1
         /\ Until(next) \in Int
<1>1. /\ TimerTypes /\ held \in 0 .. MaxHeld
      /\ next \in 0 .. Modulus - 1 /\ tick \in 0 .. Modulus - 1
  BY DEF TimerInv, TimerTypes
<1>2. MaxHeld \in Nat /\ Half \in Nat
  BY TimerAssumption
<1>3. Until(next) \in Int
  BY <1>1, <1>2, UntilValue
<1>4. ToSet(hard) \subseteq All /\ ToSet(soft) \subseteq All
  BY <1>1, LinkedTypes, TimerSets
<1> QED BY <1>1, <1>2, <1>3, <1>4, LeftsType

\* The first timer of a list is the one that is due first, and the check loops
\* see whether it is due.
LEMMA FirstDue ==
  ASSUME TimerInv, NEW S \in SUBSET All, NEW s \in Seq(S), s # <<>>, Sorted(s, Lefts),
         \A u \in ToSet(s) : Lefts[u] > 0 - Half
  PROVE  /\ Head(s) \in ToSet(s) /\ Head(s) \in All
         /\ \A u \in ToSet(s) : Lefts[Head(s)] <= Lefts[u]
         /\ Expired(s) <=> Lefts[Head(s)] <= 0
<1>1. Head(s) \in ToSet(s) /\ Head(s) \in All
  BY EmptyToSet
<1>2. /\ \A u \in All : Lefts[u] \in Int
      /\ tick \in 0 .. Modulus - 1
  BY Numbers
<1>3. \A u \in ToSet(s) : Lefts[Head(s)] <= Lefts[u]
  BY <1>1, <1>2, TailSorted
<1>4. Lefts[Head(s)] = Until(timeout_tick[Head(s)]) /\ timeout_tick[Head(s)] \in 0 .. Modulus - 1
  BY <1>1, LeftsType DEF TimerInv
<1>5. Minus(tick, timeout_tick[Head(s)]) < Half <=> Lefts[Head(s)] <= 0
  BY <1>1, <1>2, <1>4, UntilExpired
<1> QED BY <1>1, <1>3, <1>5 DEF Expired

\* The same of the two lists.
LEMMA HardFirst ==
  ASSUME TimerInv, hard # <<>>
  PROVE  /\ Head(hard) \in ToSet(hard) /\ Head(hard) \in All
         /\ \A u \in ToSet(hard) : Lefts[Head(hard)] <= Lefts[u]
         /\ Expired(hard) <=> Lefts[Head(hard)] <= 0
<1>1. hard \in Seq(All \ Soft) /\ Sorted(hard, Lefts) /\ All \ Soft \in SUBSET All
  BY TimerSets DEF TimerInv, TimerTypes, ListShape
<1>2. \A u \in ToSet(hard) : Lefts[u] > 0 - Half
  BY Bounds, ModulusValue DEF TimerInv
<1> QED BY <1>1, <1>2, FirstDue

LEMMA SoftFirst ==
  ASSUME TimerInv, ~stale, soft # <<>>
  PROVE  /\ Head(soft) \in ToSet(soft) /\ Head(soft) \in All
         /\ \A u \in ToSet(soft) : Lefts[Head(soft)] <= Lefts[u]
         /\ Expired(soft) <=> Lefts[Head(soft)] <= 0
<1>1. soft \in Seq(Soft) /\ Sorted(soft, Lefts) /\ Soft \in SUBSET All
  BY TimerSets DEF TimerInv, TimerTypes, ListShape
<1>2. \A u \in ToSet(soft) : Lefts[u] > 0 - Half
  BY Bounds DEF TimerInv
<1> QED BY <1>1, <1>2, FirstDue

\* A list that the loop leaves holds only timers that are not due.
LEMMA NothingDue ==
  ASSUME TimerInv
  PROVE  /\ ~Expired(hard) => \A u \in ToSet(hard) : Lefts[u] >= 1
         /\ ~stale /\ ~Expired(soft) => \A u \in ToSet(soft) : Lefts[u] >= 1
<1>1. /\ \A u \in ToSet(hard) : Lefts[u] \in Int
      /\ \A u \in ToSet(soft) : Lefts[u] \in Int
  BY Numbers
<1>2. hard = <<>> => ToSet(hard) = {}
  BY EmptyToSet DEF TimerInv, TimerTypes
<1>3. soft = <<>> => ToSet(soft) = {}
  BY EmptyToSet DEF TimerInv, TimerTypes
<1>4. ~Expired(hard) => \A u \in ToSet(hard) : Lefts[u] >= 1
  BY <1>1, <1>2, HardFirst
<1>5. ~stale /\ ~Expired(soft) => \A u \in ToSet(soft) : Lefts[u] >= 1
  BY <1>1, <1>3, SoftFirst
<1> QED BY <1>4, <1>5

\* An rt_timer_stop that has found its timer active.
LEMMA StopTestStep ==
  ASSUME TimerInv, NEW t \in Timer, StopTest(t)
  PROVE  TimerInv'
<1>1. /\ hard' = hard /\ soft' = soft /\ tmp' = tmp /\ Lefts' = Lefts
      /\ Linked' = Linked /\ ListShape'
  BY ListsKept DEF TimerInv, StopTest, notes
<1>2. TimerTypes'
  BY <1>1, TimerAssumption DEF TimerInv, TimerTypes, StopTest, fields, thread, notes, MayCall
<1>3. Membership'
  BY <1>1, TimerSets DEF TimerInv, TimerTypes, Membership, StopTest, fields, thread, notes, MayCall
<1>4. Callbacks'
  BY <1>1
     DEF TimerInv, TimerTypes, Membership, Callbacks, ThreadSound, StopTest, fields, thread, notes, MayCall
<1>5. ThreadSound'
  BY <1>1 DEF TimerInv, TimerTypes, ThreadSound, Asleep, StopTest, fields, thread, notes, MayCall
<1>6. Deadlines'
  BY <1>1, Numbers DEF TimerInv, Deadlines, Lateness, StopTest, fields, thread, notes, MayCall
<1>7. TowardsSleep'
  BY <1>1, Numbers
     DEF TimerInv, TimerTypes, ThreadSound, TowardsSleep, Until, Asleep, StopTest, fields, thread, notes, MayCall
<1> QED BY <1>1, <1>2, <1>3, <1>4, <1>5, <1>6, <1>7 DEF TimerInv

\* rt_timer_init or rt_timer_create.
LEMMA ReinitStep ==
  ASSUME TimerInv, NEW t \in Timer, NEW n \in Times, NEW kind \in BOOLEAN, Reinit(t, n, kind)
  PROVE  TimerInv'
<1>1. /\ hard' = hard /\ soft' = soft /\ tmp' = tmp /\ Lefts' = Lefts
      /\ Linked' = Linked /\ ListShape'
  BY ListsKept DEF TimerInv, Reinit, notes
<1>2. /\ t \in dead /\ dead' = dead \ {t} /\ init_tick' = [init_tick EXCEPT ![t] = n]
      /\ periodic' = [periodic EXCEPT ![t] = kind] /\ ringing' = ringing /\ active' = active
      /\ mode' = mode /\ at' = at /\ turned' = turned
  BY DEF Reinit, thread, notes
<1>3. TimerTypes' /\ Membership' /\ Callbacks'
  <2>1. init_tick' \in [Timer -> Times] /\ periodic' \in [Timer -> BOOLEAN]
    BY <1>2 DEF TimerInv, TimerTypes
  <2>2. dead' \subseteq Timer /\ stopping \in (Timer \ dead') \cup {NoTimer}
    BY <1>2 DEF TimerInv, TimerTypes
  <2>3. TimerTypes'
    BY <1>1, <2>1, <2>2 DEF TimerInv, TimerTypes, Reinit, thread, notes
  <2>4. Membership'
    BY <1>1, <1>2 DEF TimerInv, Membership
  <2>5. \A u \in tmp : u \in Timer /\ u # t
    BY <1>2 DEF TimerInv, TimerTypes, Membership
  <2>6. \A u \in tmp : periodic'[u] = periodic[u]
    BY <1>2, <2>5 DEF TimerInv, TimerTypes
  <2>7. Callbacks'
    BY <1>1, <1>2, <2>6 DEF TimerInv, Callbacks
  <2> QED BY <2>3, <2>4, <2>7
<1>5. ThreadSound'
  BY <1>1 DEF TimerInv, TimerTypes, ThreadSound, Asleep, Reinit, fields, thread, notes
<1>6. Deadlines'
  BY <1>1, Numbers DEF TimerInv, Deadlines, Lateness, Reinit, fields, thread, notes
<1>7. TowardsSleep'
  BY <1>1, Numbers
     DEF TimerInv, TimerTypes, ThreadSound, TowardsSleep, Until, Asleep, Reinit, fields, thread, notes
<1> QED BY <1>1, <1>3, <1>5, <1>6, <1>7 DEF TimerInv

\* rt_timer_control sets the time.
LEMMA SetTimeStep ==
  ASSUME TimerInv, NEW t \in Timer, NEW n \in Times, SetTime(t, n)
  PROVE  TimerInv'
<1>1. /\ hard' = hard /\ soft' = soft /\ tmp' = tmp /\ Lefts' = Lefts
      /\ Linked' = Linked /\ ListShape'
  BY ListsKept DEF TimerInv, SetTime, notes
<1>2. TimerTypes'
  BY <1>1, TimerAssumption DEF TimerInv, TimerTypes, SetTime, fields, thread, notes, MayCall
<1>3. Membership'
  BY <1>1, TimerSets DEF TimerInv, TimerTypes, Membership, SetTime, fields, thread, notes, MayCall
<1>4. Callbacks'
  BY <1>1
     DEF TimerInv, TimerTypes, Membership, Callbacks, ThreadSound, SetTime, fields, thread, notes, MayCall
<1>5. ThreadSound'
  BY <1>1 DEF TimerInv, TimerTypes, ThreadSound, Asleep, SetTime, fields, thread, notes, MayCall
<1>6. Deadlines'
  BY <1>1, Numbers DEF TimerInv, Deadlines, Lateness, SetTime, fields, thread, notes, MayCall
<1>7. TowardsSleep'
  BY <1>1, Numbers
     DEF TimerInv, TimerTypes, ThreadSound, TowardsSleep, Until, Asleep, SetTime, fields, thread, notes, MayCall
<1> QED BY <1>1, <1>2, <1>3, <1>4, <1>5, <1>6, <1>7 DEF TimerInv

\* rt_timer_control sets the kind.
LEMMA SetPeriodicStep ==
  ASSUME TimerInv, NEW t \in Timer, NEW kind \in BOOLEAN, SetPeriodic(t, kind)
  PROVE  TimerInv'
<1>1. /\ hard' = hard /\ soft' = soft /\ tmp' = tmp /\ Lefts' = Lefts
      /\ Linked' = Linked /\ ListShape'
  BY ListsKept DEF TimerInv, SetPeriodic, notes
<1>2. /\ periodic' = [periodic EXCEPT ![t] = kind]
      /\ turned' = IF t \in tmp /\ active[t] /\ ~kind THEN turned \cup {t} ELSE turned
      /\ ringing' = ringing /\ active' = active /\ dead' = dead /\ mode' = mode /\ at' = at
  BY DEF SetPeriodic, thread
<1>3. TimerTypes' /\ Membership'
  <2>1. periodic' \in [Timer -> BOOLEAN] /\ turned' \subseteq Timer /\ turned \subseteq turned'
    BY <1>2 DEF TimerInv, TimerTypes
  <2>2. TimerTypes'
    BY <1>1, <1>2, <2>1 DEF TimerInv, TimerTypes, SetPeriodic, thread
  <2>3. Membership'
    BY <1>1, <1>2, <2>1 DEF TimerInv, Membership
  <2> QED BY <2>2, <2>3
<1>4. Callbacks'
  <2>1. \A u \in tmp : u \in Timer /\ (active[u] => periodic[u] \/ u \in turned)
    BY DEF TimerInv, TimerTypes, Callbacks
  <2>2. \A u \in Timer : periodic'[u] = IF u = t THEN kind ELSE periodic[u]
    BY <1>2 DEF TimerInv, TimerTypes
  <2>3. \A u \in tmp : active[u] => periodic'[u] \/ u \in turned'
    BY <1>2, <2>1, <2>2
  <2> QED BY <1>1, <1>2, <2>3 DEF TimerInv, Callbacks
<1>5. ThreadSound'
  BY <1>1 DEF TimerInv, TimerTypes, ThreadSound, Asleep, SetPeriodic, fields, thread, notes, MayCall
<1>6. Deadlines'
  BY <1>1, Numbers DEF TimerInv, Deadlines, Lateness, SetPeriodic, fields, thread, notes, MayCall
<1>7. TowardsSleep'
  BY <1>1, Numbers
     DEF TimerInv, TimerTypes, ThreadSound, TowardsSleep, Until, Asleep, SetPeriodic, fields, thread, notes, MayCall
<1> QED BY <1>1, <1>3, <1>4, <1>5, <1>6, <1>7 DEF TimerInv

\* The tick handler returns.
LEMMA HardDoneStep ==
  ASSUME TimerInv, HardDone
  PROVE  TimerInv'
<1>1. /\ hard' = hard /\ soft' = soft /\ tmp' = tmp /\ Lefts' = Lefts
      /\ Linked' = Linked /\ ListShape'
  BY ListsKept DEF TimerInv, HardDone, notes
<1>2. TimerTypes'
  BY <1>1, TimerAssumption DEF TimerInv, TimerTypes, HardDone, fields, thread, notes
<1>3. Membership'
  BY <1>1, TimerSets DEF TimerInv, TimerTypes, Membership, HardDone, fields, thread, notes
<1>4. Callbacks'
  BY <1>1 DEF TimerInv, TimerTypes, Membership, Callbacks, ThreadSound, HardDone, fields, thread, notes
<1>5. ThreadSound'
  BY <1>1 DEF TimerInv, TimerTypes, ThreadSound, Asleep, HardDone, fields, thread, notes
<1>6. Deadlines'
  BY <1>1, Numbers, NothingDue DEF TimerInv, Deadlines, Lateness, HardDone, fields, thread, notes
<1>7. TowardsSleep'
  <2>1. /\ mode' = "open" /\ at' = at /\ stat' = stat /\ waits' = waits /\ held' = held
        /\ next' = next /\ tick' = tick /\ ~Expired(hard) /\ mode = "tick"
        /\ overlooked' = overlooked /\ stale' = stale
    BY DEF HardDone, thread, notes
  <2>2. /\ at = "next" => overlooked = {}
        /\ at = "suspend" => ToSet(soft) \subseteq overlooked
        /\ at = "delay" => next < Half
    BY DEF TimerInv, TowardsSleep
  <2>4. ASSUME ~stale, NEW u \in ToSet(soft) \ overlooked
        PROVE  /\ at = "next" => 1 <= Lefts[u] + held
               /\ at = "tick" => 1 <= Until(next) + held /\ Until(next) <= Lefts[u]
               /\ at = "delay" => next <= Lefts[u] + held /\ 1 <= Lefts[u] + held
               /\ Asleep => /\ Sleep \in ToSet(hard) /\ Lefts[Sleep] <= Lefts[u] + MaxHeld
                            /\ 1 <= Lefts[u] + MaxHeld
    <3>1. Asleep => Sleep \in ToSet(hard) /\ Lefts[Sleep] <= Lefts[u] + MaxHeld
      BY <2>4 DEF TimerInv, TowardsSleep
    <3>2. Sleep \in ToSet(hard) => Lefts[Sleep] >= 1
      BY <2>1, NothingDue
    <3>3. Lefts[Sleep] \in Int /\ Lefts[u] \in Int /\ MaxHeld \in Nat
      BY Numbers, TimerSets
    <3>4. Asleep => 1 <= Lefts[u] + MaxHeld
      BY <3>1, <3>2, <3>3
    <3> QED BY <2>4, <3>1, <3>4 DEF TimerInv, TowardsSleep
  <2> QED BY <1>1, <2>1, <2>2, <2>4 DEF TowardsSleep, Until, Asleep
<1> QED BY <1>1, <1>2, <1>3, <1>4, <1>5, <1>6, <1>7 DEF TimerInv

\* The timer thread looks at its list.
LEMMA NextTimeoutStep ==
  ASSUME TimerInv, NextTimeout
  PROVE  TimerInv'
<1>1. /\ hard' = hard /\ soft' = soft /\ tmp' = tmp /\ Lefts' = Lefts
      /\ Linked' = Linked /\ ListShape'
  BY ListsKept DEF TimerInv, NextTimeout, notes
<1>2. TimerTypes'
  <2>1. soft # <<>> => timeout_tick[Head(soft)] \in 0 .. Modulus - 1
    <3>1. soft # <<>> => Head(soft) \in All
      BY EmptyToSet, LinkedTypes, TimerSets DEF TimerInv, TimerTypes
    <3> QED BY <3>1 DEF TimerInv, TimerTypes
  <2> QED BY <1>1, <2>1 DEF TimerInv, TimerTypes, NextTimeout, fields, thread, notes, ThreadAt
<1>3. Membership'
  BY <1>1, TimerSets DEF TimerInv, TimerTypes, Membership, NextTimeout, fields, thread, notes, ThreadAt
<1>4. Callbacks'
  BY <1>1
     DEF TimerInv, TimerTypes, Membership, Callbacks, ThreadSound, NextTimeout, fields, thread, notes, ThreadAt
<1>5. ThreadSound'
  BY <1>1 DEF TimerInv, TimerTypes, ThreadSound, Asleep, NextTimeout, fields, thread, notes, ThreadAt
<1>6. Deadlines'
  BY <1>1, Numbers DEF TimerInv, Deadlines, Lateness, NextTimeout, fields, thread, notes, ThreadAt
<1>7. TowardsSleep'
  <2>1. /\ mode' = mode /\ stat' = stat /\ waits' = waits /\ held' = held /\ tick' = tick
        /\ stat = "ready" /\ at = "next" /\ overlooked' = overlooked /\ stale' = stale
        /\ IF soft = <<>> THEN at' = "suspend" ELSE at' = "tick" /\ next' = timeout_tick[Head(soft)]
    BY DEF NextTimeout, ThreadAt, notes
  <2>2. CASE soft = <<>>
    <3>1. ToSet(soft) = {} /\ at' = "suspend"
      BY <2>1, <2>2, EmptyToSet DEF TimerInv, TimerTypes
    <3> QED BY <1>1, <2>2, <3>1 DEF TowardsSleep
  <2>3. CASE soft # <<>>
    <3>0. Head(soft) \in ToSet(soft) /\ overlooked = {}
      BY <2>1, <2>3, EmptyToSet DEF TimerInv, TimerTypes, TowardsSleep
    <3>1. ~stale => \A u \in ToSet(soft) : Lefts[Head(soft)] <= Lefts[u]
      BY <2>3, SoftFirst
    <3>2. ~stale => 1 <= Lefts[Head(soft)] + held
      BY <2>1, <3>0 DEF TimerInv, TowardsSleep
    <3>3. Until(next)' = Lefts[Head(soft)]
      BY <2>1, <2>3, <3>0, LeftsType, Numbers DEF TimerInv, Until
    <3>4. at' = "tick" /\ ~Asleep'
      BY <2>1, <2>3 DEF Asleep
    <3> QED BY <1>1, <2>1, <3>1, <3>2, <3>3, <3>4 DEF TowardsSleep
  <2> QED BY <2>2, <2>3
<1> QED BY <1>1, <1>2, <1>3, <1>4, <1>5, <1>6, <1>7 DEF TimerInv

\* The timer thread suspends itself without a limit.
LEMMA SuspendSelfStep ==
  ASSUME TimerInv, SuspendSelf
  PROVE  TimerInv'
<1>1. /\ hard' = hard /\ soft' = soft /\ tmp' = tmp /\ Lefts' = Lefts
      /\ Linked' = Linked /\ ListShape'
  BY ListsKept DEF TimerInv, SuspendSelf, notes
<1>2. TimerTypes'
  BY <1>1, TimerAssumption DEF TimerInv, TimerTypes, SuspendSelf, fields, thread, notes, ThreadAt
<1>3. Membership'
  BY <1>1, TimerSets DEF TimerInv, TimerTypes, Membership, SuspendSelf, fields, thread, notes, ThreadAt
<1>4. Callbacks'
  BY <1>1
     DEF TimerInv, TimerTypes, Membership, Callbacks, ThreadSound, SuspendSelf, fields, thread, notes, ThreadAt
<1>5. ThreadSound'
  BY <1>1 DEF TimerInv, TimerTypes, ThreadSound, Asleep, SuspendSelf, fields, thread, notes, ThreadAt
<1>6. Deadlines' /\ TowardsSleep'
  <2>1. ToSet(soft) \subseteq overlooked /\ mode' = mode /\ at' = "asleep" /\ UNCHANGED notes
    BY DEF TimerInv, TowardsSleep, SuspendSelf, ThreadAt
  <2>2. \A u \in ToSet(soft) : Lateness(u)' = Lateness(u)
    BY <2>1 DEF Lateness, notes
  <2>3. Deadlines'
    BY <1>1, <2>1, <2>2 DEF TimerInv, Deadlines, notes
  <2>4. TowardsSleep'
    BY <1>1, <2>1 DEF TowardsSleep, notes
  <2> QED BY <2>3, <2>4
<1> QED BY <1>1, <1>2, <1>3, <1>4, <1>5, <1>6 DEF TimerInv

\* The timer thread computes how long it sleeps.
LEMMA GetDeltaStep ==
  ASSUME TimerInv, GetDelta
  PROVE  TimerInv'
<1>1. /\ hard' = hard /\ soft' = soft /\ tmp' = tmp /\ Lefts' = Lefts
      /\ Linked' = Linked /\ ListShape'
  BY ListsKept DEF TimerInv, GetDelta, notes
<1>2. TimerTypes'
  <2>1. Minus(next, tick) \in 0 .. Modulus - 1 /\ 0 \in 0 .. Modulus - 1
    BY MinusValue, ModulusValue, Numbers
  <2> QED BY <1>1, <2>1 DEF TimerInv, TimerTypes, GetDelta, fields, thread, notes, ThreadAt
<1>3. Membership'
  BY <1>1, TimerSets DEF TimerInv, TimerTypes, Membership, GetDelta, fields, thread, notes, ThreadAt
<1>4. Callbacks'
  BY <1>1
     DEF TimerInv, TimerTypes, Membership, Callbacks, ThreadSound, GetDelta, fields, thread, notes, ThreadAt
<1>5. ThreadSound'
  BY <1>1 DEF TimerInv, TimerTypes, ThreadSound, Asleep, GetDelta, fields, thread, notes, ThreadAt
<1>6. Deadlines'
  BY <1>1, Numbers DEF TimerInv, Deadlines, Lateness, GetDelta, fields, thread, notes, ThreadAt
<1>7. TowardsSleep'
  <2>1. /\ stat' = stat /\ held' = held /\ tick' = tick /\ stat = "ready" /\ at = "tick"
        /\ overlooked' = overlooked /\ stale' = stale
        /\ \/ Minus(next, tick) < Half /\ at' = "delay" /\ next' = Minus(next, tick)
           \/ at' = "check"
    BY DEF GetDelta, ThreadAt, notes
  <2>2. ~Asleep'
    BY <2>1 DEF Asleep
  <2>3. CASE at' = "check"
    BY <2>2, <2>3 DEF TowardsSleep
  <2>4. CASE Minus(next, tick) < Half /\ at' = "delay" /\ next' = Minus(next, tick)
    <3>1. next' = Until(next) /\ next' < Half
      BY <2>4 DEF Until, Signed
    <3>2. ~stale => \A u \in ToSet(soft) \ overlooked : 1 <= Until(next) + held /\ Until(next) <= Lefts[u]
      BY <2>1 DEF TimerInv, TowardsSleep
    <3>3. \A u \in ToSet(soft) : Lefts[u] \in Int /\ Until(next) \in Int /\ held \in Nat
      BY Numbers
    <3>4. ~stale => \A u \in ToSet(soft) \ overlooked : next' <= Lefts[u] + held /\ 1 <= Lefts[u] + held
      BY <3>1, <3>2, <3>3
    <3> QED BY <1>1, <2>1, <2>2, <2>4, <3>1, <3>4 DEF TowardsSleep
  <2> QED BY <2>1, <2>3, <2>4
<1> QED BY <1>1, <1>2, <1>3, <1>4, <1>5, <1>6, <1>7 DEF TimerInv

\* The timer thread goes on after its sleep.
LEMMA WakeUpStep ==
  ASSUME TimerInv, WakeUp
  PROVE  TimerInv'
<1>1. /\ hard' = hard /\ soft' = soft /\ tmp' = tmp /\ Lefts' = Lefts
      /\ Linked' = Linked /\ ListShape'
  BY ListsKept DEF TimerInv, WakeUp, notes
<1>2. TimerTypes'
  BY <1>1, TimerAssumption DEF TimerInv, TimerTypes, WakeUp, fields, thread, notes, ThreadAt
<1>3. Membership'
  BY <1>1, TimerSets DEF TimerInv, TimerTypes, Membership, WakeUp, fields, thread, notes, ThreadAt
<1>4. Callbacks'
  BY <1>1
     DEF TimerInv, TimerTypes, Membership, Callbacks, ThreadSound, WakeUp, fields, thread, notes, ThreadAt
<1>5. ThreadSound'
  BY <1>1 DEF TimerInv, TimerTypes, ThreadSound, Asleep, WakeUp, fields, thread, notes, ThreadAt
<1>6. Deadlines'
  BY <1>1, Numbers DEF TimerInv, Deadlines, Lateness, WakeUp, fields, thread, notes, ThreadAt
<1>7. TowardsSleep'
  BY <1>1, Numbers
     DEF TimerInv, TimerTypes, ThreadSound, TowardsSleep, Until, Asleep, WakeUp, fields, thread, notes, ThreadAt
<1> QED BY <1>1, <1>2, <1>3, <1>4, <1>5, <1>6, <1>7 DEF TimerInv

\* The timer thread leaves its loop.
LEMMA SoftDoneStep ==
  ASSUME TimerInv, SoftDone
  PROVE  TimerInv'
<1>1. /\ hard' = hard /\ soft' = soft /\ tmp' = tmp /\ Lefts' = Lefts
      /\ Linked' = Linked /\ ListShape'
  BY ListsKept DEF TimerInv, SoftDone, notes
<1>2. TimerTypes'
  BY <1>1, TimerAssumption DEF TimerInv, TimerTypes, SoftDone, fields, thread, notes, CheckAt
<1>3. Membership'
  BY <1>1, TimerSets DEF TimerInv, TimerTypes, Membership, SoftDone, fields, thread, notes, CheckAt
<1>4. Callbacks'
  BY <1>1
     DEF TimerInv, TimerTypes, Membership, Callbacks, ThreadSound, SoftDone, fields, thread, notes, CheckAt
<1>5. ThreadSound'
  BY <1>1 DEF TimerInv, TimerTypes, ThreadSound, Asleep, SoftDone, fields, thread, notes, CheckAt
<1>6. Deadlines'
  <2>1. /\ mode \in {"open", "soft"} /\ mode' = "open" /\ ~Expired(soft) /\ stale' = stale
        /\ held' = held /\ overlooked' = {}
    BY DEF SoftDone, CheckAt
  <2>2. ~stale => \A u \in ToSet(soft) : Lefts[u] \in Int /\ Lefts[u] >= 1
    BY <2>1, NothingDue, Numbers
  <2>3. \A u \in ToSet(soft) : Lateness(u)' \in Nat
    BY <2>1, Numbers DEF Lateness
  <2>4. ~stale => \A u \in ToSet(soft) : Lefts[u] >= 0 - Lateness(u)'
    BY <2>2, <2>3
  <2> QED BY <1>1, <2>1, <2>4 DEF TimerInv, Deadlines
<1>7. TowardsSleep'
  <2>1. /\ stat' = stat /\ held' = held /\ stat = "ready" /\ at' = "next" /\ ~Expired(soft)
        /\ overlooked' = {} /\ stale' = stale
    BY DEF SoftDone, CheckAt
  <2>2. ~Asleep'
    BY <2>1 DEF Asleep
  <2>3. ~stale => \A u \in ToSet(soft) : Lefts[u] \in Int /\ Lefts[u] >= 1 /\ held \in Nat
    BY <2>1, NothingDue, Numbers
  <2>4. ~stale => \A u \in ToSet(soft) : 1 <= Lefts[u] + held
    BY <2>3
  <2> QED BY <1>1, <2>1, <2>2, <2>4 DEF TowardsSleep
<1> QED BY <1>1, <1>2, <1>3, <1>4, <1>5, <1>6, <1>7 DEF TimerInv

\* A soft callback waits.
LEMMA CallbackWaitStep ==
  ASSUME TimerInv, CallbackWait
  PROVE  TimerInv'
<1>1. /\ hard' = hard /\ soft' = soft /\ tmp' = tmp /\ Lefts' = Lefts
      /\ Linked' = Linked /\ ListShape'
  BY ListsKept DEF TimerInv, CallbackWait, notes
<1>2. TimerTypes'
  BY <1>1, TimerAssumption DEF TimerInv, TimerTypes, CallbackWait, fields, thread, notes, ThreadAt
<1>3. Membership'
  BY <1>1, TimerSets
     DEF TimerInv, TimerTypes, Membership, CallbackWait, fields, thread, notes, ThreadAt
<1>4. Callbacks'
  BY <1>1
     DEF TimerInv, TimerTypes, Membership, Callbacks, ThreadSound, CallbackWait, fields, thread, notes, ThreadAt
<1>5. ThreadSound'
  BY <1>1 DEF TimerInv, TimerTypes, ThreadSound, Asleep, CallbackWait, fields, thread, notes, ThreadAt
<1>6. Deadlines'
  BY <1>1, Numbers DEF TimerInv, Deadlines, Lateness, CallbackWait, fields, thread, notes, ThreadAt
<1>7. TowardsSleep'
  BY <1>1, Numbers
     DEF TimerInv, TimerTypes, ThreadSound, TowardsSleep, Until, Asleep, CallbackWait, fields, thread, notes, ThreadAt
<1> QED BY <1>1, <1>2, <1>3, <1>4, <1>5, <1>6, <1>7 DEF TimerInv

\* What a soft callback waits for happens.
LEMMA CallbackWokenStep ==
  ASSUME TimerInv, CallbackWoken
  PROVE  TimerInv'
<1>1. /\ hard' = hard /\ soft' = soft /\ tmp' = tmp /\ Lefts' = Lefts
      /\ Linked' = Linked /\ ListShape'
  BY ListsKept DEF TimerInv, CallbackWoken, notes
<1>2. TimerTypes'
  BY <1>1, TimerAssumption DEF TimerInv, TimerTypes, CallbackWoken, fields, thread, notes
<1>3. Membership'
  BY <1>1, TimerSets DEF TimerInv, TimerTypes, Membership, CallbackWoken, fields, thread, notes
<1>4. Callbacks'
  BY <1>1
     DEF TimerInv, TimerTypes, Membership, Callbacks, ThreadSound, CallbackWoken, fields, thread, notes
<1>5. ThreadSound'
  BY <1>1 DEF TimerInv, TimerTypes, ThreadSound, Asleep, CallbackWoken, fields, thread, notes
<1>6. Deadlines'
  BY <1>1, Numbers DEF TimerInv, Deadlines, Lateness, CallbackWoken, fields, thread, notes
<1>7. TowardsSleep'
  BY <1>1, Numbers
     DEF TimerInv, TimerTypes, ThreadSound, TowardsSleep, Until, Asleep, CallbackWoken, fields, thread, notes
<1> QED BY <1>1, <1>2, <1>3, <1>4, <1>5, <1>6, <1>7 DEF TimerInv

-----------------------------------------------------------------------------
(* Timers: the steps that unlink a timer *)

\* rt_timer_stop removes the timer.
LEMMA StopEndStep ==
  ASSUME TimerInv, StopEnd
  PROVE  TimerInv'
<1>0. stopping \in Timer /\ stopping # Sleep
  BY TimerSets DEF TimerInv, TimerTypes, StopEnd
<1>1. /\ hard' \in Seq(All \ Soft) /\ soft' \in Seq(Soft)
      /\ ListShape' /\ Lefts' = Lefts
      /\ ToSet(hard)' = ToSet(hard) \ {stopping} /\ ToSet(soft)' = ToSet(soft) \ {stopping}
      /\ tmp' = tmp \ {stopping} /\ active' = [active EXCEPT ![stopping] = FALSE]
      /\ turned' = turned \ {stopping}
  BY <1>0, Removed DEF TimerInv, StopEnd
<1>2. TimerTypes'
  BY <1>0, <1>1 DEF TimerInv, TimerTypes, StopEnd, fields, thread, notes
<1>3. Membership'
  <2>1. /\ tmp \subseteq {ringing[FALSE], ringing[TRUE]} \ Linked /\ tmp \cap dead = {}
        /\ \A u \in Linked : active[u] /\ u \notin dead
        /\ \A u \in All : active[u] => u \in Linked \cup tmp \cup turned
    BY DEF TimerInv, Membership
  <2>2. Linked' = Linked \ {stopping} /\ tmp' = tmp \ {stopping} /\ Linked \subseteq All
    BY <1>1, Numbers DEF Linked
  <2>3. ringing' = ringing /\ dead' \subseteq dead \cup {stopping}
    BY DEF StopEnd
  <2>4. \A u \in All : u # stopping => active'[u] = active[u]
    BY <1>1 DEF TimerInv, TimerTypes
  <2>5. ~active'[stopping]
    BY <1>0, <1>1, TimerSets DEF TimerInv, TimerTypes
  <2>6. \A u \in Linked' : active'[u] /\ u \notin dead'
    BY <2>1, <2>2, <2>3, <2>4
  <2>7. \A u \in All : active'[u] => u \in Linked' \cup tmp' \cup turned'
    BY <1>1, <2>1, <2>2, <2>4, <2>5
  <2>8. tmp' \subseteq {ringing'[FALSE], ringing'[TRUE]} \ Linked' /\ tmp' \cap dead' = {}
    BY <2>1, <2>2, <2>3
  <2> QED BY <2>6, <2>7, <2>8 DEF Membership
<1>4. Callbacks'
  BY <1>0, <1>1, TimerSets DEF TimerInv, TimerTypes, Callbacks, StopEnd, fields, thread, notes
<1>5. ThreadSound'
  BY <1>0, <1>1 DEF TimerInv, ThreadSound, Asleep, StopEnd, fields, thread, notes
<1>6. Deadlines'
  BY <1>1 DEF TimerInv, Deadlines, Lateness, StopEnd, fields, thread, notes
<1>7. TowardsSleep'
  BY <1>0, <1>1 DEF TimerInv, TowardsSleep, Until, Asleep, StopEnd, fields, thread, notes
<1> QED BY <1>1, <1>2, <1>3, <1>4, <1>5, <1>6, <1>7 DEF TimerInv

\* rt_timer_stop by a caller that has interrupts disabled.
LEMMA StopMaskedStep ==
  ASSUME TimerInv, NEW t \in Timer, StopMasked(t)
  PROVE  TimerInv'
<1>0. t \in Timer /\ t # Sleep
  BY TimerSets DEF TimerInv, TimerTypes, StopMasked
<1>1. /\ hard' \in Seq(All \ Soft) /\ soft' \in Seq(Soft)
      /\ ListShape' /\ Lefts' = Lefts
      /\ ToSet(hard)' = ToSet(hard) \ {t} /\ ToSet(soft)' = ToSet(soft) \ {t}
      /\ tmp' = tmp \ {t} /\ active' = [active EXCEPT ![t] = FALSE]
      /\ turned' = turned \ {t}
  BY <1>0, Removed DEF TimerInv, StopMasked
<1>2. TimerTypes'
  BY <1>0, <1>1 DEF TimerInv, TimerTypes, StopMasked, fields, thread, notes, MayCall
<1>3. Membership'
  <2>1. /\ tmp \subseteq {ringing[FALSE], ringing[TRUE]} \ Linked /\ tmp \cap dead = {}
        /\ \A u \in Linked : active[u] /\ u \notin dead
        /\ \A u \in All : active[u] => u \in Linked \cup tmp \cup turned
    BY DEF TimerInv, Membership
  <2>2. Linked' = Linked \ {t} /\ tmp' = tmp \ {t} /\ Linked \subseteq All
    BY <1>1, Numbers DEF Linked
  <2>3. ringing' = ringing /\ dead' \subseteq dead \cup {t}
    BY DEF StopMasked
  <2>4. \A u \in All : u # t => active'[u] = active[u]
    BY <1>1 DEF TimerInv, TimerTypes
  <2>5. ~active'[t]
    BY <1>0, <1>1, TimerSets DEF TimerInv, TimerTypes
  <2>6. \A u \in Linked' : active'[u] /\ u \notin dead'
    BY <2>1, <2>2, <2>3, <2>4
  <2>7. \A u \in All : active'[u] => u \in Linked' \cup tmp' \cup turned'
    BY <1>1, <2>1, <2>2, <2>4, <2>5
  <2>8. tmp' \subseteq {ringing'[FALSE], ringing'[TRUE]} \ Linked' /\ tmp' \cap dead' = {}
    BY <2>1, <2>2, <2>3
  <2> QED BY <2>6, <2>7, <2>8 DEF Membership
<1>4. Callbacks'
  BY <1>0, <1>1, TimerSets
     DEF TimerInv, TimerTypes, Callbacks, StopMasked, fields, thread, notes, MayCall
<1>5. ThreadSound'
  BY <1>0, <1>1 DEF TimerInv, ThreadSound, Asleep, StopMasked, fields, thread, notes, MayCall
<1>6. Deadlines'
  BY <1>1 DEF TimerInv, Deadlines, Lateness, StopMasked, fields, thread, notes, MayCall
<1>7. TowardsSleep'
  BY <1>0, <1>1 DEF TimerInv, TowardsSleep, Until, Asleep, StopMasked, fields, thread, notes, MayCall
<1> QED BY <1>1, <1>2, <1>3, <1>4, <1>5, <1>6, <1>7 DEF TimerInv

\* rt_timer_detach and rt_timer_delete.
LEMMA DetachStep ==
  ASSUME TimerInv, NEW t \in Timer, Detach(t)
  PROVE  TimerInv'
<1>0. t \in Timer /\ t # Sleep
  BY TimerSets DEF TimerInv, TimerTypes, Detach
<1>1. /\ hard' \in Seq(All \ Soft) /\ soft' \in Seq(Soft)
      /\ ListShape' /\ Lefts' = Lefts
      /\ ToSet(hard)' = ToSet(hard) \ {t} /\ ToSet(soft)' = ToSet(soft) \ {t}
      /\ tmp' = tmp \ {t} /\ active' = [active EXCEPT ![t] = FALSE]
      /\ turned' = turned \ {t}
  BY <1>0, Removed DEF TimerInv, Detach
<1>2. TimerTypes'
  BY <1>0, <1>1 DEF TimerInv, TimerTypes, Detach, fields, thread, notes, MayCall
<1>3. Membership'
  <2>1. /\ tmp \subseteq {ringing[FALSE], ringing[TRUE]} \ Linked /\ tmp \cap dead = {}
        /\ \A u \in Linked : active[u] /\ u \notin dead
        /\ \A u \in All : active[u] => u \in Linked \cup tmp \cup turned
    BY DEF TimerInv, Membership
  <2>2. Linked' = Linked \ {t} /\ tmp' = tmp \ {t} /\ Linked \subseteq All
    BY <1>1, Numbers DEF Linked
  <2>3. ringing' = ringing /\ dead' \subseteq dead \cup {t}
    BY DEF Detach
  <2>4. \A u \in All : u # t => active'[u] = active[u]
    BY <1>1 DEF TimerInv, TimerTypes
  <2>5. ~active'[t]
    BY <1>0, <1>1, TimerSets DEF TimerInv, TimerTypes
  <2>6. \A u \in Linked' : active'[u] /\ u \notin dead'
    BY <2>1, <2>2, <2>3, <2>4
  <2>7. \A u \in All : active'[u] => u \in Linked' \cup tmp' \cup turned'
    BY <1>1, <2>1, <2>2, <2>4, <2>5
  <2>8. tmp' \subseteq {ringing'[FALSE], ringing'[TRUE]} \ Linked' /\ tmp' \cap dead' = {}
    BY <2>1, <2>2, <2>3
  <2> QED BY <2>6, <2>7, <2>8 DEF Membership
<1>4. Callbacks'
  BY <1>0, <1>1, TimerSets DEF TimerInv, TimerTypes, Callbacks, Detach, fields, thread, notes, MayCall
<1>5. ThreadSound'
  BY <1>0, <1>1 DEF TimerInv, ThreadSound, Asleep, Detach, fields, thread, notes, MayCall
<1>6. Deadlines'
  BY <1>1 DEF TimerInv, Deadlines, Lateness, Detach, fields, thread, notes, MayCall
<1>7. TowardsSleep'
  BY <1>0, <1>1 DEF TimerInv, TowardsSleep, Until, Asleep, Detach, fields, thread, notes, MayCall
<1> QED BY <1>1, <1>2, <1>3, <1>4, <1>5, <1>6, <1>7 DEF TimerInv

-----------------------------------------------------------------------------
(* Timers: the steps that link a timer *)

\* The other effects of rt_timer_start.
LEMMA StartedFlags ==
  ASSUME TimerTypes, NEW t \in Timer, rt_timer_start(t)
  PROVE  /\ active' \in [All -> BOOLEAN]
         /\ \A u \in All : active'[u] = IF u = t THEN TRUE
                                        ELSE IF u = Sleep THEN active[Sleep] /\ ~Resumes(t) ELSE active[u]
         /\ ~Resumes(t) => \A u \in All \ {t} : active'[u] = active[u]
         /\ tmp' = tmp \ {t}
         /\ stat' = IF Resumes(t) THEN "ready" ELSE stat
         /\ overlooked' \subseteq Soft /\ turned' = turned \ {t}
         /\ t \in overlooked' <=> t \in Soft /\ GoingToSleep
         /\ \A u \in All \ {t} : u \in overlooked' <=> u \in overlooked
<1>1. /\ active' = [active EXCEPT ![t] = TRUE, ![Sleep] = @ /\ ~Resumes(t)]
      /\ tmp' = tmp \ {t} /\ stat' = IF Resumes(t) THEN "ready" ELSE stat
      /\ turned' = turned \ {t}
      /\ overlooked' = IF t \in Soft /\ GoingToSleep THEN overlooked \cup {t} ELSE overlooked \ {t}
  BY DEF rt_timer_start
<1>2. active \in [All -> BOOLEAN] /\ t \in All /\ Sleep \in All /\ t # Sleep
  BY TimerSets DEF TimerTypes
<1> DEFINE b == active[Sleep] /\ ~Resumes(t)
<1>3. ~Resumes(t) => b = active[Sleep]
  <2>1. active[Sleep] \in BOOLEAN
    BY <1>2
  <2> QED BY <2>1, Zenon
<1>4. active' = [[active EXCEPT ![t] = TRUE] EXCEPT ![Sleep] = b]
  BY <1>1, <1>2
<1>5. b \in BOOLEAN
  OBVIOUS
<1> HIDE DEF b
<1>6. /\ active' \in [All -> BOOLEAN]
      /\ \A u \in All : active'[u] = IF u = t THEN TRUE ELSE IF u = Sleep THEN b ELSE active[u]
  BY <1>2, <1>4, <1>5
<1>7. ~Resumes(t) => \A u \in All \ {t} : active'[u] = active[u]
  BY <1>3, <1>6
<1>8. /\ overlooked' \subseteq Soft
      /\ t \in overlooked' <=> t \in Soft /\ GoingToSleep
      /\ \A u \in All \ {t} : u \in overlooked' <=> u \in overlooked
  BY <1>1 DEF TimerTypes
<1> QED BY <1>1, <1>6, <1>7, <1>8 DEF b

\* rt_timer_start by the application.
LEMMA StartStep ==
  ASSUME TimerInv, NEW t \in Timer, Start(t)
  PROVE  TimerInv'
<1>0. /\ rt_timer_start(t) /\ tick' = tick /\ t \notin dead /\ mode \in {"open", "call"}
      /\ mode' = mode /\ ringing' = ringing /\ init_tick' = init_tick /\ periodic' = periodic
      /\ dead' = dead /\ stopping' = stopping
      /\ status' = status /\ at' = at /\ next' = next /\ waits' = waits /\ held' = held
      /\ stale' = stale
  BY DEF Start, MayCall, fields
<1>1. /\ hard' \in Seq(All \ Soft) /\ soft' \in Seq(Soft)
      /\ timeout_tick' \in [All -> 0 .. Modulus - 1]
      /\ ListShape'
      /\ Lefts' = [Lefts EXCEPT ![t] = init_tick[t]]
      /\ ToSet(hard)' = IF t \notin Soft THEN ToSet(hard) \cup {t}
                        ELSE IF Resumes(t) THEN ToSet(hard) \ {Sleep} ELSE ToSet(hard)
      /\ ToSet(soft)' = IF t \in Soft THEN ToSet(soft) \cup {t} ELSE ToSet(soft)
  BY <1>0, Started DEF TimerInv
<1>2. /\ active' \in [All -> BOOLEAN]
      /\ \A u \in All : active'[u] = IF u = t THEN TRUE
                                     ELSE IF u = Sleep THEN active[Sleep] /\ ~Resumes(t) ELSE active[u]
      /\ tmp' = tmp \ {t}
      /\ stat' = IF Resumes(t) THEN "ready" ELSE stat
      /\ overlooked' \subseteq Soft /\ turned' = turned \ {t}
      /\ t \in overlooked' <=> t \in Soft /\ GoingToSleep
      /\ \A u \in All \ {t} : u \in overlooked' <=> u \in overlooked
  BY <1>0, StartedFlags DEF TimerInv
<1>3. t # Sleep /\ t \in All /\ Sleep \in All /\ Sleep \notin Soft /\ Sleep \notin Timer
  BY TimerSets
<1>4. /\ \A u \in All \ {t} : Lefts'[u] = Lefts[u]
      /\ Lefts'[t] = init_tick[t]
      /\ init_tick[t] \in Int /\ init_tick[t] >= 1
  <2>1. Lefts \in [All -> Int]
    BY LeftsType DEF TimerInv
  <2>2. init_tick[t] \in Times
    BY DEF TimerInv, TimerTypes
  <2>3. init_tick[t] \in 1 .. Half - 1 /\ Half \in Nat
    BY <2>2, Bounds DEF TimerInv
  <2> QED BY <1>1, <1>3, <2>1, <2>3
<1>5. ToSet(hard) \subseteq All \ Soft /\ ToSet(soft) \subseteq Soft /\ Soft \subseteq Timer /\ tmp \subseteq Timer
  BY LinkedTypes, TimerSets DEF TimerInv, TimerTypes
<1>6. TimerTypes'
  BY <1>0, <1>1, <1>2 DEF TimerInv, TimerTypes
<1>7. Membership'
  <2>1. /\ tmp \subseteq {ringing[FALSE], ringing[TRUE]} /\ tmp \cap (ToSet(hard) \cup ToSet(soft)) = {}
        /\ tmp \cap dead = {}
        /\ \A u \in ToSet(hard) \cup ToSet(soft) : active[u] /\ u \notin dead
        /\ \A u \in All : active[u] => u \in ToSet(hard) \cup ToSet(soft) \cup tmp \cup turned
    BY DEF TimerInv, Membership, Linked
  <2>2. Linked' \subseteq ToSet(hard) \cup ToSet(soft) \cup {t}
    BY <1>1 DEF Linked
  <2>3. Sleep \in Linked' => ~Resumes(t)
    BY <1>1, <1>3, <1>5 DEF Linked, Resumes
  <2>4. t \in Linked' /\ \A u \in ToSet(hard) \cup ToSet(soft) : (u = Sleep /\ Resumes(t)) \/ u \in Linked'
    BY <1>1 DEF Linked
  <2>5. \A u \in Linked' : active'[u] /\ u \notin dead'
    <3> SUFFICES ASSUME NEW u \in Linked' PROVE active'[u] /\ u \notin dead'
      OBVIOUS
    <3>1. u \in All /\ (u = Sleep => ~Resumes(t))
      BY <1>3, <1>5, <2>2, <2>3, TimerSets
    <3>2. CASE u = t
      BY <3>1, <3>2, <1>0, <1>2
    <3>3. CASE u # t
      <4>1. active[u] /\ u \notin dead
        BY <3>3, <2>1, <2>2
      <4>2. active'[u]
        BY <3>1, <3>3, <4>1, <1>2
      <4> QED BY <4>1, <4>2, <1>0
    <3> QED BY <3>2, <3>3
  <2>6. \A u \in All : active'[u] => u \in Linked' \cup tmp' \cup turned'
    BY <1>2, <2>1, <2>4
  <2>7. tmp' \subseteq {ringing'[FALSE], ringing'[TRUE]} \ Linked' /\ tmp' \cap dead' = {}
    BY <1>0, <1>2, <2>1, <2>2
  <2> QED BY <2>5, <2>6, <2>7 DEF Membership
<1>8. Callbacks'
  <2>1. \A u \in tmp' : u \in tmp /\ u \in All /\ u # t /\ u # Sleep
    BY <1>2, <1>3, <1>5, TimerSets
  <2>2. \A u \in tmp' : active'[u] = active[u]
    BY <1>2, <2>1
  <2> QED BY <1>0, <1>2, <2>1, <2>2 DEF TimerInv, Callbacks
<1>9. ThreadSound'
  <2>1. /\ status = "BUSY" <=> at = "call"
        /\ waits => stat = "suspend" /\ at = "call"
        /\ stat = "suspend" => waits \/ at = "asleep"
        /\ mode = "soft" => stat = "ready" /\ at = "check"
        /\ stat = "suspend" /\ ~waits => held = 0
        /\ Sleep \in ToSet(hard) => stat = "suspend" /\ ~waits
    BY DEF TimerInv, ThreadSound, Asleep
  <2>2. Sleep \in ToSet(hard)' => Sleep \in ToSet(hard) /\ ~Resumes(t)
    BY <1>1, <1>3 DEF Resumes
  <2> QED BY <1>0, <1>2, <2>1, <2>2 DEF ThreadSound, Asleep, Resumes
<1>10. Deadlines'
  <2>1. ASSUME NEW u \in ToSet(hard)'
        PROVE  Lefts'[u] >= (IF mode' \in {"open", "soft"} THEN 1 ELSE 0) - (IF u = Sleep THEN 1 ELSE 0)
    <3>1. CASE u = t
      BY <3>1, <1>4
    <3>2. CASE u # t
      <4>1. u \in ToSet(hard) /\ Lefts'[u] = Lefts[u]
        BY <3>2, <1>1, <1>4, <1>5
      <4> QED BY <4>1, <1>0 DEF TimerInv, Deadlines, Lateness
    <3> QED BY <3>1, <3>2
  <2>2. ASSUME ~stale, NEW u \in ToSet(soft)' PROVE Lefts'[u] >= 0 - Lateness(u)'
    <3>1. CASE u = t
      <4>1. Lateness(u)' \in Nat
        BY <1>0, Numbers DEF Lateness
      <4> QED BY <3>1, <4>1, <1>4
    <3>2. CASE u # t
      <4>1. u \in ToSet(soft) /\ Lefts'[u] = Lefts[u] /\ u \in All \ {t}
        BY <3>2, <1>1, <1>4, <1>5, TimerSets
      <4>2. Lateness(u)' = Lateness(u)
        BY <4>1, <1>0, <1>2 DEF Lateness
      <4> QED BY <4>1, <4>2, <2>2 DEF TimerInv, Deadlines
    <3> QED BY <3>1, <3>2
  <2> QED BY <1>0, <2>1, <2>2 DEF Deadlines
<1>11. TowardsSleep'
  <2>3. at \in {"suspend", "tick", "delay"} /\ t \in Soft => t \in overlooked'
    BY <1>0, <1>2 DEF TimerInv, TimerTypes, ThreadSound, GoingToSleep
  <2>1. /\ at = "next" => overlooked' = {}
        /\ at = "suspend" => ToSet(soft)' \subseteq overlooked'
        /\ at = "delay" => next < Half
    <3>1. /\ at = "next" => overlooked = {}
          /\ at = "suspend" => ToSet(soft) \subseteq overlooked
          /\ at = "delay" => next < Half
      BY DEF TimerInv, TowardsSleep
    <3>2. at = "next" => ~GoingToSleep
      BY DEF GoingToSleep
    <3>3. at = "suspend" /\ t \in Soft => t \in overlooked'
      BY <1>2, <1>5, <2>3
    <3>4. overlooked' \subseteq Timer /\ Timer \subseteq All
      BY <1>2, <1>5, TimerSets
    <3>5. at = "next" => overlooked' = {}
      BY <1>2, <3>1, <3>2, <3>4
    <3>6. at = "suspend" => ToSet(soft)' \subseteq overlooked'
      BY <1>1, <1>2, <1>5, <3>1, <3>3, <3>4
    <3> QED BY <3>1, <3>5, <3>6
  <2>2. Asleep' => Asleep /\ ~Resumes(t) /\ t \notin Soft
    <3>1. Asleep => status = "IDLE" /\ stat = "suspend"
      BY DEF TimerInv, TimerTypes, ThreadSound, Asleep
    <3> QED BY <3>1, <1>0, <1>2 DEF Asleep, Resumes
  <2>5. Until(next)' = Until(next)
    BY <1>0 DEF Until
  <2>6. ASSUME ~stale, NEW u \in ToSet(soft)', u \notin overlooked'
        PROVE  /\ at = "next" => 1 <= Lefts'[u] + held
               /\ at = "tick" => 1 <= Until(next) + held /\ Until(next) <= Lefts'[u]
               /\ at = "delay" => next <= Lefts'[u] + held /\ 1 <= Lefts'[u] + held
               /\ Asleep' => /\ Sleep \in ToSet(hard)' /\ Lefts'[Sleep] <= Lefts'[u] + MaxHeld
                             /\ (IF mode = "open" THEN 1 ELSE 0) <= Lefts'[u] + MaxHeld
    <3>1. CASE u = t
      <4>1. t \in Soft
        BY <3>1, <2>6, <1>1, <1>5
      <4>2. at = "next" => 1 <= Lefts'[u] + held
        BY <3>1, <1>4, Numbers
      <4> QED BY <3>1, <4>1, <4>2, <2>2, <2>3, <2>6
    <3>2. CASE u # t
      <4>1. /\ u \in ToSet(soft) /\ Lefts'[u] = Lefts[u] /\ Lefts'[Sleep] = Lefts[Sleep]
            /\ u \notin overlooked
        BY <3>2, <2>6, <1>1, <1>2, <1>3, <1>4, <1>5, TimerSets
      <4>2. Asleep' => Asleep /\ (Sleep \in ToSet(hard) => Sleep \in ToSet(hard)')
        BY <2>2, <1>1
      <4> QED BY <4>1, <4>2, <2>6 DEF TimerInv, TowardsSleep
    <3> QED BY <3>1, <3>2
  <2> QED BY <1>0, <2>1, <2>5, <2>6 DEF TowardsSleep
<1> QED BY <1>1, <1>6, <1>7, <1>8, <1>9, <1>10, <1>11 DEF TimerInv

\* What a check loop does when a callback has returned.
LEMMA Returned ==
  ASSUME TimerInv, NEW t \in Timer, AfterCallback(t), UNCHANGED <<tick, stale>>,
         t \in Soft => status = "BUSY"
  PROVE  /\ hard' \in Seq(All \ Soft) /\ soft' \in Seq(Soft)
         /\ timeout_tick' \in [All -> 0 .. Modulus - 1] /\ active' \in [All -> BOOLEAN]
         /\ ListShape' /\ stat' = stat /\ tmp' = tmp \ {t}
         /\ overlooked' \subseteq overlooked /\ overlooked \ {t} \subseteq overlooked'
         /\ turned' \subseteq turned /\ turned \ {t} \subseteq turned'
         /\ \/ /\ hard' = hard /\ soft' = soft /\ active' = active /\ Lefts' = Lefts
               /\ overlooked' = overlooked /\ turned' = turned
               /\ t \in tmp => ~active[t] \/ t \in turned
            \/ /\ t \in tmp
               /\ ToSet(hard)' = IF t \in Soft THEN ToSet(hard) ELSE ToSet(hard) \cup {t}
               /\ ToSet(soft)' = IF t \in Soft THEN ToSet(soft) \cup {t} ELSE ToSet(soft)
               /\ t \in Soft => hard' = hard
               /\ t \notin Soft => soft' = soft
               /\ active'[t] /\ \A u \in All \ {t} : active'[u] = active[u]
               /\ \A u \in All \ {t} : Lefts'[u] = Lefts[u]
               /\ Lefts'[t] = init_tick[t]
<1>1. CASE Restarts(t)
  <2>1. rt_timer_start(t) /\ t \in tmp
    BY <1>1 DEF AfterCallback, Restarts
  <2>2. ~Resumes(t)
    BY DEF Resumes
  <2>3. /\ hard' \in Seq(All \ Soft) /\ soft' \in Seq(Soft)
        /\ timeout_tick' \in [All -> 0 .. Modulus - 1]
        /\ ListShape'
        /\ Lefts' = [Lefts EXCEPT ![t] = init_tick[t]]
        /\ ToSet(hard)' = IF t \notin Soft THEN ToSet(hard) \cup {t}
                          ELSE IF Resumes(t) THEN ToSet(hard) \ {Sleep} ELSE ToSet(hard)
        /\ ToSet(soft)' = IF t \in Soft THEN ToSet(soft) \cup {t} ELSE ToSet(soft)
    BY <2>1, Started DEF TimerInv
  <2>4. /\ active' \in [All -> BOOLEAN]
        /\ \A u \in All : active'[u] = IF u = t THEN TRUE
                                       ELSE IF u = Sleep THEN active[Sleep] /\ ~Resumes(t) ELSE active[u]
        /\ tmp' = tmp \ {t}
        /\ stat' = IF Resumes(t) THEN "ready" ELSE stat
    BY <2>1, StartedFlags DEF TimerInv
  <2>5. active \in [All -> BOOLEAN] /\ t \in All /\ t # Sleep /\ Sleep \in All
    BY TimerSets DEF TimerInv, TimerTypes
  <2>6. active'[t] /\ \A u \in All \ {t} : active'[u] = active[u]
    BY <2>1, <2>2, <2>4, <2>5, StartedFlags DEF TimerInv
  <2>7. (\A u \in All \ {t} : Lefts'[u] = Lefts[u]) /\ Lefts'[t] = init_tick[t]
    <3>1. Lefts \in [All -> Int]
      BY LeftsType DEF TimerInv
    <3> QED BY <2>3, <2>5, <3>1
  <2>8. (t \in Soft => hard' = hard) /\ (t \notin Soft => soft' = soft)
    BY <2>1, <2>2 DEF rt_timer_start
  <2>9. /\ overlooked' \subseteq overlooked /\ overlooked \ {t} \subseteq overlooked'
        /\ turned' = turned \ {t}
    <3>1. ~(t \in Soft /\ GoingToSleep)
      BY DEF TimerInv, ThreadSound, GoingToSleep
    <3> QED BY <2>1, <3>1 DEF rt_timer_start
  <2> QED BY <2>1, <2>2, <2>3, <2>4, <2>6, <2>7, <2>8, <2>9
<1>2. CASE ~Restarts(t)
  <2>1. /\ tmp' = tmp \ {t} /\ hard' = hard /\ soft' = soft /\ timeout_tick' = timeout_tick
        /\ active' = active /\ stat' = stat /\ overlooked' = overlooked /\ turned' = turned
    BY <1>2 DEF AfterCallback
  <2>2. Lefts' = Lefts
    BY <2>1 DEF Lefts, Until
  <2>3. t \in tmp => ~active[t] \/ t \in turned
    BY <1>2 DEF TimerInv, Callbacks, Restarts
  <2>4. ListShape'
    BY <2>1, <2>2 DEF TimerInv, ListShape
  <2> QED BY <2>1, <2>2, <2>3, <2>4 DEF TimerInv, TimerTypes
<1> QED BY <1>1, <1>2

\* A callback returns to the tick handler.
LEMMA HardReturnStep ==
  ASSUME TimerInv, HardReturn
  PROVE  TimerInv'
<1> DEFINE t == ringing[FALSE]
<1>1. /\ AfterCallback(t) /\ tick' = tick /\ ringing' = [ringing EXCEPT ![FALSE] = NoTimer]
      /\ init_tick' = init_tick /\ periodic' = periodic /\ dead' = dead /\ stopping' = stopping
      /\ next' = next /\ waits' = waits /\ held' = held /\ stale' = stale
      /\ mode = "call" /\ mode' = "tick" /\ status' = status /\ at' = at
  BY DEF HardReturn, fields
<1>2. t \in Timer /\ t \notin Soft /\ t \in All /\ t # Sleep
  BY <1>1, TimerSets DEF TimerInv, Callbacks, ThreadSound
<1> HIDE DEF t
<1>3. /\ hard' \in Seq(All \ Soft) /\ soft' \in Seq(Soft)
      /\ timeout_tick' \in [All -> 0 .. Modulus - 1] /\ active' \in [All -> BOOLEAN]
      /\ ListShape' /\ stat' = stat /\ tmp' = tmp \ {t}
      /\ overlooked' \subseteq overlooked /\ overlooked \ {t} \subseteq overlooked'
      /\ turned' \subseteq turned /\ turned \ {t} \subseteq turned'
      /\ \/ /\ hard' = hard /\ soft' = soft /\ active' = active /\ Lefts' = Lefts
            /\ overlooked' = overlooked /\ turned' = turned
            /\ t \in tmp => ~active[t] \/ t \in turned
         \/ /\ t \in tmp
            /\ ToSet(hard)' = ToSet(hard) \cup {t} /\ soft' = soft
            /\ active'[t] /\ \A u \in All \ {t} : active'[u] = active[u]
            /\ \A u \in All \ {t} : Lefts'[u] = Lefts[u]
            /\ Lefts'[t] = init_tick[t]
  BY <1>1, <1>2, Returned
<1>4. /\ ToSet(hard) \subseteq All \ Soft /\ ToSet(soft) \subseteq Soft
      /\ Soft \subseteq Timer /\ tmp \subseteq Timer /\ Timer \subseteq All /\ Sleep \notin Timer
      /\ Sleep \in All
  BY LinkedTypes, TimerSets DEF TimerInv, TimerTypes
<1>5. init_tick[t] \in Int /\ init_tick[t] >= 1
  <2>1. init_tick[t] \in Times
    BY <1>2 DEF TimerInv, TimerTypes
  <2>2. init_tick[t] \in 1 .. Half - 1 /\ Half \in Nat
    BY <2>1, Bounds DEF TimerInv
  <2> QED BY <2>2
<1>6. TimerTypes'
  BY <1>1, <1>3 DEF TimerInv, TimerTypes
<1>7. Membership'
  <2>1. /\ tmp \subseteq {ringing[FALSE], ringing[TRUE]} /\ tmp \cap (ToSet(hard) \cup ToSet(soft)) = {}
        /\ tmp \cap dead = {}
        /\ \A u \in ToSet(hard) \cup ToSet(soft) : active[u] /\ u \notin dead
        /\ \A u \in All : active[u] => u \in ToSet(hard) \cup ToSet(soft) \cup tmp \cup turned
    BY DEF TimerInv, Membership, Linked
  <2>2. ringing \in [BOOLEAN -> Timer \cup {NoTimer}]
    BY DEF TimerInv, TimerTypes
  <2>3. tmp' \subseteq {ringing'[FALSE], ringing'[TRUE]}
    BY <1>1, <1>3, <2>1, <2>2 DEF t
  <2>4. tmp' \cap dead' = {}
    BY <1>1, <1>3, <2>1
  <2>5. CASE /\ hard' = hard /\ soft' = soft /\ active' = active /\ turned' = turned
             /\ t \in tmp => ~active[t] \/ t \in turned
    <3>1. Linked' = ToSet(hard) \cup ToSet(soft)
      BY <2>5 DEF Linked
    <3>2. \A u \in All : active'[u] => u \in Linked' \cup tmp' \cup turned'
      BY <1>3, <2>1, <2>5, <3>1
    <3>3. \A u \in Linked' : active'[u] /\ u \notin dead'
      BY <1>1, <2>1, <2>5, <3>1
    <3> QED BY <1>3, <2>1, <2>3, <2>4, <3>1, <3>2, <3>3 DEF Membership
  <2>6. CASE /\ t \in tmp
             /\ ToSet(hard)' = ToSet(hard) \cup {t} /\ soft' = soft
             /\ active'[t] /\ \A u \in All \ {t} : active'[u] = active[u]
    <3>1. Linked' = ToSet(hard) \cup ToSet(soft) \cup {t}
      BY <2>6 DEF Linked
    <3>2. \A u \in Linked' : active'[u] /\ u \notin dead'
      BY <1>1, <1>4, <2>1, <2>6, <3>1
    <3>3. \A u \in All : active'[u] => u \in Linked' \cup tmp' \cup turned'
      BY <1>3, <2>1, <2>6, <3>1
    <3> QED BY <1>3, <2>1, <2>3, <2>4, <3>1, <3>2, <3>3 DEF Membership
  <2> QED BY <1>3, <2>5, <2>6
<1>8. Callbacks'
  <2>1. ringing \in [BOOLEAN -> Timer \cup {NoTimer}]
    BY DEF TimerInv, TimerTypes
  <2>2. \A u \in tmp' : active'[u] => periodic'[u] \/ u \in turned'
    BY <1>1, <1>3, <1>4 DEF TimerInv, Callbacks
  <2> QED BY <1>1, <2>1, <2>2 DEF TimerInv, Callbacks
<1>9. ThreadSound'
  <2>1. Sleep \in ToSet(hard)' => Sleep \in ToSet(hard)
    BY <1>2, <1>3
  <2> QED BY <1>1, <1>3, <2>1 DEF TimerInv, TimerTypes, ThreadSound, Asleep
<1>10. Deadlines'
  <2>1. ASSUME NEW u \in ToSet(hard)'
        PROVE  Lefts'[u] >= (IF mode' \in {"open", "soft"} THEN 1 ELSE 0) - (IF u = Sleep THEN 1 ELSE 0)
    <3>1. CASE Lefts'[u] = init_tick[t]
      BY <3>1, <1>5
    <3>2. CASE u \in ToSet(hard) /\ Lefts'[u] = Lefts[u]
      BY <3>2, <1>1 DEF TimerInv, Deadlines, Lateness
    <3> QED BY <3>1, <3>2, <1>3, <1>4
  <2>2. ASSUME ~stale, NEW u \in ToSet(soft)' PROVE Lefts'[u] >= 0 - Lateness(u)'
    <3>1. CASE u = t /\ Lefts'[u] = init_tick[t]
      <4>1. Lateness(u)' \in Nat
        BY <1>1, Numbers DEF Lateness
      <4> QED BY <3>1, <4>1, <1>5
    <3>2. CASE u \in ToSet(soft) /\ Lefts'[u] = Lefts[u] /\ (u \in overlooked' <=> u \in overlooked)
      <4>1. Lateness(u)' = Lateness(u)
        BY <3>2, <1>1 DEF Lateness
      <4> QED BY <3>2, <4>1, <2>2 DEF TimerInv, Deadlines
    <3> QED BY <3>1, <3>2, <1>2, <1>3, <1>4
  <2> QED BY <1>1, <2>1, <2>2 DEF Deadlines
<1>11. TowardsSleep'
  <2>1. soft' = soft /\ Lefts'[Sleep] = Lefts[Sleep] /\ \A u \in ToSet(soft) : Lefts'[u] = Lefts[u]
    BY <1>2, <1>3, <1>4
  <2>2. Sleep \in ToSet(hard) => Sleep \in ToSet(hard)'
    BY <1>3
  <2>3. (Asleep' <=> Asleep) /\ Until(next)' = Until(next)
    BY <1>1, <1>3 DEF Asleep, Until
  <2>4. overlooked' = overlooked
    <3>1. overlooked \subseteq Soft
      BY DEF TimerInv, TimerTypes
    <3> QED BY <1>2, <1>3, <3>1
  <2> QED BY <1>1, <2>1, <2>2, <2>3, <2>4 DEF TimerInv, TowardsSleep
<1> QED BY <1>3, <1>6, <1>7, <1>8, <1>9, <1>10, <1>11 DEF TimerInv

\* A callback returns to the timer thread.
LEMMA SoftReturnStep ==
  ASSUME TimerInv, SoftReturn
  PROVE  TimerInv'
<1> DEFINE t == ringing[TRUE]
<1>1. /\ AfterCallback(t) /\ tick' = tick /\ ringing' = [ringing EXCEPT ![TRUE] = NoTimer]
      /\ init_tick' = init_tick /\ periodic' = periodic /\ dead' = dead /\ stopping' = stopping
      /\ next' = next /\ waits' = waits /\ held' = held /\ stale' = stale
      /\ mode = "open" /\ stat = "ready" /\ at = "call"
      /\ mode' = "soft" /\ status' = "IDLE" /\ at' = "check"
  BY DEF SoftReturn, ThreadAt, fields
<1>2. t \in Timer /\ t \in Soft /\ t \in All /\ t # Sleep /\ status = "BUSY"
  BY <1>1, TimerSets DEF TimerInv, Callbacks, ThreadSound
<1> HIDE DEF t
<1>3. /\ hard' \in Seq(All \ Soft) /\ soft' \in Seq(Soft)
      /\ timeout_tick' \in [All -> 0 .. Modulus - 1] /\ active' \in [All -> BOOLEAN]
      /\ ListShape' /\ stat' = stat /\ tmp' = tmp \ {t}
      /\ overlooked' \subseteq overlooked /\ overlooked \ {t} \subseteq overlooked'
      /\ turned' \subseteq turned /\ turned \ {t} \subseteq turned'
      /\ \/ /\ hard' = hard /\ soft' = soft /\ active' = active /\ Lefts' = Lefts
            /\ overlooked' = overlooked /\ turned' = turned
            /\ t \in tmp => ~active[t] \/ t \in turned
         \/ /\ t \in tmp
            /\ ToSet(soft)' = ToSet(soft) \cup {t} /\ hard' = hard
            /\ active'[t] /\ \A u \in All \ {t} : active'[u] = active[u]
            /\ \A u \in All \ {t} : Lefts'[u] = Lefts[u]
            /\ Lefts'[t] = init_tick[t]
  BY <1>1, <1>2, Returned
<1>4. /\ ToSet(hard) \subseteq All \ Soft /\ ToSet(soft) \subseteq Soft
      /\ Soft \subseteq Timer /\ tmp \subseteq Timer /\ Timer \subseteq All /\ Sleep \notin Timer
      /\ Sleep \in All
  BY LinkedTypes, TimerSets DEF TimerInv, TimerTypes
<1>5. init_tick[t] \in Int /\ init_tick[t] >= 1
  <2>1. init_tick[t] \in Times
    BY <1>2 DEF TimerInv, TimerTypes
  <2>2. init_tick[t] \in 1 .. Half - 1 /\ Half \in Nat
    BY <2>1, Bounds DEF TimerInv
  <2> QED BY <2>2
<1>6. TimerTypes'
  BY <1>1, <1>3 DEF TimerInv, TimerTypes
<1>7. Membership'
  <2>1. /\ tmp \subseteq {ringing[FALSE], ringing[TRUE]} /\ tmp \cap (ToSet(hard) \cup ToSet(soft)) = {}
        /\ tmp \cap dead = {}
        /\ \A u \in ToSet(hard) \cup ToSet(soft) : active[u] /\ u \notin dead
        /\ \A u \in All : active[u] => u \in ToSet(hard) \cup ToSet(soft) \cup tmp \cup turned
    BY DEF TimerInv, Membership, Linked
  <2>2. ringing \in [BOOLEAN -> Timer \cup {NoTimer}]
    BY DEF TimerInv, TimerTypes
  <2>3. tmp' \subseteq {ringing'[FALSE], ringing'[TRUE]}
    BY <1>1, <1>3, <2>1, <2>2 DEF t
  <2>4. tmp' \cap dead' = {}
    BY <1>1, <1>3, <2>1
  <2>5. CASE /\ hard' = hard /\ soft' = soft /\ active' = active /\ turned' = turned
             /\ t \in tmp => ~active[t] \/ t \in turned
    <3>1. Linked' = ToSet(hard) \cup ToSet(soft)
      BY <2>5 DEF Linked
    <3>2. \A u \in All : active'[u] => u \in Linked' \cup tmp' \cup turned'
      BY <1>3, <2>1, <2>5, <3>1
    <3>3. \A u \in Linked' : active'[u] /\ u \notin dead'
      BY <1>1, <2>1, <2>5, <3>1
    <3> QED BY <1>3, <2>1, <2>3, <2>4, <3>1, <3>2, <3>3 DEF Membership
  <2>6. CASE /\ t \in tmp
             /\ ToSet(soft)' = ToSet(soft) \cup {t} /\ hard' = hard
             /\ active'[t] /\ \A u \in All \ {t} : active'[u] = active[u]
    <3>1. Linked' = ToSet(hard) \cup ToSet(soft) \cup {t}
      BY <2>6 DEF Linked
    <3>2. \A u \in Linked' : active'[u] /\ u \notin dead'
      BY <1>1, <1>4, <2>1, <2>6, <3>1
    <3>3. \A u \in All : active'[u] => u \in Linked' \cup tmp' \cup turned'
      BY <1>3, <2>1, <2>6, <3>1
    <3> QED BY <1>3, <2>1, <2>3, <2>4, <3>1, <3>2, <3>3 DEF Membership
  <2> QED BY <1>3, <2>5, <2>6
<1>8. Callbacks'
  <2>1. ringing \in [BOOLEAN -> Timer \cup {NoTimer}]
    BY DEF TimerInv, TimerTypes
  <2>2. \A u \in tmp' : active'[u] => periodic'[u] \/ u \in turned'
    BY <1>1, <1>3, <1>4 DEF TimerInv, Callbacks
  <2> QED BY <1>1, <2>1, <2>2 DEF TimerInv, Callbacks
<1>9. ThreadSound'
  <2>1. Sleep \in ToSet(hard)' => Sleep \in ToSet(hard)
    BY <1>2, <1>3
  <2> QED BY <1>1, <1>3, <2>1 DEF TimerInv, TimerTypes, ThreadSound, Asleep
<1>10. Deadlines'
  <2>1. ASSUME NEW u \in ToSet(hard)'
        PROVE  Lefts'[u] >= (IF mode' \in {"open", "soft"} THEN 1 ELSE 0) - (IF u = Sleep THEN 1 ELSE 0)
    <3>1. CASE Lefts'[u] = init_tick[t]
      BY <3>1, <1>5
    <3>2. CASE u \in ToSet(hard) /\ Lefts'[u] = Lefts[u]
      BY <3>2, <1>1 DEF TimerInv, Deadlines, Lateness
    <3> QED BY <3>1, <3>2, <1>3, <1>4
  <2>2. ASSUME ~stale, NEW u \in ToSet(soft)' PROVE Lefts'[u] >= 0 - Lateness(u)'
    <3>1. CASE u = t /\ Lefts'[u] = init_tick[t]
      <4>1. Lateness(u)' \in Nat
        BY <1>1, Numbers DEF Lateness
      <4> QED BY <3>1, <4>1, <1>5
    <3>2. CASE u \in ToSet(soft) /\ Lefts'[u] = Lefts[u] /\ (u \in overlooked' <=> u \in overlooked)
      <4>1. Lateness(u)' = Lateness(u)
        BY <3>2, <1>1 DEF Lateness
      <4> QED BY <3>2, <4>1, <2>2 DEF TimerInv, Deadlines
    <3> QED BY <3>1, <3>2, <1>2, <1>3, <1>4
  <2> QED BY <1>1, <2>1, <2>2 DEF Deadlines
<1>11. TowardsSleep'
  <2>1. ~Asleep' /\ at' = "check"
    BY <1>1, <1>3 DEF Asleep
  <2> QED BY <2>1 DEF TowardsSleep
<1> QED BY <1>3, <1>6, <1>7, <1>8, <1>9, <1>10, <1>11 DEF TimerInv

\* The timer thread links its own timer.
LEMMA DelayLinks ==
  ASSUME TimerInv, Delay
  PROVE  /\ hard' \in Seq(All \ Soft) /\ IsInjective(hard') /\ ToSet(hard') = ToSet(hard) \cup {Sleep}
         /\ Sorted(hard', [Lefts EXCEPT ![Sleep] = next])
         /\ soft' = soft
<1> DEFINE n   == next
           due == (tick + n) % Modulus
<1>1. /\ mode = "open" /\ stat = "ready" /\ at = "delay"
      /\ timeout_tick' = [timeout_tick EXCEPT ![Sleep] = due]
      /\ active' = [active EXCEPT ![Sleep] = TRUE] /\ hard' = Link(hard, Sleep, due)
      /\ stat' = "suspend" /\ at' = "asleep" /\ next' = 0 /\ held' = 0
      /\ tick' = tick /\ mode' = mode /\ soft' = soft /\ tmp' = tmp /\ ringing' = ringing
      /\ init_tick' = init_tick /\ periodic' = periodic /\ dead' = dead /\ stopping' = stopping
      /\ status' = status /\ waits' = waits
      /\ overlooked' = overlooked /\ turned' = turned /\ stale' = stale
  BY DEF Delay, ThreadAt, fields, notes
<1>2. /\ TimerTypes /\ hard \in Seq(All \ Soft) /\ IsInjective(hard) /\ Sorted(hard, Lefts)
      /\ soft \in Seq(Soft) /\ IsInjective(soft) /\ (~stale => Sorted(soft, Lefts))
      /\ timeout_tick \in [All -> 0 .. Modulus - 1] /\ tick \in 0 .. Modulus - 1
  BY DEF TimerInv, TimerTypes, ListShape
<1>3. n \in 0 .. Half - 1 /\ n \in 0 .. Half /\ n \in Int /\ Half \in Nat
  BY <1>1, Numbers, ModulusValue DEF TimerInv, TowardsSleep
<1>4. Sleep \in All \ Soft /\ Sleep \in All /\ All \ Soft \in SUBSET All
  BY TimerSets
<1>5. Sleep \notin ToSet(hard)
  BY <1>1 DEF TimerInv, ThreadSound, Asleep
<1>6. due \in 0 .. Modulus - 1 /\ Until(due) = n
  BY <1>2, <1>3, PlusValue, UntilDue
<1>7. \A u \in ToSet(hard) : n - Lefts[u] <= Half + 2
  BY <1>3, Bounds DEF TimerInv
<1> HIDE DEF n
<1>8. /\ hard' \in Seq(All \ Soft) /\ IsInjective(hard') /\ ToSet(hard') = ToSet(hard) \cup {Sleep}
      /\ Sorted(hard', [Lefts EXCEPT ![Sleep] = n])
  <2> DEFINE r == Link(hard, Sleep, (tick + n) % Modulus)
  <2>1. /\ hard \in Seq(All \ Soft) /\ IsInjective(hard) /\ Sorted(hard, Lefts) /\ n \in 0 .. Half - 1
        /\ TimerTypes
    BY <1>2, <1>3
  <2>2. /\ r \in Seq(All \ Soft) /\ IsInjective(r) /\ ToSet(r) = ToSet(hard) \cup {Sleep}
        /\ Sorted(hard, Lefts) /\ (\A u \in ToSet(hard) : n - Lefts[u] <= Half + 2)
           => Sorted(r, [Lefts EXCEPT ![Sleep] = n])
    BY <1>4, <1>5, <2>1, LinkProps
  <2>3. hard' = r
    BY <1>1
  <2> HIDE DEF r
  <2> QED BY <1>7, <2>1, <2>2, <2>3
<1> QED BY <1>1, <1>8 DEF n

\* The timer thread starts its own timer and sleeps.
LEMMA DelayStep ==
  ASSUME TimerInv, Delay
  PROVE  TimerInv'
<1> DEFINE n   == next
           due == (tick + n) % Modulus
<1>1. /\ mode = "open" /\ stat = "ready" /\ at = "delay"
      /\ timeout_tick' = [timeout_tick EXCEPT ![Sleep] = due]
      /\ active' = [active EXCEPT ![Sleep] = TRUE] /\ hard' = Link(hard, Sleep, due)
      /\ stat' = "suspend" /\ at' = "asleep" /\ next' = 0 /\ held' = 0
      /\ tick' = tick /\ mode' = mode /\ soft' = soft /\ tmp' = tmp /\ ringing' = ringing
      /\ init_tick' = init_tick /\ periodic' = periodic /\ dead' = dead /\ stopping' = stopping
      /\ status' = status /\ waits' = waits
      /\ overlooked' = overlooked /\ turned' = turned /\ stale' = stale
  BY DEF Delay, ThreadAt, fields, notes
<1>2. /\ TimerTypes /\ hard \in Seq(All \ Soft) /\ IsInjective(hard) /\ Sorted(hard, Lefts)
      /\ soft \in Seq(Soft) /\ IsInjective(soft) /\ (~stale => Sorted(soft, Lefts))
      /\ timeout_tick \in [All -> 0 .. Modulus - 1] /\ tick \in 0 .. Modulus - 1
  BY DEF TimerInv, TimerTypes, ListShape
<1>3. n \in 0 .. Half - 1 /\ n \in 0 .. Half /\ n \in Int /\ Half \in Nat
  BY <1>1, Numbers, ModulusValue DEF TimerInv, TowardsSleep
<1>4. Sleep \in All \ Soft /\ Sleep \in All /\ All \ Soft \in SUBSET All
  BY TimerSets
<1>6. due \in 0 .. Modulus - 1 /\ Until(due) = n
  BY <1>2, <1>3, PlusValue, UntilDue
<1> HIDE DEF n
<1>8. /\ hard' \in Seq(All \ Soft) /\ IsInjective(hard') /\ ToSet(hard') = ToSet(hard) \cup {Sleep}
      /\ Sorted(hard', [Lefts EXCEPT ![Sleep] = n])
  BY DelayLinks DEF n
<1> HIDE DEF due
<1>9. Lefts' = [Lefts EXCEPT ![Sleep] = n]
  <2>1. \A u \in All : timeout_tick'[u] = IF u = Sleep THEN due ELSE timeout_tick[u]
    BY <1>1, <1>2
  <2>2. Lefts' = [u \in All |-> Signed(Minus(timeout_tick'[u], tick))]
    BY <1>1 DEF Lefts, Until
  <2>3. Lefts = [u \in All |-> Signed(Minus(timeout_tick[u], tick))]
    BY DEF Lefts, Until
  <2>4. Signed(Minus(due, tick)) = n
    BY <1>6 DEF Until
  <2> QED BY <1>4, <2>1, <2>2, <2>3, <2>4
<1>10. /\ Lefts'[Sleep] = n /\ \A u \in All \ {Sleep} : Lefts'[u] = Lefts[u]
       /\ \A u \in ToSet(soft) : u \in All \ {Sleep} /\ Lefts'[u] = Lefts[u]
  <2>1. Lefts \in [All -> Int]
    BY LeftsType DEF TimerInv
  <2>2. ToSet(soft) \subseteq All \ {Sleep}
    BY LinkedTypes, TimerSets DEF TimerInv
  <2> QED BY <1>4, <1>9, <2>1, <2>2
<1>11. ListShape'
  <2>1. ~stale => Sorted(soft, Lefts')
    BY <1>2, <1>10, SortedSame
  <2> QED BY <1>1, <1>2, <1>8, <1>9, <2>1 DEF ListShape
<1>12. TimerTypes'
  <2>1. 0 \in 0 .. Modulus - 1 /\ 0 \in 0 .. MaxHeld
    BY ModulusValue, Numbers
  <2>2. timeout_tick' \in [All -> 0 .. Modulus - 1]
    BY <1>1, <1>2, <1>6
  <2> QED BY <1>1, <1>8, <2>1, <2>2 DEF TimerInv, TimerTypes
<1>13. Membership'
  <2>1. Linked' = Linked \cup {Sleep} /\ Sleep \notin tmp /\ Sleep \notin dead
    BY <1>1, <1>8, TimerSets DEF TimerInv, TimerTypes, Linked
  <2>2. active \in [All -> BOOLEAN]
    BY DEF TimerInv, TimerTypes
  <2>3. \A u \in All : active'[u] = IF u = Sleep THEN TRUE ELSE active[u]
    BY <1>1, <2>2
  <2>4. Linked \subseteq All
    BY Numbers DEF Linked
  <2> QED BY <1>1, <1>4, <2>1, <2>3, <2>4 DEF TimerInv, Membership
<1>14. Callbacks'
  <2>1. \A u \in tmp : active'[u] = active[u]
    BY <1>1, TimerSets DEF TimerInv, TimerTypes
  <2> QED BY <1>1, <2>1 DEF TimerInv, Callbacks
<1>15. ThreadSound'
  BY <1>1 DEF TimerInv, TimerTypes, ThreadSound, Asleep
<1>16. Deadlines'
  <2>1. ASSUME NEW u \in ToSet(hard)'
        PROVE  Lefts'[u] >= (IF mode' \in {"open", "soft"} THEN 1 ELSE 0) - (IF u = Sleep THEN 1 ELSE 0)
    <3>1. CASE u = Sleep
      BY <3>1, <1>1, <1>3, <1>10
    <3>2. CASE u # Sleep
      <4>1. u \in ToSet(hard) /\ Lefts'[u] = Lefts[u]
        BY <3>2, <1>8, <1>10, Numbers
      <4> QED BY <4>1, <1>1 DEF TimerInv, Deadlines, Lateness
    <3> QED BY <3>1, <3>2
  <2>2. ASSUME ~stale, NEW u \in ToSet(soft) PROVE Lefts'[u] >= 0 - Lateness(u)'
    <3>1. CASE u \in overlooked
      <4>1. Lateness(u)' = 2 * MaxHeld /\ Lateness(u) = 2 * MaxHeld
        BY <1>1, <3>1 DEF Lateness
      <4>2. Lefts[u] >= 0 - 2 * MaxHeld
        BY <2>2, <4>1 DEF TimerInv, Deadlines
      <4> QED BY <4>1, <4>2, <1>10
    <3>2. CASE u \notin overlooked
      <4>1. 1 <= Lefts[u] + held /\ Lefts[u] \in Int /\ held \in Nat /\ MaxHeld \in Nat /\ held <= MaxHeld
        BY <1>1, <2>2, <3>2, Numbers DEF TimerInv, TowardsSleep
      <4>2. Lateness(u)' = MaxHeld
        BY <1>1, <3>2, <4>1 DEF Lateness
      <4> QED BY <4>1, <4>2, <1>10
    <3> QED BY <3>1, <3>2
  <2> QED BY <1>1, <2>1, <2>2 DEF Deadlines
<1>17. TowardsSleep'
  <2>1. ASSUME ~stale, NEW u \in ToSet(soft) \ overlooked
        PROVE  Lefts'[Sleep] <= Lefts'[u] + MaxHeld /\ 1 <= Lefts'[u] + MaxHeld
    <3>1. 1 <= Lefts[u] + held /\ n <= Lefts[u] + held
      BY <1>1, <2>1 DEF TimerInv, TowardsSleep, n
    <3>2. Lefts[u] \in Int /\ held \in Nat /\ MaxHeld \in Nat /\ held <= MaxHeld
      BY Numbers
    <3> QED BY <3>1, <3>2, <1>3, <1>10
  <2> QED BY <1>1, <1>8, <2>1 DEF TowardsSleep
<1> QED BY <1>11, <1>12, <1>13, <1>14, <1>15, <1>16, <1>17 DEF TimerInv

-----------------------------------------------------------------------------
(* Timers: time passes, timers ring *)

\* The clock advances: every linked timer is one tick nearer, a stale one apart.
LEMMA Ticked ==
  ASSUME TimerInv, Tick
  PROVE  /\ tick' \in 0 .. Modulus - 1
         /\ \A u \in Linked : /\ u \in All /\ Lefts[u] \in Int
                              /\ ~stale \/ u \in ToSet(hard) => Lefts'[u] = Lefts[u] - 1
         /\ \A a \in 0 .. Modulus - 1 : Until(a) > 0 - Half - 2 => Signed(Minus(a, tick')) = Until(a) - 1
<1>1. tick' = (tick + 1) % Modulus /\ timeout_tick' = timeout_tick
  BY DEF Tick
<1>2. tick \in 0 .. Modulus - 1
  BY DEF TimerInv, TimerTypes
<1>3. \A a \in 0 .. Modulus - 1 : Until(a) > 0 - Half - 2 =>
        tick' \in 0 .. Modulus - 1 /\ Signed(Minus(a, tick')) = Until(a) - 1
  BY <1>1, <1>2, UntilTick
<1>4. tick' \in 0 .. Modulus - 1
  BY <1>1, <1>2, PlusValue, ModulusValue
<1>5. ASSUME NEW u \in Linked
      PROVE  /\ u \in All /\ Lefts[u] \in Int
             /\ ~stale \/ u \in ToSet(hard) => Lefts'[u] = Lefts[u] - 1
  <2>1. u \in All
    BY Numbers DEF Linked
  <2>2. Lefts[u] = Until(timeout_tick[u]) /\ timeout_tick[u] \in 0 .. Modulus - 1 /\ Lefts[u] \in Int
    BY <2>1, LeftsType DEF TimerInv
  <2>3. ~stale \/ u \in ToSet(hard) => Lefts[u] > 0 - Half - 2
    BY <2>2, Bounds, ModulusValue DEF TimerInv, Linked
  <2>4. Lefts'[u] = Signed(Minus(timeout_tick[u], tick'))
    BY <1>1, <2>1 DEF Lefts, Until
  <2> QED BY <1>3, <2>1, <2>2, <2>3, <2>4
<1> QED BY <1>3, <1>4, <1>5

\* rt_tick_increase.
LEMMA TickStep ==
  ASSUME TimerInv, Tick
  PROVE  TimerInv'
<1>1. /\ mode = "open" /\ (Asleep \/ held < MaxHeld)
      /\ held' = IF Asleep THEN 0 ELSE held + 1
      /\ mode' = "tick"
      /\ hard' = hard /\ soft' = soft /\ tmp' = tmp /\ ringing' = ringing /\ init_tick' = init_tick
      /\ periodic' = periodic /\ timeout_tick' = timeout_tick /\ active' = active /\ dead' = dead
      /\ stopping' = stopping /\ status' = status /\ stat' = stat /\ at' = at /\ next' = next
      /\ waits' = waits /\ overlooked' = overlooked /\ turned' = turned
      /\ stale' = (stale \/ \E u \in ToSet(soft) \cap overlooked : Left(u) <= - 2 * MaxHeld)
  BY DEF Tick, lists, fields
<1>0. /\ stale' \in BOOLEAN /\ (~stale' => ~stale)
      /\ ~stale' => \A u \in ToSet(soft) \cap overlooked : ~(Lefts[u] <= - 2 * MaxHeld)
  <2>1. \A u \in ToSet(soft) : Left(u) = Lefts[u]
    BY Numbers DEF Left, Lefts, Until
  <2> QED BY <1>1, <2>1, Zenon DEF TimerInv, TimerTypes
<1>2. /\ tick' \in 0 .. Modulus - 1
      /\ \A u \in Linked : /\ u \in All /\ Lefts[u] \in Int
                           /\ ~stale \/ u \in ToSet(hard) => Lefts'[u] = Lefts[u] - 1
      /\ \A a \in 0 .. Modulus - 1 : Until(a) > 0 - Half - 2 => Signed(Minus(a, tick')) = Until(a) - 1
  BY Ticked
<1>3. held \in Nat /\ MaxHeld \in Nat /\ held <= MaxHeld /\ Half \in Nat /\ 2 * MaxHeld < Half
  BY Numbers, Bounds DEF TimerInv
<1>4. Asleep' <=> Asleep
  BY <1>1 DEF Asleep
<1>5. /\ \A u \in ToSet(hard) : Lefts[u] \in Int /\ Lefts'[u] = Lefts[u] - 1
      /\ \A u \in ToSet(soft) : Lefts[u] \in Int /\ (~stale' => Lefts'[u] = Lefts[u] - 1)
  <2>1. \A u \in ToSet(hard) \cup ToSet(soft) :
          Lefts[u] \in Int /\ (~stale \/ u \in ToSet(hard) => Lefts'[u] = Lefts[u] - 1)
    BY <1>2 DEF Linked
  <2>2. ASSUME ~stale', NEW u \in ToSet(soft) PROVE Lefts'[u] = Lefts[u] - 1
    <3>1. ~stale
      BY <1>0, <2>2
    <3> QED BY <2>1, <3>1
  <2> QED BY <2>1, <2>2
<1>6. ListShape'
  <2>1. /\ hard \in Seq(All \ Soft) /\ soft \in Seq(Soft) /\ Sorted(hard, Lefts)
        /\ ~stale' => Sorted(soft, Lefts)
    BY <1>0 DEF TimerInv, TimerTypes, ListShape
  <2>2. Sorted(hard, Lefts')
    BY <1>5, <2>1, SortedShift
  <2>3. ~stale' => Sorted(soft, Lefts')
    BY <1>5, <2>1, SortedShift
  <2> QED BY <1>1, <2>2, <2>3 DEF TimerInv, ListShape
<1>7. TimerTypes'
  <2>1. held' \in 0 .. MaxHeld
    BY <1>1, <1>3
  <2> QED BY <1>0, <1>1, <1>2, <2>1 DEF TimerInv, TimerTypes
<1>8. Membership'
  BY <1>1 DEF TimerInv, Membership, Linked
<1>9. Callbacks'
  BY <1>1 DEF TimerInv, Callbacks
<1>10. ThreadSound'
  BY <1>1, <1>4 DEF TimerInv, ThreadSound
<1>11. Deadlines'
  <2>1. \A u \in ToSet(hard) : Lefts[u] >= 1 - (IF u = Sleep THEN 1 ELSE 0)
    BY <1>1 DEF TimerInv, Deadlines, Lateness
  <2>2. \A u \in ToSet(hard) : Lefts'[u] >= 0 - (IF u = Sleep THEN 1 ELSE 0)
    BY <1>5, <2>1
  <2>3. ASSUME ~stale', NEW u \in ToSet(soft) PROVE Lefts'[u] >= 0 - Lateness(u)'
    <3>1. Lefts[u] \in Int /\ Lefts'[u] = Lefts[u] - 1 /\ ~stale
      BY <1>0, <1>5, <2>3
    <3>2. CASE u \in overlooked
      <4>1. Lateness(u)' = 2 * MaxHeld
        BY <1>1, <3>2 DEF Lateness
      <4>2. ~(Lefts[u] <= - 2 * MaxHeld)
        BY <1>0, <2>3, <3>2
      <4> QED BY <4>1, <4>2, <3>1, <1>3
    <3>3. CASE u \notin overlooked
      <4>1. Lateness(u)' = MaxHeld + held' /\ Lateness(u) = MaxHeld + held
        BY <1>1, <3>3 DEF Lateness
      <4>2. Lefts[u] >= 0 - Lateness(u)
        BY <3>1 DEF TimerInv, Deadlines
      <4>3. Asleep => 1 <= Lefts[u] + MaxHeld
        BY <1>1, <3>1, <3>3 DEF TimerInv, TowardsSleep
      <4> QED BY <4>1, <4>2, <4>3, <3>1, <1>1, <1>3
    <3> QED BY <3>2, <3>3
  <2> QED BY <1>1, <2>2, <2>3 DEF Deadlines
<1>12. TowardsSleep'
  <2>1. ~Asleep => held' = held + 1
    BY <1>1
  <2>2. at # "asleep" => ~Asleep
    BY DEF TimerInv, ThreadSound, Asleep
  <2>3. ASSUME ~stale', NEW u \in ToSet(soft) \ overlooked
        PROVE  /\ at = "next" => 1 <= Lefts'[u] + held'
               /\ at = "tick" => 1 <= Until(next)' + held' /\ Until(next)' <= Lefts'[u]
               /\ at = "delay" => next <= Lefts'[u] + held' /\ 1 <= Lefts'[u] + held'
               /\ Asleep => /\ Sleep \in ToSet(hard) /\ Lefts'[Sleep] <= Lefts'[u] + MaxHeld
                            /\ 0 <= Lefts'[u] + MaxHeld
    <3>1. Lefts[u] \in Int /\ Lefts'[u] = Lefts[u] - 1 /\ ~stale
      BY <1>0, <1>5, <2>3
    <3>2. at = "next" => 1 <= Lefts[u] + held
      BY <3>1 DEF TimerInv, TowardsSleep
    <3>3. at = "delay" => next <= Lefts[u] + held /\ 1 <= Lefts[u] + held
      BY <3>1 DEF TimerInv, TowardsSleep
    <3>4. Asleep => /\ Sleep \in ToSet(hard) /\ Lefts[Sleep] <= Lefts[u] + MaxHeld
                    /\ 1 <= Lefts[u] + MaxHeld
      BY <1>1, <3>1 DEF TimerInv, TowardsSleep
    <3>5. at = "next" => 1 <= Lefts'[u] + held'
      BY <3>1, <3>2, <2>1, <2>2, <1>3
    <3>6. at = "delay" => next <= Lefts'[u] + held' /\ 1 <= Lefts'[u] + held'
      BY <3>1, <3>3, <2>1, <2>2, <1>3
    <3>7. Asleep => /\ Sleep \in ToSet(hard) /\ Lefts'[Sleep] <= Lefts'[u] + MaxHeld
                    /\ 0 <= Lefts'[u] + MaxHeld
      BY <3>1, <3>4, <1>3, <1>5
    <3>8. CASE at = "tick"
      <4>1. 1 <= Until(next) + held /\ Until(next) <= Lefts[u] /\ Until(next) \in Int
            /\ next \in 0 .. Modulus - 1
        BY <3>1, <3>8, Numbers DEF TimerInv, TowardsSleep
      <4>2. Until(next) > 0 - Half - 2
        BY <4>1, <1>3
      <4>3. Until(next)' = Until(next) - 1
        BY <4>1, <4>2, <1>1, <1>2 DEF Until
      <4>4. 1 <= Until(next)' + held' /\ Until(next)' <= Lefts'[u]
        BY <4>1, <4>3, <3>1, <3>8, <2>1, <2>2, <1>3
      <4> QED BY <4>4, <3>5, <3>6, <3>7
    <3> QED BY <3>5, <3>6, <3>7, <3>8
  <2> QED BY <1>1, <1>4, <2>3 DEF TimerInv, TowardsSleep
<1> QED BY <1>6, <1>7, <1>8, <1>9, <1>10, <1>11, <1>12 DEF TimerInv

\* The first timer leaves a list.
LEMMA Popped ==
  ASSUME NEW S, NEW s \in Seq(S), IsInjective(s), s # <<>>
  PROVE  /\ Tail(s) \in Seq(S) /\ IsInjective(Tail(s)) /\ (Sorted(s, Lefts) => Sorted(Tail(s), Lefts))
         /\ ToSet(Tail(s)) = ToSet(s) \ {Head(s)}
BY TailProps, TailSorted

\* The tick handler takes the first timer that is due.
LEMMA HardFireStep ==
  ASSUME TimerInv, HardFire
  PROVE  TimerInv'
<1> DEFINE t == Head(hard)
<1>1. /\ mode = "tick" /\ Expired(hard) /\ hard # <<>> /\ hard' = Tail(hard)
      /\ tick' = tick /\ soft' = soft /\ init_tick' = init_tick /\ periodic' = periodic
      /\ timeout_tick' = timeout_tick /\ dead' = dead /\ stopping' = stopping
      /\ status' = status /\ at' = at /\ next' = next /\ waits' = waits /\ held' = held
      /\ overlooked' = overlooked /\ turned' = turned /\ stale' = stale
  BY DEF HardFire, Expired, fields, notes
<1>2. \/ /\ t = Sleep /\ active' = [active EXCEPT ![t] = FALSE] /\ stat' = "ready"
         /\ tmp' = tmp /\ ringing' = ringing /\ mode' = mode
      \/ /\ t # Sleep /\ active' = [active EXCEPT ![t] = periodic[t]] /\ stat' = stat
         /\ tmp' = tmp \cup {t} /\ ringing' = [ringing EXCEPT ![FALSE] = t] /\ mode' = "call"
  BY DEF HardFire
<1>3. hard \in Seq(All \ Soft) /\ IsInjective(hard) /\ Sorted(hard, Lefts)
  BY DEF TimerInv, TimerTypes, ListShape
<1>4. /\ hard' \in Seq(All \ Soft) /\ IsInjective(hard') /\ Sorted(hard', Lefts)
      /\ ToSet(hard') = ToSet(hard) \ {t}
  BY <1>1, <1>3, Popped
<1>5. t \in ToSet(hard) /\ ToSet(hard) \subseteq All \ Soft /\ ToSet(soft) \subseteq Soft /\ tmp \subseteq Timer
  BY <1>1, <1>3, EmptyToSet, LinkedTypes DEF TimerInv, TimerTypes
<1>6. /\ Soft \subseteq Timer /\ Sleep \notin Timer /\ Sleep \in All /\ (t # Sleep => t \in Timer)
      /\ Timer \subseteq All
  BY <1>5, TimerSets
<1> HIDE DEF t
<1>7. Lefts' = Lefts
  BY <1>1 DEF Lefts, Until
<1>8. ListShape'
  BY <1>1, <1>4, <1>7 DEF TimerInv, ListShape
<1>0. active \in [All -> BOOLEAN] /\ ringing \in [BOOLEAN -> Timer \cup {NoTimer}] /\ periodic \in [Timer -> BOOLEAN]
  BY DEF TimerInv, TimerTypes
<1>9. TimerTypes'
  <2>1. active' \in [All -> BOOLEAN]
    <3>1. t = Sleep => active' = [active EXCEPT ![Sleep] = FALSE]
      BY <1>2
    <3>2. t # Sleep => active' = [active EXCEPT ![t] = periodic[t]] /\ periodic[t] \in BOOLEAN
      BY <1>0, <1>2, <1>6
    <3> QED BY <1>0, <3>1, <3>2
  <2>2. /\ tmp' \subseteq Timer /\ ringing' \in [BOOLEAN -> Timer \cup {NoTimer}]
    <3>1. t = Sleep => tmp' = tmp /\ ringing' = ringing
      BY <1>2
    <3>2. t # Sleep => tmp' = tmp \cup {t} /\ ringing' = [ringing EXCEPT ![FALSE] = t] /\ t \in Timer
      BY <1>2, <1>6
    <3>3. tmp' \subseteq Timer
      BY <1>5, <3>1, <3>2
    <3>4. CASE t = Sleep
      BY <1>0, <3>1, <3>3, <3>4
    <3>5. CASE t # Sleep
      BY <1>0, <3>2, <3>3, <3>5
    <3> QED BY <3>4, <3>5
  <2>3. stat' \in {"ready", "suspend"} /\ mode' \in {"open", "tick", "call", "soft"}
    BY <1>2 DEF TimerInv, TimerTypes
  <2> QED BY <1>1, <1>4, <2>1, <2>2, <2>3 DEF TimerInv, TimerTypes
<1>10. Membership'
  <2>1. /\ tmp \subseteq {ringing[FALSE], ringing[TRUE]} /\ tmp \cap (ToSet(hard) \cup ToSet(soft)) = {}
        /\ tmp \cap dead = {}
        /\ \A u \in ToSet(hard) \cup ToSet(soft) : active[u] /\ u \notin dead
        /\ \A u \in All : active[u] => u \in ToSet(hard) \cup ToSet(soft) \cup tmp \cup turned
    BY DEF TimerInv, Membership, Linked
  <2>2. Linked' = (ToSet(hard) \cup ToSet(soft)) \ {t}
    BY <1>1, <1>4, <1>5 DEF Linked
  <2>3. active \in [All -> BOOLEAN] /\ ringing \in [BOOLEAN -> Timer \cup {NoTimer}]
    BY DEF TimerInv, TimerTypes
  <2>4. \A u \in All \ {t} : active'[u] = active[u]
    BY <1>2, <2>3
  <2>5. t = Sleep => ~active'[t]
    BY <1>2, <1>6, <2>3
  <2>6. ringing[FALSE] = NoTimer /\ NoTimer \notin Timer
    BY <1>1, TimerSets DEF TimerInv, Callbacks
  <2>7. tmp' \subseteq {ringing'[FALSE], ringing'[TRUE]}
    <3>1. tmp \subseteq {ringing[TRUE]}
      BY <1>5, <2>1, <2>6
    <3>2. CASE ringing' = ringing /\ tmp' = tmp
      BY <2>1, <3>2
    <3>3. CASE ringing' = [ringing EXCEPT ![FALSE] = t] /\ tmp' = tmp \cup {t}
      <4>1. ringing'[FALSE] = t /\ ringing'[TRUE] = ringing[TRUE]
        BY <2>3, <3>3
      <4> QED BY <3>1, <3>3, <4>1
    <3> QED BY <1>2, <3>2, <3>3
  <2>8. \A u \in Linked' : active'[u] /\ u \notin dead'
    BY <1>1, <1>5, <1>6, <2>1, <2>2, <2>4
  <2>9. \A u \in All : active'[u] => u \in Linked' \cup tmp' \cup turned'
    BY <1>1, <1>2, <2>1, <2>2, <2>4, <2>5
  <2>10. tmp' \cap Linked' = {} /\ tmp' \cap dead' = {}
    <3>1. tmp' \subseteq tmp \cup {t} /\ t \notin Linked' /\ t \notin dead /\ dead' = dead
      BY <1>1, <1>2, <1>5, <2>1, <2>2
    <3> QED BY <2>1, <2>2, <3>1
  <2> QED BY <2>7, <2>8, <2>9, <2>10 DEF Membership
<1>11. Callbacks'
  <2>1. active \in [All -> BOOLEAN] /\ ringing \in [BOOLEAN -> Timer \cup {NoTimer}]
    BY DEF TimerInv, TimerTypes
  <2>2. /\ ringing[FALSE] = NoTimer
        /\ ringing[TRUE] \in IF at = "call" THEN Soft ELSE {NoTimer}
        /\ \A u \in tmp : active[u] => periodic[u] \/ u \in turned
    BY <1>1 DEF TimerInv, Callbacks
  <2>3. CASE t = Sleep
    <3>1. \A u \in tmp : u \in All /\ u # t
      BY <2>3, <1>5, <1>6
    <3>2. \A u \in tmp : active'[u] = active[u]
      BY <1>2, <2>1, <2>3, <3>1
    <3> QED BY <1>1, <1>2, <2>2, <2>3, <3>2 DEF Callbacks
  <2>4. CASE t # Sleep
    <3>0. active' = [active EXCEPT ![t] = periodic[t]] /\ tmp' = tmp \cup {t} /\ t \in All
      BY <1>2, <1>6, <2>4
    <3>1. \A u \in tmp' : active'[u] = IF u = t THEN periodic[t] ELSE active[u]
      <4>1. \A u \in tmp' : u \in All
        BY <1>5, <1>6, <3>0
      <4> QED BY <2>1, <3>0, <4>1
    <3>2. \A u \in tmp' : u = t \/ u \in tmp
      BY <1>2, <2>4
    <3>3. \A u \in tmp' : active'[u] => periodic[u] \/ u \in turned
      BY <2>2, <3>1, <3>2
    <3>4. ringing'[FALSE] \in Timer \ Soft /\ mode' = "call" /\ ringing'[TRUE] = ringing[TRUE]
      BY <1>2, <1>5, <1>6, <2>1, <2>4
    <3> QED BY <1>1, <2>2, <3>3, <3>4 DEF Callbacks
  <2> QED BY <2>3, <2>4
<1>12. ThreadSound'
  <2>1. Sleep \in ToSet(hard)' => t # Sleep /\ Sleep \in ToSet(hard)
    BY <1>4
  <2>2. t = Sleep => Asleep
    BY <1>5 DEF TimerInv, ThreadSound
  <2> QED BY <1>1, <1>2, <2>1, <2>2 DEF TimerInv, TimerTypes, ThreadSound, Asleep
<1>13. Deadlines'
  <2>1. mode' \in {"tick", "call"}
    BY <1>1, <1>2
  <2> QED BY <1>1, <1>4, <1>7, <2>1 DEF TimerInv, Deadlines, Lateness
<1>14. TowardsSleep'
  <2>1. Asleep' => Asleep /\ t # Sleep /\ mode' # "open"
    BY <1>1, <1>2 DEF Asleep
  <2>2. Until(next)' = Until(next)
    BY <1>1 DEF Until
  <2>3. t # Sleep /\ Sleep \in ToSet(hard) => Sleep \in ToSet(hard)'
    BY <1>4
  <2> QED BY <1>1, <1>7, <2>1, <2>2, <2>3 DEF TimerInv, TowardsSleep
<1> QED BY <1>8, <1>9, <1>10, <1>11, <1>12, <1>13, <1>14 DEF TimerInv

\* The timer thread takes the first timer that is due.
LEMMA SoftFireStep ==
  ASSUME TimerInv, SoftFire
  PROVE  TimerInv'
<1> DEFINE t == Head(soft)
<1>1. /\ mode \in {"open", "soft"} /\ stat = "ready" /\ at = "check" /\ soft # <<>>
      /\ soft' = Tail(soft) /\ active' = [active EXCEPT ![t] = periodic[t]]
      /\ tmp' = tmp \cup {t} /\ ringing' = [ringing EXCEPT ![TRUE] = t]
      /\ status' = "BUSY" /\ at' = "call" /\ mode' = "open"
      /\ tick' = tick /\ hard' = hard /\ init_tick' = init_tick /\ periodic' = periodic
      /\ timeout_tick' = timeout_tick /\ dead' = dead /\ stopping' = stopping
      /\ stat' = stat /\ next' = next /\ waits' = waits /\ held' = held
      /\ overlooked' = overlooked /\ turned' = turned /\ stale' = stale
  BY DEF SoftFire, CheckAt, Expired, fields, notes
<1>2. soft \in Seq(Soft) /\ IsInjective(soft) /\ (~stale => Sorted(soft, Lefts))
  BY DEF TimerInv, TimerTypes, ListShape
<1>3. /\ soft' \in Seq(Soft) /\ IsInjective(soft') /\ (~stale => Sorted(soft', Lefts))
      /\ ToSet(soft') = ToSet(soft) \ {t}
  BY <1>1, <1>2, Popped
<1>4. t \in ToSet(soft) /\ ToSet(hard) \subseteq All \ Soft /\ ToSet(soft) \subseteq Soft /\ tmp \subseteq Timer
  BY <1>1, <1>2, EmptyToSet, LinkedTypes DEF TimerInv, TimerTypes
<1>5. t \in Soft /\ t \in Timer /\ t # Sleep /\ Timer \subseteq All /\ Soft \subseteq Timer
  BY <1>4, TimerSets
<1> HIDE DEF t
<1>6. Lefts' = Lefts
  BY <1>1 DEF Lefts, Until
<1>7. ListShape'
  BY <1>1, <1>3, <1>6 DEF TimerInv, ListShape
<1>8. /\ active \in [All -> BOOLEAN] /\ ringing \in [BOOLEAN -> Timer \cup {NoTimer}]
      /\ periodic \in [Timer -> BOOLEAN]
  BY DEF TimerInv, TimerTypes
<1>9. \A u \in All : active'[u] = IF u = t THEN periodic[t] ELSE active[u]
  BY <1>1, <1>8
<1>10. TimerTypes'
  <2>1. active' \in [All -> BOOLEAN]
    BY <1>1, <1>5, <1>8
  <2>2. tmp' \subseteq Timer /\ ringing' \in [BOOLEAN -> Timer \cup {NoTimer}]
    BY <1>1, <1>4, <1>5, <1>8
  <2> QED BY <1>1, <1>3, <2>1, <2>2 DEF TimerInv, TimerTypes
<1>11. Membership'
  <2>1. /\ tmp \subseteq {ringing[FALSE], ringing[TRUE]} /\ tmp \cap (ToSet(hard) \cup ToSet(soft)) = {}
        /\ tmp \cap dead = {}
        /\ \A u \in ToSet(hard) \cup ToSet(soft) : active[u] /\ u \notin dead
        /\ \A u \in All : active[u] => u \in ToSet(hard) \cup ToSet(soft) \cup tmp \cup turned
    BY DEF TimerInv, Membership, Linked
  <2>2. Linked' = (ToSet(hard) \cup ToSet(soft)) \ {t}
    BY <1>1, <1>3, <1>4 DEF Linked
  <2>3. \A u \in All \ {t} : active'[u] = active[u]
    BY <1>9
  <2>4. ringing[TRUE] = NoTimer /\ NoTimer \notin Timer
    BY <1>1, TimerSets DEF TimerInv, Callbacks
  <2>5. tmp' \subseteq {ringing'[FALSE], ringing'[TRUE]}
    <3>1. ringing'[FALSE] = ringing[FALSE] /\ ringing'[TRUE] = t
      BY <1>1, <1>8
    <3>2. tmp \subseteq {ringing[FALSE]} /\ tmp' = tmp \cup {t}
      BY <1>1, <1>4, <2>1, <2>4
    <3> QED BY <3>1, <3>2
  <2>6. \A u \in Linked' : active'[u] /\ u \notin dead'
    BY <1>1, <1>4, <1>5, <2>1, <2>2, <2>3
  <2>7. \A u \in All : active'[u] => u \in Linked' \cup tmp' \cup turned'
    BY <1>1, <2>1, <2>2, <2>3
  <2>8. tmp' \cap Linked' = {} /\ tmp' \cap dead' = {}
    BY <1>1, <1>4, <2>1, <2>2
  <2> QED BY <2>5, <2>6, <2>7, <2>8 DEF Membership
<1>12. Callbacks'
  <2>1. /\ ringing[FALSE] = NoTimer
        /\ \A u \in tmp : active[u] => periodic[u] \/ u \in turned
    BY <1>1 DEF TimerInv, Callbacks
  <2>2. \A u \in tmp' : active'[u] => periodic[u] \/ u \in turned
    BY <1>1, <1>4, <1>5, <1>9, <2>1
  <2>3. ringing'[TRUE] \in Soft /\ ringing'[FALSE] = NoTimer
    BY <1>1, <1>5, <1>8, <2>1
  <2>4. mode' = "open" /\ at' = "call" /\ periodic' = periodic /\ turned' = turned
    BY <1>1
  <2> QED BY <2>2, <2>3, <2>4 DEF Callbacks
<1>13. ThreadSound'
  BY <1>1 DEF TimerInv, TimerTypes, ThreadSound, Asleep
<1>14. Deadlines'
  BY <1>1, <1>3, <1>6 DEF TimerInv, Deadlines, Lateness
<1>15. TowardsSleep'
  <2>1. ~Asleep'
    BY <1>1 DEF Asleep
  <2> QED BY <1>1, <2>1 DEF TowardsSleep
<1> QED BY <1>7, <1>10, <1>11, <1>12, <1>13, <1>14, <1>15 DEF TimerInv

-----------------------------------------------------------------------------
(* Timers: the theorems *)

\* The timers start with empty lists.
LEMMA TimerInitial ==
  ASSUME Init
  PROVE  TimerInv
<1>1. /\ hard = <<>> /\ soft = <<>> /\ tmp = {} /\ tick = 0 /\ mode = "open"
      /\ ringing = [s \in BOOLEAN |-> NoTimer] /\ init_tick \in [Timer -> Times]
      /\ timeout_tick = [t \in All |-> 0] /\ periodic \in [Timer -> BOOLEAN]
      /\ active = [t \in All |-> FALSE] /\ dead = {} /\ stopping = NoTimer
      /\ status = "IDLE" /\ stat = "ready" /\ at = "next" /\ next = 0 /\ waits = FALSE /\ held = 0
      /\ overlooked = {} /\ turned = {} /\ stale = FALSE
  BY DEF Init
<1>2. 0 \in 0 .. Modulus - 1 /\ 0 \in 0 .. MaxHeld
  BY ModulusValue, TimerAssumption
<1>3. <<>> \in Seq(All \ Soft) /\ <<>> \in Seq(Soft) /\ ToSet(<<>>) = {}
  BY EmptySeq, EmptyToSet
<1>4. TimerTypes
  BY <1>1, <1>2, <1>3 DEF TimerTypes
<1>5. IsInjective(<<>>) /\ Sorted(<<>>, Lefts)
  BY DEF IsInjective, Sorted
<1>6. ListShape
  BY <1>1, <1>5 DEF ListShape
<1>7. Membership
  BY <1>1, <1>3 DEF Membership, Linked
<1>8. Callbacks /\ ThreadSound
  BY <1>1, <1>3 DEF Callbacks, ThreadSound, Asleep
<1>9. Deadlines /\ TowardsSleep
  BY <1>1, <1>3 DEF Deadlines, TowardsSleep
<1> QED BY <1>4, <1>6, <1>7, <1>8, <1>9 DEF TimerInv

\* A step that changes nothing.
LEMMA TimerStutters ==
  ASSUME TimerInv, UNCHANGED vars
  PROVE  TimerInv'
<1>1. /\ tick' = tick /\ mode' = mode /\ hard' = hard /\ soft' = soft /\ tmp' = tmp /\ ringing' = ringing
      /\ init_tick' = init_tick /\ timeout_tick' = timeout_tick /\ periodic' = periodic
      /\ active' = active /\ dead' = dead /\ stopping' = stopping /\ status' = status /\ stat' = stat
      /\ at' = at /\ next' = next /\ waits' = waits /\ held' = held
      /\ overlooked' = overlooked /\ turned' = turned /\ stale' = stale
  BY DEF vars
<1>2. Lefts' = Lefts /\ Linked' = Linked /\ (Asleep' <=> Asleep) /\ Until(next)' = Until(next)
  BY <1>1 DEF Lefts, Until, Linked, Asleep
<1>3. TimerTypes'
  BY <1>1 DEF TimerInv, TimerTypes
<1>4. ListShape' /\ Membership' /\ Callbacks'
  BY <1>1, <1>2 DEF TimerInv, ListShape, Membership, Callbacks
<1>5. ThreadSound'
  BY <1>1, <1>2 DEF TimerInv, ThreadSound
<1>6. Deadlines' /\ TowardsSleep'
  BY <1>1, <1>2 DEF TimerInv, Deadlines, Lateness, TowardsSleep
<1> QED BY <1>3, <1>4, <1>5, <1>6 DEF TimerInv

\* Every step keeps the invariant.
LEMMA TimerStep ==
  ASSUME TimerInv, [Next]_vars
  PROVE  TimerInv'
<1>1. CASE \E t \in Timer : Call(t)
  <2>1. PICK t \in Timer : Call(t)
    BY <1>1
  <2>2. \/ Start(t) \/ StopTest(t) \/ StopMasked(t) \/ Detach(t)
        \/ \E n \in Times : SetTime(t, n)
        \/ \E kind \in BOOLEAN : SetPeriodic(t, kind)
        \/ \E n \in Times, kind \in BOOLEAN : Reinit(t, n, kind)
    BY <2>1 DEF Call
  <2> QED BY <2>2, StartStep, StopTestStep, StopMaskedStep, DetachStep, SetTimeStep,
             SetPeriodicStep, ReinitStep
<1>2. CASE StopEnd
  BY <1>2, StopEndStep
<1>3. CASE Interrupt
  BY <1>3, TickStep, HardFireStep, HardReturnStep, HardDoneStep DEF Interrupt
<1>4. CASE ThreadStep
  BY <1>4, NextTimeoutStep, SuspendSelfStep, GetDeltaStep, DelayStep, WakeUpStep,
     SoftFireStep, SoftReturnStep, SoftDoneStep DEF ThreadStep
<1>5. CASE CallbackWait \/ CallbackWoken
  BY <1>5, CallbackWaitStep, CallbackWokenStep
<1>6. CASE UNCHANGED vars
  BY <1>6, TimerStutters
<1> QED BY <1>1, <1>2, <1>3, <1>4, <1>5, <1>6 DEF Next

\* The timers keep their invariant.
THEOREM TimerInvariant == Spec => []TimerInv
<1>1. Init => TimerInv
  BY TimerInitial
<1>2. TimerInv /\ [Next]_vars => TimerInv'
  BY TimerStep
<1> QED BY <1>1, <1>2, PTL DEF Spec

\* What the properties say in terms of the ticks left.
LEMMA LeftOf == \A u \in All : Left(u) = Lefts[u]
BY DEF Left, Lefts, Until

\* The invariant has the lists sound.
LEMMA TimerListsHold ==
  ASSUME TimerInv
  PROVE  ListsSound
<1>1. /\ ToSet(hard) \subseteq All \ Soft /\ ToSet(soft) \subseteq Soft
      /\ hard \in Seq(All) /\ soft \in Seq(All)
  <2>1. hard \in Seq(All \ Soft) /\ soft \in Seq(Soft)
    BY DEF TimerInv, TimerTypes
  <2>2. Soft \subseteq All /\ All \ Soft \subseteq All
    BY TimerSets
  <2> QED BY <2>1, <2>2, EmptyToSet
<1>2. Ordered(hard) /\ (~stale => Ordered(soft))
  <2>1. \A i \in DOMAIN hard : hard[i] \in All
    BY <1>1, LenProperties, ElementOfSeq
  <2>2. \A i \in DOMAIN soft : soft[i] \in All
    BY <1>1, LenProperties, ElementOfSeq
  <2>3. Sorted(hard, Lefts) /\ (~stale => Sorted(soft, Lefts))
    BY DEF TimerInv, ListShape
  <2> QED BY <2>1, <2>2, <2>3, LeftOf DEF Ordered, Sorted
<1>3. /\ Sleep \in All /\ Sleep \notin Soft /\ Sleep \notin Timer /\ Timer \subseteq All
      /\ tmp \subseteq Timer /\ turned \subseteq Timer
  BY TimerSets DEF TimerInv, TimerTypes
<1>4. /\ tmp \subseteq {ringing[FALSE], ringing[TRUE]} \ (ToSet(hard) \cup ToSet(soft))
      /\ \A t \in ToSet(hard) \cup ToSet(soft) : active[t] /\ t \notin dead
      /\ \A t \in All : active[t] => t \in ToSet(hard) \cup ToSet(soft) \cup tmp \cup turned
      /\ tmp \cap dead = {}
  BY DEF TimerInv, Membership, Linked
<1>5. active[Sleep] => Sleep \in ToSet(hard)
  BY <1>1, <1>3, <1>4
<1>6. \A t \in Timer : active[t] => t \in ToSet(hard) \cup ToSet(soft) \cup tmp \cup turned
  BY <1>3, <1>4
<1> QED BY <1>1, <1>2, <1>4, <1>5, <1>6 DEF TimerInv, ListShape, ListsSound

\* The timer lists of timer.c stay sound, whatever the tick counter wraps: each in
\* the order of its deadlines, no timer in two of them, a timer active exactly when
\* it is linked, about to be restarted or made one-shot by its callback, and nothing
\* left of a detached timer.  The order of the soft list is given up only when a
\* timer that the timer thread overlooked has gone stale.
THEOREM TimerListsSound == Spec => []ListsSound
<1>1. TimerInv => ListsSound
  BY TimerListsHold
<1> QED BY <1>1, TimerInvariant, PTL

\* The timer thread never sleeps through a soft timer that was in its list when it
\* looked or is started while it sleeps, for any bound on the ticks it can be kept
\* from the processor on its way to sleep, and whatever is started in between.
THEOREM TimerThreadSleeps == Spec => []SleepsNoLonger
<1>1. ASSUME TimerInv PROVE SleepsNoLonger
  <2>1. SUFFICES ASSUME Asleep, ~stale, NEW t \in ToSet(soft) \ overlooked
                 PROVE  Sleep \in ToSet(hard) /\ Left(Sleep) <= Left(t) + MaxHeld
    BY DEF SleepsNoLonger
  <2>2. t \in All /\ Sleep \in All
    BY <1>1, Numbers, TimerSets
  <2>3. Sleep \in ToSet(hard) /\ Lefts[Sleep] <= Lefts[t] + MaxHeld
    BY <1>1, <2>1 DEF TimerInv, TowardsSleep
  <2> QED BY <2>2, <2>3, LeftOf
<1> QED BY <1>1, TimerInvariant, PTL

-----------------------------------------------------------------------------
(* Timers: alarms on an integer clock *)

\* The abstract state.
Armed     == Linked \ {Sleep}
Remaining == [t \in Timer |-> IF t \in Linked THEN Lefts[t] ELSE 0]

\* It is the one of the refinement mapping.
LEMMA AlarmView ==
  /\ Armed = (ToSet(hard) \cup ToSet(soft)) \ {Sleep}
  /\ Armed' = (ToSet(hard') \cup ToSet(soft')) \ {Sleep}
  /\ Remaining = [t \in Timer |-> IF t \in ToSet(hard) \cup ToSet(soft) THEN Left(t) ELSE 0]
  /\ Remaining' = [t \in Timer |-> IF t \in ToSet(hard') \cup ToSet(soft') THEN Left(t)' ELSE 0]
<1>1. Timer \subseteq All
  BY TimerSets
<1>2. /\ Armed = (ToSet(hard) \cup ToSet(soft)) \ {Sleep}
      /\ Armed' = (ToSet(hard') \cup ToSet(soft')) \ {Sleep}
  BY DEF Armed, Linked
<1>3. Remaining = [t \in Timer |-> IF t \in ToSet(hard) \cup ToSet(soft) THEN Left(t) ELSE 0]
  BY <1>1 DEF Remaining, Linked, Left, Lefts, Until
<1>4. Remaining' = [t \in Timer |-> IF t \in ToSet(hard') \cup ToSet(soft') THEN Left(t)' ELSE 0]
  BY <1>1 DEF Remaining, Linked, Left, Lefts, Until
<1> QED BY <1>2, <1>3, <1>4

\* Linking, unlinking and leaving timers alone, as the abstract state sees it.
LEMMA ArmedLinked ==
  ASSUME NEW t \in Timer, NEW n, Linked' \ {Sleep} = (Linked \cup {t}) \ {Sleep},
         \A u \in Timer \ {t} : Lefts'[u] = Lefts[u], Lefts'[t] = n
  PROVE  Armed' = Armed \cup {t} /\ Remaining' = [Remaining EXCEPT ![t] = n]
<1>1. t # Sleep /\ Sleep \notin Timer
  BY TimerSets
<1>2. \A u \in Timer : u \in Linked' <=> u \in Linked \/ u = t
  BY <1>1
<1> QED BY <1>1, <1>2 DEF Armed, Remaining

LEMMA ArmedUnlinked ==
  ASSUME NEW t \in Timer, Linked' \ {Sleep} = Linked \ {t, Sleep},
         \A u \in Timer : Lefts'[u] = Lefts[u]
  PROVE  Armed' = Armed \ {t} /\ Remaining' = [Remaining EXCEPT ![t] = 0]
<1>1. t # Sleep /\ Sleep \notin Timer
  BY TimerSets
<1>2. \A u \in Timer : u \in Linked' <=> u \in Linked /\ u # t
  BY <1>1
<1> QED BY <1>1, <1>2 DEF Armed, Remaining

LEMMA ArmedKept ==
  ASSUME Linked' \ {Sleep} = Linked \ {Sleep}, \A u \in Timer : Lefts'[u] = Lefts[u]
  PROVE  Armed' = Armed /\ Remaining' = Remaining
<1>1. \A u \in Timer : u \in Linked' <=> u \in Linked
  BY TimerSets
<1> QED BY <1>1 DEF Armed, Remaining

\* The steps of the abstract specification in terms of that state.
LEMMA AlarmArm ==
  ASSUME NEW t \in Timer, Armed' = Armed \cup {t}, Remaining' = [Remaining EXCEPT ![t] = init_tick[t]],
         init_tick' = init_tick, ringing' = ringing
  PROVE  Alarms!Next
<1>1. Alarms!Arm(t)
  BY AlarmView DEF Alarms!Arm
<1> QED BY <1>1 DEF Alarms!Next

LEMMA AlarmDisarm ==
  ASSUME NEW t \in Timer, Armed' = Armed \ {t}, Remaining' = [Remaining EXCEPT ![t] = 0],
         init_tick' = init_tick, ringing' = ringing
  PROVE  Alarms!Next
<1>1. Alarms!Disarm(t)
  BY AlarmView DEF Alarms!Disarm
<1> QED BY <1>1 DEF Alarms!Next

LEMMA AlarmPeriod ==
  ASSUME NEW t \in Timer, NEW n \in Nat, init_tick \in [Timer -> Nat],
         init_tick' = [init_tick EXCEPT ![t] = n],
         Armed' = Armed, Remaining' = Remaining, ringing' = ringing
  PROVE  Alarms!Next
<1>1. init_tick' \in [Timer -> Nat] /\ \A u \in Timer \ {t} : init_tick'[u] = init_tick[u]
  OBVIOUS
<1>2. Alarms!SetPeriod(t)
  BY <1>1, AlarmView DEF Alarms!SetPeriod
<1> QED BY <1>2 DEF Alarms!Next

LEMMA AlarmRing ==
  ASSUME NEW t \in Timer, NEW s \in BOOLEAN, s = (t \in Soft),
         t \in Armed, Remaining[t] <= 0,
         \A u \in Armed : (u \in Soft) = s => Remaining[t] <= Remaining[u],
         ringing[s] = NoTimer, ringing' = [ringing EXCEPT ![s] = t],
         Armed' = Armed \ {t}, Remaining' = [Remaining EXCEPT ![t] = 0], init_tick' = init_tick
  PROVE  Alarms!Next
<1>1. Alarms!Ring(t)
  BY AlarmView DEF Alarms!Ring, Alarms!IsSoft
<1> QED BY <1>1 DEF Alarms!Next

LEMMA AlarmReturn ==
  ASSUME NEW s \in BOOLEAN, ringing[s] # NoTimer, ringing' = [ringing EXCEPT ![s] = NoTimer],
         init_tick' = init_tick,
         \/ Armed' = Armed /\ Remaining' = Remaining
         \/ /\ ringing[s] \notin Armed /\ Armed' = Armed \cup {ringing[s]}
            /\ Remaining' = [Remaining EXCEPT ![ringing[s]] = init_tick[ringing[s]]]
  PROVE  Alarms!Next
<1>1. Alarms!Return(s)
  BY AlarmView DEF Alarms!Return
<1> QED BY <1>1 DEF Alarms!Next

LEMMA AlarmPass ==
  ASSUME ringing[FALSE] = NoTimer, \A t \in Armed : t \notin Soft => Remaining[t] > 0,
         Remaining' = [t \in Timer |-> IF t \in Armed THEN Remaining[t] - 1 ELSE 0],
         Armed' = Armed, init_tick' = init_tick, ringing' = ringing
  PROVE  Alarms!Next
<1>1. Alarms!Pass
  BY AlarmView DEF Alarms!Pass, Alarms!IsSoft
<1> QED BY <1>1 DEF Alarms!Next

LEMMA AlarmStutter ==
  ASSUME Armed' = Armed, Remaining' = Remaining, init_tick' = init_tick, ringing' = ringing
  PROVE  UNCHANGED Alarms!alarm
BY AlarmView DEF Alarms!alarm

\* Every step of the timers is a step of the alarms, or changes nothing of them.
LEMMA StartAlarm ==
  ASSUME TimerInv, NEW t \in Timer, Start(t)
  PROVE  Alarms!Next
<1>1. /\ rt_timer_start(t) /\ tick' = tick /\ init_tick' = init_tick /\ ringing' = ringing
      /\ stale' = stale
  BY DEF Start, fields
<1>2. /\ Lefts' = [Lefts EXCEPT ![t] = init_tick[t]]
      /\ ToSet(hard)' = IF t \notin Soft THEN ToSet(hard) \cup {t}
                        ELSE IF Resumes(t) THEN ToSet(hard) \ {Sleep} ELSE ToSet(hard)
      /\ ToSet(soft)' = IF t \in Soft THEN ToSet(soft) \cup {t} ELSE ToSet(soft)
  BY <1>1, Started DEF TimerInv
<1>3. Lefts \in [All -> Int] /\ Timer \subseteq All
  BY LeftsType, TimerSets DEF TimerInv
<1>4. (\A u \in Timer \ {t} : Lefts'[u] = Lefts[u]) /\ Lefts'[t] = init_tick[t]
  BY <1>2, <1>3
<1>5. Linked' \ {Sleep} = (Linked \cup {t}) \ {Sleep}
  BY <1>2 DEF Linked
<1>6. Armed' = Armed \cup {t} /\ Remaining' = [Remaining EXCEPT ![t] = init_tick[t]]
  BY <1>4, <1>5, ArmedLinked
<1> QED BY <1>1, <1>6, AlarmArm

LEMMA RemoveAlarm ==
  ASSUME TimerInv, NEW t \in Timer, TimerRemove(t), UNCHANGED <<tick, timeout_tick, init_tick, ringing, stale>>
  PROVE  Alarms!Next
<1>1. /\ Lefts' = Lefts
      /\ ToSet(hard)' = ToSet(hard) \ {t} /\ ToSet(soft)' = ToSet(soft) \ {t}
  BY Removed DEF TimerInv
<1>2. Linked' \ {Sleep} = Linked \ {t, Sleep}
  BY <1>1 DEF Linked
<1>3. Armed' = Armed \ {t} /\ Remaining' = [Remaining EXCEPT ![t] = 0]
  BY <1>1, <1>2, ArmedUnlinked
<1> QED BY <1>3, AlarmDisarm

\* A new time.
LEMMA PeriodAlarm ==
  ASSUME TimerInv, NEW t \in Timer, NEW n \in Times, init_tick' = [init_tick EXCEPT ![t] = n],
         UNCHANGED <<lists, tick, timeout_tick, ringing, stale>>
  PROVE  Alarms!Next
<1>1. Linked' = Linked /\ Lefts' = Lefts
  BY ListsKept DEF TimerInv
<1>2. Armed' = Armed /\ Remaining' = Remaining
  BY <1>1, ArmedKept
<1>3. n \in Nat /\ init_tick \in [Timer -> Nat]
  <2>1. Times \subseteq Nat
    BY TimerAssumption
  <2> QED BY <2>1 DEF TimerInv, TimerTypes
<1> QED BY <1>2, <1>3, AlarmPeriod

\* The alarms see nothing of a step that leaves the lists and the time alone.
LEMMA QuietAlarm ==
  ASSUME ListShape, UNCHANGED <<lists, tick, timeout_tick, ringing, init_tick, stale>>
  PROVE  UNCHANGED Alarms!alarm
<1>1. Linked' = Linked /\ Lefts' = Lefts
  BY ListsKept
<1>2. Armed' = Armed /\ Remaining' = Remaining
  BY <1>1, ArmedKept
<1> QED BY <1>2, AlarmStutter

\* The timer thread's own timer is not one of the alarms.
LEMMA SleepAlarm ==
  ASSUME TimerInv, Linked' \ {Sleep} = Linked \ {Sleep}, \A u \in Timer : Lefts'[u] = Lefts[u],
         UNCHANGED <<ringing, init_tick>>
  PROVE  UNCHANGED Alarms!alarm
BY ArmedKept, AlarmStutter

LEMMA TickAlarm ==
  ASSUME TimerInv, ~stale, Tick
  PROVE  Alarms!Next
<1>1. /\ mode = "open" /\ hard' = hard /\ soft' = soft /\ ringing' = ringing /\ init_tick' = init_tick
  BY DEF Tick, lists, fields
<1>2. \A u \in Linked : Lefts[u] \in Int /\ Lefts'[u] = Lefts[u] - 1
  BY Ticked
<1>3. Linked' = Linked /\ Armed' = Armed
  BY <1>1 DEF Linked, Armed
<1>4. Sleep \notin Timer /\ Soft \subseteq Timer /\ Linked \subseteq All /\ All = Timer \cup {Sleep}
  BY Numbers, TimerSets DEF Linked
<1>5. \A u \in Timer : u \in Linked <=> u \in Armed
  BY <1>4 DEF Armed
<1>6. Remaining' = [u \in Timer |-> IF u \in Armed THEN Remaining[u] - 1 ELSE 0]
  BY <1>2, <1>3, <1>5 DEF Remaining
<1>7. ringing[FALSE] = NoTimer
  BY <1>1 DEF TimerInv, Callbacks
<1>8. ASSUME NEW u \in Armed, u \notin Soft PROVE Remaining[u] > 0
  <2>1. u \in Timer /\ u \in ToSet(hard) /\ u # Sleep
    BY <1>4, <1>8, LinkedTypes DEF Armed, Linked, TimerInv
  <2>2. Lefts[u] >= 1 - 0
    BY <1>1, <2>1 DEF TimerInv, Deadlines, Lateness
  <2>3. Lefts[u] \in Int /\ Remaining[u] = Lefts[u]
    BY <1>2, <2>1 DEF Remaining, Linked
  <2> QED BY <2>2, <2>3
<1> QED BY <1>1, <1>3, <1>6, <1>7, <1>8, AlarmPass

\* A timer that rings is due, and the first of its list.
LEMMA HardFireAlarm ==
  ASSUME TimerInv, HardFire
  PROVE  Alarms!Next \/ UNCHANGED Alarms!alarm
<1> DEFINE t == Head(hard)
<1>1. /\ mode = "tick" /\ Expired(hard) /\ hard # <<>> /\ hard' = Tail(hard)
      /\ tick' = tick /\ soft' = soft /\ init_tick' = init_tick /\ timeout_tick' = timeout_tick
      /\ IF t = Sleep THEN ringing' = ringing ELSE ringing' = [ringing EXCEPT ![FALSE] = t]
  BY DEF HardFire, Expired, fields
<1>2. hard \in Seq(All \ Soft) /\ IsInjective(hard) /\ Sorted(hard, Lefts)
  BY DEF TimerInv, TimerTypes, ListShape
<1>3. ToSet(hard') = ToSet(hard) \ {t}
  BY <1>1, <1>2, Popped
<1>4. /\ t \in ToSet(hard) /\ Lefts[t] <= 0
      /\ \A u \in ToSet(hard) : Lefts[t] <= Lefts[u]
  BY <1>1, HardFirst
<1>5. /\ ToSet(hard) \subseteq All \ Soft /\ ToSet(soft) \subseteq Soft /\ Soft \subseteq Timer
      /\ Sleep \notin Timer /\ All = Timer \cup {Sleep}
  BY LinkedTypes, TimerSets DEF TimerInv
<1> HIDE DEF t
<1>6. Lefts' = Lefts /\ Linked' = Linked \ {t}
  BY <1>1, <1>3, <1>4, <1>5 DEF Lefts, Until, Linked
<1>7. CASE t = Sleep
  <2>1. ringing' = ringing /\ Linked' \ {Sleep} = Linked \ {Sleep} /\ \A u \in Timer : Lefts'[u] = Lefts[u]
    BY <1>1, <1>6, <1>7
  <2> QED BY <1>1, <2>1, SleepAlarm
<1>8. CASE t # Sleep
  <2>1. t \in Timer /\ t \notin Soft
    BY <1>4, <1>5, <1>8
  <2>2. Linked' \ {Sleep} = Linked \ {t, Sleep} /\ \A u \in Timer : Lefts'[u] = Lefts[u]
    BY <1>6
  <2>3. Armed' = Armed \ {t} /\ Remaining' = [Remaining EXCEPT ![t] = 0]
    BY <2>1, <2>2, ArmedUnlinked
  <2>4. t \in Armed /\ Remaining[t] = Lefts[t]
    BY <1>4, <1>8, <2>1 DEF Armed, Remaining, Linked
  <2>5. ASSUME NEW u \in Armed, (u \in Soft) = FALSE PROVE Remaining[t] <= Remaining[u]
    <3>1. u \in Timer /\ u \in ToSet(hard) /\ u \in Linked
      BY <2>5, <1>5 DEF Armed, Linked
    <3>2. Remaining[u] = Lefts[u]
      BY <3>1 DEF Remaining
    <3> QED BY <1>4, <2>4, <3>1, <3>2
  <2>6. ringing[FALSE] = NoTimer /\ ringing' = [ringing EXCEPT ![FALSE] = t]
    BY <1>1, <1>8 DEF TimerInv, Callbacks
  <2>7. FALSE \in BOOLEAN /\ FALSE = (t \in Soft) /\ Remaining[t] <= 0
    BY <1>4, <2>1, <2>4
  <2> QED BY <1>1, <2>1, <2>3, <2>4, <2>5, <2>6, <2>7, AlarmRing
<1> QED BY <1>7, <1>8

LEMMA SoftFireAlarm ==
  ASSUME TimerInv, ~stale, SoftFire
  PROVE  Alarms!Next
<1> DEFINE t == Head(soft)
<1>1. /\ at = "check" /\ Expired(soft) /\ soft # <<>> /\ soft' = Tail(soft)
      /\ tick' = tick /\ hard' = hard /\ init_tick' = init_tick /\ timeout_tick' = timeout_tick
      /\ ringing' = [ringing EXCEPT ![TRUE] = t]
  BY DEF SoftFire, CheckAt, Expired, fields
<1>2. soft \in Seq(Soft) /\ IsInjective(soft) /\ Sorted(soft, Lefts)
  BY DEF TimerInv, TimerTypes, ListShape
<1>3. ToSet(soft') = ToSet(soft) \ {t}
  BY <1>1, <1>2, Popped
<1>4. /\ t \in ToSet(soft) /\ Lefts[t] <= 0
      /\ \A u \in ToSet(soft) : Lefts[t] <= Lefts[u]
  BY <1>1, SoftFirst
<1>5. /\ ToSet(hard) \subseteq All \ Soft /\ ToSet(soft) \subseteq Soft /\ Soft \subseteq Timer
      /\ Sleep \notin Timer /\ All = Timer \cup {Sleep}
  BY LinkedTypes, TimerSets DEF TimerInv
<1> HIDE DEF t
<1>6. Lefts' = Lefts /\ Linked' = Linked \ {t}
  BY <1>1, <1>3, <1>4, <1>5 DEF Lefts, Until, Linked
<1>7. t \in Timer /\ t \in Soft /\ t # Sleep
  BY <1>4, <1>5
<1>8. Linked' \ {Sleep} = Linked \ {t, Sleep} /\ \A u \in Timer : Lefts'[u] = Lefts[u]
  BY <1>6
<1>9. Armed' = Armed \ {t} /\ Remaining' = [Remaining EXCEPT ![t] = 0]
  BY <1>7, <1>8, ArmedUnlinked
<1>10. t \in Armed /\ Remaining[t] = Lefts[t]
  BY <1>4, <1>7 DEF Armed, Remaining, Linked
<1>11. ASSUME NEW u \in Armed, (u \in Soft) = TRUE PROVE Remaining[t] <= Remaining[u]
  <2>1. u \in Timer /\ u \in ToSet(soft) /\ u \in Linked
    BY <1>11, <1>5 DEF Armed, Linked
  <2>2. Remaining[u] = Lefts[u]
    BY <2>1 DEF Remaining
  <2> QED BY <1>4, <1>10, <2>1, <2>2
<1>12. ringing[TRUE] = NoTimer
  BY <1>1 DEF TimerInv, Callbacks
<1>13. TRUE \in BOOLEAN /\ TRUE = (t \in Soft) /\ Remaining[t] <= 0
  BY <1>4, <1>7, <1>10
<1> QED BY <1>1, <1>7, <1>9, <1>10, <1>11, <1>12, <1>13, AlarmRing

\* A callback has returned.
LEMMA ReturnAlarm ==
  ASSUME TimerInv, NEW s \in BOOLEAN, ringing[s] \in Timer, ringing[s] \in Soft => status = "BUSY",
         AfterCallback(ringing[s]), ringing' = [ringing EXCEPT ![s] = NoTimer],
         UNCHANGED <<tick, init_tick, stale>>
  PROVE  Alarms!Next
<1> DEFINE t == ringing[s]
<1>1. t \in Timer /\ t # NoTimer
  BY TimerSets
<1>2. \/ /\ hard' = hard /\ soft' = soft /\ active' = active /\ Lefts' = Lefts
         /\ t \in tmp => ~active[t] \/ t \in turned
      \/ /\ t \in tmp
         /\ ToSet(hard)' = IF t \in Soft THEN ToSet(hard) ELSE ToSet(hard) \cup {t}
         /\ ToSet(soft)' = IF t \in Soft THEN ToSet(soft) \cup {t} ELSE ToSet(soft)
         /\ t \in Soft => hard' = hard
         /\ t \notin Soft => soft' = soft
         /\ active'[t] /\ \A u \in All \ {t} : active'[u] = active[u]
         /\ \A u \in All \ {t} : Lefts'[u] = Lefts[u]
         /\ Lefts'[t] = init_tick[t]
  BY <1>1, Returned
<1>3. \/ Armed' = Armed /\ Remaining' = Remaining
      \/ t \notin Armed /\ Armed' = Armed \cup {t} /\ Remaining' = [Remaining EXCEPT ![t] = init_tick[t]]
  <2>1. CASE hard' = hard /\ soft' = soft /\ Lefts' = Lefts
    <3>1. Linked' = Linked
      BY <2>1 DEF Linked
    <3> QED BY <2>1, <3>1, ArmedKept
  <2>2. CASE /\ t \in tmp
             /\ ToSet(hard)' = IF t \in Soft THEN ToSet(hard) ELSE ToSet(hard) \cup {t}
             /\ ToSet(soft)' = IF t \in Soft THEN ToSet(soft) \cup {t} ELSE ToSet(soft)
             /\ \A u \in All \ {t} : Lefts'[u] = Lefts[u]
             /\ Lefts'[t] = init_tick[t]
    <3>1. t \notin Linked
      BY <2>2 DEF TimerInv, Membership
    <3>2. Linked' \ {Sleep} = (Linked \cup {t}) \ {Sleep}
      BY <2>2 DEF Linked
    <3>3. \A u \in Timer \ {t} : Lefts'[u] = Lefts[u]
      BY <2>2, TimerSets
    <3>4. Armed' = Armed \cup {t} /\ Remaining' = [Remaining EXCEPT ![t] = init_tick[t]]
      BY <1>1, <2>2, <3>2, <3>3, ArmedLinked
    <3> QED BY <3>1, <3>4 DEF Armed
  <2> QED BY <1>2, <2>1, <2>2
<1> QED BY <1>1, <1>3, AlarmReturn

\* Nothing makes a stale list fresh.
LEMMA StaleStays ==
  ASSUME [Next]_vars, stale
  PROVE  stale'
<1>1. CASE \E t \in Timer : Call(t)
  BY <1>1 DEF Call, Start, StopTest, StopMasked, Detach, SetTime, SetPeriodic, Reinit, notes
<1>2. CASE StopEnd \/ Interrupt
  BY <1>2 DEF StopEnd, Interrupt, Tick, HardFire, HardReturn, HardDone, notes
<1>3. CASE ThreadStep
  BY <1>3 DEF ThreadStep, NextTimeout, SuspendSelf, GetDelta, Delay, WakeUp, SoftFire, SoftReturn,
              SoftDone, notes
<1>4. CASE CallbackWait \/ CallbackWoken \/ UNCHANGED vars
  BY <1>4 DEF CallbackWait, CallbackWoken, vars, notes
<1> QED BY <1>1, <1>2, <1>3, <1>4 DEF Next

\* Together.
LEMMA TimerAlarmStep ==
  ASSUME TimerInv, ~stale', [Next]_vars
  PROVE  [Alarms!Next]_(Alarms!alarm)
<1>1. ListShape
  BY DEF TimerInv
<1>0. ~stale
  BY StaleStays
<1>2. CASE \E t \in Timer : Call(t)
  <2>1. PICK t \in Timer : Call(t)
    BY <1>2
  <2>2. CASE Start(t)
    BY <2>2, StartAlarm
  <2>3. CASE StopMasked(t) \/ Detach(t)
    BY <2>3, RemoveAlarm DEF StopMasked, Detach, fields, notes
  <2>4. CASE \E n \in Times : SetTime(t, n)
    BY <2>4, PeriodAlarm DEF SetTime, notes
  <2>5. CASE \E n \in Times, kind \in BOOLEAN : Reinit(t, n, kind)
    BY <2>5, PeriodAlarm DEF Reinit, notes
  <2>6. CASE StopTest(t)
    BY <1>1, <2>6, QuietAlarm DEF StopTest, fields, notes
  <2>7. CASE \E kind \in BOOLEAN : SetPeriodic(t, kind)
    BY <1>1, <2>7, QuietAlarm DEF SetPeriodic, notes
  <2> QED BY <2>1, <2>2, <2>3, <2>4, <2>5, <2>6, <2>7 DEF Call
<1>3. CASE StopEnd
  <2>1. stopping \in Timer
    BY <1>3 DEF StopEnd, TimerInv, TimerTypes
  <2> QED BY <1>3, <2>1, RemoveAlarm DEF StopEnd, fields
<1>4. CASE Tick
  BY <1>0, <1>4, TickAlarm
<1>5. CASE HardFire
  BY <1>5, HardFireAlarm
<1>6. CASE SoftFire
  BY <1>0, <1>6, SoftFireAlarm
<1>7. CASE HardReturn
  <2>1. ringing[FALSE] \in Timer \ Soft
    BY <1>7 DEF HardReturn, TimerInv, Callbacks
  <2> QED BY <1>7, <2>1, ReturnAlarm DEF HardReturn, fields
<1>8. CASE SoftReturn
  <2>1. ringing[TRUE] \in Soft /\ status = "BUSY"
    BY <1>8 DEF SoftReturn, ThreadAt, TimerInv, Callbacks, ThreadSound
  <2>2. ringing[TRUE] \in Timer
    BY <2>1, TimerSets
  <2> QED BY <1>8, <2>1, <2>2, ReturnAlarm DEF SoftReturn, fields
<1>9. CASE Delay
  <2>1. /\ timeout_tick' = [timeout_tick EXCEPT ![Sleep] = (tick + next) % Modulus]
        /\ tick' = tick /\ ringing' = ringing /\ init_tick' = init_tick
    BY <1>9 DEF Delay, fields
  <2>2. \A u \in Timer : Lefts'[u] = Lefts[u]
    <3>1. \A u \in Timer : timeout_tick'[u] = timeout_tick[u]
      BY <2>1, TimerSets DEF TimerInv, TimerTypes
    <3> QED BY <2>1, <3>1, TimerSets DEF Lefts, Until
  <2>3. Linked' = Linked \cup {Sleep}
    BY <1>9, DelayLinks DEF Linked
  <2>4. Linked' \ {Sleep} = Linked \ {Sleep}
    BY <2>3
  <2> QED BY <2>1, <2>2, <2>4, SleepAlarm
<1>10. CASE HardDone \/ NextTimeout \/ SuspendSelf \/ GetDelta \/ WakeUp \/ SoftDone
            \/ CallbackWait \/ CallbackWoken
  BY <1>1, <1>10, QuietAlarm
     DEF HardDone, NextTimeout, SuspendSelf, GetDelta, WakeUp, SoftDone, CallbackWait, CallbackWoken,
         fields, notes
<1>11. CASE UNCHANGED vars
  BY <1>1, <1>11, QuietAlarm DEF vars, lists
<1> QED BY <1>2, <1>3, <1>4, <1>5, <1>6, <1>7, <1>8, <1>9, <1>10, <1>11
        DEF Next, Interrupt, ThreadStep

\* Modular ticks, the two lists, the check loops and the timer thread implement
\* alarms on an integer clock that does not wrap: a timer rings when its time is
\* up, never before, in the order of the deadlines, and not after it was stopped;
\* until a timer that the timer thread overlooked has gone stale.
THEOREM TimerAlarms == Spec => ImplementsAlarm
<1>1. ASSUME Init PROVE Alarms!Init
  <2>1. /\ hard = <<>> /\ soft = <<>> /\ ToSet(<<>>) = {}
        /\ init_tick \in [Timer -> Times] /\ ringing = [s \in BOOLEAN |-> NoTimer]
    BY <1>1, EmptyToSet, EmptySeq DEF Init
  <2>2. init_tick \in [Timer -> Nat]
    <3>1. Times \subseteq Nat
      BY TimerAssumption
    <3> QED BY <2>1, <3>1
  <2> QED BY <2>1, <2>2 DEF Alarms!Init
<1>2. TimerInv /\ [Next]_vars => [stale' \/ Alarms!Next]_(Alarms!alarm)
  BY TimerAlarmStep
<1>3. Spec => []TimerInv
  BY TimerInvariant
<1> QED BY <1>1, <1>2, <1>3, PTL DEF Spec, ImplementsAlarm
=============================================================================
