---------------------------- MODULE MCWorkQueue ----------------------------
(* A small instance of WorkQueue for TLC. *)
EXTENDS WorkQueue

CONSTANTS w1, w2, none, c1, c2

\* No calls for a work cross its timer.
Unmixed == ~mixed

\* Bound: where calls for a work crossed its timer, nobody is in
\* rt_workqueue_cancel_work_sync or rt_workqueue_cancel_all_work, and a failed
\* assertion ends the behaviour.
FewMixed ==
  mixed => /\ \A c \in Caller : sync[c].at = "idle"
           /\ crit = "none"
           /\ handler.at # "failed" /\ ~stuck

\* What was accepted or lost is not read any more after such calls.
View ==
  <<work_lists, work_current, flags, timers, worker, crit, sync, stuck, mixed,
    IF mixed THEN {} ELSE accepted, IF mixed THEN {} ELSE lost>>

\* No timer is detached before its submitter has started it.
StartsUndisturbed == \A w \in Work : starting[w] > 0 => w \in submitting
=============================================================================
