---------------------------- MODULE MCScheduler ----------------------------
(* Small instances of Scheduler for TLC. *)
EXTENDS Scheduler

CONSTANTS t1, t2, t3, idle

MCThread == {t1, t2, t3, idle}

\* t1 and t2 share a priority, t3 is less urgent.
MCBasePrio == (t1 :> 0) @@ (t2 :> 0) @@ (t3 :> 1) @@ (idle :> 2)

\* A slice of two ticks can be interrupted in the middle.
MCInitTick == (t1 :> 2) @@ (t2 :> 1) @@ (t3 :> 1) @@ (idle :> 1)

MCTwo == {t1, t2, idle}
MCTwoPrio == (t1 :> 0) @@ (t2 :> 1) @@ (idle :> 2)
MCTwoTick == (t1 :> 2) @@ (t2 :> 1) @@ (idle :> 1)

\* Slices end at every tick.
MCOneTick == [t \in MCThread |-> 1]

\* Three threads of equal priority.
MCEqualPrio == (t1 :> 0) @@ (t2 :> 0) @@ (t3 :> 0) @@ (idle :> 2)
=============================================================================
