---------------------------- MODULE MCSemaphore ----------------------------
(* Small instances of Semaphore for TLC. *)
EXTENDS Semaphore

CONSTANTS t1, t2, t3, idle, sem

MCThread == {t1, t2, t3, idle}
MCTwo    == {t1, t2, idle}

\* Two threads of equal priority and one that is more urgent.
MCBasePrio == (t1 :> 1) @@ (t2 :> 1) @@ (t3 :> 0) @@ (idle :> 2)
MCTwoPrio  == (t1 :> 0) @@ (t2 :> 1) @@ (idle :> 2)

MCInitTick == [t \in Thread |-> 1]

\* Waiting for ever, not at all, and for one tick.
MCTimeouts == {Forever, 0, 1}
MCForever  == {Forever}
=============================================================================
