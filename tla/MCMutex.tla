------------------------------ MODULE MCMutex ------------------------------
(* Small instances of Mutex for TLC. *)
EXTENDS Mutex

CONSTANTS low, mid, high, idle, m1, m2, none

MCThread == {low, mid, high, idle}
MCTwo    == {low, high, idle}

MCBasePrio == (high :> 0) @@ (mid :> 1) @@ (low :> 2) @@ (idle :> 3)
MCTwoPrio  == (high :> 0) @@ (low :> 2) @@ (idle :> 3)

MCInitTick == [t \in Thread |-> 1]

\* Waiting for ever, not at all, and for one tick.
MCTimeouts == {Forever, 0, 1}
MCForever  == {Forever}
=============================================================================
