------------------------------ MODULE MCEvent ------------------------------
(* Small instances of Event for TLC. *)
EXTENDS Event

CONSTANTS t1, t2, idle, event, bitA, bitB

MCThread   == {t1, t2, idle}
MCBasePrio == (t1 :> 0) @@ (t2 :> 1) @@ (idle :> 2)

MCInitTick == [t \in Thread |-> 1]
MCTimeouts == {Forever, 0, 1}

\* A thread's error and event information are read only inside rt_event_recv:
\* states that differ in what a finished call has left there are the same.
Inside(t) == pc[t] \in {"blocked", "woken"}

View ==
  <<[k EXCEPT !.err = [t \in Thread |-> IF Inside(t) THEN k.err[t] ELSE "EOK"]],
    isr, pc, set, {<<t, info[t]>> : t \in {u \in Thread : Inside(u)}}, asked, owed, object, n,
    need_schedule>>
=============================================================================
