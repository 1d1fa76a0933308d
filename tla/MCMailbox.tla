----------------------------- MODULE MCMailbox -----------------------------
(* Small instances of Mailbox for TLC. *)
EXTENDS Mailbox

CONSTANTS t1, t2, idle, receivers, senders, msgA, msgB, none

MCThread   == {t1, t2, idle}
MCBasePrio == (t1 :> 0) @@ (t2 :> 1) @@ (idle :> 2)

MCInitTick == [t \in Thread |-> 1]
MCTimeouts == {Forever, 0, 2}
MCForever  == {Forever}

\* Slots outside the stretch that holds messages are never read, and neither is
\* the error that a finished call has left.
View ==
  <<[k EXCEPT !.err = [t \in Thread |-> IF Inside(t) THEN k.err[t] ELSE "EOK"]],
    isr, pc, [i \in 1 .. entry |-> pool[Slot(out_offset, i - 1)]],
    entry, in_offset, out_offset, call, due, got, object>>
=============================================================================
