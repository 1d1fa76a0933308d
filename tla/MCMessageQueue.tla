--------------------------- MODULE MCMessageQueue ---------------------------
(* Small instances of MessageQueue for TLC. *)
EXTENDS MessageQueue

CONSTANTS t1, t2, idle, receivers, senders, msgA, msgB, none, b1, b2, null

MCThread   == {t1, t2, idle}
MCBasePrio == (t1 :> 0) @@ (t2 :> 1) @@ (idle :> 2)

MCInitTick == [t \in Thread |-> 1]
MCTimeouts == {Forever, 0, 1}

\* The message in a block that is free, or not filled yet, is never read, and
\* neither is the error that a finished call has left.
Read == ToSet(Chain(next, head)) \cup
        {msg[t] : t \in {u \in Thread : pc[u] \in {"link", "link_urgent", "drain"}}}

View ==
  <<[k EXCEPT !.err = [t \in Thread |-> IF Inside(t) THEN k.err[t] ELSE "EOK"]],
    isr, pc, call, due, object, next, [i \in Item |-> IF i \in Read THEN data[i] ELSE Nothing],
    head, tail, free, mq_entry, msg, mq_got>>
=============================================================================
