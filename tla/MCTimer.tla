------------------------------ MODULE MCTimer ------------------------------
(* Small instances of Timer for TLC. *)
EXTENDS Timer

CONSTANTS h, s1, s2, sleep, none

\* The deadline a timer had is not read while it does not run, nor is the history
\* of a timer outside the list.
View ==
  <<tick, mode, hard, soft, tmp, ringing, init_tick,
    [t \in All |-> IF active[t] THEN timeout_tick[t] ELSE 0],
    periodic, active, dead, stopping, status, stat, at, next, waits, held,
    overlooked \cap ToSet(soft), {t \in turned : active[t]}, stale>>

\* Behaviours end where the comparison of ticks is no longer reliable.
Fresh == ~stale

\* Bound: the time of the hard timer is not changed, and it is one-shot only beside
\* a soft timer that is one-shot and of the same time.
FewChanges ==
  /\ init_tick[h] = 2
  /\ periodic[h] \/ (~periodic[s1] /\ init_tick[s1] = 2)
=============================================================================
