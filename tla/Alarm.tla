------------------------------- MODULE Alarm -------------------------------
(***************************************************************************)
(* What timers promise, with time as an integer that does not wrap: an     *)
(* armed timer rings when its time is up and never before, in the order of *)
(* the deadlines, and not after it was disarmed.  Timers served by the     *)
(* tick interrupt ring before the next tick; those in Soft are served by a *)
(* thread and may be late.                                                 *)
(***************************************************************************)
EXTENDS Integers

CONSTANTS Timer, Soft, NoTimer

VARIABLES armed,    \* the timers that run
          left,     \* ticks until each of them is due, negative when late
          period,   \* the time a timer is started for
          ringing   \* ringing[s]: the timer whose callback is running, for
                    \* the soft (s = TRUE) and for the hard timers

alarm == <<armed, left, period, ringing>>

Init ==
  /\ armed = {}
  /\ left = [t \in Timer |-> 0]
  /\ period \in [Timer -> Nat]
  /\ ringing = [s \in BOOLEAN |-> NoTimer]

IsSoft(t) == t \in Soft

Arm(t) ==
  /\ armed' = armed \cup {t}
  /\ left' = [left EXCEPT ![t] = period[t]]
  /\ UNCHANGED <<period, ringing>>

Disarm(t) ==
  /\ armed' = armed \ {t}
  /\ left' = [left EXCEPT ![t] = 0]
  /\ UNCHANGED <<period, ringing>>

SetPeriod(t) ==
  /\ period' \in [Timer -> Nat]
  /\ \A u \in Timer \ {t} : period'[u] = period[u]
  /\ UNCHANGED <<armed, left, ringing>>

\* Never early, and the earliest deadline first.
Ring(t) ==
  /\ t \in armed
  /\ left[t] <= 0
  /\ \A u \in armed : IsSoft(u) = IsSoft(t) => left[t] <= left[u]
  /\ ringing[IsSoft(t)] = NoTimer
  /\ ringing' = [ringing EXCEPT ![IsSoft(t)] = t]
  /\ armed' = armed \ {t}
  /\ left' = [left EXCEPT ![t] = 0]
  /\ UNCHANGED period

\* The callback returns; a periodic timer starts its next whole period.
Return(s) ==
  /\ ringing[s] # NoTimer
  /\ ringing' = [ringing EXCEPT ![s] = NoTimer]
  /\ \/ UNCHANGED <<armed, left>>
     \/ /\ ringing[s] \notin armed
        /\ armed' = armed \cup {ringing[s]}
        /\ left' = [left EXCEPT ![ringing[s]] = period[ringing[s]]]
  /\ UNCHANGED period

\* A tick comes only when every hard timer that was due has rung.
Pass ==
  /\ ringing[FALSE] = NoTimer
  /\ \A t \in armed : ~IsSoft(t) => left[t] > 0
  /\ left' = [t \in Timer |-> IF t \in armed THEN left[t] - 1 ELSE 0]
  /\ UNCHANGED <<armed, period, ringing>>

Next ==
  \/ \E t \in Timer : Arm(t) \/ Disarm(t) \/ SetPeriod(t) \/ Ring(t)
  \/ \E s \in BOOLEAN : Return(s)
  \/ Pass

Spec == Init /\ [][Next]_alarm
=============================================================================
