------------------------------- MODULE Timer -------------------------------
(***************************************************************************)
(* timer.c: the hard timer list that the tick interrupt checks, the soft   *)
(* timer list that the timer thread checks, and the sleep of that thread,  *)
(* which is itself a hard timer.  Ticks are counted modulo 2 * Half + 2,   *)
(* as rt_tick is modulo 2^32 with Half = RT_TICK_MAX / 2.                  *)
(*                                                                         *)
(* mode says who has interrupts disabled over several steps:               *)
(*   "open"   nobody; the timer thread, other threads and the tick proceed *)
(*   "tick"   the tick handler is in the loop of rt_timer_check            *)
(*   "call"   ... and in the callback of timer ringing[FALSE]              *)
(*   "soft"   the timer thread is in the loop of rt_soft_timer_check and   *)
(*            has not enabled interrupts since a callback returned         *)
(* Threads of higher priority than the timer thread and interrupt handlers *)
(* can come between any two of its steps; they and the callbacks make the  *)
(* calls.                                                                  *)
(***************************************************************************)
EXTENDS Integers, Sequences, FiniteSets, SequencesExt, Lists

CONSTANTS Timer,      \* the timers of the application
          Soft,       \* those with RT_TIMER_FLAG_SOFT_TIMER
          Sleep,      \* thread_timer of the timer thread
          NoTimer,    \* no timer
          Half,       \* RT_TICK_MAX / 2
          Times,      \* the times a timer may be given
          MaxHeld,    \* ticks the timer thread needs at most from waking up
                      \* to going to sleep again
          Calls       \* calls made beside start and stop

\* rt_timer_init asserts time < RT_TICK_MAX / 2; a periodic timer of no ticks
\* would keep rt_timer_check in its loop.  Deadlines that are compared lie less
\* than half the range apart.
ASSUME TimerAssumption ==
  /\ IsFiniteSet(Timer) /\ Soft \subseteq Timer
  /\ Sleep \notin Timer /\ NoTimer \notin Timer \cup {Sleep}
  /\ Half \in Nat \ {0, 1} /\ MaxHeld \in Nat
  /\ Times \subseteq 1 .. Half - 1
  /\ 2 * MaxHeld < Half
  /\ \A n \in Times : n + 2 * MaxHeld <= Half + 2

VARIABLES tick,       \* rt_tick
          mode,       \* see above
          hard,       \* _timer_list
          soft,       \* _soft_timer_list
          tmp,        \* timers linked in the local list of a check loop
          ringing,    \* ringing[s]: the timer whose callback the soft (TRUE) or
                      \* the hard (FALSE) loop is calling
          init_tick, timeout_tick, periodic, active, \* fields and flags
          dead,       \* timers that are detached or deleted
          stopping,   \* the timer an rt_timer_stop has found active
          status,     \* _soft_timer_status
          stat,       \* _timer_thread.stat: "ready" or "suspend"
          at,         \* where the timer thread is in its code
          next,       \* its local next_timeout
          waits,      \* a soft callback waits for something of its own
          held,       \* ticks since the timer thread woke up
          overlooked, \* history: soft timers started when the thread had looked at
                      \* its list and was not asleep yet, until it looks again
          turned,     \* history: activated timers made one-shot by their callback
          stale       \* history: an overlooked timer is late beyond the bound of
                      \* the others, and comparisons of ticks may be wrong

lists   == <<hard, soft, tmp>>
fields  == <<init_tick, periodic>>
thread  == <<status, stat, at, next, waits, held>>
notes   == <<overlooked, turned, stale>>
vars    == <<tick, mode, hard, soft, tmp, ringing, init_tick, timeout_tick, periodic,
             active, dead, stopping, status, stat, at, next, waits, held,
             overlooked, turned, stale>>

All     == Timer \cup {Sleep}
Modulus == 2 * Half + 2

\* Unsigned subtraction of ticks.
Minus(a, b) == (a - b) % Modulus

\* Ticks until the deadline of t, negative when it is over.
Signed(d) == IF d < Half THEN d ELSE d - Modulus

Left(t) == Signed(Minus(timeout_tick[t], tick))

-----------------------------------------------------------------------------
(* Initialisation: rt_timer_init, rt_system_timer_thread_init *)

Init ==
  /\ tick = 0 /\ mode = "open"
  /\ hard = <<>> /\ soft = <<>> /\ tmp = {}
  /\ ringing = [s \in BOOLEAN |-> NoTimer]
  /\ init_tick \in [Timer -> Times]
  /\ timeout_tick = [t \in All |-> 0]
  /\ periodic \in [Timer -> BOOLEAN]
  /\ active = [t \in All |-> FALSE]
  /\ dead = {} /\ stopping = NoTimer
  /\ status = "IDLE" /\ stat = "ready" /\ at = "next"
  /\ next = 0 /\ waits = FALSE /\ held = 0
  /\ overlooked = {} /\ turned = {} /\ stale = FALSE

-----------------------------------------------------------------------------
(* The lists *)

\* Deadlines are compared as if the tick counter never wrapped.
Position_plain(s, due) ==
  LET later == {i \in DOMAIN s : timeout_tick[s[i]] > due}
  IN  IF later = {} THEN Len(s) + 1 ELSE Min(later)

\* The new timer comes before the first that is due later.
Position(s, due) ==
  LET later == {i \in DOMAIN s : /\ timeout_tick[s[i]] # due
                                 /\ Minus(timeout_tick[s[i]], due) < Half}
  IN  IF later = {} THEN Len(s) + 1 ELSE Min(later)

Link(s, t, due) == InsertAt(s, Position(s, due), t)

\* The first timer of list s is due.
Expired(s) == s # <<>> /\ Minus(tick, timeout_tick[Head(s)]) < Half

\* The timer thread is left to its sleep.
Resumes_never(t) == FALSE

\* A start finds the timer thread idle and asleep.
Resumes(t) == t \in Soft /\ status = "IDLE" /\ stat = "suspend"

\* The timer thread has looked at its list and is not asleep yet.
GoingToSleep == stat = "ready" /\ at \in {"suspend", "tick", "delay"}

\* rt_timer_start.  rt_thread_resume stops the sleep of the timer thread.
rt_timer_start(t) ==
  LET due == (tick + init_tick[t]) % Modulus
  IN  /\ timeout_tick' = [timeout_tick EXCEPT ![t] = due]
      /\ active' = [active EXCEPT ![t] = TRUE, ![Sleep] = @ /\ ~Resumes(t)]
      /\ hard' = IF t \notin Soft THEN Link(Unlink(hard, t), t, due)
                 ELSE IF Resumes(t) THEN Unlink(hard, Sleep) ELSE hard
      /\ soft' = IF t \in Soft THEN Link(Unlink(soft, t), t, due) ELSE soft
      /\ tmp' = tmp \ {t}
      /\ stat' = IF Resumes(t) THEN "ready" ELSE stat
      /\ overlooked' = IF t \in Soft /\ GoingToSleep THEN overlooked \cup {t}
                                                     ELSE overlooked \ {t}
      /\ turned' = turned \ {t}

\* _timer_remove and the ACTIVATED flag
TimerRemove(t) ==
  /\ hard' = Unlink(hard, t) /\ soft' = Unlink(soft, t) /\ tmp' = tmp \ {t}
  /\ active' = [active EXCEPT ![t] = FALSE]
  /\ turned' = turned \ {t}

-----------------------------------------------------------------------------
(* Calls made by threads, interrupt handlers and callbacks *)

MayCall(t) == mode \in {"open", "call"} /\ t \notin dead

Start(t) ==
  /\ MayCall(t)
  /\ rt_timer_start(t)
  /\ UNCHANGED <<tick, mode, ringing, fields, dead, stopping, status, at, next, waits, held,
                 stale>>

\* rt_timer_stop tests the flag before it disables interrupts ...
StopTest(t) ==
  /\ MayCall(t) /\ mode = "open" /\ stopping = NoTimer
  /\ active[t]
  /\ stopping' = t
  /\ UNCHANGED <<tick, mode, lists, ringing, fields, timeout_tick, active, dead, thread, notes>>

StopEnd ==
  /\ mode = "open" /\ stopping # NoTimer
  /\ TimerRemove(stopping)
  /\ stopping' = NoTimer
  /\ UNCHANGED <<tick, mode, ringing, fields, timeout_tick, dead, thread, overlooked, stale>>

\* ... unless the caller has them disabled already.
StopMasked(t) ==
  /\ MayCall(t) /\ mode = "call"
  /\ active[t]
  /\ TimerRemove(t)
  /\ UNCHANGED <<tick, mode, ringing, fields, timeout_tick, dead, stopping, thread,
                 overlooked, stale>>

\* rt_timer_detach and rt_timer_delete, also by the timer's own callback.
Detach(t) ==
  /\ "detach" \in Calls
  /\ MayCall(t) /\ stopping # t
  /\ TimerRemove(t)
  /\ dead' = dead \cup {t}
  /\ UNCHANGED <<tick, mode, ringing, fields, timeout_tick, stopping, thread,
                 overlooked, stale>>

\* rt_timer_init or rt_timer_create
Reinit(t, n, p) ==
  /\ mode \in {"open", "call"} /\ t \in dead
  /\ dead' = dead \ {t}
  /\ init_tick' = [init_tick EXCEPT ![t] = n]
  /\ periodic' = [periodic EXCEPT ![t] = p]
  /\ UNCHANGED <<tick, mode, lists, ringing, timeout_tick, active, stopping, thread, notes>>

\* rt_timer_control.  A periodic timer that is made one-shot while its callback
\* runs is left activated and unlinked.
SetTime(t, n) ==
  /\ "control" \in Calls
  /\ MayCall(t)
  /\ init_tick' = [init_tick EXCEPT ![t] = n]
  /\ UNCHANGED <<tick, mode, lists, ringing, timeout_tick, periodic, active, dead, stopping, thread,
                 notes>>

SetPeriodic(t, p) ==
  /\ "control" \in Calls
  /\ MayCall(t)
  /\ periodic' = [periodic EXCEPT ![t] = p]
  /\ turned' = IF t \in tmp /\ active[t] /\ ~p THEN turned \cup {t} ELSE turned
  /\ UNCHANGED <<tick, mode, lists, ringing, timeout_tick, init_tick, active, dead, stopping, thread,
                 overlooked, stale>>

Call(t) ==
  \/ Start(t) \/ StopTest(t) \/ StopMasked(t) \/ Detach(t)
  \/ \E n \in Times : SetTime(t, n)
  \/ \E p \in BOOLEAN : SetPeriodic(t, p)
  \/ \E n \in Times, p \in BOOLEAN : Reinit(t, n, p)

-----------------------------------------------------------------------------
(* rt_tick_increase and rt_timer_check *)

Asleep == stat = "suspend" /\ ~waits

Tick ==
  /\ mode = "open"
  /\ Asleep \/ held < MaxHeld
  /\ tick' = (tick + 1) % Modulus
  /\ held' = IF Asleep THEN 0 ELSE held + 1
  /\ mode' = "tick"
  /\ stale' = (stale \/ \E t \in ToSet(soft) \cap overlooked : Left(t) <= - 2 * MaxHeld)
  /\ UNCHANGED <<lists, ringing, fields, timeout_tick, active, dead, stopping,
                 status, stat, at, next, waits, overlooked, turned>>

\* The first timer goes to the local list, and its callback is called.  That of
\* the timer thread's own timer, _thread_timeout, makes the thread ready.
HardFire ==
  LET t == Head(hard)
  IN  /\ mode = "tick" /\ Expired(hard)
      /\ hard' = Tail(hard)
      /\ IF t = Sleep
         THEN /\ active' = [active EXCEPT ![t] = FALSE]
              /\ stat' = "ready"
              /\ UNCHANGED <<tmp, ringing, mode>>
         ELSE /\ active' = [active EXCEPT ![t] = periodic[t]]
              /\ tmp' = tmp \cup {t}
              /\ ringing' = [ringing EXCEPT ![FALSE] = t]
              /\ mode' = "call"
              /\ UNCHANGED stat
      /\ UNCHANGED <<tick, soft, fields, timeout_tick, dead, stopping,
                     status, at, next, waits, held, notes>>

\* The callback of timer t has returned: unless it, or somebody else, has
\* detached, stopped or started the timer, a periodic timer starts again.
Restarts_unlinked(t) == t \notin dead /\ periodic[t] /\ active[t]

Restarts(t) == t \in tmp /\ periodic[t] /\ active[t]

AfterCallback(t) ==
  IF Restarts(t)
  THEN rt_timer_start(t)
  ELSE /\ tmp' = tmp \ {t}
       /\ UNCHANGED <<hard, soft, timeout_tick, active, stat, overlooked, turned>>

HardReturn ==
  /\ mode = "call"
  /\ AfterCallback(ringing[FALSE])
  /\ ringing' = [ringing EXCEPT ![FALSE] = NoTimer]
  /\ mode' = "tick"
  /\ UNCHANGED <<tick, fields, dead, stopping, status, at, next, waits, held, stale>>

HardDone ==
  /\ mode = "tick" /\ ~Expired(hard)
  /\ mode' = "open"
  /\ UNCHANGED <<tick, lists, ringing, fields, timeout_tick, active, dead, stopping, thread, notes>>

-----------------------------------------------------------------------------
(* _timer_thread_entry and rt_soft_timer_check *)

ThreadAt(where) == mode = "open" /\ stat = "ready" /\ at = where

\* _timer_list_next_timeout
NextTimeout ==
  /\ ThreadAt("next")
  /\ IF soft = <<>> THEN at' = "suspend" /\ UNCHANGED next
                    ELSE at' = "tick" /\ next' = timeout_tick[Head(soft)]
  /\ UNCHANGED <<tick, mode, lists, ringing, fields, timeout_tick, active, dead, stopping,
                 status, stat, waits, held, notes>>

SuspendSelf ==
  /\ ThreadAt("suspend")
  /\ stat' = "suspend" /\ at' = "asleep" /\ held' = 0
  /\ UNCHANGED <<tick, mode, lists, ringing, fields, timeout_tick, active, dead, stopping,
                 status, next, waits, notes>>

\* The ticks to sleep are computed ...
GetDelta ==
  LET delta == Minus(next, tick)
  IN  /\ ThreadAt("tick")
      /\ IF delta < Half THEN at' = "delay" /\ next' = delta
                         ELSE at' = "check" /\ next' = 0
      /\ UNCHANGED <<tick, mode, lists, ringing, fields, timeout_tick, active, dead, stopping,
                     status, stat, waits, held, notes>>

\* ... and slept, from whatever tick it is by then.
Delay ==
  LET due == (tick + next) % Modulus
  IN  /\ ThreadAt("delay")
      /\ timeout_tick' = [timeout_tick EXCEPT ![Sleep] = due]
      /\ active' = [active EXCEPT ![Sleep] = TRUE]
      /\ hard' = Link(hard, Sleep, due)
      /\ stat' = "suspend" /\ at' = "asleep" /\ next' = 0 /\ held' = 0
      /\ UNCHANGED <<tick, mode, soft, tmp, ringing, fields, dead, stopping, status, waits,
                     notes>>

WakeUp ==
  /\ ThreadAt("asleep")
  /\ at' = "check"
  /\ UNCHANGED <<tick, mode, lists, ringing, fields, timeout_tick, active, dead, stopping,
                 status, stat, next, waits, held, notes>>

CheckAt == mode \in {"open", "soft"} /\ stat = "ready" /\ at = "check"

\* The callback is called with interrupts enabled.
SoftFire ==
  LET t == Head(soft)
  IN  /\ CheckAt /\ Expired(soft)
      /\ soft' = Tail(soft)
      /\ active' = [active EXCEPT ![t] = periodic[t]]
      /\ tmp' = tmp \cup {t}
      /\ ringing' = [ringing EXCEPT ![TRUE] = t]
      /\ status' = "BUSY" /\ at' = "call" /\ mode' = "open"
      /\ UNCHANGED <<tick, hard, fields, timeout_tick, dead, stopping, stat, next, waits, held,
                     notes>>

\* The loop goes on in the interrupt-disabled section that follows the callback.
SoftReturn ==
  /\ ThreadAt("call")
  /\ AfterCallback(ringing[TRUE])
  /\ ringing' = [ringing EXCEPT ![TRUE] = NoTimer]
  /\ status' = "IDLE" /\ at' = "check" /\ mode' = "soft"
  /\ UNCHANGED <<tick, fields, dead, stopping, next, waits, held, stale>>

SoftDone ==
  /\ CheckAt /\ ~Expired(soft)
  /\ at' = "next" /\ mode' = "open"
  /\ overlooked' = {}
  /\ UNCHANGED <<tick, lists, ringing, fields, timeout_tick, active, dead, stopping,
                 status, stat, next, waits, held, turned, stale>>

\* A callback waits for an object of its own, and is woken by what it waits for.
CallbackWait ==
  /\ "wait" \in Calls
  /\ ThreadAt("call")
  /\ stat' = "suspend" /\ waits' = TRUE
  /\ UNCHANGED <<tick, mode, lists, ringing, fields, timeout_tick, active, dead, stopping,
                 status, at, next, held, notes>>

CallbackWoken ==
  /\ mode = "open" /\ waits
  /\ stat' = "ready" /\ waits' = FALSE
  /\ UNCHANGED <<tick, mode, lists, ringing, fields, timeout_tick, active, dead, stopping,
                 status, at, next, held, notes>>

-----------------------------------------------------------------------------

ThreadStep ==
  \/ NextTimeout \/ SuspendSelf \/ GetDelta \/ Delay \/ WakeUp
  \/ SoftFire \/ SoftReturn \/ SoftDone

Interrupt == Tick \/ HardFire \/ HardReturn \/ HardDone

Next ==
  \/ \E t \in Timer : Call(t)
  \/ StopEnd
  \/ Interrupt
  \/ ThreadStep
  \/ CallbackWait \/ CallbackWoken

Spec == Init /\ [][Next]_vars

\* Ticks keep coming and their handler returns; the timer thread goes on when
\* it has the processor; what a callback waits for happens.
Fairness ==
  /\ SF_vars(Tick) /\ WF_vars(HardFire \/ HardReturn \/ HardDone)
  /\ SF_vars(ThreadStep)
  /\ SF_vars(CallbackWoken)

FairSpec == Spec /\ Fairness

-----------------------------------------------------------------------------
(* Properties *)

Ordered(s) == \A i, j \in DOMAIN s : i < j => Left(s[i]) <= Left(s[j])

\* A timer is linked in one list at most and runs exactly while it is linked,
\* unless its callback made it one-shot; each list is in the order of the
\* deadlines although the tick counter wraps, the soft one until an overlooked
\* timer goes stale; and nothing points to a timer that was detached, not even
\* the loop that is calling its callback.
ListsSound ==
  /\ IsInjective(hard) /\ IsInjective(soft)
  /\ ToSet(hard) \subseteq All \ Soft /\ ToSet(soft) \subseteq Soft
  /\ tmp \subseteq {ringing[FALSE], ringing[TRUE]} \ (ToSet(hard) \cup ToSet(soft))
  /\ \A t \in ToSet(hard) \cup ToSet(soft) : active[t] /\ t \notin dead
  /\ \A t \in Timer : active[t] => t \in ToSet(hard) \cup ToSet(soft) \cup tmp \cup turned
  /\ active[Sleep] => Sleep \in ToSet(hard)
  /\ tmp \cap dead = {}
  /\ Ordered(hard)
  /\ ~stale => Ordered(soft)

\* The timer thread does not sleep through a soft timer that was in its list when
\* it looked, or is started while it sleeps: it sleeps without limit only when
\* there is none, and otherwise at most as much longer as it was kept from the
\* processor on its way to sleep.  Timers that are started between its look and
\* its sleep, and then overlooked, are the exception; NoSoftTimer shows them.
SleepsNoLonger ==
  Asleep /\ ~stale => \A t \in ToSet(soft) \ overlooked :
    Sleep \in ToSet(hard) /\ Left(Sleep) <= Left(t) + MaxHeld

\* A soft timer that stays in the list for ever is one that is started again and
\* again, or one that the thread overlooked before it went to sleep: the time of
\* every other comes, and its callback is called.
SoftServed ==
  \A t \in Soft : <>[](t \in ToSet(soft) \ overlooked /\ ~stale) => []<><<Start(t)>>_vars

\* Modular ticks, the two lists and the timer thread implement alarms on an
\* integer clock, until an overlooked timer goes stale.
Alarms == INSTANCE Alarm
            WITH armed  <- (ToSet(hard) \cup ToSet(soft)) \ {Sleep},
                 left   <- [t \in Timer |-> IF t \in ToSet(hard) \cup ToSet(soft)
                                            THEN Left(t) ELSE 0],
                 period <- init_tick

ImplementsAlarm == Alarms!Init /\ [][stale' \/ Alarms!Next]_(Alarms!alarm)

\* The timer thread sleeps without limit only when "no software timer exist", as
\* _timer_thread_entry says; refuted by a timer that is started after the thread
\* has looked at its list and before it is suspended.
NoSoftTimer == Asleep /\ Sleep \notin ToSet(hard) => soft = <<>>

\* A timer that rt_timer_control reports as activated, "start and run", is in a
\* list or its callback is running; refuted by a periodic timer that is made
\* one-shot while its callback runs.
ActivatedRuns ==
  \A t \in Timer : active[t] => t \in ToSet(hard) \cup ToSet(soft) \cup tmp
=============================================================================
