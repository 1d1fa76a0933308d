-------------------------------- MODULE Event --------------------------------
(***************************************************************************)
(* The event object of ipc.c: a set of flags; a thread waits until all     *)
(* (AND) or some (OR) of the flags it asks for are set, and clears what it *)
(* received if it asked for that (CLEAR).                                  *)
(***************************************************************************)
EXTENDS Processor

CONSTANTS Event,       \* the event object
          Flag,        \* "FIFO" or "PRIO"
          Bits,        \* the flags
          Options,     \* the options of rt_event_recv that are used
          Timeouts,    \* its timeouts
          Calls        \* "isr", "reset", "delete"

Option == [all : BOOLEAN, clear : BOOLEAN]

ASSUME EventAssumption ==
  /\ Event \in Queue
  /\ Options \subseteq Option
  /\ Timeouts \subseteq Nat \cup {Forever}

VARIABLES set,      \* event->set
          info,     \* thread->event_set and thread->event_info
          asked,    \* history: what a thread inside rt_event_recv asked for
          owed,     \* history: flags set and not yet returned to a receiver
          object,   \* "live", "deleting" or "deleted"
          n,        \* the place in the suspend list that the loop of
                    \* rt_event_send is at; 0 outside of it
          need_schedule

vars == <<k, isr, pc, set, info, asked, owed, object, n, need_schedule>>

Init ==
  /\ ProcessorInit
  /\ set = {}
  /\ info \in {[t \in Thread |-> [set |-> {}, opt |-> o]] : o \in Options}
  /\ asked = [t \in Thread |-> {}]
  /\ owed = [b \in Bits |-> 0]
  /\ object = "live"
  /\ n = 0 /\ need_schedule = FALSE

Waiters == k.wait[Event]

Satisfied(s, want, all) == IF all THEN want \subseteq s ELSE want \cap s # {}

Cleared(s, got, opt) == IF opt.clear THEN s \ got ELSE s

\* The history after receivers return the flags of got.
Repaid(got) == [b \in Bits |-> IF b \in got THEN owed[b] - 1 ELSE owed[b]]

-----------------------------------------------------------------------------
(* rt_event_recv *)

Recv(t, want, opt, timeout) ==
  /\ Executes(t, "run")
  /\ MayBlock(t)
  /\ object = "live"
  /\ want # {}
  /\ LET here == want \cap set
     IN  \/ /\ Satisfied(set, want, opt.all)
            /\ info' = [info EXCEPT ![t] = [set |-> here, opt |-> opt]]
            /\ set' = Cleared(set, want, opt)
            /\ owed' = IF opt.clear THEN Repaid(here) ELSE owed
            /\ k' = [k EXCEPT !.err[t] = "EOK"]
            /\ UNCHANGED <<pc, asked>>
         \/ /\ ~Satisfied(set, want, opt.all) /\ timeout = 0
            /\ k' = [k EXCEPT !.err[t] = "ETIMEOUT"]
            /\ UNCHANGED <<pc, set, info, asked, owed>>
         \/ /\ ~Satisfied(set, want, opt.all) /\ timeout # 0
            /\ info' = [info EXCEPT ![t] = [set |-> want, opt |-> opt]]
            /\ k' = WaitOn(k, Event, t, Flag, timeout)
            /\ Goto(t, "blocked")
            /\ asked' = [asked EXCEPT ![t] = want]
            /\ UNCHANGED <<set, owed>>
  /\ UNCHANGED <<isr, object, n, need_schedule>>

\* The receiver returns event_set, or the error.
RecvReturn(t) ==
  /\ Executes(t, "woken")
  /\ owed' = IF k.err[t] = "EOK" /\ info[t].opt.clear THEN Repaid(info[t].set) ELSE owed
  /\ asked' = [asked EXCEPT ![t] = {}]
  /\ Goto(t, "run")
  /\ UNCHANGED <<k, isr, set, info, object, n, need_schedule>>

Schedule(t) ==
  /\ Reschedule(t, "blocked", "woken") \/ Reschedule(t, "sched", "run")
  /\ UNCHANGED <<set, info, asked, owed, object, n, need_schedule>>

-----------------------------------------------------------------------------
(* rt_event_send: interrupts are disabled from the setting of the flags to *)
(* the end of the loop over the suspend list, which is taken turn by turn. *)

Raise(bits) ==
  /\ object = "live"
  /\ set' = set \cup bits
  /\ owed' = [b \in Bits |-> IF b \in bits \ set THEN owed[b] + 1 ELSE owed[b]]
  /\ n' = 1 /\ need_schedule' = FALSE
  /\ UNCHANGED <<k, info, asked, object>>

\* Received flags are not cleared.
Serve_keepsFlags ==
  LET t   == Waiters[n]
      got == info[t].set \cap set
  IN  /\ Satisfied(set, info[t].set, info[t].opt.all)
      /\ info' = [info EXCEPT ![t].set = got]
      /\ k' = rt_thread_resume(k, t)
      /\ need_schedule' = TRUE
      /\ UNCHANGED <<set, n>>

\* One of the flags is enough, whatever was asked for.
Serve_anyFlag ==
  LET t   == Waiters[n]
      got == info[t].set \cap set
  IN  /\ got # {}
      /\ info' = [info EXCEPT ![t].set = got]
      /\ set' = Cleared(set, got, info[t].opt)
      /\ k' = rt_thread_resume(k, t)
      /\ need_schedule' = TRUE
      /\ UNCHANGED n

\* The loop ends with the first waiter that is served.
Serve_first ==
  LET t   == Waiters[n]
      got == info[t].set \cap set
  IN  /\ Satisfied(set, info[t].set, info[t].opt.all)
      /\ info' = [info EXCEPT ![t].set = got]
      /\ set' = Cleared(set, got, info[t].opt)
      /\ k' = rt_thread_resume(k, t)
      /\ need_schedule' = TRUE
      /\ n' = Len(Waiters)

\* The waiter at n is served: it is resumed, its node leaves the list and the
\* next one takes its place.
Serve ==
  LET t   == Waiters[n]
      got == info[t].set \cap set
  IN  /\ Satisfied(set, info[t].set, info[t].opt.all)
      /\ info' = [info EXCEPT ![t].set = got]
      /\ set' = Cleared(set, got, info[t].opt)
      /\ k' = rt_thread_resume(k, t)
      /\ need_schedule' = TRUE
      /\ UNCHANGED n

Pass ==
  /\ ~Satisfied(set, info[Waiters[n]].set, info[Waiters[n]].opt.all)
  /\ n' = n + 1
  /\ UNCHANGED <<k, set, info, need_schedule>>

Turn ==
  /\ n <= Len(Waiters)
  /\ Serve \/ Pass
  /\ UNCHANGED <<isr, pc, asked, owed, object>>

LoopEnds ==
  /\ n > Len(Waiters)
  /\ n' = 0 /\ need_schedule' = FALSE
  /\ isr' = "none"
  /\ UNCHANGED <<set, info, asked, owed, object>>

SendBegin(t, bits) ==
  /\ Executes(t, "run")
  /\ Raise(bits)
  /\ isr' = "masked"
  /\ Goto(t, "send")

SendTurn(t) == ExecutesMasked(t, "send") /\ Turn

SendEnd(t) ==
  /\ ExecutesMasked(t, "send")
  /\ LoopEnds
  /\ Goto(t, IF need_schedule THEN "sched" ELSE "run")
  /\ UNCHANGED k

\* The same from an interrupt handler (isr = "send"), where rt_schedule() follows
\* at once.
IsrSendBegin(bits) ==
  /\ "isr" \in Calls
  /\ isr = "none"
  /\ Raise(bits)
  /\ isr' = "send"
  /\ UNCHANGED pc

IsrSendTurn == isr = "send" /\ Turn

IsrSendEnd ==
  /\ isr = "send"
  /\ LoopEnds
  /\ k' = IF need_schedule THEN rt_schedule(k) ELSE k
  /\ UNCHANGED pc

-----------------------------------------------------------------------------
(* rt_event_control(RT_IPC_CMD_RESET), with _ipc_list_resume_all inside    *)
(* its interrupt-disabled section; rt_event_delete, rt_event_detach        *)

ResetBegin(t) ==
  /\ "reset" \in Calls
  /\ Executes(t, "run")
  /\ object = "live"
  /\ isr' = "masked"
  /\ Goto(t, "reset")
  /\ UNCHANGED <<k, set, info, asked, owed, object, n, need_schedule>>

ResetTurn(t) ==
  /\ ResumeAllMasked(t, Event, "reset")
  /\ UNCHANGED <<set, info, asked, owed, object, n, need_schedule>>

ResetEnd(t) ==
  /\ ExecutesMasked(t, "reset")
  /\ Waiters = <<>>
  /\ set' = {}
  /\ owed' = [b \in Bits |-> IF b \in set THEN owed[b] - 1 ELSE owed[b]]
  /\ isr' = "none"
  /\ Goto(t, "sched")
  /\ UNCHANGED <<k, info, asked, object, n, need_schedule>>

DeleteBegin(t) ==
  /\ "delete" \in Calls
  /\ Executes(t, "run")
  /\ object = "live"
  /\ \A u \in ToSet(Waiters) : ~TimerArmed(k, u)
  /\ object' = "deleting"
  /\ Goto(t, "delete")
  /\ UNCHANGED <<k, isr, set, info, asked, owed, n, need_schedule>>

DeleteTest(t) ==
  /\ ResumeAllTest(t, Event, "delete", "resume", "run")
  /\ object' = IF Waiters = <<>> THEN "deleted" ELSE object
  /\ UNCHANGED <<set, info, asked, owed, n, need_schedule>>

DeleteResume(t) ==
  /\ ResumeAllBody(t, Event, "resume", "delete")
  /\ UNCHANGED <<set, info, asked, owed, object, n, need_schedule>>

-----------------------------------------------------------------------------

TickInterrupt == Interrupt /\ UNCHANGED <<set, info, asked, owed, object, n, need_schedule>>

ThreadStep(t) ==
  \/ \E want \in SUBSET Bits, opt \in Options, ticks \in Timeouts : Recv(t, want, opt, ticks)
  \/ RecvReturn(t)
  \/ Schedule(t)
  \/ \E bits \in SUBSET Bits \ {{}} : SendBegin(t, bits)
  \/ SendTurn(t)
  \/ SendEnd(t)
  \/ ResetBegin(t)
  \/ ResetTurn(t)
  \/ ResetEnd(t)
  \/ DeleteBegin(t)
  \/ DeleteTest(t)
  \/ DeleteResume(t)

Next ==
  \/ \E t \in Thread : ThreadStep(t)
  \/ TickInterrupt
  \/ \E bits \in SUBSET Bits \ {{}} : IsrSendBegin(bits)
  \/ IsrSendTurn
  \/ IsrSendEnd

Spec == Init /\ [][Next]_vars

-----------------------------------------------------------------------------
(* Properties *)

\* Every variable has its type.
TypeOK ==
  /\ KernelInv(k, {})
  /\ isr \in {"none", "check", "masked", "send"}
  /\ pc \in [Thread -> {"run", "blocked", "woken", "send", "sched", "reset", "delete", "resume"}]
  /\ set \subseteq Bits
  /\ info \in [Thread -> [set : SUBSET Bits, opt : Option]]
  /\ asked \in [Thread -> SUBSET Bits]
  /\ owed \in [Bits -> Nat]
  /\ object \in {"live", "deleting", "deleted"}
  /\ n \in Nat /\ need_schedule \in BOOLEAN

\* Threads that a send has woken and that have not returned yet.
Woken == {t \in Thread : /\ pc[t] \in {"blocked", "woken"}
                         /\ t \notin ToSet(Waiters)
                         /\ k.err[t] = "EOK"}

\* No thread waits for flags that are set: whatever a send, a clearing receiver
\* or a timeout does to the flags, everybody they satisfy has been woken.
NoneWaitsSatisfied ==
  \A t \in ToSet(Waiters) : ~Satisfied(set, info[t].set, info[t].opt.all)

\* The event as a whole: between any two interrupt-disabled sections of
\* rt_event_send, rt_event_recv and the other calls nobody is left waiting.
EventInv ==
  /\ TypeOK
  /\ isr \in {"none", "check"} => NoneWaitsSatisfied

\* A receiver is given what it asked for: with AND all of it, with OR a part of
\* it that is not empty, although event_set is rewritten while it waits.
ReceivesWhatWasAsked ==
  \A t \in Woken :
    IF info[t].opt.all THEN info[t].set = asked[t]
    ELSE info[t].set # {} /\ info[t].set \subseteq asked[t]

\* A flag reaches one clearing receiver: what has been set and not been returned
\* by a clearing receiver is in the set or with exactly one that is woken.
FlagsConserved ==
  \A b \in Bits :
    owed[b] = (IF b \in set THEN 1 ELSE 0)
              + Cardinality({t \in Woken : info[t].opt.clear /\ b \in info[t].set})
=============================================================================
