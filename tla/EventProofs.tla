---------------------------- MODULE EventProofs ----------------------------
(***************************************************************************)
(* The event keeps its promises for any number of threads and flags, any   *)
(* priorities and timeouts.  The argument follows the loop of              *)
(* rt_event_send: the waiters it has passed stay unsatisfied, because the  *)
(* flags only become fewer while it goes on; the waiters it has not come   *)
(* to are all looked at before interrupts are enabled again.               *)
(***************************************************************************)
EXTENDS Event, KernelLemmas

USE DEF Goto

Points == {"run", "blocked", "woken", "send", "sched", "reset", "delete", "resume"}

\* The scheduler is never locked here, and the current thread can run, or has
\* just put itself to sleep and is about to call rt_schedule().
CurrentGoesOn ==
  /\ k.nest = 0
  /\ \/ k.stat[k.cur] = "RUNNING"
     \/ k.stat[k.cur] = "SUSPEND" /\ pc[k.cur] = "blocked"

\* Exactly the waiters are suspended, each of them inside rt_event_recv and with
\* no error so far.
WaitersAsleep ==
  /\ Asleep(k) = ToSet(Waiters)
  /\ \A t \in ToSet(Waiters) : pc[t] \in {"blocked", "woken"} /\ k.err[t] = "EOK"

\* The part of the inductive invariant about threads.
ThreadsInv ==
  /\ KernelInv(k, {})
  /\ pc \in [Thread -> Points]
  /\ CurrentGoesOn
  /\ WaitersAsleep

\* The loop of rt_event_send is under way exactly while its caller, a thread or
\* an interrupt handler, has interrupts disabled.
Looping == isr = "send" \/ (isr = "masked" /\ pc[k.cur] = "send")

LoopInv ==
  /\ isr \in {"none", "check", "masked", "send"}
  /\ n \in Nat
  /\ n # 0 <=> Looping

Wants(t) == Satisfied(set, info[t].set, info[t].opt.all)

\* Waiters that the loop has passed, and all of them outside of it, are not
\* satisfied.
PassedUnsatisfied ==
  \A i \in 1 .. Len(Waiters) : n = 0 \/ i < n => ~Wants(Waiters[i])

\* A waiter still has in event_set what it asked for.
WaitersAsk == \A t \in ToSet(Waiters) : info[t].set = asked[t] /\ asked[t] # {}

\* The clearing receivers that have been given b and have not returned.
Holders(b) == {t \in Woken : info[t].opt.clear /\ b \in info[t].set}

Held(b) == (IF b \in set THEN 1 ELSE 0) + Cardinality(Holders(b))

FlagTypes ==
  /\ set \in SUBSET Bits
  /\ info \in [Thread -> [set : SUBSET Bits, opt : Option]]
  /\ asked \in [Thread -> SUBSET Bits]
  /\ object \in {"live", "deleting", "deleted"}

\* The part about the flags.
FlagsInv ==
  /\ FlagTypes
  /\ PassedUnsatisfied
  /\ WaitersAsk
  /\ ReceivesWhatWasAsked
  /\ owed = [b \in Bits |-> Held(b)]

EvInv == ThreadsInv /\ LoopInv /\ FlagsInv /\ need_schedule \in BOOLEAN

-----------------------------------------------------------------------------

\* The kernel's state, unfolded.
LEMMA ThreadFacts ==
  ASSUME ThreadsInv
  PROVE  /\ k \in KernelState /\ k.cur \in Thread /\ Waiters \in Seq(Thread)
         /\ ToSet(Waiters) \subseteq Thread /\ IsInjective(Waiters)
         /\ k.err \in [Thread -> Error] /\ k.wait \in [Queue -> Seq(Thread)]
         /\ {} \in SUBSET Thread /\ Event \in Queue
<1>1. k \in KernelState /\ Event \in Queue
  BY EventAssumption DEF ThreadsInv, KernelInv
<1>2. k.cur \in Thread /\ k.wait \in [Queue -> Seq(Thread)] /\ k.err \in [Thread -> Error]
  BY <1>1 DEF KernelState
<1>3. IsInjective(Waiters) /\ Waiters \in Seq(Thread)
  BY <1>1, <1>2 DEF ThreadsInv, KernelInv, ListsConsistent, WaitersOf, Waiters
<1>4. ToSet(Waiters) \subseteq Thread
  BY <1>3, SeqViews
<1> QED BY <1>1, <1>2, <1>3, <1>4

\* The number of holders of a flag is a number.
LEMMA HoldersFinite ==
  ASSUME NEW b
  PROVE  IsFiniteSet(Holders(b)) /\ Cardinality(Holders(b)) \in Nat
<1>1. Holders(b) \subseteq Thread
  BY DEF Holders, Woken
<1>2. IsFiniteSet(Holders(b))
  BY <1>1, FS_Subset, KernelAssumption
<1> QED BY <1>2, FS_CardinalityType

\* What is proved in parts is what the run checks.
LEMMA EvInvImplies == EvInv => EventInv /\ ReceivesWhatWasAsked /\ FlagsConserved
<1> SUFFICES ASSUME EvInv PROVE EventInv /\ ReceivesWhatWasAsked /\ FlagsConserved
  OBVIOUS
<1>0. ThreadsInv /\ LoopInv /\ FlagsInv
  BY DEF EvInv
<1>1. \A b \in Bits : Held(b) \in Nat
  BY HoldersFinite DEF Held
<1>2. owed \in [Bits -> Nat]
  BY <1>0, <1>1 DEF FlagsInv
<1>3. TypeOK
  <2>1. need_schedule \in BOOLEAN
    BY DEF EvInv
  <2>2. KernelInv(k, {}) /\ pc \in [Thread -> Points]
    BY <1>0 DEF ThreadsInv
  <2>3. FlagTypes
    BY <1>0 DEF FlagsInv
  <2> QED BY <1>0, <1>2, <2>1, <2>2, <2>3, Zenon DEF TypeOK, Points, LoopInv, FlagTypes
<1>4. ASSUME isr \in {"none", "check"} PROVE NoneWaitsSatisfied
  <2>1. n = 0
    BY <1>0, <1>4 DEF LoopInv, Looping
  <2>2. \A t \in ToSet(Waiters) : \E i \in 1 .. Len(Waiters) : Waiters[i] = t
    BY <1>0, ThreadFacts, SeqViews
  <2> QED BY <1>0, <2>1, <2>2 DEF FlagsInv, PassedUnsatisfied, NoneWaitsSatisfied, Wants
<1>5. FlagsConserved
  BY <1>0 DEF FlagsInv, FlagsConserved, Held, Holders
<1> QED BY <1>0, <1>3, <1>4, <1>5 DEF EventInv, FlagsInv

\* A thread at a point of its code other than the one where it has put itself
\* to sleep is running and waits for nothing.
LEMMA Running ==
  ASSUME ThreadsInv, NEW t \in Thread, t = k.cur, pc[t] # "blocked"
  PROVE  k.stat[t] = "RUNNING" /\ t \notin ToSet(Waiters)
<1>1. k.stat[t] = "RUNNING"
  BY DEF ThreadsInv, CurrentGoesOn
<1>2. t \notin Asleep(k)
  BY <1>1 DEF Asleep
<1> QED BY <1>1, <1>2 DEF ThreadsInv, WaitersAsleep

InRecv(at) == at \in {"blocked", "woken"}

\* The current thread goes on after a step that puts nobody to sleep.
LEMMA GoesOn ==
  ASSUME ThreadsInv, KernelInv(k', {}), Keeps(k', k), Asleep(k') \subseteq Asleep(k),
         k'.stat[k'.cur] = "RUNNING" \/ pc'[k.cur] = pc[k.cur]
  PROVE  CurrentGoesOn'
<1>1. CASE k'.stat[k'.cur] = "RUNNING"
  BY <1>1 DEF ThreadsInv, CurrentGoesOn, Keeps
<1>2. CASE k'.stat[k'.cur] # "RUNNING"
  <2>1. k'.cur = k.cur /\ k.stat[k.cur] # "RUNNING" /\ k.cur \in Thread
    BY <1>2, ThreadFacts DEF Keeps
  <2>2. k.stat[k.cur] = "SUSPEND" /\ pc[k.cur] = "blocked"
    BY <2>1 DEF ThreadsInv, CurrentGoesOn
  <2>3. k'.stat[k'.cur] \in {"RUNNING", "SUSPEND", "CLOSE"} /\ k'.stat[k'.cur] # "CLOSE"
    BY <2>1, <2>2 DEF Keeps, KernelInv, CurrentOf
  <2> QED BY <1>2, <2>1, <2>2, <2>3 DEF ThreadsInv, CurrentGoesOn, Keeps
<1> QED BY <1>1, <1>2

\* A step after which the same threads wait and nobody's error has changed.
LEMMA NobodyMoved ==
  ASSUME ThreadsInv, KernelInv(k', {}), Keeps(k', k), k'.wait = k.wait,
         \A u \in Thread : InRecv(pc[u]) => k'.err[u] = k.err[u],
         Asleep(k') = Asleep(k), pc' \in [Thread -> Points],
         \A u \in Thread : InRecv(pc'[u]) <=> InRecv(pc[u]),
         k'.stat[k'.cur] = "RUNNING" \/ pc'[k.cur] = pc[k.cur]
  PROVE  ThreadsInv' /\ Waiters' = Waiters /\ Woken' = Woken
<1>1. Waiters' = Waiters
  BY DEF Waiters
<1>2. Woken' = Woken
  BY <1>1 DEF Woken, InRecv
<1>3. WaitersAsleep'
  BY <1>1, ThreadFacts DEF ThreadsInv, WaitersAsleep, InRecv
<1>4. CurrentGoesOn'
  BY GoesOn
<1> QED BY <1>1, <1>2, <1>3, <1>4 DEF ThreadsInv

\* A step that takes one waiter off the list, with the error e.
LEMMA OneWoken ==
  ASSUME ThreadsInv, KernelInv(k', {}), Keeps(k', k), NEW h \in ToSet(Waiters), NEW e,
         k'.err = [k.err EXCEPT ![h] = e], Asleep(k') = Asleep(k) \ {h},
         ToSet(Waiters') = ToSet(Waiters) \ {h},
         pc' \in [Thread -> Points],
         \A u \in Thread : InRecv(pc'[u]) <=> InRecv(pc[u]),
         k'.stat[k'.cur] = "RUNNING" \/ pc'[k.cur] = pc[k.cur]
  PROVE  /\ ThreadsInv' /\ h \notin Woken
         /\ Woken' = IF e = "EOK" THEN Woken \cup {h} ELSE Woken
<1>0. h \in Thread /\ ToSet(Waiters) \subseteq Thread /\ k.err \in [Thread -> Error]
  BY ThreadFacts
<1>1. h \notin Woken /\ InRecv(pc[h])
  BY DEF Woken, ThreadsInv, WaitersAsleep, InRecv
<1>2. WaitersAsleep'
  <2>1. \A t \in ToSet(Waiters') : InRecv(pc'[t]) /\ k'.err[t] = "EOK"
    BY <1>0 DEF ThreadsInv, WaitersAsleep, InRecv
  <2> QED BY <2>1 DEF ThreadsInv, WaitersAsleep, InRecv
<1>3. \A u \in Thread : u \in Woken' <=> u \in Woken \/ (u = h /\ e = "EOK")
  <2>1. \A u \in Thread : u \in Woken <=> InRecv(pc[u]) /\ u \notin ToSet(Waiters) /\ k.err[u] = "EOK"
    BY DEF Woken, InRecv
  <2>2. \A u \in Thread :
          u \in Woken' <=> InRecv(pc'[u]) /\ u \notin ToSet(Waiters') /\ k'.err[u] = "EOK"
    BY DEF Woken, InRecv
  <2> QED BY <1>0, <1>1, <2>1, <2>2
<1>4. Woken' \subseteq Thread /\ Woken \subseteq Thread
  BY DEF Woken
<1>5. CurrentGoesOn'
  BY GoesOn
<1>6. Woken' = IF e = "EOK" THEN Woken \cup {h} ELSE Woken
  BY <1>0, <1>3, <1>4
<1>7. ThreadsInv'
  BY <1>2, <1>5 DEF ThreadsInv
<1> QED BY <1>1, <1>6, <1>7

\* A step that leaves the flags alone and after which nobody waits who did not.
LEMMA SameFlags ==
  ASSUME FlagsInv, ThreadsInv, ThreadsInv', ToSet(Waiters') \subseteq ToSet(Waiters), Woken' = Woken,
         n = 0, n' = 0, UNCHANGED <<set, info, asked, owed>>,
         object' \in {"live", "deleting", "deleted"}
  PROVE  FlagsInv'
<1>1. FlagTypes' /\ WaitersAsk' /\ ReceivesWhatWasAsked'
  BY DEF FlagsInv, FlagTypes, WaitersAsk, ReceivesWhatWasAsked
<1>2. \A b : Held(b)' = Held(b)
  BY DEF Held, Holders
<1>3. owed' = [b \in Bits |-> Held(b)']
  BY <1>2 DEF FlagsInv
<1>4. PassedUnsatisfied'
  <2>1. Waiters' \in Seq(Thread) /\ Waiters \in Seq(Thread)
    BY EventAssumption DEF ThreadsInv, KernelInv, KernelState, Waiters
  <2>2. ASSUME NEW i \in 1 .. Len(Waiters')
        PROVE  ~Satisfied(set, info[Waiters'[i]].set, info[Waiters'[i]].opt.all)
    <3>1. Waiters'[i] \in ToSet(Waiters)
      BY <2>1, SeqViews
    <3>2. PICK j \in 1 .. Len(Waiters) : Waiters[j] = Waiters'[i]
      BY <2>1, <3>1, SeqViews
    <3>3. ~Wants(Waiters[j])
      BY <3>2 DEF FlagsInv, PassedUnsatisfied
    <3> QED BY <3>2, <3>3 DEF Wants
  <2> QED BY <2>2 DEF PassedUnsatisfied, Wants
<1> QED BY <1>1, <1>3, <1>4 DEF FlagsInv

\* The initial states.
LEMMA InitInv == Init => EvInv
<1> SUFFICES ASSUME Init PROVE EvInv
  OBVIOUS
<1>1. PICK tbl \in BootTables : k = rt_system_scheduler_start(tbl)
  BY DEF Init, ProcessorInit
<1>2. /\ KernelInv(k, {}) /\ k.stat[k.cur] = "RUNNING" /\ k.nest = 0
      /\ \A q \in Queue : k.wait[q] = <<>>
      /\ \A t \in Thread : k.stat[t] # "SUSPEND"
  BY <1>1, BootInv
<1>3. Waiters = <<>> /\ ToSet(Waiters) = {} /\ Len(Waiters) = 0
  BY <1>2, EventAssumption DEF Waiters, ToSet
<1>4. pc = [t \in Thread |-> "run"] /\ isr = "none" /\ n = 0
  BY DEF Init, ProcessorInit
<1>5. Woken = {}
  BY <1>4 DEF Woken
<1>6. ThreadsInv
  BY <1>2, <1>3, <1>4 DEF ThreadsInv, CurrentGoesOn, WaitersAsleep, Asleep, Points
<1>7. LoopInv
  BY <1>4 DEF LoopInv, Looping
<1>8. FlagTypes
  BY EventAssumption DEF Init, FlagTypes
<1>9. \A b \in Bits : Held(b) = 0
  <2>1. \A b : Holders(b) = {}
    BY <1>5 DEF Holders
  <2>2. set = {} /\ Cardinality({}) = 0
    BY FS_EmptySet DEF Init
  <2> QED BY <2>1, <2>2 DEF Held
<1>10. owed = [b \in Bits |-> Held(b)]
  BY <1>9 DEF Init
<1>11. PassedUnsatisfied /\ WaitersAsk /\ ReceivesWhatWasAsked
  BY <1>3, <1>5 DEF PassedUnsatisfied, WaitersAsk, ReceivesWhatWasAsked
<1>12. need_schedule \in BOOLEAN
  BY DEF Init
<1> QED BY <1>6, <1>7, <1>8, <1>10, <1>11, <1>12 DEF EvInv, FlagsInv

-----------------------------------------------------------------------------
(* rt_event_recv *)

\* A receiver takes flags that are there: it has been woken by nobody.
LEMMA RecvAtOnce ==
  ASSUME EvInv, NEW t \in Thread, NEW want \in SUBSET Bits, NEW opt \in Options,
         Executes(t, "run"), Satisfied(set, want, opt.all),
         info' = [info EXCEPT ![t] = [set |-> want \cap set, opt |-> opt]],
         set' = Cleared(set, want, opt),
         owed' = IF opt.clear THEN Repaid(want \cap set) ELSE owed,
         k' = [k EXCEPT !.err[t] = "EOK"],
         UNCHANGED <<pc, asked, isr, object, n, need_schedule>>
  PROVE  EvInv'
<1>1. ThreadsInv /\ LoopInv /\ FlagsInv /\ need_schedule \in BOOLEAN
  BY DEF EvInv
<1>2. /\ t = k.cur /\ pc[t] = "run" /\ isr = "none" /\ pc \in [Thread -> Points] /\ KernelInv(k, {})
  BY <1>1 DEF Executes, ThreadsInv
<1>3. n = 0
  BY <1>1, <1>2 DEF LoopInv, Looping
<1>4. k.stat[t] = "RUNNING" /\ t \notin ToSet(Waiters) /\ t \notin Woken
  BY <1>1, <1>2, Running DEF Woken
<1>5. KernelInv(k', {}) /\ Keeps(k', k) /\ k'.wait = k.wait /\ k'.stat = k.stat /\ k'.cur = k.cur
  <2>1. k' \in KernelState /\ SameLists(k', k) /\ k'.nest = k.nest
    BY <1>2, ThreadFacts DEF KernelInv, KernelState, SameLists, Error
  <2> QED BY <1>2, <2>1, FieldsInv DEF SameLists
<1>6. ThreadsInv' /\ Waiters' = Waiters /\ Woken' = Woken
  <2>1. \A u \in Thread : InRecv(pc[u]) => k'.err[u] = k.err[u]
    BY <1>1, <1>2, ThreadFacts DEF InRecv, KernelState
  <2>2. Asleep(k') = Asleep(k)
    BY <1>5 DEF Asleep
  <2> QED BY <1>1, <1>2, <1>5, <2>1, <2>2, NobodyMoved
<1>7. LoopInv'
  BY <1>1, <1>2, <1>5 DEF LoopInv, Looping
<1>8. FlagTypes /\ FlagTypes'
  BY <1>1, EventAssumption DEF FlagsInv, FlagTypes, Cleared
<1>9. \A u \in Thread : u # t => info'[u] = info[u]
  BY <1>8 DEF FlagTypes
<1>10. set' \subseteq set
  BY DEF Cleared
<1>11. PassedUnsatisfied'
  <2> SUFFICES ASSUME NEW i \in 1 .. Len(Waiters)
               PROVE  ~Satisfied(set', info'[Waiters[i]].set, info'[Waiters[i]].opt.all)
    BY <1>6 DEF PassedUnsatisfied, Wants
  <2>1. Waiters[i] \in ToSet(Waiters) /\ Waiters[i] \in Thread
    BY <1>1, ThreadFacts, SeqViews
  <2>2. ~Wants(Waiters[i])
    BY <1>1, <1>3 DEF FlagsInv, PassedUnsatisfied
  <2>3. info'[Waiters[i]] = info[Waiters[i]]
    BY <1>4, <1>9, <2>1
  <2> QED BY <1>10, <2>2, <2>3 DEF Wants, Satisfied
<1>12. WaitersAsk' /\ ReceivesWhatWasAsked'
  <2>1. WaitersAsk'
    BY <1>1, <1>4, <1>6, <1>9, ThreadFacts DEF FlagsInv, WaitersAsk
  <2>2. ReceivesWhatWasAsked'
    BY <1>1, <1>4, <1>6, <1>9 DEF FlagsInv, ReceivesWhatWasAsked, Woken
  <2> QED BY <2>1, <2>2
<1>13. \A b \in Bits : Holders(b)' = Holders(b)
  BY <1>4, <1>6, <1>9 DEF Holders, Woken
<1>14. owed' = [b \in Bits |-> Held(b)']
  <2>1. owed = [b \in Bits |-> Held(b)]
    BY <1>1 DEF FlagsInv
  <2>2. CASE opt.clear
    <3>1. set' = set \ want /\ owed' = Repaid(want \cap set)
      BY <2>2 DEF Cleared
    <3>2. \A b \in Bits : Held(b)' = IF b \in want \cap set THEN Held(b) - 1 ELSE Held(b)
      BY <1>13, <3>1, HoldersFinite DEF Held
    <3> QED BY <2>1, <3>1, <3>2 DEF Repaid
  <2>3. CASE ~opt.clear
    <3>1. set' = set /\ owed' = owed
      BY <2>3 DEF Cleared
    <3> QED BY <1>13, <2>1, <3>1 DEF Held
  <2> QED BY <2>2, <2>3
<1> QED BY <1>1, <1>6, <1>7, <1>8, <1>11, <1>12, <1>14 DEF EvInv, FlagsInv

\* A receiver does not wait for flags that are not there.
LEMMA RecvGivesUp ==
  ASSUME EvInv, NEW t \in Thread, Executes(t, "run"),
         k' = [k EXCEPT !.err[t] = "ETIMEOUT"],
         UNCHANGED <<pc, set, info, asked, owed, isr, object, n, need_schedule>>
  PROVE  EvInv'
<1>1. ThreadsInv /\ LoopInv /\ FlagsInv /\ need_schedule \in BOOLEAN
  BY DEF EvInv
<1>2. /\ t = k.cur /\ pc[t] = "run" /\ isr = "none" /\ pc \in [Thread -> Points] /\ KernelInv(k, {})
  BY <1>1 DEF Executes, ThreadsInv
<1>3. n = 0 /\ object \in {"live", "deleting", "deleted"}
  BY <1>1, <1>2 DEF LoopInv, Looping, FlagsInv, FlagTypes
<1>5. KernelInv(k', {}) /\ Keeps(k', k) /\ k'.wait = k.wait /\ k'.stat = k.stat /\ k'.cur = k.cur
  <2>1. k' \in KernelState /\ SameLists(k', k) /\ k'.nest = k.nest
    BY <1>2, ThreadFacts DEF KernelInv, KernelState, SameLists, Error
  <2> QED BY <1>2, <2>1, FieldsInv DEF SameLists
<1>6. ThreadsInv' /\ Waiters' = Waiters /\ Woken' = Woken
  <2>1. \A u \in Thread : InRecv(pc[u]) => k'.err[u] = k.err[u]
    BY <1>1, <1>2, ThreadFacts DEF InRecv, KernelState
  <2>2. Asleep(k') = Asleep(k)
    BY <1>5 DEF Asleep
  <2> QED BY <1>1, <1>2, <1>5, <2>1, <2>2, NobodyMoved
<1>7. LoopInv'
  BY <1>1, <1>2, <1>5 DEF LoopInv, Looping
<1>8. FlagsInv'
  BY <1>1, <1>3, <1>6, SameFlags
<1> QED BY <1>1, <1>6, <1>7, <1>8 DEF EvInv

\* A receiver queues with what it asks for; it has been woken by nobody.
LEMMA RecvBlocks ==
  ASSUME EvInv, NEW t \in Thread, NEW want \in SUBSET Bits, NEW opt \in Options, NEW ticks \in Timeouts,
         Executes(t, "run"), MayBlock(t), want # {}, ~Satisfied(set, want, opt.all),
         info' = [info EXCEPT ![t] = [set |-> want, opt |-> opt]],
         k' = WaitOn(k, Event, t, Flag, ticks),
         pc' = [pc EXCEPT ![t] = "blocked"],
         asked' = [asked EXCEPT ![t] = want],
         UNCHANGED <<set, owed, isr, object, n, need_schedule>>
  PROVE  EvInv'
<1>1. ThreadsInv /\ LoopInv /\ FlagsInv /\ need_schedule \in BOOLEAN
  BY DEF EvInv
<1>2. /\ t = k.cur /\ pc[t] = "run" /\ isr = "none" /\ pc \in [Thread -> Points] /\ KernelInv(k, {})
  BY <1>1 DEF Executes, ThreadsInv
<1>3. n = 0
  BY <1>1, <1>2 DEF LoopInv, Looping
<1>4. k.stat[t] = "RUNNING" /\ t \notin ToSet(Waiters) /\ t \notin Woken
  BY <1>1, <1>2, Running DEF Woken
<1>5. /\ KernelInv(k', {}) /\ k'.cur = k.cur /\ k'.nest = k.nest
      /\ k'.err = [k.err EXCEPT ![t] = "EOK"]
      /\ \A u \in Thread : k'.stat[u] = IF u = t THEN "SUSPEND" ELSE k.stat[u]
      /\ \E i \in 1 .. Len(k.wait[Event]) + 1 : k'.wait[Event] = InsertAt(k.wait[Event], i, t)
  <2>1. /\ t \in Thread \ {} /\ t # Idle /\ ticks \in Nat \cup {Forever} /\ {} \in SUBSET Thread
        /\ Event \in Queue
    BY EventAssumption DEF MayBlock
  <2>2. KernelInv(k', {}) /\ Queued(k', k, Event, t, ticks)
    BY <1>2, <1>4, <2>1, WaitOnInv
  <2> QED BY <2>2 DEF Queued
<1>6. /\ Waiters \in Seq(Thread) /\ IsInjective(Waiters) /\ ToSet(Waiters) \subseteq Thread
      /\ k.err \in [Thread -> Error]
  BY <1>1, ThreadFacts
<1>7. PICK i \in 1 .. Len(Waiters) + 1 : Waiters' = InsertAt(Waiters, i, t)
  BY <1>5 DEF Waiters
<1>8. Waiters' \in Seq(Thread) /\ ToSet(Waiters') = ToSet(Waiters) \cup {t}
  BY <1>4, <1>6, <1>7, InsertAtProps
<1>9. \A u \in Thread : u # t => pc'[u] = pc[u] /\ k'.err[u] = k.err[u]
  BY <1>2, <1>5, <1>6
<1>10. pc'[t] = "blocked" /\ k'.err[t] = "EOK" /\ pc' \in [Thread -> Points]
  BY <1>2, <1>5, <1>6 DEF Points
<1>11. Woken' = Woken
  BY <1>2, <1>4, <1>8, <1>9, <1>10 DEF Woken
<1>12. ThreadsInv'
  <2>1. Asleep(k') = Asleep(k) \cup {t}
    BY <1>5 DEF Asleep
  <2>2. WaitersAsleep'
    BY <1>1, <1>6, <1>8, <1>9, <1>10, <2>1 DEF ThreadsInv, WaitersAsleep
  <2>3. CurrentGoesOn'
    BY <1>1, <1>2, <1>5, <1>10 DEF ThreadsInv, CurrentGoesOn
  <2> QED BY <1>5, <1>10, <2>2, <2>3 DEF ThreadsInv
<1>13. LoopInv'
  BY <1>1, <1>2, <1>5 DEF LoopInv, Looping
<1>14. FlagTypes /\ FlagTypes'
  BY <1>1, EventAssumption DEF FlagsInv, FlagTypes
<1>15. /\ info'[t] = [set |-> want, opt |-> opt] /\ asked'[t] = want
       /\ \A u \in Thread : u # t => info'[u] = info[u] /\ asked'[u] = asked[u]
  BY <1>14 DEF FlagTypes
<1>16. PassedUnsatisfied'
  <2> SUFFICES ASSUME NEW j \in 1 .. Len(Waiters')
               PROVE  ~Satisfied(set, info'[Waiters'[j]].set, info'[Waiters'[j]].opt.all)
    BY DEF PassedUnsatisfied, Wants
  <2>1. CASE Waiters'[j] = t
    BY <1>15, <2>1
  <2>2. CASE Waiters'[j] # t
    <3>1. Waiters'[j] \in ToSet(Waiters) /\ Waiters'[j] \in Thread
      BY <1>6, <1>8, <2>2, SeqViews
    <3>2. PICK i2 \in 1 .. Len(Waiters) : Waiters[i2] = Waiters'[j]
      BY <1>6, <3>1, SeqViews
    <3>3. ~Wants(Waiters[i2])
      BY <1>1, <1>3 DEF FlagsInv, PassedUnsatisfied
    <3> QED BY <1>15, <2>2, <3>1, <3>2, <3>3 DEF Wants
  <2> QED BY <2>1, <2>2
<1>17. WaitersAsk'
  BY <1>1, <1>6, <1>8, <1>15 DEF FlagsInv, WaitersAsk
<1>18. ReceivesWhatWasAsked'
  BY <1>1, <1>4, <1>11, <1>15 DEF FlagsInv, ReceivesWhatWasAsked, Woken
<1>19. owed' = [b \in Bits |-> Held(b)']
  <2>1. \A b : Holders(b)' = Holders(b)
    BY <1>4, <1>11, <1>15 DEF Holders, Woken
  <2> QED BY <1>1, <2>1 DEF FlagsInv, Held
<1> QED BY <1>1, <1>12, <1>13, <1>14, <1>16, <1>17, <1>18, <1>19 DEF EvInv, FlagsInv

LEMMA RecvStep ==
  ASSUME EvInv, NEW t \in Thread, NEW want \in SUBSET Bits, NEW opt \in Options, NEW ticks \in Timeouts,
         Recv(t, want, opt, ticks)
  PROVE  EvInv'
<1>1. Executes(t, "run") /\ MayBlock(t) /\ want # {} /\ UNCHANGED <<isr, object, n, need_schedule>>
  BY DEF Recv
<1>2. CASE Satisfied(set, want, opt.all)
  BY <1>1, <1>2, RecvAtOnce DEF Recv
<1>3. CASE ~Satisfied(set, want, opt.all) /\ ticks = 0
  BY <1>1, <1>3, RecvGivesUp DEF Recv
<1>4. CASE ~Satisfied(set, want, opt.all) /\ ticks # 0
  BY <1>1, <1>4, RecvBlocks DEF Recv
<1> QED BY <1>2, <1>3, <1>4

\* The receiver leaves, with the flags it was given.
LEMMA RecvReturnStep ==
  ASSUME EvInv, NEW t \in Thread, RecvReturn(t)
  PROVE  EvInv'
<1>1. ThreadsInv /\ LoopInv /\ FlagsInv /\ need_schedule \in BOOLEAN
  BY DEF EvInv
<1>2. /\ t = k.cur /\ pc[t] = "woken" /\ isr = "none" /\ pc \in [Thread -> Points] /\ KernelInv(k, {})
      /\ UNCHANGED <<k, isr, set, info, object, n, need_schedule>>
      /\ pc' = [pc EXCEPT ![t] = "run"] /\ asked' = [asked EXCEPT ![t] = {}]
      /\ owed' = IF k.err[t] = "EOK" /\ info[t].opt.clear THEN Repaid(info[t].set) ELSE owed
  BY <1>1 DEF RecvReturn, Executes, ThreadsInv
<1>3. n = 0
  BY <1>1, <1>2 DEF LoopInv, Looping
<1>4. k.stat[t] = "RUNNING" /\ t \notin ToSet(Waiters)
  BY <1>1, <1>2, Running
<1>5. Waiters' = Waiters
  BY <1>2 DEF Waiters
<1>6. pc' \in [Thread -> Points] /\ pc'[t] = "run" /\ \A u \in Thread : u # t => pc'[u] = pc[u]
  BY <1>2 DEF Points
<1>7. Woken' = Woken \ {t}
  BY <1>2, <1>5, <1>6 DEF Woken
<1>8. t \in Woken <=> k.err[t] = "EOK"
  BY <1>2, <1>4 DEF Woken
<1>9. ThreadsInv'
  <2>1. WaitersAsleep'
    BY <1>1, <1>2, <1>4, <1>5, <1>6, ThreadFacts DEF ThreadsInv, WaitersAsleep
  <2>2. CurrentGoesOn'
    BY <1>1, <1>2, <1>4 DEF ThreadsInv, CurrentGoesOn
  <2> QED BY <1>1, <1>2, <1>6, <2>1, <2>2 DEF ThreadsInv
<1>10. LoopInv'
  BY <1>1, <1>2, <1>6 DEF LoopInv, Looping
<1>11. FlagTypes /\ FlagTypes'
  BY <1>1, <1>2 DEF FlagsInv, FlagTypes
<1>12. \A u \in Thread : u # t => asked'[u] = asked[u]
  BY <1>2, <1>11 DEF FlagTypes
<1>13. PassedUnsatisfied'
  BY <1>1, <1>2, <1>5 DEF FlagsInv, PassedUnsatisfied, Wants
<1>14. WaitersAsk'
  BY <1>1, <1>2, <1>4, <1>5, <1>12, ThreadFacts DEF FlagsInv, WaitersAsk
<1>15. ReceivesWhatWasAsked'
  BY <1>1, <1>2, <1>7, <1>12 DEF FlagsInv, ReceivesWhatWasAsked, Woken
<1>16. owed' = [b \in Bits |-> Held(b)']
  <2>1. owed = [b \in Bits |-> Held(b)]
    BY <1>1 DEF FlagsInv
  <2>2. CASE k.err[t] = "EOK" /\ info[t].opt.clear
    <3>1. ASSUME NEW b \in info[t].set PROVE Held(b)' = Held(b) - 1
      <4>1. t \in Holders(b) /\ Holders(b)' = Holders(b) \ {t}
        BY <1>2, <1>7, <1>8, <2>2, <3>1 DEF Holders
      <4>2. Cardinality(Holders(b)') = Cardinality(Holders(b)) - 1
        BY <4>1, HoldersFinite, FS_RemoveElement
      <4> QED BY <1>2, <4>2, HoldersFinite DEF Held
    <3>2. ASSUME NEW b \in Bits \ info[t].set PROVE Held(b)' = Held(b)
      <4>1. Holders(b)' = Holders(b)
        BY <1>2, <1>7, <3>2 DEF Holders
      <4> QED BY <1>2, <4>1 DEF Held
    <3> QED BY <1>2, <2>1, <2>2, <3>1, <3>2 DEF Repaid
  <2>3. CASE ~(k.err[t] = "EOK" /\ info[t].opt.clear)
    <3>1. \A b : Holders(b)' = Holders(b)
      BY <1>2, <1>7, <1>8, <2>3 DEF Holders
    <3> QED BY <1>2, <2>1, <2>3, <3>1 DEF Held
  <2> QED BY <2>2, <2>3
<1> QED BY <1>1, <1>2, <1>9, <1>10, <1>11, <1>13, <1>14, <1>15, <1>16 DEF EvInv, FlagsInv

\* rt_schedule() with interrupts enabled
LEMMA ScheduleStep ==
  ASSUME EvInv, NEW t \in Thread, Schedule(t)
  PROVE  EvInv'
<1>1. ThreadsInv /\ LoopInv /\ FlagsInv /\ need_schedule \in BOOLEAN
  BY DEF EvInv
<1>2. PICK from \in {"blocked", "sched"}, to \in {"woken", "run"} :
        /\ (from = "blocked" <=> to = "woken")
        /\ t = k.cur /\ pc[t] = from /\ pc' = [pc EXCEPT ![t] = to] /\ k' = rt_schedule(k)
        /\ isr = "none" /\ isr' = isr
  BY DEF Schedule, Reschedule, Executes
<1>3. /\ KernelInv(k, {}) /\ k.nest = 0 /\ {} \in SUBSET Thread /\ pc \in [Thread -> Points]
      /\ UNCHANGED <<set, info, asked, owed, object, n, need_schedule>>
      /\ object \in {"live", "deleting", "deleted"}
  BY <1>1, ThreadFacts DEF ThreadsInv, CurrentGoesOn, Schedule, FlagsInv, FlagTypes
<1>4. n = 0
  BY <1>1, <1>2 DEF LoopInv, Looping
<1>5. KernelInv(k', {}) /\ Keeps(k', k) /\ SameWaits(k', k) /\ k'.stat[k'.cur] = "RUNNING"
  BY <1>2, <1>3, ScheduleInv, ScheduleWaits, ScheduleRuns
<1>6. pc' \in [Thread -> Points] /\ \A u \in Thread : InRecv(pc'[u]) <=> InRecv(pc[u])
  BY <1>2, <1>3 DEF Points, InRecv
<1>7. ThreadsInv' /\ Waiters' = Waiters /\ Woken' = Woken
  BY <1>1, <1>5, <1>6, NobodyMoved DEF SameWaits
<1>8. LoopInv'
  BY <1>1, <1>2, <1>3, <1>4 DEF LoopInv, Looping
<1>9. FlagsInv'
  BY <1>1, <1>3, <1>4, <1>7, SameFlags
<1> QED BY <1>1, <1>3, <1>7, <1>8, <1>9 DEF EvInv

-----------------------------------------------------------------------------
(* rt_event_send *)

\* The flags are set, and the loop begins at the first waiter.
LEMMA RaiseStep ==
  ASSUME EvInv, NEW bits \in SUBSET Bits, Raise(bits), isr = "none",
         \/ isr' = "send" /\ pc' = pc
         \/ isr' = "masked" /\ pc[k.cur] = "run" /\ pc' = [pc EXCEPT ![k.cur] = "send"]
  PROVE  EvInv'
<1>1. ThreadsInv /\ LoopInv /\ FlagsInv /\ need_schedule \in BOOLEAN
  BY DEF EvInv
<1>2. /\ set' = set \cup bits /\ n' = 1
      /\ owed' = [b \in Bits |-> IF b \in bits \ set THEN owed[b] + 1 ELSE owed[b]]
      /\ UNCHANGED <<k, info, asked, object>>
  BY DEF Raise
<1>3. pc \in [Thread -> Points] /\ KernelInv(k, {}) /\ k.cur \in Thread
  BY <1>1, ThreadFacts DEF ThreadsInv
<1>4. pc' \in [Thread -> Points] /\ \A u \in Thread : InRecv(pc'[u]) <=> InRecv(pc[u])
  BY <1>3 DEF Points, InRecv
<1>5. ThreadsInv' /\ Waiters' = Waiters /\ Woken' = Woken
  <2>1. Keeps(k', k) /\ KernelInv(k', {}) /\ k'.err = k.err /\ k'.wait = k.wait /\ Asleep(k') = Asleep(k)
    BY <1>2, <1>3 DEF Keeps
  <2>2. k'.stat[k'.cur] = "RUNNING" \/ pc'[k.cur] = pc[k.cur]
    BY <1>1, <1>2, <1>3, Running
  <2> QED BY <1>1, <1>4, <2>1, <2>2, NobodyMoved
<1>6. LoopInv'
  BY <1>2, <1>3 DEF LoopInv, Looping
<1>7. FlagTypes'
  BY <1>1, <1>2 DEF FlagsInv, FlagTypes
<1>8. PassedUnsatisfied'
  BY <1>2 DEF PassedUnsatisfied
<1>9. WaitersAsk' /\ ReceivesWhatWasAsked'
  BY <1>1, <1>2, <1>5 DEF FlagsInv, WaitersAsk, ReceivesWhatWasAsked
<1>10. owed' = [b \in Bits |-> Held(b)']
  <2>1. owed = [b \in Bits |-> Held(b)]
    BY <1>1 DEF FlagsInv
  <2>2. \A b : Holders(b)' = Holders(b)
    BY <1>2, <1>5 DEF Holders
  <2>3. \A b \in Bits : Held(b)' = IF b \in bits \ set THEN Held(b) + 1 ELSE Held(b)
    BY <1>2, <2>2, HoldersFinite DEF Held
  <2> QED BY <1>2, <2>1, <2>3
<1>11. (need_schedule \in BOOLEAN)'
  BY DEF Raise
<1> QED BY <1>5, <1>6, <1>7, <1>8, <1>9, <1>10, <1>11 DEF EvInv, FlagsInv

\* A waiter that is not satisfied is passed.
LEMMA PassStep ==
  ASSUME EvInv, Looping, n <= Len(Waiters), Pass, UNCHANGED <<isr, pc, asked, owed, object>>
  PROVE  EvInv'
<1>1. ThreadsInv /\ LoopInv /\ FlagsInv /\ need_schedule \in BOOLEAN
  BY DEF EvInv
<1>2. /\ ~Wants(Waiters[n]) /\ n' = n + 1 /\ n \in Nat /\ n # 0
      /\ UNCHANGED <<k, isr, pc, set, info, asked, owed, object, need_schedule>>
  BY <1>1 DEF Pass, Wants, LoopInv
<1>3. Waiters' = Waiters /\ Woken' = Woken /\ ThreadsInv'
  BY <1>1, <1>2 DEF Waiters, Woken, ThreadsInv, CurrentGoesOn, WaitersAsleep
<1>4. LoopInv'
  BY <1>1, <1>2 DEF LoopInv, Looping
<1>5. FlagTypes' /\ WaitersAsk' /\ ReceivesWhatWasAsked'
  BY <1>1, <1>2, <1>3 DEF FlagsInv, FlagTypes, WaitersAsk, ReceivesWhatWasAsked
<1>6. owed' = [b \in Bits |-> Held(b)']
  BY <1>1, <1>2, <1>3 DEF FlagsInv, Held, Holders
<1>7. PassedUnsatisfied'
  <2> SUFFICES ASSUME NEW i \in 1 .. Len(Waiters), i < n + 1
               PROVE  ~Satisfied(set, info[Waiters[i]].set, info[Waiters[i]].opt.all)
    BY <1>2, <1>3 DEF PassedUnsatisfied, Wants
  <2>1. i = n \/ i < n
    BY <1>2
  <2> QED BY <1>1, <1>2, <2>1 DEF FlagsInv, PassedUnsatisfied, Wants
<1> QED BY <1>1, <1>2, <1>3, <1>4, <1>5, <1>6, <1>7 DEF EvInv, FlagsInv

\* A waiter that is satisfied is taken off the list and given its flags; those
\* before it stay unsatisfied, since no flag is added.
LEMMA ServeStep ==
  ASSUME EvInv, Looping, n <= Len(Waiters), Serve, UNCHANGED <<isr, pc, asked, owed, object>>
  PROVE  EvInv'
<1> DEFINE t   == Waiters[n]
           got == info[t].set \cap set
<1>1. ThreadsInv /\ LoopInv /\ FlagsInv
  BY DEF EvInv
<1>2. /\ Satisfied(set, info[t].set, info[t].opt.all)
      /\ info' = [info EXCEPT ![t].set = got]
      /\ set' = Cleared(set, got, info[t].opt)
      /\ k' = rt_thread_resume(k, t) /\ n' = n
      /\ UNCHANGED <<isr, pc, asked, owed, object>>
  BY DEF Serve
<1>3. n \in 1 .. Len(Waiters) /\ pc \in [Thread -> Points] /\ KernelInv(k, {})
  BY <1>1, ThreadFacts, SeqViews DEF LoopInv, ThreadsInv
<1>4. /\ Waiters \in Seq(Thread) /\ IsInjective(Waiters) /\ ToSet(Waiters) \subseteq Thread
      /\ k.wait \in [Queue -> Seq(Thread)] /\ k.err \in [Thread -> Error] /\ Event \in Queue
      /\ {} \in SUBSET Thread
  BY <1>1, ThreadFacts
<1>5. t \in ToSet(Waiters) /\ t \in Thread
  BY <1>3, <1>4, SeqViews
<1>6. /\ Unlink(Waiters, t) = RemoveAt(Waiters, n) /\ Len(RemoveAt(Waiters, n)) = Len(Waiters) - 1
      /\ \A j \in 1 .. Len(Waiters) - 1 :
           RemoveAt(Waiters, n)[j] = IF j < n THEN Waiters[j] ELSE Waiters[j + 1]
      /\ ToSet(Unlink(Waiters, t)) = ToSet(Waiters) \ {t}
  BY <1>3, <1>4, UnlinkAt, UnlinkProperties
<1>7. \A j \in 1 .. Len(Waiters) : Waiters[j] = t => j = n
  BY <1>3, <1>4, SeqViews
<1> HIDE DEF t
<1>8. t \in Thread \ {} /\ k.stat[t] = "SUSPEND" /\ k.err[t] = "EOK"
  BY <1>1, <1>5 DEF ThreadsInv, WaitersAsleep, Asleep
<1>9. /\ KernelInv(k', {}) /\ Keeps(k', k) /\ k'.err = k.err /\ k'.cur = k.cur
      /\ WokeOnly(k', k, t)
  BY <1>2, <1>3, <1>4, <1>8, ResumeInv, ResumeWaits
<1>10. Waiters' = RemoveAt(Waiters, n) /\ ToSet(Waiters') = ToSet(Waiters) \ {t}
  BY <1>4, <1>6, <1>9 DEF WokeOnly, Waiters
<1>11. ThreadsInv' /\ t \notin Woken /\ Woken' = Woken \cup {t}
  <2>1. k'.err = [k.err EXCEPT ![t] = "EOK"] /\ Asleep(k') = Asleep(k) \ {t}
    BY <1>4, <1>8, <1>9 DEF WokeOnly
  <2>2. pc' \in [Thread -> Points] /\ \A u \in Thread : InRecv(pc'[u]) <=> InRecv(pc[u])
    BY <1>2, <1>3
  <2> QED BY <1>1, <1>2, <1>5, <1>9, <1>10, <2>1, <2>2, OneWoken
<1>12. LoopInv'
  BY <1>1, <1>2, <1>9 DEF LoopInv, Looping
<1>13. FlagTypes
  BY <1>1 DEF FlagsInv
<1>14. /\ got \in SUBSET Bits /\ info'[t].set = got /\ info'[t].opt = info[t].opt
       /\ info[t] \in [set : SUBSET Bits, opt : Option]
       /\ \A u \in Thread : u # t => info'[u] = info[u]
  BY <1>2, <1>5, <1>13 DEF FlagTypes
<1>15. FlagTypes'
  <2>1. info' \in [Thread -> [set : SUBSET Bits, opt : Option]]
    BY <1>2, <1>5, <1>13, <1>14 DEF FlagTypes
  <2>2. set' \in SUBSET Bits
    BY <1>2, <1>13 DEF FlagTypes, Cleared
  <2> QED BY <1>2, <1>13, <2>1, <2>2 DEF FlagTypes
<1>16. PassedUnsatisfied'
  <2>1. set' \subseteq set
    BY <1>2 DEF Cleared
  <2>2. Len(Waiters') = Len(Waiters) - 1 /\ n # 0
    BY <1>3, <1>6, <1>10
  <2> SUFFICES ASSUME NEW i \in 1 .. Len(Waiters) - 1, i < n
               PROVE  ~Satisfied(set', info'[Waiters'[i]].set, info'[Waiters'[i]].opt.all)
    BY <1>2, <2>2 DEF PassedUnsatisfied, Wants
  <2>3. Waiters'[i] = Waiters[i] /\ i \in 1 .. Len(Waiters) /\ i # n
    BY <1>3, <1>6, <1>10
  <2>4. Waiters[i] # t /\ Waiters[i] \in Thread
    BY <1>4, <1>7, <2>3, ElementOfSeq
  <2>5. ~Wants(Waiters[i])
    BY <1>1, <2>3 DEF FlagsInv, PassedUnsatisfied
  <2>6. info'[Waiters'[i]] = info[Waiters[i]]
    BY <1>14, <2>3, <2>4
  <2> QED BY <2>1, <2>5, <2>6 DEF Wants, Satisfied
<1>17. WaitersAsk'
  BY <1>1, <1>2, <1>4, <1>10, <1>14 DEF FlagsInv, WaitersAsk
<1>18. ReceivesWhatWasAsked'
  <2> SUFFICES ASSUME NEW u \in Woken \cup {t}
               PROVE  IF info'[u].opt.all THEN info'[u].set = asked[u]
                      ELSE info'[u].set # {} /\ info'[u].set \subseteq asked[u]
    BY <1>2, <1>11 DEF ReceivesWhatWasAsked
  <2>1. CASE u = t
    <3>1. info[t].set = asked[t]
      BY <1>1, <1>5 DEF FlagsInv, WaitersAsk
    <3> QED BY <1>2, <1>14, <2>1, <3>1 DEF Satisfied
  <2>2. CASE u # t
    <3>1. u \in Woken /\ u \in Thread
      BY <2>2 DEF Woken
    <3> QED BY <1>1, <1>14, <2>2, <3>1 DEF FlagsInv, ReceivesWhatWasAsked
  <2> QED BY <2>1, <2>2
<1>19. owed' = [b \in Bits |-> Held(b)']
  <2>1. owed = [b \in Bits |-> Held(b)]
    BY <1>1 DEF FlagsInv
  <2>2. \A b : Holders(b)' = IF info[t].opt.clear /\ b \in got THEN Holders(b) \cup {t} ELSE Holders(b)
    <3> SUFFICES ASSUME NEW b
                 PROVE  Holders(b)' = IF info[t].opt.clear /\ b \in got
                                      THEN Holders(b) \cup {t} ELSE Holders(b)
      OBVIOUS
    <3>1. \A u \in Woken : u # t /\ info'[u] = info[u]
      BY <1>11, <1>14 DEF Woken
    <3> QED BY <1>11, <1>14, <3>1 DEF Holders
  <2>3. ASSUME NEW b \in Bits PROVE Held(b)' = Held(b)
    <3>1. CASE info[t].opt.clear /\ b \in got
      <4>1. b \in set /\ b \notin set'
        BY <1>2, <3>1 DEF Cleared
      <4>2. t \notin Holders(b) /\ Holders(b)' = Holders(b) \cup {t}
        BY <1>11, <2>2, <3>1 DEF Holders
      <4>3. Cardinality(Holders(b)') = Cardinality(Holders(b)) + 1
        BY <4>2, HoldersFinite, FS_AddElement
      <4> QED BY <4>1, <4>3, HoldersFinite DEF Held
    <3>2. CASE ~(info[t].opt.clear /\ b \in got)
      <4>1. b \in set' <=> b \in set
        BY <1>2, <3>2 DEF Cleared
      <4>2. Holders(b)' = Holders(b)
        BY <2>2, <3>2
      <4> QED BY <4>1, <4>2 DEF Held
    <3> QED BY <3>1, <3>2
  <2> QED BY <1>2, <2>1, <2>3
<1>20. (need_schedule \in BOOLEAN)'
  BY DEF Serve
<1> QED BY <1>11, <1>12, <1>15, <1>16, <1>17, <1>18, <1>19, <1>20 DEF EvInv, FlagsInv

\* The loop has looked at every waiter.
LEMMA LoopEnd ==
  ASSUME EvInv, Looping, LoopEnds,
         KernelInv(k', {}), Keeps(k', k), k'.wait = k.wait, k'.err = k.err, Asleep(k') = Asleep(k),
         pc' \in [Thread -> Points],
         \A u \in Thread : InRecv(pc'[u]) <=> InRecv(pc[u]),
         k'.stat[k'.cur] = "RUNNING" \/ pc'[k.cur] = pc[k.cur]
  PROVE  EvInv'
<1>1. ThreadsInv /\ LoopInv /\ FlagsInv
  BY DEF EvInv
<1>2. /\ n > Len(Waiters) /\ n' = 0 /\ isr' = "none" /\ n \in Nat
      /\ UNCHANGED <<set, info, asked, owed, object>>
  BY <1>1 DEF LoopEnds, LoopInv
<1>3. ThreadsInv' /\ Waiters' = Waiters /\ Woken' = Woken
  BY <1>1, NobodyMoved
<1>4. LoopInv'
  BY <1>2 DEF LoopInv, Looping
<1>5. FlagTypes' /\ WaitersAsk' /\ ReceivesWhatWasAsked'
  BY <1>1, <1>2, <1>3 DEF FlagsInv, FlagTypes, WaitersAsk, ReceivesWhatWasAsked
<1>6. owed' = [b \in Bits |-> Held(b)']
  BY <1>1, <1>2, <1>3 DEF FlagsInv, Held, Holders
<1>7. PassedUnsatisfied'
  <2> SUFFICES ASSUME NEW i \in 1 .. Len(Waiters)
               PROVE  ~Satisfied(set, info[Waiters[i]].set, info[Waiters[i]].opt.all)
    BY <1>2, <1>3 DEF PassedUnsatisfied, Wants
  <2>1. i < n
    BY <1>1, <1>2, ThreadFacts, SeqViews
  <2> QED BY <1>1, <2>1 DEF FlagsInv, PassedUnsatisfied, Wants
<1>8. (need_schedule \in BOOLEAN)'
  BY DEF LoopEnds
<1> QED BY <1>3, <1>4, <1>5, <1>6, <1>7, <1>8 DEF EvInv, FlagsInv

\* The steps of rt_event_send, by a thread and by an interrupt handler.
LEMMA SendStep ==
  ASSUME EvInv, NEW t \in Thread,
         \/ \E bits \in SUBSET Bits \ {{}} : SendBegin(t, bits) \/ IsrSendBegin(bits)
         \/ SendTurn(t) \/ IsrSendTurn
  PROVE  EvInv'
<1>1. CASE \E bits \in SUBSET Bits \ {{}} : SendBegin(t, bits) \/ IsrSendBegin(bits)
  <2>1. PICK bits \in SUBSET Bits : SendBegin(t, bits) \/ IsrSendBegin(bits)
    BY <1>1
  <2>2. /\ Raise(bits) /\ isr = "none"
        /\ \/ isr' = "send" /\ pc' = pc
           \/ isr' = "masked" /\ pc[k.cur] = "run" /\ pc' = [pc EXCEPT ![k.cur] = "send"]
    BY <2>1 DEF SendBegin, IsrSendBegin, Executes
  <2> QED BY <2>2, RaiseStep
<1>2. CASE SendTurn(t) \/ IsrSendTurn
  <2>1. Looping /\ Turn
    BY <1>2 DEF SendTurn, IsrSendTurn, ExecutesMasked, Looping
  <2> QED BY <2>1, PassStep, ServeStep DEF Turn
<1> QED BY <1>1, <1>2

LEMMA SendEndStep ==
  ASSUME EvInv, NEW t \in Thread, SendEnd(t)
  PROVE  EvInv'
<1>1. ThreadsInv /\ KernelInv(k, {}) /\ pc \in [Thread -> Points]
  BY DEF EvInv, ThreadsInv
<1>2. Looping /\ LoopEnds /\ t = k.cur /\ pc[t] = "send" /\ k' = k
  BY DEF SendEnd, ExecutesMasked, Looping
<1>3. PICK to \in {"sched", "run"} : pc' = [pc EXCEPT ![t] = to]
  BY DEF SendEnd
<1>4. k.stat[k.cur] = "RUNNING"
  BY <1>1, <1>2, Running
<1>5. pc' \in [Thread -> Points] /\ \A u \in Thread : InRecv(pc'[u]) <=> InRecv(pc[u])
  BY <1>1, <1>2, <1>3 DEF Points, InRecv
<1>6. Keeps(k', k)
  BY <1>2, <1>4 DEF Keeps
<1> QED BY <1>1, <1>2, <1>4, <1>5, <1>6, LoopEnd

LEMMA IsrSendEndStep ==
  ASSUME EvInv, IsrSendEnd
  PROVE  EvInv'
<1>1. /\ ThreadsInv /\ KernelInv(k, {}) /\ pc \in [Thread -> Points] /\ k.nest = 0
      /\ {} \in SUBSET Thread
  BY ThreadFacts DEF EvInv, ThreadsInv, CurrentGoesOn
<1>2. Looping /\ LoopEnds /\ pc' = pc /\ (k' = k \/ k' = rt_schedule(k))
  BY DEF IsrSendEnd, Looping
<1>3. CASE k' = k
  <2>1. Keeps(k', k)
    BY <1>3 DEF Keeps
  <2> QED BY <1>1, <1>2, <1>3, <2>1, LoopEnd
<1>4. CASE k' = rt_schedule(k)
  <2>1. KernelInv(k', {}) /\ Keeps(k', k) /\ SameWaits(k', k)
    BY <1>1, <1>4, ScheduleInv, ScheduleWaits
  <2> QED BY <1>1, <1>2, <2>1, LoopEnd DEF SameWaits
<1> QED BY <1>2, <1>3, <1>4

-----------------------------------------------------------------------------
(* Waiters that are turned away: rt_event_control, rt_event_delete,        *)
(* time-outs                                                               *)

\* A waiter that leaves with an error takes no flag with it.
LEMMA TurnedAway ==
  ASSUME EvInv, NEW u \in ToSet(Waiters), NEW e, e # "EOK",
         KernelInv(k', {}), Keeps(k', k), k'.err = [k.err EXCEPT ![u] = e],
         ToSet(k'.wait[Event]) = ToSet(Waiters) \ {u}, Asleep(k') = Asleep(k) \ {u},
         pc' \in [Thread -> Points],
         \A v \in Thread : InRecv(pc'[v]) <=> InRecv(pc[v]),
         k'.stat[k'.cur] = "RUNNING",
         n = 0, LoopInv', UNCHANGED <<set, info, asked, owed, object, n, need_schedule>>
  PROVE  EvInv'
<1>1. ThreadsInv /\ FlagsInv /\ need_schedule \in BOOLEAN /\ object \in {"live", "deleting", "deleted"}
  BY DEF EvInv, FlagsInv, FlagTypes
<1>2. ToSet(Waiters') = ToSet(Waiters) \ {u}
  BY DEF Waiters
<1>3. ThreadsInv' /\ Woken' = Woken
  BY <1>1, <1>2, OneWoken
<1>4. FlagsInv'
  BY <1>1, <1>2, <1>3, SameFlags
<1> QED BY <1>1, <1>3, <1>4 DEF EvInv

\* A turn of the loops that turn every waiter away.
LEMMA TurnAwayStep ==
  ASSUME EvInv, NEW t \in Thread, ResetTurn(t) \/ DeleteResume(t)
  PROVE  EvInv'
<1> DEFINE h == Head(Waiters)
<1>1. /\ ThreadsInv /\ LoopInv /\ pc \in [Thread -> Points] /\ {} \in SUBSET Thread /\ Event \in Queue
      /\ KernelInv(k, {})
  BY ThreadFacts DEF EvInv, ThreadsInv
<1>2. /\ t = k.cur
      /\ \/ isr = "masked" /\ pc[t] = "reset" /\ pc' = pc
         \/ isr = "none" /\ pc[t] = "resume" /\ pc' = [pc EXCEPT ![t] = "delete"]
  BY DEF ResetTurn, DeleteResume, ResumeAllMasked, ResumeAllBody, Executes, ExecutesMasked
<1>3. /\ Waiters # <<>> /\ k' = ResumeWithError(k, Event) /\ isr' = isr
      /\ UNCHANGED <<set, info, asked, owed, object, n, need_schedule>>
  BY DEF ResetTurn, DeleteResume, ResumeAllMasked, ResumeAllBody, Waiters
<1>4. pc' \in [Thread -> Points] /\ \A u \in Thread : InRecv(pc'[u]) <=> InRecv(pc[u])
  BY <1>1, <1>2 DEF Points, InRecv
<1>5. k.stat[k.cur] = "RUNNING" /\ n = 0
  BY <1>1, <1>2, Running DEF LoopInv, Looping
<1>6. /\ h \in ToSet(Waiters)
      /\ KernelInv(k', {}) /\ Keeps(k', k) /\ k'.cur = k.cur
      /\ k'.err = [k.err EXCEPT ![h] = "ERROR"]
      /\ ToSet(k'.wait[Event]) = ToSet(Waiters) \ {h}
      /\ Asleep(k') = Asleep(k) \ {h}
  BY <1>1, <1>3, ListResumeError DEF Waiters
<1>7. k'.stat[k'.cur] = "RUNNING"
  BY <1>5, <1>6 DEF Keeps
<1>8. LoopInv'
  BY <1>1, <1>2, <1>3, <1>5, <1>6 DEF LoopInv, Looping
<1> HIDE DEF h
<1> QED BY <1>3, <1>4, <1>5, <1>6, <1>7, <1>8, TurnedAway

\* The steps of rt_event_control and rt_event_delete that wake nobody.
LEMMA OwnStep ==
  ASSUME EvInv, NEW t \in Thread, ResetBegin(t) \/ DeleteBegin(t) \/ DeleteTest(t)
  PROVE  EvInv'
<1>1. /\ ThreadsInv /\ LoopInv /\ FlagsInv /\ KernelInv(k, {}) /\ pc \in [Thread -> Points]
      /\ need_schedule \in BOOLEAN /\ object \in {"live", "deleting", "deleted"}
  BY DEF EvInv, ThreadsInv, FlagsInv, FlagTypes
<1>2. PICK at \in {"run", "delete"} : t = k.cur /\ pc[t] = at /\ isr = "none"
  BY DEF ResetBegin, DeleteBegin, DeleteTest, ResumeAllTest, Executes
<1>3. PICK to \in {"reset", "delete", "resume", "run"} : pc' = [pc EXCEPT ![t] = to]
  BY DEF ResetBegin, DeleteBegin, DeleteTest, ResumeAllTest
<1>4. /\ k' = k /\ isr' \in {"none", "masked"} /\ object' \in {"live", "deleting", "deleted"}
      /\ UNCHANGED <<set, info, asked, owed, n, need_schedule>>
  BY <1>1, <1>2 DEF ResetBegin, DeleteBegin, DeleteTest, ResumeAllTest
<1>5. pc' \in [Thread -> Points] /\ \A u \in Thread : InRecv(pc'[u]) <=> InRecv(pc[u])
  BY <1>1, <1>2, <1>3 DEF Points, InRecv
<1>6. k.stat[k.cur] = "RUNNING" /\ n = 0
  BY <1>1, <1>2, Running DEF LoopInv, Looping
<1>7. Keeps(k', k)
  BY <1>4, <1>6 DEF Keeps
<1>8. ThreadsInv' /\ Waiters' = Waiters /\ Woken' = Woken
  BY <1>1, <1>4, <1>5, <1>6, <1>7, NobodyMoved
<1>9. LoopInv'
  BY <1>1, <1>2, <1>3, <1>4, <1>6 DEF LoopInv, Looping
<1>10. FlagsInv'
  BY <1>1, <1>4, <1>6, <1>8, SameFlags
<1> QED BY <1>1, <1>4, <1>8, <1>9, <1>10 DEF EvInv

\* The flags are cleared with nobody left in the list.
LEMMA ResetEndStep ==
  ASSUME EvInv, NEW t \in Thread, ResetEnd(t)
  PROVE  EvInv'
<1>1. /\ ThreadsInv /\ LoopInv /\ FlagsInv /\ KernelInv(k, {}) /\ pc \in [Thread -> Points]
      /\ need_schedule \in BOOLEAN
  BY DEF EvInv, ThreadsInv
<1>2. /\ t = k.cur /\ pc[t] = "reset" /\ isr = "masked" /\ Waiters = <<>>
      /\ set' = {} /\ owed' = [b \in Bits |-> IF b \in set THEN owed[b] - 1 ELSE owed[b]]
      /\ isr' = "none" /\ pc' = [pc EXCEPT ![t] = "sched"]
      /\ UNCHANGED <<k, info, asked, object, n, need_schedule>>
  BY DEF ResetEnd, ExecutesMasked
<1>3. pc' \in [Thread -> Points] /\ \A u \in Thread : InRecv(pc'[u]) <=> InRecv(pc[u])
  BY <1>1, <1>2 DEF Points, InRecv
<1>4. k.stat[k.cur] = "RUNNING" /\ n = 0
  BY <1>1, <1>2, Running DEF LoopInv, Looping
<1>5. ThreadsInv' /\ Waiters' = Waiters /\ Woken' = Woken
  <2>1. Keeps(k', k)
    BY <1>2, <1>4 DEF Keeps
  <2> QED BY <1>1, <1>2, <1>3, <1>4, <2>1, NobodyMoved
<1>6. LoopInv'
  BY <1>2, <1>4 DEF LoopInv, Looping
<1>7. FlagTypes'
  BY <1>1, <1>2 DEF FlagsInv, FlagTypes
<1>8. PassedUnsatisfied' /\ WaitersAsk'
  <2>1. Len(Waiters') = 0 /\ ToSet(Waiters') = {}
    BY <1>2, <1>5 DEF ToSet
  <2> QED BY <2>1 DEF PassedUnsatisfied, WaitersAsk
<1>9. ReceivesWhatWasAsked'
  BY <1>1, <1>2, <1>5 DEF FlagsInv, ReceivesWhatWasAsked
<1>10. owed' = [b \in Bits |-> Held(b)']
  <2>1. owed = [b \in Bits |-> Held(b)]
    BY <1>1 DEF FlagsInv
  <2>2. \A b : Holders(b)' = Holders(b)
    BY <1>2, <1>5 DEF Holders
  <2>3. \A b \in Bits : Held(b)' = IF b \in set THEN Held(b) - 1 ELSE Held(b)
    BY <1>2, <2>2, HoldersFinite DEF Held
  <2> QED BY <1>2, <2>1, <2>3
<1> QED BY <1>1, <1>2, <1>5, <1>6, <1>7, <1>8, <1>9, <1>10 DEF EvInv, FlagsInv

-----------------------------------------------------------------------------
(* The tick interrupt *)

\* The tick changes no list of the event; a timer that fires turns its thread
\* away.
LEMMA InterruptStep ==
  ASSUME EvInv, TickInterrupt
  PROVE  EvInv'
<1>1. /\ ThreadsInv /\ LoopInv /\ FlagsInv /\ KernelInv(k, {}) /\ pc \in [Thread -> Points]
      /\ {} \in SUBSET Thread /\ Event \in Queue /\ k.nest = 0 /\ k \in KernelState
      /\ need_schedule \in BOOLEAN /\ object \in {"live", "deleting", "deleted"}
  BY ThreadFacts DEF EvInv, ThreadsInv, CurrentGoesOn, FlagsInv, FlagTypes
<1>2. UNCHANGED <<set, info, asked, owed, object, n, need_schedule>>
  BY DEF TickInterrupt
<1>0. isr \in {"none", "check"} /\ isr' \in {"none", "check"} /\ n = 0 /\ LoopInv'
  BY <1>1, <1>2 DEF TickInterrupt, Interrupt, Tick, TimerFire, TimerCheckEnd, LoopInv, Looping
<1>3. CASE Tick
  <2>1. k' = rt_tick_increase(k) /\ pc' = pc
    BY <1>3 DEF Tick
  <2>2. /\ KernelInv(k', {}) /\ Keeps(k', k) /\ k'.wait = k.wait /\ k'.err = k.err
        /\ Asleep(k') = Asleep(k)
    BY <1>1, <2>1, TickInv, TickWaits
  <2>3. ThreadsInv' /\ Waiters' = Waiters /\ Woken' = Woken
    BY <1>1, <2>1, <2>2, NobodyMoved
  <2>4. FlagsInv'
    BY <1>0, <1>1, <1>2, <2>3, SameFlags
  <2> QED BY <1>0, <1>1, <1>2, <2>3, <2>4 DEF EvInv
<1>4. CASE TimerFire
  <2> DEFINE u == Head(k.timers).thr
  <2>1. k' = _thread_timeout(k, u) /\ pc' = pc /\ k.timers # <<>>
    BY <1>4 DEF TimerFire, TimerExpired
  <2>2. u \in Thread /\ k.stat[u] = "SUSPEND"
    <3>1. k.timers \in Seq(Timer) /\ 1 \in DOMAIN k.timers /\ Head(k.timers) = k.timers[1]
      BY <1>1, <2>1, TimerThreads, SeqViews, HeadTailProperties
    <3> QED BY <1>1, <3>1, TimerThreads DEF KernelInv, ListsConsistent, TimersOf
  <2> HIDE DEF u
  <2>3. u \in ToSet(Waiters)
    BY <1>1, <2>2 DEF ThreadsInv, WaitersAsleep, Asleep
  <2>4. /\ KernelInv(k', {}) /\ Keeps(k', k) /\ k'.err = [k.err EXCEPT ![u] = "ETIMEOUT"]
        /\ ToSet(k'.wait[Event]) = ToSet(Waiters) \ {u}
        /\ Asleep(k') = Asleep(k) \ {u}
    <3> DEFINE r == _thread_timeout(k, u)
    <3>1. /\ KernelInv(k, {}) /\ {} \in SUBSET Thread /\ Event \in Queue /\ u \in ToSet(k.wait[Event])
      BY <1>1, <2>3 DEF ThreadsInv, Waiters
    <3>2. /\ KernelInv(r, {}) /\ Keeps(r, k) /\ r.err = [k.err EXCEPT ![u] = "ETIMEOUT"]
          /\ ToSet(r.wait[Event]) = ToSet(k.wait[Event]) \ {u}
          /\ Asleep(r) = Asleep(k) \ {u}
      BY <3>1, TimeoutLeaves, SMTT(40)
    <3> QED BY <2>1, <3>2, Zenon DEF Waiters
  <2>5. k'.stat[k'.cur] = "RUNNING"
    <3>1. u \in Thread \ {}
      BY <2>2
    <3> QED BY <1>1, <2>1, <2>2, <3>1, TimeoutRuns
  <2> QED BY <1>0, <1>1, <1>2, <2>1, <2>3, <2>4, <2>5, TurnedAway
<1>5. CASE TimerCheckEnd
  <2>1. k' = k /\ pc' = pc
    BY <1>5 DEF TimerCheckEnd
  <2>2. Waiters' = Waiters /\ Woken' = Woken /\ ThreadsInv'
    BY <1>1, <2>1 DEF Waiters, Woken, ThreadsInv, CurrentGoesOn, WaitersAsleep
  <2>3. FlagsInv'
    BY <1>0, <1>1, <1>2, <2>2, SameFlags
  <2> QED BY <1>0, <1>1, <1>2, <2>2, <2>3 DEF EvInv
<1> QED BY <1>3, <1>4, <1>5 DEF TickInterrupt, Interrupt

\* Every step preserves the invariant.
LEMMA NextStep == EvInv /\ [Next]_vars => EvInv'
<1> SUFFICES ASSUME EvInv, [Next]_vars PROVE EvInv'
  OBVIOUS
<1>1. CASE UNCHANGED vars
  <2>1. UNCHANGED <<k, isr, pc, set, info, asked, owed, object, n, need_schedule>>
    BY <1>1 DEF vars
  <2>2. Waiters' = Waiters /\ Woken' = Woken
    BY <2>1 DEF Waiters, Woken
  <2>3. ThreadsInv' /\ LoopInv'
    BY <2>1, <2>2 DEF EvInv, ThreadsInv, CurrentGoesOn, WaitersAsleep, LoopInv, Looping
  <2>4. FlagsInv'
    BY <2>1, <2>2 DEF EvInv, FlagsInv, FlagTypes, PassedUnsatisfied, Wants, WaitersAsk,
                      ReceivesWhatWasAsked, Held, Holders
  <2> QED BY <2>1, <2>3, <2>4 DEF EvInv
<1>2. ASSUME NEW t \in Thread, ThreadStep(t) PROVE EvInv'
  BY <1>2, RecvStep, RecvReturnStep, ScheduleStep, SendStep, SendEndStep, OwnStep, ResetEndStep,
     TurnAwayStep DEF ThreadStep
<1>3. CASE TickInterrupt
  BY <1>3, InterruptStep
<1>4. CASE (\E bits \in SUBSET Bits \ {{}} : IsrSendBegin(bits)) \/ IsrSendTurn
  BY <1>4, SendStep, KernelAssumption
<1>5. CASE IsrSendEnd
  BY <1>5, IsrSendEndStep
<1> QED BY <1>1, <1>2, <1>3, <1>4, <1>5 DEF Next

\* The invariant of the event holds for any threads, flags and timeouts.
THEOREM EventInvariant == Spec => []EvInv
BY InitInv, NextStep, PTL DEF Spec

\* Outside of the loop of rt_event_send nobody waits for flags that are set, and
\* threads, kernel lists and event agree.
THEOREM EventCorrect == Spec => []EventInv
BY EventInvariant, EvInvImplies, PTL

\* A receiver that rt_event_recv returns RT_EOK to was given flags it asked for,
\* all of them if it asked for all.
THEOREM EventReceives == Spec => []ReceivesWhatWasAsked
BY EventInvariant, EvInvImplies, PTL

\* A flag reaches one clearing receiver: none is lost between rt_event_send,
\* rt_event_recv, timeouts and resets, and none is made up.
THEOREM EventConserves == Spec => []FlagsConserved
BY EventInvariant, EvInvImplies, PTL
=============================================================================
