-------------------------- MODULE SemaphoreProofs --------------------------
(***************************************************************************)
(* SemaphoreInv holds of Semaphore, and Semaphore implements               *)
(* CountingSemaphore, for any number of threads, any priorities, timeouts, *)
(* values and order of the suspend list, with interrupt handlers that      *)
(* release, resets and deletion.                                           *)
(***************************************************************************)
EXTENDS Semaphore, KernelLemmas

USE DEF Goto

Points == {"run", "blocked", "woken", "sched", "reset", "delete", "resume"}

\* The scheduler is never locked here, and the current thread can run, or has
\* just put itself to sleep and is about to call rt_schedule().
CurrentGoesOn ==
  /\ k.nest = 0
  /\ \/ k.stat[k.cur] = "RUNNING"
     \/ k.stat[k.cur] = "SUSPEND" /\ pc[k.cur] = "blocked"

\* Exactly the waiters are suspended, each of them inside rt_sem_take and with
\* no error so far: whoever is woken by a release finds RT_EOK.
WaitersAsleep ==
  /\ Asleep(k) = ToSet(Waiters)
  /\ \A t \in ToSet(Waiters) : pc[t] \in {"blocked", "woken"} /\ k.err[t] = "EOK"

\* The part of the inductive invariant about threads.
ThreadsInv ==
  /\ KernelInv(k, {})
  /\ pc \in [Thread -> Points]
  /\ CurrentGoesOn
  /\ WaitersAsleep

\* The part about the semaphore.
ValueInv ==
  /\ isr \in {"none", "check", "masked"}
  /\ value \in 0 .. MaxValue
  /\ object \in {"live", "deleting", "deleted"}
  /\ NoneWaitsForNothing
  /\ TokensConserved

SemInv == ThreadsInv /\ ValueInv

\* A step of the abstract semaphore or none.
Counts == [Abstract!Next]_<<value, Waiters, Granted>>

\* The kernel's state, unfolded.
LEMMA ThreadFacts ==
  ASSUME ThreadsInv
  PROVE  /\ k \in KernelState /\ k.cur \in Thread /\ Waiters \in Seq(Thread)
         /\ ToSet(Waiters) \subseteq Thread /\ IsInjective(Waiters)
         /\ k.err \in [Thread -> Error] /\ k.wait \in [Queue -> Seq(Thread)]
         /\ {} \in SUBSET Thread /\ Sem \in Queue
<1>1. k \in KernelState /\ Sem \in Queue
  BY SemaphoreAssumption DEF ThreadsInv, KernelInv
<1>2. k.cur \in Thread /\ k.wait \in [Queue -> Seq(Thread)] /\ k.err \in [Thread -> Error]
  BY <1>1 DEF KernelState
<1>3. IsInjective(Waiters) /\ Waiters \in Seq(Thread)
  BY <1>1, <1>2 DEF ThreadsInv, KernelInv, ListsConsistent, WaitersOf, Waiters
<1>4. ToSet(Waiters) \subseteq Thread
  BY <1>3, SeqViews
<1> QED BY <1>1, <1>2, <1>3, <1>4

\* The number of served threads is a number.
LEMMA GrantedFinite == IsFiniteSet(Granted) /\ Cardinality(Granted) \in Nat
<1>1. Granted \subseteq Thread
  BY DEF Granted
<1>2. IsFiniteSet(Granted)
  BY <1>1, FS_Subset, KernelAssumption
<1> QED BY <1>2, FS_CardinalityType

\* What is proved in two parts is the invariant that the runs check.
LEMMA SemInvImplies == SemInv => SemaphoreInv
<1> SUFFICES ASSUME SemInv PROVE SemaphoreInv
  OBVIOUS
<1>1. tokens \in Nat
  <2>1. value \in Nat
    BY SemaphoreAssumption DEF SemInv, ValueInv
  <2> QED BY <2>1, GrantedFinite DEF SemInv, ValueInv, TokensConserved
<1> QED BY <1>1 DEF SemInv, ThreadsInv, ValueInv, Points, SemaphoreInv, TypeOK

\* A thread at a point of its code other than the one where it has put itself
\* to sleep is running and waits for nothing.
LEMMA Running ==
  ASSUME ThreadsInv, NEW t \in Thread, t = k.cur, pc[t] # "blocked"
  PROVE  k.stat[t] = "RUNNING" /\ t \notin ToSet(Waiters)
<1>1. k.stat[t] = "RUNNING"
  BY DEF ThreadsInv, CurrentGoesOn
<1>2. t \notin Asleep(k)
  BY <1>1 DEF Asleep
<1> QED BY <1>1, <1>2 DEF ThreadsInv, WaitersAsleep

InTake(at) == at \in {"blocked", "woken"}

\* A step after which the same threads wait and nobody's error has changed.
LEMMA NobodyMoved ==
  ASSUME ThreadsInv, KernelInv(k', {}), Keeps(k', k), k'.wait = k.wait,
         k'.err = k.err, Asleep(k') = Asleep(k), pc' \in [Thread -> Points],
         \A u \in Thread : InTake(pc'[u]) <=> InTake(pc[u]),
         k'.stat[k'.cur] = "RUNNING" \/ pc'[k.cur] = pc[k.cur]
  PROVE  ThreadsInv' /\ Waiters' = Waiters /\ Granted' = Granted
<1>1. Waiters' = Waiters
  BY DEF Waiters
<1>2. Granted' = Granted
  BY <1>1 DEF Granted, InTake
<1>3. WaitersAsleep'
  BY <1>1, ThreadFacts DEF ThreadsInv, WaitersAsleep, InTake
<1>4. CurrentGoesOn'
  <2>1. CASE k'.stat[k'.cur] = "RUNNING"
    BY <2>1 DEF ThreadsInv, CurrentGoesOn, Keeps
  <2>2. CASE k'.stat[k'.cur] # "RUNNING"
    <3>1. k'.cur = k.cur /\ k.stat[k.cur] # "RUNNING"
      BY <2>2 DEF Keeps
    <3>2. k.stat[k.cur] = "SUSPEND" /\ pc[k.cur] = "blocked" /\ k.cur \in Thread
      BY <3>1, ThreadFacts DEF ThreadsInv, CurrentGoesOn
    <3>3. k'.stat[k'.cur] = "SUSPEND"
      BY <3>1, <3>2 DEF Asleep
    <3> QED BY <2>2, <3>1, <3>2, <3>3 DEF ThreadsInv, CurrentGoesOn, Keeps
  <2> QED BY <2>1, <2>2
<1> QED BY <1>1, <1>2, <1>3, <1>4 DEF ThreadsInv

\* A step that wakes one waiter and changes the error of nobody else.
LEMMA OneWoken ==
  ASSUME ThreadsInv, KernelInv(k', {}), Keeps(k', k), NEW h \in ToSet(Waiters), NEW e,
         k'.err = [k.err EXCEPT ![h] = e], Asleep(k') = Asleep(k) \ {h},
         ToSet(Waiters') = ToSet(Waiters) \ {h},
         pc' \in [Thread -> Points],
         \A u \in Thread : InTake(pc'[u]) <=> InTake(pc[u]),
         k'.stat[k'.cur] = "RUNNING"
  PROVE  /\ ThreadsInv' /\ h \notin Granted
         /\ Granted' = IF e = "EOK" THEN Granted \cup {h} ELSE Granted
<1>0. h \in Thread /\ ToSet(Waiters) \subseteq Thread /\ k.err \in [Thread -> Error]
  BY ThreadFacts
<1>1. h \notin Granted /\ InTake(pc[h])
  BY DEF Granted, ThreadsInv, WaitersAsleep, InTake
<1>2. WaitersAsleep'
  <2>1. \A t \in ToSet(Waiters') : InTake(pc'[t]) /\ k'.err[t] = "EOK"
    BY <1>0 DEF ThreadsInv, WaitersAsleep, InTake
  <2> QED BY <2>1 DEF ThreadsInv, WaitersAsleep, InTake
<1>3. \A u \in Thread : u \in Granted' <=> u \in Granted \/ (u = h /\ e = "EOK")
  <2>1. \A u \in Thread : u \in Granted <=> InTake(pc[u]) /\ u \notin ToSet(Waiters) /\ k.err[u] = "EOK"
    BY DEF Granted, InTake
  <2>2. \A u \in Thread :
          u \in Granted' <=> InTake(pc'[u]) /\ u \notin ToSet(Waiters') /\ k'.err[u] = "EOK"
    BY DEF Granted, InTake
  <2> QED BY <1>0, <1>1, <2>1, <2>2
<1>4. Granted' \subseteq Thread /\ Granted \subseteq Thread
  BY DEF Granted
<1>5. CurrentGoesOn'
  BY DEF ThreadsInv, CurrentGoesOn, Keeps
<1>6. Granted' = IF e = "EOK" THEN Granted \cup {h} ELSE Granted
  BY <1>0, <1>3, <1>4
<1>7. ThreadsInv'
  BY <1>2, <1>5 DEF ThreadsInv
<1> QED BY <1>1, <1>6, <1>7

\* A token goes to one more thread.
LEMMA OneMore ==
  ASSUME NEW h, h \notin Granted, Granted' = Granted \cup {h}
  PROVE  Cardinality(Granted') = Cardinality(Granted) + 1
BY GrantedFinite, FS_AddElement

\* A thread leaves with its token.
LEMMA OneLess ==
  ASSUME NEW h \in Granted, Granted' = Granted \ {h}
  PROVE  Cardinality(Granted') = Cardinality(Granted) - 1
BY GrantedFinite, FS_RemoveElement

\* A step that leaves the semaphore alone.
LEMMA SameValue ==
  ASSUME ValueInv, Waiters' = Waiters, Granted' = Granted, value' = value, tokens' = tokens,
         isr' \in {"none", "check", "masked"}, object' \in {"live", "deleting", "deleted"}
  PROVE  ValueInv' /\ Counts
<1>1. ValueInv'
  BY DEF ValueInv, NoneWaitsForNothing, TokensConserved
<1> QED BY <1>1 DEF Counts

\* The initial states.
LEMMA InitInv == Init => SemInv /\ Abstract!Init
<1> SUFFICES ASSUME Init PROVE SemInv /\ Abstract!Init
  OBVIOUS
<1>1. PICK tbl \in BootTables : k = rt_system_scheduler_start(tbl)
  BY DEF Init, ProcessorInit
<1>2. /\ KernelInv(k, {}) /\ k.stat[k.cur] = "RUNNING" /\ k.nest = 0
      /\ \A q \in Queue : k.wait[q] = <<>>
      /\ \A t \in Thread : k.stat[t] # "SUSPEND"
  BY <1>1, BootInv
<1>3. Waiters = <<>> /\ ToSet(Waiters) = {}
  BY <1>2, SemaphoreAssumption DEF Waiters, ToSet
<1>4. pc = [t \in Thread |-> "run"] /\ isr = "none"
  BY DEF Init, ProcessorInit
<1>5. Granted = {}
  BY <1>4 DEF Granted
<1>6. ThreadsInv
  BY <1>2, <1>3, <1>4 DEF ThreadsInv, CurrentGoesOn, WaitersAsleep, Asleep, Points
<1>7. ValueInv
  <2>1. Cardinality(Granted) = 0
    BY <1>5, FS_EmptySet
  <2> QED BY <1>3, <1>4, <2>1, SemaphoreAssumption DEF Init, ValueInv, NoneWaitsForNothing, TokensConserved
<1> QED BY <1>3, <1>5, <1>6, <1>7 DEF SemInv, Abstract!Init, Init

-----------------------------------------------------------------------------
(* rt_sem_take *)

\* A thread that finds no token queues; it has none yet.
LEMMA TakeStep ==
  ASSUME SemInv, NEW t \in Thread, NEW n \in Timeouts, Take(t, n)
  PROVE  SemInv' /\ Counts
<1>1. ThreadsInv /\ ValueInv
  BY DEF SemInv
<1>2. /\ t = k.cur /\ pc[t] = "run" /\ isr' = isr /\ object' = object
      /\ pc \in [Thread -> Points] /\ KernelInv(k, {})
      /\ isr \in {"none", "check", "masked"} /\ object \in {"live", "deleting", "deleted"}
  BY <1>1 DEF Take, Executes, ThreadsInv, ValueInv
<1>3. k.stat[t] = "RUNNING" /\ t \notin ToSet(Waiters)
  BY <1>1, <1>2, Running
<1>4. CASE value > 0 /\ value' = value - 1 /\ tokens' = tokens - 1 /\ UNCHANGED <<k, pc>>
  <2>1. Waiters' = Waiters /\ Granted' = Granted /\ ThreadsInv'
    BY <1>1, <1>4 DEF Waiters, Granted, ThreadsInv, CurrentGoesOn, WaitersAsleep
  <2>2. value \in 0 .. MaxValue /\ value' \in 0 .. MaxValue /\ MaxValue \in Nat
    BY <1>1, <1>4, SemaphoreAssumption DEF ValueInv
  <2>3. Waiters = <<>>
    BY <1>1, <1>4 DEF ValueInv, NoneWaitsForNothing
  <2>4. tokens' = value' + Cardinality(Granted')
    BY <1>1, <1>4, <2>1, <2>2, GrantedFinite DEF ValueInv, TokensConserved
  <2>5. ValueInv'
    BY <1>2, <2>1, <2>2, <2>3, <2>4 DEF ValueInv, NoneWaitsForNothing, TokensConserved
  <2>6. Abstract!Take
    BY <1>4, <2>1 DEF Abstract!Take
  <2> QED BY <2>1, <2>5, <2>6 DEF SemInv, Counts, Abstract!Next
<1>5. CASE value = 0 /\ n = 0 /\ UNCHANGED <<k, pc, value, tokens>>
  <2>1. Waiters' = Waiters /\ Granted' = Granted /\ ThreadsInv'
    BY <1>1, <1>5 DEF Waiters, Granted, ThreadsInv, CurrentGoesOn, WaitersAsleep
  <2> QED BY <1>1, <1>2, <1>5, <2>1, SameValue DEF SemInv
<1>6. CASE /\ value = 0 /\ MayBlock(t) /\ k' = WaitOn(k, Sem, t, Flag, n)
           /\ pc' = [pc EXCEPT ![t] = "blocked"] /\ UNCHANGED <<value, tokens>>
  <2>1. /\ t \in Thread \ {} /\ t # Idle /\ n \in Nat \cup {Forever} /\ {} \in SUBSET Thread
        /\ Sem \in Queue
    BY <1>6, SemaphoreAssumption DEF MayBlock
  <2>2. /\ KernelInv(k', {}) /\ k'.cur = k.cur /\ k'.nest = k.nest
        /\ k'.err = [k.err EXCEPT ![t] = "EOK"]
        /\ \A u \in Thread : k'.stat[u] = IF u = t THEN "SUSPEND" ELSE k.stat[u]
        /\ \E i \in 1 .. Len(k.wait[Sem]) + 1 : k'.wait[Sem] = InsertAt(k.wait[Sem], i, t)
    <3>1. KernelInv(k', {}) /\ Queued(k', k, Sem, t, n)
      BY <1>2, <1>3, <1>6, <2>1, WaitOnInv
    <3> QED BY <3>1 DEF Queued
  <2>3. /\ Waiters \in Seq(Thread) /\ IsInjective(Waiters) /\ ToSet(Waiters) \subseteq Thread
        /\ k.err \in [Thread -> Error] /\ k.wait \in [Queue -> Seq(Thread)]
    BY <1>1, ThreadFacts
  <2>4. PICK i \in 1 .. Len(Waiters) + 1 : Waiters' = InsertAt(Waiters, i, t)
    BY <2>1, <2>2, <2>3 DEF Waiters
  <2>5. ToSet(Waiters') = ToSet(Waiters) \cup {t}
    BY <1>3, <2>3, <2>4, InsertAtProps
  <2>6. Asleep(k') = Asleep(k) \cup {t}
    BY <2>2 DEF Asleep
  <2>7. \A u \in Thread : u # t => pc'[u] = pc[u] /\ k'.err[u] = k.err[u]
    BY <1>2, <1>6, <2>2, <2>3
  <2>8. pc'[t] = "blocked" /\ k'.err[t] = "EOK" /\ pc' \in [Thread -> Points]
    BY <1>2, <1>6, <2>2, <2>3 DEF Points
  <2>9. t \notin Granted
    BY <1>2 DEF Granted
  <2>10. Granted' = Granted
    BY <1>2, <2>5, <2>7, <2>8, <2>9 DEF Granted
  <2>11. ThreadsInv'
    <3>1. WaitersAsleep'
      BY <1>1, <2>3, <2>5, <2>6, <2>7, <2>8 DEF ThreadsInv, WaitersAsleep
    <3>2. CurrentGoesOn'
      BY <1>1, <1>2, <2>2, <2>8 DEF ThreadsInv, CurrentGoesOn
    <3> QED BY <2>2, <2>8, <3>1, <3>2 DEF ThreadsInv
  <2>12. ValueInv'
    BY <1>1, <1>2, <1>6, <2>10 DEF ValueInv, NoneWaitsForNothing, TokensConserved
  <2>13. Abstract!Enqueue(t)
    BY <1>3, <1>6, <2>4, <2>9, <2>10 
     DEF Abstract!Enqueue, Abstract!InsertAt, InsertAt, Abstract!ToSet, ToSet
  <2> QED BY <2>11, <2>12, <2>13 DEF SemInv, Counts, Abstract!Next
<1> QED BY <1>4, <1>5, <1>6 DEF Take

\* The caller of rt_sem_take leaves, with its token if it was given one.
LEMMA TakeReturnStep ==
  ASSUME SemInv, NEW t \in Thread, TakeReturn(t)
  PROVE  SemInv' /\ Counts
<1>1. ThreadsInv /\ ValueInv
  BY DEF SemInv
<1>2. /\ t = k.cur /\ pc[t] = "woken" /\ isr' = isr /\ object' = object /\ k' = k /\ value' = value
      /\ pc' = [pc EXCEPT ![t] = "run"] /\ pc \in [Thread -> Points]
      /\ isr \in {"none", "check", "masked"} /\ object \in {"live", "deleting", "deleted"}
  BY <1>1 DEF TakeReturn, Executes, ThreadsInv, ValueInv
<1>3. k.stat[t] = "RUNNING" /\ t \notin ToSet(Waiters)
  BY <1>1, <1>2, Running
<1>4. Waiters' = Waiters
  BY <1>2 DEF Waiters
<1>5. pc' \in [Thread -> Points] /\ pc'[t] = "run" /\ \A u \in Thread : u # t => pc'[u] = pc[u]
  BY <1>2 DEF Points
<1>6. ThreadsInv'
  <2>1. WaitersAsleep'
    BY <1>1, <1>2, <1>3, <1>4, <1>5, ThreadFacts DEF ThreadsInv, WaitersAsleep
  <2>2. CurrentGoesOn'
    BY <1>1, <1>2, <1>3 DEF ThreadsInv, CurrentGoesOn
  <2> QED BY <1>1, <1>2, <1>5, <2>1, <2>2 DEF ThreadsInv
<1>7. CASE k.err[t] = "EOK"
  <2>1. t \in Granted /\ Granted' = Granted \ {t}
    BY <1>2, <1>3, <1>4, <1>5, <1>7 DEF Granted
  <2>2. Cardinality(Granted') = Cardinality(Granted) - 1 /\ Cardinality(Granted) \in Nat
    BY <2>1, OneLess, GrantedFinite
  <2>3. value \in Nat /\ tokens' = tokens - 1
    BY <1>1, <1>7, SemaphoreAssumption DEF ValueInv, TakeReturn
  <2>4. tokens' = value' + Cardinality(Granted')
    BY <1>1, <1>2, <2>2, <2>3 DEF ValueInv, TokensConserved
  <2>5. ValueInv'
    BY <1>1, <1>2, <1>4, <2>4 DEF ValueInv, NoneWaitsForNothing, TokensConserved
  <2>6. Abstract!Depart(t)
    BY <1>2, <1>4, <2>1 DEF Abstract!Depart
  <2> QED BY <1>6, <2>5, <2>6 DEF SemInv, Counts, Abstract!Next
<1>8. CASE k.err[t] # "EOK"
  <2>1. Granted' = Granted /\ tokens' = tokens
    BY <1>2, <1>4, <1>5, <1>8 DEF Granted, TakeReturn
  <2> QED BY <1>1, <1>2, <1>4, <1>6, <2>1, SameValue DEF SemInv
<1> QED BY <1>7, <1>8

\* rt_schedule() at the end of a call.
LEMMA ScheduleStep ==
  ASSUME SemInv, NEW t \in Thread, Schedule(t)
  PROVE  SemInv' /\ Counts
<1>1. ThreadsInv /\ ValueInv
  BY DEF SemInv
<1>2. PICK from, to : /\ Reschedule(t, from, to)
                      /\ <<from, to>> \in {<<"blocked", "woken">>, <<"sched", "run">>}
  BY DEF Schedule
<1>3. /\ t = k.cur /\ pc[t] = from /\ isr' = isr /\ object' = object /\ value' = value
      /\ tokens' = tokens /\ k' = rt_schedule(k)
      /\ pc' = [pc EXCEPT ![t] = to] /\ pc \in [Thread -> Points] /\ KernelInv(k, {})
      /\ isr \in {"none", "check", "masked"} /\ object \in {"live", "deleting", "deleted"}
      /\ k.nest = 0
  BY <1>1, <1>2 DEF Schedule, Reschedule, Executes, ThreadsInv, ValueInv, CurrentGoesOn
<1>4. /\ KernelInv(k', {}) /\ Keeps(k', k) /\ SameWaits(k', k)
      /\ k'.stat[k'.cur] = "RUNNING"
  BY <1>3, ScheduleInv, ScheduleWaits, ScheduleRuns
<1>5. pc' \in [Thread -> Points] /\ \A u \in Thread : InTake(pc'[u]) <=> InTake(pc[u])
  BY <1>2, <1>3 DEF Points, InTake
<1>6. ThreadsInv' /\ Waiters' = Waiters /\ Granted' = Granted
  BY <1>1, <1>4, <1>5, NobodyMoved DEF SameWaits
<1> QED BY <1>1, <1>3, <1>6, SameValue DEF SemInv

-----------------------------------------------------------------------------
(* rt_sem_release *)

\* A release that finds a waiter hands the token to the first one.
LEMMA HandedOver ==
  ASSUME SemInv, Waiters # <<>>, PutToken, isr' = isr, object' = object,
         KernelInv(k', {}), Keeps(k', k), k'.err = k.err,
         k'.wait[Sem] = Tail(Waiters), ToSet(k'.wait[Sem]) = ToSet(Waiters) \ {Head(Waiters)},
         Asleep(k') = Asleep(k) \ {Head(Waiters)}, Head(Waiters) \in ToSet(Waiters),
         pc' \in [Thread -> Points],
         \A u \in Thread : InTake(pc'[u]) <=> InTake(pc[u]),
         k'.stat[k'.cur] = "RUNNING"
  PROVE  SemInv' /\ Counts
<1> DEFINE h == Head(Waiters)
<1>1. ThreadsInv /\ ValueInv
  BY DEF SemInv
<1>2. h \in ToSet(Waiters) /\ k.err[h] = "EOK" /\ k.err \in [Thread -> Error]
  BY <1>1, ThreadFacts DEF ThreadsInv, WaitersAsleep
<1>3. k'.err = [k.err EXCEPT ![h] = "EOK"]
  BY <1>2
<1>4. Waiters' = Tail(Waiters) /\ ToSet(Waiters') = ToSet(Waiters) \ {h}
  BY DEF Waiters
<1>5. Asleep(k') = Asleep(k) \ {h}
  OBVIOUS
<1> HIDE DEF h
<1>6. ThreadsInv' /\ h \notin Granted /\ Granted' = Granted \cup {h}
  BY <1>1, <1>2, <1>3, <1>4, <1>5, OneWoken
<1>7. value' = value /\ tokens' = tokens + 1
  BY DEF PutToken
<1>8. value \in 0 .. MaxValue /\ ~(value > 0) /\ MaxValue \in Nat
  BY <1>1, SemaphoreAssumption DEF ValueInv, NoneWaitsForNothing
<1>9. Cardinality(Granted') = Cardinality(Granted) + 1 /\ Cardinality(Granted) \in Nat
  BY <1>6, OneMore, GrantedFinite
<1>10. tokens' = value' + Cardinality(Granted')
  BY <1>1, <1>7, <1>8, <1>9 DEF ValueInv, TokensConserved
<1>11. ValueInv'
  BY <1>1, <1>7, <1>8, <1>10 DEF ValueInv, NoneWaitsForNothing, TokensConserved
<1>12. Abstract!Post
  BY <1>4, <1>6, <1>7 DEF Abstract!Post, h
<1> QED BY <1>6, <1>11, <1>12 DEF SemInv, Counts, Abstract!Next

\* A release that finds none keeps the token, up to the maximum.
LEMMA TokenKept ==
  ASSUME SemInv, Waiters = <<>>, PutToken, isr' = isr, object' = object, k' = k, pc' = pc
  PROVE  SemInv' /\ Counts
<1>1. ThreadsInv /\ ValueInv
  BY DEF SemInv
<1>2. Waiters' = Waiters /\ Granted' = Granted /\ ThreadsInv'
  BY <1>1 DEF Waiters, Granted, ThreadsInv, CurrentGoesOn, WaitersAsleep
<1>3. /\ value \in 0 .. MaxValue /\ MaxValue \in Nat /\ Cardinality(Granted) \in Nat
      /\ isr \in {"none", "check", "masked"} /\ object \in {"live", "deleting", "deleted"}
  BY <1>1, SemaphoreAssumption, GrantedFinite DEF ValueInv
<1>4. CASE value < MaxValue
  <2>1. value' = value + 1 /\ tokens' = tokens + 1
    BY <1>4 DEF PutToken
  <2>2. value' \in 0 .. MaxValue /\ tokens' = value' + Cardinality(Granted')
    BY <1>1, <1>2, <1>3, <1>4, <2>1 DEF ValueInv, TokensConserved
  <2>3. ValueInv'
    BY <1>2, <1>3, <2>2 DEF ValueInv, NoneWaitsForNothing, TokensConserved
  <2>4. Abstract!Post
    BY <1>2, <1>4, <2>1 DEF Abstract!Post
  <2> QED BY <1>2, <2>3, <2>4 DEF SemInv, Counts, Abstract!Next
<1>5. CASE ~(value < MaxValue)
  <2>1. value' = value /\ tokens' = tokens
    BY <1>5 DEF PutToken
  <2> QED BY <1>1, <1>2, <1>3, <2>1, SameValue DEF SemInv
<1> QED BY <1>4, <1>5

\* rt_sem_release from a thread.
LEMMA ReleaseStep ==
  ASSUME SemInv, NEW t \in Thread, Release(t)
  PROVE  SemInv' /\ Counts
<1>1. ThreadsInv /\ {} \in SUBSET Thread /\ Sem \in Queue /\ KernelInv(k, {})
  BY ThreadFacts DEF SemInv, ThreadsInv
<1>2. /\ t = k.cur /\ pc[t] = "run" /\ PutToken /\ isr' = isr /\ object' = object
      /\ pc \in [Thread -> Points]
  BY <1>1 DEF Release, Executes, ThreadsInv
<1>3. k.stat[t] = "RUNNING"
  BY <1>1, <1>2, Running
<1>4. CASE Waiters = <<>>
  <2>1. k' = k /\ pc' = pc
    BY <1>4 DEF Release
  <2> QED BY <1>2, <1>4, <2>1, TokenKept
<1>5. CASE Waiters # <<>>
  <2>1. k' = _ipc_list_resume(k, Sem) /\ pc' = [pc EXCEPT ![t] = "sched"]
    BY <1>5 DEF Release
  <2>2. /\ Head(Waiters) \in ToSet(Waiters)
        /\ KernelInv(k', {}) /\ Keeps(k', k) /\ k'.err = k.err
        /\ k'.wait = [k.wait EXCEPT ![Sem] = Tail(@)]
        /\ ToSet(k'.wait[Sem]) = ToSet(Waiters) \ {Head(Waiters)}
        /\ Asleep(k') = Asleep(k) \ {Head(Waiters)}
    BY <1>1, <1>5, <2>1, ListResume DEF Waiters
  <2>3. k'.wait[Sem] = Tail(Waiters)
    BY <1>1, <2>2, ThreadFacts DEF Waiters
  <2>4. pc' \in [Thread -> Points] /\ \A u \in Thread : InTake(pc'[u]) <=> InTake(pc[u])
    BY <1>2, <2>1 DEF Points, InTake
  <2>5. k'.stat[k'.cur] = "RUNNING"
    BY <1>2, <1>3, <2>2 DEF Keeps
  <2> QED BY <1>2, <1>5, <2>2, <2>3, <2>4, <2>5, HandedOver
<1> QED BY <1>4, <1>5

\* rt_sem_release from an interrupt handler, and rt_schedule() after it.
LEMMA IsrReleaseStep ==
  ASSUME SemInv, IsrRelease
  PROVE  SemInv' /\ Counts
<1>1. /\ ThreadsInv /\ {} \in SUBSET Thread /\ Sem \in Queue /\ KernelInv(k, {}) /\ k.nest = 0
      /\ pc \in [Thread -> Points]
  BY ThreadFacts DEF SemInv, ThreadsInv, CurrentGoesOn
<1>2. PutToken /\ isr' = isr /\ object' = object /\ pc' = pc
  BY DEF IsrRelease
<1>3. CASE Waiters = <<>>
  <2>1. k' = k
    BY <1>3 DEF IsrRelease
  <2> QED BY <1>2, <1>3, <2>1, TokenKept
<1>4. CASE Waiters # <<>>
  <2> DEFINE r == _ipc_list_resume(k, Sem)
  <2>1. k' = rt_schedule(r)
    BY <1>4 DEF IsrRelease
  <2>2. /\ Head(Waiters) \in ToSet(Waiters)
        /\ KernelInv(r, {}) /\ Keeps(r, k) /\ r.err = k.err
        /\ r.wait = [k.wait EXCEPT ![Sem] = Tail(@)]
        /\ ToSet(r.wait[Sem]) = ToSet(Waiters) \ {Head(Waiters)}
        /\ Asleep(r) = Asleep(k) \ {Head(Waiters)}
    BY <1>1, <1>4, ListResume DEF Waiters
  <2> HIDE DEF r
  <2>3. r.wait[Sem] = Tail(Waiters) /\ r.nest = 0
    BY <1>1, <2>2, ThreadFacts DEF Waiters, Keeps
  <2>4. KernelInv(k', {}) /\ Keeps(k', r) /\ SameWaits(k', r) /\ k'.stat[k'.cur] = "RUNNING"
    BY <1>1, <2>1, <2>2, <2>3, ScheduleInv, ScheduleWaits, ScheduleRuns
  <2>5. Keeps(k', k)
    BY <2>2, <2>4, KeepsTrans DEF KernelInv
  <2>6. /\ k'.err = k.err /\ k'.wait[Sem] = Tail(Waiters)
        /\ ToSet(k'.wait[Sem]) = ToSet(Waiters) \ {Head(Waiters)}
        /\ Asleep(k') = Asleep(k) \ {Head(Waiters)}
    BY <2>2, <2>3, <2>4 DEF SameWaits
  <2> QED BY <1>1, <1>2, <1>4, <2>2, <2>4, <2>5, <2>6, HandedOver
<1> QED BY <1>3, <1>4

-----------------------------------------------------------------------------
(* Waiters that are turned away: rt_sem_control, rt_sem_delete, time-outs  *)

\* A waiter that leaves with an error takes no token with it.
LEMMA TurnedAway ==
  ASSUME SemInv, NEW u \in ToSet(Waiters), NEW e, e # "EOK",
         KernelInv(k', {}), Keeps(k', k), k'.err = [k.err EXCEPT ![u] = e],
         \E i \in DOMAIN Waiters : k'.wait[Sem] = RemoveAt(Waiters, i),
         ToSet(k'.wait[Sem]) = ToSet(Waiters) \ {u}, Asleep(k') = Asleep(k) \ {u},
         pc' \in [Thread -> Points],
         \A v \in Thread : InTake(pc'[v]) <=> InTake(pc[v]),
         k'.stat[k'.cur] = "RUNNING",
         isr' = isr, UNCHANGED <<value, object, tokens>>
  PROVE  SemInv' /\ Counts
<1>1. ThreadsInv /\ ValueInv
  BY DEF SemInv
<1>2. ToSet(Waiters') = ToSet(Waiters) \ {u}
  BY DEF Waiters
<1>3. ThreadsInv' /\ Granted' = Granted
  BY <1>1, <1>2, OneWoken
<1>4. value \in 0 .. MaxValue /\ MaxValue \in Nat /\ ~(value > 0)
  <2>1. Waiters # <<>>
    BY DEF ToSet
  <2> QED BY <1>1, <2>1, SemaphoreAssumption DEF ValueInv, NoneWaitsForNothing
<1>5. ValueInv'
  BY <1>1, <1>3, <1>4 DEF ValueInv, NoneWaitsForNothing, TokensConserved
<1>6. Abstract!GiveUp
  BY <1>3 DEF Abstract!GiveUp, Waiters, Abstract!RemoveAt, RemoveAt
<1> QED BY <1>3, <1>5, <1>6 DEF SemInv, Counts, Abstract!Next

\* One turn of _ipc_list_resume_all by a thread that runs.
LEMMA ResumeAllStep ==
  ASSUME SemInv, Waiters # <<>>, k' = ResumeWithError(k, Sem), k.stat[k.cur] = "RUNNING",
         pc' \in [Thread -> Points],
         \A v \in Thread : InTake(pc'[v]) <=> InTake(pc[v]),
         isr' = isr, UNCHANGED <<value, object, tokens>>
  PROVE  SemInv' /\ Counts
<1> DEFINE h == Head(Waiters)
<1>1. ThreadsInv /\ {} \in SUBSET Thread /\ Sem \in Queue /\ KernelInv(k, {})
  BY ThreadFacts DEF SemInv, ThreadsInv
<1>2. Waiters \in Seq(Thread) /\ IsInjective(Waiters) /\ k.wait \in [Queue -> Seq(Thread)]
  BY <1>1, ThreadFacts
<1>3. /\ h \in ToSet(Waiters)
      /\ KernelInv(k', {}) /\ Keeps(k', k) /\ k'.err = [k.err EXCEPT ![h] = "ERROR"]
      /\ k'.wait = [k.wait EXCEPT ![Sem] = Tail(@)]
      /\ ToSet(k'.wait[Sem]) = ToSet(Waiters) \ {h}
      /\ Asleep(k') = Asleep(k) \ {h}
  BY <1>1, ListResumeError DEF Waiters
<1>4. k'.wait[Sem] = Tail(Waiters)
  BY <1>1, <1>2, <1>3 DEF Waiters
<1>5. Tail(Waiters) = Unlink(Waiters, h)
  BY <1>2, UnlinkHead
<1>6. \E i \in DOMAIN Waiters : k'.wait[Sem] = RemoveAt(Waiters, i)
  <2>1. DOMAIN Waiters = 1 .. Len(Waiters) /\ \E i \in 1 .. Len(Waiters) : Waiters[i] = h
    BY <1>2, <1>3, SeqViews
  <2>2. \E i \in 1 .. Len(Waiters) : Unlink(Waiters, h) = RemoveAt(Waiters, i)
    BY <1>2, <2>1, UnlinkCases
  <2> HIDE DEF h
  <2> QED BY <1>4, <1>5, <2>1, <2>2
<1>7. k'.stat[k'.cur] = "RUNNING"
  BY <1>3 DEF Keeps
<1> HIDE DEF h
<1> QED BY <1>3, <1>6, <1>7, TurnedAway

\* The beginning and the end of rt_sem_control(RT_IPC_CMD_RESET) and the steps
\* of rt_sem_delete that wake nobody.
LEMMA OwnStep ==
  ASSUME SemInv, NEW t \in Thread,
         ResetBegin(t) \/ DeleteBegin(t) \/ DeleteTest(t)
  PROVE  SemInv' /\ Counts
<1>1. ThreadsInv /\ ValueInv /\ KernelInv(k, {}) /\ pc \in [Thread -> Points]
  BY DEF SemInv, ThreadsInv
<1>2. PICK at \in {"run", "delete"} : t = k.cur /\ pc[t] = at
  BY DEF ResetBegin, DeleteBegin, DeleteTest, ResumeAllTest, Executes
<1>3. PICK to \in {"reset", "delete", "resume", "run"} : pc' = [pc EXCEPT ![t] = to]
  BY DEF ResetBegin, DeleteBegin, DeleteTest, ResumeAllTest
<1>4. /\ k' = k /\ value' = value /\ tokens' = tokens
      /\ isr' \in {"none", "check", "masked"} /\ object' \in {"live", "deleting", "deleted"}
  BY <1>1 DEF ResetBegin, DeleteBegin, DeleteTest, ResumeAllTest, ValueInv
<1>5. pc' \in [Thread -> Points] /\ \A u \in Thread : InTake(pc'[u]) <=> InTake(pc[u])
  BY <1>1, <1>2, <1>3 DEF Points, InTake
<1>6. k.stat[k.cur] = "RUNNING"
  BY <1>1, <1>2, Running
<1>7. Keeps(k', k)
  BY <1>4, <1>6 DEF Keeps
<1>8. ThreadsInv' /\ Waiters' = Waiters /\ Granted' = Granted
  BY <1>1, <1>4, <1>5, <1>6, <1>7, NobodyMoved
<1> QED BY <1>1, <1>4, <1>8, SameValue DEF SemInv

\* The value is set anew with nobody left in the list.
LEMMA ResetEndStep ==
  ASSUME SemInv, NEW t \in Thread, NEW v \in 0 .. MaxValue, ResetEnd(t, v)
  PROVE  SemInv' /\ Counts
<1>1. ThreadsInv /\ ValueInv /\ KernelInv(k, {}) /\ pc \in [Thread -> Points]
  BY DEF SemInv, ThreadsInv
<1>2. /\ t = k.cur /\ pc[t] = "reset" /\ k' = k /\ value' = v /\ tokens' = tokens - value + v
      /\ isr' = "none" /\ object' = object /\ pc' = [pc EXCEPT ![t] = "sched"] /\ Waiters = <<>>
  BY DEF ResetEnd, ExecutesMasked
<1>3. pc' \in [Thread -> Points] /\ \A u \in Thread : InTake(pc'[u]) <=> InTake(pc[u])
  BY <1>1, <1>2 DEF Points, InTake
<1>4. k.stat[k.cur] = "RUNNING"
  BY <1>1, <1>2, Running
<1>5. Keeps(k', k)
  BY <1>2, <1>4 DEF Keeps
<1>6. ThreadsInv' /\ Waiters' = Waiters /\ Granted' = Granted
  BY <1>1, <1>2, <1>3, <1>4, <1>5, NobodyMoved
<1>7. value \in Nat /\ v \in Nat /\ Cardinality(Granted) \in Nat
  BY <1>1, SemaphoreAssumption, GrantedFinite DEF ValueInv
<1>8. tokens' = value' + Cardinality(Granted')
  BY <1>1, <1>2, <1>6, <1>7 DEF ValueInv, TokensConserved
<1>9. ValueInv'
  BY <1>1, <1>2, <1>6, <1>8 DEF ValueInv, NoneWaitsForNothing, TokensConserved
<1>10. Abstract!Reset
  BY <1>2, <1>6 DEF Abstract!Reset
<1> QED BY <1>6, <1>9, <1>10 DEF SemInv, Counts, Abstract!Next

\* A turn of the loops that turn every waiter away.
LEMMA TurnAwayStep ==
  ASSUME SemInv, NEW t \in Thread, ResetTurn(t) \/ DeleteResume(t)
  PROVE  SemInv' /\ Counts
<1>1. ThreadsInv /\ pc \in [Thread -> Points]
  BY DEF SemInv, ThreadsInv
<1>2. PICK at \in {"reset", "resume"} : t = k.cur /\ pc[t] = at
  BY DEF ResetTurn, DeleteResume, ResumeAllMasked, ResumeAllBody, Executes, ExecutesMasked
<1>3. pc' = pc \/ pc' = [pc EXCEPT ![t] = "delete"]
  BY DEF ResetTurn, DeleteResume, ResumeAllMasked, ResumeAllBody
<1>4. /\ Waiters # <<>> /\ k' = ResumeWithError(k, Sem) /\ isr' = isr
      /\ UNCHANGED <<value, object, tokens>>
  BY DEF ResetTurn, DeleteResume, ResumeAllMasked, ResumeAllBody, Waiters
<1>5. pc' \in [Thread -> Points] /\ \A u \in Thread : InTake(pc'[u]) <=> InTake(pc[u])
  BY <1>1, <1>2, <1>3 DEF Points, InTake
<1>6. k.stat[k.cur] = "RUNNING"
  BY <1>1, <1>2, Running
<1> QED BY <1>4, <1>5, <1>6, ResumeAllStep

-----------------------------------------------------------------------------
(* The tick interrupt *)

\* The tick changes no list of the semaphore; a timer that fires turns its
\* thread away.
LEMMA InterruptStep ==
  ASSUME SemInv, TickInterrupt
  PROVE  SemInv' /\ Counts
<1>1. /\ ThreadsInv /\ ValueInv /\ KernelInv(k, {}) /\ pc \in [Thread -> Points]
      /\ {} \in SUBSET Thread /\ Sem \in Queue /\ k.nest = 0 /\ k \in KernelState
      /\ object \in {"live", "deleting", "deleted"}
  BY ThreadFacts DEF SemInv, ThreadsInv, CurrentGoesOn, ValueInv
<1>2. UNCHANGED <<value, object, tokens>>
  BY DEF TickInterrupt
<1>3. CASE Tick
  <2>1. k' = rt_tick_increase(k) /\ isr' = "check" /\ pc' = pc
    BY <1>3 DEF Tick
  <2>2. /\ KernelInv(k', {}) /\ Keeps(k', k) /\ k'.wait = k.wait /\ k'.err = k.err
        /\ Asleep(k') = Asleep(k)
    BY <1>1, <2>1, TickInv, TickWaits
  <2>3. ThreadsInv' /\ Waiters' = Waiters /\ Granted' = Granted
    BY <1>1, <2>1, <2>2, NobodyMoved
  <2> QED BY <1>1, <1>2, <2>1, <2>3, SameValue DEF SemInv
<1>4. CASE TimerFire
  <2> DEFINE u == Head(k.timers).thr
  <2>1. k' = _thread_timeout(k, u) /\ isr' = isr /\ pc' = pc /\ k.timers # <<>>
    BY <1>4 DEF TimerFire, TimerExpired
  <2>2. u \in Thread /\ k.stat[u] = "SUSPEND"
    <3>1. k.timers \in Seq(Timer) /\ 1 \in DOMAIN k.timers /\ Head(k.timers) = k.timers[1]
      BY <1>1, <2>1, TimerThreads, SeqViews, HeadTailProperties
    <3> QED BY <1>1, <3>1, TimerThreads DEF KernelInv, ListsConsistent, TimersOf
  <2> HIDE DEF u
  <2>3. u \in ToSet(Waiters)
    BY <1>1, <2>2 DEF ThreadsInv, WaitersAsleep, Asleep
  <2>4. /\ KernelInv(k', {}) /\ Keeps(k', k) /\ k'.err = [k.err EXCEPT ![u] = "ETIMEOUT"]
        /\ \E i \in DOMAIN Waiters : k'.wait[Sem] = RemoveAt(Waiters, i)
        /\ ToSet(k'.wait[Sem]) = ToSet(Waiters) \ {u}
        /\ Asleep(k') = Asleep(k) \ {u}
    <3> DEFINE r == _thread_timeout(k, u)
    <3>1. /\ KernelInv(k, {}) /\ {} \in SUBSET Thread /\ Sem \in Queue /\ u \in ToSet(k.wait[Sem])
      BY <1>1, <2>3 DEF ThreadsInv, Waiters
    <3>2. /\ KernelInv(r, {}) /\ Keeps(r, k) /\ r.err = [k.err EXCEPT ![u] = "ETIMEOUT"]
          /\ \E i \in DOMAIN k.wait[Sem] : r.wait[Sem] = RemoveAt(k.wait[Sem], i)
          /\ ToSet(r.wait[Sem]) = ToSet(k.wait[Sem]) \ {u}
          /\ Asleep(r) = Asleep(k) \ {u}
      BY <3>1, TimeoutLeaves, SMTT(40)
    <3> QED BY <2>1, <3>2, Zenon DEF Waiters
  <2>5. k'.stat[k'.cur] = "RUNNING"
    <3>1. u \in Thread \ {}
      BY <2>2
    <3> QED BY <1>1, <2>1, <2>2, <3>1, TimeoutRuns
  <2> QED BY <1>1, <1>2, <2>1, <2>3, <2>4, <2>5, TurnedAway
<1>5. CASE TimerCheckEnd
  <2>1. k' = k /\ isr' = "none" /\ pc' = pc
    BY <1>5 DEF TimerCheckEnd
  <2>2. Waiters' = Waiters /\ Granted' = Granted /\ ThreadsInv'
    BY <1>1, <2>1 DEF Waiters, Granted, ThreadsInv, CurrentGoesOn, WaitersAsleep
  <2> QED BY <1>1, <1>2, <2>1, <2>2, SameValue DEF SemInv
<1> QED BY <1>3, <1>4, <1>5 DEF TickInterrupt, Interrupt

\* Every step preserves the invariant and is one of the abstract semaphore.
LEMMA NextStep == SemInv /\ [Next]_vars => SemInv' /\ Counts
<1> SUFFICES ASSUME SemInv, [Next]_vars PROVE SemInv' /\ Counts
  OBVIOUS
<1>1. CASE UNCHANGED vars
  <2>1. k' = k /\ pc' = pc /\ isr' = isr /\ value' = value /\ object' = object /\ tokens' = tokens
    BY <1>1 DEF vars
  <2>2. ThreadsInv /\ ValueInv
    BY DEF SemInv
  <2>3. Waiters' = Waiters /\ Granted' = Granted /\ ThreadsInv'
    BY <2>1, <2>2 DEF Waiters, Granted, ThreadsInv, CurrentGoesOn, WaitersAsleep
  <2>4. isr' \in {"none", "check", "masked"} /\ object' \in {"live", "deleting", "deleted"}
    BY <2>1, <2>2 DEF ValueInv
  <2> QED BY <2>1, <2>2, <2>3, <2>4, SameValue DEF SemInv
<1>2. ASSUME NEW t \in Thread, ThreadStep(t) PROVE SemInv' /\ Counts
  BY <1>2, TakeStep, TakeReturnStep, ScheduleStep, ReleaseStep, OwnStep, ResetEndStep, TurnAwayStep
     DEF ThreadStep
<1>3. CASE TickInterrupt
  BY <1>3, InterruptStep
<1>4. CASE IsrRelease
  BY <1>4, IsrReleaseStep
<1> QED BY <1>1, <1>2, <1>3, <1>4 DEF Next

\* The kernel's lists, the value and the tokens agree at every point where an
\* interrupt can come into rt_sem_take, rt_sem_release, rt_sem_control or
\* rt_sem_delete; nobody waits for a token that is there, and none is lost.
THEOREM SemaphoreCorrect == Spec => []SemaphoreInv
<1>1. SemInv /\ [Next]_vars => SemInv'
  BY NextStep
<1> QED BY <1>1, InitInv, SemInvImplies, PTL DEF Spec

\* Whatever the scheduler, the timers and the interrupts do in between, tokens
\* move only as in a counting semaphore.
THEOREM SemaphoreCounts == Spec => ImplementsCounting
<1>1. SemInv /\ [Next]_vars => SemInv' /\ [Abstract!Next]_<<value, Waiters, Granted>>
  BY NextStep DEF Counts
<1>2. Init => SemInv /\ Abstract!Init
  BY InitInv
<1> QED BY <1>1, <1>2, PTL DEF Spec, ImplementsCounting, Abstract!Spec
=============================================================================
