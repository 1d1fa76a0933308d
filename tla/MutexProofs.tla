---------------------------- MODULE MutexProofs ----------------------------
(***************************************************************************)
(* MutexInv holds of Mutex for any number of threads and mutexes, any      *)
(* priorities and timeouts, in nested use and with deletion.  Where no     *)
(* owner takes a second mutex, priority inheritance is right as well: the  *)
(* owner is as urgent as its waiters, and gets its own priority back.      *)
(***************************************************************************)
EXTENDS Mutex, KernelLemmas

USE DEF Goto, Mutex

Points == {"run", "blocked", "woken", "sched", "sleep", "awake", "delete", "resume"}

InTake(at) == at \in {"blocked", "woken"}

\* The scheduler is never locked here, and the current thread can run, or has
\* just put itself to sleep and is about to call rt_schedule().
CurrentGoesOn ==
  /\ k.nest = 0
  /\ \/ k.stat[k.cur] = "RUNNING"
     \/ k.stat[k.cur] = "SUSPEND" /\ pc[k.cur] \in {"blocked", "sleep"}

\* A suspended thread sleeps, or waits for the mutex it wants.
SleepersKnown ==
  \A t \in Asleep(k) :
    \/ pc[t] \in {"sleep", "awake"}
    \/ InTake(pc[t]) /\ t \in ToSet(k.wait[want[t]])

\* A waiter is inside rt_mutex_take of that mutex and has no error so far.
WaitersCalled ==
  \A m \in Mutex : \A t \in ToSet(k.wait[m]) : InTake(pc[t]) /\ want[t] = m /\ k.err[t] = "EOK"

\* The part of the inductive invariant about threads.
WaitInv ==
  /\ KernelInv(k, {})
  /\ pc \in [Thread -> Points]
  /\ want \in [Thread -> Mutex]
  /\ CurrentGoesOn
  /\ SleepersKnown
  /\ WaitersCalled

\* Thread t has been handed the mutex it waited for and does not know it yet.
Served(t) == InTake(pc[t]) /\ t \notin ToSet(k.wait[want[t]]) /\ k.err[t] = "EOK"

OwnType ==
  /\ isr \in {"none", "check"}
  /\ mutex \in [Mutex -> [value : {0, 1}, owner : Thread \cup {NoOwner},
                          original_priority : Prio \cup {NoPrio}, hold : 0 .. HoldMax]]
  /\ live \subseteq Mutex
  /\ holds \in [Thread -> [Mutex -> 0 .. HoldMax]]

\* OwnerKnown, with Served for what it says of an owner that was not told.
OwnerServed ==
  \A m \in live :
    /\ mutex[m].owner = NoOwner <=> mutex[m].value = 1
    /\ mutex[m].owner = NoOwner => k.wait[m] = <<>> /\ mutex[m].hold = 0
    /\ \A o \in Thread : mutex[m].owner = o /\ holds[o][m] = 0 => Served(o) /\ want[o] = m

\* A thread that was handed a mutex owns it until it returns from its call.
GrantsKept ==
  \A t \in Thread : Served(t) =>
    /\ want[t] \in live /\ mutex[want[t]].owner = t
    /\ mutex[want[t]].hold = 1 /\ holds[t][want[t]] = 0

\* An owner has a priority to go back to, and never waits for its own mutex.
OwnersLend ==
  \A m \in Mutex :
    /\ mutex[m].owner # NoOwner => mutex[m].original_priority \in Prio
    /\ mutex[m].owner \notin ToSet(k.wait[m])

\* The part about mutexes.
OwnInv == OwnType /\ MutualExclusion /\ OwnerServed /\ GrantsKept /\ OwnersLend

Inv == WaitInv /\ OwnInv

\* The kernel's state, unfolded.
LEMMA WaitFacts ==
  ASSUME WaitInv
  PROVE  /\ k \in KernelState /\ k.cur \in Thread /\ {} \in SUBSET Thread
         /\ k.err \in [Thread -> Error] /\ k.prio \in [Thread -> Prio]
         /\ k.wait \in [Queue -> Seq(Thread)]
         /\ \A m \in Mutex : IsInjective(k.wait[m]) /\ ToSet(k.wait[m]) \subseteq Thread
<1>1. k \in KernelState
  BY DEF WaitInv, KernelInv
<1>2. /\ k.cur \in Thread /\ k.wait \in [Queue -> Seq(Thread)] /\ k.err \in [Thread -> Error]
      /\ k.prio \in [Thread -> Prio]
  BY <1>1 DEF KernelState
<1>3. \A m \in Mutex : IsInjective(k.wait[m])
  BY DEF WaitInv, KernelInv, ListsConsistent, WaitersOf
<1>4. \A m \in Mutex : ToSet(k.wait[m]) \subseteq Thread
  BY <1>2, EmptyToSet
<1> QED BY <1>1, <1>2, <1>3, <1>4

\* What is proved in two parts is the invariant that the runs check.
LEMMA InvImplies == Inv => MutexInv
<1> SUFFICES ASSUME Inv PROVE MutexInv
  OBVIOUS
<1>1. TypeOK
  BY DEF Inv, WaitInv, OwnInv, OwnType, TypeOK, Points
<1>2. OwnerKnown
  <2>1. \A m \in live : mutex[m].owner # NoOwner => mutex[m].owner \in Thread
    BY DEF Inv, OwnInv, OwnType
  <2> QED BY <2>1 DEF Inv, OwnInv, OwnerServed, OwnerKnown, Served, InTake
<1> QED BY <1>1, <1>2 DEF Inv, OwnInv, MutexInv

\* A thread at a point of its code other than the ones where it has put itself
\* to sleep is running and waits for nothing.
LEMMA Running ==
  ASSUME WaitInv, NEW t \in Thread, t = k.cur, pc[t] \notin {"blocked", "sleep"}
  PROVE  /\ k.stat[t] = "RUNNING" /\ t \notin Asleep(k)
         /\ \A m \in Mutex : t \notin ToSet(k.wait[m])
<1>1. k.stat[t] = "RUNNING"
  BY DEF WaitInv, CurrentGoesOn
<1>2. t \notin Asleep(k)
  BY <1>1 DEF Asleep
<1>3. \A m \in Mutex : t \notin ToSet(k.wait[m])
  BY <1>1 DEF WaitInv, KernelInv, ListsConsistent, WaitersOf
<1> QED BY <1>1, <1>2, <1>3

\* A step of the kernel that wakes the threads of H, at most.
LEMMA OthersWait ==
  ASSUME WaitInv, KernelInv(k', {}), Keeps(k', k), NEW H \in SUBSET Thread,
         Asleep(k') = Asleep(k) \ H,
         \A m \in Mutex : ToSet(k'.wait[m]) = ToSet(k.wait[m]) \ H,
         \A u \in Thread \ H : k'.err[u] = k.err[u],
         want' = want, pc' \in [Thread -> Points],
         \A u \in Thread : InTake(pc'[u]) <=> InTake(pc[u]),
         \A u \in Thread : pc[u] \in {"sleep", "awake"} => pc'[u] \in {"sleep", "awake"},
         k'.stat[k'.cur] = "RUNNING" \/ (k'.cur \notin H /\ pc'[k.cur] = pc[k.cur])
  PROVE  WaitInv' /\ \A u \in Thread \ H : Served(u)' <=> Served(u)
<1>0. /\ \A m \in Mutex : ToSet(k.wait[m]) \subseteq Thread
      /\ \A u \in Thread : want[u] \in Mutex /\ want'[u] = want[u]
      /\ k.cur \in Thread
  BY WaitFacts DEF WaitInv
<1>1. SleepersKnown'
  <2>1. ASSUME NEW u \in Asleep(k')
        PROVE  pc'[u] \in {"sleep", "awake"} \/ (InTake(pc'[u]) /\ u \in ToSet(k'.wait[want'[u]]))
    <3>1. u \in Asleep(k) /\ u \in Thread /\ u \notin H
      BY DEF Asleep
    <3>2. CASE pc[u] \in {"sleep", "awake"}
      BY <3>1, <3>2
    <3>3. CASE InTake(pc[u]) /\ u \in ToSet(k.wait[want[u]])
      BY <1>0, <3>1, <3>3
    <3> QED BY <3>1, <3>2, <3>3 DEF WaitInv, SleepersKnown
  <2> QED BY <2>1 DEF SleepersKnown
<1>2. WaitersCalled'
  <2>1. ASSUME NEW m \in Mutex, NEW u \in ToSet(k'.wait[m])
        PROVE  InTake(pc'[u]) /\ want'[u] = m /\ k'.err[u] = "EOK"
    <3>1. u \in ToSet(k.wait[m]) /\ u \in Thread \ H
      BY <1>0
    <3> QED BY <1>0, <3>1 DEF WaitInv, WaitersCalled
  <2> QED BY <2>1 DEF WaitersCalled
<1>3. CurrentGoesOn'
  <2>1. CASE k'.stat[k'.cur] = "RUNNING"
    BY <2>1 DEF WaitInv, CurrentGoesOn, Keeps
  <2>2. CASE k'.stat[k'.cur] # "RUNNING"
    <3>1. k'.cur = k.cur /\ k.stat[k.cur] # "RUNNING"
      BY <2>2 DEF Keeps
    <3>2. k.stat[k.cur] = "SUSPEND" /\ pc[k.cur] \in {"blocked", "sleep"}
      BY <3>1 DEF WaitInv, CurrentGoesOn
    <3>3. k.cur \in Asleep(k')
      BY <1>0, <2>2, <3>1, <3>2 DEF Asleep
    <3>4. k'.stat[k'.cur] = "SUSPEND"
      BY <3>1, <3>3 DEF Asleep
    <3> QED BY <2>2, <3>1, <3>2, <3>4 DEF WaitInv, CurrentGoesOn, Keeps
  <2> QED BY <2>1, <2>2
<1>4. \A u \in Thread \ H : Served(u)' <=> Served(u)
  BY <1>0 DEF Served
<1>5. want' \in [Thread -> Mutex]
  BY DEF WaitInv
<1> QED BY <1>1, <1>2, <1>3, <1>4, <1>5 DEF WaitInv

\* A step of the running thread t after which the same threads wait.
LEMMA CallerMoves ==
  ASSUME WaitInv, NEW t \in Thread, t = k.cur, pc[t] \notin {"blocked", "sleep"},
         KernelInv(k', {}), k'.cur = k.cur, k'.nest = k.nest,
         k'.stat[t] = "RUNNING", k'.wait = k.wait, Asleep(k') = Asleep(k),
         pc' \in [Thread -> Points], want' \in [Thread -> Mutex],
         \A u \in Thread : u # t => pc'[u] = pc[u] /\ want'[u] = want[u] /\ k'.err[u] = k.err[u]
  PROVE  WaitInv' /\ \A u \in Thread : u # t => (Served(u)' <=> Served(u))
<1>1. t \notin Asleep(k) /\ \A m \in Mutex : t \notin ToSet(k.wait[m])
  BY Running
<1>2. SleepersKnown'
  <2>1. \A u \in Asleep(k) : u \in Thread /\ u # t
    BY <1>1 DEF Asleep
  <2> QED BY <2>1 DEF WaitInv, SleepersKnown
<1>3. WaitersCalled'
  <2>1. \A m \in Mutex : \A u \in ToSet(k.wait[m]) : u \in Thread /\ u # t
    BY <1>1, WaitFacts
  <2> QED BY <2>1 DEF WaitInv, WaitersCalled
<1>4. CurrentGoesOn'
  BY DEF WaitInv, CurrentGoesOn
<1>5. \A u \in Thread : u # t => (Served(u)' <=> Served(u))
  BY DEF Served
<1> QED BY <1>2, <1>3, <1>4, <1>5 DEF WaitInv

\* A step that leaves the mutexes alone: the same threads have been served,
\* and nobody has begun to wait for a free mutex or for its own.
LEMMA SameOwners ==
  ASSUME OwnInv, UNCHANGED <<mutex, live, holds>>, isr' \in {"none", "check"},
         \A u \in Thread : Served(u)' <=> Served(u),
         \A u \in Thread : Served(u) => want'[u] = want[u],
         \A m \in Mutex : mutex[m].owner \notin ToSet(k'.wait[m]),
         \A m \in live : mutex[m].owner = NoOwner => k'.wait[m] = <<>>
  PROVE  OwnInv'
<1>0. \A m \in Mutex : mutex[m].owner \in Thread \cup {NoOwner}
  BY DEF OwnInv, OwnType
<1>1. OwnType'
  BY DEF OwnInv, OwnType
<1>2. MutualExclusion'
  BY DEF OwnInv, MutualExclusion
<1>3. OwnerServed'
  <2> SUFFICES ASSUME NEW m \in live
               PROVE  /\ mutex[m].owner = NoOwner <=> mutex[m].value = 1
                      /\ mutex[m].owner = NoOwner => k'.wait[m] = <<>> /\ mutex[m].hold = 0
                      /\ \A o \in Thread :
                           mutex[m].owner = o /\ holds[o][m] = 0 => Served(o)' /\ want'[o] = m
    BY DEF OwnerServed
  <2>1. m \in Mutex
    BY DEF OwnInv, OwnType
  <2> QED BY <1>0, <2>1 DEF OwnInv, OwnerServed
<1>4. GrantsKept'
  <2> SUFFICES ASSUME NEW u \in Thread, Served(u)'
               PROVE  /\ want'[u] \in live /\ mutex[want'[u]].owner = u
                      /\ mutex[want'[u]].hold = 1 /\ holds[u][want'[u]] = 0
    BY DEF GrantsKept
  <2> QED BY DEF OwnInv, GrantsKept
<1>5. OwnersLend'
  BY DEF OwnInv, OwnersLend
<1> QED BY <1>1, <1>2, <1>3, <1>4, <1>5 DEF OwnInv

\* What OwnInv says of the mutexes a thread owns that was told of each of them.
LEMMA OwnedAndTold ==
  ASSUME OwnInv, NEW t \in Thread, ~Served(t), NEW m \in live
  PROVE  /\ m \in Mutex
         /\ mutex[m].owner = t => holds[t][m] > 0 /\ mutex[m].hold = holds[t][m]
         /\ mutex[m].owner # t => holds[t][m] = 0
<1>1. m \in Mutex /\ holds[t][m] \in Nat /\ t # NoOwner
  BY MutexAssumption DEF OwnInv, OwnType
<1>2. holds[t][m] > 0 => mutex[m].owner = t /\ mutex[m].hold = holds[t][m]
  BY DEF OwnInv, MutualExclusion
<1>3. mutex[m].owner = t => holds[t][m] # 0
  BY <1>1 DEF OwnInv, OwnerServed
<1> QED BY <1>1, <1>2, <1>3

\* The initial states.
LEMMA InitInv == Init => Inv
<1> SUFFICES ASSUME Init PROVE Inv
  OBVIOUS
<1>1. PICK tbl \in BootTables : k = rt_system_scheduler_start(tbl)
  BY DEF Init, ProcessorInit
<1>2. /\ KernelInv(k, {}) /\ k.stat[k.cur] = "RUNNING" /\ k.nest = 0
      /\ \A q \in Queue : k.wait[q] = <<>>
      /\ \A t \in Thread : k.stat[t] # "SUSPEND"
  BY <1>1, BootInv
<1>3. \A m \in Mutex : ToSet(k.wait[m]) = {}
  BY <1>2 DEF ToSet
<1>4. /\ pc = [t \in Thread |-> "run"] /\ isr = "none" /\ live = Mutex
      /\ mutex = [m \in Mutex |-> Free] /\ want \in [Thread -> Mutex]
      /\ holds = [t \in Thread |-> [m \in Mutex |-> 0]]
  BY DEF Init, ProcessorInit
<1>5. WaitInv
  BY <1>2, <1>3, <1>4 DEF WaitInv, CurrentGoesOn, SleepersKnown, WaitersCalled, Asleep, Points
<1>6. \A t \in Thread : ~Served(t)
  BY <1>4 DEF Served, InTake
<1>7. Free.value = 1 /\ Free.owner = NoOwner /\ Free.hold = 0 /\ Free.original_priority = NoPrio
  BY DEF Free
<1>8. OwnType
  BY <1>4, MutexAssumption DEF OwnType, Free
<1>9. MutualExclusion /\ GrantsKept
  BY <1>4, <1>6 DEF MutualExclusion, GrantsKept
<1>10. OwnerServed /\ OwnersLend
  BY <1>2, <1>3, <1>4, <1>7, MutexAssumption DEF OwnerServed, OwnersLend
<1> QED BY <1>5, <1>8, <1>9, <1>10 DEF Inv, OwnInv

-----------------------------------------------------------------------------
(* rt_mutex_take *)

\* A running thread between two calls: it was told of all that it owns.
LEMMA Caller ==
  ASSUME Inv, NEW t \in Thread, t = k.cur, pc[t] \in {"run", "awake", "delete", "resume"}
  PROVE  /\ k.stat[t] = "RUNNING" /\ ~Served(t) /\ t # NoOwner
         /\ \A m \in Mutex : t \notin ToSet(k.wait[m])
BY Running, MutexAssumption DEF Inv, Served, InTake

\* The thread's error is set: nothing else of the kernel changes.
LEMMA SetError ==
  ASSUME WaitInv, NEW t \in Thread, NEW e \in Error, k' = [k EXCEPT !.err[t] = e]
  PROVE  /\ KernelInv(k', {}) /\ k'.cur = k.cur /\ k'.nest = k.nest /\ k'.stat = k.stat
         /\ k'.wait = k.wait /\ k'.prio = k.prio /\ Asleep(k') = Asleep(k)
         /\ \A u \in Thread : u # t => k'.err[u] = k.err[u]
<1>1. k \in KernelState /\ KernelInv(k, {})
  BY WaitFacts DEF WaitInv
<1>2. k' \in KernelState /\ SameLists(k', k) /\ k'.nest = k.nest
  BY <1>1 DEF KernelState, SameLists
<1>3. k'.cur = k.cur /\ k'.stat = k.stat /\ k'.wait = k.wait /\ k'.prio = k.prio
  BY <1>1 DEF KernelState
<1>4. \A u \in Thread : u # t => k'.err[u] = k.err[u]
  BY <1>1 DEF KernelState
<1> QED BY <1>1, <1>2, <1>3, <1>4, FieldsInv DEF Asleep

\* A call that only sets its error.
LEMMA ErrorStep ==
  ASSUME Inv, NEW t \in Thread, t = k.cur, pc[t] \in {"run", "awake"},
         NEW e \in Error, k' = [k EXCEPT !.err[t] = e],
         pc' = [pc EXCEPT ![t] = "run"], want' = want
  PROVE  /\ WaitInv' /\ k'.wait = k.wait /\ k'.prio = k.prio
         /\ \A u \in Thread : Served(u)' <=> Served(u)
<1>1. WaitInv /\ k.stat[t] = "RUNNING" /\ ~Served(t)
  BY Caller DEF Inv
<1>2. /\ KernelInv(k', {}) /\ k'.cur = k.cur /\ k'.nest = k.nest /\ k'.stat = k.stat
      /\ k'.wait = k.wait /\ k'.prio = k.prio /\ Asleep(k') = Asleep(k)
      /\ \A u \in Thread : u # t => k'.err[u] = k.err[u]
  BY <1>1, SetError
<1>3. pc' \in [Thread -> Points] /\ pc'[t] = "run" /\ \A u \in Thread : u # t => pc'[u] = pc[u]
  BY <1>1 DEF WaitInv, Points
<1>4. want' \in [Thread -> Mutex]
  BY <1>1 DEF WaitInv
<1>5. WaitInv' /\ \A u \in Thread : u # t => (Served(u)' <=> Served(u))
  BY <1>1, <1>2, <1>3, <1>4, CallerMoves
<1>6. ~Served(t)'
  BY <1>3 DEF Served, InTake
<1> QED BY <1>1, <1>2, <1>5, <1>6

\* Nobody's wait changes and no mutex does.
LEMMA NobodyWaits ==
  ASSUME Inv, UNCHANGED <<mutex, live, holds, isr>>, k'.wait = k.wait,
         \A u \in Thread : Served(u)' <=> Served(u),
         \A u \in Thread : Served(u) => want'[u] = want[u]
  PROVE  OwnInv'
<1>1. \A m \in Mutex : mutex[m].owner \notin ToSet(k'.wait[m])
  BY DEF Inv, OwnInv, OwnersLend
<1>2. \A m \in live : mutex[m].owner = NoOwner => k'.wait[m] = <<>>
  BY DEF Inv, OwnInv, OwnerServed
<1>3. isr' \in {"none", "check"} /\ OwnInv
  BY DEF Inv, OwnInv, OwnType
<1> QED BY <1>1, <1>2, <1>3, SameOwners

\* rt_mutex_take that fails at once, rt_mutex_release by a thread that is not
\* the owner, and the end of rt_thread_sleep.
LEMMA FailsStep ==
  ASSUME Inv, NEW t \in Thread, NEW m \in Mutex,
         TryFails(t, m) \/ ReleaseForeign(t, m) \/ WakeUp(t)
  PROVE  Inv' /\ k'.wait = k.wait /\ k'.prio = k.prio /\ mutex' = mutex /\ live' = live
<1>1. PICK e \in Error : k' = [k EXCEPT !.err[t] = e]
  <2>1. k.err[t] \in Error
    BY WaitFacts DEF Inv
  <2>2. CASE WakeUp(t)
    <3>1. k' = [k EXCEPT !.err[t] = IF k.err[t] = "ETIMEOUT" THEN "EOK" ELSE k.err[t]]
      BY <2>2 DEF WakeUp, SleepEnd
    <3> QED BY <2>1, <3>1 DEF Error
  <2> QED BY <2>2 DEF TryFails, ReleaseForeign, Error
<1>2. t = k.cur /\ pc[t] \in {"run", "awake"}
  BY DEF TryFails, ReleaseForeign, MayTake, MayRelease, WakeUp, SleepEnd, Executes
<1>3. pc' = [pc EXCEPT ![t] = "run"]
  <2>1. pc \in [Thread -> Points]
    BY DEF Inv, WaitInv
  <2>2. CASE pc[t] = "run" /\ pc' = pc
    BY <2>1, <2>2
  <2> QED BY <2>2 DEF TryFails, ReleaseForeign, MayTake, MayRelease, WakeUp, SleepEnd, Executes
<1>4. UNCHANGED <<mutex, live, holds, isr, want>>
  BY DEF TryFails, ReleaseForeign, WakeUp, SleepEnd
<1>5. /\ WaitInv' /\ k'.wait = k.wait /\ k'.prio = k.prio
      /\ \A u \in Thread : Served(u)' <=> Served(u)
  BY <1>1, <1>2, <1>3, <1>4, ErrorStep
<1>6. OwnInv'
  BY <1>4, <1>5, NobodyWaits
<1> QED BY <1>4, <1>5, <1>6 DEF Inv

\* The owner takes its mutex again, or releases it while it holds it more than
\* once: its count and what it was told change together.
LEMMA Recursive ==
  ASSUME Inv, NEW t \in Thread, ~Served(t), NEW m \in live, mutex[m].owner = t,
         NEW n \in 1 .. HoldMax,
         mutex' = [mutex EXCEPT ![m].hold = n], holds' = [holds EXCEPT ![t][m] = n],
         UNCHANGED <<isr, live, want>>, k'.wait = k.wait,
         \A u \in Thread : Served(u)' <=> Served(u)
  PROVE  /\ OwnInv'
         /\ \A x \in Mutex : /\ mutex'[x].owner = mutex[x].owner
                             /\ mutex'[x].original_priority = mutex[x].original_priority
<1>0. OwnInv /\ m \in Mutex /\ OwnType
  BY DEF Inv, OwnInv, OwnType
<1>1. /\ \A x \in Mutex : /\ mutex'[x].owner = mutex[x].owner /\ mutex'[x].value = mutex[x].value
                          /\ mutex'[x].original_priority = mutex[x].original_priority
                          /\ mutex'[x].hold = IF x = m THEN n ELSE mutex[x].hold
      /\ \A u \in Thread, x \in Mutex :
           holds'[u][x] = IF u = t /\ x = m THEN n ELSE holds[u][x]
  BY <1>0 DEF OwnType
<1>2. OwnType'
  <2>1. n \in 0 .. HoldMax
    BY MutexAssumption
  <2> QED BY <1>0, <2>1 DEF OwnType
<1>3. t # NoOwner /\ live' = live /\ live \subseteq Mutex /\ n \in Nat /\ n > 0
  BY <1>0, MutexAssumption DEF OwnType
<1>4. MutualExclusion'
  <2> SUFFICES ASSUME NEW x \in live, NEW u \in Thread, holds'[u][x] > 0
               PROVE  mutex'[x].owner = u /\ mutex'[x].hold = holds'[u][x]
    BY <1>3 DEF MutualExclusion
  <2>1. x \in Mutex
    BY <1>3
  <2>2. CASE u = t /\ x = m
    BY <1>1, <2>1, <2>2
  <2>3. CASE ~(u = t /\ x = m)
    <3>1. holds[u][x] > 0
      BY <1>1, <2>1, <2>3
    <3>2. mutex[x].owner = u /\ mutex[x].hold = holds[u][x]
      BY <1>0, <3>1 DEF OwnInv, MutualExclusion
    <3>3. x # m
      BY <2>3, <3>2
    <3> QED BY <1>1, <2>1, <2>3, <3>2, <3>3
  <2> QED BY <2>2, <2>3
<1>5. OwnerServed'
  <2> SUFFICES ASSUME NEW x \in live
               PROVE  /\ mutex'[x].owner = NoOwner <=> mutex'[x].value = 1
                      /\ mutex'[x].owner = NoOwner => k'.wait[x] = <<>> /\ mutex'[x].hold = 0
                      /\ \A o \in Thread :
                           mutex'[x].owner = o /\ holds'[o][x] = 0 => Served(o)' /\ want'[o] = x
    BY <1>3 DEF OwnerServed
  <2>1. x \in Mutex /\ mutex[x].owner \in Thread \cup {NoOwner}
    BY <1>0, <1>3 DEF OwnType
  <2>2. /\ mutex[x].owner = NoOwner <=> mutex[x].value = 1
        /\ mutex[x].owner = NoOwner => k.wait[x] = <<>> /\ mutex[x].hold = 0
        /\ \A o \in Thread : mutex[x].owner = o /\ holds[o][x] = 0 => Served(o) /\ want[o] = x
    BY <1>0 DEF OwnInv, OwnerServed
  <2>3. CASE x = m
    BY <1>1, <1>3, <2>1, <2>2, <2>3
  <2>4. CASE x # m
    BY <1>1, <1>3, <2>1, <2>2, <2>4
  <2> QED BY <2>3, <2>4
<1>6. GrantsKept'
  <2> SUFFICES ASSUME NEW u \in Thread, Served(u)'
               PROVE  /\ want'[u] \in live' /\ mutex'[want'[u]].owner = u
                      /\ mutex'[want'[u]].hold = 1 /\ holds'[u][want'[u]] = 0
    BY DEF GrantsKept
  <2>1. /\ want[u] \in live /\ mutex[want[u]].owner = u
        /\ mutex[want[u]].hold = 1 /\ holds[u][want[u]] = 0
    BY <1>0 DEF OwnInv, GrantsKept
  <2>2. u # t /\ want[u] # m /\ want[u] \in Mutex
    BY <1>3, <2>1
  <2> QED BY <1>1, <1>3, <2>1, <2>2
<1>7. OwnersLend'
  BY <1>0, <1>1 DEF OwnInv, OwnersLend
<1> QED BY <1>1, <1>2, <1>4, <1>5, <1>6, <1>7 DEF OwnInv

\* The owner takes its mutex once more.
LEMMA TakeAgainStep ==
  ASSUME Inv, NEW t \in Thread, NEW m \in Mutex, TakeAgain(t, m)
  PROVE  /\ Inv' /\ k'.wait = k.wait /\ k'.prio = k.prio /\ live' = live
         /\ \A x \in Mutex : /\ mutex'[x].owner = mutex[x].owner
                             /\ mutex'[x].original_priority = mutex[x].original_priority
<1>1. /\ t = k.cur /\ pc[t] = "run" /\ m \in live /\ mutex[m].owner = t
      /\ k' = [k EXCEPT !.err[t] = "EOK"] /\ UNCHANGED <<isr, pc, live, want>>
  BY DEF TakeAgain, MayTake, Executes
<1>2. pc' = [pc EXCEPT ![t] = "run"] /\ "EOK" \in Error
  BY <1>1 DEF Inv, WaitInv, Error
<1>3. /\ WaitInv' /\ k'.wait = k.wait /\ k'.prio = k.prio
      /\ \A u \in Thread : Served(u)' <=> Served(u)
  BY <1>1, <1>2, ErrorStep
<1>4. ~Served(t)
  BY <1>1, Caller
<1>5. holds[t][m] > 0 /\ mutex[m].hold = holds[t][m]
  BY <1>1, <1>4, OwnedAndTold DEF Inv
<1>6. CASE mutex[m].hold < HoldMax
  <2>1. mutex[m].hold + 1 \in 1 .. HoldMax
    BY <1>6, MutexAssumption DEF Inv, OwnInv, OwnType
  <2>2. /\ mutex' = [mutex EXCEPT ![m].hold = mutex[m].hold + 1]
        /\ holds' = [holds EXCEPT ![t][m] = mutex[m].hold + 1]
    BY <1>5, <1>6 DEF TakeAgain
  <2>3. /\ OwnInv'
        /\ \A x \in Mutex : /\ mutex'[x].owner = mutex[x].owner
                            /\ mutex'[x].original_priority = mutex[x].original_priority
    <3> DEFINE n == mutex[m].hold + 1
    <3>1. n \in 1 .. HoldMax /\ mutex' = [mutex EXCEPT ![m].hold = n] /\ holds' = [holds EXCEPT ![t][m] = n]
      BY <2>1, <2>2
    <3> HIDE DEF n
    <3> QED BY <1>1, <1>3, <1>4, <3>1, Recursive
  <2> QED BY <1>1, <1>3, <2>3 DEF Inv
<1>7. CASE ~(mutex[m].hold < HoldMax)
  <2>1. UNCHANGED <<mutex, holds>>
    BY <1>7 DEF TakeAgain
  <2>2. OwnInv'
    BY <1>1, <1>3, <2>1, NobodyWaits
  <2> QED BY <1>1, <1>3, <2>1, <2>2 DEF Inv
<1> QED BY <1>6, <1>7

\* A release that is not the last one.
LEMMA ReleaseInnerStep ==
  ASSUME Inv, NEW t \in Thread, NEW m \in Mutex, ReleaseInner(t, m)
  PROVE  /\ Inv' /\ k' = k /\ live' = live
         /\ \A x \in Mutex : /\ mutex'[x].owner = mutex[x].owner
                             /\ mutex'[x].original_priority = mutex[x].original_priority
<1>1. /\ t = k.cur /\ pc[t] = "run" /\ m \in live /\ mutex[m].owner = t /\ mutex[m].hold > 1
      /\ UNCHANGED <<k, isr, pc, live, want>>
  BY DEF ReleaseInner, MayRelease, Executes
<1>2. ~Served(t)
  BY <1>1, Caller
<1>3. holds[t][m] > 0 /\ mutex[m].hold = holds[t][m]
  BY <1>1, <1>2, OwnedAndTold DEF Inv
<1> DEFINE n == mutex[m].hold - 1
<1>4. n \in 1 .. HoldMax
  BY <1>1, MutexAssumption DEF Inv, OwnInv, OwnType
<1>5. mutex' = [mutex EXCEPT ![m].hold = n] /\ holds' = [holds EXCEPT ![t][m] = n]
  BY <1>3 DEF ReleaseInner
<1>6. \A u \in Thread : Served(u)' <=> Served(u)
  BY <1>1 DEF Served
<1>7. WaitInv'
  BY <1>1 DEF Inv, WaitInv, CurrentGoesOn, SleepersKnown, WaitersCalled
<1> HIDE DEF n
<1>8. /\ OwnInv'
      /\ \A x \in Mutex : /\ mutex'[x].owner = mutex[x].owner
                          /\ mutex'[x].original_priority = mutex[x].original_priority
  BY <1>1, <1>2, <1>4, <1>5, <1>6, Recursive
<1> QED BY <1>1, <1>7, <1>8 DEF Inv

\* What is to be shown when one mutex changes hands: that it is right itself.
LEMMA OneMutexChanges ==
  ASSUME Inv, NEW m \in live, OwnType', live' = live, want' = want,
         \A x \in Mutex \ {m} : mutex'[x] = mutex[x] /\ k'.wait[x] = k.wait[x],
         \A u \in Thread : \A x \in Mutex \ {m} : holds'[u][x] = holds[u][x],
         \A u \in Thread : want[u] # m => (Served(u)' <=> Served(u)),
         \A u \in Thread : holds'[u][m] > 0 => mutex'[m].owner = u /\ mutex'[m].hold = holds'[u][m],
         mutex'[m].owner = NoOwner <=> mutex'[m].value = 1,
         mutex'[m].owner = NoOwner => k'.wait[m] = <<>> /\ mutex'[m].hold = 0,
         \A u \in Thread : mutex'[m].owner = u /\ holds'[u][m] = 0 => Served(u)' /\ want[u] = m,
         \A u \in Thread : Served(u)' /\ want[u] = m =>
                             mutex'[m].owner = u /\ mutex'[m].hold = 1 /\ holds'[u][m] = 0,
         mutex'[m].owner # NoOwner => mutex'[m].original_priority \in Prio,
         mutex'[m].owner \notin ToSet(k'.wait[m])
  PROVE  OwnInv'
<1>0. OwnInv /\ live \subseteq Mutex
  BY DEF Inv, OwnInv, OwnType
<1>1. MutualExclusion'
  <2> SUFFICES ASSUME NEW x \in live, NEW u \in Thread, holds'[u][x] > 0
               PROVE  mutex'[x].owner = u /\ mutex'[x].hold = holds'[u][x]
    BY DEF MutualExclusion
  <2>1. CASE x = m
    BY <2>1
  <2>2. CASE x # m
    <3>1. x \in Mutex \ {m}
      BY <1>0, <2>2
    <3> QED BY <1>0, <3>1 DEF OwnInv, MutualExclusion
  <2> QED BY <2>1, <2>2
<1>2. OwnerServed'
  <2> SUFFICES ASSUME NEW x \in live
               PROVE  /\ mutex'[x].owner = NoOwner <=> mutex'[x].value = 1
                      /\ mutex'[x].owner = NoOwner => k'.wait[x] = <<>> /\ mutex'[x].hold = 0
                      /\ \A o \in Thread :
                           mutex'[x].owner = o /\ holds'[o][x] = 0 => Served(o)' /\ want'[o] = x
    BY DEF OwnerServed
  <2>1. CASE x = m
    BY <2>1
  <2>2. CASE x # m
    <3>1. x \in Mutex \ {m}
      BY <1>0, <2>2
    <3>2. /\ mutex[x].owner = NoOwner <=> mutex[x].value = 1
          /\ mutex[x].owner = NoOwner => k.wait[x] = <<>> /\ mutex[x].hold = 0
          /\ \A o \in Thread : mutex[x].owner = o /\ holds[o][x] = 0 => Served(o) /\ want[o] = x
      BY <1>0 DEF OwnInv, OwnerServed
    <3> QED BY <2>2, <3>1, <3>2
  <2> QED BY <2>1, <2>2
<1>3. GrantsKept'
  <2> SUFFICES ASSUME NEW u \in Thread, Served(u)'
               PROVE  /\ want[u] \in live /\ mutex'[want[u]].owner = u
                      /\ mutex'[want[u]].hold = 1 /\ holds'[u][want[u]] = 0
    BY DEF GrantsKept
  <2>1. CASE want[u] = m
    BY <2>1
  <2>2. CASE want[u] # m
    <3>1. Served(u)
      BY <2>2
    <3>2. /\ want[u] \in live /\ mutex[want[u]].owner = u
          /\ mutex[want[u]].hold = 1 /\ holds[u][want[u]] = 0
      BY <1>0, <3>1 DEF OwnInv, GrantsKept
    <3>3. want[u] \in Mutex \ {m}
      BY <1>0, <2>2, <3>2
    <3> QED BY <3>2, <3>3
  <2> QED BY <2>1, <2>2
<1>4. OwnersLend'
  <2> SUFFICES ASSUME NEW x \in Mutex
               PROVE  /\ mutex'[x].owner # NoOwner => mutex'[x].original_priority \in Prio
                      /\ mutex'[x].owner \notin ToSet(k'.wait[x])
    BY DEF OwnersLend
  <2>1. CASE x = m
    BY <2>1
  <2>2. CASE x # m
    <3>1. x \in Mutex \ {m}
      BY <2>2
    <3> QED BY <1>0, <3>1 DEF OwnInv, OwnersLend
  <2> QED BY <2>1, <2>2
<1> QED BY <1>1, <1>2, <1>3, <1>4 DEF OwnInv

Fields == [value : {0, 1}, owner : Thread \cup {NoOwner}, original_priority : Prio \cup {NoPrio},
           hold : 0 .. HoldMax]

Becomes(t, m, f, c) ==
  /\ mutex' = [mutex EXCEPT ![m] = f]
  /\ holds' = [holds EXCEPT ![t][m] = c]
  /\ isr' = isr /\ live' = live

\* The new fields of a mutex and the new count of a thread.
LEMMA NewFields ==
  ASSUME OwnType, NEW t \in Thread, NEW m \in Mutex, NEW f \in Fields, NEW c \in 0 .. HoldMax,
         Becomes(t, m, f, c)
  PROVE  /\ OwnType' /\ mutex'[m] = f
         /\ \A x \in Mutex \ {m} : mutex'[x] = mutex[x]
         /\ \A u \in Thread : holds'[u][m] = IF u = t THEN c ELSE holds[u][m]
         /\ \A u \in Thread : \A x \in Mutex \ {m} : holds'[u][x] = holds[u][x]
<1>1. mutex \in [Mutex -> Fields]
  BY DEF OwnType, Fields
<1>2. mutex' \in [Mutex -> Fields] /\ mutex'[m] = f /\ \A x \in Mutex \ {m} : mutex'[x] = mutex[x]
  BY <1>1 DEF Becomes
<1>3. holds' \in [Thread -> [Mutex -> 0 .. HoldMax]]
  BY DEF OwnType, Becomes
<1>4. /\ \A u \in Thread : holds'[u][m] = IF u = t THEN c ELSE holds[u][m]
      /\ \A u \in Thread : \A x \in Mutex \ {m} : holds'[u][x] = holds[u][x]
  BY DEF OwnType, Becomes
<1>5. OwnType'
  BY <1>2, <1>3 DEF OwnType, Fields, Becomes
<1> QED BY <1>2, <1>4, <1>5

\* A free mutex: nobody has been told that it holds it, or is about to be.
LEMMA FreeMutex ==
  ASSUME Inv, NEW m \in live, mutex[m].owner = NoOwner
  PROVE  /\ m \in Mutex /\ k.wait[m] = <<>> /\ mutex[m].hold = 0 /\ mutex[m].value = 1
         /\ \A u \in Thread : holds[u][m] = 0 /\ ~(Served(u) /\ want[u] = m)
<1>1. OwnInv /\ m \in Mutex
  BY DEF Inv, OwnInv, OwnType
<1>2. k.wait[m] = <<>> /\ mutex[m].hold = 0 /\ mutex[m].value = 1
  BY <1>1 DEF OwnInv, OwnerServed
<1>3. ASSUME NEW u \in Thread PROVE holds[u][m] = 0 /\ ~(Served(u) /\ want[u] = m)
  <2>1. u # NoOwner /\ holds[u][m] \in Nat
    BY <1>1, MutexAssumption DEF OwnInv, OwnType
  <2>2. ~(holds[u][m] > 0)
    BY <1>1, <2>1 DEF OwnInv, MutualExclusion
  <2> QED BY <1>1, <2>1, <2>2 DEF OwnInv, GrantsKept
<1> QED BY <1>1, <1>2, <1>3

\* rt_mutex_take of a free mutex.
LEMMA TakeFreeStep ==
  ASSUME Inv, NEW t \in Thread, NEW m \in Mutex, TakeFree(t, m)
  PROVE  /\ Inv' /\ k'.wait = k.wait /\ k'.prio = k.prio
         /\ mutex[m].owner = NoOwner
         /\ mutex'[m].owner = t /\ mutex'[m].original_priority = k.prio[t]
         /\ \A x \in Mutex \ {m} : mutex'[x] = mutex[x]
<1>1. /\ t = k.cur /\ pc[t] = "run" /\ m \in live /\ mutex[m].owner # t /\ mutex[m].value > 0
      /\ k' = [k EXCEPT !.err[t] = "EOK"] /\ UNCHANGED <<isr, pc, live, want>>
  BY DEF TakeFree, MayTake, Executes
<1>2. pc' = [pc EXCEPT ![t] = "run"] /\ "EOK" \in Error
  BY <1>1 DEF Inv, WaitInv, Error
<1>3. /\ WaitInv' /\ k'.wait = k.wait /\ k'.prio = k.prio
      /\ \A u \in Thread : Served(u)' <=> Served(u)
  BY <1>1, <1>2, ErrorStep
<1>4. ~Served(t) /\ t # NoOwner /\ t \notin ToSet(k.wait[m])
  BY <1>1, Caller
<1>5. OwnType /\ mutex[m].owner = NoOwner
  <2>1. OwnType
    BY DEF Inv, OwnInv
  <2>2. mutex[m].value = 1
    BY <1>1, <2>1 DEF OwnType
  <2> QED BY <1>1, <2>1, <2>2 DEF Inv, OwnInv, OwnerServed
<1>6. /\ k.wait[m] = <<>> /\ mutex[m].hold = 0 /\ mutex[m].value = 1
      /\ \A u \in Thread : holds[u][m] = 0 /\ ~(Served(u) /\ want[u] = m)
  BY <1>1, <1>5, FreeMutex
<1> DEFINE p == k.prio[t]
<1>7. p \in Prio
  BY WaitFacts DEF Inv
<1> DEFINE f == [mutex[m] EXCEPT !.value = 0, !.owner = t, !.original_priority = p, !.hold = 1]
           c == 1
<1>8. mutex' = [mutex EXCEPT ![m] = f] /\ holds' = [holds EXCEPT ![t][m] = c]
  <2>1. mutex' = [mutex EXCEPT ![m].value = @ - 1, ![m].owner = t, ![m].original_priority = p,
                                ![m].hold = @ + 1]
    BY DEF TakeFree
  <2>2. mutex[m].value - 1 = 0 /\ mutex[m].hold + 1 = 1
    BY <1>6
  <2>3. holds' = [holds EXCEPT ![t][m] = holds[t][m] + 1] /\ holds[t][m] + 1 = 1
    BY <1>6 DEF TakeFree
  <2>4. mutex' = [mutex EXCEPT ![m] = [mutex[m] EXCEPT !.value = mutex[m].value - 1, !.owner = t,
                                         !.original_priority = p, !.hold = mutex[m].hold + 1]]
    BY <1>5, <2>1 DEF OwnType
  <2> QED BY <2>2, <2>3, <2>4
<1>a. f \in Fields /\ f.value = 0 /\ f.owner = t /\ f.hold = 1 /\ f.original_priority = p /\ c = 1
  <2>1. mutex[m] \in Fields /\ 1 \in 0 .. HoldMax
    BY <1>5, MutexAssumption DEF OwnType, Fields
  <2> QED BY <1>7, <2>1 DEF Fields
<1> HIDE DEF p, f, c
<1>9. /\ OwnType'
      /\ mutex'[m].value = 0 /\ mutex'[m].owner = t /\ mutex'[m].hold = 1
      /\ mutex'[m].original_priority = p
      /\ \A x \in Mutex \ {m} : mutex'[x] = mutex[x]
      /\ \A u \in Thread : holds'[u][m] = IF u = t THEN 1 ELSE holds[u][m]
      /\ \A u \in Thread : \A x \in Mutex \ {m} : holds'[u][x] = holds[u][x]
  <2>1. c \in 0 .. HoldMax
    BY <1>a, MutexAssumption
  <2>2. /\ OwnType' /\ mutex'[m] = f
        /\ \A x \in Mutex \ {m} : mutex'[x] = mutex[x]
        /\ \A u \in Thread : holds'[u][m] = IF u = t THEN c ELSE holds[u][m]
        /\ \A u \in Thread : \A x \in Mutex \ {m} : holds'[u][x] = holds[u][x]
    <3>1. OwnType /\ f \in Fields /\ Becomes(t, m, f, c)
      BY <1>1, <1>5, <1>8, <1>a DEF Becomes
    <3> QED BY <2>1, <3>1, NewFields
  <2> QED BY <1>a, <2>2
<1>10. OwnInv'
  <2>1. \A u \in Thread : holds'[u][m] > 0 => mutex'[m].owner = u /\ mutex'[m].hold = holds'[u][m]
    BY <1>6, <1>9
  <2>2. \A u \in Thread : mutex'[m].owner = u => holds'[u][m] # 0
    BY <1>9
  <2>3. \A x \in Mutex \ {m} : mutex'[x] = mutex[x] /\ k'.wait[x] = k.wait[x]
    BY <1>3, <1>9
  <2> QED BY <1>1, <1>3, <1>4, <1>6, <1>7, <1>9, <2>1, <2>2, <2>3, OneMutexChanges
<1> QED BY <1>3, <1>5, <1>9, <1>10 DEF Inv, p

\* A thread that was handed its mutex is told so; another one was turned away.
LEMMA TakeReturnStep ==
  ASSUME Inv, NEW t \in Thread, TakeReturn(t)
  PROVE  Inv' /\ k' = k /\ mutex' = mutex /\ live' = live
<1>1. /\ t = k.cur /\ pc[t] = "woken" /\ pc' = [pc EXCEPT ![t] = "run"]
      /\ UNCHANGED <<k, isr, mutex, live, want>>
  BY DEF TakeReturn, Executes
<1>2. WaitInv /\ OwnInv /\ OwnType /\ want[t] \in Mutex
  BY DEF Inv, WaitInv, OwnInv
<1>3. k.stat[t] = "RUNNING" /\ \A m \in Mutex : t \notin ToSet(k.wait[m])
  BY <1>1, <1>2, Running
<1>4. /\ pc' \in [Thread -> Points] /\ pc'[t] = "run" /\ want' \in [Thread -> Mutex]
      /\ \A u \in Thread : u # t => pc'[u] = pc[u]
  BY <1>1, <1>2 DEF WaitInv, Points
<1>5. WaitInv' /\ \A u \in Thread : u # t => (Served(u)' <=> Served(u))
  BY <1>1, <1>2, <1>3, <1>4, CallerMoves DEF WaitInv
<1>6. ~Served(t)'
  BY <1>4 DEF Served, InTake
<1>7. CASE k.err[t] # "EOK"
  <2>1. ~Served(t) /\ holds' = holds
    BY <1>7 DEF Served, TakeReturn
  <2>2. \A u \in Thread : Served(u)' <=> Served(u)
    BY <1>5, <1>6, <2>1
  <2>3. OwnInv'
    BY <1>1, <2>1, <2>2, NobodyWaits
  <2> QED BY <1>1, <1>5, <2>3 DEF Inv
<1>8. CASE k.err[t] = "EOK"
  <2> DEFINE m == want[t]
  <2>1. Served(t)
    BY <1>1, <1>2, <1>3, <1>8 DEF Served, InTake
  <2>2. m \in live /\ mutex[m].owner = t /\ mutex[m].hold = 1 /\ holds[t][m] = 0
    BY <1>2, <2>1 DEF OwnInv, GrantsKept
  <2>3. holds' = [holds EXCEPT ![t][m] = 1]
    <3>1. holds' = [holds EXCEPT ![t][m] = holds[t][m] + 1]
      BY <1>8 DEF TakeReturn
    <3> QED BY <2>2, <3>1
  <2>4. m \in Mutex /\ t # NoOwner
    BY <1>2, MutexAssumption
  <2>5. want[t] = m
    OBVIOUS
  <2> HIDE DEF m
  <2>6. /\ OwnType'
        /\ \A u \in Thread : holds'[u][m] = IF u = t THEN 1 ELSE holds[u][m]
        /\ \A u \in Thread : \A x \in Mutex \ {m} : holds'[u][x] = holds[u][x]
    <3>1. 1 \in 0 .. HoldMax
      BY MutexAssumption
    <3> QED BY <1>1, <1>2, <2>3, <2>4, <3>1 DEF OwnType
  <2>7. \A u \in Thread : u # t => holds[u][m] = 0 /\ ~(Served(u) /\ want[u] = m)
    <3>1. \A u \in Thread : holds[u][m] \in Nat
      BY <1>2, <2>4, MutexAssumption DEF OwnType
    <3> QED BY <1>2, <2>2, <3>1 DEF OwnInv, MutualExclusion, GrantsKept
  <2>8. \A u \in Thread : holds'[u][m] > 0 => mutex'[m].owner = u /\ mutex'[m].hold = holds'[u][m]
    BY <1>1, <2>2, <2>6, <2>7
  <2>9. \A u \in Thread : mutex'[m].owner = u => holds'[u][m] # 0
    BY <1>1, <2>2, <2>6
  <2>10. \A u \in Thread : want[u] # m => (Served(u)' <=> Served(u))
    BY <1>5, <2>5
  <2>11. /\ mutex'[m].owner # NoOwner /\ (mutex'[m].owner = NoOwner <=> mutex'[m].value = 1)
         /\ mutex'[m].original_priority \in Prio /\ mutex'[m].owner \notin ToSet(k'.wait[m])
    BY <1>1, <1>2, <2>2, <2>4 DEF OwnInv, OwnerServed, OwnersLend
  <2>12. \A u \in Thread : ~(Served(u)' /\ want[u] = m)
    BY <1>5, <1>6, <2>7
  <2>13. OwnInv'
    BY <1>1, <2>2, <2>6, <2>8, <2>9, <2>10, <2>11, <2>12, OneMutexChanges
  <2> QED BY <1>1, <1>5, <2>13 DEF Inv
<1> QED BY <1>7, <1>8

\* The owner of a mutex that somebody else may have to wait for.
LEMMA TakenMutex ==
  ASSUME Inv, NEW m \in live, mutex[m].value = 0
  PROVE  m \in Mutex /\ mutex[m].owner \in Thread /\ mutex[m].original_priority \in Prio
BY DEF Inv, OwnInv, OwnType, OwnerServed, OwnersLend

\* What rt_mutex_take does to the kernel when it blocks: the owner o of the
\* mutex is made as urgent as the caller at least, and the caller queues.
Blocked(t, m, o) ==
  /\ KernelInv(k', {}) /\ k'.cur = k.cur /\ k'.nest = k.nest
  /\ Asleep(k') = Asleep(k) \cup {t}
  /\ k'.err = [k.err EXCEPT ![t] = "EOK"]
  /\ k'.prio = [k.prio EXCEPT ![o] = IF k.prio[t] < k.prio[o] THEN k.prio[t] ELSE k.prio[o]]
  /\ \A x \in Mutex \ {m} : k'.wait[x] = k.wait[x]
  /\ ToSet(k'.wait[m]) = ToSet(k.wait[m]) \cup {t}
  /\ InOrder(k'.prio, k.wait[m]) => InOrder(k'.prio, k'.wait[m])

LEMMA BlocksKernel ==
  ASSUME WaitInv, NEW t \in Thread, t = k.cur, k.stat[t] = "RUNNING", t # Idle,
         NEW m \in Mutex, NEW o \in Thread, NEW n \in Nat \cup {Forever},
         k' = WaitOn(Boost(t, o), m, t, "PRIO", n)
  PROVE  k'.stat[t] = "SUSPEND" /\ Blocked(t, m, o)
<1> DEFINE b == Boost(t, o)
           q == IF k.prio[t] < k.prio[o] THEN k.prio[t] ELSE k.prio[o]
<1>1. /\ KernelInv(k, {}) /\ k \in KernelState /\ {} \in SUBSET Thread /\ k.prio \in [Thread -> Prio]
      /\ k.wait \in [Queue -> Seq(Thread)] /\ k.err \in [Thread -> Error]
      /\ t \in Thread \ {} /\ o \in Thread \ {} /\ m \in Queue
  BY WaitFacts DEF WaitInv
<1>2. /\ KernelInv(b, {}) /\ b.wait = k.wait /\ b.err = k.err /\ b.cur = k.cur /\ b.nest = k.nest
      /\ \A u \in Thread : b.stat[u] = k.stat[u]
      /\ b.prio = [k.prio EXCEPT ![o] = q]
  <2>1. CASE k.prio[t] < k.prio[o]
    <3>1. b = ChangePriority(k, o, k.prio[t]) /\ q = k.prio[t] /\ k.prio[t] \in Prio
      BY <1>1, <2>1 DEF Boost
    <3>2. KernelInv(ChangePriority(k, o, k.prio[t]), {})
      BY <1>1, <3>1, ChangePriorityInv
    <3>3. LET r == ChangePriority(k, o, k.prio[t])
          IN  /\ r.wait = k.wait /\ r.err = k.err /\ r.cur = k.cur /\ r.nest = k.nest
              /\ \A u \in Thread : r.stat[u] = k.stat[u]
              /\ r.prio = [k.prio EXCEPT ![o] = k.prio[t]]
      BY <1>1, <3>1, ChangePriorityWaits
    <3> QED BY <3>1, <3>2, <3>3
  <2>2. CASE ~(k.prio[t] < k.prio[o])
    <3>1. b = k /\ q = k.prio[o]
      BY <2>2 DEF Boost
    <3> QED BY <1>1, <3>1
  <2> QED BY <2>1, <2>2
<1> HIDE DEF b, q
<1>3. b \in KernelState /\ t = b.cur /\ b.stat[t] = "RUNNING" /\ k' = WaitOn(b, m, t, "PRIO", n)
  BY <1>2 DEF KernelInv, b
<1>4. KernelInv(k', {}) /\ Queued(k', b, m, t, n)
  <2>1. t \in Thread \ {} /\ t # Idle /\ m \in Queue /\ n \in Nat \cup {Forever}
    BY <1>1
  <2>2. KernelInv(WaitOn(b, m, t, "PRIO", n), {}) /\ Queued(WaitOn(b, m, t, "PRIO", n), b, m, t, n)
    BY <1>1, <1>2, <1>3, <2>1, WaitOnInv, Zenon
  <2> QED BY <1>3, <2>2
<1>5. k'.wait[m] = InsertAt(b.wait[m], WaitPosition(b, b.wait[m], t, "PRIO"), t)
  <2>1. t \in Thread \ {} /\ t # Idle /\ m \in Queue /\ n \in Nat \cup {Forever}
    BY <1>1
  <2>2. Placed(WaitOn(b, m, t, "PRIO", n), b, m, t, "PRIO")
    BY <1>1, <1>2, <1>3, <2>1, WaitOnPlace, Zenon
  <2> QED BY <1>3, <2>2 DEF Placed
<1>6. /\ k'.cur = b.cur /\ k'.nest = b.nest /\ k'.prio = b.prio
      /\ k'.err = [b.err EXCEPT ![t] = "EOK"]
      /\ \A u \in Thread : k'.stat[u] = IF u = t THEN "SUSPEND" ELSE b.stat[u]
      /\ \A x \in Queue \ {m} : k'.wait[x] = b.wait[x]
  BY <1>4 DEF Queued
<1>7. Asleep(k') = Asleep(k) \cup {t}
  BY <1>2, <1>6 DEF Asleep
<1>8. k.wait[m] \in Seq(Thread) /\ IsInjective(k.wait[m]) /\ t \notin ToSet(k.wait[m])
  BY <1>1 DEF KernelInv, ListsConsistent, WaitersOf
<1>9. ToSet(k'.wait[m]) = ToSet(k.wait[m]) \cup {t}
  <2> DEFINE i == WaitPosition(b, b.wait[m], t, "PRIO")
  <2>1. i \in 1 .. Len(k.wait[m]) + 1
    BY <1>2, <1>8, WaitPositionType
  <2>2. k'.wait[m] = InsertAt(k.wait[m], i, t)
    BY <1>2, <1>5
  <2> HIDE DEF i
  <2>3. ToSet(InsertAt(k.wait[m], i, t)) = ToSet(k.wait[m]) \cup {t}
    BY <1>8, <2>1, InsertAtProps, SMTT(60)
  <2> QED BY <2>2, <2>3
<1>10. InOrder(b.prio, k.wait[m]) => InOrder(b.prio, k'.wait[m])
  BY <1>2, <1>3, <1>5, <1>8, QueueInOrder
<1> QED BY <1>2, <1>4, <1>6, <1>7, <1>9, <1>10 DEF Blocked, q

\* rt_mutex_take of a mutex that another thread owns.
LEMMA TakeBlocksStep ==
  ASSUME Inv, NEW t \in Thread, NEW m \in Mutex, NEW n \in Timeouts, TakeBlocks(t, m, n)
  PROVE  /\ Inv' /\ Blocked(t, m, mutex[m].owner) /\ mutex' = mutex /\ live' = live
         /\ mutex[m].owner \in Thread
<1>1. /\ t = k.cur /\ pc[t] = "run" /\ m \in live /\ mutex[m].owner # t /\ mutex[m].value = 0
      /\ t # Idle /\ k' = WaitOn(Boost(t, mutex[m].owner), m, t, "PRIO", n)
      /\ want' = [want EXCEPT ![t] = m] /\ pc' = [pc EXCEPT ![t] = "blocked"]
      /\ UNCHANGED <<isr, mutex, live, holds>>
  BY DEF TakeBlocks, MayTake, MayBlock, Executes
<1>2. /\ k.stat[t] = "RUNNING" /\ ~Served(t) /\ t # NoOwner
      /\ \A x \in Mutex : t \notin ToSet(k.wait[x])
  BY <1>1, Caller
<1>3. WaitInv /\ OwnInv /\ n \in Nat \cup {Forever}
  BY MutexAssumption DEF Inv
<1>4. mutex[m].owner \in Thread
  BY <1>1, TakenMutex
<1>5. k'.stat[t] = "SUSPEND" /\ Blocked(t, m, mutex[m].owner)
  <2> DEFINE o == mutex[m].owner
  <2>1. o \in Thread /\ k' = WaitOn(Boost(t, o), m, t, "PRIO", n)
    BY <1>1, <1>4
  <2> HIDE DEF o
  <2>2. k'.stat[t] = "SUSPEND" /\ Blocked(t, m, o)
    BY <1>1, <1>2, <1>3, <2>1, BlocksKernel
  <2> QED BY <2>2 DEF o
<1>6. /\ KernelInv(k', {}) /\ k'.cur = k.cur /\ k'.nest = k.nest
      /\ Asleep(k') = Asleep(k) \cup {t}
      /\ k'.err = [k.err EXCEPT ![t] = "EOK"]
      /\ \A x \in Mutex \ {m} : k'.wait[x] = k.wait[x]
      /\ ToSet(k'.wait[m]) = ToSet(k.wait[m]) \cup {t}
  BY <1>5 DEF Blocked
<1>7. /\ pc' \in [Thread -> Points] /\ pc'[t] = "blocked"
      /\ want' \in [Thread -> Mutex] /\ want'[t] = m /\ k'.err[t] = "EOK"
      /\ \A u \in Thread : u # t => pc'[u] = pc[u] /\ want'[u] = want[u] /\ k'.err[u] = k.err[u]
  BY <1>1, <1>3, <1>6, WaitFacts DEF WaitInv, Points
<1>8. /\ \A u \in Thread : want[u] \in Mutex
      /\ \A x \in Mutex : ToSet(k.wait[x]) \subseteq Thread
      /\ \A x \in Mutex : \A u \in Thread : u # t => (u \in ToSet(k'.wait[x]) <=> u \in ToSet(k.wait[x]))
      /\ \A x \in Mutex : t \in ToSet(k'.wait[x]) => x = m
      /\ \A x \in Mutex : ToSet(k'.wait[x]) \subseteq Thread
  <2>1. /\ \A u \in Thread : want[u] \in Mutex
        /\ \A x \in Mutex : ToSet(k.wait[x]) \subseteq Thread
    BY <1>3, WaitFacts DEF WaitInv
  <2>2. \A x \in Mutex : ToSet(k'.wait[x]) = IF x = m THEN ToSet(k.wait[m]) \cup {t}
                                                      ELSE ToSet(k.wait[x])
    BY <1>6
  <2>3. \A x \in Mutex : t \notin ToSet(k.wait[x])
    BY <1>2, <1>3
  <2> QED BY <2>1, <2>2, <2>3
<1>9. SleepersKnown'
  <2> SUFFICES ASSUME NEW u \in Asleep(k')
               PROVE  pc'[u] \in {"sleep", "awake"} \/ (InTake(pc'[u]) /\ u \in ToSet(k'.wait[want'[u]]))
    BY DEF SleepersKnown
  <2>1. CASE u = t
    BY <1>6, <1>7, <2>1 DEF InTake
  <2>2. CASE u # t
    <3>1. u \in Asleep(k) /\ u \in Thread
      BY <1>6, <2>2 DEF Asleep
    <3> QED BY <1>3, <1>7, <1>8, <2>2, <3>1 DEF WaitInv, SleepersKnown
  <2> QED BY <2>1, <2>2
<1>10. WaitersCalled'
  <2> SUFFICES ASSUME NEW x \in Mutex, NEW u \in ToSet(k'.wait[x])
               PROVE  InTake(pc'[u]) /\ want'[u] = x /\ k'.err[u] = "EOK"
    BY DEF WaitersCalled
  <2>1. CASE u = t
    BY <1>7, <1>8, <2>1 DEF InTake
  <2>2. CASE u # t
    BY <1>3, <1>7, <1>8, <2>2 DEF WaitInv, WaitersCalled
  <2> QED BY <2>1, <2>2
<1>11. CurrentGoesOn'
  BY <1>1, <1>3, <1>5, <1>6, <1>7 DEF WaitInv, CurrentGoesOn
<1>12. WaitInv'
  BY <1>6, <1>7, <1>9, <1>10, <1>11 DEF WaitInv
<1>13. \A u \in Thread : Served(u)' <=> Served(u)
  <2>1. ~Served(t)'
    BY <1>6, <1>7 DEF Served
  <2>2. \A u \in Thread : u # t => (Served(u)' <=> Served(u))
    BY <1>7, <1>8 DEF Served
  <2> QED BY <1>2, <2>1, <2>2
<1>14. \A x \in Mutex : mutex[x].owner \notin ToSet(k'.wait[x])
  BY <1>1, <1>3, <1>6 DEF OwnInv, OwnersLend
<1>15. \A x \in live : mutex[x].owner = NoOwner => k'.wait[x] = <<>>
  <2>1. mutex[m].owner # NoOwner /\ live \subseteq Mutex
    BY <1>3, <1>4, MutexAssumption DEF OwnInv, OwnType
  <2> QED BY <1>3, <1>6, <2>1 DEF OwnInv, OwnerServed
<1>16. OwnInv'
  <2>1. isr' \in {"none", "check"} /\ \A u \in Thread : Served(u) => want'[u] = want[u]
    BY <1>1, <1>2, <1>3, <1>7 DEF OwnInv, OwnType
  <2> QED BY <1>1, <1>3, <1>13, <1>14, <1>15, <2>1, SameOwners
<1> QED BY <1>1, <1>4, <1>5, <1>12, <1>16 DEF Inv

-----------------------------------------------------------------------------
(* rt_schedule() and rt_thread_sleep *)

\* rt_schedule() at the end of a call.
LEMMA ScheduleStep ==
  ASSUME Inv, NEW t \in Thread, Schedule(t)
  PROVE  Inv' /\ k'.wait = k.wait /\ k'.prio = k.prio /\ mutex' = mutex /\ live' = live
<1>1. PICK from, to : /\ Reschedule(t, from, to)
                      /\ <<from, to>> \in {<<"blocked", "woken">>, <<"sched", "run">>, <<"sleep", "awake">>}
  BY DEF Schedule
<1>2. /\ t = k.cur /\ pc[t] = from /\ k' = rt_schedule(k) /\ pc' = [pc EXCEPT ![t] = to]
      /\ UNCHANGED <<isr, mutex, live, want, holds>>
  BY <1>1 DEF Schedule, Reschedule, Executes
<1>3. WaitInv /\ KernelInv(k, {}) /\ k.nest = 0 /\ {} \in SUBSET Thread
  BY WaitFacts DEF Inv, WaitInv, CurrentGoesOn
<1>4. /\ KernelInv(k', {}) /\ Keeps(k', k) /\ SameWaits(k', k)
      /\ k'.stat[k'.cur] = "RUNNING"
  BY <1>2, <1>3, ScheduleInv, ScheduleWaits, ScheduleRuns
<1>5. /\ pc' \in [Thread -> Points]
      /\ \A u \in Thread : InTake(pc'[u]) <=> InTake(pc[u])
      /\ \A u \in Thread : pc[u] \in {"sleep", "awake"} => pc'[u] \in {"sleep", "awake"}
  BY <1>1, <1>2, <1>3 DEF WaitInv, Points, InTake
<1>6. WaitInv' /\ \A u \in Thread : Served(u)' <=> Served(u)
  <2>1. k'.wait = k.wait /\ k'.err = k.err /\ Asleep(k') = Asleep(k)
    BY <1>4 DEF SameWaits
  <2>2. \A m \in Mutex : ToSet(k'.wait[m]) = ToSet(k.wait[m]) \ {}
    BY <2>1
  <2>3. WaitInv' /\ \A u \in Thread \ {} : Served(u)' <=> Served(u)
    BY <1>2, <1>3, <1>4, <1>5, <2>1, <2>2, OthersWait
  <2> QED BY <2>3
<1>7. k'.wait = k.wait /\ k'.prio = k.prio
  BY <1>4 DEF SameWaits
<1>8. OwnInv'
  BY <1>2, <1>6, <1>7, NobodyWaits
<1> QED BY <1>2, <1>6, <1>7, <1>8 DEF Inv

\* rt_thread_sleep by a thread between two calls.
LEMMA SleepStep ==
  ASSUME Inv, NEW t \in Thread, Sleep(t)
  PROVE  Inv' /\ k'.wait = k.wait /\ k'.prio = k.prio /\ mutex' = mutex /\ live' = live
<1>1. /\ t = k.cur /\ pc[t] = "run" /\ t # Idle /\ pc' = [pc EXCEPT ![t] = "sleep"]
      /\ k' = TimerStart(rt_thread_suspend([k EXCEPT !.err[t] = "EOK"], t), t, 1)
      /\ UNCHANGED <<isr, mutex, live, want, holds>>
  BY DEF Sleep, SleepBegin, MayBlock, Executes
<1>2. /\ k.stat[t] = "RUNNING" /\ ~Served(t)
      /\ \A x \in Mutex : t \notin ToSet(k.wait[x])
  BY <1>1, Caller
<1>3. WaitInv /\ OwnInv /\ {} \in SUBSET Thread /\ t \in Thread \ {} /\ KernelInv(k, {})
  BY WaitFacts DEF Inv, WaitInv
<1>4. /\ KernelInv(k', {}) /\ k'.cur = k.cur /\ k'.nest = k.nest
      /\ k'.wait = k.wait /\ k'.prio = k.prio /\ k'.err = [k.err EXCEPT ![t] = "EOK"]
      /\ \A u \in Thread : k'.stat[u] = IF u = t THEN "SUSPEND" ELSE k.stat[u]
  BY <1>1, <1>2, <1>3, SleepInv
<1>5. Asleep(k') = Asleep(k) \cup {t} /\ k'.stat[t] = "SUSPEND"
  BY <1>4 DEF Asleep
<1>6. /\ pc' \in [Thread -> Points] /\ pc'[t] = "sleep"
      /\ \A u \in Thread : u # t => pc'[u] = pc[u] /\ k'.err[u] = k.err[u]
  BY <1>1, <1>3, <1>4, WaitFacts DEF WaitInv, Points
<1>7. SleepersKnown'
  <2>1. \A u \in Asleep(k') : u = t \/ (u # t /\ u \in Asleep(k) /\ u \in Thread)
    BY <1>5 DEF Asleep
  <2> QED BY <1>1, <1>3, <1>4, <1>6, <2>1 DEF WaitInv, SleepersKnown
<1>8. WaitersCalled'
  <2>1. \A x \in Mutex : \A u \in ToSet(k.wait[x]) : u # t /\ u \in Thread
    BY <1>2, <1>3, WaitFacts
  <2> QED BY <1>1, <1>3, <1>4, <1>6, <2>1 DEF WaitInv, WaitersCalled
<1>9. CurrentGoesOn'
  BY <1>1, <1>3, <1>4, <1>5, <1>6 DEF WaitInv, CurrentGoesOn
<1>10. WaitInv'
  BY <1>1, <1>3, <1>4, <1>6, <1>7, <1>8, <1>9 DEF WaitInv
<1>11. \A u \in Thread : Served(u)' <=> Served(u)
  <2>1. ~Served(t)'
    BY <1>6 DEF Served, InTake
  <2>2. \A u \in Thread : u # t => (Served(u)' <=> Served(u))
    BY <1>1, <1>4, <1>6 DEF Served
  <2> QED BY <1>2, <2>1, <2>2
<1>12. OwnInv'
  BY <1>1, <1>4, <1>11, NobodyWaits
<1> QED BY <1>1, <1>4, <1>10, <1>12 DEF Inv

-----------------------------------------------------------------------------
(* rt_mutex_release *)

\* The kernel after the owner's priority was put back, and nothing else.
PutBackPrio(r, t, p) ==
  /\ KernelInv(r, {}) /\ Keeps(r, k)
  /\ r.wait = k.wait /\ r.err = k.err /\ r.cur = k.cur /\ r.nest = k.nest
  /\ \A u \in Thread : r.stat[u] = k.stat[u]
  /\ r.prio = [k.prio EXCEPT ![t] = p]

LEMMA RestoreKernel ==
  ASSUME WaitInv, NEW t \in Thread, NEW m \in Mutex, mutex[m].original_priority \in Prio
  PROVE  PutBackPrio(Restored(t, m), t, mutex[m].original_priority)
<1> DEFINE p == mutex[m].original_priority
<1>1. /\ KernelInv(k, {}) /\ {} \in SUBSET Thread /\ t \in Thread \ {} /\ p \in Prio
      /\ k.prio \in [Thread -> Prio]
  BY WaitFacts DEF WaitInv
<1>2. Restored(t, m) = IF p # k.prio[t] THEN ChangePriority(k, t, p) ELSE k
  BY DEF Restored
<1> HIDE DEF p
<1>3. CASE p # k.prio[t]
  <2>1. KernelInv(ChangePriority(k, t, p), {}) /\ Keeps(ChangePriority(k, t, p), k)
    BY <1>1, ChangePriorityInv
  <2>2. LET r == ChangePriority(k, t, p)
        IN  /\ r.wait = k.wait /\ r.err = k.err /\ r.cur = k.cur /\ r.nest = k.nest
            /\ \A u \in Thread : r.stat[u] = k.stat[u]
            /\ r.prio = [k.prio EXCEPT ![t] = p]
    BY <1>1, ChangePriorityWaits
  <2> QED BY <1>2, <1>3, <2>1, <2>2 DEF PutBackPrio, p
<1>4. CASE p = k.prio[t]
  BY <1>1, <1>2, <1>4 DEF PutBackPrio, Keeps, p
<1> QED BY <1>3, <1>4

\* The mutex m after its last release by t: free, or the first waiter's.
Passed(t, m) ==
  /\ k'.prio = [k.prio EXCEPT ![t] = mutex[m].original_priority]
  /\ \A x \in Mutex \ {m} : mutex'[x] = mutex[x] /\ k'.wait[x] = k.wait[x]
  /\ \/ /\ k.wait[m] = <<>> /\ k'.wait[m] = <<>> /\ mutex'[m].owner = NoOwner
     \/ /\ k.wait[m] # <<>> /\ k'.wait[m] = Tail(k.wait[m])
        /\ mutex'[m].owner = Head(k.wait[m])
        /\ mutex'[m].original_priority = k.prio[Head(k.wait[m])]

\* What the last release starts from.
LEMMA LastHeld ==
  ASSUME Inv, NEW t \in Thread, NEW m \in Mutex, ReleaseLast(t, m)
  PROVE  /\ t = k.cur /\ pc[t] = "run" /\ m \in live /\ mutex[m].owner = t /\ mutex[m].hold = 1
         /\ UNCHANGED <<isr, live, want>> /\ holds' = [holds EXCEPT ![t][m] = 0]
         /\ mutex[m].value = 0 /\ mutex[m].original_priority \in Prio
         /\ \A u \in Thread : u # t => holds[u][m] = 0
         /\ \A u \in Thread : ~(Served(u) /\ want[u] = m)
<1>1. /\ t = k.cur /\ pc[t] = "run" /\ m \in live /\ mutex[m].owner = t /\ mutex[m].hold = 1
      /\ UNCHANGED <<isr, live, want>> /\ holds' = [holds EXCEPT ![t][m] = holds[t][m] - 1]
  BY DEF ReleaseLast, MayRelease, Executes
<1>2. ~Served(t) /\ t # NoOwner /\ OwnInv
  BY <1>1, Caller DEF Inv
<1>3. holds[t][m] = 1
  BY <1>1, <1>2, OwnedAndTold
<1>4. mutex[m].value = 0 /\ mutex[m].original_priority \in Prio
  BY <1>1, <1>2 DEF OwnInv, OwnType, OwnerServed, OwnersLend
<1>5. \A u \in Thread : u # t => holds[u][m] = 0
  <2>1. \A u \in Thread : holds[u][m] \in Nat
    BY <1>2, MutexAssumption DEF OwnInv, OwnType
  <2> QED BY <1>1, <1>2, <2>1 DEF OwnInv, MutualExclusion
<1>6. \A u \in Thread : ~(Served(u) /\ want[u] = m)
  BY <1>1, <1>2 DEF OwnInv, GrantsKept
<1> QED BY <1>1, <1>3, <1>4, <1>5, <1>6

\* The last release of a mutex that nobody waits for.
LEMMA ReleaseFreeStep ==
  ASSUME Inv, NEW t \in Thread, NEW m \in Mutex, ReleaseLast(t, m), k.wait[m] = <<>>
  PROVE  Inv' /\ Passed(t, m)
<1>1. /\ t = k.cur /\ pc[t] = "run" /\ m \in live /\ mutex[m].owner = t /\ mutex[m].hold = 1
      /\ UNCHANGED <<isr, live, want>> /\ holds' = [holds EXCEPT ![t][m] = 0]
      /\ mutex[m].value = 0 /\ mutex[m].original_priority \in Prio
      /\ \A u \in Thread : u # t => holds[u][m] = 0
      /\ \A u \in Thread : ~(Served(u) /\ want[u] = m)
  BY LastHeld
<1>2. /\ k' = Restored(t, m) /\ pc' = pc
      /\ mutex' = [mutex EXCEPT ![m].value = @ + 1, ![m].owner = NoOwner,
                                ![m].original_priority = NoPrio, ![m].hold = 0]
  BY DEF ReleaseLast
<1>3. k.stat[t] = "RUNNING" /\ ~Served(t) /\ WaitInv /\ OwnType /\ t # NoOwner
  BY <1>1, Caller DEF Inv, OwnInv
<1>4. PutBackPrio(k', t, mutex[m].original_priority)
  BY <1>1, <1>2, <1>3, RestoreKernel
<1>5. /\ KernelInv(k', {}) /\ k'.wait = k.wait /\ k'.err = k.err /\ k'.cur = k.cur /\ k'.nest = k.nest
      /\ k'.stat[t] = "RUNNING" /\ Asleep(k') = Asleep(k)
      /\ k'.prio = [k.prio EXCEPT ![t] = mutex[m].original_priority]
  BY <1>3, <1>4 DEF PutBackPrio, Asleep
<1>6. WaitInv' /\ \A u \in Thread : Served(u)' <=> Served(u)
  <2>1. pc' \in [Thread -> Points] /\ want' \in [Thread -> Mutex]
    BY <1>1, <1>2, <1>3 DEF WaitInv
  <2>2. WaitInv' /\ \A u \in Thread : u # t => (Served(u)' <=> Served(u))
    BY <1>1, <1>2, <1>3, <1>5, <2>1, CallerMoves
  <2>3. ~Served(t)'
    BY <1>1, <1>2 DEF Served, InTake
  <2> QED BY <1>3, <2>2, <2>3
<1> DEFINE f == [mutex[m] EXCEPT !.value = 1, !.owner = NoOwner, !.original_priority = NoPrio, !.hold = 0]
           c == 0
<1>7. Becomes(t, m, f, c)
  <2>1. mutex' = [mutex EXCEPT ![m] = [mutex[m] EXCEPT !.value = mutex[m].value + 1, !.owner = NoOwner,
                                         !.original_priority = NoPrio, !.hold = 0]]
    BY <1>2, <1>3 DEF OwnType
  <2>2. mutex[m].value + 1 = 1
    BY <1>1
  <2> QED BY <1>1, <2>1, <2>2 DEF Becomes
<1>8. /\ f \in Fields /\ f.value = 1 /\ f.owner = NoOwner /\ f.hold = 0 /\ c = 0
      /\ c \in 0 .. HoldMax
  <2>1. mutex[m] \in Fields /\ 0 \in 0 .. HoldMax
    BY <1>3, MutexAssumption DEF OwnType, Fields
  <2> QED BY <2>1 DEF Fields
<1> HIDE DEF f, c
<1>9. /\ OwnType' /\ mutex'[m] = f
      /\ \A x \in Mutex \ {m} : mutex'[x] = mutex[x]
      /\ \A u \in Thread : holds'[u][m] = IF u = t THEN c ELSE holds[u][m]
      /\ \A u \in Thread : \A x \in Mutex \ {m} : holds'[u][x] = holds[u][x]
  BY <1>3, <1>7, <1>8, NewFields
<1>10. OwnInv'
  <2>1. \A u \in Thread : holds'[u][m] = 0 /\ mutex'[m].owner # u
    BY <1>1, <1>8, <1>9, MutexAssumption
  <2>2. \A x \in Mutex \ {m} : mutex'[x] = mutex[x] /\ k'.wait[x] = k.wait[x]
    BY <1>5, <1>9
  <2>3. mutex'[m].owner = NoOwner /\ mutex'[m].value = 1 /\ mutex'[m].hold = 0 /\ k'.wait[m] = <<>>
    BY <1>5, <1>8, <1>9
  <2>4. ToSet(k'.wait[m]) = {}
    BY <2>3 DEF ToSet
  <2>5. \A u \in Thread : ~(Served(u)' /\ want[u] = m)
    BY <1>1, <1>6
  <2> QED BY <1>1, <1>6, <1>9, <2>1, <2>2, <2>3, <2>4, <2>5, OneMutexChanges
<1>11. Passed(t, m)
  BY <1>5, <1>8, <1>9 DEF Passed
<1> QED BY <1>6, <1>10, <1>11 DEF Inv

\* The last release hands the mutex to the first waiter, which owns it from
\* now on although it has not run yet.
LEMMA HandOverStep ==
  ASSUME Inv, NEW t \in Thread, NEW m \in Mutex, ReleaseLast(t, m), k.wait[m] # <<>>
  PROVE  Inv' /\ Passed(t, m)
<1> DEFINE r == Restored(t, m)
<1>0. PICK h : h = Head(k.wait[m])
  OBVIOUS
<1>1. /\ t = k.cur /\ pc[t] = "run" /\ m \in live /\ mutex[m].owner = t /\ mutex[m].hold = 1
      /\ UNCHANGED <<isr, live, want>> /\ holds' = [holds EXCEPT ![t][m] = 0]
      /\ mutex[m].value = 0 /\ mutex[m].original_priority \in Prio
      /\ \A u \in Thread : u # t => holds[u][m] = 0
      /\ \A u \in Thread : ~(Served(u) /\ want[u] = m)
  BY LastHeld
<1>2. k.stat[t] = "RUNNING" /\ ~Served(t) /\ WaitInv /\ OwnType /\ t # NoOwner
      /\ t \notin ToSet(k.wait[m])
  BY <1>1, Caller DEF Inv, OwnInv
<1>3. PutBackPrio(r, t, mutex[m].original_priority)
  BY <1>1, <1>2, RestoreKernel
<1>4. /\ KernelInv(r, {}) /\ r.wait = k.wait /\ r.err = k.err /\ r.cur = k.cur /\ r.nest = k.nest
      /\ r.stat[t] = "RUNNING" /\ Asleep(r) = Asleep(k)
      /\ r.prio = [k.prio EXCEPT ![t] = mutex[m].original_priority]
  BY <1>2, <1>3 DEF PutBackPrio, Asleep
<1>5. /\ k' = _ipc_list_resume(r, m) /\ pc' = [pc EXCEPT ![t] = "sched"]
      /\ mutex' = [mutex EXCEPT ![m].owner = h, ![m].original_priority = r.prio[h], ![m].hold = 1]
  BY <1>0, <1>4 DEF ReleaseLast, HandOver
<1> HIDE DEF r
<1>6. /\ h \in ToSet(k.wait[m]) /\ h \in Thread
      /\ KernelInv(k', {}) /\ Keeps(k', r) /\ k'.cur = r.cur /\ k'.err = r.err /\ k'.prio = r.prio
      /\ k'.wait = [k.wait EXCEPT ![m] = Tail(@)]
      /\ ToSet(k'.wait[m]) = ToSet(k.wait[m]) \ {h}
      /\ Asleep(k') = Asleep(k) \ {h}
  <2>1. {} \in SUBSET Thread /\ m \in Queue /\ r.wait[m] # <<>>
    BY <1>4
  <2>2. LET g == Head(r.wait[m])
            s == _ipc_list_resume(r, m)
        IN  /\ g \in ToSet(r.wait[m]) /\ g \in Thread
            /\ KernelInv(s, {}) /\ Keeps(s, r) /\ s.cur = r.cur /\ s.err = r.err
            /\ s.prio = r.prio
            /\ s.wait = [r.wait EXCEPT ![m] = Tail(@)]
            /\ ToSet(s.wait[m]) = ToSet(r.wait[m]) \ {g}
            /\ Asleep(s) = Asleep(r) \ {g} /\ TimersBut(s, r, g)
    BY <1>4, <2>1, ListResume
  <2> QED BY <1>0, <1>4, <1>5, <2>2
<1>7. /\ h # t /\ r.prio[h] = k.prio[h] /\ k.prio[h] \in Prio /\ want[h] = m /\ InTake(pc[h])
      /\ k.err[h] = "EOK"
  BY <1>2, <1>4, <1>6, WaitFacts DEF WaitInv, WaitersCalled
<1>8. /\ k'.wait[m] = Tail(k.wait[m]) /\ \A x \in Mutex \ {m} : k'.wait[x] = k.wait[x]
      /\ \A x \in Mutex : ToSet(k'.wait[x]) = ToSet(k.wait[x]) \ {h}
  <2>1. k.wait \in [Queue -> Seq(Thread)]
    BY <1>2, WaitFacts
  <2>2. k'.wait[m] = Tail(k.wait[m]) /\ \A x \in Mutex \ {m} : k'.wait[x] = k.wait[x]
    BY <1>6, <2>1
  <2>3. \A x \in Mutex \ {m} : h \notin ToSet(k.wait[x])
    BY <1>2, <1>7 DEF WaitInv, WaitersCalled
  <2> QED BY <1>6, <2>2, <2>3
<1>9. WaitInv' /\ \A u \in Thread \ {h} : Served(u)' <=> Served(u)
  <2>1. /\ pc' \in [Thread -> Points]
        /\ \A u \in Thread : InTake(pc'[u]) <=> InTake(pc[u])
        /\ \A u \in Thread : pc[u] \in {"sleep", "awake"} => pc'[u] \in {"sleep", "awake"}
    BY <1>1, <1>2, <1>5 DEF WaitInv, Points, InTake
  <2>2. Keeps(k', k)
    <3>1. r \in KernelState /\ k' \in KernelState /\ Keeps(r, k)
      BY <1>3, <1>6 DEF KernelInv, PutBackPrio
    <3> QED BY <1>6, <3>1, KeepsTrans
  <2>3. k'.stat[k'.cur] = "RUNNING"
    BY <1>1, <1>2, <2>2 DEF Keeps
  <2>4. {h} \in SUBSET Thread /\ k'.err = k.err
    BY <1>4, <1>6
  <2> QED BY <1>1, <1>2, <1>6, <1>8, <2>1, <2>2, <2>3, <2>4, OthersWait
<1>10. Served(h)'
  <2>1. pc'[h] = pc[h] /\ want'[h] = m /\ k'.err[h] = "EOK"
    BY <1>1, <1>2, <1>4, <1>5, <1>6, <1>7 DEF WaitInv
  <2> QED BY <1>6, <1>7, <2>1 DEF Served
<1> DEFINE f == [mutex[m] EXCEPT !.owner = h, !.original_priority = k.prio[h], !.hold = 1]
           c == 0
<1>11. Becomes(t, m, f, c)
  <2>1. mutex' = [mutex EXCEPT ![m] = [mutex[m] EXCEPT !.owner = h, !.original_priority = r.prio[h],
                                         !.hold = 1]]
    BY <1>2, <1>5 DEF OwnType
  <2> QED BY <1>1, <1>7, <2>1 DEF Becomes
<1>12. /\ f \in Fields /\ f.value = 0 /\ f.owner = h /\ f.original_priority = k.prio[h] /\ f.hold = 1
       /\ c = 0 /\ c \in 0 .. HoldMax
  <2>1. mutex[m] \in Fields /\ 1 \in 0 .. HoldMax /\ 0 \in 0 .. HoldMax
    BY <1>2, MutexAssumption DEF OwnType, Fields
  <2>2. h \in Thread /\ k.prio[h] \in Prio /\ mutex[m].value = 0
    BY <1>1, <1>6, <1>7
  <2> QED BY <2>1, <2>2 DEF Fields
<1> HIDE DEF f, c
<1>13. /\ OwnType' /\ mutex'[m] = f
       /\ \A x \in Mutex \ {m} : mutex'[x] = mutex[x]
       /\ \A u \in Thread : holds'[u][m] = IF u = t THEN c ELSE holds[u][m]
       /\ \A u \in Thread : \A x \in Mutex \ {m} : holds'[u][x] = holds[u][x]
  BY <1>2, <1>11, <1>12, NewFields
<1>14. OwnInv'
  <2>1. /\ mutex'[m].owner = h /\ mutex'[m].hold = 1 /\ mutex'[m].value = 0 /\ h # NoOwner
        /\ mutex'[m].original_priority \in Prio
    BY <1>6, <1>7, <1>12, <1>13, MutexAssumption
  <2>2. \A u \in Thread : holds'[u][m] = 0
    BY <1>1, <1>12, <1>13
  <2>3. \A x \in Mutex \ {m} : mutex'[x] = mutex[x] /\ k'.wait[x] = k.wait[x]
    BY <1>8, <1>13
  <2>4. \A u \in Thread : want[u] # m => (Served(u)' <=> Served(u))
    BY <1>7, <1>9
  <2>5. \A u \in Thread : Served(u)' /\ want[u] = m => u = h
    BY <1>1, <1>9
  <2>6. h \notin ToSet(k'.wait[m])
    BY <1>6
  <2> QED BY <1>1, <1>7, <1>10, <1>13, <2>1, <2>2, <2>3, <2>4, <2>5, <2>6, OneMutexChanges
<1>15. Passed(t, m)
  BY <1>0, <1>4, <1>6, <1>8, <1>12, <1>13 DEF Passed
<1> QED BY <1>9, <1>14, <1>15 DEF Inv

-----------------------------------------------------------------------------
(* rt_mutex_delete and the tick interrupt *)

\* From here on the mutex is nobody's.
LEMMA DeleteBeginStep ==
  ASSUME Inv, NEW t \in Thread, NEW m \in Mutex, DeleteBegin(t, m)
  PROVE  Inv' /\ k' = k /\ mutex' = mutex /\ live' \subseteq live
<1>1. /\ t = k.cur /\ pc[t] = "run" /\ m \in live /\ mutex[m].owner \in {t, NoOwner}
      /\ live' = live \ {m} /\ want' = [want EXCEPT ![t] = m]
      /\ holds' = [holds EXCEPT ![t][m] = 0] /\ pc' = [pc EXCEPT ![t] = "delete"]
      /\ UNCHANGED <<k, isr, mutex>>
  BY DEF DeleteBegin, MayRelease, Executes
<1>2. /\ k.stat[t] = "RUNNING" /\ ~Served(t) /\ WaitInv /\ OwnInv /\ t # NoOwner
  BY <1>1, Caller DEF Inv
<1>3. /\ pc' \in [Thread -> Points] /\ want' \in [Thread -> Mutex] /\ pc'[t] = "delete"
      /\ \A u \in Thread : u # t => pc'[u] = pc[u] /\ want'[u] = want[u]
  BY <1>1, <1>2 DEF WaitInv, Points
<1>4. WaitInv' /\ \A u \in Thread : u # t => (Served(u)' <=> Served(u))
  BY <1>1, <1>2, <1>3, CallerMoves DEF WaitInv
<1>5. ~Served(t)'
  BY <1>3 DEF Served, InTake
<1>6. \A u \in Thread : (Served(u)' <=> Served(u)) /\ (Served(u) => u # t /\ want'[u] = want[u])
  BY <1>2, <1>3, <1>4, <1>5
<1>7. OwnType' /\ \A u \in Thread, x \in live' : x \in live /\ x # m /\ holds'[u][x] = holds[u][x]
  <2>1. 0 \in 0 .. HoldMax
    BY MutexAssumption
  <2>2. OwnType'
    BY <1>1, <1>2, <2>1 DEF OwnInv, OwnType
  <2> QED BY <1>1, <1>2, <2>2 DEF OwnInv, OwnType
<1>8. MutualExclusion'
  BY <1>1, <1>2, <1>7 DEF OwnInv, MutualExclusion
<1>9. OwnerServed'
  <2> SUFFICES ASSUME NEW x \in live'
               PROVE  /\ mutex[x].owner = NoOwner <=> mutex[x].value = 1
                      /\ mutex[x].owner = NoOwner => k.wait[x] = <<>> /\ mutex[x].hold = 0
                      /\ \A o \in Thread :
                           mutex[x].owner = o /\ holds'[o][x] = 0 => Served(o)' /\ want'[o] = x
    BY <1>1 DEF OwnerServed
  <2>1. x \in live
    BY <1>1
  <2> QED BY <1>2, <1>6, <1>7, <2>1 DEF OwnInv, OwnerServed
<1>10. GrantsKept'
  <2> SUFFICES ASSUME NEW u \in Thread, Served(u)'
               PROVE  /\ want'[u] \in live' /\ mutex[want'[u]].owner = u
                      /\ mutex[want'[u]].hold = 1 /\ holds'[u][want'[u]] = 0
    BY <1>1 DEF GrantsKept
  <2>1. Served(u) /\ u # t /\ want'[u] = want[u] /\ u # NoOwner
    BY <1>6, MutexAssumption
  <2>2. /\ want[u] \in live /\ mutex[want[u]].owner = u
        /\ mutex[want[u]].hold = 1 /\ holds[u][want[u]] = 0
    BY <1>2, <2>1 DEF OwnInv, GrantsKept
  <2>3. want[u] \in live'
    BY <1>1, <2>1, <2>2
  <2> QED BY <1>7, <2>1, <2>2, <2>3
<1>11. OwnersLend'
  BY <1>1, <1>2 DEF OwnInv, OwnersLend
<1> QED BY <1>1, <1>4, <1>7, <1>8, <1>9, <1>10, <1>11 DEF Inv, OwnInv

\* A waiter h leaves with an error: it was not served and is not now.
LEMMA TurnedAway ==
  ASSUME Inv, NEW h \in Asleep(k), KernelInv(k', {}), Keeps(k', k),
         Asleep(k') = Asleep(k) \ {h},
         \A m \in Mutex : ToSet(k'.wait[m]) = ToSet(k.wait[m]) \ {h},
         \A m \in Mutex : k.wait[m] = <<>> => k'.wait[m] = <<>>,
         \A u \in Thread \ {h} : k'.err[u] = k.err[u], k'.err[h] # "EOK",
         pc' \in [Thread -> Points],
         \A u \in Thread : InTake(pc'[u]) <=> InTake(pc[u]),
         \A u \in Thread : pc[u] \in {"sleep", "awake"} => pc'[u] \in {"sleep", "awake"},
         k'.stat[k'.cur] = "RUNNING", UNCHANGED <<isr, mutex, live, want, holds>>
  PROVE  Inv'
<1>1. h \in Thread /\ {h} \in SUBSET Thread /\ WaitInv /\ OwnInv
  BY DEF Asleep, Inv
<1>2. WaitInv' /\ \A u \in Thread \ {h} : Served(u)' <=> Served(u)
  BY <1>1, OthersWait
<1>3. ~Served(h) /\ ~Served(h)'
  <2>1. pc[h] \in {"sleep", "awake"} \/ h \in ToSet(k.wait[want[h]])
    BY <1>1 DEF WaitInv, SleepersKnown
  <2> QED BY <2>1 DEF Served, InTake
<1>4. \A u \in Thread : Served(u)' <=> Served(u)
  BY <1>2, <1>3
<1>5. \A m \in Mutex : mutex[m].owner \notin ToSet(k'.wait[m])
  BY <1>1 DEF OwnInv, OwnersLend
<1>6. \A m \in live : mutex[m].owner = NoOwner => k'.wait[m] = <<>>
  BY <1>1 DEF OwnInv, OwnType, OwnerServed
<1>7. isr' \in {"none", "check"}
  BY <1>1 DEF OwnInv, OwnType
<1>8. OwnInv'
  BY <1>1, <1>4, <1>5, <1>6, <1>7, SameOwners
<1> QED BY <1>2, <1>8 DEF Inv

\* The priorities stay and waiters leave their lists, if anything.
Leaves ==
  /\ k'.prio = k.prio
  /\ \A m \in Mutex : \E u : k'.wait[m] = k.wait[m] \/ k'.wait[m] = Unlink(k.wait[m], u)

\* The steps of _ipc_list_resume_all.
LEMMA DeleteStepStep ==
  ASSUME Inv, NEW t \in Thread, DeleteStep(t)
  PROVE  Inv' /\ mutex' = mutex /\ live' = live /\ Leaves
<1>1. WaitInv /\ OwnInv /\ pc \in [Thread -> Points] /\ want[t] \in Mutex /\ KernelInv(k, {})
  BY DEF Inv, WaitInv
<1>2. UNCHANGED <<isr, mutex, live, want, holds>>
  BY DEF DeleteStep, ResumeAllTest, ResumeAllBody
<1>3. CASE ResumeAllTest(t, want[t], "delete", "resume", "run")
  <2>1. PICK to \in {"resume", "run"} : pc' = [pc EXCEPT ![t] = to]
    BY <1>3 DEF ResumeAllTest
  <2>2. t = k.cur /\ pc[t] = "delete" /\ k' = k
    BY <1>3 DEF ResumeAllTest, Executes
  <2>3. k.stat[t] = "RUNNING" /\ ~Served(t)
    BY <2>2, Caller
  <2>4. /\ pc' \in [Thread -> Points] /\ want' \in [Thread -> Mutex] /\ ~InTake(pc'[t])
        /\ \A u \in Thread : u # t => pc'[u] = pc[u]
    BY <1>1, <1>2, <2>1 DEF WaitInv, Points, InTake
  <2>5. WaitInv' /\ \A u \in Thread : u # t => (Served(u)' <=> Served(u))
    BY <1>1, <1>2, <2>2, <2>3, <2>4, CallerMoves DEF WaitInv
  <2>6. \A u \in Thread : Served(u)' <=> Served(u)
    BY <2>3, <2>4, <2>5 DEF Served
  <2>7. OwnInv'
    BY <1>2, <2>2, <2>6, NobodyWaits
  <2> QED BY <1>2, <2>2, <2>5, <2>7 DEF Inv, Leaves
<1>4. CASE ResumeAllBody(t, want[t], "resume", "delete")
  <2> DEFINE q == want[t]
             h == Head(k.wait[q])
  <2>1. /\ t = k.cur /\ pc[t] = "resume" /\ pc' = [pc EXCEPT ![t] = "delete"] /\ k.wait[q] # <<>>
        /\ k' = ResumeWithError(k, q) /\ q \in Queue
    BY <1>1, <1>4 DEF ResumeAllBody, Executes
  <2> HIDE DEF q
  <2>2. k.stat[t] = "RUNNING" /\ ~Served(t)
    BY <2>1, Caller
  <2>3. /\ k.wait \in [Queue -> Seq(Thread)] /\ IsInjective(k.wait[q]) /\ {} \in SUBSET Thread
        /\ k.err \in [Thread -> Error]
    BY <1>1, <2>1, WaitFacts
  <2>4. /\ h \in ToSet(k.wait[q]) /\ h \in Thread
        /\ KernelInv(k', {}) /\ Keeps(k', k)
        /\ k'.prio = k.prio /\ k'.err = [k.err EXCEPT ![h] = "ERROR"]
        /\ k'.wait = [k.wait EXCEPT ![q] = Tail(@)]
        /\ ToSet(k'.wait[q]) = ToSet(k.wait[q]) \ {h}
        /\ Asleep(k') = Asleep(k) \ {h}
    BY <1>1, <2>1, <2>3, ListResumeError
  <2>5. k'.wait[q] = Unlink(k.wait[q], h) /\ \A x \in Mutex \ {q} : k'.wait[x] = k.wait[x]
    <3>1. k'.wait[q] = Tail(k.wait[q]) /\ \A x \in Mutex \ {q} : k'.wait[x] = k.wait[x]
      BY <2>1, <2>3, <2>4
    <3>2. Tail(k.wait[q]) = Unlink(k.wait[q], h)
      BY <2>1, <2>3, UnlinkHead
    <3> QED BY <3>1, <3>2
  <2>6. h \in Asleep(k) /\ \A x \in Mutex \ {q} : h \notin ToSet(k.wait[x])
    BY <1>1, <2>1, <2>4 DEF Asleep, KernelInv, ListsConsistent, WaitersOf
  <2>7. \A x \in Mutex : ToSet(k'.wait[x]) = ToSet(k.wait[x]) \ {h}
    BY <2>4, <2>5, <2>6
  <2>8. \A x \in Mutex : k.wait[x] = <<>> => k'.wait[x] = <<>>
    BY <2>1, <2>5
  <2>9. /\ pc' \in [Thread -> Points]
        /\ \A u \in Thread : InTake(pc'[u]) <=> InTake(pc[u])
        /\ \A u \in Thread : pc[u] \in {"sleep", "awake"} => pc'[u] \in {"sleep", "awake"}
    BY <1>1, <2>1 DEF Points, InTake
  <2>10. k'.stat[k'.cur] = "RUNNING"
    BY <2>1, <2>2, <2>4 DEF Keeps
  <2>11. k'.err[h] # "EOK" /\ \A u \in Thread \ {h} : k'.err[u] = k.err[u]
    BY <2>3, <2>4
  <2>12. Leaves
    BY <2>4, <2>5 DEF Leaves
  <2> HIDE DEF h
  <2>13. Inv'
    BY <1>2, <2>4, <2>6, <2>7, <2>8, <2>9, <2>10, <2>11, TurnedAway
  <2> QED BY <1>2, <2>12, <2>13
<1> QED BY <1>3, <1>4 DEF DeleteStep

\* The tick handler: a timer that fires turns its thread away.
LEMMA InterruptStep ==
  ASSUME Inv, TickInterrupt
  PROVE  Inv' /\ mutex' = mutex /\ live' = live /\ Leaves
<1>1. /\ WaitInv /\ OwnInv /\ pc \in [Thread -> Points] /\ KernelInv(k, {}) /\ {} \in SUBSET Thread
      /\ k.nest = 0 /\ k \in KernelState
  BY WaitFacts DEF Inv, WaitInv, CurrentGoesOn
<1>2. UNCHANGED <<mutex, live, want, holds>>
  BY DEF TickInterrupt
<1>3. \A m \in Mutex : mutex[m].owner \notin ToSet(k.wait[m])
  BY <1>1 DEF OwnInv, OwnersLend
<1>4. \A m \in live : mutex[m].owner = NoOwner => k.wait[m] = <<>>
  BY <1>1 DEF OwnInv, OwnerServed
<1>5. CASE Tick
  <2>1. k' = rt_tick_increase(k) /\ isr' = "check" /\ pc' = pc
    BY <1>5 DEF Tick
  <2>2. /\ KernelInv(k', {}) /\ Keeps(k', k) /\ k'.wait = k.wait /\ k'.err = k.err
        /\ k'.prio = k.prio /\ Asleep(k') = Asleep(k)
    BY <1>1, <2>1, TickInv, TickWaits
  <2>3. Asleep(k') = Asleep(k) \ {} /\ \A m \in Mutex : ToSet(k'.wait[m]) = ToSet(k.wait[m]) \ {}
    BY <2>2
  <2>4. WaitInv' /\ \A u \in Thread \ {} : Served(u)' <=> Served(u)
    BY <1>1, <1>2, <2>1, <2>2, <2>3, OthersWait
  <2>5. \A u \in Thread : (Served(u)' <=> Served(u)) /\ (Served(u) => want'[u] = want[u])
    BY <1>2, <2>4
  <2>6. OwnInv'
    BY <1>1, <1>2, <1>3, <1>4, <2>1, <2>2, <2>5, SameOwners
  <2> QED BY <1>2, <2>2, <2>4, <2>6 DEF Inv, Leaves
<1>6. CASE TimerFire
  <2> DEFINE h == Head(k.timers).thr
  <2>1. k' = _thread_timeout(k, h) /\ isr' = isr /\ pc' = pc /\ k.timers # <<>>
    BY <1>6 DEF TimerFire, TimerExpired
  <2>2. h \in Thread /\ k.stat[h] = "SUSPEND"
    <3>1. k.timers \in Seq(Timer) /\ 1 \in DOMAIN k.timers /\ Head(k.timers) = k.timers[1]
      BY <1>1, <2>1, TimerThreads, SeqViews, HeadTailProperties
    <3> QED BY <1>1, <3>1, TimerThreads DEF KernelInv, ListsConsistent, TimersOf
  <2> HIDE DEF h
  <2>3. h \in Thread \ {} /\ h \in Asleep(k)
    BY <2>2 DEF Asleep
  <2>4. KernelInv(k', {}) /\ Keeps(k', k) /\ k'.stat[k'.cur] = "RUNNING"
    BY <1>1, <2>1, <2>2, <2>3, TimeoutInv, TimeoutRuns
  <2>5. WokeOnly(k', k, h) /\ k'.err = [k.err EXCEPT ![h] = "ETIMEOUT"]
    BY <1>1, <2>1, <2>2, <2>3, TimeoutWaits
  <2>6. /\ \A m \in Mutex : k'.wait[m] = Unlink(k.wait[m], h)
        /\ k'.prio = k.prio /\ Asleep(k') = Asleep(k) \ {h}
    BY <2>5 DEF WokeOnly
  <2>7. \A m \in Mutex : ToSet(k'.wait[m]) = ToSet(k.wait[m]) \ {h}
    <3>1. \A m \in Mutex : k.wait[m] \in Seq(Thread) /\ IsInjective(k.wait[m])
      BY <1>1, WaitFacts
    <3> QED BY <2>6, <3>1, UnlinkProperties
  <2>8. \A m \in Mutex : k.wait[m] = <<>> => k'.wait[m] = <<>>
    BY <2>6 DEF Unlink
  <2>9. k'.err[h] # "EOK" /\ \A u \in Thread \ {h} : k'.err[u] = k.err[u]
    BY <1>1, <2>2, <2>5, WaitFacts
  <2>10. Inv'
    BY <1>1, <1>2, <2>1, <2>3, <2>4, <2>6, <2>7, <2>8, <2>9, TurnedAway
  <2> QED BY <1>2, <2>6, <2>10 DEF Leaves
<1>7. CASE TimerCheckEnd
  <2>1. k' = k /\ isr' = "none" /\ pc' = pc
    BY <1>7 DEF TimerCheckEnd
  <2>2. WaitInv' /\ \A u \in Thread : (Served(u)' <=> Served(u)) /\ (Served(u) => want'[u] = want[u])
    BY <1>1, <1>2, <2>1 DEF WaitInv, CurrentGoesOn, SleepersKnown, WaitersCalled, Served
  <2>3. OwnInv'
    BY <1>1, <1>2, <1>3, <1>4, <2>1, <2>2, SameOwners
  <2> QED BY <1>2, <2>1, <2>2, <2>3 DEF Inv, Leaves
<1> QED BY <1>5, <1>6, <1>7 DEF TickInterrupt, Interrupt

\* A step that changes nothing.
LEMMA StutterStep ==
  ASSUME Inv, UNCHANGED vars
  PROVE  Inv'
<1>1. /\ k' = k /\ pc' = pc /\ isr' = isr /\ mutex' = mutex /\ live' = live /\ want' = want
      /\ holds' = holds /\ WaitInv /\ OwnInv
  BY DEF vars, Inv
<1>2. WaitInv' /\ \A u \in Thread : Served(u)' <=> Served(u)
  BY <1>1 DEF WaitInv, CurrentGoesOn, SleepersKnown, WaitersCalled, Served
<1>3. OwnInv'
  BY <1>1, <1>2, NobodyWaits
<1> QED BY <1>2, <1>3 DEF Inv

\* Every step preserves the invariant.
LEMMA NextInv == Inv /\ [Next]_vars => Inv'
<1> SUFFICES ASSUME Inv, [Next]_vars PROVE Inv'
  OBVIOUS
<1>1. CASE UNCHANGED vars
  BY <1>1, StutterStep
<1>2. CASE TickInterrupt
  BY <1>2, InterruptStep
<1>3. ASSUME NEW t \in Thread, NEW m \in Mutex,
             \/ TakeAgain(t, m) \/ TakeFree(t, m) \/ TryFails(t, m) \/ ReleaseForeign(t, m)
             \/ DeleteBegin(t, m)
      PROVE  Inv'
  BY <1>3, TakeAgainStep, TakeFreeStep, FailsStep, DeleteBeginStep
<1>4. ASSUME NEW t \in Thread, NEW m \in Mutex, NEW n \in Timeouts, TakeBlocks(t, m, n)
      PROVE  Inv'
  BY <1>4, TakeBlocksStep
<1>5. ASSUME NEW t \in Thread, NEW m \in Mutex, Release(t, m)
      PROVE  Inv'
  BY <1>5, ReleaseInnerStep, ReleaseFreeStep, HandOverStep DEF Release
<1>6. ASSUME NEW t \in Thread, TakeReturn(t) \/ Schedule(t) \/ Sleep(t) \/ DeleteStep(t)
      PROVE  Inv'
  BY <1>6, TakeReturnStep, ScheduleStep, SleepStep, DeleteStepStep
<1>7. ASSUME NEW t \in Thread, WakeUp(t)
      PROVE  Inv'
  <2>1. want[t] \in Mutex
    BY DEF Inv, WaitInv
  <2> QED BY <1>7, <2>1, FailsStep
<1> QED BY <1>1, <1>2, <1>3, <1>4, <1>5, <1>6, <1>7 DEF Next, ThreadStep

\* The owner that a mutex names is the thread that was told it holds it, or the
\* waiter it was handed to, at every point where an interrupt can come into
\* rt_mutex_take, rt_mutex_release or rt_mutex_delete, in nested use as well.
THEOREM MutexCorrect == Spec => []MutexInv
<1>1. Init => Inv
  BY InitInv
<1>2. Inv /\ [Next]_vars => Inv'
  BY NextInv
<1>3. Inv => MutexInv
  BY InvImplies
<1> QED BY <1>1, <1>2, <1>3, PTL DEF Spec

-----------------------------------------------------------------------------
(* Priority inheritance, where no owner takes a second mutex *)

\* The waiters of a mutex are queued by priority.
WaitersInOrder == \A m \in live : InOrder(k.prio, k.wait[m])

\* A thread owns one mutex at most, and none while it waits.
OneMutex ==
  \A m, n \in live : mutex[m].owner # NoOwner /\ mutex[m].owner = mutex[n].owner => m = n

WaitersOwnNone == \A m, n \in live : mutex[n].owner \notin ToSet(k.wait[m])

\* The priority that an owner goes back to is its own.  (Who has deleted a mutex
\* while its priority was lent keeps that priority: it is left out.)
OwnPriority ==
  \A m \in live, o \in Thread :
    mutex[m].owner = o /\ (\A n \in Mutex \ {m} : mutex[n].owner # o) =>
      mutex[m].original_priority = BasePrio[o]

PrioInv ==
  /\ WaitersInOrder /\ OneMutex /\ WaitersOwnNone /\ OwnPriority
  /\ OwnerAsUrgent /\ PriorityRestored

\* A step after which everybody has the priority and the mutexes it had, and
\* nobody waits who did not.
LEMMA SamePriorities ==
  ASSUME Inv, PrioInv, k'.prio = k.prio, live' \subseteq live,
         \A x \in Mutex : /\ mutex'[x].owner = mutex[x].owner
                          /\ mutex'[x].original_priority = mutex[x].original_priority,
         \A x \in live : InOrder(k.prio, k'.wait[x]) /\ ToSet(k'.wait[x]) \subseteq ToSet(k.wait[x])
  PROVE  PrioInv'
<1>1. live \subseteq Mutex
  BY DEF Inv, OwnInv, OwnType
<1>2. WaitersInOrder'
  BY DEF WaitersInOrder
<1>3. OneMutex'
  BY <1>1 DEF PrioInv, OneMutex
<1>4. WaitersOwnNone'
  BY <1>1 DEF PrioInv, WaitersOwnNone
<1>5. OwnPriority'
  BY <1>1 DEF PrioInv, OwnPriority
<1>6. OwnerAsUrgent'
  BY <1>1 DEF PrioInv, OwnerAsUrgent
<1>7. PriorityRestored'
  BY DEF PrioInv, PriorityRestored
<1> QED BY <1>2, <1>3, <1>4, <1>5, <1>6, <1>7 DEF PrioInv

\* The lists stay as they are.
LEMMA SameQueues ==
  ASSUME Inv, PrioInv, k'.prio = k.prio, k'.wait = k.wait, live' \subseteq live,
         \A x \in Mutex : /\ mutex'[x].owner = mutex[x].owner
                          /\ mutex'[x].original_priority = mutex[x].original_priority
  PROVE  PrioInv'
BY SamePriorities DEF PrioInv, WaitersInOrder

\* Waiters leave their lists.
LEMMA LeavesPrio ==
  ASSUME Inv, PrioInv, Leaves, mutex' = mutex, live' = live
  PROVE  PrioInv'
<1>1. ASSUME NEW x \in live
      PROVE  InOrder(k.prio, k'.wait[x]) /\ ToSet(k'.wait[x]) \subseteq ToSet(k.wait[x])
  <2>1. x \in Mutex /\ InOrder(k.prio, k.wait[x])
    BY DEF Inv, OwnInv, OwnType, PrioInv, WaitersInOrder
  <2>2. k.wait[x] \in Seq(Thread) /\ IsInjective(k.wait[x])
    BY <2>1, WaitFacts DEF Inv
  <2>3. PICK u : k'.wait[x] = k.wait[x] \/ k'.wait[x] = Unlink(k.wait[x], u)
    BY <2>1 DEF Leaves
  <2>4. InOrder(k.prio, Unlink(k.wait[x], u))
    BY <2>1, <2>2, LeaveInOrder
  <2>5. ToSet(Unlink(k.wait[x], u)) = ToSet(k.wait[x]) \ {u}
    BY <2>2, UnlinkProperties
  <2> QED BY <2>1, <2>3, <2>4, <2>5
<1> QED BY <1>1, SamePriorities DEF Leaves

\* A thread that takes a mutex owns no other one that is live.
LEMMA OwnsNoOther ==
  ASSUME Inv, "nested" \notin Calls, NEW t \in Thread, NEW m \in Mutex, MayTake(t, m)
  PROVE  /\ t = k.cur /\ m \in live /\ live \subseteq Mutex
         /\ \A x \in Mutex : t \notin ToSet(k.wait[x])
         /\ \A x \in live \ {m} : mutex[x].owner # t
<1>1. /\ t = k.cur /\ m \in live /\ pc[t] = "run" /\ \A x \in Mutex \ {m} : holds[t][x] = 0
  BY DEF MayTake, Executes
<1>2. ~Served(t) /\ OwnInv /\ live \subseteq Mutex /\ \A x \in Mutex : t \notin ToSet(k.wait[x])
  BY <1>1, Caller DEF Inv, OwnInv, OwnType
<1>3. ASSUME NEW x \in live \ {m} PROVE mutex[x].owner # t
  <2>1. x \in Mutex \ {m} /\ holds[t][x] = 0
    BY <1>1, <1>2
  <2> QED BY <1>2, <2>1, OwnedAndTold
<1> QED BY <1>1, <1>2, <1>3

\* A thread that takes a free mutex has the priority it was created with, so
\* that is what it will get back.
LEMMA TakeFreePrio ==
  ASSUME Inv, PrioInv, "nested" \notin Calls, NEW t \in Thread, NEW m \in Mutex, TakeFree(t, m)
  PROVE  PrioInv'
<1>1. /\ k'.wait = k.wait /\ k'.prio = k.prio /\ mutex[m].owner = NoOwner
      /\ mutex'[m].owner = t /\ mutex'[m].original_priority = k.prio[t]
      /\ \A x \in Mutex \ {m} : mutex'[x] = mutex[x]
  BY TakeFreeStep
<1>2. /\ m \in live /\ live \subseteq Mutex
      /\ \A x \in Mutex : t \notin ToSet(k.wait[x])
      /\ \A x \in live \ {m} : mutex[x].owner # t
  BY OwnsNoOther DEF TakeFree
<1>3. live' = live /\ k.wait[m] = <<>> /\ t # NoOwner
  BY <1>1, <1>2, FreeMutex, MutexAssumption DEF TakeFree
<1>4. WaitersInOrder'
  BY <1>1, <1>3 DEF PrioInv, WaitersInOrder
<1>5. OneMutex'
  <2> SUFFICES ASSUME NEW x \in live, NEW y \in live, mutex'[x].owner # NoOwner,
                      mutex'[x].owner = mutex'[y].owner
               PROVE  x = y
    BY <1>3 DEF OneMutex
  <2>1. CASE x # m /\ y # m
    BY <1>1, <1>2, <2>1 DEF PrioInv, OneMutex
  <2>2. CASE x = m \/ y = m
    BY <1>1, <1>2, <2>2
  <2> QED BY <2>1, <2>2
<1>6. WaitersOwnNone'
  BY <1>1, <1>2, <1>3 DEF PrioInv, WaitersOwnNone
<1>7. OwnPriority'
  <2> SUFFICES ASSUME NEW x \in live, NEW o \in Thread, mutex'[x].owner = o,
                      \A n \in Mutex \ {x} : mutex'[n].owner # o
               PROVE  mutex'[x].original_priority = BasePrio[o]
    BY <1>3 DEF OwnPriority
  <2>1. CASE x = m
    <3>1. \A n \in Mutex : mutex[n].owner # t
      BY <1>1, <1>3, <2>1
    <3> QED BY <1>1, <2>1, <3>1 DEF PrioInv, PriorityRestored
  <2>2. CASE x # m
    <3>1. mutex'[x] = mutex[x] /\ x \in Mutex /\ o # NoOwner
      BY <1>1, <1>2, <2>2, MutexAssumption
    <3>2. \A n \in Mutex \ {x} : mutex[n].owner # o
      BY <1>1, <3>1
    <3> QED BY <3>1, <3>2 DEF PrioInv, OwnPriority
  <2> QED BY <2>1, <2>2
<1>8. OwnerAsUrgent'
  <2>1. ToSet(k.wait[m]) = {}
    BY <1>3 DEF ToSet
  <2> QED BY <1>1, <1>2, <1>3, <2>1 DEF PrioInv, OwnerAsUrgent
<1>9. PriorityRestored'
  <2>1. \A u \in Thread : (\A x \in Mutex : mutex'[x].owner # u) => \A x \in Mutex : mutex[x].owner # u
    BY <1>1, MutexAssumption
  <2> QED BY <1>1, <2>1 DEF PrioInv, PriorityRestored
<1> QED BY <1>4, <1>5, <1>6, <1>7, <1>8, <1>9 DEF PrioInv

\* Priorities other than o's are the same, and o waits for no live mutex: the
\* lists are still in order.
LEMMA OrderKept ==
  ASSUME NEW p \in [Thread -> Prio], NEW w \in Seq(Thread), InOrder(p, w),
         NEW o \in Thread, o \notin ToSet(w), NEW v \in Prio
  PROVE  InOrder([p EXCEPT ![o] = v], w)
<1>1. \A i \in DOMAIN w : w[i] \in Thread /\ w[i] # o
  BY SeqViews
<1> QED BY <1>1 DEF InOrder

\* A waiter lends its priority to the owner.
LEMMA TakeBlocksPrio ==
  ASSUME Inv, PrioInv, "nested" \notin Calls, NEW t \in Thread, NEW m \in Mutex,
         NEW n \in Timeouts, TakeBlocks(t, m, n)
  PROVE  PrioInv'
<1>1. PICK o \in Thread : mutex[m].owner = o
  BY TakeBlocksStep
<1>2. /\ k'.prio = [k.prio EXCEPT ![o] = IF k.prio[t] < k.prio[o] THEN k.prio[t] ELSE k.prio[o]]
      /\ \A x \in Mutex \ {m} : k'.wait[x] = k.wait[x]
      /\ ToSet(k'.wait[m]) = ToSet(k.wait[m]) \cup {t}
      /\ InOrder(k'.prio, k.wait[m]) => InOrder(k'.prio, k'.wait[m])
      /\ mutex' = mutex /\ live' = live
  BY <1>1, TakeBlocksStep DEF Blocked
<1>3. /\ m \in live /\ live \subseteq Mutex
      /\ \A x \in live \ {m} : mutex[x].owner # t
  BY OwnsNoOther DEF TakeBlocks
<1>4. o # t /\ o # NoOwner /\ t # NoOwner
  BY <1>1, MutexAssumption DEF TakeBlocks
<1>5. /\ k.prio \in [Thread -> Prio] /\ k.wait \in [Queue -> Seq(Thread)]
      /\ \A x \in Mutex : ToSet(k.wait[x]) \subseteq Thread
  BY WaitFacts DEF Inv
<1>6. \A u \in Thread : k.prio[u] \in Int
  BY <1>5, KernelAssumption DEF Prio
<1>7. /\ k'.prio[o] <= k.prio[o] /\ k'.prio[o] <= k.prio[t]
      /\ \A u \in Thread : u # o => k'.prio[u] = k.prio[u]
  BY <1>2, <1>5, <1>6
<1>8. \A x \in live : o \notin ToSet(k.wait[x])
  BY <1>1, <1>3 DEF PrioInv, WaitersOwnNone
<1>9. WaitersInOrder'
  <2>1. ASSUME NEW x \in live PROVE InOrder(k'.prio, k.wait[x])
    <3> DEFINE v == IF k.prio[t] < k.prio[o] THEN k.prio[t] ELSE k.prio[o]
    <3>1. v \in Prio /\ k'.prio = [k.prio EXCEPT ![o] = v]
      BY <1>2, <1>5
    <3>2. k.wait[x] \in Seq(Thread) /\ InOrder(k.prio, k.wait[x]) /\ o \notin ToSet(k.wait[x])
      BY <1>3, <1>5, <1>8 DEF PrioInv, WaitersInOrder
    <3> HIDE DEF v
    <3> QED BY <1>5, <3>1, <3>2, OrderKept
  <2> QED BY <1>2, <1>3, <2>1 DEF WaitersInOrder
<1>10. OneMutex' /\ OwnPriority'
  BY <1>2 DEF PrioInv, OneMutex, OwnPriority
<1>11. WaitersOwnNone'
  <2> SUFFICES ASSUME NEW x \in live, NEW y \in live
               PROVE  mutex[y].owner \notin ToSet(k'.wait[x])
    BY <1>2 DEF WaitersOwnNone
  <2>1. mutex[y].owner \notin ToSet(k.wait[x])
    BY DEF PrioInv, WaitersOwnNone
  <2>2. mutex[y].owner # t
    BY <1>1, <1>3, <1>4
  <2> QED BY <1>2, <1>3, <2>1, <2>2
<1>12. OwnerAsUrgent'
  <2> SUFFICES ASSUME NEW x \in live, NEW u \in ToSet(k'.wait[x])
               PROVE  k'.prio[mutex[x].owner] <= k'.prio[u]
    BY <1>2 DEF OwnerAsUrgent
  <2>1. x \in Mutex
    BY <1>3
  <2>2. CASE u = t /\ x = m
    BY <1>1, <1>4, <1>7, <2>2
  <2>3. CASE ~(u = t /\ x = m)
    <3>1. u \in ToSet(k.wait[x])
      BY <1>2, <2>1, <2>3
    <3>2. u \in Thread /\ u # o /\ k.prio[mutex[x].owner] <= k.prio[u]
      BY <1>5, <1>8, <2>1, <3>1 DEF PrioInv, OwnerAsUrgent
    <3>3. CASE x = m
      <4>1. k'.prio[o] \in Int
        BY <1>2, <1>6
      <4> QED BY <1>1, <1>6, <1>7, <3>2, <3>3, <4>1
    <3>4. CASE x # m
      <4>1. mutex[x].owner # o
        BY <1>1, <1>3, <1>4, <3>4 DEF PrioInv, OneMutex
      <4>2. mutex[x].owner \in Thread
        <5>1. k.wait[x] # <<>>
          BY <3>1 DEF ToSet
        <5> QED BY <2>1, <5>1 DEF Inv, OwnInv, OwnType, OwnerServed
      <4> QED BY <1>7, <3>2, <4>1, <4>2
    <3> QED BY <3>3, <3>4
  <2> QED BY <2>2, <2>3
<1>13. PriorityRestored'
  <2>1. \A u \in Thread : (\A x \in Mutex : mutex[x].owner # u) => u # o
    BY <1>1
  <2> QED BY <1>2, <1>7, <2>1 DEF PrioInv, PriorityRestored
<1> QED BY <1>9, <1>10, <1>11, <1>12, <1>13 DEF PrioInv

\* The first of a list in order is as urgent as the others.
LEMMA HeadMostUrgent ==
  ASSUME NEW p \in [Thread -> Prio], NEW w \in Seq(Thread), InOrder(p, w), w # <<>>,
         NEW u \in ToSet(w)
  PROVE  p[Head(w)] <= p[u]
<1>1. Len(w) \in Nat /\ Len(w) >= 1 /\ DOMAIN w = 1 .. Len(w) /\ Head(w) = w[1]
  BY SeqViews, HeadTailProperties, EmptySeq
<1>2. PICK i \in 1 .. Len(w) : w[i] = u
  BY SeqViews
<1>3. CASE i = 1
  <2>1. p[u] \in Int
    BY EmptyToSet, KernelAssumption DEF Prio
  <2> QED BY <1>1, <1>2, <1>3, <2>1
<1>4. CASE i # 1
  <2>1. 1 \in DOMAIN w /\ i \in DOMAIN w /\ 1 < i
    BY <1>1, <1>4
  <2> QED BY <1>1, <1>2, <2>1 DEF InOrder
<1> QED BY <1>3, <1>4

\* The last release: the owner has its own priority again, and a new owner is
\* as urgent as the waiters that are left without being lent anything.
LEMMA ReleaseLastPrio ==
  ASSUME Inv, PrioInv, NEW t \in Thread, NEW m \in Mutex, ReleaseLast(t, m)
  PROVE  PrioInv'
<1> DEFINE p == mutex[m].original_priority
           w == k.wait[m]
<1>1. /\ t = k.cur /\ pc[t] = "run" /\ m \in live /\ mutex[m].owner = t /\ p \in Prio /\ live' = live
  BY LastHeld
<1>2. Inv' /\ Passed(t, m)
  BY ReleaseFreeStep, HandOverStep
<1>3. /\ k'.prio = [k.prio EXCEPT ![t] = p]
      /\ \A x \in Mutex \ {m} : mutex'[x] = mutex[x] /\ k'.wait[x] = k.wait[x]
  BY <1>2 DEF Passed
<1>4. \/ w = <<>> /\ k'.wait[m] = <<>> /\ mutex'[m].owner = NoOwner
      \/ /\ w # <<>> /\ k'.wait[m] = Tail(w) /\ mutex'[m].owner = Head(w)
         /\ mutex'[m].original_priority = k.prio[Head(w)]
  BY <1>2 DEF Passed
<1>5. /\ k.prio \in [Thread -> Prio] /\ k.wait \in [Queue -> Seq(Thread)]
      /\ \A x \in Mutex : ToSet(k.wait[x]) \subseteq Thread /\ IsInjective(k.wait[x])
  BY WaitFacts DEF Inv
<1>6. /\ t # NoOwner /\ live \subseteq Mutex
      /\ \A x \in Mutex : t \notin ToSet(k.wait[x])
  BY <1>1, Caller DEF Inv, OwnInv, OwnType
<1>7. \A x \in live \ {m} : mutex[x].owner # t /\ mutex'[x].owner = mutex[x].owner
  BY <1>1, <1>3, <1>6 DEF PrioInv, OneMutex
<1>8. k'.prio[t] = p /\ \A u \in Thread : u # t => k'.prio[u] = k.prio[u]
  BY <1>3, <1>5
<1>9. \A x \in live : k.wait[x] \in Seq(Thread) /\ InOrder(k.prio, k.wait[x]) /\ InOrder(k'.prio, k.wait[x])
  <2>1. \A x \in live : k.wait[x] \in Seq(Thread) /\ InOrder(k.prio, k.wait[x]) /\ t \notin ToSet(k.wait[x])
    BY <1>5, <1>6 DEF PrioInv, WaitersInOrder
  <2> HIDE DEF p
  <2> QED BY <1>1, <1>3, <1>5, <2>1, OrderKept
<1>10. w \in Seq(Thread) /\ IsInjective(w) /\ InOrder(k.prio, w) /\ InOrder(k'.prio, w)
  BY <1>1, <1>5, <1>6, <1>9
<1> HIDE DEF p
<1>11. ASSUME NEW h, h = Head(w), w # <<>>
       PROVE  /\ h \in ToSet(w) /\ h \in Thread /\ h # t /\ h # NoOwner
              /\ \A x \in live : mutex[x].owner # h
              /\ \A x \in live : h \notin ToSet(k'.wait[x])
              /\ k'.wait[m] = Tail(w) /\ mutex'[m].owner = h
              /\ mutex'[m].original_priority = k.prio[h]
              /\ ToSet(k'.wait[m]) \subseteq ToSet(w)
              /\ \A u \in ToSet(w) : k.prio[h] <= k.prio[u]
  <2>1. h \in ToSet(w) /\ h \in Thread /\ h # t /\ h # NoOwner
    BY <1>5, <1>6, <1>10, <1>11, EmptyToSet, MutexAssumption
  <2>2. \A x \in live : mutex[x].owner # h
    BY <1>1, <2>1 DEF PrioInv, WaitersOwnNone
  <2>3. k'.wait[m] = Tail(w) /\ mutex'[m].owner = h /\ mutex'[m].original_priority = k.prio[h]
    BY <1>4, <1>11
  <2>4. ToSet(k'.wait[m]) = ToSet(w) \ {h}
    BY <1>10, <1>11, <2>3, TailProps
  <2>5. \A x \in live : x # m => h \notin ToSet(k.wait[x])
    BY <1>6, <2>1 DEF Inv, WaitInv, WaitersCalled
  <2>6. \A x \in live : h \notin ToSet(k'.wait[x])
    BY <1>3, <1>6, <2>4, <2>5
  <2>7. \A u \in ToSet(w) : k.prio[h] <= k.prio[u]
    BY <1>5, <1>10, <1>11, HeadMostUrgent
  <2> QED BY <2>1, <2>2, <2>3, <2>4, <2>6, <2>7
<1>12. ASSUME w = <<>> PROVE k'.wait[m] = <<>> /\ mutex'[m].owner = NoOwner /\ ToSet(k'.wait[m]) = {}
  BY <1>4, <1>12 DEF ToSet
<1>13. \A x \in live : ToSet(k'.wait[x]) \subseteq ToSet(k.wait[x])
  <2>1. ToSet(k'.wait[m]) \subseteq ToSet(k.wait[m])
    BY <1>11, <1>12
  <2> QED BY <1>3, <1>6, <2>1
<1>14. WaitersInOrder'
  <2>1. InOrder(k'.prio, k'.wait[m])
    <3>1. CASE w = <<>>
      BY <1>12, <3>1 DEF InOrder
    <3>2. CASE w # <<>>
      <4>1. k'.wait[m] = Unlink(w, Head(w))
        BY <1>10, <1>11, <3>2, UnlinkHead
      <4> QED BY <1>10, <4>1, LeaveInOrder
    <3> QED BY <3>1, <3>2
  <2> QED BY <1>1, <1>3, <1>6, <1>9, <2>1 DEF WaitersInOrder
<1>15. OneMutex'
  <2> SUFFICES ASSUME NEW x \in live, NEW y \in live, mutex'[x].owner # NoOwner,
                      mutex'[x].owner = mutex'[y].owner
               PROVE  x = y
    BY <1>1 DEF OneMutex
  <2>1. CASE x # m /\ y # m
    BY <1>7, <2>1 DEF PrioInv, OneMutex
  <2>2. CASE (x = m \/ y = m) /\ w = <<>>
    BY <1>7, <1>12, <2>2
  <2>3. CASE (x = m \/ y = m) /\ w # <<>>
    BY <1>7, <1>11, <2>3
  <2> QED BY <2>1, <2>2, <2>3
<1>16. WaitersOwnNone'
  <2> SUFFICES ASSUME NEW x \in live, NEW y \in live
               PROVE  mutex'[y].owner \notin ToSet(k'.wait[x])
    BY <1>1 DEF WaitersOwnNone
  <2>1. CASE y # m
    <3>1. mutex'[y].owner = mutex[y].owner
      BY <1>7, <2>1
    <3> QED BY <1>13, <3>1 DEF PrioInv, WaitersOwnNone
  <2>2. CASE y = m /\ w = <<>>
    <3>1. ToSet(k'.wait[x]) \subseteq Thread
      BY <1>5, <1>6, <1>13
    <3> QED BY <1>12, <2>2, <3>1, MutexAssumption
  <2>3. CASE y = m /\ w # <<>>
    BY <1>11, <2>3
  <2> QED BY <2>1, <2>2, <2>3
<1>17. OwnPriority'
  <2> SUFFICES ASSUME NEW x \in live, NEW o \in Thread, mutex'[x].owner = o,
                      \A n \in Mutex \ {x} : mutex'[n].owner # o
               PROVE  mutex'[x].original_priority = BasePrio[o]
    BY <1>1 DEF OwnPriority
  <2>1. CASE x # m
    <3>1. x \in Mutex \ {m} /\ mutex'[x] = mutex[x] /\ o # t
      BY <1>3, <1>6, <1>7, <2>1
    <3>2. \A n \in Mutex \ {x} : mutex[n].owner # o
      BY <1>1, <1>3, <3>1
    <3> QED BY <3>1, <3>2 DEF PrioInv, OwnPriority
  <2>2. CASE x = m
    <3>1. w # <<>>
      BY <1>12, <2>2, MutexAssumption
    <3>2. o = Head(w) /\ o # t /\ mutex'[m].original_priority = k.prio[o]
      BY <1>11, <2>2, <3>1
    <3>3. \A n \in Mutex : mutex[n].owner # o
      BY <1>1, <1>3, <2>2, <3>2
    <3> QED BY <2>2, <3>2, <3>3 DEF PrioInv, PriorityRestored
  <2> QED BY <2>1, <2>2
<1>18. OwnerAsUrgent'
  <2> SUFFICES ASSUME NEW x \in live, NEW u \in ToSet(k'.wait[x])
               PROVE  k'.prio[mutex'[x].owner] <= k'.prio[u]
    BY <1>1 DEF OwnerAsUrgent
  <2>1. u \in ToSet(k.wait[x]) /\ u \in Thread /\ u # t /\ x \in Mutex
    BY <1>5, <1>6, <1>13
  <2>2. CASE x # m
    <3>1. mutex'[x].owner = mutex[x].owner /\ mutex[x].owner # t
      BY <1>7, <2>2
    <3>2. mutex[x].owner \in Thread
      <4>1. k.wait[x] # <<>>
        BY <2>1 DEF ToSet
      <4> QED BY <2>1, <4>1 DEF Inv, OwnInv, OwnType, OwnerServed
    <3> QED BY <1>8, <2>1, <3>1, <3>2 DEF PrioInv, OwnerAsUrgent
  <2>3. CASE x = m
    <3>1. w # <<>>
      BY <1>12, <2>3
    <3> QED BY <1>8, <1>11, <2>1, <2>3, <3>1
  <2> QED BY <2>2, <2>3
<1>19. PriorityRestored'
  <2> SUFFICES ASSUME NEW u \in Thread, \A x \in Mutex : mutex'[x].owner # u
               PROVE  k'.prio[u] = BasePrio[u]
    BY DEF PriorityRestored
  <2>1. CASE u = t
    <3>1. \A x \in Mutex \ {m} : mutex[x].owner # t
      BY <1>3, <2>1
    <3>2. p = BasePrio[t]
      BY <1>1, <3>1 DEF PrioInv, OwnPriority, p
    <3> QED BY <1>8, <2>1, <3>2
  <2>2. CASE u # t
    <3>1. \A x \in Mutex : mutex[x].owner # u
      BY <1>1, <1>3, <2>2
    <3> QED BY <1>8, <2>2, <3>1 DEF PrioInv, PriorityRestored
  <2> QED BY <2>1, <2>2
<1> QED BY <1>14, <1>15, <1>16, <1>17, <1>18, <1>19 DEF PrioInv

\* Everybody starts with the priority it was created with, and nobody waits.
LEMMA InitPrio == Init => PrioInv
<1> SUFFICES ASSUME Init PROVE PrioInv
  OBVIOUS
<1>1. PICK tbl \in BootTables : k = rt_system_scheduler_start(tbl)
  BY DEF Init, ProcessorInit
<1>2. k.prio = BasePrio /\ \A q \in Queue : k.wait[q] = <<>>
  BY <1>1, BootInv
<1>3. \A m \in Mutex : ToSet(k.wait[m]) = {} /\ DOMAIN k.wait[m] = {}
  BY <1>2 DEF ToSet
<1>4. live = Mutex /\ \A m \in Mutex : mutex[m].owner = NoOwner
  BY DEF Init, Free
<1>5. WaitersInOrder
  BY <1>3, <1>4 DEF WaitersInOrder, InOrder
<1>6. OneMutex /\ WaitersOwnNone /\ OwnerAsUrgent
  BY <1>3, <1>4 DEF OneMutex, WaitersOwnNone, OwnerAsUrgent
<1>7. OwnPriority
  BY <1>4, MutexAssumption DEF OwnPriority
<1>8. PriorityRestored
  BY <1>2 DEF PriorityRestored
<1> QED BY <1>5, <1>6, <1>7, <1>8 DEF PrioInv

\* Every step preserves the rest of the invariant, too.
LEMMA NextPrio ==
  ASSUME "nested" \notin Calls
  PROVE  Inv /\ PrioInv /\ [Next]_vars => PrioInv'
<1> SUFFICES ASSUME Inv, PrioInv, [Next]_vars PROVE PrioInv'
  OBVIOUS
<1>1. CASE UNCHANGED vars
  BY <1>1, SameQueues DEF vars
<1>2. CASE TickInterrupt
  BY <1>2, InterruptStep, LeavesPrio
<1>3. ASSUME NEW t \in Thread, NEW m \in Mutex, TakeAgain(t, m)
      PROVE  PrioInv'
  BY <1>3, TakeAgainStep, SameQueues
<1>4. ASSUME NEW t \in Thread, NEW m \in Mutex, TakeFree(t, m)
      PROVE  PrioInv'
  BY <1>4, TakeFreePrio
<1>5. ASSUME NEW t \in Thread, NEW m \in Mutex,
             TryFails(t, m) \/ ReleaseForeign(t, m) \/ WakeUp(t)
      PROVE  PrioInv'
  BY <1>5, FailsStep, SameQueues
<1>6. ASSUME NEW t \in Thread, NEW m \in Mutex, NEW n \in Timeouts, TakeBlocks(t, m, n)
      PROVE  PrioInv'
  BY <1>6, TakeBlocksPrio
<1>7. ASSUME NEW t \in Thread, NEW m \in Mutex, Release(t, m)
      PROVE  PrioInv'
  <2>1. CASE ReleaseInner(t, m)
    BY <2>1, ReleaseInnerStep, SameQueues
  <2>2. CASE ReleaseLast(t, m)
    BY <2>2, ReleaseLastPrio
  <2> QED BY <1>7, <2>1, <2>2 DEF Release
<1>8. ASSUME NEW t \in Thread, NEW m \in Mutex, DeleteBegin(t, m)
      PROVE  PrioInv'
  BY <1>8, DeleteBeginStep, SameQueues
<1>9. ASSUME NEW t \in Thread, TakeReturn(t) \/ Schedule(t) \/ Sleep(t)
      PROVE  PrioInv'
  BY <1>9, TakeReturnStep, ScheduleStep, SleepStep, SameQueues
<1>10. ASSUME NEW t \in Thread, DeleteStep(t)
       PROVE  PrioInv'
  BY <1>10, DeleteStepStep, LeavesPrio
<1>11. ASSUME NEW t \in Thread, WakeUp(t)
       PROVE  PrioInv'
  <2>1. want[t] \in Mutex
    BY DEF Inv, WaitInv
  <2> QED BY <1>5, <1>11, <2>1
<1> QED BY <1>1, <1>2, <1>3, <1>4, <1>5, <1>6, <1>7, <1>8, <1>9, <1>10, <1>11 DEF Next, ThreadStep

\* Priority inheritance in rt_mutex_take and rt_mutex_release: where no owner
\* takes a second mutex, nobody waits for a thread that is less urgent, through
\* hand-overs, timeouts of waiters and deletions.
THEOREM MutexInherits ==
  ASSUME "nested" \notin Calls
  PROVE  Spec => []OwnerAsUrgent
<1>1. Init => Inv /\ PrioInv
  BY InitInv, InitPrio
<1>2. Inv /\ PrioInv /\ [Next]_vars => Inv' /\ PrioInv'
  BY NextInv, NextPrio
<1>3. PrioInv => OwnerAsUrgent
  BY DEF PrioInv
<1> QED BY <1>1, <1>2, <1>3, PTL DEF Spec

\* rt_mutex_release gives back what was lent: under the same condition a thread
\* that owns no mutex runs with the priority it was created with.
THEOREM MutexRestores ==
  ASSUME "nested" \notin Calls
  PROVE  Spec => []PriorityRestored
<1>1. Init => Inv /\ PrioInv
  BY InitInv, InitPrio
<1>2. Inv /\ PrioInv /\ [Next]_vars => Inv' /\ PrioInv'
  BY NextInv, NextPrio
<1>3. PrioInv => PriorityRestored
  BY DEF PrioInv
<1> QED BY <1>1, <1>2, <1>3, PTL DEF Spec
=============================================================================
