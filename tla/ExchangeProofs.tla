-------------------------- MODULE ExchangeProofs --------------------------
(***************************************************************************)
(* The mailbox and the message queue keep their promises for any number of *)
(* threads, messages, slots and blocks, any priorities and timeouts.       *)
(*                                                                         *)
(* The first part is about the loop both have in common: no wake-up is     *)
(* lost and a thread that is woken in vain keeps its deadline, whatever is *)
(* there to be fetched, provided each step changes its amount as it wakes. *)
(* The second part is the mailbox: its ring is a bounded queue.            *)
(* The third part is the message queue: its blocks are two chains and      *)
(* those that threads copy, the chain of messages is a bounded queue, and  *)
(* a block that is copied is left alone.                                   *)
(***************************************************************************)
EXTENDS Mailbox, MessageQueue, KernelLemmas

-----------------------------------------------------------------------------
(* The threads *)

\* The points of both services.
Points == {"run", "send", "send_woken", "fill", "link", "fill_urgent", "link_urgent",
           "recv", "recv_woken", "drain", "sched", "reset", "delete", "resume",
           "delete_senders", "resume_senders"}

\* The call that a thread at some point of its code is in.
Side(at) ==
  IF at \in {"recv", "recv_woken"} THEN "recv"
  ELSE IF at \in {"send", "send_woken"} THEN "send" ELSE "none"

\* The scheduler is never locked here, and the current thread can run, or has
\* just put itself to sleep and is about to call rt_schedule().
CurrentGoesOn ==
  /\ k.nest = 0
  /\ \/ k.stat[k.cur] = "RUNNING"
     \/ k.stat[k.cur] = "SUSPEND" /\ pc[k.cur] \in {"send", "recv"}

\* Exactly the waiters are suspended, each on its side and with no error so far.
WaitersAsleep ==
  /\ Asleep(k) = ToSet(k.wait[Receivers]) \cup ToSet(k.wait[Senders])
  /\ \A t \in ToSet(k.wait[Receivers]) : Side(pc[t]) = "recv" /\ k.err[t] = "EOK"
  /\ \A t \in ToSet(k.wait[Senders]) : Side(pc[t]) = "send" /\ k.err[t] = "EOK"

ThreadsInv ==
  /\ KernelInv(k, {})
  /\ pc \in [Thread -> Points]
  /\ CurrentGoesOn
  /\ WaitersAsleep

CallType == [msg : Message \cup {Nothing}, timeout : Nat \cup {Forever}, since : Nat]

\* A call's own clock and the caller's deadline agree.
CallTimes ==
  \A t \in Thread :
    Side(pc[t]) # "none" /\ call[t].timeout > 0 =>
      call[t].since <= call[t].timeout /\ due[t] = call[t].timeout - call[t].since

TimesInv ==
  /\ call \in [Thread -> CallType]
  /\ due \in [Thread -> Nat]
  /\ CallTimes
  /\ DeadlineKept

\* Receivers and senders that have been woken and have not looked again.
WokenReceivers == Woken({"recv", "recv_woken"})

WokenSenders == Woken({"send", "send_woken"})

\* The kernel's state, unfolded.
LEMMA ThreadFacts ==
  ASSUME ThreadsInv
  PROVE  /\ k \in KernelState /\ k.cur \in Thread /\ k.nest = 0 /\ KernelInv(k, {})
         /\ k.wait \in [Queue -> Seq(Thread)] /\ k.err \in [Thread -> Error]
         /\ Asleep(k) \subseteq Thread /\ {} \in SUBSET Thread
         /\ Receivers \in Queue /\ Senders \in Queue /\ Receivers # Senders
         /\ ToSet(k.wait[Receivers]) \cap ToSet(k.wait[Senders]) = {}
<1>1. k \in KernelState /\ Receivers \in Queue /\ Senders \in Queue /\ Receivers # Senders
  BY ExchangeAssumption DEF ThreadsInv, KernelInv
<1>2. k.cur \in Thread /\ k.wait \in [Queue -> Seq(Thread)] /\ k.err \in [Thread -> Error]
  BY <1>1 DEF KernelState
<1>3. Asleep(k) \subseteq Thread
  BY DEF Asleep
<1>4. ToSet(k.wait[Receivers]) \subseteq Thread /\ ToSet(k.wait[Senders]) \subseteq Thread
  BY <1>3 DEF ThreadsInv, WaitersAsleep
<1>5. ToSet(k.wait[Receivers]) \cap ToSet(k.wait[Senders]) = {}
  BY <1>1, <1>4 DEF ThreadsInv, KernelInv, ListsConsistent, WaitersOf
<1> QED BY <1>1, <1>2, <1>3, <1>5 DEF ThreadsInv, CurrentGoesOn

\* A thread that is not about to call rt_schedule() after going to sleep runs.
LEMMA Running ==
  ASSUME ThreadsInv, NEW t \in Thread, t = k.cur, pc[t] \notin {"send", "recv"}
  PROVE  k.stat[t] = "RUNNING" /\ t \notin Asleep(k)
BY DEF ThreadsInv, CurrentGoesOn, Asleep

\* The waiters H, and they only, leave the lists and sleep no more.
Wakes(r, H) ==
  /\ KernelInv(r, {}) /\ Keeps(r, k)
  /\ Asleep(r) = Asleep(k) \ H
  /\ ToSet(r.wait[Receivers]) = ToSet(k.wait[Receivers]) \ H
  /\ ToSet(r.wait[Senders]) = ToSet(k.wait[Senders]) \ H

\* The same, and no timer is started or touched.
Released(r, H) ==
  /\ Wakes(r, H)
  /\ \A i \in DOMAIN r.timers : \E j \in DOMAIN k.timers : r.timers[i] = k.timers[j]

\* The threads L, which run, leave the calls they are in, and everybody else
\* stays where it is.
Leaves(L) ==
  /\ pc' \in [Thread -> Points]
  /\ \A u \in Thread : Side(pc'[u]) = IF u \in L THEN "none" ELSE Side(pc[u])

\* A step that wakes H and in which L leave.
LEMMA Moves ==
  ASSUME ThreadsInv, NEW H \in SUBSET Asleep(k), NEW L \in SUBSET (Thread \ Asleep(k)),
         Wakes(k', H), Leaves(L),
         \A u \in Thread \ (H \cup L) : k'.err[u] = k.err[u],
         k'.stat[k'.cur] = "RUNNING" \/ pc' = pc
  PROVE  /\ ThreadsInv'
         /\ WokenReceivers' = (WokenReceivers \ L)
                                \cup {u \in H \cap ToSet(k.wait[Receivers]) : k'.err[u] = "EOK"}
         /\ WokenSenders' = (WokenSenders \ L)
                              \cup {u \in H \cap ToSet(k.wait[Senders]) : k'.err[u] = "EOK"}
<1>0. /\ Asleep(k) \subseteq Thread /\ k.cur \in Thread
      /\ Asleep(k) = ToSet(k.wait[Receivers]) \cup ToSet(k.wait[Senders])
      /\ \A t \in ToSet(k.wait[Receivers]) : Side(pc[t]) = "recv" /\ k.err[t] = "EOK"
      /\ \A t \in ToSet(k.wait[Senders]) : Side(pc[t]) = "send" /\ k.err[t] = "EOK"
  BY ThreadFacts DEF ThreadsInv, WaitersAsleep
<1>1. WaitersAsleep'
  <2>1. Asleep(k') = ToSet(k'.wait[Receivers]) \cup ToSet(k'.wait[Senders])
    BY <1>0 DEF Wakes
  <2>2. \A t \in ToSet(k'.wait[Receivers]) : Side(pc'[t]) = "recv" /\ k'.err[t] = "EOK"
    BY <1>0 DEF Wakes, Leaves
  <2>3. \A t \in ToSet(k'.wait[Senders]) : Side(pc'[t]) = "send" /\ k'.err[t] = "EOK"
    BY <1>0 DEF Wakes, Leaves
  <2> QED BY <2>1, <2>2, <2>3 DEF WaitersAsleep
<1>2. CurrentGoesOn'
  <2>1. CASE k'.stat[k'.cur] = "RUNNING"
    BY <2>1 DEF ThreadsInv, CurrentGoesOn, Wakes, Keeps
  <2>2. CASE k'.stat[k'.cur] # "RUNNING"
    <3>1. k'.cur = k.cur /\ k.stat[k.cur] # "RUNNING" /\ pc' = pc /\ k'.nest = k.nest
      BY <2>2 DEF Wakes, Keeps
    <3>2. k.stat[k.cur] = "SUSPEND" /\ pc[k.cur] \in {"send", "recv"} /\ k.nest = 0
      BY <3>1 DEF ThreadsInv, CurrentGoesOn
    <3>3. k'.stat[k.cur] \in {"RUNNING", "SUSPEND", "CLOSE"}
      BY <3>1 DEF Wakes, KernelInv, CurrentOf
    <3>4. k'.stat[k.cur] # "CLOSE"
      BY <1>0, <3>2 DEF Wakes, Keeps
    <3> QED BY <2>2, <3>1, <3>2, <3>3, <3>4 DEF CurrentGoesOn
  <2> QED BY <2>1, <2>2
<1>3. ThreadsInv'
  BY <1>1, <1>2 DEF ThreadsInv, Wakes, Leaves
<1>4. \A u \in Thread : /\ u \in WokenReceivers <=> Side(pc[u]) = "recv" /\ u \notin Asleep(k) /\ k.err[u] = "EOK"
                        /\ u \in WokenSenders <=> Side(pc[u]) = "send" /\ u \notin Asleep(k) /\ k.err[u] = "EOK"
  BY DEF WokenReceivers, WokenSenders, Woken, Side, Asleep
<1>5. \A u \in Thread : /\ u \in WokenReceivers' <=> Side(pc'[u]) = "recv" /\ u \notin Asleep(k') /\ k'.err[u] = "EOK"
                        /\ u \in WokenSenders' <=> Side(pc'[u]) = "send" /\ u \notin Asleep(k') /\ k'.err[u] = "EOK"
  BY DEF WokenReceivers, WokenSenders, Woken, Side, Asleep
<1>6. /\ WokenReceivers \subseteq Thread /\ WokenReceivers' \subseteq Thread
      /\ WokenSenders \subseteq Thread /\ WokenSenders' \subseteq Thread
  BY DEF WokenReceivers, WokenSenders, Woken
<1>7. WokenReceivers' = (WokenReceivers \ L)
                          \cup {u \in H \cap ToSet(k.wait[Receivers]) : k'.err[u] = "EOK"}
  BY <1>0, <1>4, <1>5, <1>6 DEF Wakes, Leaves
<1>8. WokenSenders' = (WokenSenders \ L)
                        \cup {u \in H \cap ToSet(k.wait[Senders]) : k'.err[u] = "EOK"}
  BY <1>0, <1>4, <1>5, <1>6 DEF Wakes, Leaves
<1> QED BY <1>3, <1>7, <1>8

\* In such a step the clocks of those who stay do not change.
LEMMA TimesKept ==
  ASSUME ThreadsInv, TimesInv, NEW H, NEW L \in SUBSET (Thread \ Asleep(k)),
         Released(k', H), Leaves(L),
         call' \in [Thread -> CallType],
         due' \in [Thread -> Nat],
         \A u \in Thread \ L : call'[u] = call[u] /\ due'[u] = due[u]
  PROVE  TimesInv'
<1>1. CallTimes'
  BY DEF TimesInv, CallTimes, Leaves
<1>2. DeadlineKept'
  <2> SUFFICES ASSUME NEW i \in DOMAIN k'.timers
               PROVE  k'.timers[i].left = due'[k'.timers[i].thr]
    BY DEF DeadlineKept
  <2>1. PICK j \in DOMAIN k.timers : k'.timers[i] = k.timers[j]
    BY DEF Released, Wakes
  <2>2. k.timers[j].left = due[k.timers[j].thr]
    BY DEF TimesInv, DeadlineKept
  <2>3. k.timers[j].thr \in Thread /\ k.timers[j].thr \in Asleep(k)
    BY ThreadFacts, TimerThreads DEF KernelInv, ListsConsistent, TimersOf, Asleep
  <2> QED BY <2>1, <2>2, <2>3
<1> QED BY <1>1, <1>2 DEF TimesInv

\* Numbers of threads compare as the sets do, with one thread more or less.
LEMMA Enough ==
  ASSUME NEW A \in SUBSET Thread, NEW B \in SUBSET Thread, NEW t \in Thread
  PROVE  /\ Cardinality(A) \in Nat /\ Cardinality(B) \in Nat
         /\ A \subseteq B => Cardinality(A) <= Cardinality(B)
         /\ A \ {t} \subseteq B => Cardinality(A) - 1 <= Cardinality(B)
         /\ t \notin A /\ A \cup {t} \subseteq B => Cardinality(A) + 1 <= Cardinality(B)
<1>1. IsFiniteSet(A) /\ IsFiniteSet(B)
  BY FS_Subset, KernelAssumption
<1>2. Cardinality(A) \in Nat /\ Cardinality(B) \in Nat
  BY <1>1, FS_CardinalityType
<1>3. A \subseteq B => Cardinality(A) <= Cardinality(B)
  BY <1>1, FS_Subset
<1>4. ASSUME A \ {t} \subseteq B PROVE Cardinality(A) - 1 <= Cardinality(B)
  <2>1. IsFiniteSet(A \ {t}) /\ Cardinality(A \ {t}) <= Cardinality(B)
    BY <1>1, <1>4, FS_Subset
  <2>2. Cardinality(A \ {t}) = IF t \in A THEN Cardinality(A) - 1 ELSE Cardinality(A)
    BY <1>1, FS_RemoveElement
  <2> QED BY <1>2, <2>1, <2>2
<1>5. ASSUME t \notin A, A \cup {t} \subseteq B PROVE Cardinality(A) + 1 <= Cardinality(B)
  <2>1. Cardinality(A \cup {t}) = Cardinality(A) + 1
    BY <1>1, <1>5, FS_AddElement
  <2>2. Cardinality(A \cup {t}) <= Cardinality(B)
    BY <1>1, <1>5, FS_Subset
  <2> QED BY <2>1, <2>2
<1> QED BY <1>2, <1>3, <1>4, <1>5

\* The thread that a call wakes, if one waits.
First(q) == IF k.wait[q] = <<>> THEN {} ELSE {Head(k.wait[q])}

LEMMA WakeEffect ==
  ASSUME ThreadsInv, NEW q \in {Receivers, Senders}
  PROVE  /\ First(q) \in SUBSET Asleep(k) /\ First(q) \subseteq ToSet(k.wait[q])
         /\ Released(Wake(q), First(q))
         /\ Wake(q).err = k.err
<1>0. /\ KernelInv(k, {}) /\ {} \in SUBSET Thread /\ q \in Queue
      /\ Receivers \in Queue /\ Senders \in Queue /\ Receivers # Senders
      /\ k.wait \in [Queue -> Seq(Thread)]
      /\ ToSet(k.wait[Receivers]) \cap ToSet(k.wait[Senders]) = {}
      /\ Asleep(k) = ToSet(k.wait[Receivers]) \cup ToSet(k.wait[Senders])
  BY ThreadFacts DEF ThreadsInv, WaitersAsleep
<1>1. CASE k.wait[q] = <<>>
  <2>1. First(q) = {} /\ Wake(q) = k
    BY <1>1 DEF First, Wake
  <2>2. Keeps(k, k)
    BY DEF Keeps
  <2> QED BY <1>0, <2>1, <2>2 DEF Released, Wakes
<1>2. CASE k.wait[q] # <<>>
  <2> DEFINE h == Head(k.wait[q])
             r == _ipc_list_resume(k, q)
  <2>1. First(q) = {h} /\ Wake(q) = r
    BY <1>2 DEF First, Wake
  <2>2. /\ h \in ToSet(k.wait[q])
        /\ KernelInv(r, {}) /\ Keeps(r, k) /\ r.err = k.err
        /\ r.wait = [k.wait EXCEPT ![q] = Tail(@)]
        /\ ToSet(r.wait[q]) = ToSet(k.wait[q]) \ {h}
        /\ Asleep(r) = Asleep(k) \ {h} /\ TimersBut(r, k, h)
    <3>0. KernelInv(k, {}) /\ {} \in SUBSET Thread /\ q \in Queue /\ k.wait[q] # <<>>
      BY <1>0, <1>2
    <3> QED BY <3>0, ListResume
  <2> HIDE DEF h, r
  <2>3. \A x \in Queue \ {q} : r.wait[x] = k.wait[x]
    BY <1>0, <2>2
  <2>4. /\ ToSet(r.wait[Receivers]) = ToSet(k.wait[Receivers]) \ {h}
        /\ ToSet(r.wait[Senders]) = ToSet(k.wait[Senders]) \ {h}
    <3>1. CASE q = Receivers
      BY <1>0, <2>2, <2>3, <3>1
    <3>2. CASE q = Senders
      BY <1>0, <2>2, <2>3, <3>2
    <3> QED BY <3>1, <3>2
  <2>5. Released(r, {h})
    BY <2>2, <2>4 DEF Released, Wakes, TimersBut
  <2> QED BY <1>0, <2>1, <2>2, <2>5
<1> QED BY <1>1, <1>2

\* rt_schedule() afterwards changes nothing of that.
LEMMA ScheduledEffect ==
  ASSUME ThreadsInv, NEW r, NEW H, Released(r, H)
  PROVE  /\ Released(rt_schedule(r), H) /\ rt_schedule(r).err = r.err
         /\ rt_schedule(r).stat[rt_schedule(r).cur] = "RUNNING"
<1> DEFINE s == rt_schedule(r)
<1>1. KernelInv(r, {}) /\ Keeps(r, k) /\ {} \in SUBSET Thread /\ k.nest = 0
  BY ThreadFacts DEF Released, Wakes
<1>2. r.nest = 0
  BY <1>1 DEF Keeps
<1>3. /\ KernelInv(s, {}) /\ Keeps(s, r) /\ SameWaits(s, r) /\ s.stat[s.cur] = "RUNNING"
  BY <1>1, <1>2, ScheduleInv, ScheduleWaits, ScheduleRuns
<1> HIDE DEF s
<1>4. Keeps(s, k)
  BY <1>1, <1>3, KeepsTrans DEF KernelInv
<1>5. Released(s, H)
  BY <1>3, <1>4 DEF Released, Wakes, SameWaits
<1> QED BY <1>3, <1>5 DEF SameWaits, s

LEMMA NobodyWaits ==
  ASSUME NEW s \in Seq(Thread)
  PROVE  ToSet(s) = {} <=> s = <<>>
<1>1. CASE s = <<>>
  BY <1>1 DEF ToSet
<1>2. CASE s # <<>>
  <2>1. Len(s) \in Nat /\ Len(s) # 0
    BY <1>2, EmptySeq
  <2>2. 1 \in 1 .. Len(s)
    BY <2>1
  <2>3. s[1] \in ToSet(s)
    BY <2>2, SeqViews
  <2> QED BY <1>2, <2>3
<1> QED BY <1>1, <1>2

\* What is there: e messages for the receivers and room for r more.  While
\* somebody waits, it is no more than those who are on their way will fetch.
Served(e, r) ==
  object = "live" =>
    /\ k.wait[Receivers] # <<>> => e <= Cardinality(WokenReceivers)
    /\ k.wait[Senders] # <<>> => r <= Cardinality(WokenSenders)

ExchangeInv(e, r) == ThreadsInv /\ TimesInv /\ Served(e, r)

\* What there was, n, is no more than the threads A fetch; what there is, n2, no
\* more than the threads B.
LEMMA Balance ==
  ASSUME NEW n \in Nat, NEW n2 \in Nat, NEW A \in SUBSET Thread, NEW B \in SUBSET Thread,
         n <= Cardinality(A),
         \/ n2 = 0
         \/ n2 <= n /\ A \subseteq B
         \/ n2 < n /\ \E t \in Thread : A \ {t} \subseteq B
         \/ n2 <= n + 1 /\ \E t \in Thread \ A : A \cup {t} \subseteq B
  PROVE  n2 <= Cardinality(B)
<1>0. Idle \in Thread
  BY KernelAssumption
<1>1. Cardinality(A) \in Nat /\ Cardinality(B) \in Nat
  BY <1>0, Enough
<1>2. CASE n2 = 0
  BY <1>1, <1>2
<1>3. CASE n2 <= n /\ A \subseteq B
  <2>1. Cardinality(A) <= Cardinality(B)
    BY <1>0, <1>3, Enough
  <2> QED BY <1>1, <1>3, <2>1
<1>4. ASSUME n2 < n, NEW t \in Thread, A \ {t} \subseteq B PROVE n2 <= Cardinality(B)
  <2>1. Cardinality(A) - 1 <= Cardinality(B)
    BY <1>4, Enough
  <2> QED BY <1>1, <1>4, <2>1
<1>5. ASSUME n2 <= n + 1, NEW t \in Thread \ A, A \cup {t} \subseteq B PROVE n2 <= Cardinality(B)
  <2>1. Cardinality(A) + 1 <= Cardinality(B)
    BY <1>5, Enough
  <2> QED BY <1>1, <1>5, <2>1
<1> QED BY <1>2, <1>3, <1>4, <1>5

\* How a step may change what is there for the threads W, which list q woke: it
\* takes one thing and one of them leaves, it brings one and wakes the first
\* waiter, or it does neither.
Answers(n, n2, q, W, H, L) ==
  \/ n2 = 0
  \/ n2 <= n /\ L \cap W = {}
  \/ n2 < n /\ \E t \in Thread : L \subseteq {t}
  \/ n2 <= n + 1 /\ L \cap W = {} /\ H = First(q) /\ k'.err = k.err

LEMMA SideKeeps ==
  ASSUME ThreadsInv, NEW q \in {Receivers, Senders}, NEW n \in Nat, NEW n2 \in Nat,
         NEW W \in SUBSET Thread, NEW V \in SUBSET Thread, NEW H \in SUBSET Asleep(k), NEW L,
         W \cap Asleep(k) = {}, Released(k', H),
         V = (W \ L) \cup {u \in H \cap ToSet(k.wait[q]) : k'.err[u] = "EOK"},
         Answers(n, n2, q, W, H, L),
         k.wait[q] # <<>> => n <= Cardinality(W),
         k'.wait[q] # <<>>
  PROVE  n2 <= Cardinality(V)
<1>1. k.wait[q] \in Seq(Thread) /\ k'.wait[q] \in Seq(Thread)
  <2>1. q \in Queue
    BY ExchangeAssumption
  <2>2. k.wait \in [Queue -> Seq(Thread)]
    BY DEF ThreadsInv, KernelInv, KernelState
  <2>3. k'.wait \in [Queue -> Seq(Thread)]
    BY DEF Released, Wakes, KernelInv, KernelState
  <2> QED BY <2>1, <2>2, <2>3
<1>2. k.wait[q] # <<>> /\ n <= Cardinality(W)
  <2>1. ToSet(k'.wait[q]) \subseteq ToSet(k.wait[q])
    BY DEF Released, Wakes
  <2> QED BY <1>1, <2>1, NobodyWaits
<1>3. CASE n2 <= n + 1 /\ L \cap W = {} /\ H = First(q) /\ k'.err = k.err
  <2> DEFINE h == Head(k.wait[q])
  <2>1. H = {h} /\ H \subseteq ToSet(k.wait[q])
    BY <1>2, <1>3, WakeEffect DEF First
  <2> HIDE DEF h
  <2>2. k.err[h] = "EOK" /\ h \in Thread
    <3>1. ToSet(k.wait[q]) \subseteq Thread
      BY <1>1, SeqViews DEF ToSet
    <3> QED BY <2>1, <3>1 DEF ThreadsInv, WaitersAsleep
  <2>3. h \notin W /\ W \cup {h} \subseteq V
    BY <1>3, <2>1, <2>2
  <2> QED BY <1>2, <1>3, <2>2, <2>3, Balance
<1>4. CASE n2 <= n /\ L \cap W = {}
  <2>1. W \subseteq V
    BY <1>4
  <2> QED BY <1>2, <1>4, <2>1, Balance
<1>5. ASSUME n2 < n, NEW t \in Thread, L \subseteq {t} PROVE n2 <= Cardinality(V)
  <2>1. W \ {t} \subseteq V
    BY <1>5
  <2> QED BY <1>2, <1>5, <2>1, Balance
<1>6. CASE n2 = 0
  BY <1>2, <1>6, Balance
<1> QED BY <1>3, <1>4, <1>5, <1>6 DEF Answers

\* A step that wakes H and in which L leave, when what it changes answers to
\* that.
LEMMA StepKeeps ==
  ASSUME NEW e \in Nat, NEW r \in Nat, NEW e2 \in Nat, NEW r2 \in Nat,
         ExchangeInv(e, r), object' = "live" => object = "live",
         NEW H \in SUBSET Asleep(k), NEW L \in SUBSET (Thread \ Asleep(k)),
         Released(k', H), Leaves(L),
         \A u \in Thread \ (H \cup L) : k'.err[u] = k.err[u],
         k'.stat[k'.cur] = "RUNNING" \/ pc' = pc,
         Answers(e, e2, Receivers, WokenReceivers, H, L),
         Answers(r, r2, Senders, WokenSenders, H, L),
         call' \in [Thread -> CallType],
         due' \in [Thread -> Nat],
         \A u \in Thread \ L : call'[u] = call[u] /\ due'[u] = due[u]
  PROVE  ExchangeInv(e2, r2)'
<1>0. ThreadsInv /\ TimesInv /\ Served(e, r)
  BY DEF ExchangeInv
<1>1. /\ ThreadsInv'
      /\ WokenReceivers' = (WokenReceivers \ L)
                             \cup {u \in H \cap ToSet(k.wait[Receivers]) : k'.err[u] = "EOK"}
      /\ WokenSenders' = (WokenSenders \ L)
                           \cup {u \in H \cap ToSet(k.wait[Senders]) : k'.err[u] = "EOK"}
  <2>1. Wakes(k', H)
    BY DEF Released
  <2> QED BY <1>0, <2>1, Moves
<1>2. TimesInv'
  BY <1>0, TimesKept
<1>3. /\ WokenReceivers \in SUBSET Thread /\ WokenReceivers' \in SUBSET Thread
      /\ WokenSenders \in SUBSET Thread /\ WokenSenders' \in SUBSET Thread
      /\ WokenReceivers \cap Asleep(k) = {} /\ WokenSenders \cap Asleep(k) = {}
  BY DEF WokenReceivers, WokenSenders, Woken, Asleep
<1>4. Served(e2, r2)'
  <2> SUFFICES ASSUME object' = "live"
               PROVE  /\ k'.wait[Receivers] # <<>> => e2 <= Cardinality(WokenReceivers')
                      /\ k'.wait[Senders] # <<>> => r2 <= Cardinality(WokenSenders')
    BY DEF Served
  <2>1. /\ k.wait[Receivers] # <<>> => e <= Cardinality(WokenReceivers)
        /\ k.wait[Senders] # <<>> => r <= Cardinality(WokenSenders)
    BY <1>0 DEF Served
  <2>2. PICK W, V, X, Y : W = WokenReceivers /\ V = WokenReceivers' /\ X = WokenSenders /\ Y = WokenSenders'
    OBVIOUS
  <2>3. ASSUME k'.wait[Receivers] # <<>> PROVE e2 <= Cardinality(V)
    BY <1>0, <1>1, <1>3, <2>1, <2>2, <2>3, SideKeeps
  <2>4. ASSUME k'.wait[Senders] # <<>> PROVE r2 <= Cardinality(Y)
    BY <1>0, <1>1, <1>3, <2>1, <2>2, <2>4, SideKeeps
  <2> QED BY <2>2, <2>3, <2>4
<1> QED BY <1>1, <1>2, <1>4 DEF ExchangeInv

\* The same when nothing is brought or taken, and those who leave leave nothing.
LEMMA TurnAwayKeeps ==
  ASSUME NEW e \in Nat, NEW r \in Nat,
         ExchangeInv(e, r), object' = "live" => object = "live",
         NEW H \in SUBSET Asleep(k), NEW L \in SUBSET (Thread \ Asleep(k)),
         Released(k', H), Leaves(L),
         \A u \in Thread \ (H \cup L) : k'.err[u] = k.err[u],
         k'.stat[k'.cur] = "RUNNING" \/ pc' = pc,
         e = 0 \/ L \cap WokenReceivers = {},
         r = 0 \/ L \cap WokenSenders = {},
         call' \in [Thread -> CallType],
         due' \in [Thread -> Nat],
         \A u \in Thread \ L : call'[u] = call[u] /\ due'[u] = due[u]
  PROVE  ExchangeInv(e, r)'
<1>1. Answers(e, e, Receivers, WokenReceivers, H, L) /\ Answers(r, r, Senders, WokenSenders, H, L)
  BY DEF Answers
<1> QED BY <1>1, StepKeeps

\* A thread goes to sleep where there is nothing to take: on the receivers' list
\* of an empty object or the senders' list of a full one.
LEMMA BlockKeeps ==
  ASSUME NEW e \in Nat, NEW r \in Nat, ExchangeInv(e, r), object' = object,
         NEW t \in Thread, t = k.cur, pc[t] \notin {"send", "recv"},
         NEW q, NEW at,
         \/ q = Receivers /\ at = "recv" /\ e = 0 /\ Side(pc[t]) # "send"
         \/ q = Senders /\ at = "send" /\ r = 0 /\ Side(pc[t]) # "recv",
         NEW m \in Message \cup {Nothing}, NEW n \in Nat \cup {Forever},
         pc[t] = "run" \/ (Side(pc[t]) # "none" /\ n = Remaining(call[t])),
         Block(t, q, at, m, n)
  PROVE  ExchangeInv(e, r)'
<1>0. /\ ThreadsInv /\ TimesInv /\ Served(e, r)
      /\ pc \in [Thread -> Points] /\ KernelInv(k, {})
  BY DEF ExchangeInv, ThreadsInv
<1>1. /\ k.stat[t] = "RUNNING" /\ t \notin Asleep(k) /\ q \in Queue
      /\ t \in Thread \ {} /\ t # Idle /\ {} \in SUBSET Thread
      /\ k' = WaitOn(k, q, t, Flag, n)
  BY <1>0, Running, ExchangeAssumption DEF Block, MayBlock
<1>2. KernelInv(k', {}) /\ Queued(k', k, q, t, n)
  BY <1>0, <1>1, WaitOnInv
<1>3. /\ k.wait \in [Queue -> Seq(Thread)] /\ k.err \in [Thread -> Error]
      /\ Receivers \in Queue /\ Senders \in Queue /\ Receivers # Senders
      /\ k'.wait \in [Queue -> Seq(Thread)]
  BY <1>0, <1>2, ThreadFacts DEF KernelInv, KernelState
<1>4. \A x \in Queue \ {q} : k'.wait[x] = k.wait[x]
  BY <1>2 DEF Queued
<1>5. ToSet(k'.wait[q]) = ToSet(k.wait[q]) \cup {t}
  <2>1. k.wait[q] \in Seq(Thread) /\ IsInjective(k.wait[q])
    BY <1>0, <1>1, <1>3 DEF KernelInv, ListsConsistent, WaitersOf
  <2>2. t \notin ToSet(k.wait[q])
    BY <1>0, <1>1 DEF KernelInv, ListsConsistent, WaitersOf
  <2>3. PICK i \in 1 .. Len(k.wait[q]) + 1 : k'.wait[q] = InsertAt(k.wait[q], i, t)
    BY <1>2 DEF Queued
  <2> QED BY <2>1, <2>2, <2>3, InsertAtProps
<1>6. Asleep(k') = Asleep(k) \cup {t}
  BY <1>2 DEF Queued, Asleep
<1>7. pc' = [pc EXCEPT ![t] = at] /\ pc'[t] = at /\ at \in Points /\ pc' \in [Thread -> Points]
  BY <1>0 DEF Block, Goto, Points
<1>8. \A u \in Thread : u # t => pc'[u] = pc[u] /\ k'.err[u] = k.err[u]
  BY <1>0, <1>2, <1>3, <1>7 DEF Queued
<1>9. k'.err[t] = "EOK"
  BY <1>2, <1>3 DEF Queued
<1>10. ThreadsInv'
  <2>1. Asleep(k') = ToSet(k'.wait[Receivers]) \cup ToSet(k'.wait[Senders])
    BY <1>0, <1>1, <1>3, <1>4, <1>5, <1>6 DEF ThreadsInv, WaitersAsleep
  <2>2. Asleep(k) \subseteq Thread
    BY DEF Asleep
  <2>3. \A u \in ToSet(k'.wait[Receivers]) : Side(pc'[u]) = "recv" /\ k'.err[u] = "EOK"
    <3>1. \A u \in ToSet(k.wait[Receivers]) : u \in Asleep(k) /\ Side(pc[u]) = "recv" /\ k.err[u] = "EOK"
      BY <1>0 DEF ThreadsInv, WaitersAsleep
    <3>2. CASE q = Receivers
      <4>1. Side(pc'[t]) = "recv"
        BY <1>3, <1>7, <3>2 DEF Side
      <4> QED BY <1>1, <1>5, <1>8, <1>9, <2>2, <3>1, <3>2, <4>1
    <3>3. CASE q # Receivers
      <4>1. k'.wait[Receivers] = k.wait[Receivers]
        BY <1>3, <1>4, <3>3
      <4>2. \A u \in Asleep(k) : u \in Thread /\ u # t
        BY <1>1, <2>2
      <4> QED BY <1>8, <3>1, <4>1, <4>2
    <3> QED BY <3>2, <3>3
  <2>4. \A u \in ToSet(k'.wait[Senders]) : Side(pc'[u]) = "send" /\ k'.err[u] = "EOK"
    <3>1. \A u \in ToSet(k.wait[Senders]) : u \in Asleep(k) /\ Side(pc[u]) = "send" /\ k.err[u] = "EOK"
      BY <1>0 DEF ThreadsInv, WaitersAsleep
    <3>2. CASE q = Senders
      <4>1. Side(pc'[t]) = "send"
        BY <1>3, <1>7, <3>2 DEF Side
      <4> QED BY <1>1, <1>5, <1>8, <1>9, <2>2, <3>1, <3>2, <4>1
    <3>3. CASE q # Senders
      <4>1. k'.wait[Senders] = k.wait[Senders]
        BY <1>3, <1>4, <3>3
      <4>2. \A u \in Asleep(k) : u \in Thread /\ u # t
        BY <1>1, <2>2
      <4> QED BY <1>8, <3>1, <4>1, <4>2
    <3> QED BY <3>2, <3>3
  <2>5. CurrentGoesOn'
    BY <1>0, <1>2, <1>7 DEF Queued, ThreadsInv, CurrentGoesOn
  <2> QED BY <1>2, <1>7, <2>1, <2>3, <2>4, <2>5 DEF ThreadsInv, WaitersAsleep
<1>11. /\ call' \in [Thread -> CallType]
       /\ call'[t].timeout = n /\ call'[t].since = 0
       /\ \A u \in Thread : u # t => call'[u] = call[u]
  BY <1>0 DEF Block, TimesInv, CallType
<1>12. /\ due' \in [Thread -> Nat]
       /\ n > 0 => due'[t] = n
       /\ \A u \in Thread : u # t => due'[u] = due[u]
  <2>1. due \in [Thread -> Nat]
    BY <1>0 DEF TimesInv
  <2>2. CASE pc[t] = "run"
    BY <2>1, <2>2 DEF Block, Forever
  <2>3. CASE pc[t] # "run"
    <3>1. due' = due /\ Side(pc[t]) # "none" /\ n = Remaining(call[t])
      BY <2>3 DEF Block
    <3>2. call[t].timeout \in Nat \cup {Forever}
      BY <1>0 DEF TimesInv, CallType
    <3>3. n > 0 => due[t] = n
      BY <1>0, <3>1, <3>2 DEF TimesInv, CallTimes, Remaining, Forever
    <3> QED BY <2>1, <3>1, <3>3
  <2> QED BY <2>2, <2>3
<1>13. TimesInv'
  <2>1. CallTimes'
    <3> SUFFICES ASSUME NEW u \in Thread, Side(pc'[u]) # "none", call'[u].timeout > 0
                 PROVE  call'[u].since <= call'[u].timeout /\ due'[u] = call'[u].timeout - call'[u].since
      BY DEF CallTimes
    <3>1. CASE u = t
      BY <1>11, <1>12, <3>1 DEF Forever
    <3>2. CASE u # t
      BY <1>0, <1>8, <1>11, <1>12, <3>2 DEF TimesInv, CallTimes
    <3> QED BY <3>1, <3>2
  <2>2. DeadlineKept'
    <3> SUFFICES ASSUME NEW i \in DOMAIN k'.timers
                 PROVE  k'.timers[i].left = due'[k'.timers[i].thr]
      BY DEF DeadlineKept
    <3>1. CASE k'.timers[i] = [thr |-> t, left |-> n] /\ n > 0
      BY <1>12, <3>1
    <3>2. ASSUME k'.timers[i].thr # t, NEW j \in DOMAIN k.timers, k'.timers[i] = k.timers[j]
          PROVE  k'.timers[i].left = due'[k'.timers[i].thr]
      <4>1. k.timers[j].thr \in Thread
        BY <1>0, TimerThreads DEF KernelInv
      <4>2. k.timers[j].left = due[k.timers[j].thr]
        BY <1>0 DEF TimesInv, DeadlineKept
      <4> QED BY <1>12, <3>2, <4>1, <4>2
    <3> QED BY <1>2, <3>1, <3>2 DEF Queued
  <2> QED BY <1>11, <1>12, <2>1, <2>2 DEF TimesInv
<1>14. \A u \in Thread : /\ u \in WokenReceivers <=> Side(pc[u]) = "recv" /\ u \notin Asleep(k) /\ k.err[u] = "EOK"
                         /\ u \in WokenSenders <=> Side(pc[u]) = "send" /\ u \notin Asleep(k) /\ k.err[u] = "EOK"
  BY DEF WokenReceivers, WokenSenders, Woken, Side, Asleep
<1>15. \A u \in Thread : /\ u \in WokenReceivers' <=> Side(pc'[u]) = "recv" /\ u \notin Asleep(k') /\ k'.err[u] = "EOK"
                         /\ u \in WokenSenders' <=> Side(pc'[u]) = "send" /\ u \notin Asleep(k') /\ k'.err[u] = "EOK"
  BY DEF WokenReceivers, WokenSenders, Woken, Side, Asleep
<1>16. WokenReceivers \subseteq Thread /\ WokenSenders \subseteq Thread
  BY DEF WokenReceivers, WokenSenders, Woken
<1>17. ASSUME q = Senders PROVE WokenReceivers \subseteq WokenReceivers'
  <2>1. t \notin WokenReceivers
    BY <1>3, <1>14, <1>17
  <2> QED BY <1>6, <1>8, <1>14, <1>15, <1>16, <2>1
<1>18. ASSUME q = Receivers PROVE WokenSenders \subseteq WokenSenders'
  <2>1. t \notin WokenSenders
    BY <1>3, <1>14, <1>18
  <2> QED BY <1>6, <1>8, <1>14, <1>15, <1>16, <2>1
<1>19. Served(e, r)'
  <2> SUFFICES ASSUME object' = "live"
               PROVE  /\ k'.wait[Receivers] # <<>> => e <= Cardinality(WokenReceivers')
                      /\ k'.wait[Senders] # <<>> => r <= Cardinality(WokenSenders')
    BY DEF Served
  <2>1. /\ k.wait[Receivers] # <<>> => e <= Cardinality(WokenReceivers)
        /\ k.wait[Senders] # <<>> => r <= Cardinality(WokenSenders)
    BY <1>0 DEF Served
  <2>2. /\ WokenReceivers \in SUBSET Thread /\ WokenReceivers' \in SUBSET Thread
        /\ WokenSenders \in SUBSET Thread /\ WokenSenders' \in SUBSET Thread
    BY DEF WokenReceivers, WokenSenders, Woken
  <2>3. Cardinality(WokenReceivers') \in Nat /\ Cardinality(WokenSenders') \in Nat
    BY <2>2, Enough
  <2>4. CASE q = Receivers
    <3>1. e = 0 /\ k'.wait[Senders] = k.wait[Senders]
      BY <1>3, <1>4, <2>4
    <3>2. Cardinality(WokenSenders) <= Cardinality(WokenSenders')
      BY <1>18, <2>2, <2>4, Enough
    <3>3. Cardinality(WokenSenders) \in Nat
      BY <2>2, Enough
    <3> QED BY <2>1, <2>3, <3>1, <3>2, <3>3
  <2>5. CASE q = Senders
    <3>1. r = 0 /\ k'.wait[Receivers] = k.wait[Receivers]
      BY <1>3, <1>4, <2>5
    <3>2. Cardinality(WokenReceivers) <= Cardinality(WokenReceivers')
      BY <1>17, <2>2, <2>5, Enough
    <3>3. Cardinality(WokenReceivers) \in Nat
      BY <2>2, Enough
    <3> QED BY <2>1, <2>3, <3>1, <3>2, <3>3
  <2> QED BY <2>4, <2>5
<1> QED BY <1>10, <1>13, <1>19 DEF ExchangeInv

-----------------------------------------------------------------------------
(* The steps both services have *)

\* The caller goes on behind the loop, and nobody else moves.
LEMMA ProceedLeaves ==
  ASSUME ThreadsInv, TimesInv, NEW t \in Thread, NEW at \in Points, Side(at) = "none",
         NEW m \in Message \cup {Nothing}, Proceed(t, at, m)
  PROVE  /\ Leaves({t})
         /\ call' \in [Thread -> CallType] /\ due' \in [Thread -> Nat]
         /\ \A u \in Thread \ {t} : call'[u] = call[u] /\ due'[u] = due[u]
<1>1. pc \in [Thread -> Points] /\ call \in [Thread -> CallType] /\ due \in [Thread -> Nat]
  BY DEF ThreadsInv, TimesInv
<1>2. pc' = [pc EXCEPT ![t] = at]
  BY DEF Proceed, Goto
<1>3. Leaves({t})
  BY <1>1, <1>2 DEF Leaves
<1>4. [NoCall EXCEPT !.msg = m] \in CallType
  BY DEF NoCall, CallType
<1> QED BY <1>1, <1>3, <1>4 DEF Proceed

\* The call ends.
LEMMA FinishLeaves ==
  ASSUME ThreadsInv, TimesInv, NEW t \in Thread, NEW b, Finish(t, b)
  PROVE  /\ Leaves({t})
         /\ call' \in [Thread -> CallType] /\ due' \in [Thread -> Nat]
         /\ \A u \in Thread \ {t} : call'[u] = call[u] /\ due'[u] = due[u]
<1>1. PICK at \in {"run", "sched"} : Proceed(t, at, Nothing)
  BY DEF Finish
<1>2. Side(at) = "none" /\ at \in Points
  BY <1>1 DEF Side, Points
<1> QED BY <1>1, <1>2, ProceedLeaves

\* The kernel's state with another error of one thread, or none.
LEMMA ErrorOnly ==
  ASSUME ThreadsInv, NEW t \in Thread, NEW e \in Error, NEW r,
         r = k \/ r = [k EXCEPT !.err[t] = e]
  PROVE  /\ Released(r, {}) /\ r.cur = k.cur /\ r.stat = k.stat
         /\ \A u \in Thread \ {t} : r.err[u] = k.err[u]
<1>1. k \in KernelState /\ KernelInv(k, {}) /\ k.err \in [Thread -> Error]
  BY ThreadFacts
<1>2. r \in KernelState
  <2>1. [k.err EXCEPT ![t] = e] \in [Thread -> Error]
    BY <1>1
  <2>2. [k EXCEPT !.err[t] = e] \in KernelState
    BY <1>1, <2>1 DEF KernelState
  <2> QED BY <1>1, <2>2
<1>3. /\ SameLists(r, k) /\ r.nest = k.nest
      /\ \A u \in Thread \ {t} : r.err[u] = k.err[u]
  <2>1. CASE r = k
    BY <2>1 DEF SameLists
  <2>2. CASE r = [k EXCEPT !.err[t] = e]
    <3>1. r.err = [k.err EXCEPT ![t] = e]
      BY <1>1, <2>2 DEF KernelState
    <3>2. SameLists(r, k) /\ r.nest = k.nest
      BY <1>1, <2>2 DEF SameLists, KernelState
    <3> QED BY <1>1, <3>1, <3>2
  <2> QED BY <2>1, <2>2
<1>4. KernelInv(r, {}) /\ Keeps(r, k)
  BY <1>1, <1>2, <1>3, FieldsInv
<1> QED BY <1>3, <1>4 DEF Released, Wakes, SameLists, Asleep

\* A thread that finds nothing and has no time left returns.
LEMMA GivesUpKeeps ==
  ASSUME NEW e \in Nat, NEW r \in Nat, ExchangeInv(e, r), object' = object,
         NEW t \in Thread, t = k.cur, pc[t] \notin {"send", "recv"},
         \/ SendGivesUp(t) /\ r = 0 /\ Side(pc[t]) # "recv"
         \/ RecvGivesUp(t) /\ e = 0 /\ Side(pc[t]) # "send"
  PROVE  ExchangeInv(e, r)'
<1>0. ThreadsInv /\ TimesInv /\ k.stat[t] = "RUNNING" /\ t \notin Asleep(k)
  BY Running DEF ExchangeInv
<1>1. /\ Released(k', {}) /\ k'.cur = k.cur /\ k'.stat = k.stat
      /\ \A u \in Thread \ {t} : k'.err[u] = k.err[u]
  <2>1. PICK x \in {"EOK", "ETIMEOUT"} : k' = k \/ k' = [k EXCEPT !.err[t] = x]
    BY DEF SendGivesUp, RecvGivesUp
  <2>2. x \in Error
    BY DEF Error
  <2> QED BY <1>0, <2>1, <2>2, ErrorOnly
<1>2. /\ Leaves({t})
      /\ call' \in [Thread -> CallType] /\ due' \in [Thread -> Nat]
      /\ \A u \in Thread \ {t} : call'[u] = call[u] /\ due'[u] = due[u]
  BY <1>0, FinishLeaves DEF SendGivesUp, RecvGivesUp
<1>3. {t} \in SUBSET (Thread \ Asleep(k)) /\ {} \in SUBSET Asleep(k)
  BY <1>0
<1>4. /\ e = 0 \/ {t} \cap WokenReceivers = {}
      /\ r = 0 \/ {t} \cap WokenSenders = {}
  BY DEF WokenReceivers, WokenSenders, Woken, Side
<1>5. k'.stat[k'.cur] = "RUNNING"
  BY <1>0, <1>1
<1> QED BY <1>1, <1>2, <1>3, <1>4, <1>5, TurnAwayKeeps

\* A thread that was turned away returns.
LEMMA FailsKeeps ==
  ASSUME NEW e \in Nat, NEW r \in Nat, ExchangeInv(e, r), NEW t \in Thread, t = k.cur,
         pc[t] \in {"send_woken", "recv_woken"}, Fails(t)
  PROVE  ExchangeInv(e, r)'
<1>0. ThreadsInv /\ TimesInv /\ k.stat[t] = "RUNNING" /\ t \notin Asleep(k)
  BY Running DEF ExchangeInv
<1>1. object' = object /\ k' = k
  BY DEF Fails
<1>2. Released(k', {})
  BY <1>0, <1>1, ErrorOnly DEF Error
<1>3. /\ Leaves({t})
      /\ call' \in [Thread -> CallType] /\ due' \in [Thread -> Nat]
      /\ \A u \in Thread \ {t} : call'[u] = call[u] /\ due'[u] = due[u]
  BY <1>0, FinishLeaves DEF Fails
<1>4. {t} \in SUBSET (Thread \ Asleep(k)) /\ {} \in SUBSET Asleep(k)
  BY <1>0
<1>5. {t} \cap WokenSenders = {} /\ {t} \cap WokenReceivers = {}
  BY DEF WokenSenders, WokenReceivers, Woken, Fails
<1>6. k'.stat[k'.cur] = "RUNNING"
  BY <1>0, <1>1
<1> QED BY <1>1, <1>2, <1>3, <1>4, <1>5, <1>6, TurnAwayKeeps

\* What is left of a timeout is a timeout.
LEMMA RemainingType ==
  ASSUME TimesInv, NEW t \in Thread, Side(pc[t]) # "none"
  PROVE  Remaining(call[t]) \in Nat \cup {Forever}
<1>1. call[t].timeout \in Nat \cup {Forever} /\ call[t].since \in Nat
  BY DEF TimesInv, CallType
<1>2. CASE call[t].timeout > 0
  <2>1. call[t].timeout \in Nat /\ call[t].since <= call[t].timeout
    BY <1>1, <1>2 DEF TimesInv, CallTimes, Forever
  <2> QED BY <1>1, <1>2, <2>1 DEF Remaining
<1>3. CASE ~(call[t].timeout > 0)
  BY <1>1, <1>3 DEF Remaining
<1> QED BY <1>2, <1>3

\* Steps of the current thread between calls, and rt_schedule(): nobody goes to
\* sleep, is woken or leaves.
LEMMA OwnStep ==
  ASSUME NEW e \in Nat, NEW r \in Nat, ExchangeInv(e, r), object' = "live" => object = "live",
         NEW t \in Thread, t = k.cur, NEW at \in Points, pc' = [pc EXCEPT ![t] = at],
         Side(pc[t]) = Side(at),
         k' = rt_schedule(k) \/ (k' = k /\ pc[t] \notin {"send", "recv"}),
         UNCHANGED <<call, due>>
  PROVE  ExchangeInv(e, r)'
<1>0. /\ ThreadsInv /\ pc \in [Thread -> Points] /\ call \in [Thread -> CallType]
      /\ due \in [Thread -> Nat]
  BY DEF ExchangeInv, ThreadsInv, TimesInv
<1>1. Released(k, {}) /\ {} \in SUBSET Asleep(k) /\ {} \in SUBSET (Thread \ Asleep(k))
  BY <1>0, ErrorOnly DEF Error
<1>2. Released(k', {}) /\ k'.err = k.err /\ k'.stat[k'.cur] = "RUNNING"
  BY <1>0, <1>1, ScheduledEffect, Running
<1>3. Leaves({})
  BY <1>0 DEF Leaves
<1> QED BY <1>0, <1>1, <1>2, <1>3, TurnAwayKeeps

LEMMA ScheduleStep ==
  ASSUME NEW e \in Nat, NEW r \in Nat, ExchangeInv(e, r), NEW t \in Thread,
         ExchangeSchedule(t)
  PROVE  ExchangeInv(e, r)'
<1>1. PICK from, to : /\ Reschedule(t, from, to)
                      /\ \/ from = "send" /\ to = "send_woken"
                         \/ from = "recv" /\ to = "recv_woken"
                         \/ from = "sched" /\ to = "run"
  BY DEF ExchangeSchedule
<1>2. /\ t = k.cur /\ pc[t] = from /\ pc' = [pc EXCEPT ![t] = to] /\ k' = rt_schedule(k)
      /\ object' = object /\ UNCHANGED <<call, due>>
  BY <1>1 DEF ExchangeSchedule, Reschedule, Executes, Goto
<1>3. Side(from) = Side(to) /\ to \in Points
  BY <1>1 DEF Side, Points
<1> QED BY <1>2, <1>3, OwnStep

\* A turn of _ipc_list_resume_all: the first waiter is turned away.
LEMMA ResumeAllKeeps ==
  ASSUME NEW e \in Nat, NEW r \in Nat, ExchangeInv(e, r), object' = "live" => object = "live",
         NEW q \in {Receivers, Senders}, k.wait[q] # <<>>, k' = ResumeWithError(k, q),
         k.stat[k.cur] = "RUNNING", Leaves({}), UNCHANGED <<call, due>>
  PROVE  ExchangeInv(e, r)'
<1> DEFINE h == Head(k.wait[q])
<1>0. /\ ThreadsInv /\ call \in [Thread -> CallType] /\ due \in [Thread -> Nat]
      /\ Asleep(k) = ToSet(k.wait[Receivers]) \cup ToSet(k.wait[Senders])
  BY DEF ExchangeInv, ThreadsInv, TimesInv, WaitersAsleep
<1>1. /\ KernelInv(k, {}) /\ {} \in SUBSET Thread /\ q \in Queue
      /\ Receivers \in Queue /\ Senders \in Queue /\ Receivers # Senders
      /\ k.wait \in [Queue -> Seq(Thread)] /\ k.err \in [Thread -> Error]
      /\ ToSet(k.wait[Receivers]) \cap ToSet(k.wait[Senders]) = {}
  BY <1>0, ThreadFacts
<1>2. /\ h \in ToSet(k.wait[q])
      /\ KernelInv(k', {}) /\ Keeps(k', k) /\ k'.err = [k.err EXCEPT ![h] = "ERROR"]
      /\ k'.wait = [k.wait EXCEPT ![q] = Tail(@)]
      /\ ToSet(k'.wait[q]) = ToSet(k.wait[q]) \ {h}
      /\ Asleep(k') = Asleep(k) \ {h} /\ TimersBut(k', k, h)
  BY <1>1, ListResumeError
<1> HIDE DEF h
<1>3. \A x \in Queue \ {q} : k'.wait[x] = k.wait[x]
  BY <1>1, <1>2
<1>4. /\ ToSet(k'.wait[Receivers]) = ToSet(k.wait[Receivers]) \ {h}
      /\ ToSet(k'.wait[Senders]) = ToSet(k.wait[Senders]) \ {h}
  <2>1. CASE q = Receivers
    BY <1>1, <1>2, <1>3, <2>1
  <2>2. CASE q = Senders
    BY <1>1, <1>2, <1>3, <2>2
  <2> QED BY <2>1, <2>2
<1>5. Released(k', {h})
  BY <1>2, <1>4 DEF Released, Wakes, TimersBut
<1>6. {h} \in SUBSET Asleep(k) /\ {} \in SUBSET (Thread \ Asleep(k))
  BY <1>0, <1>2
<1>7. \A u \in Thread \ ({h} \cup {}) : k'.err[u] = k.err[u]
  BY <1>1, <1>2
<1>8. k'.stat[k'.cur] = "RUNNING"
  BY <1>2 DEF Keeps
<1> QED BY <1>0, <1>5, <1>6, <1>7, <1>8, TurnAwayKeeps

\* The reset turns the waiters away.
LEMMA ResetKeeps ==
  ASSUME NEW e \in Nat, NEW r \in Nat, ExchangeInv(e, r), NEW t \in Thread,
         ExchangeResetBegin(t) \/ ExchangeResetTurn(t)
  PROVE  ExchangeInv(e, r)'
<1>0. ThreadsInv /\ pc \in [Thread -> Points]
  BY DEF ExchangeInv, ThreadsInv
<1>1. CASE ExchangeResetBegin(t)
  <2>1. /\ t = k.cur /\ pc[t] = "run" /\ pc' = [pc EXCEPT ![t] = "reset"] /\ k' = k
        /\ object' = object /\ UNCHANGED <<call, due>>
    BY <1>1 DEF ExchangeResetBegin, Executes, Goto
  <2>2. Side("run") = Side("reset") /\ "reset" \in Points
    BY DEF Side, Points
  <2> QED BY <2>1, <2>2, OwnStep
<1>2. CASE ExchangeResetTurn(t)
  <2>1. PICK q \in {Receivers, Senders} : ResumeAllMasked(t, q, "reset")
    BY <1>2 DEF ExchangeResetTurn
  <2>2. /\ t = k.cur /\ pc[t] = "reset" /\ pc' = pc /\ k.wait[q] # <<>>
        /\ k' = ResumeWithError(k, q)
        /\ object' = object /\ UNCHANGED <<call, due>>
    BY <1>2, <2>1 DEF ExchangeResetTurn, ResumeAllMasked, ExecutesMasked
  <2>3. k.stat[k.cur] = "RUNNING" /\ Leaves({})
    BY <1>0, <2>2, Running DEF Leaves
  <2> QED BY <2>2, <2>3, ResumeAllKeeps
<1> QED BY <1>1, <1>2

\* When the reset ends nobody waits, whatever it leaves.
LEMMA ResetEndKeeps ==
  ASSUME NEW e, NEW r, NEW e2, NEW r2, ExchangeInv(e, r), NEW t \in Thread, ExchangeResetEnd(t)
  PROVE  ExchangeInv(e2, r2)'
<1>0. ThreadsInv /\ TimesInv /\ pc \in [Thread -> Points]
  BY DEF ExchangeInv, ThreadsInv
<1>1. /\ t = k.cur /\ pc[t] = "reset" /\ pc' = [pc EXCEPT ![t] = "sched"] /\ k' = k
      /\ object' = object /\ UNCHANGED <<call, due>>
      /\ k.wait[Receivers] = <<>> /\ k.wait[Senders] = <<>>
  BY DEF ExchangeResetEnd, ExecutesMasked, Goto
<1>2. Released(k', {}) /\ {} \in SUBSET Asleep(k) /\ {} \in SUBSET (Thread \ Asleep(k))
  BY <1>0, <1>1, ErrorOnly DEF Error
<1>3. Leaves({}) /\ k'.stat[k'.cur] = "RUNNING"
  <2>1. Side("reset") = Side("sched") /\ "sched" \in Points
    BY DEF Side, Points
  <2> QED BY <1>0, <1>1, <2>1, Running DEF Leaves
<1>4. ThreadsInv'
  <2>1. Wakes(k', {})
    BY <1>2 DEF Released
  <2> QED BY <1>0, <1>1, <1>2, <1>3, <2>1, Moves
<1>5. TimesInv'
  BY <1>0, <1>1, <1>2, <1>3, TimesKept DEF TimesInv
<1>6. Served(e2, r2)'
  BY <1>1 DEF Served
<1> QED BY <1>4, <1>5, <1>6 DEF ExchangeInv

\* So does the deletion.
LEMMA DeleteKeeps ==
  ASSUME NEW e \in Nat, NEW r \in Nat, ExchangeInv(e, r), 
         object \in {"live", "deleting", "deleted"},
         NEW t \in Thread, ExchangeDeleteBegin(t) \/ ExchangeDeleteStep(t)
  PROVE  ExchangeInv(e, r)'
<1>0. ThreadsInv /\ pc \in [Thread -> Points]
  BY DEF ExchangeInv, ThreadsInv
<1>1. UNCHANGED <<call, due>> /\ (object' = "live" => object = "live")
  BY DEF ExchangeDeleteBegin, ExchangeDeleteStep
<1>2. ASSUME NEW from, NEW to \in Points, from \notin {"send", "recv"}, Side(from) = Side(to),
             t = k.cur, pc[t] = from, pc' = [pc EXCEPT ![t] = to], k' = k
      PROVE  ExchangeInv(e, r)'
  BY <1>1, <1>2, OwnStep
<1>3. ASSUME NEW q \in {Receivers, Senders}, NEW body \in {"resume", "resume_senders"},
             NEW test \in {"delete", "delete_senders"}, ResumeAllBody(t, q, body, test)
      PROVE  ExchangeInv(e, r)'
  <2>1. /\ t = k.cur /\ pc[t] = body /\ pc' = [pc EXCEPT ![t] = test] /\ k.wait[q] # <<>>
        /\ k' = ResumeWithError(k, q)
    BY <1>3 DEF ResumeAllBody, Executes, Goto
  <2>2. Side(body) = Side(test) /\ test \in Points /\ body \notin {"send", "recv"}
    BY <1>3 DEF Side, Points
  <2>3. k.stat[k.cur] = "RUNNING" /\ Leaves({})
    BY <1>0, <2>1, <2>2, Running DEF Leaves
  <2> QED BY <1>1, <2>1, <2>3, ResumeAllKeeps
<1>4. CASE ExchangeDeleteBegin(t)
  <2>1. /\ t = k.cur /\ pc[t] = "run" /\ pc' = [pc EXCEPT ![t] = "delete"] /\ k' = k
    BY <1>4 DEF ExchangeDeleteBegin, Executes, Goto
  <2>2. Side("run") = Side("delete") /\ "delete" \in Points
    BY DEF Side, Points
  <2> QED BY <1>2, <2>1, <2>2
<1>5. ASSUME NEW q, NEW from \in {"delete", "delete_senders"}, NEW a \in {"resume", "resume_senders"},
             NEW b \in {"delete_senders", "run"}, ResumeAllTest(t, q, from, a, b)
      PROVE  ExchangeInv(e, r)'
  <2>1. PICK to \in {a, b} : t = k.cur /\ pc[t] = from /\ pc' = [pc EXCEPT ![t] = to] /\ k' = k
    BY <1>5 DEF ResumeAllTest, Executes, Goto
  <2>2. Side(from) = Side(to) /\ to \in Points /\ from \notin {"send", "recv"}
    BY <1>5, <2>1 DEF Side, Points
  <2> QED BY <1>2, <2>1, <2>2
<1>6. CASE ExchangeDeleteStep(t)
  BY <1>3, <1>5, <1>6 DEF ExchangeDeleteStep
<1> QED BY <1>4, <1>6

-----------------------------------------------------------------------------
(* The tick interrupt *)

\* A tick brings every timer and every deadline nearer by the same amount.
LEMMA TickTimes ==
  ASSUME ThreadsInv, TimesInv, ExchangeInterrupt, isr = "none", k'.timers = Aged(k.timers), pc' = pc
  PROVE  TimesInv'
<1>0. /\ TimesInv /\ call \in [Thread -> CallType] /\ due \in [Thread -> Nat] /\ k \in KernelState
  BY ThreadFacts DEF TimesInv
<1>1. /\ call' = [t \in Thread |->
                    [call[t] EXCEPT !.since = IF @ < call[t].timeout THEN @ + 1 ELSE @]]
      /\ due' = [t \in Thread |-> IF due[t] > 0 THEN due[t] - 1 ELSE 0]
  BY DEF ExchangeInterrupt
<1>2. \A t \in Thread : /\ call[t] \in CallType /\ call'[t] \in CallType
                        /\ call'[t].timeout = call[t].timeout
                        /\ call'[t].since = IF call[t].since < call[t].timeout
                                            THEN call[t].since + 1 ELSE call[t].since
  BY <1>0, <1>1 DEF CallType
<1>3. call' \in [Thread -> CallType] /\ due' \in [Thread -> Nat]
  <2>1. call' \in [Thread -> CallType]
    BY <1>1, <1>2
  <2>2. due' \in [Thread -> Nat]
    BY <1>0, <1>1
  <2> QED BY <2>1, <2>2
<1>4. CallTimes'
  <2> SUFFICES ASSUME NEW t \in Thread, Side(pc'[t]) # "none", call'[t].timeout > 0
               PROVE  call'[t].since <= call'[t].timeout /\ due'[t] = call'[t].timeout - call'[t].since
    BY DEF CallTimes
  <2>1. call[t].since <= call[t].timeout /\ due[t] = call[t].timeout - call[t].since
    BY <1>0, <1>2 DEF TimesInv, CallTimes
  <2>2. call[t].since \in Nat /\ call[t].timeout \in Int /\ due[t] \in Nat
    BY <1>0, <1>2 DEF CallType, Forever
  <2>3. due'[t] = IF due[t] > 0 THEN due[t] - 1 ELSE 0
    BY <1>1
  <2> QED BY <1>2, <2>1, <2>2, <2>3
<1>5. DeadlineKept'
  <2> SUFFICES ASSUME NEW i \in DOMAIN k'.timers
               PROVE  k'.timers[i].left = due'[k'.timers[i].thr]
    BY DEF DeadlineKept
  <2>1. /\ i \in DOMAIN k.timers
        /\ k'.timers[i] = [k.timers[i] EXCEPT !.left = IF @ = 0 THEN 0 ELSE @ - 1]
    BY DEF Aged
  <2>2. k.timers[i] \in Timer
    BY <1>0, <2>1, TimerThreads
  <2>3. /\ k'.timers[i].thr = k.timers[i].thr /\ k.timers[i].thr \in Thread
        /\ k'.timers[i].left = IF k.timers[i].left = 0 THEN 0 ELSE k.timers[i].left - 1
    BY <2>1, <2>2 DEF Timer
  <2>4. k.timers[i].left = due[k.timers[i].thr]
    BY <1>0, <2>1 DEF TimesInv, DeadlineKept
  <2> QED BY <1>0, <1>1, <2>3, <2>4
<1> QED BY <1>3, <1>4, <1>5 DEF TimesInv, CallType

LEMMA InterruptStep ==
  ASSUME NEW e \in Nat, NEW r \in Nat, ExchangeInv(e, r), ExchangeInterrupt
  PROVE  ExchangeInv(e, r)'
<1>0. /\ ThreadsInv /\ pc \in [Thread -> Points] /\ call \in [Thread -> CallType]
      /\ due \in [Thread -> Nat] /\ TimesInv /\ Served(e, r)
      /\ Asleep(k) = ToSet(k.wait[Receivers]) \cup ToSet(k.wait[Senders])
  BY DEF ExchangeInv, ThreadsInv, TimesInv, WaitersAsleep
<1>1. /\ KernelInv(k, {}) /\ {} \in SUBSET Thread /\ k \in KernelState /\ k.nest = 0
      /\ Receivers \in Queue /\ Senders \in Queue /\ Receivers # Senders
      /\ k.wait \in [Queue -> Seq(Thread)] /\ k.err \in [Thread -> Error]
      /\ ToSet(k.wait[Receivers]) \cap ToSet(k.wait[Senders]) = {}
  BY <1>0, ThreadFacts
<1>2. object' = object /\ pc' = pc
  BY DEF ExchangeInterrupt, Interrupt, Tick, TimerFire, TimerCheckEnd
<1>3. Leaves({}) /\ {} \in SUBSET Asleep(k) /\ {} \in SUBSET (Thread \ Asleep(k))
  BY <1>0, <1>2 DEF Leaves
<1>4. CASE Tick
  <2>1. k' = rt_tick_increase(k) /\ isr = "none"
    BY <1>4 DEF Tick
  <2>2. /\ KernelInv(k', {}) /\ Keeps(k', k) /\ k'.wait = k.wait /\ k'.err = k.err
        /\ Asleep(k') = Asleep(k) /\ k'.timers = Aged(k.timers)
    BY <1>1, <2>1, TickInv, TickWaits
  <2>3. Wakes(k', {})
    BY <2>2 DEF Wakes
  <2>4. ThreadsInv' /\ WokenReceivers' = WokenReceivers /\ WokenSenders' = WokenSenders
    <3>1. \A u \in Thread \ ({} \cup {}) : k'.err[u] = k.err[u]
      BY <2>2
    <3>2. /\ ThreadsInv'
          /\ WokenReceivers' = (WokenReceivers \ {})
                                 \cup {u \in {} \cap ToSet(k.wait[Receivers]) : k'.err[u] = "EOK"}
          /\ WokenSenders' = (WokenSenders \ {})
                               \cup {u \in {} \cap ToSet(k.wait[Senders]) : k'.err[u] = "EOK"}
      BY <1>0, <1>2, <1>3, <2>3, <3>1, Moves
    <3> QED BY <3>2
  <2>5. TimesInv'
    BY <1>0, <1>2, <2>1, <2>2, TickTimes
  <2>6. Served(e, r)'
    BY <1>0, <1>2, <2>2, <2>4 DEF Served
  <2> QED BY <2>4, <2>5, <2>6 DEF ExchangeInv
<1>5. CASE TimerFire
  <2> DEFINE u == Head(k.timers).thr
  <2>1. k' = _thread_timeout(k, u) /\ isr = "check" /\ k.timers # <<>>
    BY <1>5 DEF TimerFire, TimerExpired
  <2>2. UNCHANGED <<call, due>>
    BY <2>1 DEF ExchangeInterrupt
  <2>3. u \in Thread \ {} /\ k.stat[u] = "SUSPEND" /\ u \in Asleep(k)
    <3>1. k.timers \in Seq(Timer) /\ 1 \in DOMAIN k.timers /\ Head(k.timers) = k.timers[1]
      BY <1>1, <2>1, TimerThreads, SeqViews, HeadTailProperties
    <3> QED BY <1>1, <3>1, TimerThreads DEF KernelInv, ListsConsistent, TimersOf, Asleep
  <2> HIDE DEF u
  <2>4. KernelInv(k', {}) /\ Keeps(k', k)
    BY <1>1, <2>1, <2>3, TimeoutInv
  <2>5. WokeOnly(k', k, u) /\ k'.err = [k.err EXCEPT ![u] = "ETIMEOUT"]
    BY <1>1, <2>1, <2>3, TimeoutWaits
  <2>6. \A x \in Queue : ToSet(k'.wait[x]) = ToSet(k.wait[x]) \ {u}
    <3> SUFFICES ASSUME NEW x \in Queue PROVE ToSet(k'.wait[x]) = ToSet(k.wait[x]) \ {u}
      OBVIOUS
    <3>1. k.wait[x] \in Seq(Thread) /\ IsInjective(k.wait[x]) /\ k'.wait[x] = Unlink(k.wait[x], u)
      BY <1>1, <2>5 DEF WokeOnly, KernelInv, ListsConsistent, WaitersOf
    <3> QED BY <3>1, UnlinkProperties
  <2>7. Released(k', {u})
    BY <1>1, <2>4, <2>5, <2>6 DEF Released, Wakes, WokeOnly, TimersBut
  <2>8. {u} \in SUBSET Asleep(k)
    BY <2>3
  <2>9. \A v \in Thread \ ({u} \cup {}) : k'.err[v] = k.err[v]
    BY <1>1, <2>5
  <2> QED BY <1>0, <1>2, <1>3, <2>2, <2>7, <2>8, <2>9, TurnAwayKeeps
<1>6. CASE TimerCheckEnd
  <2>1. k' = k /\ isr = "check"
    BY <1>6 DEF TimerCheckEnd
  <2>2. UNCHANGED <<call, due>>
    BY <2>1 DEF ExchangeInterrupt
  <2>3. Released(k', {})
    BY <1>0, <1>1, <2>1, ErrorOnly DEF KernelState, Error
  <2> QED BY <1>0, <1>2, <1>3, <2>1, <2>2, <2>3, TurnAwayKeeps
<1> QED BY <1>4, <1>5, <1>6 DEF ExchangeInterrupt, Interrupt

-----------------------------------------------------------------------------
(* The initial state and the modes *)

\* Nobody waits at first, whatever is there.
LEMMA ExchangeStarts ==
  ASSUME NEW e, NEW r, ExchangeInit
  PROVE  ExchangeInv(e, r)
<1>1. PICK tbl \in BootTables : k = rt_system_scheduler_start(tbl)
  BY DEF ExchangeInit, ProcessorInit
<1>2. /\ KernelInv(k, {}) /\ k.stat[k.cur] = "RUNNING" /\ k.nest = 0 /\ k.timers = <<>>
      /\ \A q \in Queue : k.wait[q] = <<>>
      /\ \A t \in Thread : k.stat[t] # "SUSPEND"
  BY <1>1, BootInv
<1>3. k.wait[Receivers] = <<>> /\ k.wait[Senders] = <<>> /\ ToSet(<<>>) = {}
  BY <1>2, ExchangeAssumption DEF ToSet
<1>4. /\ pc = [t \in Thread |-> "run"] /\ isr = "none" /\ object = "live"
      /\ call = [t \in Thread |-> NoCall] /\ due = [t \in Thread |-> 0]
  BY DEF ExchangeInit, ProcessorInit
<1>5. ThreadsInv
  BY <1>2, <1>3, <1>4 DEF ThreadsInv, CurrentGoesOn, WaitersAsleep, Asleep, Points
<1>6. TimesInv
  BY <1>2, <1>4 DEF TimesInv, CallTimes, DeadlineKept, NoCall, Side, CallType
<1>7. Served(e, r)
  BY <1>3 DEF Served
<1> QED BY <1>5, <1>6, <1>7 DEF ExchangeInv

\* A step of something else.
LEMMA ExchangeStutters ==
  ASSUME NEW e, NEW r, ExchangeInv(e, r), UNCHANGED <<k, pc, call, due, object>>
  PROVE  ExchangeInv(e, r)'
BY DEF ExchangeInv, ThreadsInv, CurrentGoesOn, WaitersAsleep, TimesInv, CallTimes, DeadlineKept,
       Served, WokenReceivers, WokenSenders, Woken

\* Interrupts are enabled or not, and the object is there or not.
ModesInv ==
  /\ isr \in {"none", "check", "masked"}
  /\ object \in {"live", "deleting", "deleted"}

LEMMA ExchangeModes ==
  ASSUME ModesInv,
         \/ \E t \in Thread : \/ Fails(t) \/ ExchangeSchedule(t) \/ ExchangeResetBegin(t)
                              \/ ExchangeResetTurn(t) \/ ExchangeResetEnd(t)
                              \/ ExchangeDeleteBegin(t) \/ ExchangeDeleteStep(t)
         \/ ExchangeInterrupt
         \/ UNCHANGED <<isr, object>>
  PROVE  ModesInv'
<1>1. ASSUME NEW t \in Thread,
             \/ Fails(t) \/ ExchangeSchedule(t) \/ ExchangeResetBegin(t)
             \/ ExchangeResetTurn(t) \/ ExchangeResetEnd(t)
             \/ ExchangeDeleteBegin(t) \/ ExchangeDeleteStep(t)
      PROVE  ModesInv'
  BY <1>1
     DEF ModesInv, Fails, ExchangeSchedule, Reschedule, ExchangeResetBegin, ExchangeResetTurn,
         ExchangeResetEnd, ResumeAllMasked, ExchangeDeleteBegin, ExchangeDeleteStep,
         ResumeAllTest, ResumeAllBody
<1>2. CASE ExchangeInterrupt
  BY <1>2 DEF ExchangeInterrupt, Interrupt, Tick, TimerFire, TimerCheckEnd, ModesInv
<1>3. CASE UNCHANGED <<isr, object>>
  BY <1>3 DEF ModesInv
<1> QED BY <1>1, <1>2, <1>3

-----------------------------------------------------------------------------
(* The mailbox: its ring.  Every step leaves the ring alone or does one of *)
(* four things to it, and threads and lists play no part in that argument. *)

\* A thread that waits for room carries the message it will send.
CallInv ==
  /\ pc \in [Thread -> {"run", "send", "send_woken", "recv", "recv_woken", "sched",
                        "reset", "delete", "resume", "delete_senders", "resume_senders"}]
  /\ call \in [Thread -> [msg : Message \cup {Nothing}, timeout : Int, since : Int]]
  /\ \A t \in Thread : pc[t] \in {"send", "send_woken"} => call[t].msg \in Message

\* What a step may do to the ring.
RingStep ==
  \/ UNCHANGED ring
  \/ \E m \in Message : entry < Size /\ Put(m)
  \/ \E m \in Message : PutFirst(m) /\ UNCHANGED <<in_offset, got>>
  \/ entry > 0 /\ Get
  \/ entry' = 0 /\ in_offset' = 0 /\ out_offset' = 0 /\ UNCHANGED <<pool, got>>

\* Sending puts the message in, or leaves the ring alone; a sender that is to
\* wait keeps the message.
LEMMA SendLoopStep ==
  ASSUME CallInv, NEW t \in Thread, NEW m \in Message, NEW n \in Int, SendLoop(t, m, n)
  PROVE  RingStep /\ CallInv'
<1>1. CASE entry < Size /\ Put(m) /\ Finish(t, k.wait[Receivers] # <<>>)
  BY <1>1 DEF RingStep, CallInv, Finish, Proceed, Goto, NoCall
<1>2. CASE UNCHANGED ring /\ Finish(t, FALSE)
  BY <1>2 DEF RingStep, CallInv, Finish, Proceed, Goto, NoCall
<1>3. CASE Block(t, Senders, "send", m, n) /\ UNCHANGED ring
  BY <1>3 DEF RingStep, CallInv, Block, Goto
<1> QED BY <1>1, <1>2, <1>3 DEF SendLoop, SendGivesUp

LEMMA RecvLoopStep ==
  ASSUME CallInv, NEW t \in Thread, NEW n \in Int, RecvLoop(t, n)
  PROVE  RingStep /\ CallInv'
<1>1. CASE entry > 0 /\ Get /\ Finish(t, k.wait[Senders] # <<>>)
  BY <1>1 DEF RingStep, CallInv, Finish, Proceed, Goto, NoCall
<1>2. CASE UNCHANGED ring /\ Finish(t, FALSE)
  BY <1>2 DEF RingStep, CallInv, Finish, Proceed, Goto, NoCall
<1>3. CASE Block(t, Receivers, "recv", Nothing, n) /\ UNCHANGED ring
  BY <1>3 DEF RingStep, CallInv, Block, Goto
<1> QED BY <1>1, <1>2, <1>3 DEF RecvLoop, RecvGivesUp

LEMMA NextStep == CallInv /\ [Next]_vars => RingStep /\ CallInv'
<1> SUFFICES ASSUME CallInv, [Next]_vars PROVE RingStep /\ CallInv'
  OBVIOUS
<1>0. Timeouts \subseteq Int
  BY ExchangeAssumption DEF Forever
<1>1. ASSUME NEW t \in Thread, NEW m \in Message, NEW n \in Timeouts, Send(t, m, n)
      PROVE  RingStep /\ CallInv'
  BY <1>0, <1>1, SendLoopStep DEF Send
<1>2. ASSUME NEW t \in Thread, SendAgain(t) PROVE RingStep /\ CallInv'
  <2>1. CASE Fails(t) /\ UNCHANGED ring
    BY <2>1 DEF RingStep, CallInv, Fails, Finish, Proceed, Goto, NoCall
  <2>2. call[t].msg \in Message /\ Remaining(call[t]) \in Int
    BY <1>2 DEF SendAgain, Executes, CallInv, Remaining
  <2> QED BY <1>2, <2>1, <2>2, SendLoopStep DEF SendAgain
<1>3. ASSUME NEW t \in Thread, NEW m \in Message, Urgent(t, m)
      PROVE  RingStep /\ CallInv'
  BY <1>3 DEF Urgent, RingStep, CallInv, Finish, Proceed, Goto, NoCall
<1>4. ASSUME NEW t \in Thread, NEW n \in Timeouts, Recv(t, n)
      PROVE  RingStep /\ CallInv'
  BY <1>0, <1>4, RecvLoopStep DEF Recv
<1>5. ASSUME NEW t \in Thread, RecvAgain(t) PROVE RingStep /\ CallInv'
  <2>1. CASE Fails(t) /\ UNCHANGED ring
    BY <2>1 DEF RingStep, CallInv, Fails, Finish, Proceed, Goto, NoCall
  <2>2. Remaining(call[t]) \in Int
    BY DEF CallInv, Remaining
  <2> QED BY <1>5, <2>1, <2>2, RecvLoopStep DEF RecvAgain
<1>6. ASSUME NEW t \in Thread, Schedule(t) PROVE RingStep /\ CallInv'
  BY <1>6 DEF Schedule, ExchangeSchedule, Reschedule, Executes, RingStep, CallInv, Goto
<1>7. ASSUME NEW t \in Thread, ResetBegin(t) \/ ResetTurn(t) \/ ResetEnd(t)
      PROVE  RingStep /\ CallInv'
  BY <1>7 DEF ResetBegin, ResetTurn, ResetEnd, ExchangeResetBegin, ExchangeResetTurn,
              ExchangeResetEnd, ResumeAllMasked, RingStep, CallInv, Goto
<1>8. ASSUME NEW t \in Thread, DeleteBegin(t) \/ DeleteStep(t)
      PROVE  RingStep /\ CallInv'
  BY <1>8 DEF DeleteBegin, DeleteStep, ExchangeDeleteBegin, ExchangeDeleteStep,
              ResumeAllTest, ResumeAllBody, RingStep, CallInv, Goto
<1>9. ASSUME TickInterrupt PROVE RingStep /\ CallInv'
  <2>1. UNCHANGED <<ring, pc>>
    BY <1>9 DEF TickInterrupt, ExchangeInterrupt, Interrupt, Tick, TimerFire, TimerCheckEnd
  <2>2. call' \in [Thread -> [msg : Message \cup {Nothing}, timeout : Int, since : Int]]
        /\ \A t \in Thread : call'[t].msg = call[t].msg
    BY <1>9 DEF TickInterrupt, ExchangeInterrupt, CallInv
  <2> QED BY <2>1, <2>2 DEF RingStep, CallInv
<1>10. ASSUME NEW m \in Message, IsrSend(m) PROVE RingStep /\ CallInv'
  BY <1>10 DEF IsrSend, RingStep, CallInv
<1>11. CASE UNCHANGED vars
  BY <1>11 DEF vars, ring, RingStep, CallInv
<1> QED BY <1>1, <1>2, <1>3, <1>4, <1>5, <1>6, <1>7, <1>8, <1>9, <1>10, <1>11
        DEF Next, ThreadStep

LEMMA RingStepInv == RingInv /\ RingStep => RingInv'
<1> SUFFICES ASSUME RingInv, RingStep PROVE RingInv'
  OBVIOUS
<1> USE MailboxAssumption
<1>1. CASE UNCHANGED ring
  BY <1>1 DEF ring, RingInv, Slot
<1>2. ASSUME NEW m \in Message, entry < Size, Put(m) PROVE RingInv'
  <2>1. \A i \in 0 .. entry : Slot(out_offset, i) \in 0 .. Size - 1
    BY <1>2 DEF Put, RingInv, Slot
  <2>2. /\ entry' = entry + 1 /\ out_offset' = out_offset
        /\ pool' = [pool EXCEPT ![in_offset] = m] /\ in_offset = Slot(out_offset, entry)
    BY <1>2 DEF Put, RingInv
  <2>3. \A i \in 0 .. entry' - 1 : pool'[Slot(out_offset', i)] \in Message
    BY <2>1, <2>2 DEF RingInv
  <2>4. in_offset' \in 0 .. Size - 1
        /\ in_offset' = IF entry' = Size THEN out_offset' ELSE Slot(out_offset', entry')
    BY <1>2 DEF Put, RingInv, Slot, Advance
  <2> QED BY <1>2, <2>2, <2>3, <2>4 DEF RingInv
<1>3. ASSUME NEW m \in Message, PutFirst(m), UNCHANGED <<in_offset, got>> PROVE RingInv'
  <2>1. /\ entry' = entry + 1 /\ entry < Size /\ out_offset' \in 0 .. Size - 1
        /\ pool' = [pool EXCEPT ![out_offset'] = m]
    BY <1>3 DEF PutFirst, RingInv, Rewind
  <2>2. /\ Slot(out_offset', 0) = out_offset'
        /\ \A i \in 1 .. entry : Slot(out_offset', i) = Slot(out_offset, i - 1)
    BY <1>3 DEF PutFirst, RingInv, Slot, Rewind
  <2>3. \A i \in 0 .. entry - 1 : /\ Slot(out_offset, i) \in 0 .. Size - 1
                                  /\ Slot(out_offset, i) # out_offset'
    BY <1>3 DEF PutFirst, RingInv, Slot, Rewind
  <2>4. ASSUME NEW i \in 0 .. entry' - 1 PROVE pool'[Slot(out_offset', i)] \in Message
    <3>1. CASE i = 0
      BY <2>1, <2>2, <3>1 DEF RingInv
    <3>2. CASE i # 0
      <4>1. i \in 1 .. entry /\ i - 1 \in 0 .. entry - 1
        BY <2>1, <3>2 DEF RingInv
      <4>2. Slot(out_offset', i) = Slot(out_offset, i - 1)
        BY <2>2, <4>1
      <4> QED BY <2>1, <2>3, <4>1, <4>2 DEF RingInv
    <3> QED BY <3>1, <3>2
  <2>5. in_offset' = IF entry' = Size THEN out_offset' ELSE Slot(out_offset', entry')
    BY <1>3 DEF PutFirst, RingInv, Slot, Rewind
  <2> QED BY <1>3, <2>1, <2>4, <2>5 DEF RingInv
<1>4. CASE entry > 0 /\ Get
  <2>1. /\ entry' = entry - 1 /\ pool' = pool /\ in_offset' = in_offset
        /\ out_offset' \in 0 .. Size - 1
    BY <1>4 DEF Get, RingInv, Advance
  <2>2. \A i \in 0 .. entry - 1 : Slot(out_offset', i) = Slot(out_offset, i + 1)
    BY <1>4 DEF Get, RingInv, Slot, Advance
  <2>3. \A i \in 0 .. entry' - 1 : pool'[Slot(out_offset', i)] \in Message
    BY <2>1, <2>2 DEF RingInv
  <2>4. in_offset' = IF entry' = Size THEN out_offset' ELSE Slot(out_offset', entry')
    BY <1>4 DEF Get, RingInv, Slot, Advance
  <2> QED BY <1>4, <2>1, <2>3, <2>4 DEF RingInv
<1>5. CASE entry' = 0 /\ in_offset' = 0 /\ out_offset' = 0 /\ UNCHANGED <<pool, got>>
  BY <1>5 DEF RingInv, Slot
<1> QED BY <1>1, <1>2, <1>3, <1>4, <1>5 DEF RingStep

\* The offsets and the count always describe one stretch of the ring, filled
\* with messages.
THEOREM MailboxRing == Spec => []RingInv
<1>1. Init => CallInv /\ RingInv
  BY MailboxAssumption DEF Init, ExchangeInit, ProcessorInit, CallInv, NoCall, RingInv, Slot
<1>2. CallInv /\ RingInv /\ [Next]_vars => CallInv' /\ RingInv'
  BY NextStep, RingStepInv
<1> QED BY <1>1, <1>2, PTL DEF Spec

queue == [i \in 1 .. entry |-> pool[Slot(out_offset, i - 1)]]

\* A stretch of a ring filled with messages is a sequence of them.
LEMMA QueueType ==
  ASSUME NEW p, NEW o, NEW n \in Nat,
         \A i \in 0 .. n - 1 : p[Slot(o, i)] \in Message
  PROVE  LET q == [i \in 1 .. n |-> p[Slot(o, i - 1)]]
         IN  q \in Seq(Message) /\ Len(q) = n
<1>1. \A i \in 1 .. n : p[Slot(o, i - 1)] \in Message
  OBVIOUS
<1> QED BY <1>1

LEMMA RingStepFifo ==
  ASSUME RingInv, RingInv', RingStep
  PROVE  [Fifo!Next]_<<queue, got>>
<1> USE MailboxAssumption
<1>0. /\ queue \in Seq(Message) /\ Len(queue) = entry
      /\ \A i \in 1 .. entry : queue[i] = pool[Slot(out_offset, i - 1)]
  <2>1. entry \in Nat /\ \A i \in 0 .. entry - 1 : pool[Slot(out_offset, i)] \in Message
    BY DEF RingInv
  <2> QED BY <2>1, QueueType DEF queue
<1>a. /\ queue' \in Seq(Message) /\ Len(queue') = entry'
      /\ \A i \in 1 .. entry' : queue'[i] = pool'[Slot(out_offset', i - 1)]
  <2>1. entry' \in Nat
    BY DEF RingInv
  <2>2. \A i \in 0 .. entry' - 1 : pool'[Slot(out_offset', i)] \in Message
    BY DEF RingInv
  <2>3. queue' = [i \in 1 .. entry' |-> pool'[Slot(out_offset', i - 1)]]
    BY DEF queue
  <2>4. PICK n, p, o, q : n = entry' /\ p = pool' /\ o = out_offset' /\ q = queue'
    OBVIOUS
  <2>5. /\ n \in Nat /\ \A i \in 0 .. n - 1 : p[Slot(o, i)] \in Message
        /\ q = [i \in 1 .. n |-> p[Slot(o, i - 1)]]
    BY <2>1, <2>2, <2>3, <2>4
  <2>6. q \in Seq(Message) /\ Len(q) = n
    BY <2>5, QueueType
  <2> QED BY <2>3, <2>4, <2>6
<1>1. CASE UNCHANGED ring
  BY <1>1 DEF ring, queue, Slot
<1>2. ASSUME NEW m \in Message, entry < Size, Put(m) PROVE Fifo!Put(m)
  <2>0. /\ entry' = entry + 1 /\ out_offset' = out_offset
        /\ pool' = [pool EXCEPT ![in_offset] = m] /\ in_offset = Slot(out_offset, entry)
    BY <1>2 DEF Put, RingInv
  <2>1. ASSUME NEW i \in 1 .. entry PROVE queue'[i] = queue[i]
    <3>1. i \in 1 .. entry' /\ Slot(out_offset, i - 1) # in_offset
      BY <1>2, <2>0 DEF RingInv, Slot
    <3>2. Slot(out_offset, i - 1) \in 0 .. Size - 1
      BY <1>2 DEF RingInv, Slot
    <3> QED BY <1>0, <1>a, <2>0, <3>1, <3>2 DEF RingInv
  <2>2. queue'[entry + 1] = m
    <3>1. entry + 1 \in 1 .. entry' /\ (entry + 1) - 1 = entry
      BY <2>0 DEF RingInv
    <3> QED BY <1>a, <2>0, <3>1 DEF RingInv
  <2>3. queue' = Append(queue, m)
    BY <1>0, <1>a, <2>0, <2>1, <2>2, SeqEqual
  <2> QED BY <1>0, <1>2, <2>3 DEF Fifo!Put, Put, queue
<1>3. ASSUME NEW m \in Message, PutFirst(m), UNCHANGED <<in_offset, got>>
      PROVE  Fifo!PutFirst(m)
  <2>1. entry' = entry + 1 /\ queue'[1] = m
    BY <1>a, <1>3 DEF PutFirst, RingInv, Slot, Rewind
  <2>2. \A i \in 1 .. entry : queue'[i + 1] = queue[i]
    BY <1>0, <1>a, <1>3 DEF PutFirst, RingInv, Slot, Rewind
  <2>3. queue' = <<m>> \o queue
    <3>1. /\ <<m>> \o queue \in Seq(Message) /\ Len(<<m>> \o queue) = entry + 1
          /\ (<<m>> \o queue)[1] = m
          /\ \A i \in 2 .. entry + 1 : (<<m>> \o queue)[i] = queue[i - 1]
      BY <1>0, ConcatProperties DEF RingInv
    <3>2. \A i \in 2 .. entry + 1 : queue'[i] = queue[i - 1]
      <4> SUFFICES ASSUME NEW i \in 2 .. entry + 1 PROVE queue'[i] = queue[i - 1]
        OBVIOUS
      <4>1. i - 1 \in 1 .. entry /\ (i - 1) + 1 = i
        BY DEF RingInv
      <4> QED BY <2>2, <4>1
    <3>3. \A i \in 1 .. entry + 1 : queue'[i] = (<<m>> \o queue)[i]
      BY <2>1, <3>1, <3>2 DEF RingInv
    <3> HIDE DEF queue
    <3> QED BY <1>a, <2>1, <3>1, <3>3, SeqEqual
  <2> QED BY <1>0, <1>3, <2>3 DEF Fifo!PutFirst, PutFirst, queue
<1>4. ASSUME entry > 0, Get PROVE Fifo!Get
  <2>1. queue # <<>> /\ Head(queue) = pool[out_offset]
    BY <1>0, <1>4 DEF RingInv, Slot
  <2>2. entry' = entry - 1 /\ \A i \in 1 .. entry - 1 : queue'[i] = queue[i + 1]
    BY <1>0, <1>a, <1>4 DEF Get, RingInv, Slot, Advance
  <2>3. queue' = Tail(queue)
    BY <1>0, <1>a, <2>1, <2>2, SeqEqual, HeadTailProperties
  <2> QED BY <1>4, <2>1, <2>3 DEF Fifo!Get, Get, queue
<1>5. CASE entry' = 0 /\ in_offset' = 0 /\ out_offset' = 0 /\ UNCHANGED <<pool, got>>
  <2>1. queue' = <<>>
    BY <1>a, <1>5
  <2> QED BY <1>5, <2>1 DEF Fifo!Next, Fifo!Clear, queue
<1> QED BY <1>1, <1>2, <1>3, <1>4, <1>5 DEF RingStep, Fifo!Next

\* rt_mb_send, rt_mb_urgent, rt_mb_recv and the reset implement a bounded queue:
\* no message is lost, duplicated, overwritten or overtaken.
THEOREM MailboxFifo == Spec => ImplementsFifo
<1>1. Init => CallInv /\ RingInv /\ Fifo!Init
  BY MailboxAssumption DEF Init, ExchangeInit, ProcessorInit, CallInv, NoCall, RingInv, Slot, Fifo!Init
<1>2. CallInv /\ RingInv /\ [Next]_vars =>
        CallInv' /\ RingInv' /\ [Fifo!Next]_<<queue, got>>
  BY NextStep, RingStepInv, RingStepFifo
<1> QED BY <1>1, <1>2, PTL DEF Spec, ImplementsFifo, Fifo!Spec, queue

-----------------------------------------------------------------------------
(* The mailbox: its threads *)

\* The messages and the free slots.
Holds(e, r) == e \in Nat /\ r \in Nat /\ e = entry /\ r = Size - entry

\* A message comes in, from a thread that leaves with it or from an interrupt
\* handler, and the first receiver is woken.
LEMMA PutKeeps ==
  ASSUME NEW e, NEW r, NEW e2, NEW r2, Holds(e, r), Holds(e2, r2)', ExchangeInv(e, r),
         RingInv, entry < Size, entry' = entry + 1, object' = object,
         NEW t \in Thread, NEW L \in SUBSET {t}, \A u \in L : Side(pc[u]) # "recv",
         L \subseteq Thread \ Asleep(k), Leaves(L),
         Released(k', First(Receivers)), k'.err = k.err,
         k'.stat[k'.cur] = "RUNNING" \/ pc' = pc,
         call' \in [Thread -> CallType],
         due' \in [Thread -> Nat],
         \A u \in Thread \ L : call'[u] = call[u] /\ due'[u] = due[u]
  PROVE  ExchangeInv(e2, r2)'
<1>1. /\ e \in Nat /\ r \in Nat /\ e2 \in Nat /\ r2 \in Nat
      /\ e2 = e + 1 /\ r2 = r - 1
  <2>1. entry \in Nat /\ Size \in Nat
    BY MailboxAssumption DEF RingInv
  <2> QED BY <2>1 DEF Holds
<1>2. ThreadsInv /\ L \cap WokenReceivers = {}
  BY DEF ExchangeInv, WokenReceivers, Woken, Side
<1>3. First(Receivers) \in SUBSET Asleep(k)
  BY <1>2, WakeEffect
<1>4. Answers(e, e2, Receivers, WokenReceivers, First(Receivers), L)
  BY <1>1, <1>2 DEF Answers
<1>5. Answers(r, r2, Senders, WokenSenders, First(Receivers), L)
  BY <1>1 DEF Answers
<1>6. L \in SUBSET (Thread \ Asleep(k))
  OBVIOUS
<1>7. \A u \in Thread \ (First(Receivers) \cup L) : k'.err[u] = k.err[u]
  OBVIOUS
<1> QED BY <1>1, <1>3, <1>4, <1>5, <1>6, <1>7, StepKeeps

\* A message is taken out, and the first sender is woken.
LEMMA GetKeeps ==
  ASSUME NEW e, NEW r, NEW e2, NEW r2, Holds(e, r), Holds(e2, r2)', ExchangeInv(e, r),
         RingInv, entry > 0, entry' = entry - 1, object' = object,
         NEW t \in Thread, Side(pc[t]) # "send", t \notin Asleep(k), Leaves({t}),
         Released(k', First(Senders)), k'.err = k.err,
         k'.stat[k'.cur] = "RUNNING",
         call' \in [Thread -> CallType],
         due' \in [Thread -> Nat],
         \A u \in Thread \ {t} : call'[u] = call[u] /\ due'[u] = due[u]
  PROVE  ExchangeInv(e2, r2)'
<1>1. /\ e \in Nat /\ r \in Nat /\ e2 \in Nat /\ r2 \in Nat
      /\ e2 = e - 1 /\ r2 = r + 1
  <2>1. entry \in Nat /\ Size \in Nat
    BY MailboxAssumption DEF RingInv
  <2> QED BY <2>1 DEF Holds
<1>2. ThreadsInv /\ {t} \cap WokenSenders = {}
  BY DEF ExchangeInv, WokenSenders, Woken, Side
<1>3. First(Senders) \in SUBSET Asleep(k)
  BY <1>2, WakeEffect
<1>4. Answers(e, e2, Receivers, WokenReceivers, First(Senders), {t})
  BY <1>1 DEF Answers
<1>5. Answers(r, r2, Senders, WokenSenders, First(Senders), {t})
  BY <1>1, <1>2 DEF Answers
<1>6. {t} \in SUBSET (Thread \ Asleep(k))
  OBVIOUS
<1>7. \A u \in Thread \ (First(Senders) \cup {t}) : k'.err[u] = k.err[u]
  OBVIOUS
<1> QED BY <1>1, <1>3, <1>4, <1>5, <1>6, <1>7, StepKeeps

\* As long as the ring is left alone, what is there is what was there.
LEMMA HoldsOn ==
  ASSUME NEW e, NEW r, NEW e2, NEW r2, Holds(e, r), Holds(e2, r2)', UNCHANGED ring
  PROVE  e2 = e /\ r2 = r /\ e \in Nat /\ r \in Nat
BY DEF Holds, ring

LEMMA SendLoopKeeps ==
  ASSUME NEW e, NEW r, NEW e2, NEW r2, Holds(e, r), Holds(e2, r2)', ExchangeInv(e, r),
         RingInv, NEW t \in Thread, t = k.cur, pc[t] \in {"run", "send_woken"},
         NEW m \in Message, NEW n \in Nat \cup {Forever},
         pc[t] = "run" \/ n = Remaining(call[t]), SendLoop(t, m, n)
  PROVE  ExchangeInv(e2, r2)'
<1>0. ThreadsInv /\ TimesInv /\ k.stat[t] = "RUNNING" /\ t \notin Asleep(k) /\ Side(pc[t]) # "recv"
  BY Running DEF ExchangeInv, Side
<1>1. object' = object
  BY DEF SendLoop
<1>2. CASE entry < Size /\ Put(m) /\ k' = PutWakes /\ Finish(t, k.wait[Receivers] # <<>>)
  <2>1. Released(k', First(Receivers)) /\ k'.err = k.err
    BY <1>0, <1>2, WakeEffect DEF PutWakes
  <2>2. k'.stat[k'.cur] = "RUNNING"
    BY <1>0, <2>1 DEF Released, Wakes, Keeps
  <2>3. entry' = entry + 1
    BY <1>2 DEF Put
  <2>4. {t} \in SUBSET {t} /\ {t} \subseteq Thread \ Asleep(k)
    BY <1>0
  <2> QED BY <1>0, <1>1, <1>2, <2>1, <2>2, <2>3, <2>4, FinishLeaves, PutKeeps
<1>3. CASE entry = Size /\ n = 0 /\ SendGivesUp(t) /\ UNCHANGED ring
  <2>1. e2 = e /\ r2 = r /\ e \in Nat /\ r \in Nat
    BY <1>3, HoldsOn
  <2>2. r = 0 /\ pc[t] \notin {"send", "recv"}
    BY <1>3, MailboxAssumption DEF Holds
  <2> QED BY <1>0, <1>1, <1>3, <2>1, <2>2, GivesUpKeeps
<1>4. CASE entry = Size /\ n # 0 /\ Block(t, Senders, "send", m, n) /\ UNCHANGED ring
  <2>1. e2 = e /\ r2 = r /\ e \in Nat /\ r \in Nat
    BY <1>4, HoldsOn
  <2>2. r = 0 /\ pc[t] \notin {"send", "recv"}
    BY <1>4, MailboxAssumption DEF Holds
  <2>3. pc[t] = "run" \/ (Side(pc[t]) # "none" /\ n = Remaining(call[t]))
    BY DEF Side
  <2> QED BY <1>0, <1>1, <1>4, <2>1, <2>2, <2>3, BlockKeeps
<1> QED BY <1>2, <1>3, <1>4 DEF SendLoop

LEMMA RecvLoopKeeps ==
  ASSUME NEW e, NEW r, NEW e2, NEW r2, Holds(e, r), Holds(e2, r2)', ExchangeInv(e, r),
         RingInv, NEW t \in Thread, t = k.cur, pc[t] \in {"run", "recv_woken"},
         NEW n \in Nat \cup {Forever},
         pc[t] = "run" \/ n = Remaining(call[t]), RecvLoop(t, n)
  PROVE  ExchangeInv(e2, r2)'
<1>0. ThreadsInv /\ TimesInv /\ k.stat[t] = "RUNNING" /\ t \notin Asleep(k) /\ Side(pc[t]) # "send"
  BY Running DEF ExchangeInv, Side
<1>1. object' = object
  BY DEF RecvLoop
<1>2. CASE entry > 0 /\ Get /\ k' = GetWakes /\ Finish(t, k.wait[Senders] # <<>>)
  <2>1. Released(k', First(Senders)) /\ k'.err = k.err
    BY <1>0, <1>2, WakeEffect DEF GetWakes
  <2>2. k'.stat[k'.cur] = "RUNNING"
    BY <1>0, <2>1 DEF Released, Wakes, Keeps
  <2>3. entry' = entry - 1
    BY <1>2 DEF Get
  <2> QED BY <1>0, <1>1, <1>2, <2>1, <2>2, <2>3, FinishLeaves, GetKeeps
<1>3. CASE entry = 0 /\ n = 0 /\ RecvGivesUp(t) /\ UNCHANGED ring
  <2>1. e2 = e /\ r2 = r /\ e \in Nat /\ r \in Nat
    BY <1>3, HoldsOn
  <2>2. e = 0 /\ pc[t] \notin {"send", "recv"}
    BY <1>3, MailboxAssumption DEF Holds
  <2> QED BY <1>0, <1>1, <1>3, <2>1, <2>2, GivesUpKeeps
<1>4. CASE entry = 0 /\ n # 0 /\ Block(t, Receivers, "recv", Nothing, n) /\ UNCHANGED ring
  <2>1. e2 = e /\ r2 = r /\ e \in Nat /\ r \in Nat
    BY <1>4, HoldsOn
  <2>2. e = 0 /\ pc[t] \notin {"send", "recv"}
    BY <1>4, MailboxAssumption DEF Holds
  <2>3. pc[t] = "run" \/ (Side(pc[t]) # "none" /\ n = Remaining(call[t]))
    BY DEF Side
  <2> QED BY <1>0, <1>1, <1>4, <2>1, <2>2, <2>3, BlockKeeps
<1> QED BY <1>2, <1>3, <1>4 DEF RecvLoop

\* rt_mb_send_wait, rt_mb_urgent and rt_mb_recv, from threads.
LEMMA CallStep ==
  ASSUME NEW e, NEW r, NEW e2, NEW r2, Holds(e, r), Holds(e2, r2)', ExchangeInv(e, r),
         CallInv, RingInv, NEW t \in Thread,
         \/ \E m \in Message, n \in Timeouts : Send(t, m, n)
         \/ SendAgain(t)
         \/ \E m \in Message : Urgent(t, m)
         \/ \E n \in Timeouts : Recv(t, n)
         \/ RecvAgain(t)
  PROVE  ExchangeInv(e2, r2)'
<1>0. Timeouts \subseteq Nat \cup {Forever} /\ ThreadsInv /\ TimesInv
  BY ExchangeAssumption DEF ExchangeInv
<1>1. ASSUME NEW m \in Message, NEW n \in Timeouts, Send(t, m, n) PROVE ExchangeInv(e2, r2)'
  BY <1>0, <1>1, SendLoopKeeps DEF Send, Executes
<1>2. ASSUME SendAgain(t) PROVE ExchangeInv(e2, r2)'
  <2>1. t = k.cur /\ pc[t] = "send_woken"
    BY <1>2 DEF SendAgain, Executes
  <2>2. call[t].msg \in Message /\ Remaining(call[t]) \in Nat \cup {Forever}
    BY <1>0, <2>1, RemainingType DEF CallInv, Side
  <2>3. CASE Fails(t) /\ UNCHANGED ring
    BY <2>1, <2>3, HoldsOn, FailsKeeps
  <2>4. CASE SendLoop(t, call[t].msg, Remaining(call[t]))
    BY <2>1, <2>2, <2>4, SendLoopKeeps
  <2> QED BY <1>2, <2>3, <2>4 DEF SendAgain
<1>3. ASSUME NEW m \in Message, Urgent(t, m) PROVE ExchangeInv(e2, r2)'
  <2>0. t = k.cur /\ pc[t] = "run" /\ object' = object /\ entry < Size /\ entry' = entry + 1
    BY <1>3 DEF Urgent, Executes, PutFirst
  <2>1. k.stat[t] = "RUNNING" /\ t \notin Asleep(k) /\ Side(pc[t]) # "recv"
    BY <1>0, <2>0, Running DEF Side
  <2>2. Released(k', First(Receivers)) /\ k'.err = k.err
    BY <1>0, <1>3, WakeEffect DEF PutWakes, Urgent
  <2>3. k'.stat[k'.cur] = "RUNNING"
    BY <2>0, <2>1, <2>2 DEF Released, Wakes, Keeps
  <2>4. {t} \in SUBSET {t} /\ {t} \subseteq Thread \ Asleep(k)
    BY <2>1
  <2>5. /\ Leaves({t})
        /\ call' \in [Thread -> CallType] /\ due' \in [Thread -> Nat]
        /\ \A u \in Thread \ {t} : call'[u] = call[u] /\ due'[u] = due[u]
    BY <1>0, <1>3, FinishLeaves DEF Urgent
  <2> QED BY <2>0, <2>1, <2>2, <2>3, <2>4, <2>5, PutKeeps
<1>4. ASSUME NEW n \in Timeouts, Recv(t, n) PROVE ExchangeInv(e2, r2)'
  BY <1>0, <1>4, RecvLoopKeeps DEF Recv, Executes
<1>5. ASSUME RecvAgain(t) PROVE ExchangeInv(e2, r2)'
  <2>1. t = k.cur /\ pc[t] = "recv_woken"
    BY <1>5 DEF RecvAgain, Executes
  <2>2. Remaining(call[t]) \in Nat \cup {Forever}
    BY <1>0, <2>1, RemainingType DEF Side
  <2>3. CASE Fails(t) /\ UNCHANGED ring
    BY <2>1, <2>3, HoldsOn, FailsKeeps
  <2>4. CASE RecvLoop(t, Remaining(call[t]))
    BY <2>1, <2>2, <2>4, RecvLoopKeeps
  <2> QED BY <1>5, <2>3, <2>4 DEF RecvAgain
<1> QED BY <1>1, <1>2, <1>3, <1>4, <1>5

\* rt_mb_send from an interrupt handler.
LEMMA IsrSendStep ==
  ASSUME NEW e, NEW r, NEW e2, NEW r2, Holds(e, r), Holds(e2, r2)', ExchangeInv(e, r),
         RingInv, NEW m \in Message, IsrSend(m)
  PROVE  ExchangeInv(e2, r2)'
<1>0. /\ ThreadsInv /\ pc \in [Thread -> Points] /\ call \in [Thread -> CallType]
      /\ due \in [Thread -> Nat]
  BY DEF ExchangeInv, ThreadsInv, TimesInv
<1>1. /\ object' = object /\ entry < Size /\ entry' = entry + 1 /\ pc' = pc
      /\ call' = call /\ due' = due
  BY DEF IsrSend, Put
<1>2. Released(k', First(Receivers)) /\ k'.err = k.err
  <2>1. Released(PutWakes, First(Receivers)) /\ PutWakes.err = k.err
    BY <1>0, WakeEffect DEF PutWakes
  <2>2. k' = rt_schedule(PutWakes) \/ k' = PutWakes
    BY DEF IsrSend, PutWakes, Wake
  <2> HIDE DEF PutWakes
  <2> QED BY <1>0, <2>1, <2>2, ScheduledEffect
<1>3. Leaves({})
  BY <1>0, <1>1 DEF Leaves
<1>4. /\ {} \in SUBSET {Idle} /\ {} \subseteq Thread \ Asleep(k) /\ Idle \in Thread
      /\ \A u \in {} : Side(pc[u]) # "recv"
  BY KernelAssumption
<1>5. k'.stat[k'.cur] = "RUNNING" \/ pc' = pc
  BY <1>1
<1> QED BY <1>0, <1>1, <1>2, <1>3, <1>4, <1>5, PutKeeps

-----------------------------------------------------------------------------
(* The mailbox as a whole *)

\* The inductive invariant of the mailbox.
Inv == ExchangeInv(entry, Size - entry) /\ CallInv /\ RingInv /\ ModesInv

\* Every step keeps the balance.
LEMMA NextKeeps ==
  ASSUME NEW e, NEW r, NEW e2, NEW r2, Holds(e, r), Holds(e2, r2)', ExchangeInv(e, r),
         CallInv, RingInv, ModesInv, [Next]_vars
  PROVE  ExchangeInv(e2, r2)'
<1>1. ASSUME UNCHANGED ring,
             \/ \E t \in Thread : \/ ExchangeSchedule(t)
                                  \/ ExchangeResetBegin(t) \/ ExchangeResetTurn(t)
                                  \/ ExchangeDeleteBegin(t) \/ ExchangeDeleteStep(t)
             \/ ExchangeInterrupt
             \/ UNCHANGED <<k, pc, call, due, object>>
      PROVE  ExchangeInv(e2, r2)'
  <2>1. e2 = e /\ r2 = r /\ e \in Nat /\ r \in Nat
    BY <1>1, HoldsOn
  <2>2. ExchangeInv(e, r)'
    BY <1>1, <2>1, ScheduleStep, ResetKeeps, DeleteKeeps, InterruptStep, ExchangeStutters DEF ModesInv
  <2> QED BY <2>1, <2>2
<1>2. ASSUME NEW t \in Thread, ResetEnd(t) PROVE ExchangeInv(e2, r2)'
  BY <1>2, ResetEndKeeps DEF ResetEnd
<1>3. ASSUME NEW t \in Thread, ThreadStep(t) PROVE ExchangeInv(e2, r2)'
  BY <1>1, <1>2, <1>3, CallStep
     DEF ThreadStep, Schedule, ResetBegin, ResetTurn, DeleteBegin, DeleteStep
<1>4. CASE UNCHANGED vars
  BY <1>1, <1>4 DEF vars, ring
<1> QED BY <1>1, <1>3, <1>4, IsrSendStep DEF Next, TickInterrupt

LEMMA InitInv == Init => Inv
<1> SUFFICES ASSUME Init PROVE Inv
  OBVIOUS
<1>1. PICK e, r : e = entry /\ r = Size - entry
  OBVIOUS
<1>2. ExchangeInv(e, r)
  BY ExchangeStarts DEF Init
<1>3. CallInv /\ RingInv /\ ModesInv
  BY MailboxAssumption
     DEF Init, ExchangeInit, ProcessorInit, CallInv, NoCall, RingInv, Slot, ModesInv
<1> QED BY <1>1, <1>2, <1>3 DEF Inv

LEMMA NextModes ==
  ASSUME ModesInv, [Next]_vars
  PROVE  ModesInv'
<1>1. ASSUME NEW t \in Thread, ThreadStep(t) PROVE ModesInv'
  BY <1>1, ExchangeModes
     DEF ThreadStep, Send, SendAgain, SendLoop, Urgent, Recv, RecvAgain, RecvLoop,
         Schedule, ResetBegin, ResetTurn, ResetEnd, DeleteBegin, DeleteStep
<1>2. ASSUME NEW m \in Message, IsrSend(m) PROVE ModesInv'
  BY <1>2 DEF IsrSend, ModesInv
<1>3. CASE UNCHANGED vars
  BY <1>3 DEF vars, ModesInv
<1> QED BY <1>1, <1>2, <1>3, ExchangeModes DEF Next, TickInterrupt

LEMMA InvStep == Inv /\ [Next]_vars => Inv'
<1> SUFFICES ASSUME Inv, [Next]_vars PROVE Inv'
  OBVIOUS
<1>0. CallInv /\ RingInv /\ ModesInv
  BY DEF Inv
<1>1. CallInv' /\ RingInv' /\ ModesInv'
  BY <1>0, NextStep, RingStepInv, NextModes
<1>2. PICK e, r, e2, r2 : e = entry /\ r = Size - entry /\ e2 = entry' /\ r2 = Size - entry'
  OBVIOUS
<1>3. Holds(e, r) /\ Holds(e2, r2)'
  <2>1. entry \in 0 .. Size
    BY <1>0 DEF RingInv
  <2>2. entry' \in 0 .. Size
    BY <1>1 DEF RingInv
  <2>3. \A n \in 0 .. Size : n \in Nat /\ Size - n \in Nat
    BY MailboxAssumption
  <2>4. e \in Nat /\ r \in Nat
    BY <1>2, <2>1, <2>3
  <2>5. e2 \in Nat /\ r2 \in Nat
    BY <1>2, <2>2, <2>3, Zenon
  <2>6. Holds(e, r)
    BY <1>2, <2>4 DEF Holds
  <2>7. Holds(e2, r2)'
    BY <1>2, <2>5 DEF Holds
  <2> QED BY <2>6, <2>7
<1>4. ExchangeInv(e, r)
  BY <1>2 DEF Inv
<1>5. ExchangeInv(e2, r2)'
  BY <1>0, <1>3, <1>4, NextKeeps
<1>6. ExchangeInv(entry, Size - entry)'
  BY <1>2, <1>5 DEF ExchangeInv, Served
<1> QED BY <1>1, <1>6 DEF Inv

\* No wake-up is lost and the ring is sound at every point where an interrupt
\* can come into rt_mb_send_wait, rt_mb_urgent, rt_mb_recv, rt_mb_control or
\* rt_mb_delete: nobody sleeps through a message or a free slot.
THEOREM MailboxCorrect == Spec => []MailboxInv
<1>1. Inv => MailboxInv
  BY DEF Inv, ExchangeInv, Served, WokenReceivers, WokenSenders, ReceiversWoken, SendersWoken,
         ThreadsInv, TimesInv, ModesInv, CallInv, MailboxInv, TypeOK, CallType
<1> QED BY <1>1, InitInv, InvStep, PTL DEF Spec

\* However often a thread of rt_mb_send_wait or rt_mb_recv is woken in vain, its
\* timer expires exactly at the caller's deadline.
THEOREM MailboxDeadlines == Spec => []DeadlineKept
<1>1. Inv => DeadlineKept
  BY DEF Inv, ExchangeInv, TimesInv
<1> QED BY <1>1, InitInv, InvStep, PTL DEF Spec

-----------------------------------------------------------------------------
(* The message queue: lists that are linked through next *)

\* s is the list of blocks that starts at b and is linked by nx.
IsChain(nx, b, s) ==
  /\ s \in Seq(Item)
  /\ \A i, j \in 1 .. Len(s) : s[i] = s[j] => i = j
  /\ b = IF Len(s) = 0 THEN NULL ELSE s[1]
  /\ \A i \in 1 .. Len(s) : nx[s[i]] = IF i = Len(s) THEN NULL ELSE s[i + 1]

\* Such a list has no more blocks than there are.
LEMMA ChainLength ==
  ASSUME NEW s \in Seq(Item), \A i, j \in 1 .. Len(s) : s[i] = s[j] => i = j
  PROVE  Len(s) \in Nat /\ Cardinality(Item) \in Nat /\ Len(s) <= Cardinality(Item)
<1>1. Len(s) \in Nat /\ s \in [1 .. Len(s) -> Item]
  BY LenProperties
<1>2. s \in Injection(1 .. Len(s), Item)
  BY <1>1 DEF Injection, IsInjective
<1>3. Cardinality(1 .. Len(s)) <= Cardinality(Item)
  BY <1>2, MessageQueueAssumption, FS_Injection
<1>4. Cardinality(1 .. Len(s)) = Len(s)
  BY <1>1, FS_Interval
<1>5. Cardinality(Item) \in Nat
  BY MessageQueueAssumption, FS_CardinalityType
<1> QED BY <1>1, <1>3, <1>4, <1>5

\* The walk from the first block meets the blocks in their order, then NULL.
LEMMA WalkIs ==
  ASSUME NEW nx, NEW b, NEW s, IsChain(nx, b, s)
  PROVE  \A i \in 1 .. Cardinality(Item) + 1 :
           Walk(nx, b)[i] = IF i <= Len(s) THEN s[i] ELSE NULL
<1> DEFINE N == Cardinality(Item) + 1
           n == Len(s)
           f == [i \in 1 .. N |-> IF i <= n THEN s[i] ELSE NULL]
           w == Walk(nx, b)
           Turn(g) == [i \in 1 .. N |-> IF i = 1 THEN b
                                        ELSE IF g[i - 1] = NULL THEN NULL ELSE nx[g[i - 1]]]
<1>0. /\ n \in Nat /\ N \in Nat /\ n < N /\ NULL \notin Item
      /\ \A i \in 1 .. n : s[i] \in Item
      /\ b = IF n = 0 THEN NULL ELSE s[1]
      /\ \A i \in 1 .. n : nx[s[i]] = IF i = n THEN NULL ELSE s[i + 1]
  <2>1. s \in Seq(Item) /\ \A i, j \in 1 .. Len(s) : s[i] = s[j] => i = j
    BY DEF IsChain
  <2>2. Len(s) \in Nat /\ Cardinality(Item) \in Nat /\ Len(s) <= Cardinality(Item)
    BY <2>1, ChainLength
  <2>3. \A i \in 1 .. n : s[i] \in Item
    BY <2>1, LenProperties
  <2> QED BY <2>2, <2>3, MessageQueueAssumption DEF IsChain
<1>1. w = CHOOSE g : g = Turn(g)
  BY DEF Walk
<1> HIDE DEF N, n, w
<1>2. f = Turn(f)
  <2>1. ASSUME NEW i \in 1 .. N
        PROVE  f[i] = IF i = 1 THEN b ELSE IF f[i - 1] = NULL THEN NULL ELSE nx[f[i - 1]]
    <3>1. CASE i = 1
      BY <1>0, <3>1
    <3>2. CASE i # 1
      <4>1. i - 1 \in 1 .. N /\ i \in Int /\ i - 1 + 1 = i
        BY <1>0, <3>2
      <4>2. f[i - 1] = IF i - 1 <= n THEN s[i - 1] ELSE NULL
        BY <4>1
      <4>3. f[i] = IF i <= n THEN s[i] ELSE NULL
        OBVIOUS
      <4> HIDE DEF f
      <4>4. CASE i - 1 <= n
        <5>1. i - 1 \in 1 .. n
          BY <1>0, <4>1, <4>4
        <5>2. s[i - 1] \in Item /\ nx[s[i - 1]] = IF i - 1 = n THEN NULL ELSE s[i]
          BY <1>0, <4>1, <5>1
        <5> QED BY <1>0, <3>2, <4>1, <4>2, <4>3, <4>4, <5>2
      <4>5. CASE ~(i - 1 <= n)
        BY <1>0, <3>2, <4>1, <4>2, <4>3, <4>5
      <4> QED BY <4>4, <4>5
    <3> QED BY <3>1, <3>2
  <2> QED BY <2>1
<1> HIDE DEF f
<1>3. w = Turn(w)
  <2> HIDE DEF Turn
  <2>1. \E g : g = Turn(g)
    BY <1>2
  <2> QED BY <1>1, <2>1
<1>4. /\ \A i \in 1 .. N : w[i] = IF i = 1 THEN b ELSE IF w[i - 1] = NULL THEN NULL ELSE nx[w[i - 1]]
      /\ \A i \in 1 .. N : f[i] = IF i = 1 THEN b ELSE IF f[i - 1] = NULL THEN NULL ELSE nx[f[i - 1]]
  BY <1>2, <1>3
<1> HIDE DEF Turn
<1>5. \A i \in 1 .. N : w[i] = f[i]
  <2> DEFINE Bad == {i \in 1 .. N : w[i] # f[i]}
  <2> SUFFICES ASSUME Bad # {} PROVE FALSE
    OBVIOUS
  <2>0. Bad \in SUBSET Nat
    BY <1>0
  <2> HIDE DEF Bad
  <2>1. PICK i \in Bad : \A j \in Bad : i <= j
    BY <2>0, SmallestOf
  <2> USE DEF Bad
  <2>2. CASE i = 1
    BY <1>4, <2>1, <2>2
  <2>3. CASE i # 1
    <3>1. i - 1 \in 1 .. N /\ i - 1 < i
      BY <1>0, <2>3
    <3>2. w[i - 1] = f[i - 1]
      BY <2>1, <3>1
    <3> QED BY <1>4, <2>1, <2>3, <3>2
  <2> QED BY <2>2, <2>3
<1> QED BY <1>5 DEF f, w, N, n

\* So the list is what Chain makes of it.
LEMMA ChainIs ==
  ASSUME NEW nx, NEW b, NEW s, IsChain(nx, b, s)
  PROVE  Chain(nx, b) = s
<1> DEFINE N == Cardinality(Item) + 1
           n == Len(s)
           w == Walk(nx, b)
           IsEnd(j) == (\A i \in 1 .. j : w[i] # NULL) /\ (j = N \/ w[j + 1] = NULL)
<1>1. s \in Seq(Item) /\ \A i, j \in 1 .. Len(s) : s[i] = s[j] => i = j
  BY DEF IsChain
<1>2. /\ n \in Nat /\ N \in Nat /\ n < N /\ NULL \notin Item
      /\ \A i \in 1 .. n : s[i] \in Item
  BY <1>1, ChainLength, LenProperties, MessageQueueAssumption
<1>3. \A i \in 1 .. N : w[i] = IF i <= n THEN s[i] ELSE NULL
  BY WalkIs
<1>4. Chain(nx, b) = SubSeq(w, 1, CHOOSE j \in 0 .. N : IsEnd(j))
  BY DEF Chain
<1> HIDE DEF N, n, w
<1>5. \A i \in 1 .. n : w[i] = s[i] /\ w[i] # NULL
  BY <1>2, <1>3
<1>6. w[n + 1] = NULL
  BY <1>2, <1>3
<1>7. n \in 0 .. N /\ IsEnd(n)
  BY <1>2, <1>5, <1>6
<1>8. ASSUME NEW j \in 0 .. N, IsEnd(j) PROVE j = n
  <2>1. CASE j < n
    <3>1. j + 1 \in 1 .. n /\ j # N
      BY <1>2, <2>1
    <3> QED BY <1>5, <1>8, <3>1
  <2>2. CASE j > n
    <3>1. n + 1 \in 1 .. j
      BY <1>2, <2>2
    <3> QED BY <1>6, <1>8, <3>1
  <2> QED BY <1>2, <2>1, <2>2
<1>9. (CHOOSE j \in 0 .. N : IsEnd(j)) = n
  BY <1>7, <1>8
<1> HIDE DEF IsEnd
<1>10. Chain(nx, b) = SubSeq(w, 1, n)
  BY <1>4, <1>9
<1>11. \A i \in 1 .. n : w[i] \in Item
  BY <1>2, <1>5
<1>12. /\ SubSeq(w, 1, n) \in Seq(Item) /\ Len(SubSeq(w, 1, n)) = n
       /\ \A i \in 1 .. n : SubSeq(w, 1, n)[i] = w[i]
  <2>1. /\ SubSeq(w, 1, n) \in Seq(Item)
        /\ Len(SubSeq(w, 1, n)) = IF 1 <= n THEN n - 1 + 1 ELSE 0
        /\ \A i \in 1 .. n - 1 + 1 : SubSeq(w, 1, n)[i] = w[1 + i - 1]
    BY <1>2, <1>11, SubSeqProperties
  <2> QED BY <1>2, <2>1
<1>13. \A i \in 1 .. n : SubSeq(w, 1, n)[i] = s[i]
  BY <1>5, <1>12
<1>14. SubSeq(w, 1, n) = s
  BY <1>1, <1>12, <1>13, SeqEqual DEF n
<1> QED BY <1>10, <1>14

\* The members and the ends of a list.
LEMMA ChainFacts ==
  ASSUME NEW nx, NEW b, NEW s, IsChain(nx, b, s)
  PROVE  /\ s \in Seq(Item) /\ Len(s) \in Nat /\ IsInjective(s)
         /\ \A x : x \in ToSet(s) <=> \E i \in 1 .. Len(s) : s[i] = x
         /\ ToSet(s) \subseteq Item
         /\ Len(s) = 0 <=> b = NULL
         /\ s = <<>> <=> Len(s) = 0
         /\ Len(s) # 0 => b = s[1] /\ b \in ToSet(s) /\ s[Len(s)] \in ToSet(s)
<1>1. s \in Seq(Item)
  BY DEF IsChain
<1>2. /\ Len(s) \in Nat /\ IsInjective(s)
      /\ \A x : x \in ToSet(s) <=> \E i \in 1 .. Len(s) : s[i] = x
  BY <1>1, SeqViews DEF IsChain
<1>3. \A i \in 1 .. Len(s) : s[i] \in Item
  BY <1>1, LenProperties
<1>4. Len(s) # 0 => b = s[1] /\ 1 \in 1 .. Len(s) /\ Len(s) \in 1 .. Len(s)
  BY <1>2 DEF IsChain
<1>5. Len(s) = 0 <=> b = NULL
  BY <1>3, <1>4, MessageQueueAssumption DEF IsChain
<1>6. s = <<>> <=> Len(s) = 0
  BY <1>1, EmptySeq
<1> QED BY <1>1, <1>2, <1>3, <1>4, <1>5, <1>6

\* Links of other blocks do not matter.
LEMMA ChainFrame ==
  ASSUME NEW nx, NEW b, NEW s, IsChain(nx, b, s), NEW ny,
         \A x \in ToSet(s) : ny[x] = nx[x]
  PROVE  IsChain(ny, b, s)
<1>1. \A i \in 1 .. Len(s) : s[i] \in ToSet(s)
  BY ChainFacts
<1> QED BY <1>1 DEF IsChain

\* The first block leaves.
LEMMA ChainTail ==
  ASSUME NEW nx, NEW b, NEW s, IsChain(nx, b, s), b # NULL
  PROVE  /\ IsChain(nx, nx[b], Tail(s)) /\ Len(Tail(s)) = Len(s) - 1
         /\ ToSet(Tail(s)) = ToSet(s) \ {b} /\ b \in ToSet(s) /\ Head(s) = b
         /\ \A i \in 1 .. Len(s) - 1 : Tail(s)[i] = s[i + 1]
<1> DEFINE r == Tail(s)
<1>1. s \in Seq(Item) /\ IsInjective(s) /\ Len(s) \in Nat /\ Len(s) # 0 /\ b = s[1] /\ b \in ToSet(s) /\ s # <<>>
  BY ChainFacts
<1>2. /\ r \in Seq(Item) /\ Len(r) = Len(s) - 1
      /\ \A i \in 1 .. Len(s) - 1 : r[i] = s[i + 1]
  BY <1>1, HeadTailProperties
<1>3. Head(s) = b
  BY <1>1
<1>4. ToSet(r) = ToSet(s) \ {b}
  BY <1>1, <1>3, TailProps
<1> HIDE DEF r
<1>5. \A i, j \in 1 .. Len(r) : r[i] = r[j] => i = j
  <2> SUFFICES ASSUME NEW i \in 1 .. Len(r), NEW j \in 1 .. Len(r), r[i] = r[j] PROVE i = j
    OBVIOUS
  <2>1. i + 1 \in 1 .. Len(s) /\ j + 1 \in 1 .. Len(s) /\ s[i + 1] = s[j + 1]
    BY <1>1, <1>2
  <2> QED BY <2>1 DEF IsChain
<1>6. nx[b] = IF Len(r) = 0 THEN NULL ELSE r[1]
  <2>1. 1 \in 1 .. Len(s)
    BY <1>1
  <2>2. nx[s[1]] = IF 1 = Len(s) THEN NULL ELSE s[1 + 1]
    BY <2>1 DEF IsChain
  <2> QED BY <1>1, <1>2, <2>2
<1>7. \A i \in 1 .. Len(r) : nx[r[i]] = IF i = Len(r) THEN NULL ELSE r[i + 1]
  <2> SUFFICES ASSUME NEW i \in 1 .. Len(r) PROVE nx[r[i]] = IF i = Len(r) THEN NULL ELSE r[i + 1]
    OBVIOUS
  <2>1. i + 1 \in 1 .. Len(s) /\ r[i] = s[i + 1]
    BY <1>1, <1>2
  <2>2. nx[r[i]] = IF i + 1 = Len(s) THEN NULL ELSE s[i + 1 + 1]
    BY <2>1 DEF IsChain
  <2>3. CASE i = Len(r)
    BY <1>1, <1>2, <2>2, <2>3
  <2>4. CASE i # Len(r)
    <3>1. i + 1 \in 1 .. Len(s) - 1 /\ i + 1 # Len(s)
      BY <1>1, <1>2, <2>4
    <3> QED BY <1>2, <2>2, <2>4, <3>1
  <2> QED BY <2>3, <2>4
<1>8. IsChain(nx, nx[b], r)
  BY <1>2, <1>5, <1>6, <1>7 DEF IsChain
<1> QED BY <1>1, <1>2, <1>3, <1>4, <1>8 DEF r

\* A block is put before the first.
LEMMA ChainCons ==
  ASSUME NEW nx, NEW b, NEW s, IsChain(nx, b, s), NEW c \in Item, c \notin ToSet(s),
         NEW ny, ny[c] = b, \A x \in ToSet(s) : ny[x] = nx[x]
  PROVE  /\ IsChain(ny, c, <<c>> \o s) /\ Len(<<c>> \o s) = Len(s) + 1
         /\ ToSet(<<c>> \o s) = ToSet(s) \cup {c}
         /\ (<<c>> \o s)[1] = c
         /\ \A i \in 2 .. Len(s) + 1 : (<<c>> \o s)[i] = s[i - 1]
<1> DEFINE r == <<c>> \o s
           n == Len(s)
<1>1. /\ s \in Seq(Item) /\ IsInjective(s) /\ n \in Nat
      /\ \A x : x \in ToSet(s) <=> \E i \in 1 .. n : s[i] = x
  BY ChainFacts
<1>2. /\ r \in Seq(Item) /\ Len(r) = n + 1 /\ r[1] = c
      /\ \A i \in 2 .. n + 1 : r[i] = s[i - 1]
  <2>1. <<c>> \in Seq(Item) /\ Len(<<c>>) = 1 /\ <<c>>[1] = c
    OBVIOUS
  <2>2. /\ r \in Seq(Item) /\ Len(r) = 1 + n
        /\ \A i \in 1 .. 1 + n : r[i] = IF i <= 1 THEN <<c>>[i] ELSE s[i - 1]
    BY <1>1, <2>1, ConcatProperties
  <2> HIDE DEF r, n
  <2> QED BY <1>1, <2>1, <2>2
<1>3. Cons(c, s) = r
  BY DEF Cons
<1>4. ToSet(r) = ToSet(s) \cup {c} /\ IsInjective(r)
  <2>1. ToSet(Cons(c, s)) = ToSet(s) \cup {c} /\ IsInjective(Cons(c, s))
    BY <1>1, ConsProps
  <2> HIDE DEF r
  <2> QED BY <1>3, <2>1, Zenon
<1>5. \A i, j \in 1 .. Len(r) : r[i] = r[j] => i = j
  BY <1>2, <1>4, SeqViews
<1> HIDE DEF r
<1>6. \A i \in 1 .. Len(r) : ny[r[i]] = IF i = Len(r) THEN NULL ELSE r[i + 1]
  <2> SUFFICES ASSUME NEW i \in 1 .. n + 1 PROVE ny[r[i]] = IF i = n + 1 THEN NULL ELSE r[i + 1]
    BY <1>2
  <2>1. CASE i = 1
    <3>1. ny[r[i]] = b
      BY <1>2, <2>1
    <3>2. b = IF n = 0 THEN NULL ELSE s[1]
      BY DEF IsChain
    <3>3. n # 0 => r[2] = s[1]
      BY <1>1, <1>2
    <3> QED BY <1>1, <2>1, <3>1, <3>2, <3>3
  <2>2. CASE i # 1
    <3>1. i \in 2 .. n + 1 /\ i - 1 \in 1 .. n /\ i - 1 + 1 = i
      BY <1>1, <2>2
    <3>2. r[i] = s[i - 1] /\ s[i - 1] \in ToSet(s)
      BY <1>1, <1>2, <3>1
    <3>3. nx[s[i - 1]] = IF i - 1 = n THEN NULL ELSE s[i]
      BY <3>1 DEF IsChain
    <3>4. i # n + 1 => r[i + 1] = s[i]
      <4>1. i # n + 1 => i + 1 \in 2 .. n + 1 /\ i + 1 - 1 = i
        BY <1>1, <3>1
      <4> QED BY <1>2, <4>1
    <3> QED BY <1>1, <3>1, <3>2, <3>3, <3>4
  <2> QED BY <2>1, <2>2
<1>7. c = IF Len(r) = 0 THEN NULL ELSE r[1]
  BY <1>1, <1>2
<1>8. IsChain(ny, c, r)
  BY <1>2, <1>5, <1>6, <1>7 DEF IsChain
<1> QED BY <1>2, <1>4, <1>8 DEF r

\* A block is put behind the last.
LEMMA ChainAppend ==
  ASSUME NEW nx, NEW b, NEW s, IsChain(nx, b, s), NEW c \in Item, c \notin ToSet(s),
         NEW ny, ny[c] = NULL, Len(s) # 0 => ny[s[Len(s)]] = c,
         \A x \in ToSet(s) : ny[x] = nx[x] \/ x = s[Len(s)]
  PROVE  /\ IsChain(ny, IF b = NULL THEN c ELSE b, Append(s, c))
         /\ Len(Append(s, c)) = Len(s) + 1 /\ ToSet(Append(s, c)) = ToSet(s) \cup {c}
         /\ Append(s, c)[Len(s) + 1] = c
         /\ \A i \in 1 .. Len(s) : Append(s, c)[i] = s[i]
<1> DEFINE r == Append(s, c)
           n == Len(s)
<1>1. /\ s \in Seq(Item) /\ IsInjective(s) /\ n \in Nat
      /\ \A x : x \in ToSet(s) <=> \E i \in 1 .. n : s[i] = x
      /\ n = 0 <=> b = NULL
      /\ \A i, j \in 1 .. n : s[i] = s[j] => i = j
  BY ChainFacts DEF IsChain
<1>2. /\ r \in Seq(Item) /\ Len(r) = n + 1 /\ r[n + 1] = c
      /\ \A i \in 1 .. n : r[i] = s[i]
  BY <1>1, AppendProperties
<1>3. ToSet(r) = ToSet(s) \cup {c} /\ IsInjective(r)
  BY <1>1, AppendProps
<1>4. \A i, j \in 1 .. Len(r) : r[i] = r[j] => i = j
  BY <1>2, <1>3, SeqViews
<1> HIDE DEF r
<1>5. \A i \in 1 .. Len(r) : ny[r[i]] = IF i = Len(r) THEN NULL ELSE r[i + 1]
  <2> SUFFICES ASSUME NEW i \in 1 .. n + 1 PROVE ny[r[i]] = IF i = n + 1 THEN NULL ELSE r[i + 1]
    BY <1>2
  <2>1. CASE i = n + 1
    BY <1>2, <2>1
  <2>2. CASE i = n
    <3>1. n # 0 /\ i \in 1 .. n
      BY <1>1, <2>2
    <3> QED BY <1>1, <1>2, <2>2, <3>1
  <2>3. CASE i # n /\ i # n + 1
    <3>1. i \in 1 .. n /\ i + 1 \in 1 .. n /\ n \in 1 .. n
      BY <1>1, <2>3
    <3>2. r[i] = s[i] /\ r[i + 1] = s[i + 1] /\ s[i] \in ToSet(s) /\ s[i] # s[n]
      BY <1>1, <1>2, <2>3, <3>1
    <3>3. nx[s[i]] = s[i + 1]
      BY <2>3, <3>1 DEF IsChain
    <3> QED BY <2>3, <3>2, <3>3
  <2> QED BY <2>1, <2>2, <2>3
<1>6. (IF b = NULL THEN c ELSE b) = IF Len(r) = 0 THEN NULL ELSE r[1]
  <2>1. CASE n = 0
    BY <1>1, <1>2, <2>1
  <2>2. CASE n # 0
    <3>1. 1 \in 1 .. n /\ b = s[1]
      BY <1>1, <2>2 DEF IsChain
    <3> QED BY <1>1, <1>2, <2>2, <3>1
  <2> QED BY <2>1, <2>2
<1>7. IsChain(ny, IF b = NULL THEN c ELSE b, r)
  BY <1>2, <1>4, <1>5, <1>6 DEF IsChain
<1> QED BY <1>2, <1>3, <1>7 DEF r

\* All blocks of a list go to the front of another, the first one deepest.
LEMMA ChainReset ==
  ASSUME NEW nx, NEW b, NEW s, NEW c, NEW u, IsChain(nx, b, s), IsChain(nx, c, u),
         ToSet(s) \cap ToSet(u) = {}, NEW ny,
         \A i \in 1 .. Len(s) : ny[s[i]] = IF i = 1 THEN c ELSE s[i - 1],
         \A x \in ToSet(u) : ny[x] = nx[x]
  PROVE  \E v : /\ IsChain(ny, IF b = NULL THEN c ELSE s[Len(s)], v)
                /\ ToSet(v) = ToSet(s) \cup ToSet(u)
<1> DEFINE n == Len(s)
           m == Len(u)
           v == [i \in 1 .. n + m |-> IF i <= n THEN s[n + 1 - i] ELSE u[i - n]]
<1>1. /\ n \in Nat /\ m \in Nat
      /\ \A x : x \in ToSet(s) <=> \E i \in 1 .. n : s[i] = x
      /\ \A x : x \in ToSet(u) <=> \E i \in 1 .. m : u[i] = x
      /\ ToSet(s) \subseteq Item /\ ToSet(u) \subseteq Item
      /\ n = 0 <=> b = NULL
  BY ChainFacts
<1>2. /\ \A i, j \in 1 .. n : s[i] = s[j] => i = j
      /\ \A i, j \in 1 .. m : u[i] = u[j] => i = j
      /\ c = IF m = 0 THEN NULL ELSE u[1]
      /\ \A i \in 1 .. m : nx[u[i]] = IF i = m THEN NULL ELSE u[i + 1]
  BY DEF IsChain
<1>3. \A i \in 1 .. n : s[i] \in ToSet(s) /\ s[i] \in Item
  BY <1>1
<1>4. \A i \in 1 .. m : u[i] \in ToSet(u) /\ u[i] \in Item
  BY <1>1
<1>5. \A i \in 1 .. n : ny[s[i]] = IF i = 1 THEN c ELSE s[i - 1]
  OBVIOUS
<1> HIDE DEF n, m
<1>6. /\ \A i \in 1 .. n : i \in 1 .. n + m /\ n + 1 - i \in 1 .. n /\ v[i] = s[n + 1 - i]
      /\ \A i \in n + 1 .. n + m : i \in 1 .. n + m /\ i - n \in 1 .. m /\ v[i] = u[i - n]
      /\ \A i \in 1 .. n + m : i \in 1 .. n \/ i \in n + 1 .. n + m
  BY <1>1
<1>7. v \in Seq(Item) /\ Len(v) = n + m
  <2>1. \A i \in 1 .. n + m : v[i] \in Item
    BY <1>1, <1>3, <1>4, <1>6
  <2>2. v \in [1 .. n + m -> Item]
    BY <2>1
  <2>3. n + m \in Nat
    BY <1>1
  <2> HIDE DEF v
  <2> QED BY <2>2, <2>3
<1> HIDE DEF v
<1>8. ASSUME NEW i \in 1 .. n + m, NEW j \in 1 .. n + m, v[i] = v[j] PROVE i = j
  <2>0. \A a \in 1 .. n, e \in n + 1 .. n + m : v[a] # v[e]
    <3>1. \A a \in 1 .. n : v[a] \in ToSet(s)
      <4>1. ASSUME NEW a \in 1 .. n PROVE v[a] \in ToSet(s)
        <5>1. n + 1 - a \in 1 .. n /\ v[a] = s[n + 1 - a]
          BY <1>6
        <5> QED BY <1>3, <5>1
      <4> QED BY <4>1
    <3>2. \A a \in n + 1 .. n + m : v[a] \in ToSet(u)
      <4>1. ASSUME NEW a \in n + 1 .. n + m PROVE v[a] \in ToSet(u)
        <5>1. a - n \in 1 .. m /\ v[a] = u[a - n]
          BY <1>6
        <5> QED BY <1>4, <5>1
      <4> QED BY <4>1
    <3> QED BY <3>1, <3>2
  <2>1. CASE i \in 1 .. n /\ j \in 1 .. n
    <3>1. /\ n + 1 - i \in 1 .. n /\ n + 1 - j \in 1 .. n
          /\ s[n + 1 - i] = s[n + 1 - j]
      BY <1>1, <1>6, <1>8, <2>1
    <3>2. n + 1 - i = n + 1 - j
      BY <1>2, <3>1
    <3> QED BY <1>1, <2>1, <3>2
  <2>2. CASE i \in n + 1 .. n + m /\ j \in n + 1 .. n + m
    <3>1. i - n = j - n
      BY <1>2, <1>6, <1>8, <2>2
    <3> QED BY <1>1, <2>2, <3>1
  <2>3. CASE i \in 1 .. n /\ j \in n + 1 .. n + m
    BY <2>0, <1>8, <2>3
  <2>4. CASE j \in 1 .. n /\ i \in n + 1 .. n + m
    BY <2>0, <1>8, <2>4
  <2> QED BY <1>6, <2>1, <2>2, <2>3, <2>4
<1>9. (IF b = NULL THEN c ELSE s[n]) = IF n + m = 0 THEN NULL ELSE v[1]
  <2>1. CASE n = 0
    <3>1. m # 0 => 1 \in n + 1 .. n + m /\ 1 - n = 1
      BY <1>1, <2>1
    <3> QED BY <1>1, <1>2, <1>6, <2>1, <3>1
  <2>2. CASE n # 0
    <3>1. 1 \in 1 .. n /\ n + 1 - 1 = n /\ n + m # 0
      BY <1>1, <2>2
    <3> QED BY <1>1, <1>6, <2>2, <3>1
  <2> QED BY <2>1, <2>2
<1>10. ASSUME NEW i \in 1 .. n + m PROVE ny[v[i]] = IF i = n + m THEN NULL ELSE v[i + 1]
  <2>1. CASE i \in 1 .. n
    <3>1. /\ n + 1 - i \in 1 .. n /\ v[i] = s[n + 1 - i]
          /\ ny[v[i]] = IF n + 1 - i = 1 THEN c ELSE s[n + 1 - i - 1]
      BY <1>1, <1>5, <1>6, <2>1
    <3>2. CASE i = n
      <4>1. ny[v[i]] = c
        BY <1>1, <3>1, <3>2
      <4>2. m # 0 => n + 1 \in n + 1 .. n + m /\ n + 1 - n = 1
        BY <1>1
      <4>3. m # 0 => v[n + 1] = u[1]
        BY <1>1, <1>6, <4>2
      <4> QED BY <1>1, <1>2, <3>2, <4>1, <4>3
    <3>3. CASE i # n
      <4>1. i + 1 \in 1 .. n /\ n + 1 - (i + 1) = n + 1 - i - 1 /\ n + 1 - i # 1 /\ i # n + m
        BY <1>1, <2>1, <3>3
      <4>2. v[i + 1] = s[n + 1 - (i + 1)]
        BY <1>6, <4>1
      <4> QED BY <3>1, <4>1, <4>2
    <3> QED BY <3>2, <3>3
  <2>2. CASE i \in n + 1 .. n + m
    <3>1. i - n \in 1 .. m /\ v[i] = u[i - n]
      BY <1>6, <2>2
    <3>2. ny[v[i]] = IF i - n = m THEN NULL ELSE u[i - n + 1]
      BY <1>2, <1>4, <3>1
    <3>3. i - n = m <=> i = n + m
      BY <1>1, <2>2
    <3>4. i # n + m => i + 1 \in n + 1 .. n + m /\ i + 1 - n = i - n + 1
      BY <1>1, <2>2
    <3>5. i # n + m => v[i + 1] = u[i - n + 1]
      BY <1>1, <1>6, <3>4
    <3> QED BY <3>2, <3>3, <3>5
  <2> QED BY <1>6, <2>1, <2>2
<1>11. IsChain(ny, IF b = NULL THEN c ELSE s[n], v)
  BY <1>7, <1>8, <1>9, <1>10 DEF IsChain
<1>12. \A x : x \in ToSet(v) <=> \E i \in 1 .. n + m : v[i] = x
  BY <1>7, <1>11, ChainFacts
<1>13. ASSUME NEW x PROVE x \in ToSet(v) <=> x \in ToSet(s) \/ x \in ToSet(u)
  <2>1. ASSUME x \in ToSet(v) PROVE x \in ToSet(s) \/ x \in ToSet(u)
    BY <1>3, <1>4, <1>6, <1>12, <2>1
  <2>2. ASSUME x \in ToSet(s) PROVE x \in ToSet(v)
    <3>1. PICK i \in 1 .. n : s[i] = x
      BY <1>1, <2>2
    <3>2. n + 1 - i \in 1 .. n /\ n + 1 - (n + 1 - i) = i
      BY <1>1
    <3>3. v[n + 1 - i] = x /\ n + 1 - i \in 1 .. n + m
      BY <1>6, <3>1, <3>2
    <3> QED BY <1>12, <3>3
  <2>3. ASSUME x \in ToSet(u) PROVE x \in ToSet(v)
    <3>1. PICK i \in 1 .. m : u[i] = x
      BY <1>1, <2>3
    <3>2. n + i \in n + 1 .. n + m /\ n + i - n = i
      BY <1>1
    <3>3. v[n + i] = x /\ n + i \in 1 .. n + m
      BY <1>1, <1>6, <3>1, <3>2
    <3> QED BY <1>12, <3>3
  <2> QED BY <2>1, <2>2, <2>3
<1> QED BY <1>11, <1>13 DEF n

\* rt_mq_init makes one list of all blocks.
LEMMA ChainOfAll ==
  ASSUME NEW s, s = SetToSeq(Item), NEW nx,
         nx = [b \in Item |-> LET i == CHOOSE j \in DOMAIN s : s[j] = b
                              IN  IF i = Len(s) THEN NULL ELSE s[i + 1]]
  PROVE  IsChain(nx, IF s = <<>> THEN NULL ELSE s[1], s) /\ ToSet(s) = Item
<1> DEFINE n == Cardinality(Item)
<1>1. n \in Nat /\ \E f : f \in Bijection(1 .. n, Item)
  BY MessageQueueAssumption, FS_CardinalityType DEF ExistsBijection
<1>2. s \in [1 .. n -> Item] /\ IsInjective(s)
  <2>1. \E f \in [1 .. n -> Item] : IsInjective(f)
    BY <1>1 DEF Bijection, Injection
  <2> QED BY <2>1 DEF SetToSeq
<1>3. s \in Injection(1 .. n, Item)
  BY <1>2 DEF Injection
<1>4. Cardinality(1 .. n) = n
  BY <1>1, FS_Interval
<1>5. s \in Surjection(1 .. n, Item)
  BY <1>3, <1>4, MessageQueueAssumption, FS_Injection
<1> HIDE DEF n
<1>6. s \in Seq(Item) /\ Len(s) = n
  BY <1>1, <1>2
<1>7. ToSet(s) = Item
  <2>1. \A b \in Item : \E i \in 1 .. n : s[i] = b
    BY <1>5 DEF Surjection
  <2>2. \A b : b \in ToSet(s) <=> \E i \in 1 .. n : s[i] = b
    BY <1>6, SeqViews
  <2> QED BY <1>2, <2>1, <2>2
<1>8. \A i, j \in 1 .. n : s[i] = s[j] => i = j
  BY <1>2 DEF IsInjective
<1>9. ASSUME NEW i \in 1 .. n PROVE nx[s[i]] = IF i = n THEN NULL ELSE s[i + 1]
  <2>1. s[i] \in Item /\ DOMAIN s = 1 .. n
    BY <1>2
  <2>2. (CHOOSE j \in DOMAIN s : s[j] = s[i]) = i
    BY <1>8, <2>1
  <2> DEFINE At(b) == CHOOSE j \in DOMAIN s : s[j] = b
  <2>3. nx = [b \in Item |-> IF At(b) = Len(s) THEN NULL ELSE s[At(b) + 1]]
    OBVIOUS
  <2>4. At(s[i]) = i
    BY <2>2
  <2> HIDE DEF At
  <2>5. nx[s[i]] = IF At(s[i]) = Len(s) THEN NULL ELSE s[At(s[i]) + 1]
    BY <2>1, <2>3
  <2> QED BY <1>6, <2>4, <2>5
<1>10. s = <<>> <=> n = 0
  BY <1>6, EmptySeq
<1> QED BY <1>6, <1>7, <1>8, <1>9, <1>10 DEF IsChain

-----------------------------------------------------------------------------
(* The message queue: its blocks.  The queued blocks s, the free ones u and *)
(* those that threads copy are all blocks, and no two are the same.         *)

\* Where a call has a block to itself.
Copying == {"fill", "link", "fill_urgent", "link_urgent", "drain"}

BlocksInv(s, u) ==
  /\ next \in [Item -> Item \cup {NULL}]
  /\ data \in [Item -> Message \cup {Nothing}]
  /\ msg \in [Thread -> Item \cup {NULL}]
  /\ IsChain(next, head, s) /\ IsChain(next, free, u)
  /\ mq_entry = Len(s)
  /\ tail = IF Len(s) = 0 THEN NULL ELSE s[Len(s)]
  /\ ToSet(s) \cap ToSet(u) = {}
  /\ \A t \in Thread : msg[t] \notin ToSet(s) \cup ToSet(u)
  /\ \A t, v \in Thread : msg[t] = msg[v] /\ msg[t] # NULL => t = v
  /\ \A b \in Item : b \in ToSet(s) \cup ToSet(u) \/ \E t \in Thread : msg[t] = b
  /\ \A b \in ToSet(s) : data[b] \in Message

\* A thread has a block exactly while it copies, and until the block is linked
\* or freed it holds what the thread's call is about.
Copies(t) ==
  /\ msg[t] # NULL <=> pc[t] \in Copying
  /\ pc[t] = "link" => next[msg[t]] = NULL
  /\ pc[t] \in {"link", "link_urgent", "drain"} => data[msg[t]] = call[t].msg
  /\ pc[t] \in {"send", "send_woken", "fill", "link", "fill_urgent", "link_urgent"} =>
       call[t].msg \in Message

CopyInv == \A t \in Thread : Copies(t)

\* What a step may do to the queue of messages.
QueueStep(s, s2) ==
  \/ /\ s2 = s \/ \E b \in Item \ ToSet(s) : /\ s2 = Append(s, b) \/ s2 = <<b>> \o s
                                             /\ data'[b] \in Message
     /\ \A b \in ToSet(s) : data'[b] = data[b]
     /\ mq_got' = mq_got
  \/ /\ s # <<>> /\ s2 = Tail(s) /\ mq_got' = data[s[1]]
     /\ data' = data
  \/ s2 = <<>> /\ mq_got' = mq_got

CallsTyped == pc \in [Thread -> Points] /\ call \in [Thread -> CallType]

\* A thread's step leaves the other threads' copies alone.
LEMMA OthersCopy ==
  ASSUME CopyInv, NEW t \in Thread, Copies(t)',
         \A v \in Thread \ {t} : /\ pc'[v] = pc[v] /\ call'[v] = call[v] /\ msg'[v] = msg[v]
                                 /\ msg[v] # NULL => /\ next'[msg[v]] = next[msg[v]]
                                                     /\ data'[msg[v]] = data[msg[v]]
  PROVE  CopyInv'
<1> SUFFICES ASSUME NEW v \in Thread PROVE Copies(v)'
  BY DEF CopyInv
<1>1. CASE v = t
  BY <1>1
<1>2. CASE v # t
  <2>1. Copies(v) /\ pc'[v] = pc[v] /\ call'[v] = call[v] /\ msg'[v] = msg[v]
    BY <1>2 DEF CopyInv
  <2>2. msg[v] # NULL => next'[msg[v]] = next[msg[v]] /\ data'[msg[v]] = data[msg[v]]
    BY <1>2
  <2>3. pc[v] \in {"link", "link_urgent", "drain"} => pc[v] \in Copying
    BY DEF Copying
  <2> QED BY <2>1, <2>2, <2>3 DEF Copies
<1> QED BY <1>1, <1>2

\* What Proceed does to the threads.
LEMMA ProceedFrame ==
  ASSUME CallsTyped, NEW t \in Thread, NEW at, NEW m, Proceed(t, at, m)
  PROVE  /\ pc'[t] = at /\ call'[t].msg = m
         /\ \A v \in Thread \ {t} : pc'[v] = pc[v] /\ call'[v] = call[v]
BY DEF CallsTyped, Proceed, Goto, NoCall, CallType

\* Steps that leave the blocks alone and change no call that copies.
LEMMA BlocksSame ==
  ASSUME NEW s, NEW u, BlocksInv(s, u), CopyInv, UNCHANGED blocks,
         \A t \in Thread : /\ pc'[t] \in Copying \/ pc[t] \in Copying => pc'[t] = pc[t] /\ call'[t].msg = call[t].msg
                           /\ pc'[t] \in {"send", "send_woken"} => call'[t].msg \in Message
  PROVE  BlocksInv(s, u)' /\ CopyInv' /\ QueueStep(s, s)
<1>1. /\ next' = next /\ data' = data /\ head' = head /\ tail' = tail /\ free' = free
      /\ mq_entry' = mq_entry /\ msg' = msg /\ mq_got' = mq_got
  BY DEF blocks
<1>2. BlocksInv(s, u)'
  BY <1>1 DEF BlocksInv, IsChain
<1>3. CopyInv'
  <2> SUFFICES ASSUME NEW t \in Thread PROVE Copies(t)'
    BY DEF CopyInv
  <2>1. Copies(t)
    BY DEF CopyInv
  <2>2. CASE pc'[t] \in Copying \/ pc[t] \in Copying
    <3>1. pc'[t] = pc[t] /\ call'[t].msg = call[t].msg
      BY <2>2
    <3> QED BY <1>1, <2>1, <3>1 DEF Copies
  <2>3. CASE pc'[t] \notin Copying /\ pc[t] \notin Copying
    <3>1. pc'[t] \notin {"fill", "link", "fill_urgent", "link_urgent", "drain"}
      BY <2>3 DEF Copying
    <3> QED BY <1>1, <2>1, <2>3, <3>1 DEF Copies
  <2> QED BY <2>2, <2>3
<1>4. QueueStep(s, s)
  BY <1>1 DEF QueueStep
<1> QED BY <1>2, <1>3, <1>4

\* A sender takes the first free block.
LEMMA TakeBlockStep ==
  ASSUME NEW s, NEW u, BlocksInv(s, u), CopyInv, CallsTyped, NEW t \in Thread,
         pc[t] \notin Copying, NEW m \in Message, NEW at \in {"fill", "fill_urgent"},
         TakeBlock(t, m, at)
  PROVE  /\ BlocksInv(s, Tail(u))' /\ CopyInv' /\ QueueStep(s, s)
         /\ Len(Tail(u)) = Len(u) - 1
<1>0. /\ free # NULL /\ free' = next[free] /\ msg' = [msg EXCEPT ![t] = free]
      /\ next' = next /\ data' = data /\ head' = head /\ tail' = tail
      /\ mq_entry' = mq_entry /\ mq_got' = mq_got
  BY DEF TakeBlock
<1>1. /\ IsChain(next, next[free], Tail(u)) /\ Len(Tail(u)) = Len(u) - 1
      /\ ToSet(Tail(u)) = ToSet(u) \ {free} /\ free \in ToSet(u)
  BY <1>0, ChainTail DEF BlocksInv
<1>2. ToSet(s) \subseteq Item /\ ToSet(u) \subseteq Item
  BY ChainFacts DEF BlocksInv
<1>3. msg \in [Thread -> Item \cup {NULL}] /\ msg[t] = NULL
  BY DEF BlocksInv, CopyInv, Copies
<1>4. msg'[t] = free /\ \A v \in Thread \ {t} : msg'[v] = msg[v]
  BY <1>0, <1>3
<1>5. BlocksInv(s, Tail(u))'
  <2>1. msg' \in [Thread -> Item \cup {NULL}]
    BY <1>0, <1>1, <1>2, <1>3
  <2>2. IsChain(next', head', s) /\ IsChain(next', free', Tail(u))
    BY <1>0, <1>1 DEF BlocksInv
  <2>3. ToSet(s) \cap ToSet(Tail(u)) = {}
    BY <1>1 DEF BlocksInv
  <2>4. \A v \in Thread : msg'[v] \notin ToSet(s) \cup ToSet(Tail(u))
    BY <1>1, <1>4 DEF BlocksInv
  <2>5. \A v, w \in Thread : msg'[v] = msg'[w] /\ msg'[v] # NULL => v = w
    BY <1>1, <1>4 DEF BlocksInv
  <2>6. \A b \in Item : b \in ToSet(s) \cup ToSet(Tail(u)) \/ \E v \in Thread : msg'[v] = b
    <3> SUFFICES ASSUME NEW b \in Item, b \notin ToSet(s) \cup ToSet(Tail(u))
                 PROVE  \E v \in Thread : msg'[v] = b
      OBVIOUS
    <3>1. CASE b = free
      BY <1>4, <3>1
    <3>2. CASE b # free
      <4>1. PICK v \in Thread : msg[v] = b
        BY <1>1, <3>2 DEF BlocksInv
      <4>2. v # t
        BY <1>3, <4>1, MessageQueueAssumption
      <4> QED BY <1>4, <4>1, <4>2
    <3> QED BY <3>1, <3>2
  <2> QED BY <1>0, <2>1, <2>2, <2>3, <2>4, <2>5, <2>6 DEF BlocksInv
<1>6. CopyInv'
  <2>1. /\ pc'[t] = at /\ call'[t].msg = m
        /\ \A v \in Thread \ {t} : pc'[v] = pc[v] /\ call'[v] = call[v]
    BY ProceedFrame DEF TakeBlock
  <2>2. Copies(t)'
    BY <1>0, <1>4, <2>1 DEF Copies, Copying
  <2> QED BY <1>0, <1>4, <2>1, <2>2, OthersCopy
<1>7. QueueStep(s, s)
  BY <1>0 DEF QueueStep
<1> QED BY <1>1, <1>5, <1>6, <1>7

\* It copies the message into the block.
LEMMA FillStep ==
  ASSUME NEW s, NEW u, BlocksInv(s, u), CopyInv, CallsTyped, NEW t \in Thread, Fill(t)
  PROVE  BlocksInv(s, u)' /\ CopyInv' /\ QueueStep(s, s)
<1> DEFINE b == msg[t]
<1>0. /\ pc[t] \in {"fill", "fill_urgent"}
      /\ next' = IF pc[t] = "fill" THEN [next EXCEPT ![b] = NULL] ELSE next
      /\ data' = [data EXCEPT ![b] = call[t].msg]
      /\ pc' = [pc EXCEPT ![t] = IF pc[t] = "fill" THEN "link" ELSE "link_urgent"]
      /\ call' = call /\ head' = head /\ tail' = tail /\ free' = free
      /\ mq_entry' = mq_entry /\ msg' = msg /\ mq_got' = mq_got
  BY DEF Fill, Executes, Goto
<1>1. b \in Item /\ b \notin ToSet(s) \cup ToSet(u) /\ b # NULL /\ call[t].msg \in Message
  <2>1. Copies(t) /\ pc[t] \in Copying
    BY <1>0 DEF CopyInv, Copying
  <2> QED BY <1>0, <2>1, MessageQueueAssumption DEF Copies, BlocksInv
<1>2. /\ next \in [Item -> Item \cup {NULL}] /\ data \in [Item -> Message \cup {Nothing}]
      /\ ToSet(s) \subseteq Item /\ ToSet(u) \subseteq Item
      /\ \A v \in Thread \ {t} : msg[v] # NULL => msg[v] # b /\ msg[v] \in Item
  BY <1>1, ChainFacts DEF BlocksInv
<1> HIDE DEF b
<1>3. /\ next' \in [Item -> Item \cup {NULL}] /\ data' \in [Item -> Message \cup {Nothing}]
      /\ \A x \in Item \ {b} : next'[x] = next[x] /\ data'[x] = data[x]
      /\ data'[b] = call[t].msg /\ pc[t] = "fill" => next'[b] = NULL
  BY <1>0, <1>1, <1>2
<1>4. IsChain(next', head, s) /\ IsChain(next', free, u)
  <2>1. \A x \in ToSet(s) \cup ToSet(u) : next'[x] = next[x]
    BY <1>1, <1>2, <1>3
  <2>2. IsChain(next, head, s) /\ IsChain(next, free, u)
    BY DEF BlocksInv
  <2>3. PICK ny : ny = next'
    OBVIOUS
  <2>4. IsChain(ny, head, s) /\ IsChain(ny, free, u)
    BY <2>1, <2>2, <2>3, ChainFrame
  <2> QED BY <2>3, <2>4
<1>5. \A x \in ToSet(s) : data'[x] = data[x]
  BY <1>1, <1>2, <1>3
<1>6. BlocksInv(s, u)'
  BY <1>0, <1>3, <1>4, <1>5 DEF BlocksInv
<1>7. CopyInv'
  <2>1. /\ pc'[t] = IF pc[t] = "fill" THEN "link" ELSE "link_urgent"
        /\ \A v \in Thread \ {t} : pc'[v] = pc[v]
    BY <1>0 DEF CallsTyped
  <2>2. Copies(t)'
    BY <1>0, <1>1, <1>3, <2>1 DEF Copies, Copying, b
  <2> QED BY <1>0, <1>2, <1>3, <2>1, <2>2, OthersCopy
<1>8. QueueStep(s, s)
  BY <1>0, <1>5 DEF QueueStep
<1> QED BY <1>6, <1>7, <1>8

\* A block that is linked behind the tail ends the list.
LEMMA LinkedChain ==
  ASSUME NEW nx, nx \in [Item -> Item \cup {NULL}], NEW h, NEW s, IsChain(nx, h, s), h = head,
         tail = IF Len(s) = 0 THEN NULL ELSE s[Len(s)],
         NEW b \in Item, b \notin ToSet(s), nx[b] = NULL, Linked(nx, b)
  PROVE  /\ IsChain(next', head', Append(s, b)) /\ Len(Append(s, b)) = Len(s) + 1
         /\ ToSet(Append(s, b)) = ToSet(s) \cup {b} /\ Append(s, b)[Len(s) + 1] = b
         /\ next' \in [Item -> Item \cup {NULL}] /\ tail' = b
         /\ \A x \in Item \ ToSet(s) : next'[x] = nx[x]
<1>1. /\ Len(s) \in Nat /\ ToSet(s) \subseteq Item
      /\ (Len(s) = 0 <=> h = NULL) /\ (Len(s) # 0 => s[Len(s)] \in ToSet(s))
  BY ChainFacts
<1>2. Len(s) = 0 <=> tail = NULL
  BY <1>1, MessageQueueAssumption
<1>3. /\ next' = IF tail # NULL THEN [nx EXCEPT ![tail] = b] ELSE nx
      /\ tail' = b /\ head' = IF h = NULL THEN b ELSE h
  BY DEF Linked
<1>4. /\ next' \in [Item -> Item \cup {NULL}]
      /\ \A x \in Item \ ToSet(s) : next'[x] = nx[x]
      /\ Len(s) # 0 => next'[s[Len(s)]] = b
      /\ \A x \in ToSet(s) : next'[x] = nx[x] \/ x = s[Len(s)]
  <2>1. CASE Len(s) = 0
    BY <1>1, <1>2, <1>3, <2>1
  <2>2. CASE Len(s) # 0
    <3>1. next' = [nx EXCEPT ![tail] = b] /\ tail \in ToSet(s) /\ tail = s[Len(s)] /\ tail \in Item
      BY <1>1, <1>2, <1>3, <2>2
    <3> QED BY <1>1, <2>2, <3>1
  <2> QED BY <2>1, <2>2
<1>5. PICK ny : ny = next'
  OBVIOUS
<1>6. ny[b] = NULL
  BY <1>4, <1>5
<1>7. /\ IsChain(ny, IF h = NULL THEN b ELSE h, Append(s, b))
      /\ Len(Append(s, b)) = Len(s) + 1 /\ ToSet(Append(s, b)) = ToSet(s) \cup {b}
      /\ Append(s, b)[Len(s) + 1] = b
  BY <1>4, <1>5, <1>6, ChainAppend
<1> QED BY <1>3, <1>4, <1>5, <1>7

\* The blocks when b, which nobody else has, has joined the queue.
LEMMA JoinedBlocks ==
  ASSUME NEW s, NEW u, BlocksInv(s, u), NEW t \in Thread, NEW b \in Item,
         NEW s2, NEW u2, Len(s2) = Len(s) + 1, ToSet(s2) = ToSet(s) \cup {b},
         \/ msg[t] = b /\ msg' = [msg EXCEPT ![t] = NULL] /\ ToSet(u2) = ToSet(u)
         \/ b \in ToSet(u) /\ msg' = msg /\ ToSet(u2) = ToSet(u) \ {b},
         IsChain(next', head', s2), IsChain(next', free', u2),
         next' \in [Item -> Item \cup {NULL}], data' \in [Item -> Message \cup {Nothing}],
         mq_entry' = mq_entry + 1, tail' = s2[Len(s2)],
         data'[b] \in Message, \A x \in ToSet(s) : data'[x] = data[x]
  PROVE  BlocksInv(s2, u2)'
<1>0. /\ msg \in [Thread -> Item \cup {NULL}] /\ b # NULL
      /\ ToSet(s) \subseteq Item /\ ToSet(u) \subseteq Item /\ Len(s) \in Nat
      /\ ToSet(s) \cap ToSet(u) = {} /\ mq_entry = Len(s)
      /\ \A v \in Thread : msg[v] \notin ToSet(s) \cup ToSet(u)
      /\ \A v, w \in Thread : msg[v] = msg[w] /\ msg[v] # NULL => v = w
      /\ \A x \in Item : x \in ToSet(s) \cup ToSet(u) \/ \E v \in Thread : msg[v] = x
      /\ \A x \in ToSet(s) : data[x] \in Message
  BY ChainFacts, MessageQueueAssumption DEF BlocksInv
<1>1. mq_entry' = Len(s2) /\ tail' = IF Len(s2) = 0 THEN NULL ELSE s2[Len(s2)]
  BY <1>0
<1>2. \A x \in ToSet(s2) : data'[x] \in Message
  BY <1>0
<1>3. CASE msg[t] = b /\ msg' = [msg EXCEPT ![t] = NULL] /\ ToSet(u2) = ToSet(u)
  <2>1. /\ msg' \in [Thread -> Item \cup {NULL}] /\ msg'[t] = NULL
        /\ \A v \in Thread \ {t} : msg'[v] = msg[v] /\ msg[v] # b
    BY <1>0, <1>3
  <2>2. ToSet(s2) \cap ToSet(u2) = {}
    BY <1>0, <1>3
  <2>3. \A v \in Thread : msg'[v] \notin ToSet(s2) \cup ToSet(u2)
    <3> SUFFICES ASSUME NEW v \in Thread PROVE msg'[v] \notin ToSet(s2) \cup ToSet(u2)
      OBVIOUS
    <3>1. CASE v = t
      BY <1>0, <1>3, <2>1, <3>1, MessageQueueAssumption
    <3>2. CASE v # t
      BY <1>0, <1>3, <2>1, <3>2
    <3> QED BY <3>1, <3>2
  <2>4. \A v, w \in Thread : msg'[v] = msg'[w] /\ msg'[v] # NULL => v = w
    BY <1>0, <2>1
  <2>5. \A x \in Item : x \in ToSet(s2) \cup ToSet(u2) \/ \E v \in Thread : msg'[v] = x
    BY <1>0, <1>3, <2>1
  <2> QED BY <1>1, <1>2, <2>1, <2>2, <2>3, <2>4, <2>5 DEF BlocksInv
<1>4. CASE b \in ToSet(u) /\ msg' = msg /\ ToSet(u2) = ToSet(u) \ {b}
  BY <1>0, <1>1, <1>2, <1>4 DEF BlocksInv
<1> QED BY <1>3, <1>4

\* The filled block joins the queue, at its end or, when urgent, at its head.
LEMMA LinkStep ==
  ASSUME NEW s, NEW u, BlocksInv(s, u), CopyInv, CallsTyped, NEW t \in Thread, Link(t)
  PROVE  \E s2 : BlocksInv(s2, u)' /\ CopyInv' /\ QueueStep(s, s2) /\ Len(s2) = Len(s) + 1
<1>0. /\ pc[t] \in {"link", "link_urgent"}
      /\ \/ pc[t] = "link" /\ Linked(next, msg[t])
         \/ pc[t] = "link_urgent" /\ LinkedFirst(msg[t])
      /\ mq_entry' = mq_entry + 1 /\ msg' = [msg EXCEPT ![t] = NULL]
      /\ data' = data /\ free' = free /\ mq_got' = mq_got
      /\ Finish(t, k.wait[Receivers] # <<>>)
  BY DEF Link, Executes
<1>1. PICK b : b = msg[t]
  OBVIOUS
<1>2. /\ b \in Item /\ b \notin ToSet(s) \cup ToSet(u) /\ data[b] \in Message
      /\ pc[t] = "link" => next[b] = NULL
  <2>1. Copies(t) /\ pc[t] \in Copying
    BY <1>0 DEF CopyInv, Copying
  <2> QED BY <1>0, <1>1, <2>1 DEF Copies, BlocksInv
<1>3. /\ next \in [Item -> Item \cup {NULL}] /\ data \in [Item -> Message \cup {Nothing}]
      /\ IsChain(next, head, s) /\ IsChain(next, free, u)
      /\ tail = IF Len(s) = 0 THEN NULL ELSE s[Len(s)]
      /\ ToSet(s) \subseteq Item /\ ToSet(u) \subseteq Item /\ Len(s) \in Nat
      /\ ToSet(s) \cap ToSet(u) = {}
  BY ChainFacts DEF BlocksInv
<1>4. PICK nx, h : nx = next /\ h = head
  OBVIOUS
<1>5. \E s2 : /\ IsChain(next', head', s2) /\ Len(s2) = Len(s) + 1 /\ ToSet(s2) = ToSet(s) \cup {b}
              /\ next' \in [Item -> Item \cup {NULL}] /\ tail' = s2[Len(s2)]
              /\ \A x \in Item \ (ToSet(s) \cup {b}) : next'[x] = next[x]
              /\ s2 = Append(s, b) \/ s2 = <<b>> \o s
  <2>1. CASE pc[t] = "link" /\ Linked(next, msg[t])
    <3>1. Linked(nx, b) /\ IsChain(nx, h, s) /\ nx[b] = NULL /\ nx \in [Item -> Item \cup {NULL}]
      BY <1>1, <1>2, <1>3, <1>4, <2>1
    <3>2. /\ IsChain(next', head', Append(s, b)) /\ Len(Append(s, b)) = Len(s) + 1
          /\ ToSet(Append(s, b)) = ToSet(s) \cup {b} /\ Append(s, b)[Len(s) + 1] = b
          /\ next' \in [Item -> Item \cup {NULL}] /\ tail' = b
          /\ \A x \in Item \ ToSet(s) : next'[x] = nx[x]
      BY <1>2, <1>3, <1>4, <3>1, LinkedChain
    <3> QED BY <1>4, <3>2
  <2>2. CASE pc[t] = "link_urgent" /\ LinkedFirst(msg[t])
    <3>1. next' = [nx EXCEPT ![b] = h] /\ head' = b /\ tail' = IF tail = NULL THEN b ELSE tail
      BY <1>1, <1>4, <2>2 DEF LinkedFirst
    <3>2. h \in Item \cup {NULL} /\ (h = NULL <=> Len(s) = 0)
      BY <1>3, <1>4, ChainFacts
    <3>3. next' \in [Item -> Item \cup {NULL}] /\ \A x \in Item \ {b} : next'[x] = nx[x]
      BY <1>2, <1>3, <1>4, <3>1, <3>2
    <3>4. PICK ny : ny = next'
      OBVIOUS
    <3>5. ny[b] = h /\ \A x \in ToSet(s) : ny[x] = nx[x]
      BY <1>2, <1>3, <1>4, <3>1, <3>3, <3>4
    <3>6. /\ IsChain(ny, b, <<b>> \o s) /\ Len(<<b>> \o s) = Len(s) + 1
          /\ ToSet(<<b>> \o s) = ToSet(s) \cup {b} /\ (<<b>> \o s)[1] = b
          /\ \A i \in 2 .. Len(s) + 1 : (<<b>> \o s)[i] = s[i - 1]
      BY <1>2, <1>3, <1>4, <3>5, ChainCons
    <3>7. tail' = (<<b>> \o s)[Len(s) + 1]
      <4>1. CASE Len(s) = 0
        BY <1>3, <3>1, <3>6, <4>1
      <4>2. CASE Len(s) # 0
        <5>1. Len(s) + 1 \in 2 .. Len(s) + 1 /\ Len(s) + 1 - 1 = Len(s)
          BY <1>3, <4>2
        <5>2. tail = s[Len(s)] /\ s[Len(s)] \in Item
          BY <1>3, <4>2, ChainFacts
        <5> QED BY <3>1, <3>6, <5>1, <5>2, MessageQueueAssumption
      <4> QED BY <4>1, <4>2
    <3> QED BY <1>4, <3>1, <3>3, <3>4, <3>6, <3>7
  <2> QED BY <1>0, <2>1, <2>2
<1>6. PICK s2 : /\ IsChain(next', head', s2) /\ Len(s2) = Len(s) + 1 /\ ToSet(s2) = ToSet(s) \cup {b}
                /\ next' \in [Item -> Item \cup {NULL}] /\ tail' = s2[Len(s2)]
                /\ \A x \in Item \ (ToSet(s) \cup {b}) : next'[x] = next[x]
                /\ s2 = Append(s, b) \/ s2 = <<b>> \o s
  BY <1>5
<1>7. IsChain(next', free', u)
  <2>1. PICK ny, f : ny = next' /\ f = free
    OBVIOUS
  <2>2. IsChain(nx, f, u) /\ \A x \in ToSet(u) : ny[x] = nx[x]
    BY <1>2, <1>3, <1>4, <1>6, <2>1
  <2>3. IsChain(ny, f, u)
    BY <2>2, ChainFrame
  <2> QED BY <1>0, <2>1, <2>3
<1>8. BlocksInv(s2, u)'
  BY <1>0, <1>1, <1>2, <1>3, <1>6, <1>7, JoinedBlocks
<1>9. CopyInv'
  <2>1. PICK at \in {"run", "sched"} : Proceed(t, at, Nothing)
    BY <1>0 DEF Finish
  <2>2. /\ pc'[t] = at
        /\ \A v \in Thread \ {t} : pc'[v] = pc[v] /\ call'[v] = call[v]
    BY <2>1, ProceedFrame
  <2>3. /\ msg'[t] = NULL
        /\ \A v \in Thread \ {t} : /\ msg'[v] = msg[v]
                                   /\ msg[v] # NULL => /\ msg[v] \in Item /\ msg[v] # b
                                                       /\ msg[v] \notin ToSet(s)
    BY <1>0, <1>1 DEF BlocksInv
  <2>4. Copies(t)'
    BY <2>1, <2>2, <2>3 DEF Copies, Copying
  <2>5. \A v \in Thread \ {t} : msg[v] # NULL => next'[msg[v]] = next[msg[v]] /\ data'[msg[v]] = data[msg[v]]
    BY <1>0, <1>6, <2>3
  <2> QED BY <2>2, <2>3, <2>4, <2>5, OthersCopy
<1>10. QueueStep(s, s2)
  BY <1>0, <1>2, <1>6 DEF QueueStep
<1> QED BY <1>6, <1>8, <1>9, <1>10

\* An interrupt handler fills the first free block and links it at once.
LEMMA IsrLinkStep ==
  ASSUME NEW s, NEW u, BlocksInv(s, u), CopyInv, CallsTyped, NEW m \in Message, MqIsrSend(m)
  PROVE  \E s2, u2 : /\ BlocksInv(s2, u2)' /\ CopyInv' /\ QueueStep(s, s2)
                     /\ Len(s2) = Len(s) + 1 /\ Len(u2) = Len(u) - 1
<1>0. /\ free # NULL /\ free' = next[free] /\ data' = [data EXCEPT ![free] = m]
      /\ Linked([next EXCEPT ![free] = NULL], free)
      /\ mq_entry' = mq_entry + 1 /\ pc' = pc /\ call' = call /\ msg' = msg /\ mq_got' = mq_got
  BY DEF MqIsrSend
<1>1. /\ next \in [Item -> Item \cup {NULL}] /\ data \in [Item -> Message \cup {Nothing}]
      /\ IsChain(next, head, s) /\ IsChain(next, free, u)
      /\ tail = IF Len(s) = 0 THEN NULL ELSE s[Len(s)]
      /\ ToSet(s) \subseteq Item /\ ToSet(u) \subseteq Item /\ Len(s) \in Nat
      /\ ToSet(s) \cap ToSet(u) = {}
      /\ \A v \in Thread : msg[v] \notin ToSet(s) \cup ToSet(u)
  BY ChainFacts DEF BlocksInv
<1>2. /\ IsChain(next, next[free], Tail(u)) /\ Len(Tail(u)) = Len(u) - 1
      /\ ToSet(Tail(u)) = ToSet(u) \ {free} /\ free \in ToSet(u)
  BY <1>0, <1>1, ChainTail
<1>3. PICK b, nx, h : b = free /\ nx = [next EXCEPT ![b] = NULL] /\ h = head
  OBVIOUS
<1>4. /\ b \in Item /\ b \notin ToSet(s) /\ nx \in [Item -> Item \cup {NULL}] /\ nx[b] = NULL
      /\ \A x \in Item \ {b} : nx[x] = next[x]
  BY <1>1, <1>2, <1>3
<1>5. IsChain(nx, h, s)
  <2>1. \A x \in ToSet(s) : nx[x] = next[x]
    BY <1>1, <1>4
  <2> QED BY <1>1, <1>3, <2>1, ChainFrame
<1>6. /\ IsChain(next', head', Append(s, b)) /\ Len(Append(s, b)) = Len(s) + 1
      /\ ToSet(Append(s, b)) = ToSet(s) \cup {b} /\ Append(s, b)[Len(s) + 1] = b
      /\ next' \in [Item -> Item \cup {NULL}] /\ tail' = b
      /\ \A x \in Item \ ToSet(s) : next'[x] = nx[x]
  <2>1. Linked(nx, b) /\ h = head /\ tail = IF Len(s) = 0 THEN NULL ELSE s[Len(s)]
    BY <1>0, <1>1, <1>3
  <2> QED BY <1>4, <1>5, <2>1, LinkedChain
<1>7. IsChain(next', free', Tail(u))
  <2>1. PICK ny, f : ny = next' /\ f = free'
    OBVIOUS
  <2>2. IsChain(next, f, Tail(u)) /\ \A x \in ToSet(Tail(u)) : ny[x] = next[x]
    BY <1>0, <1>1, <1>2, <1>3, <1>4, <1>6, <2>1
  <2>3. IsChain(ny, f, Tail(u))
    BY <2>2, ChainFrame
  <2> QED BY <2>1, <2>3
<1>8. /\ data' \in [Item -> Message \cup {Nothing}] /\ data'[b] = m
      /\ \A x \in Item \ {b} : data'[x] = data[x]
  BY <1>0, <1>1, <1>3, <1>4
<1>9. \A x \in ToSet(s) : data'[x] = data[x]
  BY <1>1, <1>4, <1>8
<1>10. PICK s2, u2 : s2 = Append(s, b) /\ u2 = Tail(u)
  OBVIOUS
<1>a. BlocksInv(s2, u2)'
  <2>1. Idle \in Thread /\ tail' = s2[Len(s2)]
    BY <1>6, <1>10, KernelAssumption
  <2>2. b \in ToSet(u) /\ msg' = msg /\ ToSet(u2) = ToSet(u) \ {b}
    BY <1>0, <1>2, <1>3, <1>10
  <2>3. /\ IsChain(next', head', s2) /\ IsChain(next', free', u2)
        /\ Len(s2) = Len(s) + 1 /\ ToSet(s2) = ToSet(s) \cup {b}
    BY <1>6, <1>7, <1>10
  <2> QED BY <1>0, <1>4, <1>6, <1>8, <1>9, <2>1, <2>2, <2>3, JoinedBlocks
<1>11. CopyInv'
  <2>1. \A v \in Thread : msg[v] # NULL => /\ msg[v] \in Item /\ msg[v] # b /\ msg[v] \notin ToSet(s)
    BY <1>1, <1>2, <1>3 DEF BlocksInv
  <2>2. \A v \in Thread : msg[v] # NULL => next'[msg[v]] = next[msg[v]] /\ data'[msg[v]] = data[msg[v]]
    BY <1>4, <1>6, <1>8, <2>1
  <2>3. Idle \in Thread /\ Copies(Idle)
    BY KernelAssumption DEF CopyInv
  <2>4. Copies(Idle)'
    <3>1. pc[Idle] \in {"link", "link_urgent", "drain"} => pc[Idle] \in Copying
      BY DEF Copying
    <3> QED BY <1>0, <2>2, <2>3, <3>1 DEF Copies
  <2> QED BY <1>0, <2>2, <2>3, <2>4, OthersCopy
<1>12. QueueStep(s, s2)
  BY <1>0, <1>4, <1>8, <1>9, <1>10 DEF QueueStep
<1> QED BY <1>2, <1>6, <1>10, <1>a, <1>11, <1>12

\* A receiver takes the first message's block.
LEMMA TakeMessageStep ==
  ASSUME NEW s, NEW u, BlocksInv(s, u), CopyInv, CallsTyped, NEW t \in Thread,
         pc[t] \notin Copying, TakeMessage(t)
  PROVE  /\ BlocksInv(Tail(s), u)' /\ CopyInv' /\ QueueStep(s, Tail(s))
         /\ Len(Tail(s)) = Len(s) - 1 /\ data[head] \in Message
<1>0. /\ mq_entry > 0 /\ head' = next[head] /\ tail' = IF tail = head THEN NULL ELSE tail
      /\ mq_entry' = mq_entry - 1 /\ msg' = [msg EXCEPT ![t] = head] /\ mq_got' = data[head]
      /\ Proceed(t, "drain", data[head])
      /\ next' = next /\ data' = data /\ free' = free
  BY DEF TakeMessage, Unlinked
<1>1. /\ IsChain(next, head, s) /\ IsChain(next, free, u) /\ mq_entry = Len(s)
      /\ tail = IF Len(s) = 0 THEN NULL ELSE s[Len(s)]
      /\ Len(s) \in Nat /\ ToSet(s) \subseteq Item /\ ToSet(u) \subseteq Item
      /\ (Len(s) = 0 <=> head = NULL) /\ (Len(s) # 0 => head = s[1]) /\ (s = <<>> <=> Len(s) = 0)
  BY ChainFacts DEF BlocksInv
<1>2. Len(s) # 0 /\ head # NULL /\ head = s[1] /\ s # <<>>
  BY <1>0, <1>1
<1>3. /\ IsChain(next, next[head], Tail(s)) /\ Len(Tail(s)) = Len(s) - 1
      /\ ToSet(Tail(s)) = ToSet(s) \ {head} /\ head \in ToSet(s)
      /\ \A i \in 1 .. Len(s) - 1 : Tail(s)[i] = s[i + 1]
  BY <1>1, <1>2, ChainTail
<1>4. /\ msg \in [Thread -> Item \cup {NULL}] /\ msg[t] = NULL
      /\ ToSet(s) \cap ToSet(u) = {}
      /\ \A v \in Thread : msg[v] \notin ToSet(s) \cup ToSet(u)
      /\ \A v, w \in Thread : msg[v] = msg[w] /\ msg[v] # NULL => v = w
      /\ \A x \in Item : x \in ToSet(s) \cup ToSet(u) \/ \E v \in Thread : msg[v] = x
      /\ \A x \in ToSet(s) : data[x] \in Message
  BY DEF BlocksInv, CopyInv, Copies
<1>5. msg' \in [Thread -> Item \cup {NULL}] /\ msg'[t] = head /\ \A v \in Thread \ {t} : msg'[v] = msg[v]
  BY <1>0, <1>1, <1>3, <1>4
<1>6. PICK r : r = Tail(s)
  OBVIOUS
<1>7. tail' = IF Len(r) = 0 THEN NULL ELSE r[Len(r)]
  <2>1. 1 \in 1 .. Len(s) /\ Len(s) \in 1 .. Len(s) /\ Len(r) = Len(s) - 1
    BY <1>1, <1>2, <1>3, <1>6
  <2>2. tail = head <=> Len(s) = 1
    BY <1>1, <1>2, <2>1 DEF IsChain
  <2>3. CASE Len(s) = 1
    BY <1>0, <2>1, <2>2, <2>3
  <2>4. CASE Len(s) # 1
    <3>1. Len(r) \in 1 .. Len(s) - 1 /\ Len(r) + 1 = Len(s) /\ Len(r) # 0
      BY <1>1, <2>1, <2>4
    <3>2. r[Len(r)] = s[Len(s)]
      BY <1>3, <1>6, <3>1
    <3> QED BY <1>0, <1>1, <1>2, <2>2, <2>4, <3>1, <3>2
  <2> QED BY <2>3, <2>4
<1>8. BlocksInv(r, u)'
  <2>1. IsChain(next', head', r) /\ IsChain(next', free', u) /\ mq_entry' = Len(r)
    BY <1>0, <1>1, <1>3, <1>6
  <2>2. ToSet(r) \cap ToSet(u) = {} /\ \A v \in Thread : msg'[v] \notin ToSet(r) \cup ToSet(u)
    BY <1>3, <1>4, <1>5, <1>6
  <2>3. \A v, w \in Thread : msg'[v] = msg'[w] /\ msg'[v] # NULL => v = w
    BY <1>3, <1>4, <1>5
  <2>4. \A x \in Item : x \in ToSet(r) \cup ToSet(u) \/ \E v \in Thread : msg'[v] = x
    <3> SUFFICES ASSUME NEW x \in Item, x \notin ToSet(r) \cup ToSet(u)
                 PROVE  \E v \in Thread : msg'[v] = x
      OBVIOUS
    <3>1. CASE x = head
      BY <1>5, <3>1
    <3>2. CASE x # head
      <4>1. PICK v \in Thread : msg[v] = x
        BY <1>3, <1>4, <1>6, <3>2
      <4>2. v # t
        BY <1>4, <4>1, MessageQueueAssumption
      <4> QED BY <1>5, <4>1, <4>2
    <3> QED BY <3>1, <3>2
  <2>5. \A x \in ToSet(r) : data'[x] \in Message
    BY <1>0, <1>3, <1>4, <1>6
  <2>6. next' \in [Item -> Item \cup {NULL}] /\ data' \in [Item -> Message \cup {Nothing}]
    BY <1>0 DEF BlocksInv
  <2> QED BY <1>5, <1>7, <2>1, <2>2, <2>3, <2>4, <2>5, <2>6 DEF BlocksInv
<1>9. CopyInv'
  <2>1. /\ pc'[t] = "drain" /\ call'[t].msg = data[head]
        /\ \A v \in Thread \ {t} : pc'[v] = pc[v] /\ call'[v] = call[v]
    BY <1>0, ProceedFrame
  <2>2. Copies(t)'
    BY <1>0, <1>2, <1>5, <2>1 DEF Copies, Copying
  <2> QED BY <1>0, <1>5, <2>1, <2>2, OthersCopy
<1>10. QueueStep(s, r)
  BY <1>0, <1>2, <1>6 DEF QueueStep
<1> QED BY <1>3, <1>4, <1>6, <1>8, <1>9, <1>10

\* The block it has copied becomes the first free one.
LEMMA FreeBlockStep ==
  ASSUME NEW s, NEW u, BlocksInv(s, u), CopyInv, CallsTyped, NEW t \in Thread, FreeBlock(t)
  PROVE  \E u2 : BlocksInv(s, u2)' /\ CopyInv' /\ QueueStep(s, s) /\ Len(u2) = Len(u) + 1
<1>0. /\ pc[t] = "drain" /\ next' = [next EXCEPT ![msg[t]] = free] /\ free' = msg[t]
      /\ msg' = [msg EXCEPT ![t] = NULL]
      /\ Finish(t, k.wait[Senders] # <<>>)
      /\ data' = data /\ head' = head /\ tail' = tail /\ mq_entry' = mq_entry /\ mq_got' = mq_got
  BY DEF FreeBlock, Executes
<1>1. PICK b, f, nx : b = msg[t] /\ f = free /\ nx = next
  OBVIOUS
<1>2. /\ msg \in [Thread -> Item \cup {NULL}] /\ b \in Item /\ b \notin ToSet(s) \cup ToSet(u)
      /\ nx \in [Item -> Item \cup {NULL}] /\ IsChain(nx, head, s) /\ IsChain(nx, f, u)
      /\ ToSet(s) \cap ToSet(u) = {}
      /\ \A v \in Thread : msg[v] \notin ToSet(s) \cup ToSet(u)
      /\ \A v, w \in Thread : msg[v] = msg[w] /\ msg[v] # NULL => v = w
      /\ \A x \in Item : x \in ToSet(s) \cup ToSet(u) \/ \E v \in Thread : msg[v] = x
  <2>1. Copies(t) /\ pc[t] \in Copying
    BY <1>0 DEF CopyInv, Copying
  <2> QED BY <1>0, <1>1, <2>1 DEF Copies, BlocksInv
<1>3. ToSet(s) \subseteq Item /\ ToSet(u) \subseteq Item /\ f \in Item \cup {NULL}
  BY <1>2, ChainFacts
<1>4. PICK ny : ny = next'
  OBVIOUS
<1>5. ny \in [Item -> Item \cup {NULL}] /\ ny[b] = f /\ \A x \in Item \ {b} : ny[x] = nx[x]
  BY <1>0, <1>1, <1>2, <1>3, <1>4
<1>6. /\ \A x \in ToSet(u) : ny[x] = nx[x]
      /\ \A x \in ToSet(s) : ny[x] = nx[x]
  BY <1>2, <1>3, <1>5
<1>7. PICK u2 : IsChain(ny, b, u2) /\ Len(u2) = Len(u) + 1 /\ ToSet(u2) = ToSet(u) \cup {b}
  <2>1. IsChain(nx, f, u) /\ b \in Item /\ b \notin ToSet(u) /\ ny[b] = f /\ \A x \in ToSet(u) : ny[x] = nx[x]
    BY <1>2, <1>5, <1>6
  <2>2. /\ IsChain(ny, b, <<b>> \o u) /\ Len(<<b>> \o u) = Len(u) + 1
        /\ ToSet(<<b>> \o u) = ToSet(u) \cup {b}
    BY <2>1, ChainCons
  <2> QED BY <2>2
<1>8. IsChain(next', head', s)
  <2>1. PICK h : h = head
    OBVIOUS
  <2>2. IsChain(ny, h, s)
    BY <1>2, <1>6, <2>1, ChainFrame
  <2> QED BY <1>0, <1>4, <2>1, <2>2
<1>9. /\ msg' \in [Thread -> Item \cup {NULL}] /\ msg'[t] = NULL
      /\ \A v \in Thread \ {t} : msg'[v] = msg[v] /\ msg[v] # b
  <2>1. \A v \in Thread \ {t} : msg[v] # b
    BY <1>1, <1>2, MessageQueueAssumption
  <2> QED BY <1>0, <1>2, <2>1
<1>10. BlocksInv(s, u2)'
  <2>1. IsChain(next', free', u2) /\ next' \in [Item -> Item \cup {NULL}]
    BY <1>0, <1>1, <1>4, <1>5, <1>7
  <2>2. ToSet(s) \cap ToSet(u2) = {}
    BY <1>2, <1>7
  <2>3. \A v \in Thread : msg'[v] \notin ToSet(s) \cup ToSet(u2)
    <3> SUFFICES ASSUME NEW v \in Thread PROVE msg'[v] \notin ToSet(s) \cup ToSet(u2)
      OBVIOUS
    <3>1. CASE v = t
      BY <1>2, <1>3, <1>7, <1>9, <3>1, MessageQueueAssumption
    <3>2. CASE v # t
      BY <1>2, <1>7, <1>9, <3>2
    <3> QED BY <3>1, <3>2
  <2>4. \A v, w \in Thread : msg'[v] = msg'[w] /\ msg'[v] # NULL => v = w
    BY <1>2, <1>9
  <2>5. \A x \in Item : x \in ToSet(s) \cup ToSet(u2) \/ \E v \in Thread : msg'[v] = x
    BY <1>1, <1>2, <1>7, <1>9
  <2>6. /\ mq_entry' = Len(s) /\ tail' = IF Len(s) = 0 THEN NULL ELSE s[Len(s)]
        /\ data' \in [Item -> Message \cup {Nothing}] /\ \A x \in ToSet(s) : data'[x] \in Message
    BY <1>0 DEF BlocksInv
  <2> QED BY <1>8, <1>9, <2>1, <2>2, <2>3, <2>4, <2>5, <2>6 DEF BlocksInv
<1>11. CopyInv'
  <2>1. PICK at \in {"run", "sched"} : Proceed(t, at, Nothing)
    BY <1>0 DEF Finish
  <2>2. /\ pc'[t] = at
        /\ \A v \in Thread \ {t} : pc'[v] = pc[v] /\ call'[v] = call[v]
    BY <2>1, ProceedFrame
  <2>3. Copies(t)'
    BY <1>9, <2>1, <2>2 DEF Copies, Copying
  <2>4. \A v \in Thread \ {t} : msg[v] # NULL => next'[msg[v]] = next[msg[v]] /\ data'[msg[v]] = data[msg[v]]
    BY <1>0, <1>1, <1>2, <1>4, <1>5, <1>9
  <2> QED BY <1>9, <2>2, <2>3, <2>4, OthersCopy
<1>12. QueueStep(s, s)
  BY <1>0 DEF QueueStep
<1> QED BY <1>7, <1>10, <1>11, <1>12

\* The reset frees all queued blocks, and none that is being copied.
LEMMA ResetStep ==
  ASSUME NEW s, NEW u, BlocksInv(s, u), CopyInv, CallsTyped, NEW t \in Thread, MqResetEnd(t)
  PROVE  \E u2 : BlocksInv(<<>>, u2)' /\ CopyInv' /\ QueueStep(s, <<>>)
<1>1. PICK h, f, nx, ny : h = head /\ f = free /\ nx = next /\ ny = next'
  OBVIOUS
<1>2. /\ msg \in [Thread -> Item \cup {NULL}]
      /\ nx \in [Item -> Item \cup {NULL}] /\ IsChain(nx, h, s) /\ IsChain(nx, f, u)
      /\ tail = IF Len(s) = 0 THEN NULL ELSE s[Len(s)]
      /\ ToSet(s) \cap ToSet(u) = {}
      /\ \A v \in Thread : msg[v] \notin ToSet(s) \cup ToSet(u)
  BY <1>1 DEF BlocksInv
<1>3. Chain(nx, h) = s
  BY <1>2, ChainIs
<1>4. /\ s \in Seq(Item) /\ Len(s) \in Nat /\ DOMAIN s = 1 .. Len(s)
      /\ \A x : x \in ToSet(s) <=> \E i \in 1 .. Len(s) : s[i] = x
      /\ ToSet(s) \subseteq Item /\ ToSet(u) \subseteq Item
      /\ (Len(s) = 0 <=> h = NULL) /\ (s = <<>> <=> Len(s) = 0)
      /\ f \in Item \cup {NULL}
      /\ \A i, j \in 1 .. Len(s) : s[i] = s[j] => i = j
  <2>1. s \in Seq(Item) /\ \A i, j \in 1 .. Len(s) : s[i] = s[j] => i = j
    BY <1>2 DEF IsChain
  <2>2. Len(s) \in Nat /\ DOMAIN s = 1 .. Len(s)
    BY <2>1, SeqViews
  <2>3. /\ \A x : x \in ToSet(s) <=> \E i \in 1 .. Len(s) : s[i] = x
        /\ ToSet(s) \subseteq Item
        /\ (Len(s) = 0 <=> h = NULL) /\ (s = <<>> <=> Len(s) = 0)
    BY <1>2, ChainFacts
  <2>4. ToSet(u) \subseteq Item /\ f \in Item \cup {NULL}
    BY <1>2, ChainFacts
  <2> QED BY <2>1, <2>2, <2>3, <2>4
<1> DEFINE At(b) == CHOOSE j \in DOMAIN s : s[j] = b
<1>5. /\ ny = [b \in Item |-> IF b \in ToSet(s) THEN IF At(b) = 1 THEN f ELSE s[At(b) - 1]
                                                ELSE nx[b]]
      /\ free' = IF s = <<>> THEN f ELSE s[Len(s)]
      /\ head' = NULL /\ tail' = IF h = NULL THEN tail ELSE NULL
      /\ mq_entry' = 0 /\ data' = data /\ msg' = msg /\ mq_got' = mq_got
  BY <1>1, <1>3 DEF MqResetEnd
<1>6. \A i \in 1 .. Len(s) : At(s[i]) = i /\ s[i] \in ToSet(s) /\ s[i] \in Item
  BY <1>4
<1> HIDE DEF At
<1>7. \A i \in 1 .. Len(s) : ny[s[i]] = IF i = 1 THEN f ELSE s[i - 1]
  BY <1>5, <1>6
<1>8. \A x \in Item \ ToSet(s) : ny[x] = nx[x]
  BY <1>5
<1>9. \A x \in ToSet(u) : ny[x] = nx[x]
  BY <1>2, <1>4, <1>8
<1>10. PICK u2 : IsChain(ny, IF h = NULL THEN f ELSE s[Len(s)], u2) /\ ToSet(u2) = ToSet(s) \cup ToSet(u)
  BY <1>2, <1>7, <1>9, ChainReset
<1>11. ny \in [Item -> Item \cup {NULL}]
  <2>1. ASSUME NEW x \in Item PROVE ny[x] \in Item \cup {NULL}
    <3>1. CASE x \in ToSet(s)
      <4>1. PICK i \in 1 .. Len(s) : s[i] = x
        BY <1>4, <3>1
      <4>2. i # 1 => i - 1 \in 1 .. Len(s)
        BY <1>4
      <4> QED BY <1>4, <1>6, <1>7, <4>1, <4>2
    <3>2. CASE x \notin ToSet(s)
      BY <1>2, <1>8, <3>2
    <3> QED BY <3>1, <3>2
  <2> QED BY <1>5, <2>1
<1>12. IsChain(next', head', <<>>) /\ ToSet(<<>>) = {} /\ Len(<<>>) = 0
  BY <1>5 DEF IsChain, ToSet
<1>13. BlocksInv(<<>>, u2)'
  <2>1. IsChain(next', free', u2) /\ next' \in [Item -> Item \cup {NULL}]
    BY <1>1, <1>4, <1>5, <1>10, <1>11
  <2>2. \A v \in Thread : msg'[v] \notin ToSet(u2)
    BY <1>2, <1>5, <1>10
  <2>3. \A x \in Item : x \in ToSet(u2) \/ \E v \in Thread : msg'[v] = x
    BY <1>5, <1>10 DEF BlocksInv
  <2>4. /\ data' \in [Item -> Message \cup {Nothing}] /\ msg' \in [Thread -> Item \cup {NULL}]
        /\ \A v, w \in Thread : msg'[v] = msg'[w] /\ msg'[v] # NULL => v = w
    BY <1>5 DEF BlocksInv
  <2>5. tail' = NULL
    BY <1>2, <1>4, <1>5
  <2> QED BY <1>5, <1>12, <2>1, <2>2, <2>3, <2>4, <2>5 DEF BlocksInv
<1>14. CopyInv'
  <2>1. /\ pc'[t] = "sched" /\ pc[t] = "reset" /\ call' = call
        /\ \A v \in Thread \ {t} : pc'[v] = pc[v]
    BY DEF MqResetEnd, ExchangeResetEnd, ExecutesMasked, Goto, CallsTyped
  <2>2. Copies(t)'
    BY <1>5, <2>1 DEF Copies, Copying, CopyInv
  <2>3. \A v \in Thread \ {t} : msg[v] # NULL => next'[msg[v]] = next[msg[v]] /\ data'[msg[v]] = data[msg[v]]
    BY <1>1, <1>2, <1>5, <1>8
  <2> QED BY <1>5, <2>1, <2>2, <2>3, OthersCopy
<1>15. QueueStep(s, <<>>)
  BY <1>5 DEF QueueStep
<1> QED BY <1>13, <1>14, <1>15

-----------------------------------------------------------------------------
(* The message queue is a bounded queue *)

\* The messages in a list of blocks.
MessagesIn(d, s) == [i \in DOMAIN s |-> d[s[i]]]

Contents(s) == MessagesIn(data, s)

\* They are a sequence of messages.
LEMMA ContentsType ==
  ASSUME NEW d, NEW s \in Seq(Item), \A b \in ToSet(s) : d[b] \in Message,
         NEW q, q = MessagesIn(d, s)
  PROVE  /\ q \in Seq(Message) /\ Len(q) = Len(s)
         /\ \A i \in 1 .. Len(s) : q[i] = d[s[i]]
<1>1. Len(s) \in Nat /\ DOMAIN s = 1 .. Len(s) /\ \A i \in 1 .. Len(s) : d[s[i]] \in Message
  BY SeqViews
<1>2. q \in [1 .. Len(s) -> Message]
  BY <1>1 DEF MessagesIn
<1> QED BY <1>1, <1>2 DEF MessagesIn

\* An element in front of a sequence.
LEMMA InFront ==
  ASSUME NEW S, NEW s \in Seq(S), NEW x \in S
  PROVE  /\ <<x>> \o s \in Seq(S) /\ Len(<<x>> \o s) = Len(s) + 1 /\ (<<x>> \o s)[1] = x
         /\ \A i \in 2 .. Len(s) + 1 : (<<x>> \o s)[i] = s[i - 1]
<1>1. <<x>> \in Seq(S) /\ Len(<<x>>) = 1 /\ <<x>>[1] = x /\ Len(s) \in Nat
  OBVIOUS
<1>2. PICK r, n : r = <<x>> \o s /\ n = Len(s)
  OBVIOUS
<1>3. /\ r \in Seq(S) /\ Len(r) = 1 + n
      /\ \A i \in 1 .. 1 + n : r[i] = IF i <= 1 THEN <<x>>[i] ELSE s[i - 1]
  BY <1>1, <1>2, ConcatProperties
<1> QED BY <1>1, <1>2, <1>3

\* Such a step is a step of the bounded queue, or none.
LEMMA QueueStepFifo ==
  ASSUME NEW s, NEW u, BlocksInv(s, u), NEW s2, NEW u2, BlocksInv(s2, u2)', QueueStep(s, s2)
  PROVE  \/ Contents(s2)' = Contents(s) /\ mq_got' = mq_got
         \/ \E m \in Message : /\ Len(Contents(s)) < Cardinality(Item) /\ mq_got' = mq_got
                               /\ \/ Contents(s2)' = Append(Contents(s), m)
                                  \/ Contents(s2)' = <<m>> \o Contents(s)
         \/ /\ Contents(s) # <<>> /\ mq_got' = Head(Contents(s))
            /\ Contents(s2)' = Tail(Contents(s))
         \/ Contents(s2)' = <<>> /\ mq_got' = mq_got
<1> DEFINE n == Len(s)
<1>1. PICK d, d2, q, q2 : /\ d = data /\ d2 = data' /\ q = Contents(s) /\ q2 = Contents(s2)'
  OBVIOUS
<1>2. q = MessagesIn(d, s) /\ q2 = MessagesIn(d2, s2)
  BY <1>1 DEF Contents
<1>3. /\ s \in Seq(Item) /\ s2 \in Seq(Item) /\ n \in Nat /\ (s = <<>> <=> n = 0)
      /\ \A b \in ToSet(s) : d[b] \in Message
      /\ \A b \in ToSet(s2) : d2[b] \in Message
      /\ \A i \in 1 .. n : s[i] \in ToSet(s)
      /\ \A i, j \in 1 .. Len(s2) : s2[i] = s2[j] => i = j
  <2>1. IsChain(next, head, s) /\ \A b \in ToSet(s) : d[b] \in Message
    BY <1>1 DEF BlocksInv
  <2>2. IsChain(next', head', s2) /\ \A b \in ToSet(s2) : d2[b] \in Message
    BY <1>1 DEF BlocksInv
  <2>3. s2 \in Seq(Item) /\ \A i, j \in 1 .. Len(s2) : s2[i] = s2[j] => i = j
    BY <2>2 DEF IsChain
  <2> QED BY <2>1, <2>2, <2>3, ChainFacts
<1>4. /\ q \in Seq(Message) /\ Len(q) = n /\ \A i \in 1 .. n : q[i] = d[s[i]]
      /\ q2 \in Seq(Message) /\ Len(q2) = Len(s2) /\ \A i \in 1 .. Len(s2) : q2[i] = d2[s2[i]]
  <2>1. /\ q \in Seq(Message) /\ Len(q) = n /\ \A i \in 1 .. n : q[i] = d[s[i]]
    BY <1>2, <1>3, ContentsType
  <2>2. /\ q2 \in Seq(Message) /\ Len(q2) = Len(s2) /\ \A i \in 1 .. Len(s2) : q2[i] = d2[s2[i]]
    BY <1>2, <1>3, ContentsType
  <2> QED BY <2>1, <2>2
<1>5. CASE s2 = s /\ (\A b \in ToSet(s) : d2[b] = d[b]) /\ mq_got' = mq_got
  <2>1. \A i \in 1 .. n : q2[i] = q[i]
    BY <1>3, <1>4, <1>5
  <2>2. q2 = q
    BY <1>4, <1>5, <2>1, SeqEqual
  <2> QED BY <1>1, <1>5, <2>2
<1>6. ASSUME NEW b \in Item, d2[b] \in Message, s2 = Append(s, b),
             \A x \in ToSet(s) : d2[x] = d[x], mq_got' = mq_got
      PROVE  n < Cardinality(Item) /\ q2 = Append(q, d2[b])
  <2>1. /\ Len(s2) = n + 1 /\ s2[n + 1] = b /\ \A i \in 1 .. n : s2[i] = s[i]
    BY <1>3, <1>6, AppendProperties
  <2>2. Len(s2) <= Cardinality(Item) /\ Cardinality(Item) \in Nat
    BY <1>3, ChainLength
  <2>3. /\ Append(q, d2[b]) \in Seq(Message) /\ Len(Append(q, d2[b])) = n + 1
        /\ \A i \in 1 .. n : Append(q, d2[b])[i] = q[i]
        /\ Append(q, d2[b])[n + 1] = d2[b]
    BY <1>4, <1>6, AppendProperties
  <2>4. \A i \in 1 .. n : i \in 1 .. n + 1 /\ q2[i] = q[i]
    BY <1>3, <1>4, <1>6, <2>1
  <2>5. q2[n + 1] = d2[b] /\ Len(q2) = n + 1
    BY <1>3, <1>4, <2>1
  <2>6. \A i \in 1 .. n + 1 : q2[i] = Append(q, d2[b])[i]
    <3> SUFFICES ASSUME NEW i \in 1 .. n + 1 PROVE q2[i] = Append(q, d2[b])[i]
      OBVIOUS
    <3>1. i = n + 1 \/ i \in 1 .. n
      BY <1>3
    <3> QED BY <2>3, <2>4, <2>5, <3>1
  <2>7. q2 = Append(q, d2[b])
    BY <1>4, <2>3, <2>5, <2>6, SeqEqual
  <2> QED BY <1>3, <2>1, <2>2, <2>7
<1>7. ASSUME NEW b \in Item, d2[b] \in Message, s2 = <<b>> \o s,
             \A x \in ToSet(s) : d2[x] = d[x], mq_got' = mq_got
      PROVE  n < Cardinality(Item) /\ q2 = <<d2[b]>> \o q
  <2>1. /\ Len(s2) = n + 1 /\ s2[1] = b /\ \A i \in 2 .. n + 1 : s2[i] = s[i - 1]
    BY <1>3, <1>7, InFront
  <2>2. Len(s2) <= Cardinality(Item) /\ Cardinality(Item) \in Nat
    BY <1>3, ChainLength
  <2>3. PICK r : r = <<d2[b]>> \o q
    OBVIOUS
  <2>4. /\ r \in Seq(Message) /\ Len(r) = n + 1 /\ r[1] = d2[b]
        /\ \A i \in 2 .. n + 1 : r[i] = q[i - 1]
    BY <1>4, <1>7, <2>3, InFront
  <2>5. ASSUME NEW i \in 1 .. n + 1 PROVE q2[i] = r[i]
    <3>0. q2[i] = d2[s2[i]]
      BY <1>4, <2>1
    <3>1. CASE i = 1
      BY <2>1, <2>4, <3>0, <3>1
    <3>2. CASE i # 1
      <4>1. i \in 2 .. n + 1 /\ i - 1 \in 1 .. n
        BY <1>3, <3>2
      <4>2. s2[i] = s[i - 1] /\ s[i - 1] \in ToSet(s) /\ q[i - 1] = d[s[i - 1]] /\ r[i] = q[i - 1]
        BY <1>3, <1>4, <2>1, <2>4, <4>1
      <4> QED BY <1>7, <3>0, <4>2
    <3> QED BY <3>1, <3>2
  <2>6. q2 = r
    BY <1>4, <2>1, <2>4, <2>5, SeqEqual
  <2> QED BY <1>3, <2>1, <2>2, <2>3, <2>6
<1>8. ASSUME s # <<>>, s2 = Tail(s), mq_got' = d[s[1]], d2 = d
      PROVE  q # <<>> /\ mq_got' = Head(q) /\ q2 = Tail(q)
  <2>1. Len(s2) = n - 1 /\ \A i \in 1 .. n - 1 : s2[i] = s[i + 1]
    BY <1>3, <1>8, HeadTailProperties
  <2>2. q # <<>> /\ n # 0
    BY <1>3, <1>4, <1>8, EmptySeq
  <2>3. Head(q) = q[1] /\ q[1] = d[s[1]]
    BY <1>3, <1>4, <2>2
  <2>4. /\ Tail(q) \in Seq(Message) /\ Len(Tail(q)) = n - 1
        /\ \A i \in 1 .. n - 1 : Tail(q)[i] = q[i + 1]
    BY <1>4, <2>2, HeadTailProperties
  <2>5. ASSUME NEW i \in 1 .. n - 1 PROVE q2[i] = Tail(q)[i]
    <3>1. i + 1 \in 1 .. n
      BY <1>3
    <3> QED BY <1>4, <1>8, <2>1, <2>4, <3>1
  <2>6. q2 = Tail(q)
    BY <1>4, <2>1, <2>4, <2>5, SeqEqual
  <2> QED BY <1>8, <2>2, <2>3, <2>6
<1>9. ASSUME s2 = <<>> PROVE q2 = <<>>
  BY <1>4, <1>9, EmptySeq
<1>10. \/ s2 = s /\ (\A b \in ToSet(s) : d2[b] = d[b]) /\ mq_got' = mq_got
       \/ \E b \in Item : /\ s2 = Append(s, b) \/ s2 = <<b>> \o s
                          /\ d2[b] \in Message
                          /\ \A x \in ToSet(s) : d2[x] = d[x]
                          /\ mq_got' = mq_got
       \/ s # <<>> /\ s2 = Tail(s) /\ mq_got' = d[s[1]] /\ d2 = d
       \/ s2 = <<>> /\ mq_got' = mq_got
  BY <1>1 DEF QueueStep
<1>11. CASE \E b \in Item : /\ s2 = Append(s, b) \/ s2 = <<b>> \o s
                            /\ d2[b] \in Message
                            /\ \A x \in ToSet(s) : d2[x] = d[x]
                            /\ mq_got' = mq_got
  <2>1. PICK b \in Item : /\ s2 = Append(s, b) \/ s2 = <<b>> \o s
                          /\ d2[b] \in Message
                          /\ \A x \in ToSet(s) : d2[x] = d[x]
                          /\ mq_got' = mq_got
    BY <1>11
  <2>2. n < Cardinality(Item) /\ (q2 = Append(q, d2[b]) \/ q2 = <<d2[b]>> \o q)
    BY <1>6, <1>7, <2>1
  <2> QED BY <1>1, <1>4, <2>1, <2>2
<1> QED BY <1>1, <1>5, <1>8, <1>9, <1>10, <1>11

-----------------------------------------------------------------------------
(* The message queue as a whole: s is the queue, u the free list *)

MqState(s, u) == BlocksInv(s, u) /\ CopyInv /\ ExchangeInv(Len(s), Len(u)) /\ ModesInv

\* A step to the queue s2 and the free list u2.
MqMoves(s, s2, u2) == MqState(s2, u2)' /\ QueueStep(s, s2)

LEMMA MqFacts ==
  ASSUME NEW s, NEW u, MqState(s, u)
  PROVE  /\ BlocksInv(s, u) /\ CopyInv /\ ExchangeInv(Len(s), Len(u)) /\ ModesInv
         /\ ThreadsInv /\ TimesInv /\ CallsTyped
         /\ Len(s) \in Nat /\ Len(u) \in Nat
         /\ (free = NULL <=> Len(u) = 0) /\ mq_entry = Len(s)
<1>1. BlocksInv(s, u) /\ CopyInv /\ ExchangeInv(Len(s), Len(u)) /\ ModesInv
  BY DEF MqState
<1>2. ThreadsInv /\ TimesInv /\ CallsTyped
  BY <1>1 DEF ExchangeInv, ThreadsInv, TimesInv, CallsTyped
<1>3. IsChain(next, head, s) /\ IsChain(next, free, u) /\ mq_entry = Len(s)
  BY <1>1 DEF BlocksInv
<1> QED BY <1>1, <1>2, <1>3, ChainFacts

\* Steps that leave the blocks and the calls' messages alone.
LEMMA ElsewhereSame ==
  ASSUME NEW s, NEW u, MqState(s, u), UNCHANGED blocks,
         \A v \in Thread : /\ call'[v].msg = call[v].msg
                           /\ \/ pc'[v] = pc[v]
                              \/ /\ pc[v] \notin Copying /\ pc'[v] \notin Copying
                                 /\ pc'[v] \in {"send", "send_woken"} => pc[v] \in {"send", "send_woken"}
  PROVE  BlocksInv(s, u)' /\ CopyInv' /\ QueueStep(s, s)
<1>1. BlocksInv(s, u) /\ CopyInv
  BY MqFacts
<1>2. ASSUME NEW v \in Thread
      PROVE  /\ pc'[v] \in Copying \/ pc[v] \in Copying => pc'[v] = pc[v] /\ call'[v].msg = call[v].msg
             /\ pc'[v] \in {"send", "send_woken"} => call'[v].msg \in Message
  BY <1>1 DEF CopyInv, Copies
<1> QED BY <1>1, <1>2, BlocksSame

\* The caller's call, which has no block, ends or begins to wait.
LEMMA CallerSame ==
  ASSUME NEW s, NEW u, MqState(s, u), UNCHANGED blocks, NEW t \in Thread,
         pc[t] \notin Copying, pc'[t] \notin Copying,
         pc'[t] \in {"send", "send_woken"} => call'[t].msg \in Message,
         \A v \in Thread \ {t} : pc'[v] = pc[v] /\ call'[v] = call[v]
  PROVE  BlocksInv(s, u)' /\ CopyInv' /\ QueueStep(s, s)
<1>1. BlocksInv(s, u) /\ CopyInv
  BY MqFacts
<1>2. ASSUME NEW v \in Thread
      PROVE  /\ pc'[v] \in Copying \/ pc[v] \in Copying => pc'[v] = pc[v] /\ call'[v].msg = call[v].msg
             /\ pc'[v] \in {"send", "send_woken"} => call'[v].msg \in Message
  BY <1>1 DEF CopyInv, Copies
<1> QED BY <1>1, <1>2, BlocksSame

\* A call ends without having found anything.
LEMMA FinishSame ==
  ASSUME NEW s, NEW u, MqState(s, u), UNCHANGED blocks, NEW t \in Thread,
         pc[t] \notin Copying, NEW b, Finish(t, b)
  PROVE  BlocksInv(s, u)' /\ CopyInv' /\ QueueStep(s, s)
<1>0. CallsTyped
  BY MqFacts
<1>1. PICK at \in {"run", "sched"} : Proceed(t, at, Nothing)
  BY DEF Finish
<1>2. pc'[t] = at /\ \A v \in Thread \ {t} : pc'[v] = pc[v] /\ call'[v] = call[v]
  BY <1>0, <1>1, ProceedFrame
<1>3. at \notin Copying /\ at \notin {"send", "send_woken"}
  BY <1>1 DEF Copying
<1> QED BY <1>2, <1>3, CallerSame

\* A thread begins to wait.
LEMMA BlockSame ==
  ASSUME NEW s, NEW u, MqState(s, u), UNCHANGED blocks, NEW t \in Thread,
         pc[t] \notin Copying, NEW q, NEW at \in {"send", "recv"}, NEW m, NEW n,
         at = "send" => m \in Message, Block(t, q, at, m, n)
  PROVE  BlocksInv(s, u)' /\ CopyInv' /\ QueueStep(s, s)
<1>0. pc \in [Thread -> Points] /\ call \in [Thread -> CallType]
  BY MqFacts DEF CallsTyped
<1>1. /\ pc'[t] = at /\ call'[t].msg = m
      /\ \A v \in Thread \ {t} : pc'[v] = pc[v] /\ call'[v] = call[v]
  BY <1>0 DEF Block, Goto
<1>2. at \notin Copying /\ at # "send_woken"
  BY DEF Copying
<1> QED BY <1>1, <1>2, CallerSame

\* A thread, which leaves the loop, takes what it has waited for: a block to
\* fill or a message.
LEMMA TakesKeeps ==
  ASSUME NEW e \in Nat, NEW r \in Nat, ExchangeInv(e, r), object' = object, k' = k,
         NEW t \in Thread, t = k.cur, pc[t] \notin {"send", "recv"},
         NEW e2 \in Nat, NEW r2 \in Nat,
         \/ e2 = e /\ r2 = r - 1 /\ Side(pc[t]) # "recv"
         \/ e2 = e - 1 /\ r2 = r /\ Side(pc[t]) # "send",
         NEW at \in Points, Side(at) = "none", NEW m \in Message, Proceed(t, at, m)
  PROVE  ExchangeInv(e2, r2)'
<1>0. ThreadsInv /\ TimesInv /\ k.stat[t] = "RUNNING" /\ t \notin Asleep(k)
  BY Running DEF ExchangeInv
<1>1. Released(k', {}) /\ k'.err = k.err /\ k'.stat[k'.cur] = "RUNNING"
  BY <1>0, ErrorOnly DEF Error
<1>2. /\ Leaves({t})
      /\ call' \in [Thread -> CallType] /\ due' \in [Thread -> Nat]
      /\ \A u \in Thread \ {t} : call'[u] = call[u] /\ due'[u] = due[u]
  BY <1>0, ProceedLeaves
<1>3. {t} \in SUBSET (Thread \ Asleep(k)) /\ {} \in SUBSET Asleep(k)
  BY <1>0
<1>4. /\ Side(pc[t]) # "recv" => {t} \cap WokenReceivers = {}
      /\ Side(pc[t]) # "send" => {t} \cap WokenSenders = {}
  BY DEF WokenReceivers, WokenSenders, Woken, Side
<1>5. \E x \in Thread : {t} \subseteq {x}
  OBVIOUS
<1>6. Answers(e, e2, Receivers, WokenReceivers, {}, {t}) /\ Answers(r, r2, Senders, WokenSenders, {}, {t})
  BY <1>4, <1>5 DEF Answers
<1>7. \A u \in Thread \ ({} \cup {t}) : k'.err[u] = k.err[u]
  BY <1>1
<1> QED BY <1>1, <1>2, <1>3, <1>6, <1>7, StepKeeps

\* A block is linked or freed, by a thread that leaves or by an interrupt
\* handler, and the first thread that waits for it is woken.
LEMMA GivesKeeps ==
  ASSUME NEW e \in Nat, NEW r \in Nat, ExchangeInv(e, r), object' = object,
         NEW t \in Thread, NEW L \in SUBSET {t}, \A u \in L : Side(pc[u]) = "none",
         L \subseteq Thread \ Asleep(k), Leaves(L),
         NEW e2 \in Nat, NEW r2 \in Nat,
         \/ e2 = e + 1 /\ r2 <= r /\ Released(k', First(Receivers))
         \/ e2 = e /\ r2 = r + 1 /\ Released(k', First(Senders)),
         k'.err = k.err, k'.stat[k'.cur] = "RUNNING" \/ pc' = pc,
         call' \in [Thread -> CallType],
         due' \in [Thread -> Nat],
         \A u \in Thread \ L : call'[u] = call[u] /\ due'[u] = due[u]
  PROVE  ExchangeInv(e2, r2)'
<1>1. ThreadsInv /\ L \cap WokenReceivers = {} /\ L \cap WokenSenders = {}
  BY DEF ExchangeInv, WokenReceivers, WokenSenders, Woken, Side
<1>2. L \in SUBSET (Thread \ Asleep(k))
  OBVIOUS
<1>3. CASE e2 = e + 1 /\ r2 <= r /\ Released(k', First(Receivers))
  <2>1. First(Receivers) \in SUBSET Asleep(k)
    BY <1>1, WakeEffect
  <2>2. /\ Answers(e, e2, Receivers, WokenReceivers, First(Receivers), L)
        /\ Answers(r, r2, Senders, WokenSenders, First(Receivers), L)
    BY <1>1, <1>3 DEF Answers
  <2>3. \A u \in Thread \ (First(Receivers) \cup L) : k'.err[u] = k.err[u]
    OBVIOUS
  <2> QED BY <1>2, <1>3, <2>1, <2>2, <2>3, StepKeeps
<1>4. CASE e2 = e /\ r2 = r + 1 /\ Released(k', First(Senders))
  <2>1. First(Senders) \in SUBSET Asleep(k)
    BY <1>1, WakeEffect
  <2>2. /\ Answers(e, e2, Receivers, WokenReceivers, First(Senders), L)
        /\ Answers(r, r2, Senders, WokenSenders, First(Senders), L)
    BY <1>1, <1>4 DEF Answers
  <2>3. \A u \in Thread \ (First(Senders) \cup L) : k'.err[u] = k.err[u]
    OBVIOUS
  <2> QED BY <1>2, <1>4, <2>1, <2>2, <2>3, StepKeeps
<1> QED BY <1>3, <1>4

\* A sender takes a block, for an ordinary message or an urgent one.
LEMMA MqTakesBlock ==
  ASSUME NEW s, NEW u, MqState(s, u), NEW t \in Thread, t = k.cur,
         pc[t] \in {"run", "send_woken"}, NEW m \in Message, NEW at \in {"fill", "fill_urgent"},
         TakeBlock(t, m, at), UNCHANGED <<isr, object>>
  PROVE  \E s2, u2 : MqMoves(s, s2, u2)
<1>0. /\ BlocksInv(s, u) /\ CopyInv /\ ExchangeInv(Len(s), Len(u)) /\ ModesInv /\ CallsTyped
      /\ Len(s) \in Nat /\ Len(u) \in Nat /\ (free = NULL <=> Len(u) = 0)
  BY MqFacts
<1>1. pc[t] \notin Copying /\ pc[t] \notin {"send", "recv"} /\ Side(pc[t]) # "recv"
  BY DEF Copying, Side
<1>2. at \in Points /\ Side(at) = "none"
  BY DEF Points, Side
<1>3. free # NULL /\ k' = k /\ Proceed(t, at, m)
  BY DEF TakeBlock
<1>4. PICK u2 : BlocksInv(s, u2)' /\ CopyInv' /\ QueueStep(s, s) /\ Len(u2) = Len(u) - 1
  BY <1>0, <1>1, TakeBlockStep
<1>5. Len(u2) \in Nat
  BY <1>0, <1>3, <1>4
<1>6. ExchangeInv(Len(s), Len(u2))'
  BY <1>0, <1>1, <1>2, <1>3, <1>4, <1>5, TakesKeeps
<1>7. ModesInv'
  BY <1>0, ExchangeModes
<1> QED BY <1>4, <1>6, <1>7 DEF MqMoves, MqState

LEMMA MqSendLoopStep ==
  ASSUME NEW s, NEW u, MqState(s, u), NEW t \in Thread, t = k.cur,
         pc[t] \in {"run", "send_woken"}, NEW m \in Message, NEW n \in Nat \cup {Forever},
         pc[t] = "run" \/ n = Remaining(call[t]), MqSendLoop(t, m, n)
  PROVE  \E s2, u2 : MqMoves(s, s2, u2)
<1>0. /\ BlocksInv(s, u) /\ CopyInv /\ ExchangeInv(Len(s), Len(u)) /\ ModesInv /\ CallsTyped
      /\ Len(s) \in Nat /\ Len(u) \in Nat /\ (free = NULL <=> Len(u) = 0)
  BY MqFacts
<1>1. /\ pc[t] \notin Copying /\ pc[t] \notin {"send", "recv"} /\ Side(pc[t]) # "recv"
      /\ pc[t] = "run" \/ (Side(pc[t]) # "none" /\ n = Remaining(call[t]))
  BY DEF Copying, Side
<1>2. UNCHANGED <<isr, object>> /\ ModesInv'
  BY <1>0, ExchangeModes DEF MqSendLoop
<1>3. CASE TakeBlock(t, m, "fill")
  BY <1>2, <1>3, MqTakesBlock
<1>4. CASE free = NULL /\ n = 0 /\ SendGivesUp(t) /\ UNCHANGED blocks
  <2>1. BlocksInv(s, u)' /\ CopyInv' /\ QueueStep(s, s)
    BY <1>1, <1>4, FinishSame DEF SendGivesUp
  <2>2. ExchangeInv(Len(s), Len(u))'
    BY <1>0, <1>1, <1>2, <1>4, GivesUpKeeps
  <2> QED BY <1>2, <2>1, <2>2 DEF MqMoves, MqState
<1>5. CASE free = NULL /\ n # 0 /\ Block(t, Senders, "send", m, n) /\ UNCHANGED blocks
  <2>1. BlocksInv(s, u)' /\ CopyInv' /\ QueueStep(s, s)
    BY <1>1, <1>5, BlockSame
  <2>2. ExchangeInv(Len(s), Len(u))'
    BY <1>0, <1>1, <1>2, <1>5, BlockKeeps
  <2> QED BY <1>2, <2>1, <2>2 DEF MqMoves, MqState
<1> QED BY <1>3, <1>4, <1>5 DEF MqSendLoop

LEMMA MqRecvLoopStep ==
  ASSUME NEW s, NEW u, MqState(s, u), NEW t \in Thread, t = k.cur,
         pc[t] \in {"run", "recv_woken"}, NEW n \in Nat \cup {Forever},
         pc[t] = "run" \/ n = Remaining(call[t]), MqRecvLoop(t, n)
  PROVE  \E s2, u2 : MqMoves(s, s2, u2)
<1>0. /\ BlocksInv(s, u) /\ CopyInv /\ ExchangeInv(Len(s), Len(u)) /\ ModesInv /\ CallsTyped
      /\ Len(s) \in Nat /\ Len(u) \in Nat /\ mq_entry = Len(s)
  BY MqFacts
<1>1. /\ pc[t] \notin Copying /\ pc[t] \notin {"send", "recv"} /\ Side(pc[t]) # "send"
      /\ pc[t] = "run" \/ (Side(pc[t]) # "none" /\ n = Remaining(call[t]))
  BY DEF Copying, Side
<1>2. UNCHANGED <<isr, object>> /\ ModesInv'
  BY <1>0, ExchangeModes DEF MqRecvLoop
<1>3. CASE TakeMessage(t)
  <2>1. mq_entry > 0 /\ k' = k /\ Proceed(t, "drain", data[head])
    BY <1>3 DEF TakeMessage
  <2>2. PICK s2 : /\ BlocksInv(s2, u)' /\ CopyInv' /\ QueueStep(s, s2) /\ Len(s2) = Len(s) - 1
                  /\ data[head] \in Message
    BY <1>0, <1>1, <1>3, TakeMessageStep
  <2>3. Len(s2) \in Nat
    BY <1>0, <2>1, <2>2
  <2>4. "drain" \in Points /\ Side("drain") = "none"
    BY DEF Points, Side
  <2>5. PICK m \in Message : m = data[head]
    BY <2>2
  <2>6. ExchangeInv(Len(s2), Len(u))'
    BY <1>0, <1>1, <1>2, <2>1, <2>2, <2>3, <2>4, <2>5, TakesKeeps
  <2> QED BY <1>2, <2>2, <2>6 DEF MqMoves, MqState
<1>4. CASE mq_entry = 0 /\ n = 0 /\ RecvGivesUp(t) /\ UNCHANGED blocks
  <2>1. BlocksInv(s, u)' /\ CopyInv' /\ QueueStep(s, s)
    BY <1>1, <1>4, FinishSame DEF RecvGivesUp
  <2>2. ExchangeInv(Len(s), Len(u))'
    BY <1>0, <1>1, <1>2, <1>4, GivesUpKeeps
  <2> QED BY <1>2, <2>1, <2>2 DEF MqMoves, MqState
<1>5. CASE mq_entry = 0 /\ n # 0 /\ Block(t, Receivers, "recv", Nothing, n) /\ UNCHANGED blocks
  <2>1. BlocksInv(s, u)' /\ CopyInv' /\ QueueStep(s, s)
    BY <1>1, <1>5, BlockSame
  <2>2. ExchangeInv(Len(s), Len(u))'
    BY <1>0, <1>1, <1>2, <1>5, BlockKeeps
  <2> QED BY <1>2, <2>1, <2>2 DEF MqMoves, MqState
<1> QED BY <1>3, <1>4, <1>5 DEF MqRecvLoop

\* The calls of threads: rt_mq_send_wait, rt_mq_urgent and rt_mq_recv.
LEMMA MqCallStep ==
  ASSUME NEW s, NEW u, MqState(s, u), NEW t \in Thread,
         \/ \E m \in Message, n \in Timeouts : MqSend(t, m, n)
         \/ MqSendAgain(t)
         \/ \E m \in Message : MqUrgent(t, m)
         \/ \E n \in Timeouts : MqRecv(t, n)
         \/ MqRecvAgain(t)
  PROVE  \E s2, u2 : MqMoves(s, s2, u2)
<1>0. /\ Timeouts \subseteq Nat \cup {Forever} /\ CopyInv /\ ExchangeInv(Len(s), Len(u)) /\ ModesInv
      /\ Len(s) \in Nat /\ Len(u) \in Nat /\ TimesInv
  BY ExchangeAssumption, MqFacts
<1>1. ASSUME NEW m \in Message, NEW n \in Timeouts, MqSend(t, m, n) PROVE \E s2, u2 : MqMoves(s, s2, u2)
  BY <1>0, <1>1, MqSendLoopStep DEF MqSend, Executes
<1>2. ASSUME NEW m \in Message, MqUrgent(t, m) PROVE \E s2, u2 : MqMoves(s, s2, u2)
  BY <1>2, MqTakesBlock DEF MqUrgent, Executes
<1>3. ASSUME NEW n \in Timeouts, MqRecv(t, n) PROVE \E s2, u2 : MqMoves(s, s2, u2)
  BY <1>0, <1>3, MqRecvLoopStep DEF MqRecv, Executes
<1>4. ASSUME Fails(t), UNCHANGED blocks, t = k.cur, pc[t] \in {"send_woken", "recv_woken"}
      PROVE  \E s2, u2 : MqMoves(s, s2, u2)
  <2>1. pc[t] \notin Copying /\ Finish(t, FALSE)
    BY <1>4 DEF Copying, Fails
  <2>2. BlocksInv(s, u)' /\ CopyInv' /\ QueueStep(s, s)
    BY <1>4, <2>1, FinishSame
  <2>3. ExchangeInv(Len(s), Len(u))' /\ ModesInv'
    BY <1>0, <1>4, FailsKeeps, ExchangeModes
  <2> QED BY <2>2, <2>3 DEF MqMoves, MqState
<1>5. ASSUME MqSendAgain(t) PROVE \E s2, u2 : MqMoves(s, s2, u2)
  <2>1. t = k.cur /\ pc[t] = "send_woken"
    BY <1>5 DEF MqSendAgain, Executes
  <2>2. call[t].msg \in Message /\ Remaining(call[t]) \in Nat \cup {Forever}
    BY <1>0, <2>1, RemainingType DEF CopyInv, Copies, Side
  <2>3. CASE MqSendLoop(t, call[t].msg, Remaining(call[t]))
    BY <2>1, <2>2, <2>3, MqSendLoopStep
  <2> QED BY <1>4, <1>5, <2>1, <2>3 DEF MqSendAgain
<1>6. ASSUME MqRecvAgain(t) PROVE \E s2, u2 : MqMoves(s, s2, u2)
  <2>1. t = k.cur /\ pc[t] = "recv_woken"
    BY <1>6 DEF MqRecvAgain, Executes
  <2>2. Remaining(call[t]) \in Nat \cup {Forever}
    BY <1>0, <2>1, RemainingType DEF Side
  <2>3. CASE MqRecvLoop(t, Remaining(call[t]))
    BY <2>1, <2>2, <2>3, MqRecvLoopStep
  <2> QED BY <1>4, <1>6, <2>1, <2>3 DEF MqRecvAgain
<1> QED BY <1>1, <1>2, <1>3, <1>5, <1>6

\* The second sections of the calls: the message is copied in, and the block is
\* linked or freed.
LEMMA MqCopyStep ==
  ASSUME NEW s, NEW u, MqState(s, u), NEW t \in Thread, Fill(t) \/ Link(t) \/ FreeBlock(t)
  PROVE  \E s2, u2 : MqMoves(s, s2, u2)
<1>0. /\ BlocksInv(s, u) /\ CopyInv /\ ExchangeInv(Len(s), Len(u)) /\ ModesInv /\ CallsTyped
      /\ Len(s) \in Nat /\ Len(u) \in Nat /\ ThreadsInv /\ TimesInv
  BY MqFacts
<1>1. t = k.cur /\ pc[t] \in Copying /\ UNCHANGED <<isr, object>>
  BY DEF Fill, Link, FreeBlock, Executes, Copying
<1>2. Side(pc[t]) = "none" /\ pc[t] \notin {"send", "recv"} /\ ModesInv'
  BY <1>0, <1>1, ExchangeModes DEF Side, Copying
<1>3. k.stat[t] = "RUNNING" /\ t \notin Asleep(k)
  BY <1>0, <1>1, <1>2, Running
<1>4. CASE Fill(t)
  <2>1. BlocksInv(s, u)' /\ CopyInv' /\ QueueStep(s, s)
    BY <1>0, <1>4, FillStep
  <2>2. PICK at \in {"link", "link_urgent"} : pc' = [pc EXCEPT ![t] = at]
    BY <1>4 DEF Fill, Goto
  <2>3. at \in Points /\ Side(at) = "none" /\ k' = k /\ UNCHANGED <<call, due>>
    BY <1>4 DEF Points, Side, Fill
  <2>4. ExchangeInv(Len(s), Len(u))'
    BY <1>0, <1>1, <1>2, <2>2, <2>3, OwnStep
  <2> QED BY <1>2, <2>1, <2>4 DEF MqMoves, MqState
<1>5. ASSUME NEW b, Finish(t, b)
      PROVE  /\ {t} \in SUBSET {t} /\ (\A v \in {t} : Side(pc[v]) = "none")
             /\ {t} \subseteq Thread \ Asleep(k) /\ Leaves({t})
             /\ call' \in [Thread -> CallType] /\ due' \in [Thread -> Nat]
             /\ \A v \in Thread \ {t} : call'[v] = call[v] /\ due'[v] = due[v]
  BY <1>0, <1>2, <1>3, <1>5, FinishLeaves
<1>6. CASE Link(t)
  <2>1. PICK s2 : BlocksInv(s2, u)' /\ CopyInv' /\ QueueStep(s, s2) /\ Len(s2) = Len(s) + 1
    BY <1>0, <1>6, LinkStep
  <2>2. Released(k', First(Receivers)) /\ k'.err = k.err
    BY <1>0, <1>6, WakeEffect DEF LinkWakes, Link
  <2>3. k'.stat[k'.cur] = "RUNNING"
    BY <1>1, <1>3, <2>2 DEF Released, Wakes, Keeps
  <2>4. Finish(t, k.wait[Receivers] # <<>>)
    BY <1>6 DEF Link
  <2>5. Len(s2) \in Nat
    BY <1>0, <2>1
  <2>6. ExchangeInv(Len(s2), Len(u))'
    BY <1>0, <1>1, <1>5, <2>1, <2>2, <2>3, <2>4, <2>5, GivesKeeps
  <2> QED BY <1>2, <2>1, <2>6 DEF MqMoves, MqState
<1>7. CASE FreeBlock(t)
  <2>1. PICK u2 : BlocksInv(s, u2)' /\ CopyInv' /\ QueueStep(s, s) /\ Len(u2) = Len(u) + 1
    BY <1>0, <1>7, FreeBlockStep
  <2>2. Released(k', First(Senders)) /\ k'.err = k.err
    BY <1>0, <1>7, WakeEffect DEF FreeWakes, FreeBlock
  <2>3. k'.stat[k'.cur] = "RUNNING"
    BY <1>1, <1>3, <2>2 DEF Released, Wakes, Keeps
  <2>4. Finish(t, k.wait[Senders] # <<>>)
    BY <1>7 DEF FreeBlock
  <2>5. Len(u2) \in Nat
    BY <1>0, <2>1
  <2>6. ExchangeInv(Len(s), Len(u2))'
    BY <1>0, <1>1, <1>5, <2>1, <2>2, <2>3, <2>4, <2>5, GivesKeeps
  <2> QED BY <1>2, <2>1, <2>6 DEF MqMoves, MqState
<1> QED BY <1>4, <1>6, <1>7

\* rt_mq_send from an interrupt handler.
LEMMA MqIsrStep ==
  ASSUME NEW s, NEW u, MqState(s, u), NEW m \in Message, MqIsrSend(m)
  PROVE  \E s2, u2 : MqMoves(s, s2, u2)
<1>0. /\ BlocksInv(s, u) /\ CopyInv /\ ExchangeInv(Len(s), Len(u)) /\ ModesInv /\ CallsTyped
      /\ Len(s) \in Nat /\ Len(u) \in Nat /\ ThreadsInv /\ TimesInv /\ (free = NULL <=> Len(u) = 0)
  BY MqFacts
<1>1. pc' = pc /\ call' = call /\ due' = due /\ free # NULL /\ UNCHANGED <<isr, object>>
  BY DEF MqIsrSend
<1>2. PICK s2, u2 : /\ BlocksInv(s2, u2)' /\ CopyInv' /\ QueueStep(s, s2)
                    /\ Len(s2) = Len(s) + 1 /\ Len(u2) = Len(u) - 1
  BY <1>0, IsrLinkStep
<1>3. Len(s2) \in Nat /\ Len(u2) \in Nat /\ Len(u2) <= Len(u)
  BY <1>0, <1>1, <1>2
<1>4. Released(k', First(Receivers)) /\ k'.err = k.err
  <2>1. Released(LinkWakes, First(Receivers)) /\ LinkWakes.err = k.err
    BY <1>0, WakeEffect DEF LinkWakes
  <2>2. k' = rt_schedule(LinkWakes) \/ k' = LinkWakes
    BY DEF MqIsrSend, LinkWakes, Wake
  <2> HIDE DEF LinkWakes
  <2> QED BY <1>0, <2>1, <2>2, ScheduledEffect
<1>5. /\ {} \in SUBSET {Idle} /\ {} \subseteq Thread \ Asleep(k) /\ Idle \in Thread
      /\ (\A v \in {} : Side(pc[v]) = "none") /\ Leaves({})
      /\ call \in [Thread -> CallType] /\ due \in [Thread -> Nat]
  BY <1>0, <1>1, KernelAssumption DEF Leaves, ThreadsInv, TimesInv
<1>6. ExchangeInv(Len(s2), Len(u2))'
  BY <1>0, <1>1, <1>2, <1>3, <1>4, <1>5, GivesKeeps
<1>7. ModesInv'
  BY <1>0, <1>1, ExchangeModes
<1> QED BY <1>2, <1>6, <1>7 DEF MqMoves, MqState

\* rt_schedule(), the reset, the deletion and the tick interrupt.
LEMMA MqCommonStep ==
  ASSUME NEW s, NEW u, MqState(s, u), UNCHANGED blocks,
         \/ \E t \in Thread : \/ ExchangeSchedule(t)
                              \/ ExchangeResetBegin(t) \/ ExchangeResetTurn(t)
                              \/ ExchangeDeleteBegin(t) \/ ExchangeDeleteStep(t)
         \/ ExchangeInterrupt
         \/ UNCHANGED <<k, isr, pc, call, due, object>>
  PROVE  \E s2, u2 : MqMoves(s, s2, u2)
<1>0. /\ ExchangeInv(Len(s), Len(u)) /\ ModesInv /\ Len(s) \in Nat /\ Len(u) \in Nat
      /\ pc \in [Thread -> Points] /\ call \in [Thread -> CallType]
  BY MqFacts DEF CallsTyped
<1>1. ExchangeInv(Len(s), Len(u))'
  BY <1>0, ScheduleStep, ResetKeeps, DeleteKeeps, InterruptStep, ExchangeStutters DEF ModesInv
<1>2. ModesInv'
  BY <1>0, ExchangeModes
<1>3. ASSUME NEW v \in Thread
      PROVE  /\ call'[v].msg = call[v].msg
             /\ \/ pc'[v] = pc[v]
                \/ /\ pc[v] \notin Copying /\ pc'[v] \notin Copying
                   /\ pc'[v] \in {"send", "send_woken"} => pc[v] \in {"send", "send_woken"}
  <2>1. ASSUME NEW t \in Thread,
               \/ ExchangeSchedule(t) \/ ExchangeResetBegin(t) \/ ExchangeResetTurn(t)
               \/ ExchangeDeleteBegin(t) \/ ExchangeDeleteStep(t)
        PROVE  /\ call' = call
               /\ \/ pc' = pc
                  \/ \E to : /\ pc' = [pc EXCEPT ![t] = to]
                             /\ pc[t] \notin Copying /\ to \notin Copying
                             /\ to \in {"send", "send_woken"} => pc[t] \in {"send", "send_woken"}
    <3>1. ASSUME NEW at, NEW to, pc[t] = at, pc' = [pc EXCEPT ![t] = to],
                 at \notin Copying, to \notin Copying,
                 to \in {"send", "send_woken"} => at \in {"send", "send_woken"}
          PROVE  \E x : /\ pc' = [pc EXCEPT ![t] = x]
                        /\ pc[t] \notin Copying /\ x \notin Copying
                        /\ x \in {"send", "send_woken"} => pc[t] \in {"send", "send_woken"}
      BY <3>1
    <3>2. CASE ExchangeSchedule(t)
      <4>1. call' = call /\ \/ Reschedule(t, "send", "send_woken")
                            \/ Reschedule(t, "recv", "recv_woken")
                            \/ Reschedule(t, "sched", "run")
        BY <3>2 DEF ExchangeSchedule
      <4>2. \A at, to : Reschedule(t, at, to) => pc[t] = at /\ pc' = [pc EXCEPT ![t] = to]
        BY DEF Reschedule, Executes, Goto
      <4> QED BY <3>1, <4>1, <4>2 DEF Copying
    <3>3. CASE ExchangeResetBegin(t)
      <4>1. call' = call /\ pc[t] = "run" /\ pc' = [pc EXCEPT ![t] = "reset"]
        BY <3>3 DEF ExchangeResetBegin, Executes, Goto
      <4> QED BY <3>1, <4>1 DEF Copying
    <3>4. CASE ExchangeResetTurn(t)
      BY <3>4 DEF ExchangeResetTurn, ResumeAllMasked
    <3>5. CASE ExchangeDeleteBegin(t)
      <4>1. call' = call /\ pc[t] = "run" /\ pc' = [pc EXCEPT ![t] = "delete"]
        BY <3>5 DEF ExchangeDeleteBegin, Executes, Goto
      <4> QED BY <3>1, <4>1 DEF Copying
    <3>6. CASE ExchangeDeleteStep(t)
      <4>1. /\ call' = call
            /\ \E at \in {"delete", "resume", "delete_senders", "resume_senders"},
                  to \in {"delete", "resume", "delete_senders", "resume_senders", "run"} :
                 pc[t] = at /\ pc' = [pc EXCEPT ![t] = to]
        BY <3>6 DEF ExchangeDeleteStep, ResumeAllTest, ResumeAllBody, Executes, Goto
      <4> QED BY <3>1, <4>1 DEF Copying
    <3> QED BY <2>1, <3>2, <3>3, <3>4, <3>5, <3>6
  <2>2. CASE \E t \in Thread : \/ ExchangeSchedule(t)
                               \/ ExchangeResetBegin(t) \/ ExchangeResetTurn(t)
                               \/ ExchangeDeleteBegin(t) \/ ExchangeDeleteStep(t)
    BY <1>0, <2>1, <2>2
  <2>3. CASE ExchangeInterrupt
    <3>1. pc' = pc
      BY <2>3 DEF ExchangeInterrupt, Interrupt, Tick, TimerFire, TimerCheckEnd
    <3>2. call'[v].msg = call[v].msg
      BY <1>0, <2>3 DEF ExchangeInterrupt, CallType
    <3> QED BY <3>1, <3>2
  <2>4. CASE UNCHANGED <<k, isr, pc, call, due, object>>
    BY <2>4
  <2> QED BY <2>2, <2>3, <2>4
<1>4. BlocksInv(s, u)' /\ CopyInv' /\ QueueStep(s, s)
  BY <1>3, ElsewhereSame
<1> QED BY <1>1, <1>2, <1>4 DEF MqMoves, MqState

LEMMA MqStep ==
  ASSUME NEW s, NEW u, MqState(s, u), [MqNext]_mq_vars
  PROVE  \E s2, u2 : MqMoves(s, s2, u2)
<1>1. ASSUME NEW t \in Thread, MqResetEnd(t) PROVE \E s2, u2 : MqMoves(s, s2, u2)
  <2>0. BlocksInv(s, u) /\ CopyInv /\ ExchangeInv(Len(s), Len(u)) /\ ModesInv /\ CallsTyped
    BY MqFacts
  <2>1. PICK u2 : BlocksInv(<<>>, u2)' /\ CopyInv' /\ QueueStep(s, <<>>)
    BY <1>1, <2>0, ResetStep
  <2>2. ExchangeResetEnd(t)
    BY <1>1 DEF MqResetEnd
  <2>3. ExchangeInv(Len(<<>>), Len(u2))' /\ ModesInv'
    BY <2>0, <2>2, ResetEndKeeps, ExchangeModes
  <2> QED BY <2>1, <2>3 DEF MqMoves, MqState
<1>2. ASSUME NEW t \in Thread, MqThreadStep(t) PROVE \E s2, u2 : MqMoves(s, s2, u2)
  BY <1>1, <1>2, MqCallStep, MqCopyStep, MqCommonStep
     DEF MqThreadStep, MqSchedule, MqResetBegin, MqResetTurn, MqDeleteBegin, MqDeleteStep
<1>3. CASE UNCHANGED mq_vars
  BY <1>3, MqCommonStep DEF mq_vars, blocks
<1> QED BY <1>2, <1>3, MqIsrStep, MqCommonStep DEF MqNext, MqTickInterrupt

\* The inductive invariant of the message queue.
MqInv == \E s, u : MqState(s, u)

\* The queue of the refinement.
mq_queue == LET s == Chain(next, head) IN [i \in DOMAIN s |-> data[s[i]]]

LEMMA MqInitInv == MqInit => MqInv /\ MqFifo!Init
<1> SUFFICES ASSUME MqInit PROVE MqInv /\ MqFifo!Init
  OBVIOUS
<1>1. PICK u : u = SetToSeq(Item)
  OBVIOUS
<1>2. /\ ExchangeInit /\ data = [b \in Item |-> Nothing] /\ head = NULL /\ tail = NULL
      /\ mq_entry = 0 /\ msg = [t \in Thread |-> NULL] /\ mq_got = Nothing
      /\ next = [b \in Item |-> LET i == CHOOSE j \in DOMAIN u : u[j] = b
                                IN  IF i = Len(u) THEN NULL ELSE u[i + 1]]
      /\ free = IF u = <<>> THEN NULL ELSE u[1]
  BY <1>1 DEF MqInit
<1>3. IsChain(next, free, u) /\ ToSet(u) = Item
  <2>1. PICK nx : nx = next
    OBVIOUS
  <2>2. IsChain(nx, IF u = <<>> THEN NULL ELSE u[1], u) /\ ToSet(u) = Item
    BY <1>1, <1>2, <2>1, ChainOfAll
  <2> QED BY <1>2, <2>1, <2>2
<1>4. IsChain(next, head, <<>>) /\ ToSet(<<>>) = {} /\ Len(<<>>) = 0
  BY <1>2 DEF IsChain, ToSet
<1>5. next \in [Item -> Item \cup {NULL}]
  <2>1. ASSUME NEW b \in Item PROVE next[b] \in Item \cup {NULL}
    <3>1. PICK i \in 1 .. Len(u) : u[i] = b
      BY <1>3, ChainFacts
    <3>2. next[u[i]] = IF i = Len(u) THEN NULL ELSE u[i + 1]
      BY <1>3 DEF IsChain
    <3>3. i # Len(u) => i + 1 \in 1 .. Len(u)
      BY <1>3, ChainFacts
    <3>4. \A j \in 1 .. Len(u) : u[j] \in Item
      BY <1>3, ChainFacts
    <3> QED BY <3>1, <3>2, <3>3, <3>4
  <2> QED BY <1>2, <2>1
<1>6. BlocksInv(<<>>, u)
  BY <1>2, <1>3, <1>4, <1>5, MessageQueueAssumption DEF BlocksInv
<1>7. CopyInv
  <2>1. pc = [t \in Thread |-> "run"]
    BY <1>2 DEF ExchangeInit, ProcessorInit
  <2> QED BY <1>2, <2>1 DEF CopyInv, Copies, Copying
<1>8. ExchangeInv(Len(<<>>), Len(u))
  BY <1>2, ExchangeStarts
<1>9. ModesInv
  BY <1>2 DEF ModesInv, ExchangeInit, ProcessorInit
<1>10. Chain(next, head) = <<>>
  BY <1>4, ChainIs
<1>11. MqFifo!Init
  <2>1. \A d, s : s = <<>> => [i \in DOMAIN s |-> d[s[i]]] = <<>>
    OBVIOUS
  <2>2. mq_queue = <<>>
    <3>1. PICK d, s : d = data /\ s = Chain(next, head)
      OBVIOUS
    <3>2. [i \in DOMAIN s |-> d[s[i]]] = <<>>
      BY <1>10, <2>1, <3>1
    <3> QED BY <3>1, <3>2 DEF mq_queue
  <2> QED BY <1>2, <2>2, Zenon DEF MqFifo!Init, mq_queue
<1> QED BY <1>6, <1>7, <1>8, <1>9, <1>11 DEF MqInv, MqState

\* The chains of the state are the lists.
LEMMA MqChains ==
  ASSUME NEW s, NEW u, MqState(s, u)
  PROVE  Chain(next, head) = s /\ Chain(next, free) = u
<1>1. IsChain(next, head, s) /\ IsChain(next, free, u)
  BY DEF MqState, BlocksInv
<1> QED BY <1>1, ChainIs

LEMMA MqInvStep == MqInv /\ [MqNext]_mq_vars => MqInv' /\ [MqFifo!Next]_<<mq_queue, mq_got>>
<1> SUFFICES ASSUME MqInv, [MqNext]_mq_vars PROVE MqInv' /\ [MqFifo!Next]_<<mq_queue, mq_got>>
  OBVIOUS
<1>1. PICK s, u : MqState(s, u)
  BY DEF MqInv
<1>2. PICK s2, u2 : MqState(s2, u2)' /\ QueueStep(s, s2)
  BY <1>1, MqStep DEF MqMoves
<1>3. MqInv'
  BY <1>2 DEF MqInv
<1>4. mq_queue = Contents(s)
  BY <1>1, MqChains DEF mq_queue, Contents, MessagesIn
<1>5. mq_queue' = Contents(s2)'
  <2>1. IsChain(next', head', s2)
    BY <1>2 DEF MqState, BlocksInv
  <2>2. Chain(next', head') = s2
    <3>1. PICK nx, h : nx = next' /\ h = head'
      OBVIOUS
    <3> QED BY <2>1, <3>1, ChainIs
  <2> QED BY <2>2 DEF mq_queue, Contents, MessagesIn
<1>6. \/ Contents(s2)' = Contents(s) /\ mq_got' = mq_got
      \/ \E m \in Message : /\ Len(Contents(s)) < Cardinality(Item) /\ mq_got' = mq_got
                            /\ \/ Contents(s2)' = Append(Contents(s), m)
                               \/ Contents(s2)' = <<m>> \o Contents(s)
      \/ /\ Contents(s) # <<>> /\ mq_got' = Head(Contents(s))
         /\ Contents(s2)' = Tail(Contents(s))
      \/ Contents(s2)' = <<>> /\ mq_got' = mq_got
  <2>1. BlocksInv(s, u) /\ BlocksInv(s2, u2)'
    BY <1>1, <1>2 DEF MqState
  <2> QED BY <1>2, <2>1, QueueStepFifo
<1>7. [MqFifo!Next]_<<mq_queue, mq_got>>
  <2> HIDE DEF mq_queue
  <2>1. \/ mq_queue' = mq_queue /\ mq_got' = mq_got
        \/ \E m \in Message : /\ Len(mq_queue) < Cardinality(Item) /\ mq_got' = mq_got
                              /\ \/ mq_queue' = Append(mq_queue, m)
                                 \/ mq_queue' = <<m>> \o mq_queue
        \/ mq_queue # <<>> /\ mq_got' = Head(mq_queue) /\ mq_queue' = Tail(mq_queue)
        \/ mq_queue' = <<>> /\ mq_got' = mq_got
    BY <1>4, <1>5, <1>6
  <2>2. CASE mq_queue' = mq_queue /\ mq_got' = mq_got
    BY <2>2
  <2>3. ASSUME NEW m \in Message, Len(mq_queue) < Cardinality(Item), mq_got' = mq_got,
               mq_queue' = Append(mq_queue, m) \/ mq_queue' = <<m>> \o mq_queue
        PROVE  MqFifo!Next
    BY <2>3 DEF MqFifo!Next, MqFifo!Put, MqFifo!PutFirst, mq_queue
  <2>4. ASSUME mq_queue # <<>>, mq_got' = Head(mq_queue), mq_queue' = Tail(mq_queue)
        PROVE  MqFifo!Next
    BY <2>4 DEF MqFifo!Next, MqFifo!Get, mq_queue
  <2>5. ASSUME mq_queue' = <<>>, mq_got' = mq_got PROVE MqFifo!Next
    BY <2>5 DEF MqFifo!Next, MqFifo!Clear, mq_queue
  <2> QED BY <2>1, <2>2, <2>3, <2>4, <2>5
<1> QED BY <1>3, <1>7

\* What the invariant says of the blocks.
LEMMA MqPartition ==
  ASSUME NEW s, NEW u, MqState(s, u)
  PROVE  BlocksPartitioned
<1> DEFINE holders == {t \in Thread : msg[t] # NULL}
           held == {msg[t] : t \in holders}
<1>1. BlocksInv(s, u) /\ Chain(next, head) = s /\ Chain(next, free) = u
  BY MqChains DEF MqState
<1>2. /\ msg \in [Thread -> Item \cup {NULL}]
      /\ IsChain(next, head, s) /\ IsChain(next, free, u)
      /\ mq_entry = Len(s) /\ tail = IF Len(s) = 0 THEN NULL ELSE s[Len(s)]
      /\ ToSet(s) \cap ToSet(u) = {}
      /\ \A t \in Thread : msg[t] \notin ToSet(s) \cup ToSet(u)
      /\ \A t, v \in Thread : msg[t] = msg[v] /\ msg[t] # NULL => t = v
      /\ \A b \in Item : b \in ToSet(s) \cup ToSet(u) \/ \E t \in Thread : msg[t] = b
  BY <1>1 DEF BlocksInv
<1>3. /\ s \in Seq(Item) /\ u \in Seq(Item) /\ ToSet(s) \subseteq Item /\ ToSet(u) \subseteq Item
      /\ (s = <<>> <=> Len(s) = 0) /\ Len(s) \in Nat /\ Len(u) \in Nat
      /\ \A x : x \in ToSet(s) <=> \E i \in 1 .. Len(s) : s[i] = x
      /\ \A x : x \in ToSet(u) <=> \E i \in 1 .. Len(u) : u[i] = x
      /\ \A i, j \in 1 .. Len(s) : s[i] = s[j] => i = j
      /\ \A i, j \in 1 .. Len(u) : u[i] = u[j] => i = j
  <2>1. /\ s \in Seq(Item) /\ Len(s) \in Nat /\ ToSet(s) \subseteq Item
        /\ (s = <<>> <=> Len(s) = 0)
        /\ \A x : x \in ToSet(s) <=> \E i \in 1 .. Len(s) : s[i] = x
    BY <1>2, ChainFacts
  <2>2. /\ u \in Seq(Item) /\ Len(u) \in Nat /\ ToSet(u) \subseteq Item
        /\ \A x : x \in ToSet(u) <=> \E i \in 1 .. Len(u) : u[i] = x
    BY <1>2, ChainFacts
  <2>3. /\ \A i, j \in 1 .. Len(s) : s[i] = s[j] => i = j
        /\ \A i, j \in 1 .. Len(u) : u[i] = u[j] => i = j
    BY <1>2 DEF IsChain
  <2> QED BY <2>1, <2>2, <2>3
<1>4. IsInjective(s \o u) /\ ToSet(s \o u) = ToSet(s) \cup ToSet(u)
  <2>1. PICK v, n, m : v = s \o u /\ n = Len(s) /\ m = Len(u)
    OBVIOUS
  <2>2. /\ v \in Seq(Item) /\ Len(v) = n + m /\ n \in Nat /\ m \in Nat
        /\ \A i \in 1 .. n + m : v[i] = IF i <= n THEN s[i] ELSE u[i - n]
    BY <1>3, <2>1, ConcatProperties
  <2>3. /\ \A i \in 1 .. n : i \in 1 .. n + m /\ v[i] = s[i] /\ v[i] \in ToSet(s)
        /\ \A i \in n + 1 .. n + m : i \in 1 .. n + m /\ i - n \in 1 .. m /\ v[i] = u[i - n] /\ v[i] \in ToSet(u)
        /\ \A i \in 1 .. n + m : i \in 1 .. n \/ i \in n + 1 .. n + m
    BY <1>3, <2>1, <2>2
  <2>4. ASSUME NEW i \in 1 .. n + m, NEW j \in 1 .. n + m, v[i] = v[j] PROVE i = j
    <3>1. CASE i \in 1 .. n /\ j \in 1 .. n
      BY <1>3, <2>1, <2>3, <2>4, <3>1
    <3>2. CASE i \in n + 1 .. n + m /\ j \in n + 1 .. n + m
      <4>1. i - n = j - n
        BY <1>3, <2>1, <2>2, <2>3, <2>4, <3>2
      <4> QED BY <2>2, <3>2, <4>1
    <3>3. CASE (i \in 1 .. n /\ j \in n + 1 .. n + m) \/ (j \in 1 .. n /\ i \in n + 1 .. n + m)
      BY <1>2, <2>2, <2>3, <2>4, <3>3
    <3> QED BY <2>3, <3>1, <3>2, <3>3
  <2>5. IsInjective(v) /\ \A x : x \in ToSet(v) <=> \E i \in 1 .. n + m : v[i] = x
    BY <2>2, <2>4, SeqViews
  <2>6. ASSUME NEW x, x \in ToSet(u) PROVE x \in ToSet(v)
    <3>1. PICK i \in 1 .. m : u[i] = x
      BY <1>3, <2>1, <2>6
    <3>2. n + i \in n + 1 .. n + m /\ n + i - n = i
      BY <2>2
    <3>3. v[n + i] = x /\ n + i \in 1 .. n + m
      BY <2>2, <2>3, <3>1, <3>2
    <3> QED BY <2>5, <3>3
  <2>7. \A x \in ToSet(s) : x \in ToSet(v)
    BY <1>3, <2>1, <2>3, <2>5
  <2>8. \A x \in ToSet(v) : x \in ToSet(s) \cup ToSet(u)
    BY <2>3, <2>5
  <2> QED BY <2>1, <2>5, <2>6, <2>7, <2>8
<1>5. (ToSet(s) \cup ToSet(u)) \cap held = {} /\ (ToSet(s) \cup ToSet(u)) \cup held = Item
  <2>1. \A b \in held : b \in Item /\ b \notin ToSet(s) \cup ToSet(u)
    BY <1>2
  <2>2. \A b \in Item : b \in ToSet(s) \cup ToSet(u) \/ b \in held
    BY <1>2, MessageQueueAssumption
  <2> HIDE DEF held
  <2> QED BY <1>3, <2>1, <2>2
<1>6. Cardinality(held) = Cardinality(holders)
  <2> DEFINE f == [t \in holders |-> msg[t]]
  <2>1. f \in Bijection(holders, held)
    BY <1>2 DEF Bijection, Injection, Surjection, IsInjective
  <2>2. IsFiniteSet(holders)
    BY KernelAssumption, FS_Subset
  <2>3. ExistsBijection(holders, held)
    BY <2>1 DEF ExistsBijection
  <2> HIDE DEF holders, held
  <2> QED BY <2>2, <2>3, FS_Bijection
<1>7. tail = IF s = <<>> THEN NULL ELSE s[mq_entry]
  BY <1>2, <1>3
<1> HIDE DEF holders, held
<1> QED BY <1>1, <1>2, <1>4, <1>5, <1>6, <1>7 DEF BlocksPartitioned, holders, held

LEMMA MqInvSays == MqInv => MessageQueueInv /\ CopiesIntact /\ DeadlineKept
<1> SUFFICES ASSUME MqInv PROVE MessageQueueInv /\ CopiesIntact /\ DeadlineKept
  OBVIOUS
<1>1. PICK s, u : MqState(s, u)
  BY DEF MqInv
<1>2. /\ BlocksInv(s, u) /\ CopyInv /\ ModesInv /\ ThreadsInv /\ TimesInv /\ mq_entry = Len(s)
      /\ Served(Len(s), Len(u))
      /\ Chain(next, head) = s /\ Chain(next, free) = u
  BY <1>1, MqFacts, MqChains DEF ExchangeInv
<1>3. MqTypeOK
  <2>1. {head, tail, free} \subseteq Item \cup {NULL}
    <3>1. IsChain(next, head, s) /\ IsChain(next, free, u) /\ tail = IF Len(s) = 0 THEN NULL ELSE s[Len(s)]
      BY <1>2 DEF BlocksInv
    <3> QED BY <3>1, ChainFacts
  <2> QED BY <1>2, <2>1 DEF MqTypeOK, ThreadsInv, TimesInv, ModesInv, BlocksInv, Points, CallType
<1>4. BlocksPartitioned
  BY <1>1, MqPartition
<1>5. MqReceiversWoken /\ MqSendersWoken
  BY <1>2 DEF Served, WokenReceivers, WokenSenders, MqReceiversWoken, MqSendersWoken
<1>6. CopiesIntact
  BY <1>2 DEF CopyInv, Copies, CopiesIntact
<1>7. DeadlineKept
  BY <1>2 DEF TimesInv
<1> QED BY <1>3, <1>4, <1>5, <1>6, <1>7 DEF MessageQueueInv

\* However the two sections of rt_mq_send_wait, rt_mq_urgent and rt_mq_recv are
\* interleaved with other calls, interrupts and the reset, no block is lost or
\* shared, and no thread sleeps through a message or a free block.
THEOREM MessageQueueCorrect == MqSpec => []MessageQueueInv
BY MqInitInv, MqInvStep, MqInvSays, PTL DEF MqSpec

\* A message is copied, in rt_mq_send_wait and rt_mq_recv with interrupts
\* enabled, into and out of a block that nobody else touches.
THEOREM MessageQueueCopies == MqSpec => []CopiesIntact
BY MqInitInv, MqInvStep, MqInvSays, PTL DEF MqSpec

\* However often a thread of rt_mq_send_wait or rt_mq_recv is woken in vain, its
\* timer expires exactly at the caller's deadline.
THEOREM MessageQueueDeadlines == MqSpec => []DeadlineKept
BY MqInitInv, MqInvStep, MqInvSays, PTL DEF MqSpec

\* rt_mq_send_wait, rt_mq_urgent, rt_mq_recv and the reset implement a bounded
\* queue: no message is lost, duplicated, changed or overtaken.
THEOREM MessageQueueFifo == MqSpec => MqImplementsFifo
BY MqInitInv, MqInvStep, PTL DEF MqSpec, MqImplementsFifo, MqFifo!Spec, mq_queue
=============================================================================
