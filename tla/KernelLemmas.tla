---------------------------- MODULE KernelLemmas ----------------------------
(***************************************************************************)
(* What the operators of Kernel preserve, proved for any set of threads,   *)
(* priorities, IPC objects and time slices: first what the list operations *)
(* do to each field of the kernel's state, then the routines built from    *)
(* them, which keep every thread in exactly the list its state calls for   *)
(* (KernelInv).                                                            *)
(*                                                                         *)
(* The argument of KernelInv, X, is the set of threads that are in no list *)
(* at the moment: a routine takes a thread out of its list (which adds it  *)
(* to X), changes its state or priority, and puts it back.                 *)
(***************************************************************************)
EXTENDS Kernel, ListLemmas, FiniteSetTheorems

\* rt_list_remove maps kernel states to kernel states.
LEMMA ListRemoveType ==
  ASSUME NEW k \in KernelState, NEW t \in Thread
  PROVE  rt_list_remove(k, t) \in KernelState
BY UnlinkType DEF rt_list_remove, KernelState

\* rt_schedule_insert_thread maps kernel states to kernel states.
LEMMA InsertType ==
  ASSUME NEW k \in KernelState, NEW t \in Thread
  PROVE  rt_schedule_insert_thread(k, t) \in KernelState
<1>1. k.prio[t] \in Prio /\ k.table[k.prio[t]] \in Seq(Thread)
  BY DEF KernelState
<1>2. \A s \in Seq(Thread) : Append(s, t) \in Seq(Thread) /\ Cons(t, s) \in Seq(Thread)
  BY DEF Cons
<1> QED BY <1>1, <1>2 DEF rt_schedule_insert_thread, KernelState, Stat

\* rt_schedule_remove_thread maps kernel states to kernel states.
LEMMA RemoveType ==
  ASSUME NEW k \in KernelState, NEW t \in Thread
  PROVE  rt_schedule_remove_thread(k, t) \in KernelState
<1> DEFINE r == rt_list_remove(k, t)
<1>1. r \in KernelState
  BY ListRemoveType
<1> HIDE DEF r
<1>2. \A G \in SUBSET Prio : [r EXCEPT !.group = G] \in KernelState
  BY <1>1 DEF KernelState
<1>3. r.group \in SUBSET Prio
  BY <1>1 DEF KernelState
<1> QED BY <1>1, <1>2, <1>3 DEF rt_schedule_remove_thread, r

\* No list holds a thread twice.
ListsInjective(k) ==
  /\ \A p \in Prio : IsInjective(k.table[p])
  /\ \A q \in Queue : IsInjective(k.wait[q])
  /\ IsInjective(k.defunct)

\* Two states that differ in the thread lists and the bitmap only.
SameBut(r, k) ==
  /\ r.stat = k.stat /\ r.yield = k.yield /\ r.prio = k.prio /\ r.slice = k.slice
  /\ r.err = k.err /\ r.cur = k.cur /\ r.nest = k.nest /\ r.timers = k.timers

\* rt_list_remove takes t out of every list and touches no other field.
LEMMA ListRemoveFields ==
  ASSUME NEW k \in KernelState, NEW t \in Thread, ListsInjective(k)
  PROVE  LET r == rt_list_remove(k, t)
         IN  /\ r \in KernelState
             /\ SameBut(r, k) /\ r.group = k.group
             /\ ListsInjective(r)
             /\ \A p \in Prio : ToSet(r.table[p]) = ToSet(k.table[p]) \ {t}
             /\ \A q \in Queue : ToSet(r.wait[q]) = ToSet(k.wait[q]) \ {t}
             /\ ToSet(r.defunct) = ToSet(k.defunct) \ {t}
<1> DEFINE r == rt_list_remove(k, t)
<1>1. r \in KernelState
  BY ListRemoveType
<1>2. SameBut(r, k) /\ r.group = k.group
  BY DEF KernelState, rt_list_remove, SameBut
<1>3. /\ r.table = [p \in Prio |-> Unlink(k.table[p], t)]
      /\ r.wait = [q \in Queue |-> Unlink(k.wait[q], t)]
      /\ r.defunct = Unlink(k.defunct, t)
  BY DEF KernelState, rt_list_remove
<1>4. /\ \A p \in Prio : k.table[p] \in Seq(Thread)
      /\ \A q \in Queue : k.wait[q] \in Seq(Thread)
      /\ k.defunct \in Seq(Thread)
  BY DEF KernelState
<1> HIDE DEF r
<1>5. \A p \in Prio : IsInjective(r.table[p]) /\ ToSet(r.table[p]) = ToSet(k.table[p]) \ {t}
  BY <1>3, <1>4, UnlinkProperties DEF ListsInjective
<1>6. \A q \in Queue : IsInjective(r.wait[q]) /\ ToSet(r.wait[q]) = ToSet(k.wait[q]) \ {t}
  BY <1>3, <1>4, UnlinkProperties DEF ListsInjective
<1>7. IsInjective(r.defunct) /\ ToSet(r.defunct) = ToSet(k.defunct) \ {t}
  BY <1>3, <1>4, UnlinkProperties DEF ListsInjective
<1> QED BY <1>1, <1>2, <1>5, <1>6, <1>7 DEF ListsInjective, r

\* A bit is set for exactly the lists that are not empty.
GroupRight(k) == k.group = {p \in Prio : k.table[p] # <<>>}

\* rt_schedule_remove_thread takes t out of every list and keeps the ready
\* bitmap in step with the ready table, when t is in no list but its own
\* priority's.
LEMMA RemoveThreadFields ==
  ASSUME NEW k \in KernelState, NEW t \in Thread, ListsInjective(k), GroupRight(k),
         \A p \in Prio : t \in ToSet(k.table[p]) => p = k.prio[t]
  PROVE  LET r == rt_schedule_remove_thread(k, t)
         IN  /\ r \in KernelState
             /\ SameBut(r, k)
             /\ ListsInjective(r)
             /\ GroupRight(r)
             /\ \A p \in Prio : ToSet(r.table[p]) = ToSet(k.table[p]) \ {t}
             /\ \A q \in Queue : ToSet(r.wait[q]) = ToSet(k.wait[q]) \ {t}
             /\ ToSet(r.defunct) = ToSet(k.defunct) \ {t}
<1> DEFINE l == rt_list_remove(k, t)
           r == rt_schedule_remove_thread(k, t)
           p == k.prio[t]
<1>1. /\ l \in KernelState
      /\ SameBut(l, k) /\ l.group = k.group
      /\ ListsInjective(l)
      /\ \A x \in Prio : ToSet(l.table[x]) = ToSet(k.table[x]) \ {t}
      /\ \A q \in Queue : ToSet(l.wait[q]) = ToSet(k.wait[q]) \ {t}
      /\ ToSet(l.defunct) = ToSet(k.defunct) \ {t}
  BY ListRemoveFields
<1>2. r = [l EXCEPT !.group = IF l.table[p] = <<>> THEN @ \ {p} ELSE @]
  BY DEF rt_schedule_remove_thread
<1>3. r \in KernelState
  BY RemoveType
<1> HIDE DEF l, r
<1>4. /\ SameBut(r, l) /\ r.table = l.table /\ r.wait = l.wait /\ r.defunct = l.defunct
      /\ r.group = IF l.table[p] = <<>> THEN l.group \ {p} ELSE l.group
  BY <1>1, <1>2 DEF KernelState, SameBut
<1>5. \A x \in Prio : k.table[x] \in Seq(Thread) /\ l.table[x] \in Seq(Thread)
  BY <1>1 DEF KernelState
<1>6. \A x \in Prio : x # p => (l.table[x] = <<>> <=> k.table[x] = <<>>)
  <2> SUFFICES ASSUME NEW x \in Prio, x # p
               PROVE  l.table[x] = <<>> <=> k.table[x] = <<>>
    OBVIOUS
  <2>1. ToSet(l.table[x]) = ToSet(k.table[x]) \ {t}
    BY <1>1
  <2>2. t \notin ToSet(k.table[x])
    OBVIOUS
  <2>3. ToSet(l.table[x]) = ToSet(k.table[x])
    BY <2>1, <2>2, Zenon
  <2> QED BY <2>3, <1>5, EmptyToSet
<1>7. k.table[p] = <<>> => l.table[p] = <<>>
  <2>1. p \in Prio
    BY DEF KernelState
  <2>2. ToSet(k.table[p]) = {} => ToSet(l.table[p]) = {}
    BY <1>1, <2>1
  <2> QED BY <2>1, <2>2, <1>5, EmptyToSet
<1>8. GroupRight(r)
  BY <1>1, <1>4, <1>6, <1>7 DEF GroupRight
<1> QED BY <1>1, <1>3, <1>4, <1>8 DEF SameBut, ListsInjective, r

\* The timers of a kernel state belong to threads.
LEMMA TimerThreads ==
  ASSUME NEW k \in KernelState
  PROVE  /\ k.timers \in Seq(Timer)
         /\ \A i \in DOMAIN k.timers : k.timers[i].thr \in Thread
<1>1. k.timers \in Seq(Timer)
  BY DEF KernelState
<1>2. \A i \in DOMAIN k.timers : k.timers[i] \in Timer
  BY <1>1, ElementOfSeq, LenProperties
<1>3. \A e \in Timer : e.thr \in Thread
  BY DEF Timer
<1> QED BY <1>1, <1>2, <1>3

\* Consistent lists have no duplicates and a right bitmap.
LEMMA ConsistentLists ==
  ASSUME NEW k \in KernelState, NEW X, ListsConsistent(k, X)
  PROVE  ListsInjective(k) /\ GroupRight(k)
BY DEF ListsConsistent, ReadyTableOf, WaitersOf, DefunctOf, ListsInjective, GroupRight

\* rt_schedule_remove_thread takes a thread with no armed timer out of its list.
LEMMA TakeOut ==
  ASSUME NEW k \in KernelState, NEW X, ListsConsistent(k, X), NEW t \in Thread,
         ~TimerArmed(k, t)
  PROVE  LET r == rt_schedule_remove_thread(k, t)
         IN  /\ r \in KernelState /\ SameBut(r, k) /\ ListsConsistent(r, X \cup {t})
             /\ ToSet(r.defunct) = ToSet(k.defunct) \ {t}
<1> DEFINE r == rt_schedule_remove_thread(k, t)
<1>1. \A p \in Prio : t \in ToSet(k.table[p]) => p = k.prio[t]
  BY DEF ListsConsistent, ReadyTableOf
<1>2. /\ r \in KernelState /\ SameBut(r, k) /\ ListsInjective(r) /\ GroupRight(r)
      /\ \A p \in Prio : ToSet(r.table[p]) = ToSet(k.table[p]) \ {t}
      /\ \A q \in Queue : ToSet(r.wait[q]) = ToSet(k.wait[q]) \ {t}
      /\ ToSet(r.defunct) = ToSet(k.defunct) \ {t}
  BY <1>1, ConsistentLists, RemoveThreadFields
<1> HIDE DEF r
<1>3. ReadyTableOf(r, X \cup {t})
  <2>1. \A u \in Thread, p \in Prio : u \in ToSet(r.table[p]) <=>
                                        r.stat[u] = "READY" /\ r.prio[u] = p /\ u \notin X \cup {t}
    BY <1>2 DEF ListsConsistent, ReadyTableOf, SameBut
  <2>2. \A u \in Thread \ (X \cup {t}) : r.stat[u] = "RUNNING" => u = r.cur
    BY <1>2 DEF ListsConsistent, ReadyTableOf, SameBut
  <2> QED BY <1>2, <2>1, <2>2 DEF ReadyTableOf, ListsInjective, GroupRight
<1>4. TimersOf(r, X \cup {t})
  BY <1>2 DEF ListsConsistent, TimersOf, SameBut, TimerArmed
<1>5. WaitersOf(r, X \cup {t})
  BY <1>2 DEF ListsConsistent, WaitersOf, SameBut, ListsInjective
<1>6. DefunctOf(r, X \cup {t})
  BY <1>2 DEF ListsConsistent, DefunctOf, SameBut, ListsInjective
<1> QED BY <1>2, <1>3, <1>4, <1>5, <1>6 DEF ListsConsistent, r

\* rt_list_remove does so for a thread that is not READY.
LEMMA TakeOutWaiter ==
  ASSUME NEW k \in KernelState, NEW X, ListsConsistent(k, X), NEW t \in Thread,
         ~TimerArmed(k, t), k.stat[t] # "READY"
  PROVE  LET r == rt_list_remove(k, t)
         IN  /\ r \in KernelState /\ SameBut(r, k) /\ ListsConsistent(r, X \cup {t})
             /\ ToSet(r.defunct) = ToSet(k.defunct) \ {t}
<1> DEFINE r == rt_list_remove(k, t)
<1>2. /\ r \in KernelState /\ SameBut(r, k) /\ ListsInjective(r) /\ r.group = k.group
      /\ \A p \in Prio : ToSet(r.table[p]) = ToSet(k.table[p]) \ {t}
      /\ \A q \in Queue : ToSet(r.wait[q]) = ToSet(k.wait[q]) \ {t}
      /\ ToSet(r.defunct) = ToSet(k.defunct) \ {t}
  BY ConsistentLists, ListRemoveFields
<1> HIDE DEF r
<1>a. \A p \in Prio : ToSet(r.table[p]) = ToSet(k.table[p])
  <2>1. \A p \in Prio : t \notin ToSet(k.table[p])
    BY DEF ListsConsistent, ReadyTableOf
  <2>2. \A S : t \notin S => S \ {t} = S
    OBVIOUS
  <2> QED BY <1>2, <2>1, <2>2
<1>b. \A p \in Prio : r.table[p] = <<>> <=> k.table[p] = <<>>
  <2>1. \A p \in Prio : r.table[p] \in Seq(Thread) /\ k.table[p] \in Seq(Thread)
    BY <1>2 DEF KernelState
  <2> QED BY <1>a, <2>1, EmptyToSet
<1>3. ReadyTableOf(r, X \cup {t})
  BY <1>2, <1>a, <1>b DEF ListsConsistent, ReadyTableOf, SameBut, ListsInjective
<1>4. TimersOf(r, X \cup {t})
  BY <1>2 DEF ListsConsistent, TimersOf, SameBut, TimerArmed
<1>5. WaitersOf(r, X \cup {t})
  BY <1>2 DEF ListsConsistent, WaitersOf, SameBut, ListsInjective
<1>6. DefunctOf(r, X \cup {t})
  BY <1>2 DEF ListsConsistent, DefunctOf, SameBut, ListsInjective
<1> QED BY <1>2, <1>3, <1>4, <1>5, <1>6 DEF ListsConsistent, r

\* The state of a thread in no list may change.
LEMMA ChangeStat ==
  ASSUME NEW k \in KernelState, NEW X, ListsConsistent(k, X), NEW t \in X, t \in Thread,
         NEW s \in Stat
  PROVE  LET r == [k EXCEPT !.stat[t] = s]
         IN  r \in KernelState /\ ListsConsistent(r, X)
<1> DEFINE r == [k EXCEPT !.stat[t] = s]
<1>1. /\ r \in KernelState
      /\ r.table = k.table /\ r.group = k.group /\ r.prio = k.prio /\ r.cur = k.cur
      /\ r.timers = k.timers /\ r.wait = k.wait /\ r.defunct = k.defunct
      /\ \A u \in Thread : u # t => r.stat[u] = k.stat[u]
  BY DEF KernelState
<1> HIDE DEF r
<1>2. ReadyTableOf(r, X)
  BY <1>1 DEF ListsConsistent, ReadyTableOf
<1>3. TimersOf(r, X)
  <2>1. \A i \in DOMAIN k.timers : k.timers[i].thr \in Thread
    BY TimerThreads
  <2> QED BY <1>1, <2>1 DEF ListsConsistent, TimersOf
<1>4. WaitersOf(r, X)
  BY <1>1 DEF ListsConsistent, WaitersOf
<1>5. DefunctOf(r, X)
  <2>1. ToSet(k.defunct) \subseteq Thread
    BY EmptyToSet DEF KernelState
  <2> QED BY <1>1, <2>1 DEF ListsConsistent, DefunctOf
<1> QED BY <1>1, <1>2, <1>3, <1>4, <1>5 DEF ListsConsistent, r

\* A thread in no list that is not READY need not be exempt.
LEMMA DropExempt ==
  ASSUME NEW k \in KernelState, NEW X, NEW t \in Thread, ListsConsistent(k, X),
         k.stat[t] # "READY", k.stat[t] = "RUNNING" => t = k.cur
  PROVE  ListsConsistent(k, X \ {t})
<1>1. ReadyTableOf(k, X \ {t})
  BY DEF ListsConsistent, ReadyTableOf
<1>2. TimersOf(k, X \ {t}) /\ WaitersOf(k, X \ {t}) /\ DefunctOf(k, X \ {t})
  BY DEF ListsConsistent, TimersOf, WaitersOf, DefunctOf
<1> QED BY <1>1, <1>2 DEF ListsConsistent

\* rt_schedule_insert_thread puts a thread that is in no list where it belongs.
LEMMA PutBack ==
  ASSUME NEW k \in KernelState, NEW X, ListsConsistent(k, X), NEW t \in Thread, t \in X
  PROVE  LET r == rt_schedule_insert_thread(k, t)
         IN  /\ r \in KernelState
             /\ ListsConsistent(r, X \ {t})
             /\ r.cur = k.cur /\ r.prio = k.prio /\ r.nest = k.nest /\ r.yield = k.yield
             /\ r.timers = k.timers /\ r.wait = k.wait /\ r.defunct = k.defunct
             /\ \A u \in Thread : r.stat[u] = IF u # t THEN k.stat[u]
                                             ELSE IF t = k.cur THEN "RUNNING" ELSE "READY"
<1> DEFINE r == rt_schedule_insert_thread(k, t)
           p == k.prio[t]
<1>1. r \in KernelState
  BY InsertType
<1>2. CASE t = k.cur
  <2>1. r = [k EXCEPT !.stat[t] = "RUNNING"]
    BY <1>2 DEF rt_schedule_insert_thread
  <2>2. ListsConsistent(r, X)
    <3>1. "RUNNING" \in Stat
      BY DEF Stat
    <3> QED BY <2>1, <3>1, ChangeStat
  <2>3. /\ r.cur = k.cur /\ r.prio = k.prio /\ r.nest = k.nest /\ r.yield = k.yield
        /\ r.timers = k.timers /\ r.wait = k.wait /\ r.defunct = k.defunct
        /\ r.stat = [k.stat EXCEPT ![t] = "RUNNING"]
    BY <2>1 DEF KernelState
  <2>4. r.stat[t] = "RUNNING"
    BY <2>3 DEF KernelState
  <2> HIDE DEF r
  <2>6. ListsConsistent(r, X \ {t})
    BY <2>2, <2>3, <2>4, <1>1, <1>2, DropExempt
  <2>7. \A u \in Thread : r.stat[u] = IF u # t THEN k.stat[u] ELSE "RUNNING"
    BY <2>3 DEF KernelState
  <2> QED BY <1>1, <1>2, <2>3, <2>6, <2>7 DEF r
<1>3. CASE t # k.cur
  <2>1. /\ r.stat = [k.stat EXCEPT ![t] = "READY"]
        /\ r.table = [k.table EXCEPT ![p] = IF k.yield[t] THEN Append(@, t) ELSE Cons(t, @)]
        /\ r.group = k.group \cup {p}
        /\ r.cur = k.cur /\ r.prio = k.prio /\ r.nest = k.nest /\ r.yield = k.yield
        /\ r.timers = k.timers /\ r.wait = k.wait /\ r.defunct = k.defunct
    BY <1>3 DEF rt_schedule_insert_thread, KernelState
  <2> HIDE DEF r
  <2>2. p \in Prio /\ k.table[p] \in Seq(Thread) /\ DOMAIN k.table = Prio
    BY DEF KernelState
  <2>3. t \notin ToSet(k.table[p]) /\ IsInjective(k.table[p])
    BY <2>2 DEF ListsConsistent, ReadyTableOf
  <2>4. /\ IsInjective(r.table[p]) /\ ToSet(r.table[p]) = ToSet(k.table[p]) \cup {t}
        /\ r.table[p] \in Seq(Thread)
    BY <2>1, <2>2, <2>3, AppendProps, ConsProps
  <2>5. r.table[p] # <<>>
    BY <2>4, EmptyToSet
  <2>6. \A x \in Prio \ {p} : r.table[x] = k.table[x]
    BY <2>1, <2>2
  <2>7. \A u \in Thread : u # t => r.stat[u] = k.stat[u]
    BY <2>1 DEF KernelState
  <2>8. r.stat[t] = "READY"
    BY <2>1 DEF KernelState
  <2>9. ReadyTableOf(r, X \ {t})
    <3>1. \A x \in Prio : IsInjective(r.table[x])
      BY <2>4, <2>6 DEF ListsConsistent, ReadyTableOf
    <3>2. \A u \in Thread, x \in Prio :
            u \in ToSet(r.table[x]) <=> r.stat[u] = "READY" /\ r.prio[u] = x /\ u \notin X \ {t}
      <4> SUFFICES ASSUME NEW u \in Thread, NEW x \in Prio
                   PROVE  u \in ToSet(r.table[x]) <=>
                            r.stat[u] = "READY" /\ r.prio[u] = x /\ u \notin X \ {t}
        OBVIOUS
      <4>1. u \in ToSet(k.table[x]) <=>
              k.stat[u] = "READY" /\ k.prio[u] = x /\ u \notin X
        BY DEF ListsConsistent, ReadyTableOf
      <4>2. CASE x = p
        BY <4>1, <4>2, <2>1, <2>4, <2>7, <2>8
      <4>3. CASE x # p
        BY <4>1, <4>3, <2>1, <2>6, <2>7, <2>8
      <4> QED BY <4>2, <4>3
    <3>3. r.group = {x \in Prio : r.table[x] # <<>>}
      BY <2>1, <2>2, <2>5, <2>6 DEF ListsConsistent, ReadyTableOf
    <3>4. \A u \in Thread \ (X \ {t}) : r.stat[u] = "RUNNING" => u = r.cur
      BY <2>1, <2>7, <2>8 DEF ListsConsistent, ReadyTableOf
    <3> QED BY <3>1, <3>2, <3>3, <3>4 DEF ReadyTableOf
  <2>10. TimersOf(r, X \ {t})
    <3>1. \A i \in DOMAIN k.timers : k.timers[i].thr \in Thread
      BY TimerThreads
    <3> QED BY <3>1, <2>1, <2>7 DEF ListsConsistent, TimersOf
  <2>11. WaitersOf(r, X \ {t})
    BY <2>1, <2>7 DEF ListsConsistent, WaitersOf
  <2>12. DefunctOf(r, X \ {t})
    <3>1. ToSet(k.defunct) \subseteq Thread
      BY EmptyToSet DEF KernelState
    <3> QED BY <3>1, <2>1, <2>7 DEF ListsConsistent, DefunctOf
  <2> QED BY <1>1, <1>3, <2>1, <2>7, <2>8, <2>9, <2>10, <2>11, <2>12 DEF ListsConsistent, r
<1> QED BY <1>2, <1>3

\* Two states that differ in their thread timers only.
SameButTimers(r, k) ==
  /\ r.stat = k.stat /\ r.yield = k.yield /\ r.prio = k.prio /\ r.slice = k.slice
  /\ r.err = k.err /\ r.cur = k.cur /\ r.nest = k.nest /\ r.table = k.table
  /\ r.group = k.group /\ r.wait = k.wait /\ r.defunct = k.defunct

\* A new timer list that fits the thread states keeps the lists consistent.
LEMMA OtherTimers ==
  ASSUME NEW k \in KernelState, NEW r \in KernelState, SameButTimers(r, k), NEW X,
         ListsConsistent(k, X), TimersOf(r, X)
  PROVE  ListsConsistent(r, X)
<1>1. ReadyTableOf(r, X)
  BY DEF SameButTimers, ListsConsistent, ReadyTableOf
<1>2. WaitersOf(r, X) /\ DefunctOf(r, X)
  BY DEF SameButTimers, ListsConsistent, WaitersOf, DefunctOf
<1> QED BY <1>1, <1>2 DEF ListsConsistent

\* Stopping the timer of a thread keeps the lists consistent.
LEMMA TimerStopInv ==
  ASSUME NEW k \in KernelState, NEW X, ListsConsistent(k, X), NEW t \in Thread
  PROVE  LET r == TimerStop(k, t)
         IN  /\ r \in KernelState /\ SameButTimers(r, k) /\ ListsConsistent(r, X)
             /\ ~TimerArmed(r, t)
<1> DEFINE r == TimerStop(k, t)
<1>1. CASE ~TimerArmed(k, t)
  BY <1>1 DEF TimerStop, SameButTimers
<1>2. CASE TimerArmed(k, t)
  <2> DEFINE n == CHOOSE i \in DOMAIN k.timers : k.timers[i].thr = t
  <2>1. n \in DOMAIN k.timers /\ k.timers[n].thr = t
    BY <1>2 DEF TimerArmed
  <2>2. r = [k EXCEPT !.timers = RemoveAt(k.timers, n)]
    BY <1>2 DEF TimerStop
  <2> HIDE DEF n
  <2>3. k.timers \in Seq(Timer) /\ DOMAIN k.timers = 1 .. Len(k.timers) /\ Len(k.timers) \in Nat
    BY TimerThreads, LenProperties
  <2> DEFINE s == RemoveAt(k.timers, n)
  <2>4. /\ s \in Seq(Timer)
        /\ Len(s) = Len(k.timers) - 1
        /\ \A j \in 1 .. Len(k.timers) - 1 : s[j] = IF j < n THEN k.timers[j] ELSE k.timers[j + 1]
    BY <2>1, <2>3, RemoveAtType
  <2>5. DOMAIN s = 1 .. Len(k.timers) - 1
    BY <2>4, LenProperties
  <2> HIDE DEF s
  <2>6. r \in KernelState /\ r.timers = s /\ SameButTimers(r, k)
    BY <2>2, <2>4 DEF KernelState, SameButTimers, s
  <2> HIDE DEF r
  <2>7. \A j \in DOMAIN s : \E i \in DOMAIN k.timers :
          i # n /\ s[j] = k.timers[i] /\ i = IF j < n THEN j ELSE j + 1
    BY <2>1, <2>3, <2>4, <2>5
  <2>8. TimersOf(k, X)
    BY DEF ListsConsistent
  <2>9. TimersOf(r, X)
    <3>1. \A j \in DOMAIN s : r.stat[s[j].thr] = "SUSPEND" /\ s[j].thr \notin X
      BY <2>6, <2>7, <2>8 DEF TimersOf, SameButTimers
    <3>2. ASSUME NEW a \in DOMAIN s, NEW b \in DOMAIN s, s[a].thr = s[b].thr
          PROVE  a = b
      <4>1. PICK i \in DOMAIN k.timers : s[a] = k.timers[i] /\ i = IF a < n THEN a ELSE a + 1
        BY <2>7
      <4>2. PICK j \in DOMAIN k.timers : s[b] = k.timers[j] /\ j = IF b < n THEN b ELSE b + 1
        BY <2>7
      <4>3. i = j
        BY <3>2, <4>1, <4>2, <2>8 DEF TimersOf
      <4>4. n \in Int /\ a \in Int /\ b \in Int
        BY <2>1, <2>3, <2>5
      <4> QED BY <4>1, <4>2, <4>3, <4>4
    <3> QED BY <3>1, <3>2, <2>6 DEF TimersOf
  <2>10. ~TimerArmed(r, t)
    BY <2>1, <2>6, <2>7, <2>8 DEF TimersOf, TimerArmed
  <2> QED BY <2>6, <2>9, <2>10, OtherTimers DEF r
<1> QED BY <1>1, <1>2

\* Arming the timer of a suspended thread keeps the lists consistent.
LEMMA TimerStartInv ==
  ASSUME NEW k \in KernelState, NEW X, ListsConsistent(k, X), NEW t \in Thread, t \notin X,
         k.stat[t] = "SUSPEND", NEW ticks \in Nat
  PROVE  LET r == TimerStart(k, t, ticks)
         IN  r \in KernelState /\ SameButTimers(r, k) /\ ListsConsistent(r, X)
<1> DEFINE k1   == TimerStop(k, t)
           rest == k1.timers
           soon == {i \in DOMAIN rest : rest[i].left <= ticks}
           n    == Cardinality(soon) + 1
           e    == [thr |-> t, left |-> ticks]
           s    == InsertAt(rest, n, e)
           r    == TimerStart(k, t, ticks)
<1>1. r = [k EXCEPT !.timers = s]
  BY DEF TimerStart
<1>2. k1 \in KernelState /\ SameButTimers(k1, k) /\ ListsConsistent(k1, X) /\ ~TimerArmed(k1, t)
  BY TimerStopInv
<1> HIDE DEF k1
<1>3. rest \in Seq(Timer) /\ DOMAIN rest = 1 .. Len(rest) /\ Len(rest) \in Nat
  BY <1>2, TimerThreads, LenProperties
<1>4. n \in 1 .. Len(rest) + 1
  <2>1. soon \subseteq 1 .. Len(rest)
    BY <1>3
  <2>2. IsFiniteSet(1 .. Len(rest)) /\ Cardinality(1 .. Len(rest)) = Len(rest)
    BY <1>3, FS_Interval
  <2> HIDE DEF soon
  <2>3. IsFiniteSet(soon) /\ Cardinality(soon) <= Len(rest)
    BY <2>1, <2>2, FS_Subset
  <2>4. Cardinality(soon) \in Nat
    BY <2>3, FS_CardinalityType
  <2> QED BY <2>3, <2>4, <1>3
<1>5. e \in Timer /\ e.thr = t
  BY DEF Timer
<1> HIDE DEF rest, n, e
<1>6. /\ s \in Seq(Timer)
      /\ Len(s) = Len(rest) + 1
      /\ \A j \in 1 .. Len(rest) + 1 : s[j] = IF j < n THEN rest[j] ELSE IF j = n THEN e ELSE rest[j - 1]
  BY <1>3, <1>4, <1>5, InsertAtType
<1>7. DOMAIN s = 1 .. Len(rest) + 1
  BY <1>6, LenProperties
<1> HIDE DEF s
<1>9. r \in KernelState /\ r.timers = s /\ SameButTimers(r, k)
  BY <1>1, <1>6 DEF KernelState, SameButTimers
<1> HIDE DEF r
<1>10. TimersOf(k1, X) /\ \A i \in DOMAIN rest : rest[i].thr # t
  BY <1>2 DEF ListsConsistent, TimerArmed, rest
<1>11. \A j \in DOMAIN s : \/ j = n /\ s[j] = e
                           \/ \E i \in DOMAIN rest : j # n /\ s[j] = rest[i] /\ i = IF j < n THEN j ELSE j - 1
  BY <1>3, <1>4, <1>6, <1>7
<1>12. TimersOf(r, X)
  <2>1. \A j \in DOMAIN s : r.stat[s[j].thr] = "SUSPEND" /\ s[j].thr \notin X
    BY <1>2, <1>5, <1>9, <1>10, <1>11 DEF TimersOf, SameButTimers, rest
  <2>2. ASSUME NEW a \in DOMAIN s, NEW b \in DOMAIN s, s[a].thr = s[b].thr
        PROVE  a = b
    <3>1. n \in Int /\ a \in Int /\ b \in Int
      BY <1>3, <1>4, <1>7
    <3>2. CASE a = n \/ b = n
      BY <3>2, <2>2, <1>5, <1>10, <1>11
    <3>3. CASE a # n /\ b # n
      <4>1. PICK i \in DOMAIN rest : s[a] = rest[i] /\ i = IF a < n THEN a ELSE a - 1
        BY <3>3, <1>11
      <4>2. PICK j \in DOMAIN rest : s[b] = rest[j] /\ j = IF b < n THEN b ELSE b - 1
        BY <3>3, <1>11
      <4>3. i = j
        BY <2>2, <4>1, <4>2, <1>10 DEF TimersOf, rest
      <4> QED BY <3>1, <3>3, <4>1, <4>2, <4>3
    <3> QED BY <3>2, <3>3
  <2> QED BY <2>1, <2>2, <1>9 DEF TimersOf
<1> QED BY <1>9, <1>12, OtherTimers DEF r

\* Fields that no list depends on may change freely.
LEMMA OtherFields ==
  ASSUME NEW k \in KernelState, NEW r \in KernelState, NEW X, ListsConsistent(k, X),
         r.stat = k.stat, r.prio = k.prio, r.cur = k.cur, r.table = k.table,
         r.group = k.group, r.timers = k.timers, r.wait = k.wait, r.defunct = k.defunct
  PROVE  ListsConsistent(r, X)
<1>1. ReadyTableOf(r, X)
  BY DEF ListsConsistent, ReadyTableOf
<1>2. TimersOf(r, X) /\ WaitersOf(r, X) /\ DefunctOf(r, X)
  BY DEF ListsConsistent, TimersOf, WaitersOf, DefunctOf
<1> QED BY <1>1, <1>2 DEF ListsConsistent

\* The lists may exempt a RUNNING thread: it is in none of them.
LEMMA AddExempt ==
  ASSUME NEW k \in KernelState, NEW X, ListsConsistent(k, X), NEW t \in Thread,
         k.stat[t] \in {"RUNNING", "INIT"}
  PROVE  ListsConsistent(k, X \cup {t})
<1>1. ReadyTableOf(k, X \cup {t})
  BY DEF ListsConsistent, ReadyTableOf
<1>2. TimersOf(k, X \cup {t})
  BY DEF ListsConsistent, TimersOf
<1>3. WaitersOf(k, X \cup {t})
  BY DEF ListsConsistent, WaitersOf
<1>4. DefunctOf(k, X \cup {t})
  BY DEF ListsConsistent, DefunctOf
<1> QED BY <1>1, <1>2, <1>3, <1>4 DEF ListsConsistent

\* With no thread RUNNING, any thread may be made the current one.
LEMMA ChangeCur ==
  ASSUME NEW k \in KernelState, NEW X, ListsConsistent(k, X), NEW to \in Thread,
         \A u \in Thread \ X : k.stat[u] # "RUNNING"
  PROVE  LET r == [k EXCEPT !.cur = to]
         IN  r \in KernelState /\ ListsConsistent(r, X)
<1> DEFINE r == [k EXCEPT !.cur = to]
<1>1. /\ r \in KernelState /\ r.stat = k.stat /\ r.prio = k.prio /\ r.table = k.table
      /\ r.group = k.group /\ r.timers = k.timers /\ r.wait = k.wait /\ r.defunct = k.defunct
  BY DEF KernelState
<1> HIDE DEF r
<1>2. ReadyTableOf(r, X)
  BY <1>1 DEF ListsConsistent, ReadyTableOf
<1>3. TimersOf(r, X) /\ WaitersOf(r, X) /\ DefunctOf(r, X)
  BY <1>1 DEF ListsConsistent, TimersOf, WaitersOf, DefunctOf
<1> QED BY <1>1, <1>2, <1>3 DEF ListsConsistent, r

\* The bitmap leads to a READY thread of the most urgent priority that has one.
LEMMA HighestIsReady ==
  ASSUME NEW k \in KernelState, NEW X, ListsConsistent(k, X), k.group # {}
  PROVE  /\ HighestReady(k) \in k.group
         /\ \A q \in k.group : HighestReady(k) <= q
         /\ HighestThread(k) \in Thread \ X
         /\ k.stat[HighestThread(k)] = "READY"
         /\ k.prio[HighestThread(k)] = HighestReady(k)
<1>1. k.group \subseteq Nat
  BY KernelAssumption DEF KernelState, Prio
<1>2. \E p \in k.group : \A q \in k.group : ~(q < p)
  <2>1. \A q, p \in Nat : <<q, p>> \in OpToRel(<, Nat) <=> q < p
    BY DEF OpToRel
  <2>2. \E p \in k.group : \A q \in k.group : <<q, p>> \notin OpToRel(<, Nat)
    BY <1>1, NatLessThanWellFounded, WFMin
  <2> QED BY <1>1, <2>1, <2>2
<1>3. HighestReady(k) \in k.group /\ \A q \in k.group : HighestReady(k) <= q
  <2>1. \E p \in k.group : \A q \in k.group : p <= q
    BY <1>1, <1>2
  <2> QED BY <2>1 DEF HighestReady
<1> DEFINE h == HighestReady(k)
<1>4. h \in Prio /\ k.table[h] \in Seq(Thread) /\ k.table[h] # <<>>
  BY <1>3 DEF KernelState, ListsConsistent, ReadyTableOf
<1>5. HighestThread(k) \in ToSet(k.table[h]) /\ HighestThread(k) \in Thread
  BY <1>4, EmptyToSet DEF HighestThread
<1> QED BY <1>3, <1>4, <1>5 DEF ListsConsistent, ReadyTableOf

\* The fields that rt_schedule_insert_thread leaves alone.
LEMMA InsertFrame ==
  ASSUME NEW k \in KernelState, NEW t \in Thread
  PROVE  LET r == rt_schedule_insert_thread(k, t)
         IN  /\ r.cur = k.cur /\ r.nest = k.nest /\ r.defunct = k.defunct
             /\ \A u \in Thread : r.stat[u] = IF u # t THEN k.stat[u]
                                             ELSE IF t = k.cur THEN "RUNNING" ELSE "READY"
BY DEF rt_schedule_insert_thread, KernelState

\* What no kernel routine but those that suspend or end the current thread
\* does: close or release a thread, give the processor to a closed one, take
\* it from a thread that holds the scheduler's lock or from one that runs and
\* leave it with one that does not.
Keeps(r, k) ==
  /\ \A u \in Thread : r.stat[u] = "CLOSE" <=> k.stat[u] = "CLOSE"
  /\ ToSet(r.defunct) = ToSet(k.defunct)
  /\ r.cur = k.cur \/ k.stat[r.cur] # "CLOSE"
  /\ r.nest = k.nest
  /\ r.cur # k.cur => k.nest = 0
  /\ r.cur # k.cur \/ k.stat[k.cur] = "RUNNING" => r.stat[r.cur] = "RUNNING"

\* Keeps composes.
LEMMA KeepsTrans ==
  ASSUME NEW k, NEW r \in KernelState, NEW s \in KernelState, Keeps(r, k), Keeps(s, r)
  PROVE  Keeps(s, k)
<1>1. r.cur \in Thread /\ s.cur \in Thread
  BY DEF KernelState
<1> QED BY <1>1 DEF Keeps

\* A context switch to a READY thread preserves the kernel invariant.
LEMMA SwitchInv ==
  ASSUME NEW k, NEW X \in SUBSET Thread, KernelInv(k, X), NEW to \in Thread \ X, k.stat[to] = "READY",
         k.nest = 0
  PROVE  KernelInv(SwitchTo(k, to), X) /\ Keeps(SwitchTo(k, to), k) /\ SwitchTo(k, to).cur = to
<1> DEFINE from  == k.cur
           moved == [k EXCEPT !.cur = to]
           back  == IF k.stat[from] = "RUNNING"
                    THEN rt_schedule_insert_thread(moved, from) ELSE moved
           rem   == rt_schedule_remove_thread(back, to)
           fin   == [rem EXCEPT !.stat[to] = "RUNNING"]
<1>0. SwitchTo(k, to) = fin
  BY DEF SwitchTo
<1>1. k \in KernelState /\ ListsConsistent(k, X) /\ CurrentOf(k, X) /\ from \in Thread /\ from # to
  BY DEF KernelInv, CurrentOf, KernelState
<1>2. \A u \in Thread : u # from => k.stat[u] # "RUNNING"
  BY <1>1 DEF ListsConsistent, ReadyTableOf, CurrentOf
<1>3. moved.stat = k.stat /\ moved.cur = to /\ moved.defunct = k.defunct /\ moved.nest = k.nest
  BY <1>1 DEF KernelState
<1>4. /\ back \in KernelState /\ ListsConsistent(back, X) /\ back.cur = to
      /\ back.defunct = k.defunct /\ back.nest = k.nest
      /\ \A u \in Thread : back.stat[u] = IF u = from /\ k.stat[from] = "RUNNING" THEN "READY"
                                        ELSE k.stat[u]
  <2>1. CASE k.stat[from] = "RUNNING"
    <3>1. ListsConsistent(k, X \cup {from})
      BY <1>1, <2>1, AddExempt
    <3>2. \A u \in Thread \ (X \cup {from}) : k.stat[u] # "RUNNING"
      BY <1>2
    <3>3. moved \in KernelState /\ ListsConsistent(moved, X \cup {from})
      BY <1>1, <3>1, <3>2, ChangeCur
    <3> HIDE DEF moved
    <3>4. back = rt_schedule_insert_thread(moved, from)
      BY <2>1
    <3>f. from \notin X
      BY <1>1 DEF CurrentOf
    <3> HIDE DEF from, back
    <3>h. from \in X \cup {from}
      OBVIOUS
    <3> DEFINE ins == rt_schedule_insert_thread(moved, from)
    <3>j. from \in Thread
      BY <1>1
    <3>g1. ins \in KernelState
      BY <3>3, <3>h, <3>j, PutBack
    <3>g2. ListsConsistent(ins, (X \cup {from}) \ {from})
      BY <3>3, <3>h, <3>j, PutBack
    <3>g3. ins.cur = moved.cur /\ ins.defunct = moved.defunct /\ ins.nest = moved.nest
      BY <3>3, <3>j, InsertFrame
    <3>g4. \A u \in Thread : ins.stat[u] = IF u # from THEN moved.stat[u]
                                          ELSE IF from = moved.cur THEN "RUNNING" ELSE "READY"
      BY <3>3, <3>j, InsertFrame
    <3>5. /\ back \in KernelState /\ ListsConsistent(back, (X \cup {from}) \ {from}) /\ back.cur = moved.cur
          /\ back.defunct = moved.defunct /\ back.nest = moved.nest
          /\ \A u \in Thread : back.stat[u] = IF u # from THEN k.stat[u] ELSE "READY"
      BY <3>4, <3>g1, <3>g2, <3>g3, <3>g4, <1>1, <1>3
    <3>6. (X \cup {from}) \ {from} = X
      BY <3>f
    <3> QED BY <2>1, <3>5, <3>6, <1>1, <1>3
  <2>2. CASE k.stat[from] # "RUNNING"
    <3>1. \A u \in Thread \ X : k.stat[u] # "RUNNING"
      BY <1>2, <2>2
    <3>2. moved \in KernelState /\ ListsConsistent(moved, X)
      BY <1>1, <3>1, ChangeCur
    <3> QED BY <2>2, <3>2, <1>3
  <2> QED BY <2>1, <2>2
<1> HIDE DEF back
<1>5. back.stat[to] = "READY"
  BY <1>1, <1>4 DEF KernelState
<1>6. ~TimerArmed(back, to)
  BY <1>4, <1>5 DEF ListsConsistent, TimersOf, TimerArmed
<1>7. /\ rem \in KernelState /\ SameBut(rem, back) /\ ListsConsistent(rem, X \cup {to})
      /\ ToSet(rem.defunct) = ToSet(back.defunct) \ {to}
  BY <1>4, <1>6, TakeOut
<1> HIDE DEF rem
<1>8. fin \in KernelState /\ ListsConsistent(fin, X \cup {to})
  <2>1. to \in X \cup {to} /\ "RUNNING" \in Stat
    BY DEF Stat
  <2> QED BY <1>7, <2>1, ChangeStat
<1>9. /\ fin.stat = [back.stat EXCEPT ![to] = "RUNNING"]
      /\ fin.cur = to /\ fin.defunct = rem.defunct /\ fin.nest = k.nest
  BY <1>4, <1>7 DEF KernelState, SameBut
<1> HIDE DEF fin
<1>10. fin.stat[to] = "RUNNING"
  BY <1>4, <1>9 DEF KernelState
<1>11. ListsConsistent(fin, X)
  <2>1. ListsConsistent(fin, (X \cup {to}) \ {to})
    BY <1>8, <1>9, <1>10, DropExempt
  <2>2. (X \cup {to}) \ {to} = X
    OBVIOUS
  <2> QED BY <2>1, <2>2
<1>12. \A u \in Thread : fin.stat[u] = IF u = to THEN "RUNNING"
                                       ELSE IF u = from /\ k.stat[from] = "RUNNING" THEN "READY"
                                       ELSE k.stat[u]
  <2>1. back.stat \in [Thread -> Stat] /\ k.stat \in [Thread -> Stat]
    BY <1>1, <1>4 DEF KernelState
  <2>2. \A u \in Thread : fin.stat[u] = IF u = to THEN "RUNNING" ELSE back.stat[u]
    BY <1>9, <2>1
  <2> QED BY <1>4, <2>2
<1>13. CurrentOf(fin, X)
  BY <1>1, <1>9, <1>12, KernelAssumption DEF CurrentOf
<1>14. ToSet(fin.defunct) = ToSet(k.defunct)
  <2>1. to \notin ToSet(k.defunct)
    BY <1>1 DEF ListsConsistent, DefunctOf
  <2> QED BY <1>4, <1>7, <1>9, <2>1
<1>15. Keeps(fin, k)
  BY <1>1, <1>9, <1>12, <1>14 DEF Keeps
<1> QED BY <1>0, <1>8, <1>9, <1>11, <1>13, <1>15 DEF KernelInv

\* So does staying with the current thread, which is in no list.
LEMMA StayInv ==
  ASSUME NEW k, NEW X \in SUBSET Thread, KernelInv(k, X), k.stat[k.cur] = "RUNNING"
  PROVE  KernelInv(StayWith(k), X) /\ Keeps(StayWith(k), k)
<1> DEFINE c   == k.cur
           rem == rt_schedule_remove_thread(k, c)
           fin == [rem EXCEPT !.stat[c] = "RUNNING"]
<1>0. StayWith(k) = fin
  BY DEF StayWith
<1>1. k \in KernelState /\ ListsConsistent(k, X) /\ CurrentOf(k, X) /\ c \in Thread \ X
  BY DEF KernelInv, CurrentOf, KernelState
<1>2. ~TimerArmed(k, c)
  BY <1>1 DEF ListsConsistent, TimersOf, TimerArmed
<1>3. /\ rem \in KernelState /\ SameBut(rem, k) /\ ListsConsistent(rem, X \cup {c})
      /\ ToSet(rem.defunct) = ToSet(k.defunct) \ {c}
  BY <1>1, <1>2, TakeOut
<1> HIDE DEF rem
<1>4. fin \in KernelState /\ ListsConsistent(fin, X \cup {c})
  <2>1. c \in X \cup {c} /\ "RUNNING" \in Stat
    BY DEF Stat
  <2> QED BY <1>1, <1>3, <2>1, ChangeStat
<1>5. /\ fin.cur = k.cur /\ fin.nest = k.nest /\ fin.defunct = rem.defunct
      /\ \A u \in Thread : fin.stat[u] = k.stat[u]
  BY <1>3 DEF KernelState, SameBut
<1> HIDE DEF fin
<1>6. ListsConsistent(fin, X)
  <2>1. ListsConsistent(fin, (X \cup {c}) \ {c})
    BY <1>1, <1>4, <1>5, DropExempt
  <2>2. (X \cup {c}) \ {c} = X
    BY <1>1
  <2> QED BY <2>1, <2>2
<1>7. ToSet(fin.defunct) = ToSet(k.defunct)
  <2>1. c \notin ToSet(k.defunct)
    BY <1>1 DEF ListsConsistent, DefunctOf
  <2> QED BY <1>3, <1>5, <2>1
<1>8. CurrentOf(fin, X) /\ Keeps(fin, k)
  BY <1>1, <1>5, <1>7, KernelAssumption DEF CurrentOf, Keeps
<1> QED BY <1>0, <1>4, <1>6, <1>8 DEF KernelInv

\* rt_schedule preserves the kernel invariant.
LEMMA ScheduleInv ==
  ASSUME NEW k, NEW X \in SUBSET Thread, KernelInv(k, X)
  PROVE  KernelInv(rt_schedule(k), X) /\ Keeps(rt_schedule(k), k)
<1>1. k \in KernelState /\ ListsConsistent(k, X) /\ CurrentOf(k, X)
  BY DEF KernelInv
<1>2. Keeps(k, k)
  BY DEF Keeps
<1> DEFINE y == ClearYield(k)
<1>3. /\ y \in KernelState /\ y.stat = k.stat /\ y.prio = k.prio /\ y.cur = k.cur /\ y.table = k.table
      /\ y.group = k.group /\ y.timers = k.timers /\ y.wait = k.wait /\ y.defunct = k.defunct
      /\ y.nest = k.nest
  BY <1>1 DEF ClearYield, KernelState
<1> HIDE DEF y
<1>4. KernelInv(y, X) /\ Keeps(y, k)
  BY <1>1, <1>3, OtherFields DEF KernelInv, CurrentOf, Keeps
<1>5. CASE k.nest # 0 \/ k.group = {}
  BY <1>2, <1>5 DEF rt_schedule
<1>6. CASE ~(k.nest # 0 \/ k.group = {}) /\ KeepsProcessor(k)
  <2> DEFINE z == StayWith(y)
  <2>1. y.stat[y.cur] = "RUNNING"
    BY <1>3, <1>6 DEF KeepsProcessor
  <2>2. KernelInv(z, X) /\ Keeps(z, y)
    BY <1>4, <2>1, StayInv
  <2>3. rt_schedule(k) = z
    BY <1>6 DEF rt_schedule, y
  <2> HIDE DEF z
  <2>4. Keeps(z, k)
    BY <1>3, <1>4, <2>2, KeepsTrans DEF KernelInv
  <2> QED BY <2>2, <2>3, <2>4
<1>7. CASE ~(k.nest # 0 \/ k.group = {}) /\ ~KeepsProcessor(k)
  <2> DEFINE to == HighestThread(k)
             z  == SwitchTo(y, to)
  <2>1. to \in Thread \ X /\ y.stat[to] = "READY" /\ y.nest = 0
    BY <1>1, <1>3, <1>7, HighestIsReady
  <2>2. rt_schedule(k) = z
    BY <1>7 DEF rt_schedule, y
  <2> HIDE DEF to
  <2>3. KernelInv(z, X) /\ Keeps(z, y)
    BY <1>4, <2>1, SwitchInv
  <2> HIDE DEF z
  <2>4. Keeps(z, k)
    BY <1>4, <2>3, KeepsTrans DEF KernelInv
  <2> QED BY <2>2, <2>3, <2>4
<1> QED BY <1>5, <1>6, <1>7

\* Fields of the record that neither a list nor the scheduler's choice of the
\* current thread depends on.
SameLists(r, k) ==
  /\ r.stat = k.stat /\ r.prio = k.prio /\ r.cur = k.cur /\ r.table = k.table
  /\ r.group = k.group /\ r.timers = k.timers /\ r.wait = k.wait /\ r.defunct = k.defunct

\* Slices, flags, error codes may change without disturbing the invariant.
LEMMA FieldsInv ==
  ASSUME NEW k, NEW X, KernelInv(k, X), NEW r \in KernelState, SameLists(r, k), r.nest = k.nest
  PROVE  KernelInv(r, X) /\ Keeps(r, k)
<1>1. ListsConsistent(r, X)
  BY OtherFields DEF KernelInv, SameLists
<1> QED BY <1>1 DEF KernelInv, CurrentOf, SameLists, Keeps

\* rt_timer_stop preserves the kernel invariant.
LEMMA TimerStopKeeps ==
  ASSUME NEW k, NEW X, KernelInv(k, X), NEW t \in Thread
  PROVE  LET r == TimerStop(k, t)
         IN  KernelInv(r, X) /\ Keeps(r, k) /\ ~TimerArmed(r, t) /\ SameButTimers(r, k)
<1> DEFINE r == TimerStop(k, t)
<1>1. r \in KernelState /\ SameButTimers(r, k) /\ ListsConsistent(r, X) /\ ~TimerArmed(r, t)
  BY TimerStopInv DEF KernelInv
<1> HIDE DEF r
<1> QED BY <1>1 DEF KernelInv, CurrentOf, SameButTimers, Keeps, r

\* A suspended thread with its timer stopped becomes READY, or RUNNING again if
\* it is still the current thread.
LEMMA WakeInv ==
  ASSUME NEW k, NEW X \in SUBSET Thread, KernelInv(k, X), NEW t \in Thread \ X,
         k.stat[t] = "SUSPEND", ~TimerArmed(k, t)
  PROVE  LET r == rt_schedule_insert_thread(rt_list_remove(k, t), t)
         IN  KernelInv(r, X) /\ Keeps(r, k)
<1> DEFINE l == rt_list_remove(k, t)
           r == rt_schedule_insert_thread(l, t)
<1>1. k \in KernelState /\ ListsConsistent(k, X) /\ CurrentOf(k, X)
  BY DEF KernelInv
<1>2. /\ l \in KernelState /\ SameBut(l, k) /\ ListsConsistent(l, X \cup {t})
      /\ ToSet(l.defunct) = ToSet(k.defunct) \ {t}
  BY <1>1, TakeOutWaiter
<1> HIDE DEF l
<1>3. r \in KernelState /\ ListsConsistent(r, (X \cup {t}) \ {t})
  <2>1. t \in X \cup {t}
    OBVIOUS
  <2> QED BY <1>2, <2>1, PutBack
<1>4. (X \cup {t}) \ {t} = X
  OBVIOUS
<1>5. /\ r.cur = l.cur /\ r.nest = l.nest /\ r.defunct = l.defunct
      /\ \A u \in Thread : r.stat[u] = IF u # t THEN l.stat[u]
                                      ELSE IF t = l.cur THEN "RUNNING" ELSE "READY"
  BY <1>2, InsertFrame
<1> HIDE DEF r
<1>6. /\ r.cur = k.cur /\ r.nest = k.nest /\ k.cur \in Thread
      /\ \A u \in Thread : r.stat[u] = IF u # t THEN k.stat[u]
                                      ELSE IF t = k.cur THEN "RUNNING" ELSE "READY"
  BY <1>1, <1>2, <1>5 DEF SameBut, KernelState
<1>7. ToSet(r.defunct) = ToSet(k.defunct)
  <2>1. t \notin ToSet(k.defunct)
    BY <1>1 DEF ListsConsistent, DefunctOf
  <2> QED BY <1>2, <1>5, <2>1
<1>8. CurrentOf(r, X)
  BY <1>1, <1>6, KernelAssumption DEF CurrentOf
<1>9. Keeps(r, k)
  BY <1>1, <1>6, <1>7 DEF Keeps, CurrentOf
<1> QED BY <1>3, <1>4, <1>8, <1>9 DEF KernelInv, r, l

\* rt_thread_resume preserves the kernel invariant.
LEMMA ResumeInv ==
  ASSUME NEW k, NEW X \in SUBSET Thread, KernelInv(k, X), NEW t \in Thread \ X
  PROVE  KernelInv(rt_thread_resume(k, t), X) /\ Keeps(rt_thread_resume(k, t), k)
<1>1. CASE k.stat[t] # "SUSPEND"
  BY <1>1 DEF rt_thread_resume, Keeps
<1>2. CASE k.stat[t] = "SUSPEND"
  <2> DEFINE s == TimerStop(k, t)
             l == rt_list_remove(k, t)
  <2>1. KernelInv(s, X) /\ Keeps(s, k) /\ ~TimerArmed(s, t) /\ SameButTimers(s, k)
    BY TimerStopKeeps
  <2>2. TimerStop(l, t) = rt_list_remove(s, t)
    BY DEF KernelInv, KernelState, TimerStop, rt_list_remove, TimerArmed
  <2> DEFINE r == rt_schedule_insert_thread(rt_list_remove(s, t), t)
  <2>3. rt_thread_resume(k, t) = r
    BY <1>2, <2>2 DEF rt_thread_resume, MakeReady
  <2> HIDE DEF s
  <2>4. KernelInv(r, X) /\ Keeps(r, s)
    BY <1>2, <2>1, WakeInv DEF SameButTimers
  <2> HIDE DEF r
  <2>5. Keeps(r, k)
    BY <2>1, <2>4, KeepsTrans DEF KernelInv
  <2> QED BY <2>3, <2>4, <2>5
<1> QED BY <1>1, <1>2

\* The timer at the head of the list expires: its thread wakes with a time-out.
LEMMA TimeoutInv ==
  ASSUME NEW k, NEW X \in SUBSET Thread, KernelInv(k, X), NEW t \in Thread \ X,
         k.stat[t] = "SUSPEND"
  PROVE  KernelInv(_thread_timeout(k, t), X) /\ Keeps(_thread_timeout(k, t), k)
<1> DEFINE s == TimerStop(k, t)
           e == [s EXCEPT !.err[t] = "ETIMEOUT"]
           r == rt_schedule_insert_thread(rt_list_remove(e, t), t)
           z == rt_schedule(r)
<1>1. KernelInv(s, X) /\ Keeps(s, k) /\ ~TimerArmed(s, t) /\ SameButTimers(s, k)
  BY TimerStopKeeps
<1>2. _thread_timeout(k, t) = z
  BY DEF _thread_timeout
<1> HIDE DEF s
<1>3. e \in KernelState /\ SameLists(e, s) /\ e.nest = s.nest
  BY <1>1 DEF KernelInv, KernelState, SameLists, Error
<1> HIDE DEF e
<1>4. KernelInv(e, X) /\ Keeps(e, s)
  BY <1>1, <1>3, FieldsInv
<1>5. e.stat[t] = "SUSPEND" /\ ~TimerArmed(e, t)
  BY <1>1, <1>3 DEF SameButTimers, SameLists, TimerArmed
<1>6. KernelInv(r, X) /\ Keeps(r, e)
  BY <1>4, <1>5, WakeInv
<1> HIDE DEF r
<1>7. KernelInv(z, X) /\ Keeps(z, r)
  BY <1>6, ScheduleInv
<1> HIDE DEF z
<1>8. Keeps(e, k)
  BY <1>1, <1>4, KeepsTrans DEF KernelInv
<1>9. Keeps(r, k)
  BY <1>4, <1>6, <1>8, KeepsTrans DEF KernelInv
<1>10. Keeps(z, k)
  BY <1>6, <1>7, <1>9, KeepsTrans DEF KernelInv
<1> QED BY <1>2, <1>7, <1>10

\* The priority of a thread may change while no ready list holds the thread.
LEMMA ChangePrio ==
  ASSUME NEW k \in KernelState, NEW X, ListsConsistent(k, X), NEW t \in Thread,
         t \in X \/ k.stat[t] # "READY", NEW p \in Prio
  PROVE  LET r == [k EXCEPT !.prio[t] = p]
         IN  r \in KernelState /\ ListsConsistent(r, X)
<1> DEFINE r == [k EXCEPT !.prio[t] = p]
<1>1. /\ r \in KernelState
      /\ r.table = k.table /\ r.group = k.group /\ r.stat = k.stat /\ r.cur = k.cur
      /\ r.timers = k.timers /\ r.wait = k.wait /\ r.defunct = k.defunct
      /\ \A u \in Thread : u # t => r.prio[u] = k.prio[u]
  BY DEF KernelState
<1> HIDE DEF r
<1>2. ReadyTableOf(r, X)
  BY <1>1 DEF ListsConsistent, ReadyTableOf
<1>3. TimersOf(r, X) /\ WaitersOf(r, X) /\ DefunctOf(r, X)
  BY <1>1 DEF ListsConsistent, TimersOf, WaitersOf, DefunctOf
<1> QED BY <1>1, <1>2, <1>3 DEF ListsConsistent, r

\* RT_THREAD_CTRL_CHANGE_PRIORITY preserves the kernel invariant.
LEMMA ChangePriorityInv ==
  ASSUME NEW k, NEW X \in SUBSET Thread, KernelInv(k, X), NEW t \in Thread \ X, NEW p \in Prio
  PROVE  KernelInv(ChangePriority(k, t, p), X) /\ Keeps(ChangePriority(k, t, p), k)
<1>1. k \in KernelState /\ ListsConsistent(k, X) /\ CurrentOf(k, X) /\ k.cur \in Thread
  BY DEF KernelInv, KernelState
<1>2. CASE k.stat[t] # "READY"
  <2> DEFINE r == [k EXCEPT !.prio[t] = p]
  <2>1. r \in KernelState /\ ListsConsistent(r, X)
    BY <1>1, <1>2, ChangePrio
  <2>2. r.stat = k.stat /\ r.cur = k.cur /\ r.defunct = k.defunct /\ r.nest = k.nest
    BY <1>1 DEF KernelState
  <2>3. ChangePriority(k, t, p) = r
    BY <1>2 DEF ChangePriority
  <2> HIDE DEF r
  <2> QED BY <1>1, <2>1, <2>2, <2>3 DEF KernelInv, CurrentOf, Keeps
<1>3. CASE k.stat[t] = "READY"
  <2> DEFINE l == rt_schedule_remove_thread(k, t)
             m == [l EXCEPT !.prio[t] = p]
             r == rt_schedule_insert_thread(m, t)
  <2>1. ChangePriority(k, t, p) = r
    BY <1>3 DEF ChangePriority
  <2>2. ~TimerArmed(k, t)
    BY <1>1, <1>3 DEF ListsConsistent, TimersOf, TimerArmed
  <2>3. /\ l \in KernelState /\ SameBut(l, k) /\ ListsConsistent(l, X \cup {t})
        /\ ToSet(l.defunct) = ToSet(k.defunct) \ {t}
    BY <1>1, <2>2, TakeOut
  <2> HIDE DEF l
  <2>4. t \in X \cup {t}
    OBVIOUS
  <2>5. m \in KernelState /\ ListsConsistent(m, X \cup {t})
    BY <2>3, <2>4, ChangePrio
  <2>6. m.stat = k.stat /\ m.cur = k.cur /\ m.nest = k.nest /\ m.defunct = l.defunct
    BY <2>3 DEF KernelState, SameBut
  <2> HIDE DEF m
  <2>7. r \in KernelState /\ ListsConsistent(r, (X \cup {t}) \ {t})
    BY <2>4, <2>5, PutBack
  <2>8. (X \cup {t}) \ {t} = X
    OBVIOUS
  <2>9. /\ r.cur = m.cur /\ r.nest = m.nest /\ r.defunct = m.defunct
        /\ \A u \in Thread : r.stat[u] = IF u # t THEN m.stat[u]
                                        ELSE IF t = m.cur THEN "RUNNING" ELSE "READY"
    BY <2>5, InsertFrame
  <2> HIDE DEF r
  <2>10. t # k.cur
    BY <1>1, <1>3 DEF CurrentOf
  <2>11. \A u \in Thread : r.stat[u] = k.stat[u]
    BY <1>3, <2>6, <2>9, <2>10
  <2>12. ToSet(r.defunct) = ToSet(k.defunct)
    <3>1. t \notin ToSet(k.defunct)
      BY <1>1, <1>3 DEF ListsConsistent, DefunctOf
    <3> QED BY <2>3, <2>6, <2>9, <3>1
  <2>13. CurrentOf(r, X) /\ Keeps(r, k)
    BY <1>1, <2>6, <2>9, <2>11, <2>12, KernelAssumption DEF CurrentOf, Keeps
  <2> QED BY <2>1, <2>7, <2>8, <2>13 DEF KernelInv
<1> QED BY <1>2, <1>3

\* The passing of a tick for the armed timers preserves the kernel invariant.
LEMMA AgedInv ==
  ASSUME NEW k, NEW X, KernelInv(k, X)
  PROVE  LET r == [k EXCEPT !.timers = Aged(@)]
         IN  KernelInv(r, X) /\ Keeps(r, k)
<1> DEFINE r == [k EXCEPT !.timers = Aged(@)]
           s == Aged(k.timers)
<1>1. k \in KernelState /\ ListsConsistent(k, X)
  BY DEF KernelInv
<1>2. k.timers \in Seq(Timer) /\ DOMAIN k.timers = 1 .. Len(k.timers) /\ Len(k.timers) \in Nat
  BY <1>1, TimerThreads, LenProperties
<1>3. \A i \in DOMAIN k.timers : k.timers[i] \in Timer
  BY <1>2, ElementOfSeq
<1>4. /\ DOMAIN s = DOMAIN k.timers
      /\ \A i \in DOMAIN k.timers : s[i] \in Timer /\ s[i].thr = k.timers[i].thr
  BY <1>3 DEF Aged, Timer
<1>5. s \in Seq(Timer)
  <2>1. s = [i \in 1 .. Len(k.timers) |-> s[i]]
    BY <1>2 DEF Aged
  <2> QED BY <2>1, <1>2, <1>4
<1> HIDE DEF s
<1>6. r \in KernelState /\ SameButTimers(r, k) /\ r.timers = s
  BY <1>1, <1>5 DEF KernelState, SameButTimers, s
<1> HIDE DEF r
<1>7. TimersOf(r, X)
  BY <1>1, <1>4, <1>6 DEF ListsConsistent, TimersOf, SameButTimers
<1>8. ListsConsistent(r, X)
  BY <1>1, <1>6, <1>7, OtherTimers
<1> QED BY <1>6, <1>8 DEF KernelInv, CurrentOf, SameButTimers, Keeps, r

\* rt_tick_increase preserves the kernel invariant.
LEMMA TickInv ==
  ASSUME NEW k, NEW X \in SUBSET Thread, KernelInv(k, X)
  PROVE  KernelInv(rt_tick_increase(k), X) /\ Keeps(rt_tick_increase(k), k)
<1> DEFINE a == [k EXCEPT !.timers = Aged(@)]
           c == k.cur
<1>1. KernelInv(a, X) /\ Keeps(a, k) /\ c \in Thread /\ k.slice[c] \in Nat
  BY AgedInv DEF KernelInv, KernelState
<1>5. a.slice = k.slice
  BY DEF KernelInv, KernelState
<1> HIDE DEF a
<1>2. CASE k.slice[c] > 1
  <2> DEFINE r == [a EXCEPT !.slice[c] = @ - 1]
  <2>1. a.slice[c] - 1 \in Nat \ {0}
    BY <1>1, <1>2, <1>5
  <2>2. r \in KernelState /\ SameLists(r, a) /\ r.nest = a.nest
    BY <1>1, <2>1 DEF KernelInv, KernelState, SameLists
  <2>3. rt_tick_increase(k) = r
    BY <1>2 DEF rt_tick_increase, a
  <2> HIDE DEF r
  <2>4. KernelInv(r, X) /\ Keeps(r, a)
    BY <1>1, <2>2, FieldsInv
  <2>5. Keeps(r, k)
    BY <1>1, <2>4, KeepsTrans DEF KernelInv
  <2> QED BY <2>3, <2>4, <2>5
<1>3. CASE ~(k.slice[c] > 1)
  <2> DEFINE r == [a EXCEPT !.slice[c] = InitTick[c], !.yield[c] = TRUE]
             z == rt_schedule(r)
  <2>1. InitTick[c] \in Nat \ {0}
    BY <1>1, KernelAssumption
  <2>2. r \in KernelState /\ SameLists(r, a) /\ r.nest = a.nest
    BY <1>1, <2>1 DEF KernelInv, KernelState, SameLists
  <2>3. rt_tick_increase(k) = z
    BY <1>3 DEF rt_tick_increase, a
  <2> HIDE DEF r
  <2>4. KernelInv(r, X) /\ Keeps(r, a)
    BY <1>1, <2>2, FieldsInv
  <2>5. KernelInv(z, X) /\ Keeps(z, r)
    BY <2>4, ScheduleInv
  <2> HIDE DEF z
  <2>6. Keeps(r, k)
    BY <1>1, <2>4, KeepsTrans DEF KernelInv
  <2>7. Keeps(z, k)
    BY <2>4, <2>5, <2>6, KeepsTrans DEF KernelInv
  <2> QED BY <2>3, <2>5, <2>7
<1> QED BY <1>2, <1>3

\* The running thread suspends itself and stays current until rt_schedule.
LEMMA SuspendInv ==
  ASSUME NEW k, NEW X \in SUBSET Thread, KernelInv(k, X), NEW t \in Thread \ X,
         t = k.cur, t # Idle, k.stat[t] = "RUNNING"
  PROVE  LET r == rt_thread_suspend(k, t)
         IN  /\ KernelInv(r, X)
             /\ r.cur = k.cur /\ r.nest = k.nest /\ ToSet(r.defunct) = ToSet(k.defunct)
             /\ \A u \in Thread : r.stat[u] = IF u = t THEN "SUSPEND" ELSE k.stat[u]
<1> DEFINE l == rt_schedule_remove_thread(k, t)
           m == [l EXCEPT !.stat[t] = "SUSPEND"]
           r == TimerStop(m, t)
<1>1. k \in KernelState /\ ListsConsistent(k, X) /\ CurrentOf(k, X)
  BY DEF KernelInv
<1>2. ~TimerArmed(k, t)
  BY <1>1 DEF ListsConsistent, TimersOf, TimerArmed
<1>3. /\ l \in KernelState /\ SameBut(l, k) /\ ListsConsistent(l, X \cup {t})
      /\ ToSet(l.defunct) = ToSet(k.defunct) \ {t}
  BY <1>1, <1>2, TakeOut
<1>4. rt_thread_suspend(k, t) = r
  BY DEF rt_thread_suspend
<1> HIDE DEF l
<1>5. t \in X \cup {t} /\ "SUSPEND" \in Stat
  BY DEF Stat
<1>6. m \in KernelState /\ ListsConsistent(m, X \cup {t})
  BY <1>3, <1>5, ChangeStat
<1>7. /\ m.cur = k.cur /\ m.nest = k.nest /\ m.defunct = l.defunct
      /\ \A u \in Thread : m.stat[u] = IF u = t THEN "SUSPEND" ELSE k.stat[u]
  BY <1>3 DEF KernelState, SameBut
<1> HIDE DEF m
<1>8. ListsConsistent(m, X)
  <2>1. ListsConsistent(m, (X \cup {t}) \ {t})
    BY <1>6, <1>7, DropExempt
  <2>2. (X \cup {t}) \ {t} = X
    OBVIOUS
  <2> QED BY <2>1, <2>2
<1>9. r \in KernelState /\ SameButTimers(r, m) /\ ListsConsistent(r, X)
  BY <1>6, <1>8, TimerStopInv
<1> HIDE DEF r
<1>10. /\ r.cur = k.cur /\ r.nest = k.nest /\ r.defunct = l.defunct
       /\ \A u \in Thread : r.stat[u] = IF u = t THEN "SUSPEND" ELSE k.stat[u]
  BY <1>7, <1>9 DEF SameButTimers
<1>11. ToSet(r.defunct) = ToSet(k.defunct)
  <2>1. t \notin ToSet(k.defunct)
    BY <1>1 DEF ListsConsistent, DefunctOf
  <2> QED BY <1>3, <1>10, <2>1
<1>12. CurrentOf(r, X)
  BY <1>1, <1>10, KernelAssumption DEF CurrentOf
<1> QED BY <1>4, <1>9, <1>10, <1>11, <1>12 DEF KernelInv

\* A thread in no list is closed and queued for the idle thread.
LEMMA PutDefunct ==
  ASSUME NEW k \in KernelState, NEW X, ListsConsistent(k, X), NEW t \in Thread, t \in X
  PROVE  LET r == Close(k, t)
         IN  /\ r \in KernelState /\ ListsConsistent(r, X \ {t})
             /\ ToSet(r.defunct) = ToSet(k.defunct) \cup {t}
             /\ r.cur = k.cur /\ r.nest = k.nest
             /\ \A u \in Thread : r.stat[u] = IF u = t THEN "CLOSE" ELSE k.stat[u]
<1> DEFINE m == [k EXCEPT !.stat[t] = "CLOSE"]
           d == Cons(t, k.defunct)
           r == Close(k, t)
<1>1. m \in KernelState /\ ListsConsistent(m, X)
  <2>1. "CLOSE" \in Stat
    BY DEF Stat
  <2> QED BY <2>1, ChangeStat
<1>2. m.defunct = k.defunct /\ m.cur = k.cur /\ m.nest = k.nest /\ m.stat[t] = "CLOSE"
  BY DEF KernelState
<1>3. ListsConsistent(m, X \ {t})
  <2> HIDE DEF m
  <2> QED BY <1>1, <1>2, DropExempt
<1>4. k.defunct \in Seq(Thread) /\ t \notin ToSet(k.defunct) /\ IsInjective(k.defunct)
  BY DEF KernelState, ListsConsistent, DefunctOf
<1>5. d \in Seq(Thread) /\ IsInjective(d) /\ ToSet(d) = ToSet(k.defunct) \cup {t}
  BY <1>4, ConsProps
<1> HIDE DEF d
<1>6. /\ r \in KernelState /\ r.defunct = d
      /\ r.stat = m.stat /\ r.prio = m.prio /\ r.cur = m.cur /\ r.table = m.table /\ r.nest = m.nest
      /\ r.group = m.group /\ r.timers = m.timers /\ r.wait = m.wait
  BY <1>5 DEF Close, KernelState, Stat, d
<1>7. \A u \in Thread : m.stat[u] = IF u = t THEN "CLOSE" ELSE k.stat[u]
  BY DEF KernelState
<1> HIDE DEF r, m
<1>8. ReadyTableOf(r, X \ {t})
  BY <1>3, <1>6 DEF ListsConsistent, ReadyTableOf
<1>9. TimersOf(r, X \ {t}) /\ WaitersOf(r, X \ {t})
  BY <1>3, <1>6 DEF ListsConsistent, TimersOf, WaitersOf
<1>10. DefunctOf(r, X \ {t})
  BY <1>2, <1>3, <1>5, <1>6 DEF ListsConsistent, DefunctOf
<1> QED BY <1>2, <1>5, <1>6, <1>7, <1>8, <1>9, <1>10 DEF ListsConsistent, r

\* The idle thread releases the first thread that waits for it.
LEMMA ReapInv ==
  ASSUME NEW k, NEW X, KernelInv(k, X), k.defunct # <<>>
  PROVE  LET r == [k EXCEPT !.defunct = Tail(@)]
         IN  /\ KernelInv(r, X)
             /\ ToSet(r.defunct) = ToSet(k.defunct) \ {Head(k.defunct)}
             /\ r.stat = k.stat /\ r.cur = k.cur /\ r.nest = k.nest
             /\ Head(k.defunct) \in Thread /\ k.stat[Head(k.defunct)] = "CLOSE"
<1> DEFINE r == [k EXCEPT !.defunct = Tail(@)]
           d == Tail(k.defunct)
           h == Head(k.defunct)
<1>1. k \in KernelState /\ ListsConsistent(k, X) /\ CurrentOf(k, X) /\ k.defunct \in Seq(Thread)
  BY DEF KernelInv, KernelState
<1>2. d \in Seq(Thread) /\ IsInjective(d) /\ ToSet(d) = ToSet(k.defunct) \ {h}
  BY <1>1, TailProps DEF ListsConsistent, DefunctOf
<1>3. h \in ToSet(k.defunct) /\ h \in Thread
  BY <1>1, EmptyToSet
<1>4. k.stat[h] = "CLOSE"
  BY <1>1, <1>3 DEF ListsConsistent, DefunctOf
<1> HIDE DEF d, h
<1>5. /\ r \in KernelState /\ r.defunct = d
      /\ r.stat = k.stat /\ r.prio = k.prio /\ r.cur = k.cur /\ r.table = k.table /\ r.nest = k.nest
      /\ r.group = k.group /\ r.timers = k.timers /\ r.wait = k.wait
  BY <1>1, <1>2 DEF KernelState, d
<1> HIDE DEF r
<1>6. ReadyTableOf(r, X)
  BY <1>1, <1>5 DEF ListsConsistent, ReadyTableOf
<1>7. TimersOf(r, X) /\ WaitersOf(r, X) /\ DefunctOf(r, X)
  BY <1>1, <1>2, <1>5 DEF ListsConsistent, TimersOf, WaitersOf, DefunctOf
<1>8. KernelInv(r, X)
  BY <1>1, <1>5, <1>6, <1>7 DEF ListsConsistent, CurrentOf, KernelInv
<1> QED BY <1>2, <1>3, <1>4, <1>5, <1>8 DEF r, h, d
\* With the scheduler unlocked, rt_schedule leaves the processor to a thread
\* that runs: the idle thread is always there to be switched to.
LEMMA ScheduleRuns ==
  ASSUME NEW k, NEW X \in SUBSET Thread, KernelInv(k, X), k.nest = 0
  PROVE  rt_schedule(k).stat[rt_schedule(k).cur] = "RUNNING"
<1>1. k \in KernelState /\ ListsConsistent(k, X) /\ CurrentOf(k, X) /\ k.cur \in Thread
  BY DEF KernelInv, KernelState
<1>2. Keeps(rt_schedule(k), k)
  BY ScheduleInv
<1>3. CASE k.stat[k.cur] = "RUNNING"
  BY <1>2, <1>3 DEF Keeps
<1>4. CASE k.stat[k.cur] # "RUNNING"
  <2>1. k.stat[Idle] = "READY"
    BY <1>1, <1>4, KernelAssumption DEF CurrentOf, ListsConsistent, ReadyTableOf
  <2>2. k.group # {}
    <3>1. k.prio[Idle] \in Prio /\ Idle \in ToSet(k.table[k.prio[Idle]])
      BY <1>1, <2>1, KernelAssumption DEF KernelState, CurrentOf, ListsConsistent, ReadyTableOf
    <3>2. k.table[k.prio[Idle]] # <<>>
      BY <3>1 DEF ToSet
    <3> QED BY <1>1, <3>1, <3>2 DEF ListsConsistent, ReadyTableOf
  <2> DEFINE y  == ClearYield(k)
             to == HighestThread(k)
             z  == SwitchTo(y, to)
  <2>3. to \in Thread \ X /\ k.stat[to] = "READY"
    BY <1>1, <2>2, HighestIsReady
  <2>4. y = k
    BY <1>4 DEF ClearYield
  <2>5. rt_schedule(k) = z
    BY <1>4, <2>2 DEF rt_schedule, KeepsProcessor
  <2> HIDE DEF to, y
  <2>6. z.cur = to
    BY <2>3, <2>4, SwitchInv
  <2>7. to # k.cur
    BY <1>1, <2>3 DEF CurrentOf
  <2> HIDE DEF z
  <2> QED BY <1>2, <2>5, <2>6, <2>7 DEF Keeps
<1> QED BY <1>3, <1>4

\* A thread that was created and never started may become suspended.
LEMMA StartInv ==
  ASSUME NEW k, NEW X \in SUBSET Thread, KernelInv(k, X), NEW t \in Thread \ X,
         k.stat[t] = "INIT"
  PROVE  LET r == [k EXCEPT !.stat[t] = "SUSPEND", !.yield[t] = FALSE]
         IN  KernelInv(r, X) /\ Keeps(r, k)
<1> DEFINE m == [k EXCEPT !.stat[t] = "SUSPEND"]
           r == [k EXCEPT !.stat[t] = "SUSPEND", !.yield[t] = FALSE]
<1>1. k \in KernelState /\ ListsConsistent(k, X) /\ CurrentOf(k, X) /\ k.cur \in Thread
  BY DEF KernelInv, KernelState
<1>2. ListsConsistent(k, X \cup {t})
  BY <1>1, AddExempt
<1>3. r \in KernelState /\ ListsConsistent(r, X \cup {t})
  <2>1. t \in X \cup {t} /\ "SUSPEND" \in Stat
    BY DEF Stat
  <2>2. m \in KernelState /\ ListsConsistent(m, X \cup {t})
    BY <1>1, <1>2, <2>1, ChangeStat
  <2>3. r \in KernelState /\ SameLists(r, m)
    BY <1>1 DEF KernelState, SameLists, Stat
  <2> HIDE DEF m, r
  <2> QED BY <2>2, <2>3, OtherFields DEF SameLists
<1>4. /\ r.cur = k.cur /\ r.nest = k.nest /\ r.defunct = k.defunct
      /\ \A u \in Thread : r.stat[u] = IF u = t THEN "SUSPEND" ELSE k.stat[u]
  BY <1>1 DEF KernelState
<1> HIDE DEF r
<1>5. ListsConsistent(r, X)
  <2>1. ListsConsistent(r, (X \cup {t}) \ {t})
    BY <1>3, <1>4, DropExempt
  <2>2. (X \cup {t}) \ {t} = X
    OBVIOUS
  <2> QED BY <2>1, <2>2
<1>6. CurrentOf(r, X) /\ Keeps(r, k)
  BY <1>1, <1>4, KernelAssumption DEF CurrentOf, Keeps
<1> QED BY <1>3, <1>5, <1>6 DEF KernelInv, r

\* No priority with a READY thread is more urgent than the current thread's.
Best(r) == \A p \in r.group : r.prio[r.cur] <= p

\* Taking a thread out of its list sets no bit.
LEMMA RemoveBits ==
  ASSUME NEW r \in KernelState, NEW t \in Thread
  PROVE  LET s == rt_schedule_remove_thread(r, t)
         IN  s.group \subseteq r.group /\ s.prio = r.prio /\ s.cur = r.cur
BY DEF rt_schedule_remove_thread, rt_list_remove, KernelState

\* The state in which rt_system_scheduler_start leaves the kernel.
LEMMA BootInv ==
  ASSUME NEW tbl \in BootTables
  PROVE  LET b == rt_system_scheduler_start(tbl)
         IN  /\ KernelInv(b, {}) /\ b.stat[b.cur] = "RUNNING" /\ b.nest = 0 /\ Best(b) /\ b.prio = BasePrio
             /\ b.timers = <<>> /\ \A q \in Queue : b.wait[q] = <<>>
             /\ \A t \in Thread : b.stat[t] # "SUSPEND" /\ b.err[t] = "EOK"
<1> DEFINE b   == [Boot EXCEPT !.table = tbl]
           to  == HighestThread(b)
           rem == rt_schedule_remove_thread(b, to)
           fin == [rem EXCEPT !.cur = to, !.stat[to] = "RUNNING"]
<1>0. rt_system_scheduler_start(tbl) = fin
  BY DEF rt_system_scheduler_start
<1>1. \A p \in Prio : /\ tbl[p] \in Seq(Thread) /\ IsInjective(tbl[p])
                      /\ ToSet(tbl[p]) = {t \in Started : BasePrio[t] = p}
  <2> SUFFICES ASSUME NEW p \in Prio
               PROVE  /\ tbl[p] \in Seq(Thread) /\ IsInjective(tbl[p])
                      /\ ToSet(tbl[p]) = {t \in Started : BasePrio[t] = p}
    OBVIOUS
  <2> DEFINE starting(q) == {t \in Started : BasePrio[t] = q}
  <2>0. tbl[p] \in UNION {SetToSeqs(starting(q)) : q \in Prio}
    BY DEF BootTables
  <2>1. PICK S \in SUBSET Started : tbl[p] \in SetToSeqs(S)
    <3>1. PICK q \in Prio : tbl[p] \in SetToSeqs(starting(q))
      BY <2>0
    <3>2. starting(q) \in SUBSET Started
      OBVIOUS
    <3> QED BY <3>1, <3>2
  <2>2. /\ tbl[p] \in [1 .. Cardinality(S) -> S]
        /\ \A i, j \in 1 .. Cardinality(S) : i # j => tbl[p][i] # tbl[p][j]
    BY <2>1 DEF SetToSeqs
  <2>3. IsInjective(tbl[p])
    BY <2>2 DEF IsInjective
  <2>4. ToSet(tbl[p]) = {t \in Started : BasePrio[t] = p}
    BY DEF BootTables
  <2>5. tbl[p] \in Seq(Thread)
    <3>1. IsFiniteSet(S)
      BY FS_Subset, KernelAssumption, BootAssumption
    <3>2. Cardinality(S) \in Nat
      BY <3>1, FS_CardinalityType
    <3>3. tbl[p] \in [1 .. Cardinality(S) -> Thread]
      BY <2>2, BootAssumption
    <3> QED BY <3>2, <3>3
  <2> QED BY <2>3, <2>4, <2>5
<1>2. tbl \in [Prio -> Seq(Thread)]
  <2>1. tbl = [p \in Prio |-> tbl[p]]
    BY DEF BootTables
  <2> QED BY <1>1, <2>1
<1>3. b \in KernelState
  <2>1. [t \in Thread |-> IF t \in Started THEN "READY" ELSE "INIT"] \in [Thread -> Stat]
    BY DEF Stat
  <2>2. /\ [t \in Thread |-> FALSE] \in [Thread -> BOOLEAN]
        /\ [t \in Thread |-> "EOK"] \in [Thread -> Error]
        /\ [q \in Queue |-> <<>>] \in [Queue -> Seq(Thread)]
    BY DEF Error
  <2>3. /\ BasePrio \in [Thread -> Prio] /\ InitTick \in [Thread -> Nat \ {0}] /\ Idle \in Thread
        /\ {BasePrio[t] : t \in Started} \in SUBSET Prio
    BY KernelAssumption, BootAssumption
  <2>4. <<>> \in Seq(Thread) /\ <<>> \in Seq(Timer)
    OBVIOUS
  <2> QED BY <1>2, <2>1, <2>2, <2>3, <2>4 DEF Boot, KernelState
<1>4. /\ \A t \in Thread : b.stat[t] = IF t \in Started THEN "READY" ELSE "INIT"
      /\ b.prio = BasePrio /\ b.table = tbl /\ b.group = {BasePrio[t] : t \in Started}
      /\ b.cur = Idle /\ b.nest = 0 /\ b.timers = <<>> /\ b.defunct = <<>>
      /\ b.wait = [q \in Queue |-> <<>>] /\ b.err = [t \in Thread |-> "EOK"]
  BY DEF Boot
<1> HIDE DEF b
<1>5. ListsConsistent(b, {})
  <2>1. b.group = {p \in Prio : b.table[p] # <<>>}
    <3>1. \A p \in Prio : b.table[p] # <<>> <=> \E t \in Started : BasePrio[t] = p
      BY <1>1, <1>4, EmptyToSet
    <3> QED BY <1>4, <3>1, BootAssumption
  <2>2. ReadyTableOf(b, {})
    BY <1>1, <1>4, <2>1, BootAssumption DEF ReadyTableOf
  <2>3. IsInjective(<<>>) /\ ToSet(<<>>) = {}
    BY DEF IsInjective, ToSet
  <2>4. TimersOf(b, {}) /\ WaitersOf(b, {}) /\ DefunctOf(b, {})
    BY <1>4, <2>3 DEF TimersOf, WaitersOf, DefunctOf
  <2> QED BY <2>2, <2>4 DEF ListsConsistent
<1>6. to \in Thread /\ b.stat[to] = "READY" /\ \A p \in b.group : b.prio[to] <= p
  <2>0. b.group = {BasePrio[t] : t \in Started}
    BY <1>4
  <2>1. b.group # {}
    BY <2>0, BootAssumption
  <2> QED BY <1>3, <1>5, <2>1, HighestIsReady
<1> HIDE DEF to
<1>7. ~TimerArmed(b, to)
  BY <1>4 DEF TimerArmed
<1>8. rem \in KernelState /\ SameBut(rem, b) /\ ListsConsistent(rem, {} \cup {to})
  BY <1>3, <1>5, <1>6, <1>7, TakeOut
<1>20. rem.group \subseteq b.group /\ rem.prio = b.prio
  BY <1>3, <1>6, RemoveBits
<1>17. \A q \in Queue : rem.wait[q] = <<>>
  <2>1. rem.wait = [q \in Queue |-> Unlink(b.wait[q], to)]
    BY <1>3 DEF rt_schedule_remove_thread, rt_list_remove, KernelState
  <2>2. Unlink(<<>>, to) = <<>>
    BY UnlinkCases DEF Unlink
  <2> QED BY <1>4, <2>1, <2>2
<1> HIDE DEF rem
<1>9. {} \cup {to} = {to}
  OBVIOUS
<1> DEFINE m == [rem EXCEPT !.stat[to] = "RUNNING"]
<1>10. m \in KernelState /\ ListsConsistent(m, {to})
  <2>1. to \in {to} /\ "RUNNING" \in Stat
    BY DEF Stat
  <2> QED BY <1>6, <1>8, <1>9, <2>1, ChangeStat
<1>11. /\ m.nest = 0
       /\ \A t \in Thread : m.stat[t] = IF t = to THEN "RUNNING" ELSE b.stat[t]
  BY <1>4, <1>8 DEF KernelState, SameBut
<1>12. fin = [m EXCEPT !.cur = to]
  BY <1>8 DEF KernelState
<1> HIDE DEF m, fin
<1>13. fin \in KernelState /\ ListsConsistent(fin, {to})
  <2>1. \A u \in Thread \ {to} : m.stat[u] # "RUNNING"
    BY <1>4, <1>11
  <2> QED BY <1>6, <1>10, <1>12, <2>1, ChangeCur
<1>14. fin.cur = to /\ fin.stat = m.stat /\ fin.nest = 0
  BY <1>10, <1>11, <1>12 DEF KernelState
<1>21. Best(fin)
  <2>1. fin.group = rem.group /\ fin.prio = rem.prio
    BY <1>8, <1>10, <1>12 DEF KernelState, m
  <2> QED BY <1>6, <1>14, <1>20, <2>1 DEF Best
<1>22. fin.prio = BasePrio
  BY <1>4, <1>8, <1>10, <1>12, <1>20 DEF KernelState, m
<1>18. fin.wait = rem.wait /\ fin.timers = rem.timers /\ fin.err = rem.err
  BY <1>8, <1>10, <1>12 DEF KernelState, m
<1>19. /\ fin.timers = <<>> /\ \A q \in Queue : fin.wait[q] = <<>>
      /\ \A t \in Thread : fin.stat[t] # "SUSPEND" /\ fin.err[t] = "EOK"
  BY <1>4, <1>8, <1>17, <1>11, <1>14, <1>18 DEF SameBut
<1>15. ListsConsistent(fin, {})
  <2>1. ListsConsistent(fin, {to} \ {to})
    BY <1>6, <1>11, <1>13, <1>14, DropExempt
  <2>2. {to} \ {to} = {}
    OBVIOUS
  <2> QED BY <2>1, <2>2
<1>16. CurrentOf(fin, {})
  BY <1>4, <1>6, <1>11, <1>14, KernelAssumption, BootAssumption DEF CurrentOf
<1> QED BY <1>0, <1>6, <1>11, <1>13, <1>14, <1>15, <1>16, <1>19, <1>21, <1>22 DEF KernelInv

-----------------------------------------------------------------------------

(* What the routines do to the suspend lists, the error codes and the     *)
(* thread timers                                                           *)

\* The threads that are suspended.
Asleep(k) == {u \in Thread : k.stat[u] = "SUSPEND"}

\* Nobody was put to sleep or woken.
SameWaits(r, k) ==
  /\ r.wait = k.wait /\ r.err = k.err /\ r.timers = k.timers /\ r.prio = k.prio
  /\ Asleep(r) = Asleep(k)

\* Removing a thread from its ready list leaves the suspend lists alone.
LEMMA RemoveWaits ==
  ASSUME NEW k \in KernelState, NEW X, ListsConsistent(k, X), NEW t \in Thread,
         k.stat[t] # "SUSPEND"
  PROVE  LET r == rt_schedule_remove_thread(k, t)
         IN  r.wait = k.wait /\ r.err = k.err /\ r.timers = k.timers /\ r.prio = k.prio /\ r.stat = k.stat
<1> DEFINE r == rt_schedule_remove_thread(k, t)
<1>1. \A q \in Queue : k.wait[q] \in Seq(Thread) /\ t \notin ToSet(k.wait[q])
  BY DEF KernelState, ListsConsistent, WaitersOf
<1>2. \A q \in Queue : Unlink(k.wait[q], t) = k.wait[q]
  BY <1>1, UnlinkAbsent
<1>3. /\ r.wait = [q \in Queue |-> Unlink(k.wait[q], t)] /\ r.err = k.err
      /\ r.timers = k.timers /\ r.prio = k.prio /\ r.stat = k.stat
  BY DEF rt_schedule_remove_thread, rt_list_remove, KernelState
<1>4. k.wait = [q \in Queue |-> k.wait[q]]
  BY DEF KernelState
<1> QED BY <1>2, <1>3, <1>4

\* rt_schedule neither wakes anybody nor puts anybody to sleep.
LEMMA ScheduleWaits ==
  ASSUME NEW k, NEW X \in SUBSET Thread, KernelInv(k, X)
  PROVE  SameWaits(rt_schedule(k), k)
<1>1. k \in KernelState /\ ListsConsistent(k, X) /\ CurrentOf(k, X) /\ k.cur \in Thread
  BY DEF KernelInv, KernelState
<1> DEFINE y == ClearYield(k)
<1>3. /\ y \in KernelState /\ SameLists(y, k) /\ y.err = k.err /\ y.nest = k.nest
  BY <1>1 DEF ClearYield, KernelState, SameLists
<1> HIDE DEF y
<1>4. KernelInv(y, X)
  BY <1>3, FieldsInv
<1>4a. ListsConsistent(y, X) /\ CurrentOf(y, X)
  BY <1>4 DEF KernelInv
<1>5. CASE k.nest # 0 \/ k.group = {}
  BY <1>5 DEF rt_schedule, SameWaits
<1>6. CASE ~(k.nest # 0 \/ k.group = {}) /\ KeepsProcessor(k)
  <2> DEFINE c == y.cur
             r == rt_schedule_remove_thread(y, c)
             z == [r EXCEPT !.stat[c] = "RUNNING"]
  <2>1. c \in Thread /\ y.stat[c] = "RUNNING" /\ rt_schedule(k) = z
    BY <1>1, <1>3, <1>6 DEF KeepsProcessor, rt_schedule, StayWith, y, SameLists
  <2>2. /\ r \in KernelState /\ r.wait = y.wait /\ r.err = y.err /\ r.timers = y.timers
        /\ r.prio = y.prio /\ r.stat = y.stat
    BY <1>3, <1>4a, <2>1, RemoveType, RemoveWaits
  <2> HIDE DEF r
  <2>3. /\ z.wait = r.wait /\ z.err = r.err /\ z.timers = r.timers /\ z.prio = r.prio
        /\ \A u \in Thread : z.stat[u] = "SUSPEND" <=> y.stat[u] = "SUSPEND"
    BY <2>1, <2>2 DEF KernelState
  <2> HIDE DEF z
  <2> QED BY <1>3, <2>1, <2>2, <2>3 DEF SameWaits, SameLists, Asleep
<1>7. CASE ~(k.nest # 0 \/ k.group = {}) /\ ~KeepsProcessor(k)
  <2> DEFINE to   == HighestThread(k)
             from == y.cur
             m    == [y EXCEPT !.cur = to]
             b    == IF y.stat[from] = "RUNNING" THEN rt_schedule_insert_thread(m, from) ELSE m
             r    == rt_schedule_remove_thread(b, to)
             z    == [r EXCEPT !.stat[to] = "RUNNING"]
  <2>1. to \in Thread \ X /\ y.stat[to] = "READY" /\ from \in Thread
    BY <1>1, <1>3, <1>7, HighestIsReady DEF SameLists
  <2>2. rt_schedule(k) = z
    BY <1>7 DEF rt_schedule, SwitchTo, y
  <2> HIDE DEF to
  <2>3. /\ m \in KernelState /\ m.wait = y.wait /\ m.err = y.err /\ m.timers = y.timers
        /\ m.prio = y.prio /\ m.stat = y.stat /\ m.cur = to
    BY <1>3, <2>1 DEF KernelState
  <2>3a. from # to
    BY <1>4a, <2>1 DEF CurrentOf
  <2> HIDE DEF m, from
  <2>4. /\ b \in KernelState /\ b.wait = y.wait /\ b.err = y.err /\ b.timers = y.timers
        /\ b.prio = y.prio
        /\ \A u \in Thread : b.stat[u] = "SUSPEND" <=> y.stat[u] = "SUSPEND"
    <3>1. CASE y.stat[from] = "RUNNING"
      <4>1. b = rt_schedule_insert_thread(m, from)
        BY <3>1
      <4>2. b \in KernelState
        BY <2>1, <2>3, <4>1, InsertType
      <4>3. /\ b.wait = m.wait /\ b.err = m.err /\ b.timers = m.timers /\ b.prio = m.prio
            /\ b.stat = [m.stat EXCEPT ![from] = "READY"]
        BY <2>3, <2>3a, <4>1 DEF rt_schedule_insert_thread, KernelState
      <4> HIDE DEF b
      <4>4. \A u \in Thread : b.stat[u] = IF u = from THEN "READY" ELSE m.stat[u]
        BY <2>3, <4>3 DEF KernelState
      <4> QED BY <2>3, <3>1, <4>2, <4>3, <4>4
    <3>2. CASE y.stat[from] # "RUNNING"
      BY <2>3, <3>2
    <3> QED BY <3>1, <3>2
  <2> HIDE DEF b
  <2>5. /\ r \in KernelState /\ r.wait = b.wait /\ r.err = b.err /\ r.timers = b.timers
        /\ r.prio = b.prio /\ r.stat = b.stat
    <3>1. \A q \in Queue : b.wait[q] \in Seq(Thread) /\ to \notin ToSet(b.wait[q])
      <4>1. \A q \in Queue : to \notin ToSet(y.wait[q])
        BY <1>4a, <2>1 DEF ListsConsistent, WaitersOf
      <4> QED BY <2>4, <4>1 DEF KernelState
    <3>2. \A q \in Queue : Unlink(b.wait[q], to) = b.wait[q]
      BY <3>1, UnlinkAbsent
    <3>3. /\ r.wait = [q \in Queue |-> Unlink(b.wait[q], to)] /\ r.err = b.err
          /\ r.timers = b.timers /\ r.prio = b.prio /\ r.stat = b.stat
      BY <2>4 DEF rt_schedule_remove_thread, rt_list_remove, KernelState
    <3>4. b.wait = [q \in Queue |-> b.wait[q]]
      BY <2>4 DEF KernelState
    <3>5. r \in KernelState
      BY <2>1, <2>4, RemoveType
    <3> QED BY <3>2, <3>3, <3>4, <3>5
  <2> HIDE DEF r
  <2>6. /\ z.wait = r.wait /\ z.err = r.err /\ z.timers = r.timers /\ z.prio = r.prio
        /\ \A u \in Thread : z.stat[u] = IF u = to THEN "RUNNING" ELSE r.stat[u]
    BY <2>5 DEF KernelState
  <2> HIDE DEF z
  <2>7. \A u \in Thread : z.stat[u] = "SUSPEND" <=> y.stat[u] = "SUSPEND"
    BY <2>1, <2>4, <2>5, <2>6
  <2> QED BY <1>3, <2>2, <2>4, <2>5, <2>6, <2>7 DEF SameWaits, SameLists, Asleep
<1> QED BY <1>5, <1>6, <1>7

\* Every timer of r runs in k too, as it is, and none is t's.
TimersBut(r, k, t) ==
  \A i \in DOMAIN r.timers :
    r.timers[i].thr # t /\ \E j \in DOMAIN k.timers : r.timers[i] = k.timers[j]

LEMMA TimerStopOthers ==
  ASSUME NEW k \in KernelState, NEW X, ListsConsistent(k, X), NEW t \in Thread
  PROVE  TimersBut(TimerStop(k, t), k, t)
<1> DEFINE r == TimerStop(k, t)
<1>1. r \in KernelState /\ ~TimerArmed(r, t)
  BY TimerStopInv
<1>2. CASE ~TimerArmed(k, t)
  BY <1>2 DEF TimerStop, TimersBut, TimerArmed
<1>3. CASE TimerArmed(k, t)
  <2> DEFINE n == CHOOSE i \in DOMAIN k.timers : k.timers[i].thr = t
             s == RemoveAt(k.timers, n)
  <2>1. n \in DOMAIN k.timers
    BY <1>3 DEF TimerArmed
  <2>2. r = [k EXCEPT !.timers = s]
    BY <1>3 DEF TimerStop
  <2> HIDE DEF n
  <2>3. k.timers \in Seq(Timer) /\ DOMAIN k.timers = 1 .. Len(k.timers) /\ Len(k.timers) \in Nat
    BY TimerThreads, LenProperties
  <2>4. /\ s \in Seq(Timer) /\ Len(s) = Len(k.timers) - 1
        /\ \A j \in 1 .. Len(k.timers) - 1 : s[j] = IF j < n THEN k.timers[j] ELSE k.timers[j + 1]
    BY <2>1, <2>3, RemoveAtType
  <2>5. DOMAIN s = 1 .. Len(k.timers) - 1
    BY <2>4, LenProperties
  <2> HIDE DEF s
  <2>6. r.timers = s
    BY <2>2 DEF KernelState
  <2>7. \A j \in DOMAIN s : \E i \in DOMAIN k.timers :
          s[j] = k.timers[i] /\ i = IF j < n THEN j ELSE j + 1
    BY <2>1, <2>3, <2>4, <2>5
  <2> HIDE DEF r
  <2> QED BY <1>1, <2>6, <2>7 DEF TimersBut, TimerArmed, r
<1> QED BY <1>2, <1>3

\* Starting a timer adds one, and the others run on.
LEMMA TimerStartOthers ==
  ASSUME NEW k \in KernelState, NEW X, ListsConsistent(k, X), NEW t \in Thread, NEW ticks \in Nat
  PROVE  LET r == TimerStart(k, t, ticks)
         IN  \A i \in DOMAIN r.timers :
               \/ r.timers[i] = [thr |-> t, left |-> ticks]
               \/ r.timers[i].thr # t /\ \E j \in DOMAIN k.timers : r.timers[i] = k.timers[j]
<1> DEFINE k1   == TimerStop(k, t)
           rest == k1.timers
           soon == {i \in DOMAIN rest : rest[i].left <= ticks}
           n    == Cardinality(soon) + 1
           e    == [thr |-> t, left |-> ticks]
           s    == InsertAt(rest, n, e)
           r    == TimerStart(k, t, ticks)
<1>1. r.timers = s
  BY DEF TimerStart, KernelState
<1>2. k1 \in KernelState /\ TimersBut(k1, k, t)
  BY TimerStopInv, TimerStopOthers
<1> HIDE DEF k1
<1>3. rest \in Seq(Timer) /\ DOMAIN rest = 1 .. Len(rest) /\ Len(rest) \in Nat
  BY <1>2, TimerThreads, LenProperties
<1>4. n \in 1 .. Len(rest) + 1
  <2>1. soon \subseteq 1 .. Len(rest)
    BY <1>3
  <2>2. IsFiniteSet(1 .. Len(rest)) /\ Cardinality(1 .. Len(rest)) = Len(rest)
    BY <1>3, FS_Interval
  <2> HIDE DEF soon
  <2>3. IsFiniteSet(soon) /\ Cardinality(soon) <= Len(rest)
    BY <2>1, <2>2, FS_Subset
  <2>4. Cardinality(soon) \in Nat
    BY <2>3, FS_CardinalityType
  <2> QED BY <2>3, <2>4, <1>3
<1>5. e \in Timer
  BY DEF Timer
<1> HIDE DEF n, e
<1>6. /\ s \in Seq(Timer) /\ Len(s) = Len(rest) + 1
      /\ \A j \in 1 .. Len(rest) + 1 : s[j] = IF j < n THEN rest[j] ELSE IF j = n THEN e ELSE rest[j - 1]
  <2> HIDE DEF rest
  <2> QED BY <1>3, <1>4, <1>5, InsertAtType
<1>7. DOMAIN s = 1 .. Len(rest) + 1
  BY <1>6, LenProperties
<1> HIDE DEF s
<1>8. \A j \in DOMAIN s : \/ j = n /\ s[j] = e
                          \/ \E i \in DOMAIN rest : j # n /\ s[j] = rest[i] /\ i = IF j < n THEN j ELSE j - 1
  <2> HIDE DEF rest
  <2> QED BY <1>3, <1>4, <1>6, <1>7
<1>9. \A i \in DOMAIN rest : rest[i].thr # t /\ \E j \in DOMAIN k.timers : rest[i] = k.timers[j]
  BY <1>2 DEF TimersBut
<1> HIDE DEF rest, r
<1>10. \A j \in DOMAIN s : \/ s[j] = e
                           \/ s[j].thr # t /\ \E i \in DOMAIN k.timers : s[j] = k.timers[i]
  BY <1>8, <1>9
<1> QED BY <1>1, <1>10 DEF r, e

\* t was woken, and nobody else: it has left its list and its timer is stopped.
WokeOnly(r, k, t) ==
  /\ r.wait = [q \in Queue |-> Unlink(k.wait[q], t)]
  /\ r.prio = k.prio
  /\ Asleep(r) = Asleep(k) \ {t}
  /\ TimersBut(r, k, t)

LEMMA WakeWaits ==
  ASSUME NEW k \in KernelState, NEW t \in Thread
  PROVE  LET r == rt_schedule_insert_thread(rt_list_remove(k, t), t)
         IN  /\ r.wait = [q \in Queue |-> Unlink(k.wait[q], t)]
             /\ r.prio = k.prio /\ r.err = k.err /\ r.timers = k.timers /\ r.cur = k.cur
             /\ Asleep(r) = Asleep(k) \ {t}
<1> DEFINE l == rt_list_remove(k, t)
           r == rt_schedule_insert_thread(l, t)
<1>1. /\ l \in KernelState /\ l.wait = [q \in Queue |-> Unlink(k.wait[q], t)] /\ l.prio = k.prio
      /\ l.err = k.err /\ l.timers = k.timers /\ l.stat = k.stat /\ l.cur = k.cur
  <2>1. l \in KernelState
    BY ListRemoveType
  <2> QED BY <2>1 DEF rt_list_remove, KernelState
<1> HIDE DEF l
<1>2. r.wait = l.wait /\ r.prio = l.prio /\ r.err = l.err /\ r.timers = l.timers
  BY <1>1 DEF rt_schedule_insert_thread, KernelState
<1>3. /\ r.cur = l.cur
      /\ \A u \in Thread : r.stat[u] = IF u # t THEN l.stat[u]
                                      ELSE IF t = l.cur THEN "RUNNING" ELSE "READY"
  BY <1>1, InsertFrame
<1> HIDE DEF r
<1>4. Asleep(r) = Asleep(k) \ {t}
  BY <1>1, <1>3 DEF Asleep
<1> QED BY <1>1, <1>2, <1>3, <1>4 DEF r, l

\* rt_thread_resume wakes a suspended thread.
LEMMA ResumeWaits ==
  ASSUME NEW k, NEW X, KernelInv(k, X), NEW t \in Thread, k.stat[t] = "SUSPEND"
  PROVE  LET r == rt_thread_resume(k, t)
         IN  WokeOnly(r, k, t) /\ r.err = k.err /\ r.cur = k.cur
<1> DEFINE s == TimerStop(k, t)
           l == rt_list_remove(k, t)
           r == rt_schedule_insert_thread(rt_list_remove(s, t), t)
<1>1. s \in KernelState /\ SameButTimers(s, k) /\ TimersBut(s, k, t)
  BY TimerStopInv, TimerStopOthers DEF KernelInv
<1>2. TimerStop(l, t) = rt_list_remove(s, t)
  BY DEF KernelInv, KernelState, TimerStop, rt_list_remove, TimerArmed
<1>3. rt_thread_resume(k, t) = r
  BY <1>2 DEF rt_thread_resume, MakeReady
<1> HIDE DEF s
<1>4. /\ r.wait = [q \in Queue |-> Unlink(s.wait[q], t)]
      /\ r.prio = s.prio /\ r.err = s.err /\ r.timers = s.timers /\ r.cur = s.cur
      /\ Asleep(r) = Asleep(s) \ {t}
  BY <1>1, WakeWaits
<1> HIDE DEF r
<1> QED BY <1>1, <1>3, <1>4 DEF WokeOnly, SameButTimers, TimersBut, Asleep

\* A time-out wakes a suspended thread with an error.
LEMMA TimeoutWaits ==
  ASSUME NEW k, NEW X \in SUBSET Thread, KernelInv(k, X), NEW t \in Thread \ X,
         k.stat[t] = "SUSPEND"
  PROVE  LET r == _thread_timeout(k, t)
         IN  WokeOnly(r, k, t) /\ r.err = [k.err EXCEPT ![t] = "ETIMEOUT"]
<1> DEFINE s == TimerStop(k, t)
           e == [s EXCEPT !.err[t] = "ETIMEOUT"]
           r == rt_schedule_insert_thread(rt_list_remove(e, t), t)
           z == rt_schedule(r)
<1>1. /\ KernelInv(s, X) /\ ~TimerArmed(s, t) /\ SameButTimers(s, k) /\ TimersBut(s, k, t)
      /\ s \in KernelState
  BY TimerStopKeeps, TimerStopOthers DEF KernelInv
<1>2. _thread_timeout(k, t) = z
  BY DEF _thread_timeout
<1> HIDE DEF s
<1>3. /\ e \in KernelState /\ SameLists(e, s) /\ e.nest = s.nest
      /\ e.err = [s.err EXCEPT ![t] = "ETIMEOUT"]
  BY <1>1 DEF KernelState, SameLists, Error
<1> HIDE DEF e
<1>4. KernelInv(e, X) /\ e.stat[t] = "SUSPEND" /\ ~TimerArmed(e, t)
  <2>1. KernelInv(e, X)
    BY <1>1, <1>3, FieldsInv
  <2> QED BY <1>1, <1>3, <2>1 DEF SameButTimers, SameLists, TimerArmed
<1>5. /\ r.wait = [q \in Queue |-> Unlink(e.wait[q], t)]
      /\ r.prio = e.prio /\ r.err = e.err /\ r.timers = e.timers
      /\ Asleep(r) = Asleep(e) \ {t}
  BY <1>3, WakeWaits
<1>6. KernelInv(r, X)
  BY <1>4, WakeInv
<1> HIDE DEF r
<1>7. SameWaits(z, r)
  BY <1>6, ScheduleWaits
<1> HIDE DEF z
<1> QED BY <1>1, <1>2, <1>3, <1>5, <1>7
        DEF WokeOnly, SameButTimers, SameLists, SameWaits, TimersBut, Asleep

\* The tick wakes nobody and lets the timers run.
LEMMA TickWaits ==
  ASSUME NEW k, NEW X \in SUBSET Thread, KernelInv(k, X)
  PROVE  LET r == rt_tick_increase(k)
         IN  /\ r.wait = k.wait /\ r.err = k.err /\ r.prio = k.prio /\ Asleep(r) = Asleep(k)
             /\ r.timers = Aged(k.timers)
<1> DEFINE a == [k EXCEPT !.timers = Aged(@)]
           c == k.cur
<1>1. KernelInv(a, X) /\ c \in Thread /\ k.slice[c] \in Nat
  BY AgedInv DEF KernelInv, KernelState
<1>2. /\ a.slice = k.slice /\ a.wait = k.wait /\ a.err = k.err /\ a.prio = k.prio
      /\ a.timers = Aged(k.timers) /\ a.stat = k.stat
  BY DEF KernelInv, KernelState
<1> HIDE DEF a
<1>3. CASE k.slice[c] > 1
  <2> DEFINE r == [a EXCEPT !.slice[c] = @ - 1]
  <2>1. rt_tick_increase(k) = r
    BY <1>3 DEF rt_tick_increase, a
  <2>2. /\ r.wait = a.wait /\ r.err = a.err /\ r.prio = a.prio /\ r.timers = a.timers
        /\ r.stat = a.stat
    BY <1>1 DEF KernelInv, KernelState
  <2> HIDE DEF r
  <2> QED BY <1>2, <2>1, <2>2 DEF Asleep
<1>4. CASE ~(k.slice[c] > 1)
  <2> DEFINE r == [a EXCEPT !.slice[c] = InitTick[c], !.yield[c] = TRUE]
             z == rt_schedule(r)
  <2>1. InitTick[c] \in Nat \ {0}
    BY <1>1, KernelAssumption
  <2>2. r \in KernelState /\ SameLists(r, a) /\ r.nest = a.nest /\ r.err = a.err
    BY <1>1, <2>1 DEF KernelInv, KernelState, SameLists
  <2>3. rt_tick_increase(k) = z
    BY <1>4 DEF rt_tick_increase, a
  <2> HIDE DEF r
  <2>4. KernelInv(r, X)
    BY <1>1, <2>2, FieldsInv
  <2>5. SameWaits(z, r)
    BY <2>4, ScheduleWaits
  <2> HIDE DEF z
  <2> QED BY <1>2, <2>2, <2>3, <2>5 DEF SameWaits, SameLists, Asleep
<1> QED BY <1>3, <1>4

\* The running thread suspends itself.
LEMMA SuspendWaits ==
  ASSUME NEW k, NEW X, KernelInv(k, X), NEW t \in Thread, t = k.cur, k.stat[t] = "RUNNING"
  PROVE  LET r == rt_thread_suspend(k, t)
         IN  r.wait = k.wait /\ r.err = k.err /\ r.prio = k.prio /\ TimersBut(r, k, t)
<1> DEFINE l == rt_schedule_remove_thread(k, t)
           m == [l EXCEPT !.stat[t] = "SUSPEND"]
           r == TimerStop(m, t)
<1>1. k \in KernelState /\ ListsConsistent(k, X)
  BY DEF KernelInv
<1>2. ~TimerArmed(k, t)
  BY <1>1 DEF ListsConsistent, TimersOf, TimerArmed
<1>3. l \in KernelState /\ l.wait = k.wait /\ l.err = k.err /\ l.prio = k.prio /\ l.timers = k.timers
  BY <1>1, RemoveWaits, RemoveType
<1>4. rt_thread_suspend(k, t) = r
  BY DEF rt_thread_suspend
<1> HIDE DEF l
<1>5. /\ m \in KernelState /\ m.wait = k.wait /\ m.err = k.err /\ m.prio = k.prio
      /\ m.timers = k.timers
  BY <1>3 DEF KernelState, Stat
<1> HIDE DEF m
<1>6. r = m
  BY <1>2, <1>5 DEF TimerStop, TimerArmed
<1> QED BY <1>2, <1>4, <1>5, <1>6 DEF TimersBut, TimerArmed

\* A suspended thread that is in no list joins a suspend list.
LEMMA JoinInv ==
  ASSUME NEW k, NEW X, KernelInv(k, X), NEW t \in Thread, t \notin X, k.stat[t] = "SUSPEND",
         \A x \in Queue : t \notin ToSet(k.wait[x]),
         NEW q \in Queue, NEW n \in 1 .. Len(k.wait[q]) + 1
  PROVE  LET r == [k EXCEPT !.wait[q] = InsertAt(@, n, t)]
         IN  KernelInv(r, X)
<1> DEFINE w == InsertAt(k.wait[q], n, t)
           r == [k EXCEPT !.wait[q] = InsertAt(@, n, t)]
<1>1. k \in KernelState /\ ListsConsistent(k, X) /\ CurrentOf(k, X) /\ k.wait[q] \in Seq(Thread)
  BY DEF KernelInv, KernelState
<1>2. w \in Seq(Thread) /\ IsInjective(w) /\ ToSet(w) = ToSet(k.wait[q]) \cup {t}
  BY <1>1, InsertAtProps DEF ListsConsistent, WaitersOf
<1> HIDE DEF w
<1>3. /\ r \in KernelState /\ r.wait = [k.wait EXCEPT ![q] = w]
      /\ r.stat = k.stat /\ r.prio = k.prio /\ r.cur = k.cur /\ r.table = k.table
      /\ r.group = k.group /\ r.timers = k.timers /\ r.defunct = k.defunct
  BY <1>1, <1>2 DEF KernelState, w
<1> HIDE DEF r
<1>4. \A x \in Queue : r.wait[x] = IF x = q THEN w ELSE k.wait[x]
  BY <1>1, <1>3 DEF KernelState
<1>5. WaitersOf(r, X)
  BY <1>1, <1>2, <1>3, <1>4 DEF ListsConsistent, WaitersOf
<1>6. ReadyTableOf(r, X) /\ TimersOf(r, X) /\ DefunctOf(r, X)
  BY <1>1, <1>3 DEF ListsConsistent, ReadyTableOf, TimersOf, DefunctOf
<1>7. CurrentOf(r, X)
  BY <1>1, <1>3 DEF CurrentOf
<1> QED BY <1>3, <1>5, <1>6, <1>7 DEF KernelInv, ListsConsistent, r

\* The place in the list is one of the list.
LEMMA WaitPositionType ==
  ASSUME NEW k, NEW w \in Seq(Thread), NEW t, NEW flag
  PROVE  WaitPosition(k, w, t, flag) \in 1 .. Len(w) + 1
<1> DEFINE after == {i \in DOMAIN w : flag = "PRIO" /\ k.prio[t] < k.prio[w[i]]}
<1>1. after \subseteq 1 .. Len(w) /\ Len(w) \in Nat
  BY LenProperties
<1>2. CASE after = {}
  BY <1>1, <1>2 DEF WaitPosition
<1>3. CASE after # {}
  <2>1. WaitPosition(k, w, t, flag) = Min(after)
    BY <1>3 DEF WaitPosition
  <2>2. PICK n \in after : \A m \in after : n <= m
    <3>1. after \subseteq Nat
      BY <1>1
    <3> HIDE DEF after
    <3> QED BY <1>3, <3>1, SmallestOf
  <2> HIDE DEF after
  <2>3. Min(after) \in after
    BY <2>2 DEF Min
  <2>4. Min(after) \in 1 .. Len(w)
    BY <1>1, <2>3
  <2> QED BY <1>1, <2>1, <2>4
<1> QED BY <1>2, <1>3

\* Thread t queues on q, somewhere in the list, with its error reset and its
\* timer started if it does not wait for ever; nothing else changes.
Queued(r, k, q, t, timeout) ==
  /\ r.cur = k.cur /\ r.nest = k.nest /\ r.prio = k.prio
  /\ r.err = [k.err EXCEPT ![t] = "EOK"]
  /\ \A u \in Thread : r.stat[u] = IF u = t THEN "SUSPEND" ELSE k.stat[u]
  /\ \A x \in Queue \ {q} : r.wait[x] = k.wait[x]
  /\ \E n \in 1 .. Len(k.wait[q]) + 1 : r.wait[q] = InsertAt(k.wait[q], n, t)
  /\ \A i \in DOMAIN r.timers :
       \/ r.timers[i] = [thr |-> t, left |-> timeout] /\ timeout > 0
       \/ r.timers[i].thr # t /\ \E j \in DOMAIN k.timers : r.timers[i] = k.timers[j]

\* What a blocking call leaves behind: the thread sleeps in the list, its error
\* is reset, and its timer runs if it has a timeout.
LEMMA WaitOnInv ==
  ASSUME NEW k, NEW X \in SUBSET Thread, KernelInv(k, X), NEW t \in Thread \ X,
         t = k.cur, t # Idle, k.stat[t] = "RUNNING",
         NEW q \in Queue, NEW flag, NEW timeout \in Nat \cup {Forever}
  PROVE  LET r == WaitOn(k, q, t, flag, timeout)
         IN  KernelInv(r, X) /\ Queued(r, k, q, t, timeout)
<1> DEFINE e == [k EXCEPT !.err[t] = "EOK"]
           s == rt_thread_suspend(e, t)
           n == WaitPosition(s, s.wait[q], t, flag)
           w == [s EXCEPT !.wait[q] = InsertAt(@, n, t)]
           z == TimerStart(w, t, timeout)
<1>0. k \in KernelState /\ ListsConsistent(k, X)
  BY DEF KernelInv
<1>1. e \in KernelState /\ SameLists(e, k) /\ e.nest = k.nest /\ e.err = [k.err EXCEPT ![t] = "EOK"]
  BY <1>0 DEF KernelState, SameLists, Error
<1>2. WaitOn(k, q, t, flag, timeout) = IF timeout > 0 THEN z ELSE w
  BY DEF WaitOn, _ipc_list_suspend
<1> HIDE DEF e
<1>3. KernelInv(e, X) /\ t = e.cur /\ e.stat[t] = "RUNNING"
  BY <1>1, FieldsInv DEF SameLists
<1>4. /\ KernelInv(s, X) /\ s.cur = e.cur /\ s.nest = e.nest
      /\ \A u \in Thread : s.stat[u] = IF u = t THEN "SUSPEND" ELSE e.stat[u]
  BY <1>3, SuspendInv
<1>5. s.wait = e.wait /\ s.err = e.err /\ s.prio = e.prio /\ TimersBut(s, e, t)
  BY <1>3, SuspendWaits
<1> HIDE DEF s
<1>6. s \in KernelState /\ s.wait[q] \in Seq(Thread) /\ s.stat[t] = "SUSPEND"
  BY <1>4 DEF KernelInv, KernelState
<1>7. n \in 1 .. Len(s.wait[q]) + 1
  BY <1>6, WaitPositionType
<1>8. \A x \in Queue : t \notin ToSet(s.wait[x])
  BY <1>0, <1>1, <1>5 DEF ListsConsistent, WaitersOf, SameLists
<1> HIDE DEF n
<1>9. KernelInv(w, X)
  BY <1>4, <1>6, <1>7, <1>8, JoinInv
<1>10. /\ w.wait = [s.wait EXCEPT ![q] = InsertAt(@, n, t)] /\ w.stat = s.stat /\ w.cur = s.cur
       /\ w.nest = s.nest /\ w.prio = s.prio /\ w.err = s.err /\ w.timers = s.timers
  BY <1>6 DEF KernelState
<1> HIDE DEF w
<1>11. w \in KernelState /\ ListsConsistent(w, X) /\ w.stat[t] = "SUSPEND" /\ CurrentOf(w, X)
  BY <1>6, <1>9, <1>10 DEF KernelInv
<1>12. \A r : SameButTimers(r, w) =>
         /\ r.cur = k.cur /\ r.nest = k.nest /\ r.prio = k.prio
         /\ r.err = [k.err EXCEPT ![t] = "EOK"]
         /\ \A u \in Thread : r.stat[u] = IF u = t THEN "SUSPEND" ELSE k.stat[u]
         /\ r.wait = [k.wait EXCEPT ![q] = InsertAt(@, n, t)]
  BY <1>1, <1>4, <1>5, <1>10 DEF SameButTimers, SameLists
<1>13. n \in 1 .. Len(k.wait[q]) + 1
  BY <1>1, <1>5, <1>7 DEF SameLists
<1>14. k.wait \in [Queue -> Seq(Thread)]
  BY <1>0 DEF KernelState
<1>15. CASE ~(timeout > 0)
  <2>1. SameButTimers(w, w)
    BY DEF SameButTimers
  <2>2. \A i \in DOMAIN w.timers :
          w.timers[i].thr # t /\ \E j \in DOMAIN k.timers : w.timers[i] = k.timers[j]
    BY <1>1, <1>5, <1>10 DEF TimersBut, SameLists
  <2>3. /\ \A x \in Queue \ {q} : w.wait[x] = k.wait[x]
        /\ \E x \in 1 .. Len(k.wait[q]) + 1 : w.wait[q] = InsertAt(k.wait[q], x, t)
    BY <1>14, <1>12, <1>13, <2>1
  <2>4. WaitOn(k, q, t, flag, timeout) = w
    BY <1>2, <1>15
  <2> HIDE DEF w
  <2>5. Queued(w, k, q, t, timeout)
    BY <1>12, <2>1, <2>2, <2>3 DEF Queued
  <2> QED BY <1>9, <2>4, <2>5
<1>16. CASE timeout > 0
  <2>0. timeout \in Nat
    BY <1>16 DEF Forever
  <2>1. z \in KernelState /\ SameButTimers(z, w) /\ ListsConsistent(z, X)
    BY <1>11, <2>0, TimerStartInv
  <2>2. \A i \in DOMAIN z.timers :
          \/ z.timers[i] = [thr |-> t, left |-> timeout]
          \/ z.timers[i].thr # t /\ \E j \in DOMAIN w.timers : z.timers[i] = w.timers[j]
    BY <1>11, <2>0, TimerStartOthers
  <2> HIDE DEF z
  <2>3. KernelInv(z, X)
    BY <1>11, <2>1 DEF KernelInv, CurrentOf, SameButTimers
  <2>4. \A i \in DOMAIN w.timers : \E j \in DOMAIN k.timers : w.timers[i] = k.timers[j]
    BY <1>1, <1>5, <1>10 DEF TimersBut, SameLists
  <2>5. /\ \A x \in Queue \ {q} : z.wait[x] = k.wait[x]
        /\ \E x \in 1 .. Len(k.wait[q]) + 1 : z.wait[q] = InsertAt(k.wait[q], x, t)
    BY <1>14, <1>12, <1>13, <2>1
  <2>6. WaitOn(k, q, t, flag, timeout) = z
    BY <1>2, <1>16
  <2>7. \A i \in DOMAIN z.timers :
          \/ z.timers[i] = [thr |-> t, left |-> timeout] /\ timeout > 0
          \/ z.timers[i].thr # t /\ \E j \in DOMAIN k.timers : z.timers[i] = k.timers[j]
    BY <1>16, <2>2, <2>4
  <2>8. Queued(z, k, q, t, timeout)
    BY <1>12, <2>1, <2>5, <2>7 DEF Queued
  <2> QED BY <2>3, <2>6, <2>8
<1> QED BY <1>15, <1>16

\* A thread that leaves its suspend list leaves the other lists as they are.
LEMMA UnlinkOthers ==
  ASSUME NEW k, NEW X, KernelInv(k, X), NEW q \in Queue, NEW t \in ToSet(k.wait[q])
  PROVE  /\ t \in Thread /\ k.stat[t] = "SUSPEND" /\ t \notin X
         /\ [x \in Queue |-> Unlink(k.wait[x], t)] = [k.wait EXCEPT ![q] = Unlink(@, t)]
<1>1. k.wait \in [Queue -> Seq(Thread)]
  BY DEF KernelInv, KernelState
<1>2. t \in Thread
  BY <1>1, SeqViews DEF ToSet
<1>3. \A x \in Queue : x # q => t \notin ToSet(k.wait[x])
  BY <1>2 DEF KernelInv, ListsConsistent, WaitersOf
<1>4. \A x \in Queue : x # q => Unlink(k.wait[x], t) = k.wait[x]
  BY <1>1, <1>3, UnlinkAbsent
<1>5. k.stat[t] = "SUSPEND" /\ t \notin X
  BY <1>2 DEF KernelInv, ListsConsistent, WaitersOf
<1> QED BY <1>1, <1>2, <1>4, <1>5

\* _ipc_list_resume takes the first thread off a suspend list and wakes it.
LEMMA ListResume ==
  ASSUME NEW k, NEW X \in SUBSET Thread, KernelInv(k, X), NEW q \in Queue, k.wait[q] # <<>>
  PROVE  LET h == Head(k.wait[q])
             r == _ipc_list_resume(k, q)
         IN  /\ h \in ToSet(k.wait[q]) /\ h \in Thread
             /\ KernelInv(r, X) /\ Keeps(r, k) /\ r.cur = k.cur /\ r.err = k.err
             /\ r.prio = k.prio
             /\ r.wait = [k.wait EXCEPT ![q] = Tail(@)]
             /\ ToSet(r.wait[q]) = ToSet(k.wait[q]) \ {h}
             /\ Asleep(r) = Asleep(k) \ {h} /\ TimersBut(r, k, h)
<1> DEFINE h == Head(k.wait[q])
           r == _ipc_list_resume(k, q)
<1>1. k.wait \in [Queue -> Seq(Thread)] /\ IsInjective(k.wait[q])
  BY DEF KernelInv, KernelState, ListsConsistent, WaitersOf
<1>2. h \in ToSet(k.wait[q])
  BY <1>1, SeqViews, HeadTailProperties
<1>3. /\ h \in Thread \ X /\ k.stat[h] = "SUSPEND"
      /\ [x \in Queue |-> Unlink(k.wait[x], h)] = [k.wait EXCEPT ![q] = Unlink(@, h)]
  BY <1>2, UnlinkOthers
<1>4. Unlink(k.wait[q], h) = Tail(k.wait[q]) /\ ToSet(Unlink(k.wait[q], h)) = ToSet(k.wait[q]) \ {h}
  BY <1>1, UnlinkHead, UnlinkProperties
<1>5. r = rt_thread_resume(k, h)
  BY DEF _ipc_list_resume
<1> HIDE DEF h, r
<1>6. KernelInv(r, X) /\ Keeps(r, k)
  BY <1>3, <1>5, ResumeInv
<1>7. WokeOnly(r, k, h) /\ r.err = k.err /\ r.cur = k.cur
  BY <1>3, <1>5, ResumeWaits
<1>8. r.wait = [k.wait EXCEPT ![q] = Tail(@)]
  BY <1>1, <1>3, <1>4, <1>7 DEF WokeOnly
<1>9. ToSet(r.wait[q]) = ToSet(k.wait[q]) \ {h}
  BY <1>1, <1>4, <1>8
<1> QED BY <1>2, <1>3, <1>6, <1>7, <1>8, <1>9 DEF h, r, WokeOnly

\* One turn of _ipc_list_resume_all does the same and leaves an error.
LEMMA ListResumeError ==
  ASSUME NEW k, NEW X \in SUBSET Thread, KernelInv(k, X), NEW q \in Queue, k.wait[q] # <<>>
  PROVE  LET h == Head(k.wait[q])
             r == ResumeWithError(k, q)
         IN  /\ h \in ToSet(k.wait[q]) /\ h \in Thread
             /\ KernelInv(r, X) /\ Keeps(r, k) /\ r.cur = k.cur
             /\ r.prio = k.prio /\ r.err = [k.err EXCEPT ![h] = "ERROR"]
             /\ r.wait = [k.wait EXCEPT ![q] = Tail(@)]
             /\ ToSet(r.wait[q]) = ToSet(k.wait[q]) \ {h}
             /\ Asleep(r) = Asleep(k) \ {h} /\ TimersBut(r, k, h)
<1> DEFINE h == Head(k.wait[q])
           e == [k EXCEPT !.err[h] = "ERROR"]
<1>1. k \in KernelState /\ k.wait[q] \in Seq(Thread)
  BY DEF KernelInv, KernelState
<1>2. h \in Thread
  BY <1>1, HeadTailProperties
<1>3. e \in KernelState /\ SameLists(e, k) /\ e.nest = k.nest /\ e.err = [k.err EXCEPT ![h] = "ERROR"]
  <2>1. "ERROR" \in Error
    BY DEF Error
  <2> QED BY <1>1, <1>2, <2>1 DEF KernelState, SameLists
<1>4. ResumeWithError(k, q) = rt_thread_resume(e, h)
  BY DEF ResumeWithError
<1> HIDE DEF e
<1>5. KernelInv(e, X) /\ Keeps(e, k)
  BY <1>3, FieldsInv
<1>6. _ipc_list_resume(e, q) = rt_thread_resume(e, h) /\ e.wait[q] # <<>>
  BY <1>3 DEF _ipc_list_resume, SameLists
<1> DEFINE r == _ipc_list_resume(e, q)
<1>7. /\ h \in ToSet(e.wait[q])
      /\ KernelInv(r, X) /\ Keeps(r, e) /\ r.cur = e.cur /\ r.err = e.err
      /\ r.prio = e.prio
      /\ r.wait = [e.wait EXCEPT ![q] = Tail(@)]
      /\ ToSet(r.wait[q]) = ToSet(e.wait[q]) \ {h}
      /\ Asleep(r) = Asleep(e) \ {h} /\ TimersBut(r, e, h)
  <2>1. Head(e.wait[q]) = h
    BY <1>3 DEF SameLists
  <2> DEFINE g == Head(e.wait[q])
  <2>2. /\ g \in ToSet(e.wait[q])
        /\ KernelInv(r, X) /\ Keeps(r, e) /\ r.cur = e.cur /\ r.err = e.err
        /\ r.prio = e.prio
        /\ r.wait = [e.wait EXCEPT ![q] = Tail(@)]
        /\ ToSet(r.wait[q]) = ToSet(e.wait[q]) \ {g}
        /\ Asleep(r) = Asleep(e) \ {g} /\ TimersBut(r, e, g)
    BY <1>5, <1>6, ListResume
  <2>3. g = h
    BY <2>1
  <2> HIDE DEF g, h, r
  <2> QED BY <2>2, <2>3
<1>8. r = ResumeWithError(k, q)
  BY <1>4, <1>6
<1> HIDE DEF r
<1>9. Keeps(r, k)
  BY <1>5, <1>7, KeepsTrans DEF KernelInv
<1>10. Asleep(e) = Asleep(k) /\ (TimersBut(r, e, h) => TimersBut(r, k, h))
  BY <1>3 DEF SameLists, Asleep, TimersBut
<1> QED BY <1>2, <1>3, <1>7, <1>8, <1>9, <1>10 DEF SameLists

\* A time-out takes a thread off the one suspend list it is in.
LEMMA TimeoutLeaves ==
  ASSUME NEW k, NEW X \in SUBSET Thread, KernelInv(k, X), NEW q \in Queue,
         NEW t \in ToSet(k.wait[q])
  PROVE  LET r == _thread_timeout(k, t)
         IN  /\ t \in Thread /\ KernelInv(r, X) /\ Keeps(r, k)
             /\ r.prio = k.prio /\ r.err = [k.err EXCEPT ![t] = "ETIMEOUT"]
             /\ \A x \in Queue \ {q} : r.wait[x] = k.wait[x]
             /\ \E i \in DOMAIN k.wait[q] : r.wait[q] = RemoveAt(k.wait[q], i)
             /\ ToSet(r.wait[q]) = ToSet(k.wait[q]) \ {t}
             /\ Asleep(r) = Asleep(k) \ {t} /\ TimersBut(r, k, t)
<1> DEFINE r == _thread_timeout(k, t)
<1>1. k.wait \in [Queue -> Seq(Thread)] /\ IsInjective(k.wait[q])
  BY DEF KernelInv, KernelState, ListsConsistent, WaitersOf
<1>2. /\ t \in Thread \ X /\ k.stat[t] = "SUSPEND"
      /\ [x \in Queue |-> Unlink(k.wait[x], t)] = [k.wait EXCEPT ![q] = Unlink(@, t)]
  BY UnlinkOthers
<1>3. KernelInv(r, X) /\ Keeps(r, k)
  BY <1>2, TimeoutInv
<1>4. WokeOnly(r, k, t) /\ r.err = [k.err EXCEPT ![t] = "ETIMEOUT"]
  BY <1>2, TimeoutWaits
<1> HIDE DEF r
<1>5. PICK i \in DOMAIN k.wait[q] : Unlink(k.wait[q], t) = RemoveAt(k.wait[q], i)
  <2>1. k.wait[q] \in Seq(Thread)
    BY <1>1
  <2>2. DOMAIN k.wait[q] = 1 .. Len(k.wait[q]) /\ \E i \in 1 .. Len(k.wait[q]) : k.wait[q][i] = t
    BY <2>1, SeqViews
  <2> QED BY <2>1, <2>2, UnlinkCases
<1>6. r.wait[q] = RemoveAt(k.wait[q], i) /\ \A x \in Queue \ {q} : r.wait[x] = k.wait[x]
  <2>1. r.wait = [k.wait EXCEPT ![q] = RemoveAt(@, i)]
    BY <1>1, <1>2, <1>4, <1>5 DEF WokeOnly
  <2> QED BY <1>1, <2>1
<1>7. ToSet(r.wait[q]) = ToSet(k.wait[q]) \ {t}
  <2>1. r.wait[q] = Unlink(k.wait[q], t)
    BY <1>4 DEF WokeOnly
  <2> QED BY <1>1, <2>1, UnlinkProperties
<1> QED BY <1>2, <1>3, <1>4, <1>6, <1>7 DEF r, WokeOnly

\* After a time-out the processor runs a thread that can run.
LEMMA TimeoutRuns ==
  ASSUME NEW k, NEW X \in SUBSET Thread, KernelInv(k, X), NEW t \in Thread \ X,
         k.stat[t] = "SUSPEND", k.nest = 0
  PROVE  LET r == _thread_timeout(k, t) IN r.stat[r.cur] = "RUNNING"
<1> DEFINE s == TimerStop(k, t)
           e == [s EXCEPT !.err[t] = "ETIMEOUT"]
           r == rt_schedule_insert_thread(rt_list_remove(e, t), t)
<1>1. KernelInv(s, X) /\ ~TimerArmed(s, t) /\ SameButTimers(s, k) /\ s \in KernelState
  BY TimerStopKeeps DEF KernelInv
<1>2. _thread_timeout(k, t) = rt_schedule(r)
  BY DEF _thread_timeout
<1> HIDE DEF s
<1>3. e \in KernelState /\ SameLists(e, s) /\ e.nest = s.nest
  <2>1. "ETIMEOUT" \in Error
    BY DEF Error
  <2> QED BY <1>1, <2>1 DEF KernelState, SameLists
<1> HIDE DEF e
<1>4. KernelInv(e, X) /\ e.stat[t] = "SUSPEND" /\ ~TimerArmed(e, t) /\ e.nest = 0
  BY <1>1, <1>3, FieldsInv DEF SameLists, SameButTimers, TimerArmed
<1>5. KernelInv(r, X) /\ Keeps(r, e)
  BY <1>4, WakeInv
<1> HIDE DEF r
<1> QED BY <1>2, <1>4, <1>5, ScheduleRuns DEF Keeps
-----------------------------------------------------------------------------
(* Priorities: what RT_THREAD_CTRL_CHANGE_PRIORITY leaves alone, and lists *)
(* in the order of priority                                                *)

\* RT_THREAD_CTRL_CHANGE_PRIORITY changes the priority of one thread and moves
\* it to another ready list at most.
LEMMA ChangePriorityWaits ==
  ASSUME NEW k, NEW X \in SUBSET Thread, KernelInv(k, X), NEW t \in Thread \ X, NEW p \in Prio
  PROVE  LET r == ChangePriority(k, t, p)
         IN  /\ r.wait = k.wait /\ r.err = k.err /\ r.cur = k.cur /\ r.nest = k.nest
             /\ \A u \in Thread : r.stat[u] = k.stat[u]
             /\ r.prio = [k.prio EXCEPT ![t] = p]
<1>1. k \in KernelState /\ ListsConsistent(k, X) /\ CurrentOf(k, X)
  BY DEF KernelInv
<1>2. CASE k.stat[t] # "READY"
  BY <1>1, <1>2 DEF ChangePriority, KernelState
<1>3. CASE k.stat[t] = "READY"
  <2> DEFINE l == rt_schedule_remove_thread(k, t)
             m == [l EXCEPT !.prio[t] = p]
             r == rt_schedule_insert_thread(m, t)
  <2>1. ChangePriority(k, t, p) = r
    BY <1>3 DEF ChangePriority
  <2>2. l.wait = k.wait /\ l.err = k.err /\ l.prio = k.prio /\ l.stat = k.stat
    BY <1>1, <1>3, RemoveWaits
  <2>3. l \in KernelState /\ l.cur = k.cur /\ l.nest = k.nest
    <3>1. l \in KernelState
      BY <1>1, RemoveType
    <3>2. l.cur = k.cur /\ l.nest = k.nest
      BY <1>1 DEF rt_schedule_remove_thread, rt_list_remove, KernelState
    <3> QED BY <3>1, <3>2
  <2> HIDE DEF l
  <2>4. /\ m \in KernelState /\ m.wait = k.wait /\ m.err = k.err /\ m.stat = k.stat
        /\ m.cur = k.cur /\ m.nest = k.nest /\ m.prio = [k.prio EXCEPT ![t] = p]
    BY <2>2, <2>3 DEF KernelState
  <2> HIDE DEF m
  <2>5. /\ r.cur = m.cur /\ r.nest = m.nest
        /\ \A u \in Thread : r.stat[u] = IF u # t THEN m.stat[u]
                                        ELSE IF t = m.cur THEN "RUNNING" ELSE "READY"
    BY <2>4, InsertFrame
  <2>6. r.wait = m.wait /\ r.err = m.err /\ r.prio = m.prio
    BY <2>4 DEF rt_schedule_insert_thread, KernelState
  <2> HIDE DEF r
  <2>7. t # k.cur
    BY <1>1, <1>3 DEF CurrentOf
  <2> QED BY <1>3, <2>1, <2>4, <2>5, <2>6, <2>7
<1> QED BY <1>2, <1>3

\* rt_thread_sleep: the thread is suspended with its timer running, in no list.
LEMMA SleepInv ==
  ASSUME NEW k, NEW X \in SUBSET Thread, KernelInv(k, X), NEW t \in Thread \ X,
         t = k.cur, t # Idle, k.stat[t] = "RUNNING", NEW ticks \in Nat
  PROVE  LET r == TimerStart(rt_thread_suspend([k EXCEPT !.err[t] = "EOK"], t), t, ticks)
         IN  /\ KernelInv(r, X) /\ r.cur = k.cur /\ r.nest = k.nest
             /\ r.wait = k.wait /\ r.prio = k.prio /\ r.err = [k.err EXCEPT ![t] = "EOK"]
             /\ \A u \in Thread : r.stat[u] = IF u = t THEN "SUSPEND" ELSE k.stat[u]
<1> DEFINE e == [k EXCEPT !.err[t] = "EOK"]
           s == rt_thread_suspend(e, t)
           r == TimerStart(s, t, ticks)
<1>0. k \in KernelState
  BY DEF KernelInv
<1>1. e \in KernelState /\ SameLists(e, k) /\ e.nest = k.nest /\ e.err = [k.err EXCEPT ![t] = "EOK"]
  BY <1>0 DEF KernelState, SameLists, Error
<1> HIDE DEF e
<1>2. KernelInv(e, X) /\ t = e.cur /\ e.stat[t] = "RUNNING"
  BY <1>1, FieldsInv DEF SameLists
<1>3. /\ KernelInv(s, X) /\ s.cur = e.cur /\ s.nest = e.nest
      /\ \A u \in Thread : s.stat[u] = IF u = t THEN "SUSPEND" ELSE e.stat[u]
  BY <1>2, SuspendInv
<1>4. s.wait = e.wait /\ s.err = e.err /\ s.prio = e.prio
  BY <1>2, SuspendWaits
<1> HIDE DEF s
<1>5. r \in KernelState /\ SameButTimers(r, s) /\ ListsConsistent(r, X)
  BY <1>3, TimerStartInv DEF KernelInv
<1> HIDE DEF r
<1>6. KernelInv(r, X)
  BY <1>3, <1>5 DEF KernelInv, CurrentOf, SameButTimers
<1>7. /\ r.cur = k.cur /\ r.nest = k.nest /\ r.wait = k.wait /\ r.prio = k.prio
      /\ r.err = [k.err EXCEPT ![t] = "EOK"]
      /\ \A u \in Thread : r.stat[u] = IF u = t THEN "SUSPEND" ELSE k.stat[u]
  BY <1>1, <1>3, <1>4, <1>5 DEF SameLists, SameButTimers
<1> QED BY <1>6, <1>7 DEF r, s, e

Placed(r, k, q, t, flag) ==
  r.wait[q] = InsertAt(k.wait[q], WaitPosition(k, k.wait[q], t, flag), t)

\* A blocking call queues where _ipc_list_suspend says.
LEMMA WaitOnPlace ==
  ASSUME NEW k, NEW X \in SUBSET Thread, KernelInv(k, X), NEW t \in Thread \ X,
         t = k.cur, t # Idle, k.stat[t] = "RUNNING",
         NEW q \in Queue, NEW flag, NEW timeout \in Nat \cup {Forever}
  PROVE  Placed(WaitOn(k, q, t, flag, timeout), k, q, t, flag)
<1> DEFINE e == [k EXCEPT !.err[t] = "EOK"]
           s == rt_thread_suspend(e, t)
           n == WaitPosition(s, s.wait[q], t, flag)
           w == [s EXCEPT !.wait[q] = InsertAt(@, n, t)]
           z == TimerStart(w, t, timeout)
<1>0. k \in KernelState
  BY DEF KernelInv
<1>1. e \in KernelState /\ SameLists(e, k) /\ e.nest = k.nest
  BY <1>0 DEF KernelState, SameLists, Error
<1>2. WaitOn(k, q, t, flag, timeout) = IF timeout > 0 THEN z ELSE w
  BY DEF WaitOn, _ipc_list_suspend
<1> HIDE DEF e
<1>3. KernelInv(e, X) /\ t = e.cur /\ e.stat[t] = "RUNNING"
  BY <1>1, FieldsInv DEF SameLists
<1>4. KernelInv(s, X)
  BY <1>3, SuspendInv
<1>5. s.wait = k.wait /\ s.prio = k.prio
  BY <1>1, <1>3, SuspendWaits DEF SameLists
<1> HIDE DEF s
<1>6. n = WaitPosition(k, k.wait[q], t, flag)
  BY <1>5 DEF WaitPosition
<1> HIDE DEF n
<1>7. w.wait[q] = InsertAt(k.wait[q], n, t)
  <2>1. s \in KernelState
    BY <1>4 DEF KernelInv
  <2>2. w.wait = [s.wait EXCEPT ![q] = InsertAt(@, n, t)] /\ s.wait \in [Queue -> Seq(Thread)]
    BY <2>1 DEF KernelState
  <2> QED BY <1>5, <2>2
<1>8. z.wait = w.wait
  <2>1. w.timers = s.timers /\ \A x : [w EXCEPT !.timers = x].wait = w.wait
    BY <1>4 DEF KernelInv, KernelState
  <2> QED BY <2>1 DEF TimerStart
<1> QED BY <1>2, <1>6, <1>7, <1>8 DEF Placed

\* The list w is in the order of priority.
InOrder(prio, w) == \A i, j \in DOMAIN w : i < j => prio[w[i]] <= prio[w[j]]

\* r is the list s of threads with t at place n.
InsertedAt(r, s, n, t) ==
  /\ r \in Seq(Thread) /\ Len(r) = Len(s) + 1
  /\ \A j \in 1 .. Len(s) + 1 : r[j] = IF j < n THEN s[j] ELSE IF j = n THEN t ELSE s[j - 1]

\* InsertAt does what _ipc_list_suspend does with rt_list_insert_before.
LEMMA InsertThread ==
  ASSUME NEW s \in Seq(Thread), NEW n \in 1 .. Len(s) + 1, NEW t \in Thread
  PROVE  InsertedAt(InsertAt(s, n, t), s, n, t)
<1>1. InsertAt(s, n, t) \in Seq(Thread) /\ Len(InsertAt(s, n, t)) = Len(s) + 1
  BY InsertAtType
<1>2. \A j \in 1 .. Len(s) + 1 :
        InsertAt(s, n, t)[j] = IF j < n THEN s[j] ELSE IF j = n THEN t ELSE s[j - 1]
  BY InsertAtType
<1> QED BY <1>1, <1>2, Zenon DEF InsertedAt

\* _ipc_list_suspend keeps a list of flag RT_IPC_FLAG_PRIO in order.
LEMMA QueueInOrder ==
  ASSUME NEW k \in KernelState, NEW w \in Seq(Thread), InOrder(k.prio, w), NEW t \in Thread
  PROVE  InOrder(k.prio, InsertAt(w, WaitPosition(k, w, t, "PRIO"), t))
<1> DEFINE n == WaitPosition(k, w, t, "PRIO")
           r == InsertAt(w, n, t)
           after == {i \in DOMAIN w : k.prio[t] < k.prio[w[i]]}
<1>1. n \in 1 .. Len(w) + 1 /\ Len(w) \in Nat /\ DOMAIN w = 1 .. Len(w)
  BY WaitPositionType, LenProperties
<1>2. \A u \in Thread : k.prio[u] \in Int
  BY KernelAssumption DEF KernelState, Prio
<1>3. \A i \in 1 .. Len(w) : w[i] \in Thread
  BY ElementOfSeq
<1>4. (\A i \in 1 .. n - 1 : k.prio[w[i]] <= k.prio[t]) /\ (n <= Len(w) => k.prio[t] <= k.prio[w[n]])
  <2>1. n = IF after = {} THEN Len(w) + 1 ELSE Min(after)
    BY DEF WaitPosition
  <2>2. CASE after = {}
    <3>1. \A i \in 1 .. Len(w) : ~(k.prio[t] < k.prio[w[i]])
      BY <1>1, <2>2
    <3>2. n = Len(w) + 1
      BY <2>1, <2>2
    <3> HIDE DEF n
    <3> QED BY <1>1, <1>2, <1>3, <3>1, <3>2
  <2>3. CASE after # {}
    <3>1. after \subseteq 1 .. Len(w) /\ after \subseteq Nat
      BY <1>1
    <3>2. \A i \in after : k.prio[t] < k.prio[w[i]]
      OBVIOUS
    <3>3. \A i \in 1 .. Len(w) : i \notin after => ~(k.prio[t] < k.prio[w[i]])
      BY <1>1
    <3> HIDE DEF after
    <3>4. PICK a \in after : \A b \in after : a <= b
      BY <2>3, <3>1, SmallestOf
    <3>5. n \in after /\ \A b \in after : n <= b
      BY <2>1, <2>3, <3>4 DEF Min
    <3> HIDE DEF n
    <3>6. \A i \in 1 .. n - 1 : i \in 1 .. Len(w) /\ i \notin after
      BY <1>1, <3>1, <3>5
    <3> QED BY <1>1, <1>2, <1>3, <3>1, <3>2, <3>3, <3>5, <3>6
  <2> QED BY <2>2, <2>3
<1> HIDE DEF n
<1>5. /\ r \in Seq(Thread) /\ Len(r) = Len(w) + 1
      /\ \A j \in 1 .. Len(w) + 1 : r[j] = IF j < n THEN w[j] ELSE IF j = n THEN t ELSE w[j - 1]
  <2>1. InsertedAt(r, w, n, t)
    BY <1>1, InsertThread, Zenon
  <2> HIDE DEF r
  <2> QED BY <2>1 DEF InsertedAt
<1>6. DOMAIN r = 1 .. Len(w) + 1
  BY <1>5, LenProperties
<1> HIDE DEF r, after
<1>7. \A i, j \in 1 .. Len(w) : i < j => k.prio[w[i]] <= k.prio[w[j]]
  BY <1>1 DEF InOrder
<1>8. ASSUME NEW i \in 1 .. Len(w) + 1, NEW j \in 1 .. Len(w) + 1, i < j
      PROVE  k.prio[r[i]] <= k.prio[r[j]]
  <2>1. CASE j < n
    BY <1>1, <1>5, <1>7, <1>8, <2>1
  <2>2. CASE j = n
    <3>1. r[i] = w[i] /\ r[j] = t /\ i \in 1 .. n - 1
      BY <1>1, <1>5, <1>8, <2>2
    <3> QED BY <1>4, <3>1
  <2>3. CASE j > n
    <3>1. r[j] = w[j - 1] /\ j - 1 \in 1 .. Len(w) /\ n \in 1 .. Len(w)
      BY <1>1, <1>5, <1>8, <2>3
    <3>2. CASE i < n
      <4>1. r[i] = w[i] /\ i \in 1 .. Len(w) /\ i < j - 1
        BY <1>1, <1>5, <1>8, <2>3, <3>2
      <4> QED BY <1>7, <3>1, <4>1
    <3>3. CASE i = n
      <4>1. r[i] = t /\ k.prio[t] <= k.prio[w[n]]
        BY <1>1, <1>4, <1>5, <3>1, <3>3
      <4>2. k.prio[w[n]] <= k.prio[w[j - 1]]
        <5>1. CASE n = j - 1
          BY <1>2, <1>3, <3>1, <5>1
        <5>2. CASE n < j - 1
          BY <1>7, <3>1, <5>2
        <5> QED BY <1>1, <2>3, <3>1, <5>1, <5>2
      <4>3. k.prio[t] \in Int /\ k.prio[w[n]] \in Int /\ k.prio[w[j - 1]] \in Int
        BY <1>2, <1>3, <3>1
      <4> QED BY <3>1, <4>1, <4>2, <4>3
    <3>4. CASE i > n
      <4>1. r[i] = w[i - 1] /\ i - 1 \in 1 .. Len(w) /\ i - 1 < j - 1
        BY <1>1, <1>5, <1>8, <3>4
      <4> QED BY <1>7, <3>1, <4>1
    <3> QED BY <1>1, <3>2, <3>3, <3>4
  <2> QED BY <1>1, <2>1, <2>2, <2>3
<1> QED BY <1>6, <1>8 DEF InOrder, r, n

\* A list in order stays in order when a thread leaves.
LEMMA LeaveInOrder ==
  ASSUME NEW prio, NEW w \in Seq(Thread), InOrder(prio, w), NEW t
  PROVE  InOrder(prio, Unlink(w, t))
<1>1. CASE Unlink(w, t) = w
  BY <1>1
<1>2. CASE \E i \in 1 .. Len(w) : Unlink(w, t) = RemoveAt(w, i)
  <2>1. PICK i \in 1 .. Len(w) : Unlink(w, t) = RemoveAt(w, i)
    BY <1>2
  <2> DEFINE r == Unlink(w, t)
  <2>2. /\ r \in Seq(Thread) /\ Len(r) = Len(w) - 1 /\ Len(w) \in Nat
        /\ \A j \in 1 .. Len(w) - 1 : r[j] = IF j < i THEN w[j] ELSE w[j + 1]
    <3>1. /\ RemoveAt(w, i) \in Seq(Thread) /\ Len(RemoveAt(w, i)) = Len(w) - 1
          /\ \A j \in 1 .. Len(w) - 1 : RemoveAt(w, i)[j] = IF j < i THEN w[j] ELSE w[j + 1]
      BY RemoveAtType
    <3>2. Len(w) \in Nat
      BY LenProperties
    <3> QED BY <2>1, <3>1, <3>2, Zenon
  <2> HIDE DEF r
  <2>3. DOMAIN r = 1 .. Len(w) - 1 /\ DOMAIN w = 1 .. Len(w)
    BY <2>2, LenProperties
  <2>4. ASSUME NEW a \in 1 .. Len(w) - 1, NEW b \in 1 .. Len(w) - 1, a < b
        PROVE  prio[r[a]] <= prio[r[b]]
    <3> DEFINE c == IF a < i THEN a ELSE a + 1
               d == IF b < i THEN b ELSE b + 1
    <3>1. r[a] = w[c] /\ r[b] = w[d]
      BY <2>2
    <3>2. c \in 1 .. Len(w) /\ d \in 1 .. Len(w) /\ c < d
      BY <2>2, <2>4
    <3> HIDE DEF c, d
    <3> QED BY <2>3, <3>1, <3>2 DEF InOrder
  <2> QED BY <2>3, <2>4 DEF InOrder, r
<1> QED BY <1>1, <1>2, UnlinkCases
=============================================================================
