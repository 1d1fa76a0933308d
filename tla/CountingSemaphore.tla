-------------------------- MODULE CountingSemaphore --------------------------
(***************************************************************************)
(* What rt_sem_take and rt_sem_release promise, without scheduler, timers  *)
(* or interrupts: a token is in the count or has been given to one waiter, *)
(* and a waiter leaves the queue with a token or without one, never twice. *)
(***************************************************************************)
EXTENDS Integers, Sequences, SequencesExt

CONSTANTS Client, InitCount, MaxCount

VARIABLES count,    \* the tokens anybody may take
          queue,    \* the clients that wait, the next to be served first
          served    \* the clients that have been given a token and not left

Init == count = InitCount /\ queue = <<>> /\ served = {}

\* A token is taken at once.
Take == count > 0 /\ count' = count - 1 /\ UNCHANGED <<queue, served>>

\* There is no token: the client waits, somewhere in the queue.
Enqueue(c) ==
  /\ count = 0
  /\ c \notin ToSet(queue) \cup served
  /\ \E i \in 1 .. Len(queue) + 1 : queue' = InsertAt(queue, i, c)
  /\ UNCHANGED <<count, served>>

\* A client gives up or is turned away.
GiveUp ==
  /\ \E i \in DOMAIN queue : queue' = RemoveAt(queue, i)
  /\ UNCHANGED <<count, served>>

\* A token is put back: it goes to the first client in the queue, or is kept.
Post ==
  \/ /\ queue # <<>>
     /\ served' = served \cup {Head(queue)}
     /\ queue' = Tail(queue)
     /\ UNCHANGED count
  \/ /\ queue = <<>> /\ count < MaxCount
     /\ count' = count + 1
     /\ UNCHANGED <<queue, served>>

\* A client leaves with its token.
Depart(c) == c \in served /\ served' = served \ {c} /\ UNCHANGED <<count, queue>>

\* The semaphore is set anew when nobody waits.
Reset ==
  /\ queue = <<>>
  /\ count' \in 0 .. MaxCount
  /\ UNCHANGED <<queue, served>>

Next ==
  \/ Take \/ GiveUp \/ Post \/ Reset
  \/ \E c \in Client : Enqueue(c) \/ Depart(c)

Spec == Init /\ [][Next]_<<count, queue, served>>
=============================================================================
