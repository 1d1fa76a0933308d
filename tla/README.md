# A formal model of the RK3576 RT-Thread system

The repository is a board support package for the RK3576: the RT-Thread 4.1.1
kernel (`rt-thread/src`), its device framework and network components, and the
board's own drivers (`driver/`). `rtconfig.h` selects a uniprocessor kernel
(no `RT_USING_SMP`), 32 priorities, soft timers, all five IPC services, memory
pool, small memory and memory heap, the serial and pin frameworks, the system
work queue and lwIP. The models follow that configuration.

## Inventory

| part | state | operations | what is hard | what makes it correct |
|---|---|---|---|---|
| scheduler (`scheduler.c`) | ready lists, priority bitmap, current thread, lock count | `rt_schedule`, insert, remove, `rt_enter_critical`, `rt_exit_critical` | called by threads and by every interrupt handler | lists, bitmap and states agree; the most urgent thread runs; equal threads share; the lock keeps the processor |
| threads (`thread.c`) | state, priority, slice, error, timer of each thread | startup, yield, sleep, suspend, resume, control, exit, detach, delete, timeout | checks and list operations in different interrupt-disabled sections | a timer runs only for a suspended thread; an ended thread stays ended |
| idle (`idle.c`) | list of defunct threads | enqueue, dequeue, release | releases memory another thread may still use | nothing refers to a released thread |
| tick (`clock.c`) | tick counter, time slices | `rt_tick_increase` | interrupts every sequence of steps | slices rotate equal threads |
| timers (`timer.c`) | two ordered lists, flags, soft timer thread | start, stop, control, check, soft check | 32-bit wrap-around, a callback that stops or restarts its own timer, the soft timer thread going to sleep while a timer is started | a timer fires once per period, never early, and not after it was stopped |
| IPC (`ipc.c`) | value or buffer and a list of waiting threads per object | take/release, send/recv with timeout, delete, reset | timeouts and wake-ups racing, waiters woken for what another thread takes first, priority inheritance | no token, message or flag is lost or duplicated; one owner; the owner is as urgent as its waiters |
| memory (`mem.c`, `memheap.c`, `mempool.c`) | block lists, free lists | alloc, free, realloc | split and merge at the ends of the heap; waiting for a block | blocks tile the heap, no two free neighbours, each block has one owner |
| objects and devices (`object.c`, `device.c`) | containers, reference counts | init, detach, find, open, close | iteration while objects come and go | counts match the opens |
| work queue (`components/drivers/ipc/workqueue.c`) | two lists, the running work, flags and a soft timer per work | submit, urgent, delayed, cancel, cancel and wait, cancel all | the timer's callback, the worker and callers change the same lists; the timer is started after the lock is given up | every accepted submission starts once, none after it was cancelled, waiters are woken |
| completion (`completion.c`) | flag, one waiter | wait, done | done before wait | no completion is lost |
| Ethernet MAC (`driver/gmac`) | two descriptor rings, indices, link state | transmit, receive, interrupt, link monitor, close | the DMA engine shares the rings without a lock; a time-out gives up a descriptor the engine still owns | each buffer belongs to one side, frames whole and in order |
| Ethernet threads (`ethernetif.c`) | two mailboxes, `rx_notice`, `link_changed` | erx, etx, `eth_device_ready`, `eth_device_linkchange`, `ethernetif_linkoutput` | flags tested without a lock; full mailboxes; messages that live on the sender's stack | no frame or link change is overlooked, no message is used after its sender returned |
| data queue, ring buffer, pipe, wait queue | buffers and waiters | push, pop, wait | | not used by this board's drivers |
| UART, GPIO, IOMUX, CRU (`driver/`) | registers | configure, put, get, interrupt | little | the right bits are written |
| everything else (lwIP, SAL, finsh, DFS, slab, signals, SMP, port) | | | third party, not enabled, or assembly | not modelled |

A section of C code between `rt_hw_interrupt_disable()` and
`rt_hw_interrupt_enable()` is atomic on one processor. Everything between two
such sections can be interrupted by the tick or a device, whose handler may
wake a thread and switch to it. That is the step structure of every model here:
one action per interrupt-disabled section, with the tick and other interrupts
as actions that are enabled in between.

## Modules

| module | stands for | kind |
|---|---|---|
| `Kernel` | the state of the kernel as one record `k`, and the internal routines as operators from record to record | operators |
| `Processor` | one processor executing the current thread, the tick interrupt, sleep, `_ipc_list_resume_all` | steps shared by all services |
| `Scheduler` | the calls of `thread.c`, `scheduler.c`, `idle.c` | specification |
| `Lists` | `rt_list_remove` on a list given as a sequence | operator |
| `Semaphore`, `Mutex`, `Event` | the services of `ipc.c` | specifications |
| `Exchange` | the blocking loop that mailbox and message queue share | steps |
| `Mailbox`, `MessageQueue` | the ring; the linked blocks | specifications |
| `Timer` | `timer.c`: hard and soft timers, the timer thread | specification |
| `GmacReceive`, `GmacTransmit` | the two directions of the Ethernet driver with the threads of `ethernetif.c` and the DMA engine | specifications |
| `WorkQueue` | `workqueue.c` | specification |
| `CountingSemaphore`, `BoundedFifo`, `Alarm` | what a semaphore; a mailbox, queue or descriptor ring; a timer promise | abstract specifications |
| `MC*` | small instances | for TLC |
| `ListLemmas`, `KernelLemmas` | lists without repetition; the routines of `Kernel` | lemmas |
| `SchedulerProofs`, `SemaphoreProofs`, `MutexProofs`, `ExchangeProofs`, `EventProofs` | theorems about the specification of the name (`ExchangeProofs`: mailbox and message queue) | proofs |
| `ServiceProofs` | theorems about `Timer`, `WorkQueue`, `GmacTransmit`, `GmacReceive` | proofs |

**Kernel.** Fields of `k` and the C variables they stand for are listed at the
head of the module. `table[p]` is the ready list of priority `p` and `group` the
bitmap; both are kept, because the code updates them separately and a
disagreement is what would crash it. A thread has a single list node, `tlist`,
so `rt_list_remove(k, t)` takes it out of whatever list it is in. Thread timers
are a sequence in the order of the timer list, each with the ticks it has left:
`rt_timer_start` inserts behind timers of the same time-out, as the code does.
`rt_schedule`, `rt_thread_suspend`, `rt_thread_resume`, `_thread_timeout`,
`_ipc_list_suspend`, `_ipc_list_resume` carry the names of the functions they
translate. `KernelInv(k, X)` says what holds of the record whenever interrupts
are enabled; `X` is the set of threads that `rt_thread_delete` has unlinked and
not yet marked closed.

**Processor.** `isr` is `"none"` while interrupts are enabled, `"check"` inside
`rt_timer_check` (which fires one timer per step, each calling `rt_schedule`),
and `"masked"` where an interrupt-disabled section contains a loop that is
modelled turn by turn. `pc[t]` is where thread `t` is in its code; only
`k.cur` executes. An interrupt handler that switches threads does so by changing
`k.cur`; the thread it displaced goes on later from its `pc`. A call that ends
in `rt_schedule()` after enabling interrupts is therefore two steps, with
everything that can happen in between.

**Scheduler.** One action per call: startup, yield, sleep and wake-up, suspend,
resume, lock and unlock, priority change, exit, delete, release by the idle
thread, resume by an interrupt handler. `Delete`/`DeleteEnd` and
`ResumeCheck`/`ResumeEnd` are two steps because the code enables interrupts in
between. The caller's duties are guards: nobody uses a thread that is being
deleted or has been released (`Usable`), and blocking calls are made with the
scheduler unlocked. `Startup` is one step although `rt_thread_startup` sets the
state and calls `rt_thread_resume` with interrupts enabled: in between the thread is
in no list and has no timer, and using it before it is started is against the
caller's duty. `Calls` selects the calls an instance makes;
`"delete_timed"` lets a thread whose timer runs be deleted and `"resume_open"`
lets `rt_thread_resume` be called with interrupts enabled.

**Semaphore, Mutex, Event.** Each adds the fields of its object and, as history,
what the callers have been told: `tokens` (put in and not yet returned to a
caller), `holds` (takes that succeeded and were not released), `owed` (flags set
and not yet returned to a clearing receiver). The properties relate the two. A
take or receive that blocks is `WaitOn`, a step for `rt_schedule()`, and a step
for the return with `thread->error`. `rt_sem_trytake`, `rt_mutex_trytake` are
takes with time-out 0. An object that is being deleted is used by nobody but its
waiters, and (except in `SemaphoreDelete.cfg`) no waiter's timer runs. The loop of
`rt_event_send` over the waiters is modelled turn by turn with interrupts disabled
(`isr` is `"masked"`, or `"send"` when an interrupt handler is the caller): `n` is
the waiter it looks at next, and the flags of a clearing waiter leave `set` at its
turn, as the code does it.

**Exchange, Mailbox, MessageQueue.** `call[t]` holds the locals that survive a
wait: message, time-out, ticks since the timer was started. The loop is entered
again through `SendAgain`/`RecvAgain` (`Mq...` in `MessageQueue`) with what `Remaining` leaves of the
time-out. `due` is history: the ticks until the deadline the caller asked for.
In `MessageQueue` the copying between the two interrupt-disabled sections of a
call is a step of its own (`Fill`; the copy out is the step `FreeBlock` ends),
with the block on no list and in `msg[t]`. Message lengths are left out.

**Timer.** Ticks count modulo `2 * Half + 2`, as `rt_tick` does modulo 2^32 with
`Half = RT_TICK_MAX / 2`; "due" and "later" are the comparisons of the code, so
wrap-around is in the model (`Half` is at least 2, or no timer has a time it can be
given). `mode` says who has interrupts disabled over
several steps: the tick handler in the loop of `rt_timer_check`, a hard callback,
or the soft loop from the return of a callback to its next test. `tmp` is the
local list through which both loops find out that a callback stopped, restarted
or deleted its own timer. The sleep of the timer thread is itself a hard timer.
Calls come from threads, interrupt handlers and callbacks at every point where
interrupts are enabled; `rt_timer_stop` is two steps, because it tests the flag
first. A soft timer may also be started while the timer thread is between reading
its list and sleeping, and a timer may be made one-shot while its callback runs; the
history variables `overlooked`, `turned` and `stale` record it (see below). The other models use thread timers
only, as countdowns in `Kernel`.

**GmacReceive, GmacTransmit.** Every access to a descriptor is a step of its own,
because the engine takes no lock. The engine is external and modelled by how the
driver uses it: it works on the descriptor it is at while the OWN bit is set,
gives it back, goes on to the next, halts when there is none, and is set going
by a write of the tail pointer. A buffer that is being filled holds `Torn`. The
polling loops of `rk3576_gmac_dma_transmit` are one step that either sees the
bit cleared or gives up, so the engine can be arbitrarily slow. `gmac_isr` is two
steps, reading the status and writing it back, which also clears what was raised
in between. `gmac_device_close` disables the interrupts in one step and stops the
engine in a later one. `tx_lock` is left out: only the etx thread transmits, so
`rk3576_gmac_dma_transmit` always finds it free and releases it on every return. A sender's message is its `buf` while `sender_at[s] # "idle"`.

**WorkQueue.** The lists, the flags and the `workqueue` field of each work are
kept apart, because the code sets them apart: `rt_workqueue_urgent_work` sets
neither flag nor field, and the start of a delayed work's timer follows after the
lock was given up. `starting` counts, for each work, the submitters that still have
to start its timer (at most `MaxStarts`). A timer that was detached before its
submitter comes to start it fails the assertion of `rt_timer_start` (`stuck`), or is
started all the same when the submitter had passed the assertion. The timer's
callback is three steps (expiry, the assertion on the field, the body). Two
simplifications: the loop of `_workqueue_work_completion`, which releases the
semaphore until nobody waits, is one step, since it runs with the scheduler locked
and only threads take the semaphore; and `rt_timer_init` of a timer that is still
linked, which a late start can bring about, stops that timer in the model, and
the harm to the list of timers is left out.

## Runs

| run | instance | shows |
|---|---|---|
| `scheduler` | 2 threads and idle, different priorities, all calls, lock nesting 2, sleeps up to 2 ticks | `SchedulerInv` (the inductive invariant of the proofs, with the types), `FreedUnreachable`, `LockedKeepsProcessor` |
| `preempt` | 3 threads, two of equal priority, and idle; sleep, yield, resume with interrupts enabled, device interrupts | `HighestRuns`, `ReadyTable`; and under fairness `SharesProcessor` |
| `roundrobin3` | 3 threads of equal priority, slices of one tick | **violation** of `SharesProcessor` |
| `semaphore` | 3 threads of two priorities and idle, PRIO order, values up to 2, time-outs {for ever, 0, 1}, device, reset, delete | `SemaphoreInv`: types, nobody waits while there are tokens, tokens are conserved; refinement of `CountingSemaphore`; under fairness `WaitersServed` |
| `mutex` | 3 threads of three priorities and idle, one mutex, recursion 2, time-outs, sleep while owning, delete | `MutexInv`: types, mutual exclusion, the owner field names who holds it; `OwnerAsUrgent`, `PriorityRestored`; under fairness `InversionBounded` |
| `event` | 2 threads and idle, 2 flags, AND/OR and CLEAR in every combination, device, reset, delete | `EventInv`: types, nobody waits for flags that are set; `ReceivesWhatWasAsked`, `FlagsConserved` |
| `mailbox` | 2 threads and idle, 2 slots, 2 messages, time-outs {for ever, 0, 2}, urgent, device, reset, delete | `MailboxInv`: types, `RingInv`, no lost wake-up of receivers or senders; `DeadlineKept`, refinement of `BoundedFifo` |
| `message_queue` | 2 threads and idle, 2 blocks, 2 messages, time-outs {for ever, 0, 1}, the same calls | `MessageQueueInv`: types, every block in one place, no lost wake-up; `CopiesIntact`, refinement of `BoundedFifo` (`MqImplementsFifo`) |
| `timer` | one hard and one soft timer of 1 or 2 ticks, one-shot or periodic, the counter wraps every 8 ticks; start, stop, detach, re-init, control at every point, a callback that waits | `ListsSound`, `SleepsNoLonger`, refinement of `Alarm` (never early, in order, not after a stop, on a clock that does not wrap); under fairness `SoftServed` |
| `gmac_receive` | 2 descriptors, a mailbox of 1, good and bad frames, failing allocation, close, link changes | `Noticed`, `EngineGoesOn`, `LinkKnown`, refinement of `BoundedFifo`; under fairness `Drained` |
| `gmac_transmit` | 2 senders, 2 descriptors, a mailbox of 1, frames too long, link changes, an engine that may stop for ever | `MessagesLive`, `EokSent`, `InStep`, refinement of `BoundedFifo` with one place; under fairness `Returns` |
| `workqueue` | 2 works, 2 callers of the synchronous cancel, 2 submitters per work about to start its timer | `QueueSound`, `SyncWoken`, `StartsAccepted`; under fairness `AcceptedRuns` |

**Why the bounds are enough to be interesting.** Two threads and the idle thread
give a caller, a victim or waiter, and somebody to run meanwhile; a third thread
is added where order among waiters or inheritance matters. Time-outs of one tick
expire in the middle of every call; two ticks are used where the remaining time
is recomputed. Two slots or blocks make full, half full, empty and both
wrap-arounds. The value limit 2 stands for `RT_SEM_VALUE_MAX`, so that a release
at the limit happens; `HoldMax` likewise. `MaxNest` and `MaxSleep` bound the lock
nesting and sleeps. Two descriptors let the engine and the driver be at the same
and at different ones, and the ring be full and empty; a mailbox of one entry is
full whenever it holds anything. In `Timer`, `Half = 3` is the least for which a
timer of two ticks and a timer thread that is late by one tick (`MaxHeld`) stay
within half the range, as the code needs it; `FewChanges` fixes the time of the hard
timer and lets it be one-shot only beside a soft timer like it, so that the run
stays short (an instance with two soft timers was explored as well, without an
error). `MaxStarts = 2` lets one submitter be overtaken by another; where calls
crossed a timer, `FewMixed` leaves out the calls that wait and those that cancel
everything, and ends a behaviour at a failed assertion. Deadlock is checked in
every run.

`VIEW` in some configurations identifies states that differ only in memory nobody
reads (the error and event fields a finished call left, free slots and blocks,
the deadline of a timer that does not run, a buffer that is the engine's, what was
accepted before calls crossed a timer); the `MC` modules say which.

**What the properties exempt.** Situations in which the code promises less are
recorded by a history variable, so that the properties say exactly how far the
promise goes. All but `late` and `stale` have a configuration that shows the loss
itself (below).

* `cut` (`GmacReceive`): the loop of the erx thread ends when
  `rk3576_gmac_dma_receive` returns no frame, also when it dropped one that was
  bad or found no memory. Frames behind it wait for the next interrupt.
* `late` (`GmacTransmit`): a transmit gave up after a second a descriptor it had
  handed over, and `tx_index` did not advance. If the engine sends the frame later
  it is one descriptor ahead: frames are then handed over where it does not look,
  and every later transmit times out. That no frame is overwritten, sent twice or
  wrongly reported as sent holds all the same (`TxImplementsFifo`, `EokSent`).
  Nothing in the repository says that a transmit after a time-out succeeds, so there
  is no claim to refute.
* `overlooked` (`Timer`): soft timers that were started when the timer thread had
  looked at its list and was not asleep yet. It does not see them until it looks
  again. `SleepsNoLonger` and `SoftServed` promise nothing of these timers, and
  everything of the others, also while there are some.
* `stale` (`Timer`): an overlooked timer is later than any other can be. Ticks are
  compared modulo their range, so from some lateness on the timer counts as not yet
  due, and new timers are put behind it or before it wrongly. The soft list, and
  with it the alarms, are promised nothing from then on; the hard list stays in
  order. `stale` is never reset, and `CONSTRAINT Fresh` ends a behaviour there.
* `turned` (`Timer`): timers that were made one-shot while their callback ran. They
  stay activated without being in a list.
* `lost` (`WorkQueue`): a delay that ends while the same work runs has no effect,
  and a work that was put into the list urgently while it runs leaves it again
  when it is refused.
* `"late"` in `sync` (`WorkQueue`): a caller of the synchronous cancel that begins to
  wait after the work has ended.
* `mixed` (`WorkQueue`): a work is submitted without delay while it is delayed, or
  is cancelled or submitted with a delay while a submitter still has to start its
  timer or the callback of its timer is on its way (`InTransit`). The callback may
  then find no queue and fail its assertion, a submitter may start a timer that is
  gone, or the work may run a second time. `StartsAccepted`, `AcceptedRuns` and the
  last lines of `QueueSound` promise nothing from there on; the rest of `QueueSound`
  and `SyncWoken` do.

**Fairness.** The tick keeps coming and its handler finishes (the timer hardware
raises it; interrupts are never disabled for ever). A thread that is given the
processor again and again while it is inside a call gets on with that call: the
processor executes its instructions between two interrupts. Only strong fairness
says this, because each interrupt disables the step for a moment. In `Semaphore`
a device keeps releasing; in `Mutex` a thread that owns a mutex and keeps
getting the processor releases it for good. Nothing obliges a thread to make any
other call, and nothing keeps a thread of middle priority from running for ever.
In `Timer` what a callback waits for happens. In `GmacReceive` the interrupt is
served and the erx and PHY threads finish what they began, and no frame and no
link change needs to come; in `GmacTransmit` nothing is asked of the engine, so
the bound of a second is what makes `Returns` true. In `WorkQueue` works return,
timers expire, and no interrupt handler keeps `rt_workqueue_cancel_all_work` in
its loop by submitting for ever. Where conditions are written
`[]<>P => []<><<A>>_vars`, `P` is the enabling condition of `A`: it is the formula
`SF_vars(A)`, which TLC evaluates faster than `ENABLED`.

## Where the code falls short

`roundrobin3` is a run: `rt_schedule` clears the YIELD flag of the thread it
switches from before `rt_schedule_insert_thread` looks at it. A thread whose slice
ran out therefore goes to the head of its list, and with three threads of equal
priority two alternate for ever. With two it does not matter (`preempt`).

Further configurations reproduce what the passing runs exclude by a guard or
exempt by a history variable. Each checks one property that states what a comment, a
description or an assertion of the code says, and ends with the violation named:

| configuration (module) | violates | because |
|---|---|---|
| `DeleteRace.cfg` (`MCScheduler`) | `DefunctNotReady` | `rt_thread_delete` and `rt_thread_detach` unlink the thread and stop its timer in two sections; a time-out in between makes the thread both ready and defunct |
| `SemaphoreDelete.cfg` (`MCSemaphore`) | `ResumesWaiter` | `_ipc_list_resume_all` tests its list with interrupts enabled; if the only waiter times out before the section begins, the list head is taken for a thread |
| `MutexNested.cfg` (`MCMutex`) | `InversionBounded` | the original priority is kept per mutex, so the release of an inner mutex gives away what was inherited through the outer one |
| `MutexRestore.cfg` (`MCMutex`) | `PriorityRestored` | releases out of nesting order leave a thread with a priority it was lent |
| `TimerWindow.cfg` (`MCTimer`) | `NoSoftTimer` | a soft timer started between the timer thread's look at an empty list and its suspension does not wake it, and the thread sleeps without limit, although "no software timer exist, suspend self." (`timer.c:803`) |
| `TimerOneShot.cfg` (`MCTimer`) | `ActivatedRuns` | a periodic timer that is made one-shot while its callback runs stays activated, reported as "start and run" (`timer.c:600`), and is in no list |
| `GmacReceiveAll.cfg` (`MCGmacReceive`) | `AllReceived` | a dropped frame ends the loop that should "receive all of buffer" |
| `WorkAssert.cfg` (`MCWorkQueue`) | `CallbackFindsQueue` | the timer's callback reads the queue of its work unlocked, after a call has cleared it, and asserts that it is set (`workqueue.c:186`) |
| `WorkStart.cfg` (`MCWorkQueue`) | `StartsLiveTimer` | a submitter starts the timer after it has enabled interrupts; by then a cancellation, or the expiry of a second submitter's start, may have detached it, and `rt_timer_start` asserts that it is a timer (`timer.c:419`) |
| `WorkLost.cfg` (`MCWorkQueue`) | `DelayDelivers` | a work whose delay ends while it runs is dropped, though the ticks are "the delay ticks for the work item to be submitted to the work queue" (`workqueue.c:320`) |
| `WorkSync.cfg` (`MCWorkQueue`) | `BlocksUntilDone` | the synchronous cancel tests unlocked whether the work runs and waits although it has ended; it should "block until it is done" (`workqueue.c:393`) |

`WorkAssert.cfg` is constrained to behaviours in which every timer is started before it
can be detached (`StartsUndisturbed`), so that the counterexample is the callback's own
race and not what `WorkStart.cfg` shows.

`rt_thread_resume` has a race of the first kind (the state is checked before
interrupts are disabled); `preempt` runs with it and shows that the ready table
survives.

## Proofs

`ListLemmas` has the facts about sequences without repetition that every list of
the kernel needs. `KernelLemmas` proves, for every record that satisfies
`KernelInv(k, X)`, that each routine of `Kernel` preserves it (or establishes it
for the `X` that the routine leaves behind): list insertion and removal,
`rt_schedule`, suspend, resume, time-out, timer start and stop, tick, close,
priority change, start-up. It also says what a routine does to those who are
asleep (`SleepInv`: whom a time-out, a resume or a wait adds or removes, and from
which list) and to the order of a list by priority (`QueueInOrder`,
`LeaveInOrder`), which is what the services rest on. The assumptions are those of `Kernel`: finitely many
threads, an idle thread of the lowest priority that is started, positive time
slices.

`SchedulerProofs` proves, for any threads, priorities, slices, sleeps and
nesting depth, under the proviso `Orderly` (no thread with a running timer is
deleted, and `rt_thread_resume` runs with interrupts disabled; `DeleteRace.cfg`
shows that the first is needed):

* `SchedulerCorrect`: `Spec => []SchedulerInv`, one step per action.
  `ReadyTable` alone is not inductive. One also needs that timers, suspend lists
  and the defunct list hold only threads of the matching state (or a time-out
  would put a ready thread in a list twice), that the current thread is in no
  list, that the idle thread is always runnable (or `rt_schedule` would find
  nothing), that two deletions never have the same victim, and that a thread
  which is not RUNNING keeps the processor only on its way to `rt_schedule()`
  with the scheduler unlocked.
* `SchedulerTypeOK`, `SchedulerReadyTable`, `SchedulerTimers`, `SchedulerFreed`
  follow from it; `SchedulerLock` and `SchedulerClosed` are action properties
  proved from it step by step.
* `SchedulerHighest`: `HighestRuns`, where no call changes a priority
  (`rt_thread_control` makes a ready thread more urgent and does not call
  `rt_schedule`). The invariant is `BestInv`: no ready priority is more urgent than
  the current thread's unless the scheduler is locked or the current thread is on
  its way to `rt_schedule()`. Nothing is said of interrupts, because every routine
  that a handler ends in calls `rt_schedule` itself; `rt_exit_critical` is the step
  at which everything that was put off under the lock must be made good.

`SemaphoreProofs` proves for any threads, priorities, time-outs, order of the
waiters and limit of the value:

* `SemaphoreCorrect`: `Spec => []SemaphoreInv`. What makes it inductive is that
  exactly the threads in the suspend list are asleep, each inside `rt_sem_take` and
  with `RT_EOK` in its error field (`WaitersAsleep`). A waiter that a time-out, a
  reset or a deletion takes off the list therefore has an error and is not counted
  among `Granted`, and one that a release takes off has none and is: this is how
  tokens are conserved when the two meet.
* `SemaphoreCounts`: `Spec => ImplementsCounting`, the refinement of
  `CountingSemaphore`, one abstract step or none per action.

`MutexProofs` proves for any threads, priorities, time-outs and number of mutexes:

* `MutexCorrect`: `Spec => []MutexInv`, for all calls, nested takes and deletion
  included. `WaitInv` says where every sleeping thread is in its code; `OwnInv`
  adds to mutual exclusion that a thread which has been handed a mutex and has not
  returned yet owns it with one hold (`GrantsKept`), and that an owner has a
  priority to go back to and does not wait for its own mutex (`OwnersLend`).
* `MutexInherits`, `MutexRestores`: `OwnerAsUrgent` and `PriorityRestored`, where
  no owner takes a second mutex (`MutexNested.cfg` and `MutexRestore.cfg` show that
  the proviso is needed). `OwnerAsUrgent` is preserved by a hand-over only because
  the waiters are queued by priority (`WaitersInOrder`), also after a waiter in the
  middle timed out; `PriorityRestored` only because `original_priority` is the
  owner's own (`OwnPriority`) and a waiter owns nothing (`WaitersOwnNone`), so that
  nobody's priority changes while it is queued. Who deletes a mutex while it is
  lent a priority keeps that priority; `OwnPriority` leaves this thread out.

`ExchangeProofs` begins with the loop that mailbox and message queue share
(`ExchangeInv(n, room)`, with `n` messages and `room` places that may change): the
wake-ups and the deadlines are kept by every step that changes the two amounts and
wakes as it says. Each service then only has to show which amounts its steps
change. For a **mailbox** of any size, with any threads, messages and time-outs:

* `MailboxRing`: `Spec => []RingInv`. The invariant adds that the message a
  thread inside a send carries is a message (`CallInv`); that is what makes every
  slot of the stretch hold one.
* `MailboxFifo`: `Spec => ImplementsFifo`. Every step either leaves the ring
  alone or is one of put, put first, get, reset; for each, the sequence read off
  the ring changes as `BoundedFifo` says. The kernel's state matters only
  through `CallInv`, so this part needs no lemma about the kernel.
* `MailboxCorrect`: `Spec => []MailboxInv`, that is `ReceiversWoken` and
  `SendersWoken` beside the ring and the types. Both are a balance: while somebody
  waits, what is there is at most as much as those on their way will fetch. It is
  kept because a send or a reception that changes the count also takes one thread
  off the other list, if there is one, and because a woken thread that comes too
  late waits only where it found nothing. As for the semaphore it must be known
  that exactly the threads in the two lists are asleep, with no error.
* `MailboxDeadlines`: `Spec => []DeadlineKept`. The call's own clock (`since`) and
  the caller's deadline (`due`) run down together (`CallTimes`), so what
  `Remaining` leaves is the time until the deadline.

For a **message queue** (`MqSpec`) with any finite set of blocks:

* `MessageQueueCorrect`: `MqSpec => []MessageQueueInv`. What the code keeps is a set of
  pointers; the invariant (`MqState`) says that there are two sequences of blocks
  without repetition that `head` and `free` lead through along `next` (`IsChain`), that
  `tail` and the count describe the first, and that every block is in exactly one of
  the two or with exactly one thread (`BlocksInv`). A thread has a block exactly
  between the two sections of its call, and a block about to be linked as the last one
  ends a list already (`CopyInv`: that `Fill` clears `next` is what keeps the free list
  off the queue). That following `next` step by step gives back the sequence
  (`ChainIs`) is proved by looking at the first place where the two would
  differ, since induction theorems cannot be used here. `MqResetEnd` puts the queue,
  reversed, in front of the free list (`ResetStep`).
* `MessageQueueCopies`: `MqSpec => []CopiesIntact`. A step of another thread, of an
  interrupt handler or of the reset writes only blocks of the two lists or its own.
* `MessageQueueDeadlines`: `MqSpec => []DeadlineKept`, from the shared part.
* `MessageQueueFifo`: `MqSpec => MqImplementsFifo`. `Link`, `MqIsrSend`, `TakeMessage` and the
  reset change the sequence behind `head` as `BoundedFifo` says; every other step leaves the
  sequence and its blocks' contents alone (`QueueStep`).

TLC checked this invariant, with the sequences read off by `Chain`, on the instance
of `message_queue` before it was proved.

`EventProofs` proves for any threads, priorities, flags and time-outs:

* `EventInvariant`: `Spec => []EvInv`. The difficult step is the loop of
  `rt_event_send`. While it goes on the invariant says nothing of the waiters it
  has not come to; the ones it has passed stay unsatisfied, because the loop only
  takes flags away (`PassedUnsatisfied`), and it ends only behind the last. A
  waiter still has in `event_set` what it asked for (`WaitersAsk`), so that what
  it is given is compared with what was asked.
* `EventCorrect`, `EventReceives`, `EventConserves` follow: `EventInv`,
  `ReceivesWhatWasAsked`, `FlagsConserved`. A flag that is set and one that a
  clearing receiver was given and has not returned with are counted together, and
  that count is what is `owed`: none is lost and none made up.

`ServiceProofs`, **timers** (`Spec`), for any number of hard and soft timers, any
times and any range of the tick, with calls at every point:

* `TimerInvariant`: `Spec => []TimerInv`. That the lists are in order of their
  deadlines means something only if no two deadlines are half the range apart, so
  the invariant bounds how late a timer can be (`Deadlines`): a hard timer is not
  late once the tick handler returned, a soft timer by at most `MaxHeld` ticks
  and those since the timer thread woke up. That again needs what the thread knows
  on its way to sleep (`TowardsSleep`: the earliest deadline, up to the ticks that
  passed since it read it) and that its own timer runs only while it sleeps
  (`ThreadSound`). All this is said of the soft timers that are not overlooked; of
  the overlooked ones the invariant knows only that they are late by no more than
  `2 * MaxHeld` ticks until `stale` is set. `Membership` and `Callbacks` say which timers
  the local lists of the two loops hold: a timer that is active and in no list is one
  whose callback runs and that is periodic, and will be started again, or one in
  `turned`.
* `TimerListsSound`, `TimerThreadSleeps` follow: `ListsSound`, `SleepsNoLonger`.
* `TimerAlarms`: `Spec => ImplementsAlarm`, onto a clock of integers. Start arms the
  alarm, stop and detach disarm it, control and re-initialisation set its period,
  the tick lets time pass, a callback is its ring and the end of the callback its
  return; every other step changes nothing an alarm shows. The proof that an alarm
  which rings is the first to be due is where the order modulo the range is shown
  to be the order of the integers.

`ServiceProofs`, **work queue** (`WorkSpec`), for any works, callers and number of
submitters about to start the timer of the same work:

* `WorkQueueCorrect`: `WorkSpec => []WorkQueueInv`. The lists are sound and waiters
  are woken in every state, also where calls crossed a timer. As long as nothing is `mixed`, a timer that runs, is being started or has
  expired belongs to a work that is delayed and knows its queue (`TimersKnown`),
  and what is in a list was accepted and not cancelled since (`ListedAccepted`).
* `WorkQueueSound`, `WorkQueueSync` and the action property `WorkQueueStarts`
  follow: `QueueSound`, `SyncWoken`, `StartsAccepted`.

`ServiceProofs`, **reception** (`RxSpec`), for any number of descriptors and any mailbox size:

* `ReceiveCorrect`: `RxSpec => []ReceiveInv`. `RingShape` says that the full
  descriptors are one stretch from the one the driver is at (which it leaves only
  after it gave it back), that the engine is right behind it, and that each holds
  a frame; `LinkInv` that `link_changed` is set, with a mail on the way, whenever
  the netif was told something else than the PHY thread found.
* `ReceiveNoticed`, `ReceiveEngine`, `ReceiveLink` follow.
* `ReceiveFifo`: `RxSpec => RxImplementsFifo`. The stretch is the queue; `DmaClose`
  appends to it, `Copy` takes its head, and no other step changes it.

`ServiceProofs`, **transmission** (`TxSpec`), for any senders, frames, ring and mailbox sizes:

* `TransmitCorrect`: `TxSpec => []TransmitInv`, one step per action. The fact that
  carries it is `OwnsOne`: whatever is slow, given up or retried, the engine owns
  at most one descriptor, the one at `tx_index`, and none while the driver
  prepares a frame. A descriptor that was given up is not skipped, so the next
  transmit polls the same one and gives up before it writes the buffer. Beside it:
  the messages in the mailbox and in the etx thread are those of senders inside
  `ethernetif_linkoutput`, each once; the engine sends only what it owns; and a
  descriptor that came back during the wait had the frame of this message.
* `TransmitMessagesLive`, `TransmitEok`, `TransmitInStep` follow.
* `TransmitFifo`: `TxSpec => TxImplementsFifo`. `OwnsOne` makes `HandedOver` the empty
  sequence or the one frame at `tx_index`; only `HandOver` and `DmaClose` change
  it, and `Copy` writes a buffer that is not in it.

Only model-checked:

* everything under fairness (`SharesProcessor`, `WaitersServed`,
  `InversionBounded`, `SoftServed`, `Drained`, `Returns`, `AcceptedRuns`), which is
  out of the prover's reach;
* `HighestRuns` with `rt_thread_resume` called with interrupts enabled (`preempt`
  has it; `Orderly` excludes it from the theorem).

## Not modelled

The heaps and the memory pool; the object container and devices; completion with
a time-out, `rt_workqueue_destroy`, data queue, ring buffer, pipe and wait queue;
MDIO, UART, GPIO and clock drivers, which are register accesses; registration of
the network interface. SMP, signals and slab are left out by `rtconfig.h`, and so
are most of the vendored components (lwIP, DFS, SAL, shell, the frameworks of
devices the board does not have), which make up nearly all the lines of the
repository: the project keeps to the kernel and the board's drivers. Message
lengths and object names are data no property depends on. Of the kernel's hooks
the board installs only the idle hook, which waits for an interrupt.

## Plan

1. `Kernel`, `Processor`, `Scheduler`, proofs. (done)
2. The five IPC services; proofs for the mailbox. (done)
3. `Timer` with `Alarm`, `GmacReceive`, `GmacTransmit`, `WorkQueue`; proofs for
   transmission. (done)
4. Theorems about semaphore, mutex, mailbox (wake-ups and deadlines), reception
   and `HighestRuns`. (done)
5. Theorems about events, timers and the work queue. (done)
6. Theorems about the message queue. (done)
7. The memory pool with waiting threads and the block lists of the small memory
   heap.
