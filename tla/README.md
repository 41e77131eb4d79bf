# A TLA+ model of the RT-Thread kernel

RT-Thread is a preemptive real-time kernel for microcontrollers. This directory
holds TLA+ modules that model its scheduler, threads, IPC objects, timers, memory
pools and heap, and the work queues, pipes and buffers of its device framework,
as the C code in `src/rt-thread/src` and `src/rt-thread/components/drivers/ipc`
implements them, TLC configurations that check them on small instances, and
TLAPS proofs, for any number of threads and any value of the other parameters, of
the safety properties of the scheduler, of semaphore, mutex, event, mailbox and
message queue, of the timers and of the services around the kernel. The configured
build is modelled: one processor (`RT_USING_SMP` is not set), at most 32
priorities, no signals, a timer list of one level, the small memory algorithm as
heap.

## The system

| Part | State | Operations | Interacts through |
|---|---|---|---|
| Scheduler (`scheduler.c`) | `rt_thread_priority_table`, the priority bitmap, `rt_current_thread`, `rt_scheduler_lock_nest` | `rt_schedule`, insert and remove a thread, `rt_enter_critical`, `rt_exit_critical` | called at the end of most kernel calls and from interrupts |
| Threads (`thread.c`) | stat, priority, time slice, error code, `tlist`, `thread_timer` of each control block | create, startup, exit, delete, detach, yield, sleep, suspend, resume, change priority | ready lists, thread timers, defunct list |
| Idle thread (`idle.c`) | the defunct list | frees closed threads | the defunct list |
| Tick (`clock.c`) | the tick counter, the running thread's slice | `rt_tick_increase` in the hardware timer interrupt | `rt_schedule`, `rt_timer_check` |
| Timers (`timer.c`) | the ordered lists of hard and soft timers, `_soft_timer_status`, the timer thread | create, start, stop, control, delete, `rt_timer_check`, `rt_soft_timer_check` | callbacks, in the tick interrupt or in the timer thread; `_thread_timeout` of a waiting thread |
| Semaphore (`ipc.c`) | value, suspend list | init, create, take, trytake, release, reset, delete, detach | suspend lists, thread timers |
| Mutex (`ipc.c`) | value, owner, hold, original priority, suspend list | init, create, take, trytake, release, delete, detach | suspend lists, priorities of owners |
| Event (`ipc.c`) | set of bits, suspend list; in each thread the bits it asks for | init, create, send, recv, reset, delete, detach | suspend lists, thread timers |
| Mailbox (`ipc.c`) | ring of words, its offsets and count, suspend lists of receivers and senders | init, create, send, send_wait, urgent, recv, reset, delete, detach | suspend lists, thread timers |
| Message queue (`ipc.c`) | lists of queued and free blocks, count, the same two suspend lists | as the mailbox | suspend lists, thread timers |
| Memory pool (`mempool.c`) | block list, suspend list | allocate, free, delete | suspend lists, thread timers |
| Completion (`completion.c`) | a flag, the one thread that waits | init, wait, done | suspend and resume of threads, interrupts |
| Work queue (`workqueue.c`) | lists of ready and of delayed items, the item that runs, the flags and the timer of each item | submit, urgent, cancel, cancel and wait, cancel all | a work thread, soft timers, a semaphore |
| Wait queue and pipe (`waitqueue.c`, `pipe.c`) | wakeup flag and waiting nodes; bytes, lock and open ends | wait, wakeup; open, close, read, write | mutex, ring buffer, suspend and resume |
| Data queue (`dataqueue.c`) | a ring of items, two flags, two suspend lists, low-water mark | push, pop, reset, deinit | suspend and resume of threads, interrupts |
| Ring buffer (`ringbuffer.c`) | bytes, two indices with mirror bits | put, forced put, get, peak, reset | none: its callers exclude each other |
| Heap (`mem.c`) | a chain of items, the lowest free one, counters | alloc, free, realloc | none: the heap lock |
| Objects, devices, kernel services (`object.c`, `device.c`, ...) | object lists, reference counts | sequential services | - |

What is hard here:

- **Interrupts between regions.** Kernel functions disable interrupts for a
  region, enable them, and call `rt_schedule` afterwards. In between, the tick
  interrupt may end the time slice or expire the timer of the very thread that
  has just been suspended, and other threads may run.
- **One list node per thread.** `tlist` links a thread into a ready list, a
  suspend list or the defunct list. A path that links it twice, or forgets to
  unlink it, corrupts two lists.
- **Time-out against release.** A wait ends by a release or by its timer, and
  the thread must see exactly one of the two.
- **Functions of two regions.** `rt_thread_delete`, `rt_thread_resume` and
  `_ipc_list_resume_all` decide in one region and act in another; the message
  queue copies between two.
- **Woken and overtaken.** A thread woken by a mailbox or message queue has
  nothing yet: it tests again, and somebody else may have been faster.
- **Priorities that move**: by inheritance, and by `rt_thread_control`, while a
  thread is queued somewhere.
- **Callbacks that act on their own object.** A timer's callback may stop, restart
  or delete its timer; soft timers' callbacks run with interrupts enabled and may
  wait.
- **Numbers that wrap**: the tick, and the indices of every ring.
- **Deciding before acting.** The timer thread, the timer's callback of a work item,
  `rt_timer_stop` and the pipe look at something, enable interrupts or give up a
  lock, and then act on what they saw.

What makes the parts correct: ready lists, bitmap and stat agree (scheduler);
closed threads are freed once and never run again (threads, idle thread); the
highest ready priority runs and equal priorities share the processor
(scheduler, tick); permits are conserved, wakeups are not lost and the queueing
discipline is kept (semaphore); the owner field, the hold count and what threads
believe agree, and a waiting thread lends its priority to the owner, for as long
as it waits (mutex); nobody waits for bits that are set and a cleared bit goes to
one thread (event); messages come out once and in order, blocks are not lost or
shared, and no wakeup is lost for those who wait (mailbox, message queue, data
queue, memory pool); timers are called at their deadline, in order, across the
wrap of the tick, and soft timers in the end (timers); what was cancelled does
not run, and the queue drains (work queue); nobody sleeps beside what it waits
for (pipe, completion); a ring is a queue of bytes (ring buffer); items tile the
heap and no two free ones are neighbours (heap).
`PROJECT.json` lists the hazards line by line.

## Modules

| Module | Models |
|---|---|
| `Kernel` | The kernel state as a record, and each kernel-internal function that runs with interrupts disabled as an operator from the state before to the state after, under its C name. Also the predicates that say what every region leaves true (`KernelOK`). |
| `Processor` | One processor: `Executing`, the `rt_schedule` that a thread still owes (`Schedule`), and the tick interrupt (`TickEnter`, `TimerFire`, `TickLeave`). |
| `Sched` | The thread API: threads that create, start, delete, suspend, resume, sleep, yield, change priorities and lock the scheduler; the idle thread that frees the closed ones. Extends `Processor`. |
| `Workers` | Threads that exist from the start, for the IPC modules: boot state, sleep, the loop of `_ipc_list_resume_all`. Extends `Processor`. |
| `Semaphore` | The semaphore of `ipc.c`. Extends `Workers`. |
| `CountingSemaphore` | What a semaphore promises: permits, a queue in order of arrival, and who gets the next permit. |
| `Mutex` | The mutexes of `ipc.c`, with recursion and priority inheritance. Extends `Workers`. |
| `Event` | The event of `ipc.c`: requests for all or some bits, sends that wake several threads. Extends `Workers`. |
| `Channel` | The mailbox and the message queue of `ipc.c`, which share the loop of their blocking calls; `kind` says which one a behaviour is about, and the history variable `event` what the last step did for its caller. Extends `Workers`. |
| `MessageChannel` | What both promise: a bounded sequence of messages. A send adds its message at the end, an urgent one in front, a receiver gets the first one, only a reset or a new object loses any, and messages do not change while they are copied. `event` is the call that takes effect in a step with the caller's message, so a step cannot send another message, or at another end, than was asked for. |
| `Timer` | Timers, the tick, the tick interrupt and the timer thread. |
| `Deadlines` | What timers promise: time left of each armed timer, and who is called next. |
| `WorkQueue` | A work queue: clients, the work thread and the timers' callback, one step per region. |
| `Tasks` | Threads that wait for an object, without the processor: every region a step, in any order. For `MemPool`, `Completion` and `DataQueue`. |
| `MemPool`, `Completion`, `DataQueue` | Memory pool, completion, data queue. The data queue also implements `MessageChannel`, without urgent messages (`FrontMsg <- {}`) and with `dqEvent` as the event. |
| `WaitQueue`, `Pipe` | The operators on a wait queue, and the pipe that composes two of them with a lock and a count of bytes. Counts are cut to the 16-bit length of the ring buffer's functions. |
| `RingBuffer`, `ByteQueue` | The ring buffer, and the bounded queue of bytes it promises to be, with the piece each put is given and what each call returns. |
| `Heap` | The small memory algorithm. |
| `MCSched`, `MCSemaphore`, `MCMutex`, `MCEvent`, `MCChannel`, `MCTimer`, `MCWorkQueue` | Small instances for TLC. |
| `MCServices` | The modules from `Timer` to `Heap` side by side. They share no state, so a behaviour chooses one of them (`subject`) and exercises it, under its own fairness. |
| `KernelProofs`, `SchedProofs` | Proofs about `Kernel`'s operators, and about `Sched` and `Timer`. |
| `IpcProofs` | What the proofs about `ipc.c` share: `_ipc_list_suspend`, the waking of threads, the actions of `Workers` and `Processor`. |
| `SemaphoreProofs`, `MutexProofs`, `EventProofs`, `ChannelProofs` | Proofs about the objects, each by an inductive invariant stated in the object's module. |
| `ServiceProofs` | Proofs about `Completion`, `MemPool`, `DataQueue`, `WorkQueue`, `Pipe`, `RingBuffer` and `Heap`. |

How the code maps to the model:

- A step of the model is one region with interrupts disabled. A function with
  two regions is two actions, and the thread's `pc` says where it is. A thread
  at a label in `DOMAIN After` has left its region and has not called
  `rt_schedule` yet.
- A thread takes steps while it is `rt_current_thread`, whatever its stat says:
  a thread that has suspended itself keeps running until the switch, and with
  the scheduler locked it goes on for longer.
- Interrupts are taken one at a time; an interrupt handler that calls
  `rt_schedule` switches threads (`PendSV` runs when the handler returns).
- Lists are sequences of threads. `rt_list_remove` takes a thread off whatever
  list it is on, as the unlinking of the single `tlist` node does.
- Time is abstracted: `k.timer` is the set of threads whose timer is active,
  and an active timer may expire at any tick. Every order of time-outs that real
  deadlines can produce is among the ones checked.
- `FREE` stands for a control block that does not exist. Fields of a freed block
  get fixed values.
- A reset (`RT_IPC_CMD_RESET`) calls `_ipc_list_resume_all` with interrupts
  disabled, so the whole reset is one step (`ResumeAll`); a deletion calls it with
  interrupts enabled, so each turn of its loop is two (`ResumeAllLook`,
  `ResumeAllTurn`).
- The rest of a time limit after a wait may be anything from nothing to almost
  all of it: `Rest` leaves the choice open.
- Event bits are sets of bits. Words of a mailbox and texts of a message queue
  are members of `Msg`; a place that has been emptied holds `None`.
- Ticks are counted modulo `TickRange`, and deadlines are compared as the code does,
  by subtraction modulo `TickRange`. `rt_timer_check` runs with interrupts disabled,
  so only the callbacks of hard timers are steps between its own; a callback is a
  pair of steps between which the application's calls may come.
- The timer thread's delay (`rt_thread_delay`) is its own hard timer, `ThreadTimer`.
- `Timer`, `WorkQueue` and the modules on `Tasks` leave the processor out: which of
  several ready threads runs is open, except where the code relies on priorities
  (`SoftUrgent`, `WorkUrgency`).
- The pipe's ring buffer is the number of its bytes; `RingBuffer` is about its
  contents. `pipe_fops_read` and `pipe_fops_write` pass a `size_t` count as the
  `rt_uint16_t` length of `rt_ringbuffer_get` and `rt_ringbuffer_put`: `AsLength` cuts
  it modulo `LengthRange` (2^16), and a get or a put moves as many bytes as that length
  asks for and the ring has, or has room for. A read of 0 bytes is tried like any other;
  a write of 0 returns at once.
- A place of a data queue that has been emptied holds `NoItem`: nobody reads it
  before it is overwritten.
- The reset of a data queue is two steps: the region that empties the ring
  (`DqReset`) and the one that locks the scheduler and starts to wake (`DqResetLocks`).
  Its `evt_notify` callback is the application's, and left out.
- The heap's sizes are in units of `RT_ALIGN_SIZE`. `HeapShrink` compares with the
  aligned least size, where `mem.c:464` uses `MIN_SIZE` as it is; for the configured
  `RT_ALIGN_SIZE` of 4 the two are equal.
- A few unprotected reads and writes are merged with the region next to them, where
  nobody else can touch what they are about: `Startup` is the write of the stat
  (`thread.c:372`), the check of `rt_thread_resume` (894) and its region, since a thread
  in `RT_THREAD_INIT` is on no list and only its creator starts it; `Reap` is the
  removal from the defunct list (`idle.c:179`) and the cleanup (216-238), since a closed
  thread is on no other list, and a deletion of it returns at once; `DeleteRemove` is the
  look at the stat (`thread.c:506`, 509) and the first region, between which, under
  `Guarded`, neither another thread nor the target's timer comes.
- A delay of a work item is always less than half the range of ticks: `rt_workqueue_submit_work`
  asserts it (`workqueue.c:332`), so the error path at line 153 is left out.
- The 16-bit value of a semaphore is `% (SemMax + 1)`; the hold count of a mutex
  stops at `HoldMax`.

Rules the applications are taken to follow:

- a thread ends by returning, not by deleting itself, and not while it has the
  scheduler locked;
- with `Guarded`, a thread that deletes or resumes another one has locked the
  scheduler, and does not delete a thread whose timer is active. Without it the
  two-region functions can go wrong, as `sched_delete_race` shows;
- nobody calls a function of an object that is being deleted or is deleted, and
  nobody deletes an object (or resets a data queue) somebody waits for with a time
  limit, since the last waiting thread may time out between the look at the list
  and the region that takes it (`DeleteTimed = TRUE` in `Semaphore` reaches that
  state); a mutex is deleted by its owner or while it is free;
- nobody deletes a mailbox or message queue while a woken thread, or a call that
  is copying, will use it again;
- a new object takes the place of a deleted one when the calls on the old
  one have returned;
- a periodic timer has a period of at least one tick; with 0 the check would
  call it for ever. A timer is not deleted inside another thread's `rt_timer_stop`
  of it;
- except in `timer_lost_wakeup`, soft timers are started while the timer thread
  waits or runs a callback, as threads less urgent than it do;
- two calls about one work item do not overlap, except with a wait for it, and
  (except in `work_redo`) an item whose delay runs is not submitted at once; the
  timer thread is more urgent than the clients and they are more urgent than the
  work thread, as configured (4 and 23);
- one thread waits for a completion; a pipe has one reader and one writer at a time
  in the checked instance. Reads and writes of a pipe may ask for any number of bytes;
  `PipeWritesEnd` promises an end for writes of less than 65536 bytes and readers that
  ask for something, and `PipeNoLostWakeup` excepts a call whose count is cut to 0.

## Runs

| Run | Checks |
|---|---|
| `sched_calls` | Two application threads and the idle thread, three priorities, all calls, scheduler lock nested to 2, slice of 2 ticks. `Inductive` (the invariant of the proofs) and its parts, `NoSwitchWhenLocked`, `ClosedStaysClosed`. |
| `sched_fair` | Three application threads on two priorities. `HighestRuns`: whenever the processor is outside the kernel it is with a thread of the highest ready priority. `RoundRobin`: a thread that stays ready is kept waiting only by more urgent ones. |
| `sched_delete_race` | Fails: without the scheduler lock, a timer that expires between the regions of `rt_thread_delete` leaves a closed thread in a ready list. |
| `sem_signals` | Signals from threads and an interrupt handler, waits with every kind of time limit, reset, deletion, `RT_IPC_FLAG_PRIO`. The semaphore implements `CountingSemaphore`; `NoVainWait`: nobody waits beside a free permit, and a deletion leaves nobody behind. |
| `sem_fifo` | `RT_IPC_FLAG_FIFO`, threads that give back what they take. Permits are conserved; a waiting thread is suspended and linked, a woken one is neither; nobody starves. |
| `mutex_calls` | One mutex with recursion, time limits, wrong releases, deletion. Mutual exclusion and hand-over (`HoldersAgree`, `WaitOutcome`), the fields of the mutex, the kernel state. |
| `mutex_fair` | One mutex, three priorities. Inheritance, restored priorities, and no unbounded priority inversion. |
| `event_signals` | Two bits, requests of every kind, sends by threads and an interrupt handler, time-outs, reset, deletion. `NoMissedEvent`: nobody waits for bits that are set. `Delivered`: a woken thread has the bits it asked for. `ConsumedOnce`: of the threads one send wakes, no two get a bit that both clear. |
| `channel_calls` | A mailbox or a message queue with two places, three threads of three priorities and an interrupt handler, all calls; the time limits are those of `WaitsOf`: each occurs, the least urgent thread has none that runs out. `ImplementsChannel`: it implements `MessageChannel`, so every send puts the caller's own message at the end, every urgent one in front, every receiver gets the first, and no step but a reset or a new object loses a message. `NoLostWakeup`: threads wait while there is something for them only when as many others have been woken for it; `BlocksConserved`: a block is queued, free or in the hands of one thread. |
| `services` | The services around the kernel, one per behaviour. Timers, a hard and two soft ones beside the timer thread's own: `ListsConsistent` (every timer is in one place and its flags say so), `ImplementsDeadlines` (hard timers are called in the very tick, soft timers not before it, by deadline and start, across the wrap), `CallbackWaits` (a callback of a soft timer may wait, and a timer started meanwhile does not end its wait), `SoftTimersFire`. Work queue: `WorkConsistent`, `CancelledStays`, `WorkProgress`. Pipe, with counts of 0, below and above the range of a length: `PipeNoLostWakeup`, `PipeWritesEnd`. `MpNoVainWait`, `CmplNoMissedDone`, `DqNoLostWakeup`: no wakeup is lost for a pool, a completion, a data queue. `DqImplementsChannel`, `ImplementsByteQueue`: a data queue is a bounded queue of items, each push at the end with the pushed item; a ring buffer is a bounded queue of the bytes it is given. `HeapConsistent`: the items tile the heap, no two free ones are neighbours, and `lfree` is the lowest. |
| `timer_lost_wakeup` | Fails: a soft timer started between the timer thread's look at an empty list and its `rt_thread_suspend` does not wake it. |
| `work_redo` | Fails: a delayed item that is submitted again without delay keeps its timer, whose callback then finds no queue. |

**Bounds.** `MaxNest` bounds the nesting of the scheduler lock, `InitTick` the
time slice, `SemMax` the value of a semaphore (2 reaches the limit and wraps),
`HoldMax` the recursion (2 reaches the limit and the inner release), `MaxHold`
the permits of one thread, `Size` the places of a channel (2 shows order and both
wraps of the ring, and fills up). Three threads give a waiter, an owner or releaser, and
a bystander, which is what each of the races needs. `TickRange = 7` makes ticks
wrap several times, with times of 0 and 1 and a grace of 1 (`SoftGrace`, by
which the timer thread may be held up) inside half the range, 3;
`TimerOpBound` bounds the calls of the application in one behaviour: three let a
callback or a thread start, stop and change a timer in any order, while ticks go
on without bound. Two work items, two clients; two blocks and three threads for a
pool; a ring of two bytes with pieces up to three (longer than the ring); a pipe of two
bytes with lengths modulo 4 and counts of 0, 1, 3 (longer than the ring) and 5 (cut to 1,
and down to a rest of 4 that is cut to 0); a heap
of 12 units with a header of 1, minimum of 2 and requests of 1, 2 and 4, which
splits, near fits, moves and joins. Two priorities above the idle
thread give preemption and sharing, three give an inversion. What is proved (see
below) does not depend on these bounds.

**Fairness.** The hardware timer keeps interrupting and its handler returns:
weak fairness of `TickEnter` and `TickLeave`. In the IPC runs, a thread that
gets the processor again and again makes progress: strong fairness of finishing
the call it is in and of releasing what it holds (the application's duty; without
it nobody could promise that a wait ends). In `mutex_fair` a thread timer that
is active at tick after tick expires. Nothing is assumed about who is scheduled:
that is what `RoundRobin`, `NoStarvation` and `NoInversion` are about.
In `services`, where the processor is left out: ticks keep coming, interrupts and
callbacks end and a ready timer thread runs (`SoftTimersFire`); ready threads run,
timers expire and work functions return, and `WorkProgress` speaks of behaviours in
which the clients stop calling in the end; a thread inside a pipe call goes on, a
mutex that is free again and again is taken (it is handed to its waiters), and the
readers keep calling read while a writer is there (`PipeWritesEnd`; without a
reader no write could end, and a read whose count is cut to 0 is not one).

## Proofs

Every theorem holds for all constants that satisfy the ASSUMEs of the modules,
which only say what kind of value a constant is: the idle thread is a thread and
has the lowest priority, there is at least one priority, the boot state holds each
thread once, blocks, tasks and the threads of a channel are finite sets, a ring has
at least one place. Where
a property needs a rule of the application, the rule is a hypothesis of the theorem.

**Scheduler.** `SchedProofs` proves for every set of threads, every number of
priorities, every slice and every set of calls, under `Guarded`:

- `InductiveInvariant`: `Spec => []Inductive`. `Inductive` is `TypeOK`,
  `KernelConsistent` (ready lists, bitmap, suspend lists, defunct list, current
  thread, timers and idle thread agree), `TwoRegionCalls` (a thread between the
  regions of a resume or a deletion still has the processor and its target is
  as the first region left it), `ClosedLeaves` (a closed thread that still has
  the processor is about to give it up) and `IdleRuns`. The parts need each
  other: the lists stay right under `rt_schedule` only if the idle thread is
  always ready, the timer assertion needs the lists, and the second region of a
  deletion needs that nobody has touched its target.
- `ReadyQueueAlwaysConsistent`, `ClosedThreadsAlwaysDefunct`,
  `TimeoutAssertionHolds`: what users of the invariant need, as corollaries.
- `LockKeepsProcessor` and `ClosedIsFinal`: the action properties.
- `HighestPriorityAlwaysRuns`: `HighestRuns`, when no priority is changed from
  outside (`"control" \notin Calls`), by the strengthening `Settled`, which also
  speaks of the states inside the tick interrupt. `rt_thread_control` changes a
  priority without a scheduling point, so the property does not hold with it.

`KernelProofs` has one lemma for each operator of `Kernel`: it keeps the type of
the state and `KernelOK`, given what its callers guarantee. `SchedProofs` then
has one step per action. `IpcProofs` does the same for the operators and actions
the IPC objects share; `_ipc_list_suspend` looks for its place in the list with a
recursive function, which an induction over the natural numbers characterises.

**Semaphore** (`SemaphoreProofs`; any threads, priorities, limits, discipline):

- `NobodyWaitsInVain` (`NoVainWait`) and `WaitersAlwaysSuspended`
  (`WaitersSuspended`). The invariant adds `ThreadsOK` (what each label of a
  thread's `pc` says about its stat, its list and its timer), `Served` (who left
  the list has a permit, a time-out or an error, and its error code says which) and
  `InGrantOrder` (the suspend list is the queue in the order in which permits will
  be granted).
- `SemaphoreRefinement`: `Spec => ImplementsSemaphore`, the refinement of
  `CountingSemaphore`. `InGrantOrder` is what it rests on: `rt_sem_release` takes
  the head of the list, and the abstract semaphore grants to whoever is due.
- `PermitsAreConserved` (`PermitsConserved`) for finitely many threads under
  `PermitRules`: threads release only what they hold, and there is no reset. The
  permits are counted as a set of pairs, so each step adds or removes an element;
  that `sem->value` is below its limit whenever somebody releases follows from the
  sum itself.

**Mutex** (`MutexProofs`; any number of mutexes and threads, all calls):

- `ListsStayConsistent`, `OnlyTheOwnerIsInside` (`HoldersAgree`) and
  `ReturnCodeTellsTheOwner` (`WaitOutcome`), from an invariant that adds `ThreadsOK`
  and `Engaged` (which mutex a call is about, and that it exists).
- `OwnerInherits` (`Inheritance`) and `OwnPriorityComesBack` (`PriorityRestored`)
  under `Single`: one mutex that is not deleted. With two the code does not keep
  them (see Findings). The strengthening `Lent` says that a thread has its own
  priority or owns the mutex, that the mutex remembers its owner's priority, and
  that the suspend list is sorted: the owner has the priority of the most urgent
  waiter only because that one is the head.

**Timers** (`SchedProofs`; any timers, times, range of ticks and grace, callbacks and
threads that call what they like):

- `TimerListsConsistent` (`ListsConsistent`). `TimerInductive` adds `CallsHeld` (a
  check has at most the timer it calls on its temporary list, and a timer there that
  is still active is periodic unless it was made one-shot) and ties `cur`, `status`
  and the place of the timer thread to each other. Without `CallsHeld` the end of a
  callback could start a timer that is already listed; that the timer thread's own
  timer is listed only at `"check"`, outside callbacks, is why resuming that thread
  leaves no stale timer behind. The lemmas say of `_timer_remove`, `LinkTimer`,
  `rt_timer_start`, `TakeTimer` and `PutTimer` what they do to the set of listed
  timers and to the flags, and that they keep `Placed`.
- `CallbackIsNotInterrupted` (`CallbackWaits`): `_soft_timer_status` is busy exactly while
  the timer thread runs a callback, which is what keeps `rt_timer_start` from resuming it.
- `TimersKeepDeadlines`: `Timely => (TimerSpec => ImplementsDeadlines)`, the refinement
  of `Deadlines`. `Left` is the signed time from now to a deadline on the clock that
  wraps; its lemmas say that a tick takes one from it, that the test of the checks
  (`TickMinus(tick, at) < HalfRange`) asks for its sign and that the comparison of
  `rt_timer_start` compares two of them, all within half the range only. `TimerOrder`,
  added to `TimerInductive`, is what keeps deadlines there: each list is in the order of
  the time left and, for equal times, of the starts; a hard timer has at least 0 ticks
  left between ticks, at least -1 in the tick interrupt; and `Paced` bounds how late
  the timer thread may be at each step of its loop (it looks, computes its delay and
  sleeps in three regions, so the delay is stale by up to `SoftGrace` ticks). One lemma
  per action shows its step of `Deadlines`.
- The hypothesis `Timely` is needed: no more urgent thread or interrupt starts soft
  timers, the timer thread is held up by at most `SoftGrace` ticks, and
  `SoftGrace + 2n < HalfRange` for every time `n`. The delay for the next soft timer can
  be longer than needed by the hold-up, so a soft timer may be late by a time and the
  grace when another one is started; beyond half the range the comparison of
  `rt_timer_start` would put the new one in front of it.
- `NoTimerIsForgotten`: `Timely => (TimerSpec => []NoForgottenTimer)`, the other side of
  `timer_lost_wakeup`: what that run shows to fail holds when soft timers are started
  only while the timer thread waits or runs a callback.

**Event** (`EventProofs`): `NoEventIsMissed`, `WokenWithTheirBits` and the action
property `BitsConsumedOnce`, for any bits and requests. `Asking` ties `event_set`
of a waiting thread to its request. `rt_event_send` is a loop over the suspend
list in one region; its lemmas say what the loop leaves after each turn.

**Mailbox and message queue** (`ChannelProofs`; any threads, priorities, size,
messages and time limits): `NoWakeupLost` (`NoLostWakeup`), `NoBlockLost`
(`BlocksConserved`) and `ChannelRefinement` (`ImplementsChannel`, the refinement of
`MessageChannel`). Their invariant `Inductive` is `ThreadsOK`, the two properties, and

- `Queued`: who waits is in the list its call belongs to, so that the number of
  woken threads can be compared with the number of messages or places;
- `InHand`: a thread between the two regions of a message queue call holds one block,
  with a message in it, and nobody else has that block: this is why a message does not
  change while it is copied with interrupts enabled;
- `Sending`: the block of a sender between its two regions holds the message it sends,
  so what the second region links is what the caller gave;
- `RingMeets`: in a mailbox, `in_offset` is `out_offset` plus `entry`, around the ring,
  so an urgent word and a plain one never overwrite one that is queued;
- `Abandoned`: nobody comes back to an object that is being deleted or is gone.

**Services** (`ServiceProofs`), in every interleaving of regions:

- `NoDoneIsMissed`, `NoBlockWaitsInVain`, `NoItemIsLeftBehind`: no lost wakeup for
  a completion, a memory pool and a data queue (`CmplInductive`, `MpInductive`,
  `DqInductive`). The last two compare a number of waiting threads with a number of
  woken ones, so the proofs count: what each region does to the cardinality of the
  two sets.
- `WorkIsConsistent` and `CancelledIsNotRun` under `WorkRules` (the configured
  priorities, and no item whose delay runs is submitted at once, which is what
  `work_redo` violates). `WorkInductive` adds what clients and the timer's callback
  hold between their regions.
- `PipeWakeupIsNotLost` under `PipePair` (one reader, one writer), for any counts and any
  range of the length. `ReaderTold` and
  `WriterTold` follow a wakeup from the one who causes it to the one who waits:
  written, flag set, or node awakened.
- `RingIsByteQueue`: `RbSpec => ImplementsByteQueue`, the refinement of `ByteQueue`.
  `RbInductive` relates mirrors and indices; `StoreKeeps` says where a put leaves each
  byte of the piece, once for the put that fits and for the forced one.
- `DataQueueRefinement`: `DqImplementsChannel`. The items of the ring from `get_index`
  to `put_index` are the abstract sequence; its lemmas say what one more place at
  its end and one less at its front do to it. A push is a `Send` of the item of its
  caller, and only a reset or a new queue is a `Clear`.
- `HeapStaysTiled`: `HeapConsistent`, which is inductive as it stands. `Tiled` says that
  each item's `next` has it as `prev`, that no two free items are neighbours and that
  `lfree` is the lowest. The lemmas are about the two changes of the chain, a split and
  a join; that the item before another one exists follows from the least counterexample.
  The counter of used memory is the number of units that used items cover.

Only model-checked:

- the liveness properties and `WorkProgress`, `PipeWritesEnd`, `SoftTimersFire`,
  `NoInversion`, `NoStarvation`, `RoundRobin`: fairness and `ENABLED` are out of
  the prover's reach.

## Findings

- `rt_thread_delete` and `rt_thread_detach` use two regions; see
  `sched_delete_race`.
- The timer thread decides to sleep in one region and does so in another; see
  `timer_lost_wakeup`.
- Submitting a delayed work item again without delay leaves its timer running; see
  `work_redo`.
- `_ipc_list_resume_all`, `rt_mp_delete` and `rt_data_queue_reset` test a list outside
  the region that uses it. `Semaphore` with `DeleteTimed = TRUE` reaches the empty
  list; the runs keep to the rule above.
- `rt_mutex_take` records an inherited priority as the original one: with two
  mutexes in `Mutex`, a thread that releases the first one first keeps the inherited
  priority, and `PriorityRestored` fails. The runs use one mutex.
- Pipes cut counts to 16 bits, without a run: a write of 65536 bytes or more comes to a
  rest of exactly 65536, puts nothing (`pipe.c:285`, `ringbuffer.c:66`) and sleeps beside
  room for ever, under the comment "pipe full, waiting on suspended write list"
  (`pipe.c:309`); a read of 0 or 65536 bytes gets nothing and waits beside bytes, or
  returns `-EAGAIN`, which its comment gives to "there are no data to be read"
  (`pipe.c:190`). `PipeNoLostWakeup` without `Moves` fails on both.
- Without a run: a delay that ends while its item runs is dropped silently
  (`workqueue.c:194`); `RT_TIMER_CTRL_GET_STATE` falls through to the next case
  (`timer.c:597`); a pipe reader loses bytes that are left when the last writer
  closes (`pipe.c:207`); `rt_wqueue_wakeup` wakes one of several waiting threads;
  `rt_sem_delete` and `rt_mutex_delete` ready threads without `rt_schedule`
  (`ipc.c:445`); `rt_mp_free` wakes the thread that came last (`mempool.c:354`); a
  completion's time-out clears a done that came after it (`completion.c:110`);
  `mem_size_aligned - size` underflows on a heap smaller than the least item
  (`mem.c:314`).

## Plan

Code worth modelling next: the ring block buffer, poll and the device interface of
the pipe, `rt_workqueue_destroy`, and the two `rt_thread` calls that are not actions
yet (`rt_thread_delay_until` and closing the running thread by
`RT_THREAD_CTRL_CLOSE`).

## Not modelled

SMP, signals, the slab allocator and the memory heaps are not part of the build.
Object lookup by name, devices, kernel services and formatting have no concurrency
of their own. File system, shell, C library, network and board support are layers
above or below the kernel and by far the larger part of the repository, most of it
vendored (lwIP, FatFs, CMSIS, the vendor's drivers). `rt_thread_control` commands other
than the priority change, `RT_TIMER_CTRL_GET_*`, `rt_data_queue_peek`, names, hooks,
statistics and logging do not touch the modelled state.
