------------------------------- MODULE Kernel -------------------------------
(***************************************************************************)
(* The thread and scheduler state of the RT-Thread kernel (uniprocessor    *)
(* build) and the kernel-internal functions that change it, each as an     *)
(* operator from a state record k to the state record after the call.      *)
(*                                                                         *)
(* Every one of these functions runs with interrupts disabled, so a caller *)
(* composes them freely inside one action.  The operators keep the names   *)
(* of the C functions (src/rt-thread/src/scheduler.c, thread.c, ipc.c,     *)
(* idle.c).                                                                *)
(*                                                                         *)
(* A thread control block has a single list node, tlist: it links the      *)
(* thread into one ready list, or one suspend list of an IPC object, or    *)
(* the defunct list.  The lists are sequences here.  Time is abstracted:   *)
(* k.timer is the set of threads whose thread_timer is activated, and an   *)
(* activated timer may expire at any tick.                                 *)
(***************************************************************************)
EXTENDS Naturals, Sequences, FiniteSets, SequencesExt, FiniteSetsExt, Functions

CONSTANTS
    Thread,     \* the thread control blocks, the idle thread's included
    Idle,       \* the idle thread
    PrioMax,    \* RT_THREAD_PRIORITY_MAX; a smaller number is more urgent
    Obj,        \* the IPC objects, each with a list of suspended threads
    InitTick    \* init_tick, the time slice given to every thread

ASSUME IdleAssumption == Idle \in Thread
ASSUME PrioMaxAssumption == PrioMax \in Nat \ {0}
ASSUME InitTickAssumption == InitTick \in Nat \ {0}

Prio == 0 .. PrioMax - 1

\* The low bits of thread->stat (RT_THREAD_STAT_MASK); FREE: no such object.
Stat == {"FREE", "INIT", "READY", "SUSPEND", "RUNNING", "CLOSE"}

Err == {"EOK", "ETIMEOUT", "ERROR"}

\* The kernel's variables: rt_current_thread, rt_thread_priority_table,
\* rt_thread_ready_priority_group, rt_scheduler_lock_nest, the defunct list,
\* and the fields of the thread control blocks.
KState ==
    [ cur       : Thread,
      stat      : [Thread -> Stat],
      yield     : SUBSET Thread,        \* RT_THREAD_STAT_YIELD is set
      prio      : [Thread -> Prio],     \* current_priority
      remaining : [Thread -> 1 .. InitTick],
      err       : [Thread -> Err],
      timer     : SUBSET Thread,        \* thread_timer is activated
      ready     : [Prio -> Seq(Thread)],
      group     : SUBSET Prio,          \* the bitmap
      wait      : [Obj -> Seq(Thread)],
      defunct   : Seq(Thread),
      lock      : Nat ]

-----------------------------------------------------------------------------
(* Lists and the scheduler (scheduler.c) *)

\* rt_list_remove(&thread->tlist): the node leaves whatever list holds it.
rt_list_remove(k, t) ==
    [k EXCEPT !.ready   = [p \in Prio |-> RemoveFirst(@[p], t)],
              !.wait    = [o \in Obj |-> RemoveFirst(@[o], t)],
              !.defunct = RemoveFirst(@, t)]

rt_schedule_insert_thread(k, t) ==
    IF t = k.cur
    THEN [k EXCEPT !.stat[t] = "RUNNING"]
    ELSE [k EXCEPT !.stat[t] = "READY",
                   !.ready[k.prio[t]] = Append(@, t),
                   !.group = @ \cup {k.prio[t]}]

\* Mutant: the bit of the emptied list stays set.
Mut_remove_keeps_bit(k, t) == rt_list_remove(k, t)

rt_schedule_remove_thread(k, t) ==
    LET r == rt_list_remove(k, t)
    IN  IF r.ready[r.prio[t]] = << >>
        THEN [r EXCEPT !.group = @ \ {r.prio[t]}]
        ELSE r

\* _scheduler_get_highest_priority_thread: __rt_ffs of the bitmap.
HighestPriority(k) == Min(k.group)
HighestThread(k) == Head(k.ready[HighestPriority(k)])

\* The running thread keeps the processor against the best ready priority.
KeepsRunning(k) ==
    /\ k.stat[k.cur] = "RUNNING"
    /\ \/ k.prio[k.cur] < HighestPriority(k)
       \/ k.prio[k.cur] = HighestPriority(k) /\ k.cur \notin k.yield

\* Mutant: the thread that gives up the processor is queued whatever its stat.
Mut_switch_queues_all(k, to) ==
    LET q == rt_schedule_insert_thread([k EXCEPT !.cur = to], k.cur)
    IN  [rt_schedule_remove_thread(q, to) EXCEPT !.stat[to] = "RUNNING"]

\* The context switch: rt_current_thread is changed before the old thread is
\* put back, so that rt_schedule_insert_thread queues it.
SwitchTo(k, to) ==
    LET from == k.cur
        c == [k EXCEPT !.cur = to]
        q == IF k.stat[from] = "RUNNING"
             THEN rt_schedule_insert_thread([c EXCEPT !.yield = @ \ {from}], from)
             ELSE c
    IN  [rt_schedule_remove_thread(q, to) EXCEPT !.stat[to] = "RUNNING"]

\* Mutant: the scheduler lock is not looked at.
Mut_schedule_locked(k) ==
    IF k.group = {} \/ KeepsRunning(k) THEN k ELSE SwitchTo(k, HighestThread(k))

rt_schedule(k) ==
    IF k.lock # 0 \/ k.group = {}
    THEN k
    ELSE IF KeepsRunning(k)
         THEN rt_schedule_remove_thread([k EXCEPT !.yield = @ \ {k.cur}], k.cur)
         ELSE SwitchTo(k, HighestThread(k))

rt_enter_critical(k) == [k EXCEPT !.lock = @ + 1]

\* rt_exit_critical without the rt_schedule of the outermost exit.
rt_exit_critical(k) == [k EXCEPT !.lock = IF @ > 0 THEN @ - 1 ELSE 0]

-----------------------------------------------------------------------------
(* Threads (thread.c, idle.c) *)

_thread_init(k, t, p) ==
    [k EXCEPT !.stat[t] = "INIT", !.prio[t] = p, !.remaining[t] = InitTick,
              !.err[t] = "EOK", !.yield = @ \ {t}, !.timer = @ \ {t}]

\* Mutant: the thread timer is left running.
Mut_resume_keeps_timer(k, t) == rt_schedule_insert_thread(rt_list_remove(k, t), t)

\* The region of rt_thread_resume, after its check for RT_THREAD_SUSPEND.
rt_thread_resume(k, t) ==
    rt_schedule_insert_thread([rt_list_remove(k, t) EXCEPT !.timer = @ \ {t}], t)

\* rt_thread_suspend, which only takes the running thread; it returns
\* -RT_ERROR and changes nothing when the thread is suspended already.
rt_thread_suspend(k, t) ==
    IF k.stat[t] \in {"READY", "RUNNING"}
    THEN [rt_schedule_remove_thread(k, t) EXCEPT !.stat[t] = "SUSPEND",
                                                 !.timer = @ \ {t}]
    ELSE k

\* The region of rt_thread_sleep (and rt_thread_delay, rt_thread_mdelay): the
\* timer is started even when rt_thread_suspend refused.
rt_thread_sleep(k, t) ==
    [rt_thread_suspend([k EXCEPT !.err[t] = "EOK"], t) EXCEPT !.timer = @ \cup {t}]

\* Mutant: the thread is not put on the defunct list.
Mut_close_forgets(k, t) ==
    [k EXCEPT !.timer = @ \ {t}, !.stat[t] = "CLOSE", !.yield = @ \ {t}]

\* The region that closes a thread in _thread_exit, rt_thread_delete and
\* rt_thread_detach: timer off, RT_THREAD_CLOSE, head of the defunct list.
CloseThread(k, t) ==
    [k EXCEPT !.timer = @ \ {t}, !.stat[t] = "CLOSE", !.yield = @ \ {t},
              !.defunct = <<t>> \o @]

\* Mutant: no rt_schedule after the thread is made ready.
Mut_timeout_no_schedule(k, t) ==
    rt_thread_resume([k EXCEPT !.err[t] = "ETIMEOUT"], t)

\* Mutant: the thread stays linked in the suspend list.
Mut_timeout_keeps_link(k, t) ==
    rt_schedule(rt_schedule_insert_thread(
        [k EXCEPT !.err[t] = "ETIMEOUT", !.timer = @ \ {t}], t))

\* _thread_timeout, the handler of a thread timer (in the tick interrupt): it
\* unlinks and queues the thread as rt_thread_resume does, then reschedules.
_thread_timeout(k, t) ==
    rt_schedule(rt_thread_resume([k EXCEPT !.err[t] = "ETIMEOUT"], t))

\* Mutant: the running thread is not asked to yield.
Mut_slice_no_yield(k) ==
    IF k.remaining[k.cur] = 1
    THEN rt_schedule([k EXCEPT !.remaining[k.cur] = InitTick])
    ELSE [k EXCEPT !.remaining[k.cur] = @ - 1]

\* The time slice part of rt_tick_increase.
TimeSlice(k) ==
    IF k.remaining[k.cur] = 1
    THEN rt_schedule([k EXCEPT !.remaining[k.cur] = InitTick,
                               !.yield = @ \cup {k.cur}])
    ELSE [k EXCEPT !.remaining[k.cur] = @ - 1]

\* Mutant: a ready thread keeps its place in the list of its old priority.
Mut_priority_no_requeue(k, t, p) == [k EXCEPT !.prio[t] = p]

\* RT_THREAD_CTRL_CHANGE_PRIORITY: only a READY thread changes its list, a
\* suspended one keeps its place in the suspend list, nobody is rescheduled.
ChangePriority(k, t, p) ==
    IF k.stat[t] = "READY"
    THEN rt_schedule_insert_thread(
             [rt_schedule_remove_thread(k, t) EXCEPT !.prio[t] = p], t)
    ELSE [k EXCEPT !.prio[t] = p]

-----------------------------------------------------------------------------
(* Suspend lists of the IPC objects (ipc.c) *)

\* Mutant: before the first thread of the same or a lower priority.
Mut_position_le(k, o, t) ==
    LET lower == {i \in 1 .. Len(k.wait[o]) : k.prio[t] <= k.prio[k.wait[o][i]]}
    IN  IF lower = {} THEN Len(k.wait[o]) + 1 ELSE Min(lower)

\* Where RT_IPC_FLAG_PRIO puts a thread: before the first of a lower priority.
PrioPosition(k, o, t) ==
    LET lower == {i \in 1 .. Len(k.wait[o]) : k.prio[t] < k.prio[k.wait[o][i]]}
    IN  IF lower = {} THEN Len(k.wait[o]) + 1 ELSE Min(lower)

\* Mutant: the thread is put in front, with either flag.
Mut_suspend_lifo(k, o, t, flag) ==
    [rt_thread_suspend(k, t) EXCEPT !.wait[o] = <<t>> \o @]

\* _ipc_list_suspend: the running thread is suspended and linked into the
\* list of o, at the end (RT_IPC_FLAG_FIFO) or before the first thread of a
\* lower priority (RT_IPC_FLAG_PRIO).
_ipc_list_suspend(k, o, t, flag) ==
    LET s == rt_thread_suspend(k, t)
        i == IF flag = "FIFO" THEN Len(s.wait[o]) + 1 ELSE PrioPosition(s, o, t)
    IN  [s EXCEPT !.wait[o] = InsertAt(@, i, t)]

\* _ipc_list_resume: the first thread of the list becomes ready.
_ipc_list_resume(k, o) == rt_thread_resume(k, Head(k.wait[o]))

\* One turn of _ipc_list_resume_all.
ResumeWithError(k, o) ==
    _ipc_list_resume([k EXCEPT !.err[Head(k.wait[o])] = "ERROR"], o)

\* rt_timer_control(SET_TIME) and rt_timer_start on the thread timer of a
\* thread that waits with a time limit.
StartTimer(k, t, limited) ==
    [k EXCEPT !.timer = IF limited THEN @ \cup {t} ELSE @]

-----------------------------------------------------------------------------
(***************************************************************************)
(* What every region leaves true of the kernel state.  out: the threads    *)
(* that rt_thread_delete has taken off their list and has not yet closed.  *)
(***************************************************************************)

InNoList(k, t) ==
    /\ \A p \in Prio : t \notin ToSet(k.ready[p])
    /\ \A o \in Obj : t \notin ToSet(k.wait[o])
    /\ t \notin ToSet(k.defunct)

\* The ready lists hold exactly the READY threads, each once and under its
\* current priority, and the bitmap has the bits of the non-empty lists.
ReadyListsOK(k, out) ==
    /\ k.group = {p \in Prio : k.ready[p] # << >>}
    /\ \A p \in Prio :
          /\ IsInjective(k.ready[p])
          /\ \A t \in ToSet(k.ready[p]) : k.stat[t] = "READY" /\ k.prio[t] = p
    /\ \A t \in Thread \ out :
          k.stat[t] = "READY" => t \in ToSet(k.ready[k.prio[t]])

\* A suspend list holds suspended threads, each on one list only.
WaitListsOK(k) ==
    \A o \in Obj :
        /\ IsInjective(k.wait[o])
        /\ \A t \in ToSet(k.wait[o]) :
              /\ k.stat[t] = "SUSPEND"
              /\ \A q \in Obj \ {o} : t \notin ToSet(k.wait[q])

\* The defunct list holds exactly the closed threads, each once.
DefunctOK(k) ==
    /\ IsInjective(k.defunct)
    /\ ToSet(k.defunct) = {t \in Thread : k.stat[t] = "CLOSE"}

\* RUNNING is the stat of rt_current_thread only, which is in no ready list
\* and has not been freed.
CurrentOK(k) ==
    /\ \A t \in Thread : k.stat[t] = "RUNNING" => t = k.cur
    /\ k.stat[k.cur] \in {"RUNNING", "SUSPEND", "CLOSE"}

\* A thread timer that can expire belongs to a suspended thread.
TimersOK(k) == \A t \in k.timer : k.stat[t] = "SUSPEND"

\* The idle thread is ready at the lowest priority whenever it does not run.
IdleOK(k) ==
    /\ k.stat[Idle] \in {"READY", "RUNNING"}
    /\ k.prio[Idle] = PrioMax - 1

KernelOK(k, out) ==
    /\ ReadyListsOK(k, out)
    /\ WaitListsOK(k)
    /\ DefunctOK(k)
    /\ CurrentOK(k)
    /\ TimersOK(k)
    /\ IdleOK(k)
    /\ \A t \in out : InNoList(k, t)

\* The processor is with a RUNNING thread and no ready thread has a higher
\* priority.
HighestPriorityRuns(k) ==
    /\ k.stat[k.cur] = "RUNNING"
    /\ \A t \in Thread : k.stat[t] = "READY" => k.prio[k.cur] <= k.prio[t]

=============================================================================
