-------------------------------- MODULE Sched --------------------------------
(***************************************************************************)
(* The thread API of RT-Thread (thread.c, scheduler.c, idle.c): threads    *)
(* that create, start, delete, suspend and resume each other, sleep, yield *)
(* and lock the scheduler, and the idle thread that frees closed threads.  *)
(***************************************************************************)
EXTENDS Processor

CONSTANTS
    Main,       \* the main thread, running when the scheduler has started
    MainPrio,   \* its priority
    Calls,      \* the kernel calls the application threads make
    Guarded,    \* threads lock the scheduler to delete or resume others
    MaxNest     \* bound on rt_scheduler_lock_nest

ASSUME MainAssumption == Main \in Thread \ {Idle} /\ MainPrio \in Prio
ASSUME GuardedAssumption == Guarded \in BOOLEAN
ASSUME MaxNestAssumption == MaxNest \in Nat

VARIABLE tgt    \* the thread a two-region call works on

schedVars == <<k, pc, isr, tgt>>

PC == {"run", "sched", "sleep", "slept", "resume", "delete"}

AppThread == Thread \ {Idle}

\* The state rt_system_scheduler_start leaves: the main thread runs, the idle
\* thread is ready, no other thread exists.
KInit ==
    [ cur       |-> Main,
      stat      |-> [t \in Thread |-> IF t = Main THEN "RUNNING"
                                      ELSE IF t = Idle THEN "READY" ELSE "FREE"],
      yield     |-> {},
      prio      |-> [t \in Thread |-> IF t = Main THEN MainPrio ELSE PrioMax - 1],
      remaining |-> [t \in Thread |-> InitTick],
      err       |-> [t \in Thread |-> "EOK"],
      timer     |-> {},
      ready     |-> [p \in Prio |-> IF p = PrioMax - 1 THEN <<Idle>> ELSE << >>],
      group     |-> {PrioMax - 1},
      wait      |-> [o \in Obj |-> << >>],
      defunct   |-> << >>,
      lock      |-> 0 ]

Init ==
    /\ k = KInit
    /\ pc = [t \in Thread |-> "run"]
    /\ tgt = [t \in Thread |-> t]
    /\ isr = "none"

-----------------------------------------------------------------------------
(* Threads *)

\* t is in application code and makes the call c.
Call(t, c) == t \in AppThread /\ Executing(t) /\ pc[t] = "run" /\ c \in Calls

\* With Guarded, a call on another thread is made with the scheduler locked.
MayTouch(t, u) == u \in AppThread \ {t} /\ (Guarded => k.lock > 0)

Create(t, u, p) ==
    /\ Call(t, "create")
    /\ k.stat[u] = "FREE"
    /\ k' = _thread_init(k, u, p)
    /\ Goto(u, "run")
    /\ UNCHANGED <<tgt, isr>>

Startup(t, u) ==
    /\ Call(t, "create")
    /\ k.stat[u] = "INIT"
    /\ k' = rt_thread_resume([k EXCEPT !.stat[u] = "SUSPEND"], u)
    /\ Goto(t, "sched")
    /\ UNCHANGED <<tgt, isr>>

\* _thread_exit: the entry function has returned.
Exit(t) ==
    /\ Call(t, "exit")
    /\ k.lock = 0
    /\ k' = CloseThread(rt_schedule_remove_thread(k, t), t)
    /\ Goto(t, "sched")
    /\ UNCHANGED <<tgt, isr>>

Yield(t) ==
    /\ Call(t, "yield")
    /\ k' = rt_schedule([k EXCEPT !.remaining[t] = InitTick,
                                  !.yield = @ \cup {t}])
    /\ UNCHANGED <<pc, tgt, isr>>

Sleep(t) ==
    /\ Call(t, "sleep")
    /\ k' = rt_thread_sleep(k, t)
    /\ Goto(t, "sleep")
    /\ UNCHANGED <<tgt, isr>>

SleepReturn(t) ==
    /\ Executing(t)
    /\ pc[t] = "slept"
    /\ k' = [k EXCEPT !.err[t] = IF @ = "ETIMEOUT" THEN "EOK" ELSE @]
    /\ Goto(t, "run")
    /\ UNCHANGED <<tgt, isr>>

\* rt_thread_suspend(rt_thread_self()), followed by the caller's rt_schedule.
Suspend(t) ==
    /\ Call(t, "suspend")
    /\ k' = rt_thread_suspend(k, t)
    /\ Goto(t, "sched")
    /\ UNCHANGED <<tgt, isr>>

\* rt_thread_resume: the stat is checked before interrupts are disabled.
ResumeCheck(t, u) ==
    /\ Call(t, "suspend")
    /\ MayTouch(t, u)
    /\ k.stat[u] = "SUSPEND"
    /\ tgt' = [tgt EXCEPT ![t] = u]
    /\ Goto(t, "resume")
    /\ UNCHANGED <<k, isr>>

ResumeRegion(t) ==
    /\ Executing(t)
    /\ pc[t] = "resume"
    /\ k' = rt_thread_resume(k, tgt[t])
    /\ Goto(t, "sched")
    /\ tgt' = [tgt EXCEPT ![t] = t]
    /\ UNCHANGED isr

\* rt_thread_delete and rt_thread_detach: the thread leaves its list in one
\* region and is closed in another.
DeleteRemove(t, u) ==
    /\ Call(t, "delete")
    /\ MayTouch(t, u)
    /\ Guarded => u \notin k.timer
    /\ k.stat[u] \notin {"FREE", "CLOSE"}
    /\ k' = IF k.stat[u] = "INIT" THEN k ELSE rt_schedule_remove_thread(k, u)
    /\ tgt' = [tgt EXCEPT ![t] = u]
    /\ Goto(t, "delete")
    /\ UNCHANGED isr

DeleteClose(t) ==
    /\ Executing(t)
    /\ pc[t] = "delete"
    /\ k' = CloseThread(k, tgt[t])
    /\ Goto(t, "run")
    /\ tgt' = [tgt EXCEPT ![t] = t]
    /\ UNCHANGED isr

Control(t, u, p) ==
    /\ Call(t, "control")
    /\ u \in AppThread
    /\ k.stat[u] \notin {"FREE", "CLOSE"}
    /\ k' = ChangePriority(k, u, p)
    /\ UNCHANGED <<pc, tgt, isr>>

EnterCritical(t) ==
    /\ Call(t, "critical")
    /\ k.lock < MaxNest
    /\ k' = rt_enter_critical(k)
    /\ UNCHANGED <<pc, tgt, isr>>

ExitCritical(t) ==
    /\ Call(t, "critical")
    /\ k.lock > 0
    /\ k' = rt_exit_critical(k)
    /\ IF k'.lock = 0 THEN Goto(t, "sched") ELSE UNCHANGED pc
    /\ UNCHANGED <<tgt, isr>>

\* One turn of rt_defunct_execute: dequeue a closed thread and free it.  The
\* fields of a freed control block mean nothing; they get fixed values.
Reap ==
    /\ Executing(Idle)
    /\ k.defunct # << >>
    /\ LET t == Head(k.defunct)
       IN  /\ k' = [_thread_init(rt_list_remove(k, t), t, PrioMax - 1)
                      EXCEPT !.stat[t] = "FREE"]
           /\ Goto(t, "run")
    /\ UNCHANGED <<tgt, isr>>

ThreadStep(t) ==
    \/ Exit(t) \/ Yield(t) \/ Sleep(t) \/ SleepReturn(t) \/ Suspend(t)
    \/ ResumeRegion(t) \/ DeleteClose(t)
    \/ EnterCritical(t) \/ ExitCritical(t)
    \/ \E u \in Thread :
          \/ Startup(t, u) \/ ResumeCheck(t, u) \/ DeleteRemove(t, u)
          \/ \E p \in Prio : Create(t, u, p) \/ Control(t, u, p)

Next ==
    \/ \E t \in Thread : ThreadStep(t)
    \/ Reap
    \/ ProcessorStep /\ UNCHANGED tgt

Spec == Init /\ [][Next]_schedVars

\* The hardware timer keeps interrupting and its handler returns.
FairSpec == Spec /\ WF_schedVars((TickEnter \/ TickLeave) /\ UNCHANGED tgt)

-----------------------------------------------------------------------------
(* Properties *)

\* Types of the variables (the thread and scheduler structures of rtdef.h).
TypeOK ==
    /\ k \in KState
    /\ pc \in [Thread -> PC]
    /\ tgt \in [Thread -> Thread]
    /\ isr \in {"none", "timers"}

\* Threads rt_thread_delete has taken off their list and not yet closed.
Leaving == {tgt[t] : t \in {u \in Thread : pc[u] = "delete"}}

\* The ready lists hold exactly the READY threads, each once and under its
\* current priority, and rt_thread_ready_priority_group has exactly the bits of
\* the lists that are not empty, after any interleaving of the paths that
\* change a thread's stat, list or priority.
ReadyQueueConsistent == ReadyListsOK(k, Leaving)

\* The defunct list holds each closed thread once until the idle thread frees
\* it, and nothing else (the single tlist node; _thread_exit, rt_thread_delete).
ClosedThreadsDefunct == DefunctOK(k)

\* The assertion of _thread_timeout: a thread timer that can expire belongs to
\* a suspended thread.
TimeoutAssertion == TimersOK(k)

\* All that holds of the kernel state between two regions.
KernelConsistent == KernelOK(k, Leaving)

\* Nobody waits for a lower-priority thread: when the processor is outside the
\* kernel and the scheduler is not locked, the current thread is RUNNING and
\* no ready thread has a higher priority (every path that readies a thread
\* ends in rt_schedule).
HighestRuns == InThread => HighestPriorityRuns(k)

\* Between rt_enter_critical and the matching rt_exit_critical the processor
\* stays with the thread, whatever the tick interrupt does.
NoSwitchWhenLocked == [][k.lock > 0 => k'.cur = k.cur]_schedVars

\* A thread that has been closed is never made ready again; it can only be
\* freed by the idle thread (rt_defunct_execute).
ClosedStaysClosed ==
    [][\A t \in Thread : k.stat[t] = "CLOSE" => k'.stat[t] \in {"CLOSE", "FREE"}]_schedVars

\* rt_thread_delete and rt_thread_detach: "The thread object will be removed
\* from thread queue": a closed thread is in no ready list.
ClosedLeavesQueue ==
    \A t \in Thread, p \in Prio : k.stat[t] = "CLOSE" => t \notin ToSet(k.ready[p])

\* Threads of one priority share the processor: a thread that stays ready is
\* kept waiting only by threads of a higher priority that keep running (the
\* time slice of rt_tick_increase, and the queueing of rt_schedule).
RoundRobin ==
    \A t \in Thread :
        <>[](k.stat[t] = "READY") => []<>(k.prio[k.cur] < k.prio[t])

-----------------------------------------------------------------------------
(***************************************************************************)
(* The inductive invariant behind the properties above, for threads that   *)
(* delete and resume others only with the scheduler locked (Guarded).      *)
(***************************************************************************)

\* A thread between the two regions of rt_thread_resume or rt_thread_delete
\* still has the processor, and its target is as the first region left it.
TwoRegionCalls ==
    \A t \in Thread : pc[t] \in {"resume", "delete"} =>
        /\ t = k.cur /\ k.lock > 0
        /\ tgt[t] \in AppThread \ {t}
        /\ pc[t] = "resume" => k.stat[tgt[t]] \in {"SUSPEND", "READY"}
        /\ pc[t] = "delete" => tgt[t] \notin k.timer

\* A closed thread that still has the processor is about to give it up.
ClosedLeaves == k.stat[k.cur] = "CLOSE" => pc[k.cur] = "sched" /\ k.lock = 0

\* No call is pending for the idle thread.
IdleRuns == pc[Idle] = "run"

\* The kernel state is consistent whatever the threads and the tick interrupt
\* have done, and every call that is under way can still complete correctly.
Inductive ==
    TypeOK /\ KernelConsistent /\ TwoRegionCalls /\ ClosedLeaves /\ IdleRuns

\* The strengthening of HighestRuns: also inside the tick interrupt.
Settled ==
    pc[k.cur] \notin DOMAIN After /\ k.lock = 0 => HighestPriorityRuns(k)

=============================================================================
