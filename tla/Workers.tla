------------------------------ MODULE Workers ------------------------------
(***************************************************************************)
(* Application threads that exist from the start: they were created and    *)
(* started before rt_system_scheduler_start.  The modules of the IPC       *)
(* objects extend this one.                                                *)
(***************************************************************************)
EXTENDS Processor

CONSTANTS
    First,      \* the thread rt_system_scheduler_start switches to
    BootPrio,   \* the priority each thread was created with
    BootReady   \* the ready lists without First, in the order of the startups

ASSUME BootAssumption ==
    /\ First \in Thread \ {Idle}
    /\ BootPrio \in [Thread -> Prio]
    /\ BootPrio[Idle] = PrioMax - 1
    /\ \A t \in Thread : BootPrio[First] <= BootPrio[t]
    /\ BootReady \in [Prio -> Seq(Thread)]
    /\ \A p \in Prio :
          /\ IsInjective(BootReady[p])
          /\ ToSet(BootReady[p]) = {t \in Thread \ {First} : BootPrio[t] = p}

Worker == Thread \ {Idle}

\* The state rt_system_scheduler_start leaves.
KBoot ==
    [ cur       |-> First,
      stat      |-> [t \in Thread |-> IF t = First THEN "RUNNING" ELSE "READY"],
      yield     |-> {},
      prio      |-> BootPrio,
      remaining |-> [t \in Thread |-> InitTick],
      err       |-> [t \in Thread |-> "EOK"],
      timer     |-> {},
      ready     |-> BootReady,
      group     |-> {p \in Prio : BootReady[p] # << >>},
      wait      |-> [o \in Obj |-> << >>],
      defunct   |-> << >>,
      lock      |-> 0 ]

\* t is in application code and calls the kernel.
Calling(t) == t \in Worker /\ Executing(t) /\ pc[t] = "run"

\* rt_thread_sleep by a worker, and its return.
Sleep(t) ==
    /\ Calling(t)
    /\ k' = rt_thread_sleep(k, t)
    /\ Goto(t, "sleep")
    /\ UNCHANGED isr

SleepReturn(t) ==
    /\ Executing(t)
    /\ pc[t] = "slept"
    /\ k' = [k EXCEPT !.err[t] = IF @ = "ETIMEOUT" THEN "EOK" ELSE @]
    /\ Goto(t, "run")
    /\ UNCHANGED isr

\* t waits, or has been woken and has not yet looked at its error code.
Blocked(t) == pc[t] \in {"wait", "waited"}

-----------------------------------------------------------------------------
(* _ipc_list_resume_all as the delete and detach functions call it: the list *)
(* is looked at with interrupts enabled, and its first thread is taken in a  *)
(* region of its own.                                                        *)

Deleting == {"delall", "delone", "delobj"}

\* The same loop inside a reset, where interrupts stay disabled throughout: one
\* turn for each thread of the list.
ResumeAll(s, o) ==
    LET after[n \in 0 .. Len(s.wait[o])] ==
            IF n = 0 THEN s ELSE ResumeWithError(after[n - 1], o)
    IN  after[Len(s.wait[o])]

ResumeAllLook(t, o) ==
    /\ Executing(t)
    /\ pc[t] = "delall"
    /\ Goto(t, IF k.wait[o] = << >> THEN "delobj" ELSE "delone")
    /\ UNCHANGED <<k, isr>>

\* The first thread of an empty list is undefined: the model stops there.
ResumeAllTurn(t, o) ==
    /\ Executing(t)
    /\ pc[t] = "delone"
    /\ k.wait[o] # << >>
    /\ k' = ResumeWithError(k, o)
    /\ Goto(t, "delall")
    /\ UNCHANGED isr

-----------------------------------------------------------------------------
\* What every service keeps true of its threads, whatever interrupts a call:
\* the kernel state is consistent; a thread is linked in a suspend list only
\* inside a waiting call, and is suspended only there or in rt_thread_sleep; a
\* suspended thread that still has the processor is about to give it up.
ThreadsOK ==
    /\ KernelOK(k, {}) /\ k.lock = 0
    /\ pc[Idle] = "run"
    /\ \A t \in Thread :
          /\ k.stat[t] \in {"READY", "RUNNING", "SUSPEND"}
          /\ \A o \in Obj : t \in ToSet(k.wait[o]) => Blocked(t)
          /\ k.stat[t] = "SUSPEND" =>
                \/ pc[t] \in {"sleep", "slept"}
                \/ \E o \in Obj : t \in ToSet(k.wait[o])
    /\ k.stat[k.cur] = "SUSPEND" => pc[k.cur] \in {"sleep", "wait"}

=============================================================================
