----------------------------- MODULE Processor -----------------------------
(***************************************************************************)
(* The single processor: which thread executes, the rt_schedule that ends  *)
(* most kernel calls, and the tick interrupt that may come between any two *)
(* steps of a thread.  The modules of the kernel's services extend this    *)
(* one with the calls a thread can make.                                   *)
(*                                                                         *)
(* A step is one region with interrupts disabled.  A thread that has left  *)
(* such a region and has not yet called rt_schedule is at one of the pc    *)
(* labels in DOMAIN After: the tick interrupt may come first.  A thread    *)
(* takes steps only while it is rt_current_thread, whatever its stat says. *)
(***************************************************************************)
EXTENDS Kernel

VARIABLES
    k,      \* the kernel state
    pc,     \* where each thread is; "run" is application code
    isr     \* "none"; "timers": the tick interrupt is in rt_timer_check

cpuVars == <<k, pc, isr>>

\* The pc labels with a pending rt_schedule, and where each continues.
After == [sched |-> "run", sleep |-> "slept", wait |-> "waited"]

Executing(t) == isr = "none" /\ k.cur = t

Goto(t, l) == pc' = [pc EXCEPT ![t] = l]

Schedule(t) ==
    /\ Executing(t)
    /\ pc[t] \in DOMAIN After
    /\ k' = rt_schedule(k)
    /\ Goto(t, After[pc[t]])
    /\ UNCHANGED isr

\* rt_tick_increase up to the call of rt_timer_check.
TickEnter ==
    /\ isr = "none"
    /\ k' = TimeSlice(k)
    /\ isr' = "timers"
    /\ UNCHANGED pc

\* rt_timer_check finds the timer of t expired.
TimerFire(t) ==
    /\ isr = "timers"
    /\ t \in k.timer
    /\ k' = _thread_timeout(k, t)
    /\ UNCHANGED <<pc, isr>>

TickLeave ==
    /\ isr = "timers"
    /\ isr' = "none"
    /\ UNCHANGED <<k, pc>>

Interrupt == TickEnter \/ TickLeave \/ \E t \in Thread : TimerFire(t)

ProcessorStep == Interrupt \/ \E t \in Thread : Schedule(t)

\* The current thread is in application code, or about to return to it, and
\* may be preempted there.
InThread == isr = "none" /\ pc[k.cur] \notin DOMAIN After /\ k.lock = 0

=============================================================================
