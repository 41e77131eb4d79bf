------------------------------- MODULE Tasks -------------------------------
(***************************************************************************)
(* Threads that wait for an object, without the processor: every region    *)
(* with interrupts disabled is one step, and the steps of different        *)
(* threads and interrupts follow each other in any order.  A thread that   *)
(* is suspended for an object is in one of the object's lists; it leaves   *)
(* the list when it is resumed or when its timer runs out (Kernel shows    *)
(* that for the scheduler itself).                                         *)
(***************************************************************************)
EXTENDS Naturals, FiniteSets, Sequences, SequencesExt

CONSTANTS
    Task,           \* the threads
    TaskTimes       \* the time limits they use: "none", "limited", "forever"

ASSUME TaskConstants ==
    /\ TaskTimes \subseteq {"none", "limited", "forever"}
    /\ IsFiniteSet(Task)

\* A thread inside a call: where it is ("idle", "call", "wait"), the limit that
\* is left, thread->error ("ok", "timeout", "error").
AtRest == [at |-> "idle", time |-> "none", err |-> "ok"]

Waiting(time) == [at |-> "wait", time |-> time, err |-> "ok"]

TaskState == [at : {"idle", "call", "wait"}, time : {"none", "limited", "forever"},
              err : {"ok", "timeout", "error"}]

\* The list holds each thread once, and only threads that wait.
ListOf(list, th) ==
    /\ IsInjective(list)
    /\ \A t \in ToSet(list) : th[t].at = "wait" /\ th[t].err = "ok"

=============================================================================
