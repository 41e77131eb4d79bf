----------------------------- MODULE Completion -----------------------------
(***************************************************************************)
(* Completions of the driver framework (completion.c): one thread waits    *)
(* for a flag that another thread or an interrupt sets.                    *)
(***************************************************************************)
EXTENDS Tasks

CONSTANT CmplWaiter     \* the one thread that waits ("only one thread can
                        \* suspend on complete"); the others call done

ASSUME CmplConstants == CmplWaiter \in Task

VARIABLES
    cmpl,       \* the completion: flag = RT_COMPLETED, suspended_list
    cmplTask    \* the threads' calls

cmplVars == <<cmpl, cmplTask>>

\* rt_completion_wait: a flag that is set is taken at once.
CmplWait(t, time) ==
    /\ t = CmplWaiter /\ cmplTask[t].at = "idle"
    /\ IF cmpl.done
       THEN cmpl' = [cmpl EXCEPT !.done = FALSE] /\ UNCHANGED cmplTask
       ELSE /\ time # "none"
            /\ cmpl' = [cmpl EXCEPT !.wait = Append(@, t)]
            /\ cmplTask' = [cmplTask EXCEPT ![t] = Waiting(time)]

\* After the wait, with or without an error, the flag is cleared.
CmplWaited(t) ==
    /\ cmplTask[t].at = "wait" /\ t \notin ToSet(cmpl.wait)
    /\ cmpl' = [cmpl EXCEPT !.done = FALSE]
    /\ cmplTask' = [cmplTask EXCEPT ![t] = AtRest]

CmplTimeout(t) ==
    /\ t \in ToSet(cmpl.wait) /\ cmplTask[t].time = "limited"
    /\ cmpl' = [cmpl EXCEPT !.wait = RemoveFirst(@, t)]
    /\ cmplTask' = [cmplTask EXCEPT ![t].err = "timeout"]

\* rt_completion_done looks at the flag first, with interrupts enabled.
CmplDoneTest(t) ==
    /\ t # CmplWaiter /\ cmplTask[t].at = "idle" /\ ~cmpl.done
    /\ cmplTask' = [cmplTask EXCEPT ![t].at = "call"]
    /\ UNCHANGED cmpl

\* Mutant: the waiting thread is not resumed.
Mut_done_no_resume(t) ==
    /\ cmplTask[t].at = "call"
    /\ cmpl' = [cmpl EXCEPT !.done = TRUE]
    /\ cmplTask' = [cmplTask EXCEPT ![t] = AtRest]

CmplDoneRegion(t) ==
    /\ cmplTask[t].at = "call"
    /\ cmpl' = [done |-> TRUE, wait |-> IF cmpl.wait = << >> THEN << >> ELSE Tail(cmpl.wait)]
    /\ cmplTask' = [cmplTask EXCEPT ![t] = AtRest]

\* rt_completion_init, by the waiting thread before it starts a transfer.
CmplReset ==
    /\ cmplTask[CmplWaiter].at = "idle"
    /\ cmpl' = [done |-> FALSE, wait |-> << >>]
    /\ UNCHANGED cmplTask

CmplInit ==
    /\ cmpl = [done |-> FALSE, wait |-> << >>]
    /\ cmplTask = [t \in Task |-> AtRest]

CmplNext ==
    \/ \E t \in Task :
        \/ \E time \in TaskTimes : CmplWait(t, time)
        \/ CmplWaited(t) \/ CmplTimeout(t) \/ CmplDoneTest(t) \/ CmplDoneRegion(t)
    \/ CmplReset

CmplSpec == CmplInit /\ [][CmplNext]_cmplVars

-----------------------------------------------------------------------------
\* A set flag and a suspended thread exclude each other, although
\* rt_completion_done reads the flag with interrupts enabled (completion.c:129);
\* a wait that returns RT_EOK returns because of a flag that is still set.
CmplNoMissedDone ==
    /\ ListOf(cmpl.wait, cmplTask)
    /\ cmpl.done => cmpl.wait = << >>
    /\ \A t \in Task :
        cmplTask[t].at = "wait" /\ cmplTask[t].err = "ok" /\ t \notin ToSet(cmpl.wait)
            => cmpl.done

\* Types; only CmplWaiter waits, and only the others are inside done.
CmplInductive ==
    /\ cmpl \in [done : BOOLEAN, wait : Seq(Task)]
    /\ cmplTask \in [Task -> TaskState]
    /\ \A t \in Task : cmplTask[t].at = "wait" => t = CmplWaiter
    /\ CmplNoMissedDone

=============================================================================
