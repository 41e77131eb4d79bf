----------------------------- MODULE WaitQueue -----------------------------
(***************************************************************************)
(* Wait queues of the driver framework (waitqueue.c): a flag that          *)
(* remembers a wakeup and a list of nodes on the stacks of the waiting     *)
(* threads.  Operators on one queue; Pipe composes two of them.            *)
(***************************************************************************)
EXTENDS Sequences

EmptyWaitQueue == [woken |-> FALSE, nodes |-> << >>]

\* rt_wqueue_wakeup: the flag is set; the first node is removed and its thread
\* resumed (the default wake function accepts every key).
rt_wqueue_wakeup(x) ==
    [woken |-> TRUE, nodes |-> IF x.nodes = << >> THEN << >> ELSE Tail(x.nodes)]

\* Mutant: a wakeup that came before the wait is forgotten.
Mut_wait_forgets(x) == FALSE

\* rt_wqueue_wait: a wakeup that has come already ends the wait at once;
\* otherwise the thread is suspended with its node at the end of the list.
WaitEndsAtOnce(x) == x.woken

WaitSuspends(x, t) == [x EXCEPT !.nodes = Append(@, t)]

\* After the wait, and after one that ended at once, the flag is cleared.
WaitEnds(x) == [x EXCEPT !.woken = FALSE]

Suspended(x, t) == \E i \in DOMAIN x.nodes : x.nodes[i] = t

=============================================================================
