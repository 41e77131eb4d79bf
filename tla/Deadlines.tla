----------------------------- MODULE Deadlines -----------------------------
(***************************************************************************)
(* What the timers promise, without lists, tick counters that wrap or a    *)
(* timer thread: the time that is left to each armed timer counts down; a  *)
(* hard timer is called in the tick in which its time is up, never earlier *)
(* or later (in the next tick when it is started between two ticks with no *)
(* time at all), a soft timer in that tick or later; of several timers     *)
(* that are up, the one with the earlier deadline is called first, and of  *)
(* those with the same deadline the one that was started first.            *)
(***************************************************************************)
EXTENDS Integers, Sequences, SequencesExt

CONSTANTS
    Clock,      \* the timers
    Threaded,   \* the ones a thread calls (soft timers)
    Nobody,     \* no timer
    Longest     \* the longest time a timer is started with

VARIABLES
    armed,      \* the armed timers, in the order in which they were started
    left,       \* the time left to a timer, 0 for one that is not armed
    calling,    \* the tick interrupt is looking for hard timers to call
    running     \* the timer whose callback runs, per kind (soft = TRUE)

deadlineVars == <<armed, left, calling, running>>

DeadlinesInit ==
    /\ armed = << >>
    /\ left = [t \in Clock |-> 0]
    /\ calling = FALSE
    /\ running = [soft \in BOOLEAN |-> Nobody]

Armed == Range(armed)

Without(t) == RemoveFirst(armed, t)

Arm(t, n) ==
    /\ armed' = Append(Without(t), t)
    /\ left' = [left EXCEPT ![t] = n]

Disarm(t) ==
    /\ armed' = Without(t)
    /\ left' = [left EXCEPT ![t] = 0]

\* Timers are started, started again and stopped at any time.
Begin(t, n) == Arm(t, n) /\ UNCHANGED <<calling, running>>
Drop(t) == Disarm(t) /\ UNCHANGED <<calling, running>>

\* Time passes only when no hard timer is overdue; at the end of the last tick
\* none was due, so only one that was started since may have no time left.
Pass ==
    /\ ~calling
    /\ \A t \in Armed \ Threaded : left[t] >= 0
    /\ left' = [t \in Clock |-> IF t \in Armed THEN left[t] - 1 ELSE 0]
    /\ calling' = TRUE
    /\ UNCHANGED <<armed, running>>

\* The i-th armed timer comes before every other one of its kind.
Foremost(i) ==
    \A j \in DOMAIN armed \ {i} :
        (armed[j] \in Threaded <=> armed[i] \in Threaded)
            => \/ left[armed[i]] < left[armed[j]]
               \/ left[armed[i]] = left[armed[j]] /\ i < j

Call(i) ==
    LET t == armed[i]
        soft == t \in Threaded
    IN /\ Foremost(i)
       /\ running[soft] = Nobody
       /\ (calling <=> ~soft) /\ left[t] <= 0
       /\ Disarm(t)
       /\ running' = [running EXCEPT ![soft] = t]
       /\ UNCHANGED calling

\* A callback ends; a periodic timer is armed again.
Return(soft) ==
    /\ running[soft] # Nobody
    /\ running' = [running EXCEPT ![soft] = Nobody]
    /\ \/ UNCHANGED <<armed, left>>
       \/ \E n \in 0..Longest : Arm(running[soft], n)
    /\ UNCHANGED calling

CallsDone ==
    /\ calling /\ running[FALSE] = Nobody
    /\ \A t \in Armed \ Threaded : left[t] > 0
    /\ calling' = FALSE
    /\ UNCHANGED <<armed, left, running>>

DeadlinesNext ==
    \/ \E t \in Clock : Drop(t) \/ \E n \in 0..Longest : Begin(t, n)
    \/ \E i \in DOMAIN armed : Call(i)
    \/ \E soft \in BOOLEAN : Return(soft)
    \/ Pass \/ CallsDone

DeadlinesSpec == DeadlinesInit /\ [][DeadlinesNext]_deadlineVars

=============================================================================
