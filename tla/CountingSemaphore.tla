------------------------- MODULE CountingSemaphore -------------------------
(***************************************************************************)
(* What a semaphore promises, without threads, priorities at run time or   *)
(* lists: a counter of permits and a queue of the waiting threads in order *)
(* of arrival.  A permit released while threads wait goes to one of them,  *)
(* chosen by the queueing discipline, and to nobody else.                  *)
(***************************************************************************)
EXTENDS Naturals, Sequences, SequencesExt

CONSTANTS
    Client,     \* the threads
    Limit,        \* the largest count
    InitCount,     \* the initial count
    Fifo,       \* first come, first served; otherwise by urgency
    Urgency     \* a number for each thread, smaller is more urgent

VARIABLES
    count,      \* permits nobody holds
    queue,      \* waiting threads, longest waiting first
    outcome     \* of each thread's latest wait

absVars == <<count, queue, outcome>>

AbsInit ==
    /\ count = InitCount
    /\ queue = << >>
    /\ outcome = [t \in Client |-> "none"]

\* The waiting thread that gets the next permit: the first to arrive, among
\* the most urgent unless first come is first served.
IsNext(t) ==
    \E i \in 1 .. Len(queue) :
        /\ queue[i] = t
        /\ IF Fifo THEN i = 1
           ELSE \A j \in 1 .. Len(queue) :
                   \/ Urgency[t] < Urgency[queue[j]]
                   \/ Urgency[t] = Urgency[queue[j]] /\ i <= j

Leave(t, o) ==
    /\ queue' = RemoveFirst(queue, t)
    /\ outcome' = [outcome EXCEPT ![t] = o]

Acquire ==
    /\ count > 0
    /\ count' = count - 1
    /\ UNCHANGED <<queue, outcome>>

Wait(t) ==
    /\ count = 0
    /\ outcome[t] = "none"
    /\ queue' = Append(queue, t)
    /\ outcome' = [outcome EXCEPT ![t] = "waiting"]
    /\ UNCHANGED count

Grant(t) ==
    /\ IsNext(t)
    /\ Leave(t, "granted")
    /\ UNCHANGED count

Release ==
    /\ queue = << >>
    /\ count < Limit
    /\ count' = count + 1
    /\ UNCHANGED <<queue, outcome>>

\* A time limit or a deletion ends the wait without a permit.
Fail(t) ==
    /\ outcome[t] = "waiting"
    /\ Leave(t, "failed")
    /\ UNCHANGED count

Return(t) ==
    /\ outcome[t] \in {"granted", "failed"}
    /\ outcome' = [outcome EXCEPT ![t] = "none"]
    /\ UNCHANGED <<count, queue>>

\* A reset, which ends every wait, or a new semaphore in place of a deleted one.
Renew(v) ==
    /\ count' = v
    /\ queue' = << >>
    /\ outcome' = [t \in Client |->
                      IF outcome[t] = "waiting" THEN "failed" ELSE outcome[t]]

AbsNext ==
    \/ Acquire \/ Release
    \/ \E t \in Client : Wait(t) \/ Grant(t) \/ Fail(t) \/ Return(t)
    \/ \E v \in 0 .. Limit : Renew(v)

AbsSpec == AbsInit /\ [][AbsNext]_absVars

=============================================================================
