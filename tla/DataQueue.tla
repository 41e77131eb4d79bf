----------------------------- MODULE DataQueue -----------------------------
(***************************************************************************)
(* Data queues of the driver framework (dataqueue.c): a ring of items with *)
(* threads that wait to push and to pop, a low-water mark that decides     *)
(* when pushing threads are woken, and reset.                              *)
(***************************************************************************)
EXTENDS Tasks

CONSTANTS
    DqItem,         \* the items
    NoItem,
    DqSize,         \* the size of the ring
    DqLwm           \* the low-water mark

ASSUME DqConstants ==
    /\ DqSize \in Nat \ {0} /\ DqLwm \in Nat /\ NoItem \notin DqItem

VARIABLES
    dq,         \* the queue: ring, indices, flags, suspended threads, whether it
                \* exists, whether a reset has begun, and whether it is
                \* waking threads with the scheduler locked
    dqTask,     \* the threads' calls
    dqItem,     \* the item a thread is pushing, NoItem in rt_data_queue_pop
    dqEvent     \* what the last step did to the items, with the caller's item

dqVars == <<dq, dqTask, dqItem, dqEvent>>

DqHappens(call, m) == dqEvent' = [call |-> call, msg |-> m]
DqPauses == DqHappens("none", NoItem)

DqSuspended == ToSet(dq.push) \cup ToSet(dq.pop)
DqWoken == {t \in Task : dqTask[t].at = "wait" /\ dqTask[t].err = "ok"} \ DqSuspended

\* A queue as rt_data_queue_init leaves it.
DqFresh == [ring |-> [i \in 0..(DqSize - 1) |-> NoItem], get |-> 0, put |-> 0,
            empty |-> TRUE, full |-> FALSE, push |-> << >>, pop |-> << >>,
            alive |-> TRUE, begun |-> FALSE, waking |-> FALSE]

\* rt_data_queue_len.
DqLen(x) ==
    IF x.empty THEN 0
    ELSE IF x.put > x.get THEN x.put - x.get ELSE DqSize + x.put - x.get

DqStep(i) == IF i + 1 = DqSize THEN 0 ELSE i + 1

-----------------------------------------------------------------------------
\* Mutants: a thread is woken only by the first item; a full ring is not noticed.
Mut_store_wakes_if_empty(x, m) ==
    LET put == DqStep(x.put)
    IN [x EXCEPT !.ring[x.put] = m, !.put = put, !.empty = FALSE,
                 !.full = x.full \/ put = x.get,
                 !.pop = IF @ = << >> \/ ~x.empty THEN @ ELSE Tail(@)]
Mut_store_never_full(x, m) ==
    [x EXCEPT !.ring[x.put] = m, !.put = DqStep(x.put), !.empty = FALSE,
              !.pop = IF @ = << >> THEN @ ELSE Tail(@)]

\* rt_data_queue_push with room: the item is stored and a waiting thread woken.
DqStore(x, m) ==
    LET put == DqStep(x.put)
    IN [x EXCEPT !.ring[x.put] = m, !.put = put, !.empty = FALSE,
                 !.full = x.full \/ put = x.get,
                 !.pop = IF @ = << >> THEN @ ELSE Tail(@)]

\* rt_data_queue_pop with an item; a waiting thread is woken at the mark.  (The
\* place keeps the old item, which nobody reads before it is overwritten.)
DqFetch(x) ==
    LET get == DqStep(x.get)
        y == [x EXCEPT !.ring[x.get] = NoItem, !.get = get, !.full = FALSE,
                       !.empty = x.empty \/ x.put = get]
    IN IF DqLen(y) <= DqLwm /\ y.push # << >> THEN [y EXCEPT !.push = Tail(@)] ELSE y

DqFinish(t) ==
    /\ dqTask' = [dqTask EXCEPT ![t] = AtRest]
    /\ dqItem' = [dqItem EXCEPT ![t] = NoItem]

DqSuspend(t, time, m) ==
    /\ dqTask' = [dqTask EXCEPT ![t] = Waiting(time)]
    /\ dqItem' = [dqItem EXCEPT ![t] = m]

\* A wait fails; the item of a push that failed means nothing.
DqFail(t, err) ==
    /\ dqTask' = [dqTask EXCEPT ![t].err = err]
    /\ dqItem' = [dqItem EXCEPT ![t] = NoItem]

rt_data_queue_push(t, m, time) ==
    IF dq.full
    THEN /\ time # "none"
         /\ dq' = [dq EXCEPT !.push = Append(@, t)]
         /\ DqSuspend(t, time, m)
         /\ DqPauses
    ELSE dq' = DqStore(dq, m) /\ DqFinish(t) /\ DqHappens("send", m)

rt_data_queue_pop(t, time) ==
    IF dq.empty
    THEN /\ time # "none"
         /\ dq' = [dq EXCEPT !.pop = Append(@, t)]
         /\ DqSuspend(t, time, NoItem)
         /\ DqPauses
    ELSE dq' = DqFetch(dq) /\ DqFinish(t) /\ DqHappens("recv", dq.ring[dq.get])

\* While a reset wakes the threads the scheduler is locked, and only interrupts
\* (which cannot wait) use the queue.  DqReset says why there is no time limit
\* between the two steps of a reset.
DqPush(t, m, time) ==
    /\ dq.alive /\ dqTask[t].at = "idle"
    /\ (dq.waking => time = "none") /\ (dq.begun => time # "limited")
    /\ rt_data_queue_push(t, m, time)

DqPop(t, time) ==
    /\ dq.alive /\ dqTask[t].at = "idle"
    /\ (dq.waking => time = "none") /\ (dq.begun => time # "limited")
    /\ rt_data_queue_pop(t, time)

\* A thread that was woken tries again, with its whole time limit.
DqRetry(t) ==
    /\ t \in DqWoken /\ ~dq.waking
    /\ IF dqItem[t] = NoItem THEN rt_data_queue_pop(t, dqTask[t].time)
       ELSE rt_data_queue_push(t, dqItem[t], dqTask[t].time)

DqFails(t) ==
    /\ dqTask[t].at = "wait" /\ dqTask[t].err # "ok" /\ ~dq.waking
    /\ DqFinish(t) /\ DqPauses
    /\ UNCHANGED dq

DqTimeout(t) ==
    /\ t \in DqSuspended /\ dqTask[t].time = "limited"
    /\ dq' = [dq EXCEPT !.push = RemoveFirst(@, t), !.pop = RemoveFirst(@, t)]
    /\ DqFail(t, "timeout")
    /\ DqPauses

\* rt_data_queue_reset: the indices in one region, then, with the scheduler
\* locked, the threads one by one.  As the lists are looked at with interrupts
\* enabled, nobody waits with a time limit meanwhile.
DqReset ==
    /\ dq.alive /\ ~dq.begun /\ ~dq.waking
    /\ \A t \in Task : dqTask[t].at = "wait" => dqTask[t].time = "forever"
    /\ dq' = [dq EXCEPT !.ring = DqFresh.ring, !.get = 0, !.put = 0,
                        !.empty = TRUE, !.full = FALSE, !.begun = TRUE]
    /\ DqHappens("clear", NoItem)
    /\ UNCHANGED <<dqTask, dqItem>>

\* rt_enter_critical.
DqResetLocks ==
    /\ dq.begun
    /\ dq' = [dq EXCEPT !.begun = FALSE, !.waking = TRUE]
    /\ DqPauses
    /\ UNCHANGED <<dqTask, dqItem>>

DqResetTurn ==
    /\ dq.waking
    /\ IF dq.pop # << >>
       THEN dq' = [dq EXCEPT !.pop = Tail(@)] /\ DqFail(Head(dq.pop), "error")
       ELSE IF dq.push # << >>
       THEN dq' = [dq EXCEPT !.push = Tail(@)] /\ DqFail(Head(dq.push), "error")
       ELSE dq' = [dq EXCEPT !.waking = FALSE] /\ UNCHANGED <<dqTask, dqItem>>
    /\ DqPauses

\* rt_data_queue_deinit after its reset; nobody is about to use the queue.
DqDeinit ==
    /\ dq.alive /\ ~dq.begun /\ ~dq.waking /\ dq.empty
    /\ DqSuspended = {} /\ DqWoken = {}
    /\ dq' = [dq EXCEPT !.alive = FALSE]
    /\ DqPauses
    /\ UNCHANGED <<dqTask, dqItem>>

\* rt_data_queue_init.
DqCreate ==
    ~dq.alive /\ dq' = DqFresh /\ DqHappens("clear", NoItem) /\ UNCHANGED <<dqTask, dqItem>>

DqInit ==
    /\ dq = DqFresh
    /\ dqTask = [t \in Task |-> AtRest]
    /\ dqItem = [t \in Task |-> NoItem]
    /\ dqEvent = [call |-> "none", msg |-> NoItem]

DqNext ==
    \/ \E t \in Task :
        \/ \E time \in TaskTimes : DqPop(t, time) \/ \E m \in DqItem : DqPush(t, m, time)
        \/ DqRetry(t) \/ DqFails(t) \/ DqTimeout(t)
    \/ DqReset \/ DqResetLocks \/ DqResetTurn \/ DqDeinit \/ DqCreate

DqSpec == DqInit /\ [][DqNext]_dqVars

-----------------------------------------------------------------------------
\* No thread waits for an item while one is left that no woken thread comes
\* for; a thread that waits for room is woken at the latest when the queue is
\* empty, whatever the mark (dataqueue.c:160 and 278).  A reset that has begun
\* will wake everybody.
DqNoLostWakeup ==
    /\ ListOf(dq.push, dqTask) /\ ListOf(dq.pop, dqTask)
    /\ ~dq.waking =>
        /\ dq.pop # << >> =>
             DqLen(dq) <= Cardinality({t \in DqWoken : dqItem[t] = NoItem})
        /\ ~dq.begun /\ dq.push # << >> /\ dq.empty => \E t \in DqWoken : dqItem[t] # NoItem

\* The i-th place from get_index on, and the items in the order of their places.
DqPlace(x, i) == IF x.get + i - 1 < DqSize THEN x.get + i - 1 ELSE x.get + i - 1 - DqSize

DqItems(x) == [i \in 1..DqLen(x) |-> x.ring[DqPlace(x, i)]]

DqPromise == INSTANCE MessageChannel
    WITH Client <- Task, Msg <- DqItem, FrontMsg <- {}, Nothing <- NoItem,
         Bound <- DqSize, items <- DqItems(dq), hand <- [t \in Task |-> NoItem],
         event <- dqEvent

\* The ring with its two indices and two flags is a bounded queue: a push adds
\* its item at the end, a pop returns the first one, and only a reset or
\* rt_data_queue_init loses any (dataqueue.c:148, 267 and 372).
DqImplementsChannel == DqPromise!AbsSpec

DqFlags(x) == ~(x.empty /\ x.full) /\ (x.put = x.get <=> (x.empty \/ x.full))

DqState ==
    [ring : [0..(DqSize - 1) -> DqItem \cup {NoItem}], get : 0..(DqSize - 1),
     put : 0..(DqSize - 1), empty : BOOLEAN, full : BOOLEAN, push : Seq(Task),
     pop : Seq(Task), alive : BOOLEAN, begun : BOOLEAN, waking : BOOLEAN]

\* Types; the flags tell a full ring from an empty one; a list holds the threads
\* of one direction.
DqInductive ==
    /\ dq \in DqState
    /\ dqTask \in [Task -> TaskState]
    /\ dqItem \in [Task -> DqItem \cup {NoItem}]
    /\ DqFlags(dq)
    /\ \A t \in ToSet(dq.push) : dqItem[t] # NoItem
    /\ \A t \in ToSet(dq.pop) : dqItem[t] = NoItem
    /\ DqNoLostWakeup

=============================================================================
