----------------------------- MODULE WorkQueue -----------------------------
(***************************************************************************)
(* A work queue of the driver framework (workqueue.c): clients submit work *)
(* items, at once or after a delay, and cancel them; a work thread runs    *)
(* them one by one; the soft timer of a delayed item moves it to the queue *)
(* from the timer thread.  A region with interrupts disabled, or with the  *)
(* scheduler locked, is one step; a call has several.                      *)
(***************************************************************************)
EXTENDS Naturals, FiniteSets, Sequences, SequencesExt

CONSTANTS
    WorkClient,     \* the threads that call the queue's functions
    Work,           \* the work items
    NoWork,
    WorkUrgency,    \* the urgency (0 first) of "handler", "client", "worker"
    DelayRedo       \* clients may submit an item at once that waits for its delay

ASSUME WorkConstants ==
    /\ WorkUrgency \in [{"handler", "client", "worker"} -> Nat]
    /\ DelayRedo \in BOOLEAN /\ NoWork \notin Work

VARIABLES
    wq,         \* the queue: work_list, delayed_list, work_current, the work
                \* thread's stat
    workItem,   \* the items: PENDING, SUBMITTING, workqueue # RT_NULL, timer on
    workerAt,   \* the work thread: "loop", "func", "ack"
    handler,    \* the timer callback: where it is, its item and its queue # RT_NULL
    clientAt,   \* a client: where it is and its item
    cancelled   \* history: items cancelled with RT_EOK and not submitted since

workVars == <<wq, workItem, workerAt, handler, clientAt, cancelled>>

DelayedItems == ToSet(wq.delayed)
QueuedItems == ToSet(wq.list) \cup DelayedItems

-----------------------------------------------------------------------------
(* Who may run: no more urgent thread is inside one of its calls. *)

InsideCall(kind) ==
    CASE kind = "handler" -> handler.at # "idle"
      [] kind = "client" ->
           \E c \in WorkClient : clientAt[c].at \notin {"idle", "waits"}
      [] kind = "worker" -> wq.stat = "ready"

MayRun(kind) ==
    \A k \in DOMAIN WorkUrgency :
        WorkUrgency[k] < WorkUrgency[kind] => ~InsideCall(k)

-----------------------------------------------------------------------------
(* Regions *)

Unlist(x, w) ==
    [x EXCEPT !.list = RemoveFirst(@, w),
              !.delayed = RemoveFirst(@, w)]

\* rt_thread_resume when the work thread waits for work.
WakeWorker(x) ==
    IF x.current = NoWork /\ x.stat = "suspend"
    THEN [x EXCEPT !.stat = "ready"] ELSE x

\* Mutant: the item is not taken off the list it is on.
Mut_submit_no_unlist(w) ==
    LET free == wq.current # w
    IN /\ wq' = WakeWorker(IF free THEN [wq EXCEPT !.list = Append(@, w)] ELSE wq)
       /\ workItem' = [workItem EXCEPT ![w].pending = free, ![w].owned = @ \/ free]
       /\ cancelled' = IF free THEN cancelled \ {w} ELSE cancelled

\* _workqueue_submit_work with ticks = 0.
SubmitNow(w) ==
    LET off == Unlist(wq, w)
        free == wq.current # w
    IN /\ wq' = WakeWorker(IF free THEN [off EXCEPT !.list = Append(@, w)] ELSE off)
       /\ workItem' = [workItem EXCEPT ![w].pending = free, ![w].owned = @ \/ free]
       /\ cancelled' = IF free THEN cancelled \ {w} ELSE cancelled

\* The same with a delay; the timer is started after the region.
SubmitDelayed(w) ==
    /\ wq' = [Unlist(wq, w) EXCEPT !.delayed = Append(@, w)]
    /\ workItem' = [workItem EXCEPT ![w] = [pending |-> FALSE, submitting |-> TRUE,
                                    owned |-> TRUE, timer |-> FALSE]]
    /\ cancelled' = cancelled \ {w}

CancelledItem == [pending |-> FALSE, submitting |-> FALSE, owned |-> FALSE,
                  timer |-> FALSE]

\* _workqueue_cancel_work: the timer is stopped if the item waits for it.
CancelItem(i) ==
    [pending |-> FALSE, submitting |-> FALSE, owned |-> FALSE,
     timer |-> i.timer /\ ~i.submitting]

\* Mutant: the item stays on its list.
Mut_cancel_keeps_list(w) ==
    /\ wq' = wq
    /\ workItem' = [workItem EXCEPT ![w] = CancelItem(@)]
    /\ cancelled' = IF wq.current # w THEN cancelled \cup {w} ELSE cancelled

CancelRegion(w) ==
    /\ wq' = Unlist(wq, w)
    /\ workItem' = [workItem EXCEPT ![w] = CancelItem(@)]
    /\ cancelled' = IF wq.current # w THEN cancelled \cup {w} ELSE cancelled

-----------------------------------------------------------------------------
(* Clients.  Two calls at the same time are about different items. *)

WorkGoes(c, l, w) == clientAt' = [clientAt EXCEPT ![c] = [at |-> l, work |-> w]]
WorkBack(c) == WorkGoes(c, "idle", NoWork)

WorkBegins(c, w) ==
    /\ MayRun("client") /\ clientAt[c].at = "idle"
    /\ \A d \in WorkClient :
        clientAt[d].work = w => clientAt[d].at \in {"idle", "waits"}
    /\ UNCHANGED <<workerAt, handler>>

WorkAt(c, l) ==
    /\ MayRun("client") /\ clientAt[c].at = l
    /\ UNCHANGED <<workerAt, handler>>

\* rt_workqueue_dowork, and rt_workqueue_submit_work with 0 ticks.
DoWork(c, w) ==
    /\ WorkBegins(c, w)
    /\ workItem[w].submitting => DelayRedo
    /\ SubmitNow(w) /\ UNCHANGED clientAt

\* rt_workqueue_submit_work: the region, then rt_timer_start.
SubmitWork(c, w) ==
    /\ WorkBegins(c, w)
    /\ SubmitDelayed(w) /\ WorkGoes(c, "start", w)

SubmitStart(c) ==
    /\ WorkAt(c, "start")
    /\ workItem' = [workItem EXCEPT ![clientAt[c].work].timer = TRUE]
    /\ WorkBack(c) /\ UNCHANGED <<wq, cancelled>>

\* rt_workqueue_urgent_work sets neither PENDING nor the item's queue.
UrgentWork(c, w) ==
    /\ WorkBegins(c, w)
    /\ workItem[w].submitting => DelayRedo
    /\ wq' = WakeWorker([Unlist(wq, w) EXCEPT !.list = <<w>> \o @])
    /\ cancelled' = cancelled \ {w}
    /\ UNCHANGED <<workItem, clientAt>>

CancelWork(c, w) == WorkBegins(c, w) /\ CancelRegion(w) /\ UNCHANGED clientAt

\* rt_workqueue_cancel_work_sync: the test, then the wait or the cancelling.
SyncTest(c, w) ==
    /\ WorkBegins(c, w)
    /\ WorkGoes(c, IF wq.current = w THEN "take" ELSE "cancel", w)
    /\ UNCHANGED <<wq, workItem, cancelled>>

\* rt_sem_take(&queue->sem, RT_WAITING_FOREVER): the value is always 0.
SyncTake(c) ==
    /\ WorkAt(c, "take")
    /\ WorkGoes(c, "waits", clientAt[c].work) /\ UNCHANGED <<wq, workItem, cancelled>>

SyncCancel(c) == WorkAt(c, "cancel") /\ CancelRegion(clientAt[c].work) /\ WorkBack(c)

\* rt_workqueue_cancel_all_work, with the scheduler locked.
CancelAll(c) ==
    /\ MayRun("client") /\ clientAt[c].at = "idle" /\ QueuedItems # {}
    /\ \A d \in WorkClient : clientAt[d].at \in {"idle", "waits"}
    /\ wq' = [wq EXCEPT !.list = << >>, !.delayed = << >>]
    /\ workItem' = [w \in Work |-> IF w \in QueuedItems THEN CancelItem(workItem[w])
                                   ELSE workItem[w]]
    /\ cancelled' = cancelled \cup (QueuedItems \ {wq.current})
    /\ UNCHANGED <<workerAt, handler, clientAt>>

WorkCall(c) ==
    \/ \E w \in Work :
        DoWork(c, w) \/ SubmitWork(c, w) \/ UrgentWork(c, w) \/ CancelWork(c, w)
            \/ SyncTest(c, w)
    \/ CancelAll(c)

WorkContinues(c) == SubmitStart(c) \/ SyncTake(c) \/ SyncCancel(c)

-----------------------------------------------------------------------------
(* The timer thread calls _delayed_work_timeout_handler. *)

TimerExpires(w) ==
    /\ handler.at = "idle" /\ workItem[w].timer
    /\ workItem' = [workItem EXCEPT ![w].timer = FALSE]
    /\ handler' = [at |-> "read", work |-> w, queue |-> FALSE]
    /\ UNCHANGED <<wq, workerAt, clientAt, cancelled>>

\* queue = work->workqueue and RT_ASSERT(queue != RT_NULL).
HandlerRead ==
    /\ MayRun("handler") /\ handler.at = "read"
    /\ handler' = [handler EXCEPT !.at = "region",
                                  !.queue = workItem[handler.work].owned]
    /\ UNCHANGED <<wq, workItem, workerAt, clientAt, cancelled>>

HandlerRegion ==
    LET w == handler.work
        off == Unlist(wq, w)
        free == wq.current # w
    IN /\ MayRun("handler") /\ handler.at = "region" /\ handler.queue
       /\ wq' = WakeWorker(IF free THEN [off EXCEPT !.list = Append(@, w)] ELSE off)
       /\ workItem' = [workItem EXCEPT ![w].submitting = FALSE, ![w].timer = FALSE,
                               ![w].pending = @ \/ free]
       /\ handler' = [at |-> "idle", work |-> NoWork, queue |-> FALSE]
       /\ UNCHANGED <<workerAt, clientAt, cancelled>>

TimeoutHandler == HandlerRead \/ HandlerRegion

-----------------------------------------------------------------------------
(* The work thread: _workqueue_thread_entry. *)

WorkerIs(l) ==
    /\ MayRun("worker") /\ wq.stat = "ready" /\ workerAt = l
    /\ UNCHANGED <<handler, cancelled>>

WorkWait ==
    /\ WorkerIs("loop") /\ wq.list = << >>
    /\ wq' = [wq EXCEPT !.stat = "suspend"]
    /\ UNCHANGED <<workItem, workerAt, clientAt>>

WorkTake ==
    /\ WorkerIs("loop") /\ wq.list # << >>
    /\ wq' = [wq EXCEPT !.list = Tail(@), !.current = Head(wq.list)]
    /\ workItem' = [workItem EXCEPT ![Head(wq.list)].pending = FALSE,
                                    ![Head(wq.list)].owned = FALSE]
    /\ workerAt' = "func"
    /\ UNCHANGED clientAt

\* The function of the item may wait for something.
WorkBlocks ==
    /\ WorkerIs("func")
    /\ wq' = [wq EXCEPT !.stat = "suspend"]
    /\ UNCHANGED <<workItem, workerAt, clientAt>>

WorkUnblocks ==
    /\ workerAt = "func" /\ wq.stat = "suspend"
    /\ wq' = [wq EXCEPT !.stat = "ready"]
    /\ workerAt' = "return"
    /\ UNCHANGED <<workItem, handler, clientAt, cancelled>>

WorkDone ==
    /\ WorkerIs("func") \/ WorkerIs("return")
    /\ wq' = [wq EXCEPT !.current = NoWork]
    /\ workerAt' = "ack"
    /\ UNCHANGED <<workItem, clientAt>>

\* Mutant: the semaphore is released once.
Mut_ack_one ==
    LET Waiting == {c \in WorkClient : clientAt[c].at = "waits"}
    IN /\ WorkerIs("ack")
       /\ IF Waiting = {} THEN UNCHANGED clientAt
          ELSE WorkBack(CHOOSE c \in Waiting : TRUE)
       /\ workerAt' = "loop"
       /\ UNCHANGED <<wq, workItem>>

\* _workqueue_work_completion: everyone who waits for the semaphore goes on.
WorkAck ==
    /\ WorkerIs("ack")
    /\ clientAt' = [c \in WorkClient |-> IF clientAt[c].at = "waits"
                                         THEN [at |-> "idle", work |-> NoWork]
                                         ELSE clientAt[c]]
    /\ workerAt' = "loop"
    /\ UNCHANGED <<wq, workItem>>

WorkThread == WorkWait \/ WorkTake \/ WorkDone \/ WorkAck

-----------------------------------------------------------------------------
\* rt_workqueue_create and rt_work_init.
WorkInit ==
    /\ wq = [list |-> << >>, delayed |-> << >>, current |-> NoWork, stat |-> "ready"]
    /\ workItem = [w \in Work |-> CancelledItem]
    /\ workerAt = "loop"
    /\ handler = [at |-> "idle", work |-> NoWork, queue |-> FALSE]
    /\ clientAt = [c \in WorkClient |-> [at |-> "idle", work |-> NoWork]]
    /\ cancelled = {}

WorkNext ==
    \/ \E c \in WorkClient : WorkCall(c) \/ WorkContinues(c)
    \/ \E w \in Work : TimerExpires(w)
    \/ TimeoutHandler \/ WorkThread \/ WorkBlocks \/ WorkUnblocks

\* Ready threads run in the end, timers expire and functions return.
WorkFairness ==
    /\ \A c \in WorkClient : WF_workVars(WorkContinues(c))
    /\ \A w \in Work : WF_workVars(TimerExpires(w))
    /\ WF_workVars(TimeoutHandler) /\ WF_workVars(WorkThread)
    /\ WF_workVars(WorkUnblocks)

WorkSpec == WorkInit /\ [][WorkNext]_workVars /\ WorkFairness

-----------------------------------------------------------------------------
(* Properties *)

WorkTypeOK ==
    /\ wq \in [list : Seq(Work), delayed : Seq(Work), current : Work \cup {NoWork},
              stat : {"ready", "suspend"}]
    /\ workItem \in [Work -> [pending : BOOLEAN, submitting : BOOLEAN,
                          owned : BOOLEAN, timer : BOOLEAN]]
    /\ workerAt \in {"loop", "func", "return", "ack"}
    /\ handler \in [at : {"idle", "read", "region"}, work : Work \cup {NoWork},
                    queue : BOOLEAN]
    /\ clientAt \in [WorkClient -> [at : {"idle", "start", "take", "waits", "cancel"},
                           work : Work \cup {NoWork}]]
    /\ cancelled \subseteq Work

\* The assertion of the timer callback: a delayed item whose timer runs out
\* still belongs to a queue (workqueue.c:186).
DelayedHasQueue ==
    handler.at = "region" => handler.queue

\* An item is queued once, in one list; an item that waits for its delay is in
\* the delayed list and its timer runs, is about to be started or is being
\* handled; PENDING is set only in the work list; an item in a list is waited
\* for by a thread that runs or will be woken.
WorkConsistent ==
    /\ WorkTypeOK
    /\ IsInjective(wq.list) /\ IsInjective(wq.delayed)
    /\ ToSet(wq.list) \cap DelayedItems = {}
    /\ \A w \in Work :
        /\ workItem[w].submitting <=> w \in DelayedItems
        /\ workItem[w].submitting <=>
             (workItem[w].timer \/ handler.work = w
                \/ \E c \in WorkClient : clientAt[c] = [at |-> "start", work |-> w])
        /\ workItem[w].pending => w \in ToSet(wq.list)
        /\ w \in DelayedItems => workItem[w].owned
    /\ wq.stat = "suspend" /\ workerAt = "loop" => wq.list = << >>

\* What was cancelled with RT_EOK is neither queued nor running until it is
\* submitted again, whatever the timer thread was doing (workqueue.c:188).
CancelledStays == \A w \in cancelled : w \notin QueuedItems /\ wq.current # w

ClientsQuiet == UNCHANGED workVars \/ \A c \in WorkClient : ~WorkCall(c)

\* Once the clients make no more calls, the queue becomes empty, delays and
\* all, and every rt_workqueue_cancel_work_sync returns (workqueue.c:409).
WorkProgress ==
    <>[][ClientsQuiet]_workVars =>
        <>[](QueuedItems = {} /\ \A c \in WorkClient : clientAt[c].at # "waits")

\* The priorities of the configuration (RT_TIMER_THREAD_PRIO 4, the work thread
\* 23), and items submitted as the interface asks for.
WorkRules ==
    /\ WorkUrgency["handler"] < WorkUrgency["client"]
    /\ WorkUrgency["client"] < WorkUrgency["worker"]
    /\ ~DelayRedo

\* The properties above, with what they need from each other: who is inside a
\* call has an item, no two clients the same one; a timer that is to be started
\* does not run; work_current is set while a function runs.
WorkInductive ==
    /\ WorkConsistent /\ CancelledStays
    /\ handler.at # "idle" <=> handler.work \in Work
    /\ \A c \in WorkClient : clientAt[c].at # "idle" => clientAt[c].work \in Work
    /\ \A c, d \in WorkClient :
        /\ clientAt[c].at \notin {"idle", "waits"} /\ clientAt[d].at \notin {"idle", "waits"}
        /\ clientAt[c].work = clientAt[d].work
        => c = d
    /\ \A c \in WorkClient :
        clientAt[c].at = "start" => /\ ~workItem[clientAt[c].work].timer
                                   /\ handler.work # clientAt[c].work
    /\ handler.at # "idle" => ~workItem[handler.work].timer
    /\ workerAt \in {"loop", "ack"} <=> wq.current = NoWork

=============================================================================
