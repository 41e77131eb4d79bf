------------------------------ MODULE MemPool ------------------------------
(***************************************************************************)
(* Memory pools (mempool.c): blocks of one size in a linked list, threads  *)
(* that wait for a block and try again after they are woken, and the       *)
(* deletion of the pool.                                                   *)
(***************************************************************************)
EXTENDS Tasks

CONSTANTS
    Block,          \* the blocks
    MpKeep          \* bound: the blocks a thread holds at a time

ASSUME MpConstants == IsFiniteSet(Block)

VARIABLES
    mp,         \* the pool: block_list, block_free_count, suspend_thread, and
                \* whether it exists ("yes", "deleting", "no")
    mpTask,     \* the threads' calls
    mpHeld      \* the blocks a thread has been given

mpVars == <<mp, mpTask, mpHeld>>

MpWaiters == ToSet(mp.wait)
MpWoken == {t \in Task : mpTask[t].at = "wait" /\ mpTask[t].err = "ok"} \ MpWaiters

-----------------------------------------------------------------------------
\* The rest of rt_mp_alloc once a block is there.
MpTake(t) ==
    /\ mp' = [mp EXCEPT !.free = Tail(@), !.count = @ - 1]
    /\ mpHeld' = [mpHeld EXCEPT ![t] = @ \cup {Head(mp.free)}]
    /\ mpTask' = [mpTask EXCEPT ![t] = AtRest]

\* Its loop: without a block, the call ends, or the thread joins the list in front.
MpNoBlock(t, time) ==
    /\ IF time = "none"
       THEN /\ mpTask' = [mpTask EXCEPT ![t] = AtRest]
            /\ UNCHANGED mp
       ELSE /\ mpTask' = [mpTask EXCEPT ![t] = Waiting(time)]
            /\ mp' = [mp EXCEPT !.wait = <<t>> \o @]
    /\ UNCHANGED mpHeld

rt_mp_alloc(t, time) == IF mp.count = 0 THEN MpNoBlock(t, time) ELSE MpTake(t)

MpAlloc(t, time) ==
    /\ mp.alive = "yes" /\ mpTask[t].at = "idle"
    /\ Cardinality(mpHeld[t]) < MpKeep
    /\ rt_mp_alloc(t, time)

\* A thread that was woken: an error ends the call; otherwise the time it has
\* waited is taken from its limit, and it tries again.
MpRetry(t) ==
    /\ t \in MpWoken
    /\ \E time \in IF mpTask[t].time = "limited" THEN {"limited", "none"}
                   ELSE {mpTask[t].time} : rt_mp_alloc(t, time)

MpFails(t) ==
    /\ mpTask[t].at = "wait" /\ mpTask[t].err # "ok"
    /\ mpTask' = [mpTask EXCEPT ![t] = AtRest]
    /\ UNCHANGED <<mp, mpHeld>>

\* The timer of a waiting thread.
MpTimeout(t) ==
    /\ t \in MpWaiters /\ mpTask[t].time = "limited"
    /\ mp' = [mp EXCEPT !.wait = RemoveFirst(@, t)]
    /\ mpTask' = [mpTask EXCEPT ![t].err = "timeout"]
    /\ UNCHANGED mpHeld

\* Mutant: no thread is woken.
Mut_free_no_wakeup(t, b) ==
    /\ mp.alive = "yes" /\ mpTask[t].at = "idle" /\ b \in mpHeld[t]
    /\ mp' = [mp EXCEPT !.free = <<b>> \o @, !.count = @ + 1]
    /\ mpHeld' = [mpHeld EXCEPT ![t] = @ \ {b}]
    /\ UNCHANGED mpTask

\* rt_mp_free: the block goes to the list and the first waiting thread is woken.
MpFree(t, b) ==
    /\ mp.alive = "yes" /\ mpTask[t].at = "idle" /\ b \in mpHeld[t]
    /\ mp' = [mp EXCEPT !.free = <<b>> \o @, !.count = @ + 1,
                        !.wait = IF @ = << >> THEN @ ELSE Tail(@)]
    /\ mpHeld' = [mpHeld EXCEPT ![t] = @ \ {b}]
    /\ UNCHANGED mpTask

\* rt_mp_delete and rt_mp_detach wake the threads one by one, with an error, and
\* then free the pool.  Nobody is about to use it: no call runs but waits, and
\* the waits have no time limit (the list is looked at with interrupts enabled).
MpDeleteBegin ==
    /\ mp.alive = "yes"
    /\ MpWoken = {}
    /\ \A t \in Task : mpTask[t].at = "wait" => mpTask[t].time = "forever"
    /\ mp' = [mp EXCEPT !.alive = "deleting"]
    /\ UNCHANGED <<mpTask, mpHeld>>

MpDeleteTurn ==
    /\ mp.alive = "deleting" /\ mp.wait # << >>
    /\ mp' = [mp EXCEPT !.wait = Tail(@)]
    /\ mpTask' = [mpTask EXCEPT ![Head(mp.wait)].err = "error"]
    /\ UNCHANGED mpHeld

MpDeleteEnd ==
    /\ mp.alive = "deleting" /\ mp.wait = << >>
    /\ mp' = [mp EXCEPT !.alive = "no", !.free = << >>, !.count = 0]
    /\ mpHeld' = [t \in Task |-> {}]
    /\ UNCHANGED mpTask

\* rt_mp_create and rt_mp_init.
MpCreate ==
    /\ mp.alive = "no"
    /\ mp' = [free |-> SetToSeq(Block), count |-> Cardinality(Block),
              wait |-> << >>, alive |-> "yes"]
    /\ UNCHANGED <<mpTask, mpHeld>>

MpInit ==
    /\ mp = [free |-> SetToSeq(Block), count |-> Cardinality(Block),
             wait |-> << >>, alive |-> "yes"]
    /\ mpTask = [t \in Task |-> AtRest]
    /\ mpHeld = [t \in Task |-> {}]

MpNext ==
    \/ \E t \in Task :
        \/ \E time \in TaskTimes : MpAlloc(t, time)
        \/ MpRetry(t) \/ MpFails(t) \/ MpTimeout(t)
        \/ \E b \in Block : MpFree(t, b)
    \/ MpDeleteBegin \/ MpDeleteTurn \/ MpDeleteEnd \/ MpCreate

MpSpec == MpInit /\ [][MpNext]_mpVars

-----------------------------------------------------------------------------
\* Every block of a pool is free or held by one thread, and block_free_count
\* agrees with the linked list (mempool.c:388 and 435).
MpBlocksConserved ==
    mp.alive # "no" =>
        /\ mp.count = Len(mp.free) /\ IsInjective(mp.free)
        /\ \A b \in Block : b \in ToSet(mp.free) <=> \A t \in Task : b \notin mpHeld[t]
        /\ \A t, u \in Task : t # u => mpHeld[t] \cap mpHeld[u] = {}

\* Blocks are conserved, and nobody waits in vain: while threads wait, every
\* free block has a woken thread that will try to take it, even if others took
\* blocks or gave up meanwhile (mempool.c:335, 441), and no thread is left
\* waiting for a pool that is gone (mempool.c:277).
MpNoVainWait ==
    /\ MpBlocksConserved
    /\ ListOf(mp.wait, mpTask)
    /\ mp.wait # << >> => mp.count <= Cardinality(MpWoken)
    /\ mp.alive = "no" => \A t \in Task : mpTask[t].at = "wait" => mpTask[t].err # "ok"

\* Types, and what a deletion relies on: nobody is woken to use the pool again,
\* no wait ends by itself, and nothing of the old pool is left for a new one.
MpInductive ==
    /\ mp \in [free : Seq(Block), count : Nat, wait : Seq(Task),
               alive : {"yes", "deleting", "no"}]
    /\ mpTask \in [Task -> TaskState]
    /\ mpHeld \in [Task -> SUBSET Block]
    /\ MpNoVainWait
    /\ mp.alive = "deleting" =>
        MpWoken = {} /\ \A t \in MpWaiters : mpTask[t].time = "forever"
    /\ mp.alive = "no" => \A t \in Task : mpHeld[t] = {}

=============================================================================
