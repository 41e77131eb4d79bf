----------------------------- MODULE Semaphore -----------------------------
(***************************************************************************)
(* The semaphore of ipc.c: threads that take it with and without a time    *)
(* limit, threads and interrupt handlers that release it, its reset and    *)
(* its deletion, with the tick interrupt between any two regions.          *)
(***************************************************************************)
EXTENDS Workers

CONSTANTS
    Sem,            \* the semaphore, a member of Obj
    Flag,           \* RT_IPC_FLAG_FIFO or RT_IPC_FLAG_PRIO
    SemMax,         \* RT_SEM_VALUE_MAX, the largest sem->value
    InitValue,      \* the value of a new semaphore
    Waits,          \* the time limits given to rt_sem_take
    Calls,          \* the other calls the threads make
    ResetValues,    \* the arguments of RT_IPC_CMD_RESET
    MaxHold,        \* bound on the permits a thread keeps
    DeleteTimed     \* the semaphore may be deleted while a thread waits for
                    \* it with a time limit

ASSUME SemAssumption ==
    /\ Sem \in Obj
    /\ Flag \in {"FIFO", "PRIO"}
    /\ SemMax \in Nat
    /\ InitValue \in 0 .. SemMax
    /\ Waits \subseteq {"no", "limited", "forever"}
    /\ ResetValues \subseteq Nat
    /\ MaxHold \in Nat
    /\ DeleteTimed \in BOOLEAN

VARIABLES
    value,      \* sem->value
    alive,      \* the semaphore object exists
    holds,      \* history: permits a thread has taken and not given back
    order       \* history: the waiting threads in order of arrival

semVars == <<k, pc, isr, value, alive, holds, order>>

SemPC == {"run", "sched", "sleep", "slept", "wait", "waited"} \cup Deleting

Init ==
    /\ k = KBoot
    /\ pc = [t \in Thread |-> "run"]
    /\ isr = "none"
    /\ value = InitValue
    /\ alive = TRUE
    /\ holds = [t \in Thread |-> 0]
    /\ order = << >>

\* A semaphore that exists and that nobody is deleting may be used.
Usable == alive /\ \A t \in Thread : pc[t] \notin Deleting

Call(t) == Calling(t) /\ Usable

-----------------------------------------------------------------------------

\* rt_sem_take with a permit available.
Take(t) ==
    /\ Call(t)
    /\ holds[t] < MaxHold
    /\ value > 0
    /\ value' = value - 1
    /\ holds' = [holds EXCEPT ![t] = @ + 1]
    /\ UNCHANGED <<k, pc, isr, alive, order>>

\* rt_sem_take that would have to wait and may not (rt_sem_trytake).
TakeRefused(t) ==
    /\ Call(t)
    /\ value = 0
    /\ "no" \in Waits
    /\ UNCHANGED semVars

\* rt_sem_take that waits, up to its rt_schedule.
TakeWait(t, w) ==
    /\ Call(t)
    /\ holds[t] < MaxHold
    /\ value = 0
    /\ w \in Waits \ {"no"}
    /\ k' = StartTimer(_ipc_list_suspend([k EXCEPT !.err[t] = "EOK"], Sem, t, Flag),
                       t, w = "limited")
    /\ Goto(t, "wait")
    /\ order' = Append(order, t)
    /\ UNCHANGED <<isr, value, alive, holds>>

\* Mutant: the error code is not looked at after the wait.
Mut_return_ignores_error(t) ==
    /\ Executing(t)
    /\ pc[t] = "waited"
    /\ holds' = [holds EXCEPT ![t] = @ + 1]
    /\ Goto(t, "run")
    /\ UNCHANGED <<k, isr, value, alive, order>>

\* rt_sem_take after its rt_schedule: the error code tells how the wait ended.
TakeReturn(t) ==
    /\ Executing(t)
    /\ pc[t] = "waited"
    /\ holds' = [holds EXCEPT ![t] = IF k.err[t] = "EOK" THEN @ + 1 ELSE @]
    /\ Goto(t, "run")
    /\ UNCHANGED <<k, isr, value, alive, order>>

\* Mutant: the value is increased although a thread has been resumed.
Mut_value_always == IF value < SemMax THEN value + 1 ELSE value

\* The region of rt_sem_release: the first waiting thread is resumed and the
\* value stays 0, or the value is increased, or it is at its limit (-RT_EFULL).
ReleasedKernel == IF k.wait[Sem] # << >> THEN _ipc_list_resume(k, Sem) ELSE k
ReleasedValue == IF k.wait[Sem] = << >> /\ value < SemMax THEN value + 1 ELSE value
ReleasedOrder == IF k.wait[Sem] = << >> THEN order ELSE RemoveFirst(order, Head(k.wait[Sem]))

\* rt_sem_release by a thread, of a permit it holds or as a signal to others.
Release(t) ==
    /\ Call(t)
    /\ \/ /\ "release" \in Calls
          /\ holds[t] > 0
          /\ holds' = [holds EXCEPT ![t] = @ - 1]
       \/ "signal" \in Calls /\ UNCHANGED holds
    /\ k' = ReleasedKernel
    /\ value' = ReleasedValue
    /\ IF k.wait[Sem] # << >> THEN Goto(t, "sched") ELSE UNCHANGED pc
    /\ order' = ReleasedOrder
    /\ UNCHANGED <<isr, alive>>

\* rt_sem_release by an interrupt handler, its rt_schedule included.
IsrRelease ==
    /\ "isr" \in Calls
    /\ isr = "none"
    /\ Usable
    /\ k' = IF k.wait[Sem] # << >> THEN rt_schedule(ReleasedKernel) ELSE k
    /\ value' = ReleasedValue
    /\ order' = ReleasedOrder
    /\ UNCHANGED <<pc, isr, alive, holds>>

\* A permit that was a signal is used up.
Consume(t) ==
    /\ Calling(t)
    /\ "signal" \in Calls
    /\ holds[t] > 0
    /\ holds' = [holds EXCEPT ![t] = @ - 1]
    /\ UNCHANGED <<k, pc, isr, value, alive, order>>

\* RT_IPC_CMD_RESET: every wait fails and the 16-bit value is set, in one region.
Reset(t, v) ==
    /\ Call(t)
    /\ "reset" \in Calls
    /\ k' = ResumeAll(k, Sem)
    /\ value' = v % (SemMax + 1)
    /\ order' = << >>
    /\ Goto(t, "sched")
    /\ UNCHANGED <<isr, alive, holds>>

\* rt_sem_delete and rt_sem_detach.
DeleteBegin(t) ==
    /\ Call(t)
    /\ "delete" \in Calls
    /\ DeleteTimed \/ ToSet(k.wait[Sem]) \cap k.timer = {}
    /\ Goto(t, "delall")
    /\ UNCHANGED <<k, isr, value, alive, holds, order>>

DeleteResume(t) ==
    /\ \/ ResumeAllLook(t, Sem) /\ UNCHANGED order
       \/ ResumeAllTurn(t, Sem) /\ order' = ReleasedOrder
    /\ UNCHANGED <<value, alive, holds>>

DeleteEnd(t) ==
    /\ Executing(t)
    /\ pc[t] = "delobj"
    /\ alive' = FALSE
    /\ Goto(t, "run")
    /\ UNCHANGED <<k, isr, value, holds, order>>

\* rt_sem_create and rt_sem_init.  The model has one semaphore: a new one takes
\* its place once every call on the deleted one has returned.
Create(t) ==
    /\ Calling(t)
    /\ ~alive
    /\ \A u \in Worker : ~Blocked(u)
    /\ alive' = TRUE
    /\ value' = InitValue
    /\ holds' = [u \in Thread |-> 0]
    /\ UNCHANGED <<k, pc, isr, order>>

Pause(t) ==
    /\ "sleep" \in Calls
    /\ Sleep(t) \/ SleepReturn(t)
    /\ UNCHANGED <<value, alive, holds, order>>

SemStep(t) ==
    \/ Take(t) \/ TakeRefused(t) \/ TakeReturn(t) \/ Release(t) \/ Consume(t)
    \/ DeleteBegin(t) \/ DeleteResume(t) \/ DeleteEnd(t)
    \/ Create(t) \/ Pause(t)
    \/ \E w \in Waits : TakeWait(t, w)
    \/ \E v \in ResetValues : Reset(t, v)

\* The scheduler and the tick interrupt; a thread whose timer expires gives up.
Reschedule(t) == Schedule(t) /\ UNCHANGED <<value, alive, holds, order>>

Tick == (TickEnter \/ TickLeave) /\ UNCHANGED <<value, alive, holds, order>>

Timeout(t) ==
    /\ TimerFire(t)
    /\ order' = RemoveFirst(order, t)
    /\ UNCHANGED <<value, alive, holds>>

Next ==
    \/ \E t \in Thread : SemStep(t) \/ Reschedule(t) \/ Timeout(t)
    \/ IsrRelease \/ Tick

Spec == Init /\ [][Next]_semVars

\* A thread goes on with the call it is in.
Completion(t) ==
    \/ TakeReturn(t) \/ DeleteResume(t) \/ DeleteEnd(t) \/ Reschedule(t)
    \/ SleepReturn(t) /\ UNCHANGED <<value, alive, holds, order>>

\* Interrupts keep coming and return; a thread that gets the processor again
\* and again makes progress: it completes the call it is in, and it gives back
\* the permits it holds.
FairSpec ==
    /\ Spec
    /\ WF_semVars(Tick)
    /\ \A t \in Worker :
          /\ SF_semVars(Completion(t))
          /\ SF_semVars(Release(t))

-----------------------------------------------------------------------------
(* Properties *)

\* Types of the variables; sem->value keeps within its 16 bits.
TypeOK ==
    /\ k \in KState
    /\ pc \in [Thread -> SemPC]
    /\ isr \in {"none", "timers"}
    /\ value \in 0 .. SemMax
    /\ alive \in BOOLEAN
    /\ holds \in [Thread -> 0 .. MaxHold]
    /\ order \in Seq(Thread)

\* No wakeup is lost: while a permit is available nobody waits for one, however
\* takes, releases, time-outs, resets and deletions interleave; and nobody is
\* left waiting for a semaphore that has been deleted.
NoVainWait == TypeOK /\ (value > 0 \/ ~alive => k.wait[Sem] = << >>)

\* A worker that is at its rt_schedule or past it, and is not waiting, has been
\* made ready; a worker that waits is suspended (no wait is left behind by a
\* tick interrupt between the region of rt_sem_take and its rt_schedule).
WaitersSuspended ==
    \A t \in Worker :
        /\ t \in ToSet(k.wait[Sem]) => pc[t] \in {"wait", "waited"} /\ k.stat[t] = "SUSPEND"
        /\ Blocked(t) /\ t \notin ToSet(k.wait[Sem]) => k.stat[t] \in {"READY", "RUNNING"}

\* The inductive invariant: the threads are as every service keeps them and wait
\* for this semaphore only, without an error so far, nobody is left behind by a
\* deletion, and order holds the waiting threads.
Served ==
    /\ k.prio = BootPrio
    /\ \A o \in Obj \ {Sem} : k.wait[o] = << >>
    /\ \A t \in ToSet(k.wait[Sem]) : k.err[t] = "EOK"
    /\ \A t \in Thread : pc[t] = "delobj" => k.wait[Sem] = << >>
    /\ \A t \in Thread : Blocked(t) => holds[t] < MaxHold
    /\ IsInjective(order) /\ ToSet(order) = ToSet(k.wait[Sem])

\* The suspend list is in the order in which permits are granted.
Ahead(a, b) == \E i, j \in 1 .. Len(order) : i < j /\ order[i] = a /\ order[j] = b

InGrantOrder ==
    \A i, j \in 1 .. Len(k.wait[Sem]) : i < j =>
        LET a == k.wait[Sem][i]
            b == k.wait[Sem][j]
        IN  IF Flag = "FIFO" THEN Ahead(a, b)
            ELSE \/ BootPrio[a] < BootPrio[b]
                 \/ BootPrio[a] = BootPrio[b] /\ Ahead(a, b)

Inductive == NoVainWait /\ ThreadsOK /\ Served /\ InGrantOrder

\* Under first come, first served, everyone who waits gets out of the queue when
\* the holders give their permits back.
NoStarvation == \A t \in Worker : t \in ToSet(k.wait[Sem]) ~> t \notin ToSet(k.wait[Sem])

\* The semaphore implements the counting semaphore: a release while threads
\* wait gives the permit to the longest waiting one of the highest priority (or
\* of all, with RT_IPC_FLAG_FIFO), a wait ends in success only by such a grant,
\* and a time-out never takes a permit away.
Outcome(t) ==
    IF ~Blocked(t) THEN "none"
    ELSE IF t \in ToSet(k.wait[Sem]) THEN "waiting"
    ELSE IF k.err[t] = "EOK" THEN "granted" ELSE "failed"

Abs == INSTANCE CountingSemaphore WITH
    Client <- Thread, Limit <- SemMax, InitCount <- InitValue,
    Fifo <- (Flag = "FIFO"), Urgency <- BootPrio,
    count <- value, queue <- order, outcome <- [t \in Thread |-> Outcome(t)]

ImplementsSemaphore == Abs!AbsSpec

\* Threads release only permits they hold, and nobody resets the semaphore.
PermitRules == Calls \cap {"signal", "isr", "reset"} = {}

\* One element for each permit a thread holds.
Held == {h \in Thread \X (1 .. MaxHold) : h[2] <= holds[h[1]]}

InFlight == {t \in Thread : Outcome(t) = "granted"}

\* Permits are neither made nor lost: those available, those held, and those
\* handed to threads that have not yet run again are the initial ones, however
\* hand-overs, time-outs and deletions interleave (under PermitRules).
PermitsConserved == alive => value + Cardinality(Held) + Cardinality(InFlight) = InitValue

=============================================================================
