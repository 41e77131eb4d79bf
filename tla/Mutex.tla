------------------------------- MODULE Mutex -------------------------------
(***************************************************************************)
(* The mutexes of ipc.c: recursive ownership, hand-over to the first       *)
(* waiting thread, and the priority inheritance that raises the owner to   *)
(* the priority of a waiting thread and restores it on release.            *)
(***************************************************************************)
EXTENDS Workers

CONSTANTS
    None,       \* RT_NULL as an owner
    HoldMax,    \* RT_MUTEX_HOLD_MAX
    Waits,      \* the time limits given to rt_mutex_take
    Calls       \* the other calls the threads make

ASSUME MutexAssumption ==
    /\ None \notin Thread
    /\ HoldMax \in Nat \ {0}
    /\ Waits \subseteq {"no", "limited", "forever"}

VARIABLES
    value,      \* mutex->value
    owner,      \* mutex->owner
    hold,       \* mutex->hold
    orig,       \* mutex->original_priority
    alive,      \* the mutex objects that exist
    arg,        \* the mutex a thread's unfinished call is about
    inside      \* history: takes that have returned RT_EOK to a thread, less
                \* its releases

mutexVars == <<k, pc, isr, value, owner, hold, orig, alive, arg, inside>>
mutexOnly == <<value, owner, hold, orig, alive, arg, inside>>

MutexPC == {"run", "sched", "sleep", "slept", "wait", "waited"} \cup Deleting

\* original_priority of a free mutex (0xFF).
NoPrio == 255

Init ==
    /\ k = KBoot
    /\ pc = [t \in Thread |-> "run"]
    /\ isr = "none"
    /\ value = [m \in Obj |-> 1]
    /\ owner = [m \in Obj |-> None]
    /\ hold = [m \in Obj |-> 0]
    /\ orig = [m \in Obj |-> NoPrio]
    /\ alive = Obj
    /\ arg = [t \in Thread |-> None]
    /\ inside = [m \in Obj |-> [t \in Thread |-> 0]]

\* A thread calls a function of a mutex that exists and that nobody deletes.
Call(t, m) ==
    /\ Calling(t)
    /\ m \in alive
    /\ \A u \in Thread : pc[u] \in Deleting => arg[u] # m

-----------------------------------------------------------------------------
(* rt_mutex_take *)

\* The caller owns the mutex already; at the limit it gets -RT_EFULL.
TakeAgain(t, m) ==
    /\ Call(t, m)
    /\ owner[m] = t
    /\ k' = [k EXCEPT !.err[t] = "EOK"]
    /\ IF hold[m] < HoldMax
       THEN /\ hold' = [hold EXCEPT ![m] = @ + 1]
            /\ inside' = [inside EXCEPT ![m][t] = @ + 1]
       ELSE UNCHANGED <<hold, inside>>
    /\ UNCHANGED <<pc, isr, value, owner, orig, alive, arg>>

TakeFree(t, m) ==
    /\ Call(t, m)
    /\ owner[m] # t
    /\ value[m] > 0
    /\ k' = [k EXCEPT !.err[t] = "EOK"]
    /\ value' = [value EXCEPT ![m] = @ - 1]
    /\ owner' = [owner EXCEPT ![m] = t]
    /\ orig' = [orig EXCEPT ![m] = k.prio[t]]
    /\ hold' = [hold EXCEPT ![m] = @ + 1]
    /\ inside' = [inside EXCEPT ![m][t] = @ + 1]
    /\ UNCHANGED <<pc, isr, alive, arg>>

TakeRefused(t, m) ==
    /\ Call(t, m)
    /\ owner[m] # t
    /\ value[m] = 0
    /\ "no" \in Waits
    /\ k' = [k EXCEPT !.err[t] = "ETIMEOUT"]
    /\ UNCHANGED <<pc, isr, value, owner, hold, orig, alive, arg, inside>>

\* Mutant: nobody inherits a priority.
Mut_no_inheritance(t, m) == k

\* The owner inherits the priority of a thread that is about to wait.
Inherit(t, m) ==
    IF k.prio[t] < k.prio[owner[m]]
    THEN ChangePriority(k, owner[m], k.prio[t])
    ELSE k

TakeWait(t, m, w) ==
    /\ Call(t, m)
    /\ owner[m] # t
    /\ value[m] = 0
    /\ w \in Waits \ {"no"}
    /\ k' = StartTimer(
                _ipc_list_suspend([Inherit(t, m) EXCEPT !.err[t] = "EOK"], m, t, "PRIO"),
                t, w = "limited")
    /\ Goto(t, "wait")
    /\ arg' = [arg EXCEPT ![t] = m]
    /\ UNCHANGED <<isr, value, owner, hold, orig, alive, inside>>

\* Mutant: the error code is not looked at after the wait.
Mut_return_ignores_error(t) ==
    /\ Executing(t)
    /\ pc[t] = "waited"
    /\ inside' = [inside EXCEPT ![arg[t]][t] = @ + 1]
    /\ Goto(t, "run")
    /\ arg' = [arg EXCEPT ![t] = None]
    /\ UNCHANGED <<k, isr, value, owner, hold, orig, alive>>

\* rt_mutex_take after its rt_schedule.
TakeReturn(t) ==
    /\ Executing(t)
    /\ pc[t] = "waited"
    /\ inside' = IF k.err[t] = "EOK" THEN [inside EXCEPT ![arg[t]][t] = @ + 1] ELSE inside
    /\ Goto(t, "run")
    /\ arg' = [arg EXCEPT ![t] = None]
    /\ UNCHANGED <<k, isr, value, owner, hold, orig, alive>>

-----------------------------------------------------------------------------
(* rt_mutex_release *)

ReleaseRefused(t, m) ==
    /\ Call(t, m)
    /\ "misuse" \in Calls
    /\ owner[m] # t
    /\ k' = [k EXCEPT !.err[t] = "ERROR"]
    /\ UNCHANGED <<pc, isr, value, owner, hold, orig, alive, arg, inside>>

\* A release that is not the outermost one.
ReleaseInner(t, m) ==
    /\ Call(t, m)
    /\ owner[m] = t
    /\ hold[m] > 1
    /\ hold' = [hold EXCEPT ![m] = @ - 1]
    /\ inside' = [inside EXCEPT ![m][t] = @ - 1]
    /\ UNCHANGED <<k, pc, isr, value, owner, orig, alive, arg>>

\* Mutant: the owner keeps the priority it inherited.
Mut_no_restore(m) == k

\* The kernel state after the owner has its original priority back.
Restore(m) ==
    IF orig[m] # k.prio[owner[m]] THEN ChangePriority(k, owner[m], orig[m]) ELSE k

\* The outermost release with threads waiting: the first becomes the owner.
ReleaseTo(t, m) ==
    /\ Call(t, m)
    /\ owner[m] = t
    /\ hold[m] = 1
    /\ k.wait[m] # << >>
    /\ LET u == Head(k.wait[m])
       IN  /\ owner' = [owner EXCEPT ![m] = u]
           /\ orig' = [orig EXCEPT ![m] = k.prio[u]]
    /\ k' = _ipc_list_resume(Restore(m), m)
    /\ inside' = [inside EXCEPT ![m][t] = @ - 1]
    /\ Goto(t, "sched")
    /\ UNCHANGED <<isr, value, hold, alive, arg>>

\* The outermost release with nobody waiting; there is no rt_schedule, not
\* even when the priority of the caller has been lowered.
ReleaseFree(t, m) ==
    /\ Call(t, m)
    /\ owner[m] = t
    /\ hold[m] = 1
    /\ k.wait[m] = << >>
    /\ k' = Restore(m)
    /\ value' = [value EXCEPT ![m] = @ + 1]
    /\ owner' = [owner EXCEPT ![m] = None]
    /\ orig' = [orig EXCEPT ![m] = NoPrio]
    /\ hold' = [hold EXCEPT ![m] = @ - 1]
    /\ inside' = [inside EXCEPT ![m][t] = @ - 1]
    /\ UNCHANGED <<pc, isr, alive, arg>>

-----------------------------------------------------------------------------
(* rt_mutex_delete, rt_mutex_detach, rt_mutex_create, rt_mutex_init *)

\* A mutex is deleted by its owner or while it is free, and while nobody waits
\* for it with a time limit.
DeleteBegin(t, m) ==
    /\ Call(t, m)
    /\ "delete" \in Calls
    /\ owner[m] \in {t, None}
    /\ ToSet(k.wait[m]) \cap k.timer = {}
    /\ Goto(t, "delall")
    /\ arg' = [arg EXCEPT ![t] = m]
    /\ UNCHANGED <<k, isr, value, owner, hold, orig, alive, inside>>

DeleteResume(t) ==
    /\ pc[t] \in Deleting
    /\ ResumeAllLook(t, arg[t]) \/ ResumeAllTurn(t, arg[t])
    /\ UNCHANGED <<value, owner, hold, orig, alive, arg, inside>>

DeleteEnd(t) ==
    /\ Executing(t)
    /\ pc[t] = "delobj"
    /\ alive' = alive \ {arg[t]}
    /\ inside' = [inside EXCEPT ![arg[t]] = [u \in Thread |-> 0]]
    /\ arg' = [arg EXCEPT ![t] = None]
    /\ Goto(t, "run")
    /\ UNCHANGED <<k, isr, value, owner, hold, orig>>

Create(t, m) ==
    /\ Calling(t)
    /\ m \in Obj \ alive
    /\ alive' = alive \cup {m}
    /\ value' = [value EXCEPT ![m] = 1]
    /\ owner' = [owner EXCEPT ![m] = None]
    /\ orig' = [orig EXCEPT ![m] = NoPrio]
    /\ hold' = [hold EXCEPT ![m] = 0]
    /\ UNCHANGED <<k, pc, isr, arg, inside>>

Pause(t) ==
    /\ "sleep" \in Calls
    /\ Sleep(t) \/ SleepReturn(t)
    /\ UNCHANGED mutexOnly

Release(t, m) == ReleaseInner(t, m) \/ ReleaseTo(t, m) \/ ReleaseFree(t, m)

MutexStep(t, m) ==
    \/ TakeAgain(t, m) \/ TakeFree(t, m) \/ TakeRefused(t, m)
    \/ \E w \in Waits : TakeWait(t, m, w)
    \/ ReleaseRefused(t, m) \/ Release(t, m)
    \/ DeleteBegin(t, m) \/ Create(t, m)

Next ==
    \/ \E t \in Thread, m \in Obj : MutexStep(t, m)
    \/ \E t \in Thread : TakeReturn(t) \/ DeleteResume(t) \/ DeleteEnd(t) \/ Pause(t)
    \/ ProcessorStep /\ UNCHANGED mutexOnly

Spec == Init /\ [][Next]_mutexVars

\* A thread goes on with the call it is in.
Completion(t) ==
    \/ TakeReturn(t)
    \/ (Schedule(t) \/ SleepReturn(t)) /\ UNCHANGED mutexOnly

\* Interrupts keep coming and return, and thread timers expire; a thread that
\* gets the processor again and again completes its call and releases the
\* mutexes it holds.
FairSpec ==
    /\ Spec
    /\ WF_mutexVars((TickEnter \/ TickLeave) /\ UNCHANGED mutexOnly)
    /\ \A t \in Worker :
          /\ SF_mutexVars(TimerFire(t) /\ UNCHANGED mutexOnly)
          /\ SF_mutexVars(Completion(t))
          /\ \A m \in Obj : SF_mutexVars(Release(t, m))

-----------------------------------------------------------------------------
(* Properties *)

\* Types of the variables (struct rt_mutex of rtdef.h).
TypeOK ==
    /\ k \in KState
    /\ pc \in [Thread -> MutexPC]
    /\ isr \in {"none", "timers"}
    /\ value \in [Obj -> 0 .. 1]
    /\ owner \in [Obj -> Thread \cup {None}]
    /\ hold \in [Obj -> 0 .. HoldMax]
    /\ orig \in [Obj -> Prio \cup {NoPrio}]
    /\ alive \subseteq Obj
    /\ arg \in [Thread -> Obj \cup {None}]
    /\ inside \in [Obj -> [Thread -> 0 .. HoldMax]]

\* The fields of a mutex agree: it is free, owned by nobody, waited for by
\* nobody and without an original priority, or it is owned and held.
OwnerConsistent ==
    \A m \in alive :
        IF owner[m] = None
        THEN value[m] = 1 /\ hold[m] = 0 /\ orig[m] = NoPrio /\ k.wait[m] = << >>
        ELSE value[m] = 0 /\ hold[m] > 0 /\ orig[m] \in Prio

\* What threads believe is what the mutex says, and its fields agree: only the
\* owner has returned from rt_mutex_take with RT_EOK, as often as hold says,
\* except for the owner that a release has chosen and that has not run yet.  In
\* particular two threads are never inside together, and a thread whose wait has
\* timed out is not the owner.
HoldersAgree ==
    /\ OwnerConsistent
    /\ \A m \in alive, t \in Thread :
        inside[m][t] =
            IF owner[m] # t \/ (Blocked(t) /\ arg[t] = m) THEN 0 ELSE hold[m]

\* A thread whose wait ended without an error owns the mutex it waited for, and
\* one whose wait failed does not.
WaitOutcome ==
    \A t \in Thread : Blocked(t) /\ t \notin ToSet(k.wait[arg[t]]) =>
        (owner[arg[t]] = t) = (k.err[t] = "EOK")

\* Priority inheritance: the owner is at least as urgent as every thread that
\* waits for it (one mutex).
Inheritance ==
    \A m \in alive : \A t \in ToSet(k.wait[m]) :
        owner[m] # None => k.prio[owner[m]] <= k.prio[t]

\* "change the owner thread to original priority": a thread that owns no mutex
\* has the priority it was created with.
PriorityRestored ==
    \A t \in Worker : (\A m \in Obj : owner[m] # t) => k.prio[t] = BootPrio[t]

\* The suspend lists and ready lists stay consistent while inheritance moves
\* owners between priorities.
KernelConsistent == TypeOK /\ KernelOK(k, {})

\* The inductive invariant.  The threads are as every service keeps them; a
\* thread on a suspend list waits there for the mutex of its call, does not own
\* it and has no error yet; an owner that has not run yet holds its mutex once;
\* and a mutex is deleted by one thread, while no other owns it.
GoneEmpty ==
    \A m \in Obj \ alive : k.wait[m] = << >> /\ \A t \in Thread : inside[m][t] = 0

WaitersLinked ==
    \A m \in Obj : \A t \in ToSet(k.wait[m]) :
        arg[t] = m /\ owner[m] # t /\ k.err[t] = "EOK"

GranteesHold ==
    \A t \in Thread : Blocked(t) =>
        /\ arg[t] \in Obj
        /\ owner[arg[t]] = t => arg[t] \in alive /\ hold[arg[t]] = 1

DeletersAlone ==
    \A t \in Thread : pc[t] \in Deleting =>
        /\ arg[t] \in alive /\ owner[arg[t]] \in {t, None}
        /\ pc[t] = "delobj" => k.wait[arg[t]] = << >>
        /\ \A u \in Thread \ {t} : pc[u] \in Deleting => arg[u] # arg[t]

Engaged ==
    /\ \A m \in Obj : owner[m] # Idle
    /\ GoneEmpty /\ WaitersLinked /\ GranteesHold /\ DeletersAlone

Inductive == TypeOK /\ ThreadsOK /\ HoldersAgree /\ WaitOutcome /\ Engaged

\* With one mutex that is never deleted, priorities follow its ownership: every
\* thread but the owner has the priority it was created with, the owner gets its
\* own back, the suspend list is sorted, and the owner is as urgent as its head.
Single == "delete" \notin Calls /\ \E m : Obj = {m}

Sorted(s, p) == \A i, j \in 1 .. Len(s) : i < j => p[s[i]] <= p[s[j]]

Lent ==
    /\ alive = Obj /\ \A t \in Thread : pc[t] \notin Deleting
    /\ \A t \in Thread : (\A m \in Obj : owner[m] # t) => k.prio[t] = BootPrio[t]
    /\ \A m \in Obj : owner[m] # None => orig[m] = BootPrio[owner[m]]
    /\ \A m \in Obj : Sorted(k.wait[m], k.prio)
    /\ Inheritance

\* No unbounded priority inversion: the most urgent thread gets out of the queue
\* of a mutex although a less urgent thread that needs no mutex never stops.
NoInversion ==
    \A m \in Obj : First \in ToSet(k.wait[m]) ~> First \notin ToSet(k.wait[m])

=============================================================================
