------------------------------- MODULE Timer -------------------------------
(***************************************************************************)
(* The timers of RT-Thread (timer.c): two lists ordered by deadline, ticks *)
(* that wrap, the tick interrupt that calls the hard timers with           *)
(* interrupts disabled, and the timer thread that calls the soft timers    *)
(* with interrupts enabled and sleeps, by means of its own hard timer,     *)
(* until the next one is due.  RT_TIMER_SKIP_LIST_LEVEL is 1, so a list is *)
(* one ordered row.  Callbacks and application threads start, stop,        *)
(* control, delete and create timers in any order.                         *)
(***************************************************************************)
EXTENDS Integers, FiniteSets, Sequences, SequencesExt

CONSTANTS
    AppTimer,       \* the timers of the application
    SoftTimer,      \* the ones with RT_TIMER_FLAG_SOFT_TIMER
    ThreadTimer,    \* the timer thread's own timer (a hard timer)
    NoTimer,
    TickRange,      \* RT_TICK_MAX + 1: ticks are counted modulo TickRange
    TimerTimes,     \* the times timers are given
    BootTimers,     \* the times and kinds the timers may have at first
    SoftUrgent,     \* soft timers may be started by interrupts and by threads
                    \* that preempt the timer thread
    SoftGrace,      \* by how many ticks the timer thread may be held up
    TimerOpBound    \* bound on the operations of the application

Timers == AppTimer \cup {ThreadTimer}
HalfRange == (TickRange - 1) \div 2 \* RT_TICK_MAX / 2

ASSUME TimerConstants ==
    /\ TickRange \in Nat /\ TickRange > 4
    /\ TimerTimes \subseteq 0..(HalfRange - 1) \* RT_ASSERT(time < RT_TICK_MAX / 2)
    /\ SoftTimer \subseteq AppTimer
    /\ ThreadTimer \notin AppTimer /\ NoTimer \notin Timers
    /\ BootTimers \subseteq [AppTimer -> [init : TimerTimes, periodic : BOOLEAN]]
    /\ SoftUrgent \in BOOLEAN /\ SoftGrace \in Nat /\ TimerOpBound \in Nat

VARIABLES
    tick,           \* rt_tick
    tmr,            \* timers, lists and the timer thread's state (a TimerState)
    tickIsr,        \* the tick interrupt: "idle", "check" or "callback"
    threadPc,       \* where the timer thread is
    next_timeout,   \* its next_timeout
    stopping,       \* the timer of a thread inside rt_timer_stop
    startOrder,     \* history: the armed timers in the order of their starts
    muted,          \* history: timers made one-shot while their callback ran
    timerOps        \* operations of the application so far

timerVars == <<tick, tmr, tickIsr, threadPc, next_timeout, stopping,
               startOrder, muted, timerOps>>

TimerEntry == [timer : Timers, at : 0..(TickRange - 1)]

\* timeout_tick is read only while a timer is on a list and is kept there.
TimerState ==
    [rec : [Timers -> [exists : BOOLEAN, periodic : BOOLEAN, active : BOOLEAN,
                       init : 0..(HalfRange - 1)]],
     hard : Seq(TimerEntry),                    \* _timer_list
     soft : Seq(TimerEntry),                    \* _soft_timer_list
     local : [BOOLEAN -> SUBSET Timers],        \* the checks' temporary lists
     cur : [BOOLEAN -> Timers \cup {NoTimer}],  \* their t during the callback
     status : {"idle", "busy"},                 \* _soft_timer_status
     stat : {"ready", "suspend"}]               \* _timer_thread.stat

-----------------------------------------------------------------------------
(* The lists *)

TickMinus(m, n) == (m - n + TickRange) % TickRange \* rt_tick_t subtraction

TimerDue(list) == list # << >> /\ TickMinus(tick, Head(list).at) < HalfRange

\* The list without the entry of t, which it has at most once.
Unlinked(list, t) == RemoveFirstMatch(list, LAMBDA e : e.timer = t)

\* Mutant: a timer that is being called stays on the temporary list.
Mut_remove_keeps_local(x, t) ==
    [x EXCEPT !.hard = Unlinked(@, t), !.soft = Unlinked(@, t)]

_timer_remove(x, t) ==
    [x EXCEPT !.hard = Unlinked(@, t), !.soft = Unlinked(@, t),
              !.local = [c \in BOOLEAN |-> @[c] \ {t}]]

\* Mutant: deadlines are compared as numbers, which ignores the wrap.
Mut_insert_no_wrap(list, e) ==
    LET Later == {i \in DOMAIN list : list[i].at > e.at}
        place == IF Later = {} THEN Len(list) + 1 ELSE Min(Later)
    IN InsertAt(list, place, e)

\* Before the first entry with a later deadline.
InsertEntry(list, e) ==
    LET Later == {i \in DOMAIN list :
                    TickMinus(list[i].at, e.at) \in 1..(HalfRange - 1)}
        place == IF Later = {} THEN Len(list) + 1 ELSE Min(Later)
    IN InsertAt(list, place, e)

Deactivate(x, t) ==
    [_timer_remove(x, t) EXCEPT !.rec[t].active = FALSE]

\* rt_thread_resume(&_timer_thread): its timer is stopped.
ResumeTimerThread(x) == [Deactivate(x, ThreadTimer) EXCEPT !.stat = "ready"]

\* The timer leaves the list it is on and goes into its own with a new deadline.
LinkTimer(x, t) ==
    LET e == [timer |-> t, at |-> (tick + x.rec[t].init) % TickRange]
        off == _timer_remove(x, t)
    IN IF t \in SoftTimer
       THEN [off EXCEPT !.soft = InsertEntry(@, e), !.rec[t].active = TRUE]
       ELSE [off EXCEPT !.hard = InsertEntry(@, e), !.rec[t].active = TRUE]

\* Mutant: the timer thread is not resumed.
Mut_start_no_resume(x, t) == LinkTimer(x, t)

rt_timer_start(x, t) ==
    IF t \in SoftTimer /\ x.status = "idle" /\ x.stat = "suspend"
    THEN ResumeTimerThread(LinkTimer(x, t))
    ELSE LinkTimer(x, t)

Removed(t) == RemoveFirst(startOrder, t)
Restarted(t) == Append(Removed(t), t)

-----------------------------------------------------------------------------
(* The application: threads with interrupts enabled, callbacks of hard     *)
(* timers inside the tick interrupt and callbacks of soft timers.          *)

TimerOp == timerOps < TimerOpBound /\ tickIsr # "check" /\ timerOps' = timerOps + 1

\* Where a soft timer may be started when nothing more urgent than the timer
\* thread does so: its thread waits, or runs a callback.
ThreadCalm == tickIsr = "idle" /\ (tmr.stat = "suspend" \/ tmr.status = "busy")

TimerStart(t) ==
    /\ TimerOp
    /\ tmr.rec[t].exists
    /\ t \in SoftTimer => SoftUrgent \/ ThreadCalm
    /\ tmr' = rt_timer_start(tmr, t)
    /\ startOrder' = Restarted(t) /\ muted' = muted \ {t}
    /\ UNCHANGED <<tick, tickIsr, threadPc, next_timeout, stopping>>

\* rt_timer_stop tests the flag before it disables interrupts.
TimerStopTest(t) ==
    /\ TimerOp /\ tickIsr = "idle"
    /\ tmr.rec[t].exists /\ tmr.rec[t].active
    /\ stopping = NoTimer /\ stopping' = t
    /\ UNCHANGED <<tick, tmr, tickIsr, threadPc, next_timeout, startOrder, muted>>

TimerStop ==
    /\ stopping # NoTimer /\ tickIsr = "idle"
    /\ tmr' = Deactivate(tmr, stopping)
    /\ startOrder' = Removed(stopping) /\ muted' = muted \ {stopping}
    /\ stopping' = NoTimer
    /\ UNCHANGED <<tick, tickIsr, threadPc, next_timeout, timerOps>>

\* The same inside the tick interrupt, where nothing intervenes.
TimerStopInIsr(t) ==
    /\ TimerOp /\ tickIsr = "callback"
    /\ tmr.rec[t].exists /\ tmr.rec[t].active
    /\ tmr' = Deactivate(tmr, t)
    /\ startOrder' = Removed(t) /\ muted' = muted \ {t}
    /\ UNCHANGED <<tick, tickIsr, threadPc, next_timeout, stopping>>

\* rt_timer_control: RT_TIMER_CTRL_SET_TIME, SET_ONESHOT and SET_PERIODIC.
TimerSetTime(t, n) ==
    /\ TimerOp
    /\ tmr.rec[t].exists /\ tmr.rec[t].init # n
    /\ tmr.rec[t].periodic => n > 0
    /\ tmr' = [tmr EXCEPT !.rec[t].init = n]
    /\ UNCHANGED <<tick, tickIsr, threadPc, next_timeout, stopping,
                   startOrder, muted>>

TimerSetOneshot(t) ==
    /\ TimerOp
    /\ tmr.rec[t].exists /\ tmr.rec[t].periodic
    /\ tmr' = [tmr EXCEPT !.rec[t].periodic = FALSE]
    /\ muted' = muted \cup ({t} \cap (tmr.local[TRUE] \cup tmr.local[FALSE]))
    /\ UNCHANGED <<tick, tickIsr, threadPc, next_timeout, stopping,
                   startOrder>>

\* The period is not 0: the check would call such a timer for ever.
TimerSetPeriodic(t) ==
    /\ TimerOp
    /\ tmr.rec[t].exists /\ ~tmr.rec[t].periodic /\ tmr.rec[t].init > 0
    /\ tmr' = [tmr EXCEPT !.rec[t].periodic = TRUE]
    /\ UNCHANGED <<tick, tickIsr, threadPc, next_timeout, stopping,
                   startOrder, muted>>

\* rt_timer_delete and rt_timer_detach.
TimerDelete(t) ==
    /\ TimerOp
    /\ tmr.rec[t].exists /\ t # stopping
    /\ tmr' = [Deactivate(tmr, t) EXCEPT !.rec[t].exists = FALSE]
    /\ startOrder' = Removed(t) /\ muted' = muted \ {t}
    /\ UNCHANGED <<tick, tickIsr, threadPc, next_timeout, stopping>>

\* rt_timer_create and rt_timer_init.
TimerCreate(t, n, per) ==
    /\ TimerOp
    /\ ~tmr.rec[t].exists /\ (per => n > 0)
    /\ tmr' = [tmr EXCEPT !.rec[t] = [exists |-> TRUE, periodic |-> per,
                                  active |-> FALSE, init |-> n]]
    /\ UNCHANGED <<tick, tickIsr, threadPc, next_timeout, stopping,
                   startOrder, muted>>

TimerUse ==
    \/ TimerStop
    \/ \E t \in AppTimer :
        \/ TimerStart(t) \/ TimerStopTest(t) \/ TimerStopInIsr(t)
        \/ TimerSetOneshot(t) \/ TimerSetPeriodic(t) \/ TimerDelete(t)
        \/ \E n \in TimerTimes :
            TimerSetTime(t, n) \/ \E per \in BOOLEAN : TimerCreate(t, n, per)

-----------------------------------------------------------------------------
(* The tick interrupt.  rt_timer_check runs to its end with interrupts     *)
(* disabled; only the callbacks of the application are steps of their own. *)

\* The timer thread is not held up for longer than SoftGrace while it has a soft
\* timer to call, nor does a callback take longer.
TimerThreadKeepsUp ==
    (tmr.stat = "ready" \/ tmr.status = "busy") =>
        \A e \in Range(tmr.soft) :
            TickMinus(tick, e.at) \notin SoftGrace..(HalfRange - 1)

ClockTick ==
    /\ tickIsr = "idle" /\ TimerThreadKeepsUp
    /\ tick' = (tick + 1) % TickRange
    /\ tickIsr' = "check"
    /\ UNCHANGED <<tmr, threadPc, next_timeout, stopping,
                   startOrder, muted, timerOps>>

\* The entry leaves its list; a one-shot timer is no longer active; the timer
\* is put on the temporary list while its callback runs.
TakeTimer(x, t) ==
    LET soft == t \in SoftTimer
        off == _timer_remove(x, t)
    IN [off EXCEPT !.rec[t].active = @ /\ x.rec[t].periodic,
                   !.local[soft] = {t}, !.cur[soft] = t]

\* After the callback: a timer that is still on the temporary list was neither
\* started, stopped nor deleted by it, and is started again if it is periodic.
Rearms(x, soft) ==
    /\ x.local[soft] # {}
    /\ x.rec[x.cur[soft]].periodic /\ x.rec[x.cur[soft]].active

PutTimer(x, soft) ==
    LET t == x.cur[soft]
        off == [x EXCEPT !.local[soft] = {}, !.cur[soft] = NoTimer]
    IN IF Rearms(x, soft)
       THEN rt_timer_start([off EXCEPT !.rec[t].active = FALSE], t)
       ELSE off

CheckTake ==
    LET t == Head(tmr.hard).timer
    IN /\ tickIsr = "check" /\ TimerDue(tmr.hard) /\ t # ThreadTimer
       /\ tmr' = TakeTimer(tmr, t)
       /\ tickIsr' = "callback"
       /\ startOrder' = Removed(t)
       /\ UNCHANGED <<tick, threadPc, next_timeout, stopping, muted, timerOps>>

CheckReturn ==
    LET t == tmr.cur[FALSE]
    IN /\ tickIsr = "callback"
       /\ tmr' = PutTimer(tmr, FALSE)
       /\ startOrder' = IF Rearms(tmr, FALSE) THEN Restarted(t) ELSE startOrder
       /\ tickIsr' = "check"
       /\ UNCHANGED <<tick, threadPc, next_timeout, stopping, muted, timerOps>>

\* The timer thread's own timer: its callback is _thread_timeout.
CheckWakes ==
    /\ tickIsr = "check" /\ TimerDue(tmr.hard) /\ Head(tmr.hard).timer = ThreadTimer
    /\ tmr' = [Deactivate(tmr, ThreadTimer) EXCEPT !.stat = "ready"]
    /\ UNCHANGED <<tick, tickIsr, threadPc, next_timeout, stopping,
                   startOrder, muted, timerOps>>

CheckEnds ==
    /\ tickIsr = "check" /\ ~TimerDue(tmr.hard)
    /\ tickIsr' = "idle"
    /\ UNCHANGED <<tick, tmr, threadPc, next_timeout, stopping,
                   startOrder, muted, timerOps>>

TickInterrupt == CheckTake \/ CheckReturn \/ CheckWakes \/ CheckEnds

-----------------------------------------------------------------------------
(* The timer thread: _timer_thread_entry and rt_soft_timer_check. *)

ThreadAt(l) == tickIsr = "idle" /\ tmr.stat = "ready" /\ threadPc = l

NextTimeout ==
    /\ ThreadAt("next")
    /\ IF tmr.soft = << >>
       THEN threadPc' = "suspend" /\ UNCHANGED next_timeout
       ELSE threadPc' = "delay" /\ next_timeout' = Head(tmr.soft).at
    /\ UNCHANGED <<tick, tmr, tickIsr, stopping, startOrder, muted, timerOps>>

\* rt_thread_suspend(rt_thread_self()) and rt_schedule.
SuspendSelf ==
    /\ ThreadAt("suspend")
    /\ tmr' = [Deactivate(tmr, ThreadTimer) EXCEPT !.stat = "suspend"]
    /\ threadPc' = "check"
    /\ UNCHANGED <<tick, tickIsr, next_timeout, stopping,
                   startOrder, muted, timerOps>>

GetTick ==
    /\ ThreadAt("delay")
    /\ IF TickMinus(next_timeout, tick) < HalfRange
       THEN threadPc' = "sleep" /\ next_timeout' = TickMinus(next_timeout, tick)
       ELSE threadPc' = "check" /\ next_timeout' = 0
    /\ UNCHANGED <<tick, tmr, tickIsr, stopping, startOrder, muted, timerOps>>

\* rt_thread_delay(next_timeout).
DelaySelf ==
    /\ ThreadAt("sleep")
    /\ tmr' = rt_timer_start([tmr EXCEPT !.stat = "suspend",
                                         !.rec[ThreadTimer].init = next_timeout],
                             ThreadTimer)
    /\ threadPc' = "check" /\ next_timeout' = 0
    /\ UNCHANGED <<tick, tickIsr, stopping, startOrder, muted, timerOps>>

\* Mutant: _soft_timer_status is not set for the time of the call.
Mut_take_stays_idle ==
    LET t == Head(tmr.soft).timer
    IN /\ ThreadAt("check") /\ TimerDue(tmr.soft)
       /\ tmr' = TakeTimer(tmr, t)
       /\ startOrder' = Removed(t)
       /\ threadPc' = "callback"
       /\ UNCHANGED <<tick, tickIsr, next_timeout, stopping, muted, timerOps>>

SoftTake ==
    LET t == Head(tmr.soft).timer
    IN /\ ThreadAt("check") /\ TimerDue(tmr.soft)
       /\ tmr' = [TakeTimer(tmr, t) EXCEPT !.status = "busy"]
       /\ startOrder' = Removed(t)
       /\ threadPc' = "callback"
       /\ UNCHANGED <<tick, tickIsr, next_timeout, stopping, muted, timerOps>>

\* A callback may wait (once, here) for something, and the timer thread with it.
SoftWaits ==
    /\ ThreadAt("callback")
    /\ tmr' = [tmr EXCEPT !.stat = "suspend"]
    /\ UNCHANGED <<tick, tickIsr, threadPc, next_timeout, stopping,
                   startOrder, muted, timerOps>>

SoftWoken ==
    /\ tickIsr = "idle" /\ threadPc = "callback" /\ tmr.stat = "suspend"
    /\ tmr' = [tmr EXCEPT !.stat = "ready"]
    /\ threadPc' = "awake"
    /\ UNCHANGED <<tick, tickIsr, next_timeout, stopping,
                   startOrder, muted, timerOps>>

SoftReturn ==
    LET t == tmr.cur[TRUE]
    IN /\ ThreadAt("callback") \/ ThreadAt("awake")
       /\ tmr' = PutTimer([tmr EXCEPT !.status = "idle"], TRUE)
       /\ startOrder' = IF Rearms(tmr, TRUE) THEN Restarted(t) ELSE startOrder
       /\ threadPc' = "check"
       /\ UNCHANGED <<tick, tickIsr, next_timeout, stopping, muted, timerOps>>

SoftEnds ==
    /\ ThreadAt("check") /\ ~TimerDue(tmr.soft)
    /\ threadPc' = "next"
    /\ UNCHANGED <<tick, tmr, tickIsr, next_timeout, stopping,
                   startOrder, muted, timerOps>>

TimerThread ==
    \/ NextTimeout \/ SuspendSelf \/ GetTick \/ DelaySelf
    \/ SoftTake \/ SoftReturn \/ SoftEnds

-----------------------------------------------------------------------------
\* The timer thread has been started; the application's timers exist.
TimerInit ==
    /\ tick = TickRange - 1
    /\ tickIsr = "idle" /\ threadPc = "next" /\ next_timeout = 0
    /\ stopping = NoTimer /\ startOrder = << >> /\ muted = {} /\ timerOps = 0
    /\ \E boot \in BootTimers :
        tmr = [rec |-> [t \in Timers |->
                        [exists |-> TRUE, active |-> FALSE,
                         periodic |-> t # ThreadTimer /\ boot[t].periodic,
                         init |-> IF t = ThreadTimer THEN 0 ELSE boot[t].init]],
             hard |-> << >>, soft |-> << >>,
             local |-> [c \in BOOLEAN |-> {}], cur |-> [c \in BOOLEAN |-> NoTimer],
             status |-> "idle", stat |-> "ready"]

TimerNext ==
    TimerUse \/ ClockTick \/ TickInterrupt \/ TimerThread \/ SoftWaits \/ SoftWoken

\* Ticks keep coming, the tick interrupt and callbacks end, and the timer
\* thread, when it is ready, runs in the end.
TimerFairness ==
    /\ WF_timerVars(ClockTick) /\ WF_timerVars(TickInterrupt)
    /\ WF_timerVars(TimerThread) /\ WF_timerVars(SoftWoken)

TimerSpec == TimerInit /\ [][TimerNext]_timerVars /\ TimerFairness

-----------------------------------------------------------------------------
(* Properties *)

TimerTypeOK ==
    /\ tick \in 0..(TickRange - 1) /\ tmr \in TimerState
    /\ tickIsr \in {"idle", "check", "callback"}
    /\ threadPc \in {"next", "suspend", "delay", "sleep", "check", "callback",
              "awake"}
    /\ next_timeout \in 0..(TickRange - 1) /\ stopping \in AppTimer \cup {NoTimer}
    /\ timerOps \in 0..TimerOpBound /\ muted \subseteq AppTimer

EachOnce(list) == \A i, j \in DOMAIN list : list[i].timer = list[j].timer => i = j
TimersIn(list) == {list[i].timer : i \in DOMAIN list}

Listed(x) == TimersIn(x.hard) \cup TimersIn(x.soft)
Called(x) == x.local[TRUE] \cup x.local[FALSE]

ListedTimers == Listed(tmr)

\* Every timer is in at most one place: its list once, or the temporary list
\* of the check that calls it; only timers that exist are in one, so no check
\* touches a timer that was deleted during its callback (timer.c:663).  A
\* listed timer is active, and an active timer is listed or in its callback
\* unless it was made one-shot there (the flag then stays set, timer.c:668).
Placed(x, m) ==
    /\ EachOnce(x.hard) /\ TimersIn(x.hard) \cap SoftTimer = {}
    /\ EachOnce(x.soft) /\ TimersIn(x.soft) \subseteq SoftTimer
    /\ Listed(x) \cap Called(x) = {}
    /\ \A t \in Listed(x) \cup Called(x) : x.rec[t].exists
    /\ \A t \in Listed(x) : x.rec[t].active
    /\ \A t \in Timers : x.rec[t].active => t \in Listed(x) \cup Called(x) \cup m

\* The lists of timers are consistent in this sense, and the timer thread's own
\* timer runs only while that thread waits (no stale timer wakes it later).
ListsConsistent ==
    /\ TimerTypeOK
    /\ Placed(tmr, muted)
    /\ ThreadTimer \in ListedTimers => tmr.stat = "suspend"

\* What it rests on: each check has at most the timer it calls on its temporary
\* list, an active timer there is periodic unless it was made one-shot, and the
\* timer thread waits for its own timer outside callbacks only.
CallsHeld(x, m) ==
    /\ \A c \in BOOLEAN :
        /\ x.local[c] \subseteq {x.cur[c]}
        /\ x.cur[c] \in AppTimer \cup {NoTimer}
        /\ x.cur[c] # NoTimer => (c <=> x.cur[c] \in SoftTimer)
    /\ \A t \in Called(x) : x.rec[t].active => x.rec[t].periodic \/ t \in m

TimerInductive ==
    /\ ListsConsistent
    /\ CallsHeld(tmr, muted)
    /\ tmr.cur[FALSE] # NoTimer <=> tickIsr = "callback"
    /\ tmr.cur[TRUE] # NoTimer <=> threadPc \in {"callback", "awake"}
    /\ tmr.status = "busy" <=> threadPc \in {"callback", "awake"}
    /\ tmr.rec[ThreadTimer].exists
    /\ ThreadTimer \in ListedTimers => threadPc = "check"
    /\ threadPc = "sleep" => next_timeout < HalfRange

\* The timer thread waits without a time limit only when there is no soft
\* timer ("no software timer exist, suspend self.", timer.c:791).
NoForgottenTimer ==
    tmr.stat = "suspend" /\ threadPc = "check" /\ ThreadTimer \notin ListedTimers
        => tmr.soft = << >>

\* A wait inside the callback of a soft timer is not ended by a timer that is
\* started meanwhile: rt_soft_timer_check sets _soft_timer_status for the time of
\* the call (timer.c:741), and rt_timer_start heeds it (timer.c:494).
CallbackWaits ==
    [][tmr.stat = "suspend" /\ threadPc \in {"callback", "awake"} /\ tmr'.stat = "ready"
        => timerOps' = timerOps]_timerVars

\* An armed soft timer is called, stopped or deleted in the end: rt_timer_start
\* wakes the timer thread whenever it sleeps for another timer (timer.c:494).
SoftTimersFire ==
    \A t \in SoftTimer : t \in ListedTimers ~> t \notin ListedTimers

\* The time that is left to a listed timer, as a signed number.
TimeLeft(e) ==
    LET d == TickMinus(e.at, tick) IN IF d < HalfRange THEN d ELSE d - TickRange

MappedLeft ==
    [t \in AppTimer |->
        LET E == {e \in Range(tmr.hard) \cup Range(tmr.soft) : e.timer = t}
        IN IF E = {} THEN 0 ELSE TimeLeft(CHOOSE e \in E : TRUE)]

Promise == INSTANCE Deadlines
    WITH Clock <- AppTimer, Threaded <- SoftTimer, Nobody <- NoTimer,
         Longest <- HalfRange, armed <- startOrder, left <- MappedLeft,
         calling <- (tickIsr # "idle"), running <- tmr.cur

\* What that takes: the timer thread is not overtaken, and a soft timer that is
\* late and one that is started then are less than half the range apart.
Timely ==
    /\ ~SoftUrgent /\ SoftGrace + 1 < HalfRange
    /\ \A n \in TimerTimes : SoftGrace + 2 * n < HalfRange

\* The ordered lists, the comparison of wrapping ticks and the two checks call
\* each timer when Deadlines says: hard timers in the very tick, soft timers
\* not before it, by deadline and then by start.
ImplementsDeadlines == Promise!DeadlinesSpec

=============================================================================
