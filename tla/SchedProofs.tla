---------------------------- MODULE SchedProofs ----------------------------
(***************************************************************************)
(* The theorems about the thread API of Sched: the kernel state stays      *)
(* consistent, the scheduler lock keeps the processor, closed threads stay *)
(* closed and the highest priority runs, for any number of threads, any    *)
(* number of priorities, any time slice and any nesting of the lock.  And  *)
(* those about the timers, which the same tick interrupt drives: their     *)
(* lists stay consistent, and they keep the promise of Deadlines.          *)
(***************************************************************************)
EXTENDS Sched, Timer, KernelProofs

\* No thread is between the two regions of a call.
Quiet == \A t \in Thread : pc[t] \notin {"resume", "delete"}

\* What a step never does: take the processor from the thread that has locked
\* the scheduler, bring a closed thread back, or leave a ready thread of a
\* higher priority waiting (unless priorities are changed from outside).
Effects ==
    /\ k.lock > 0 => k'.cur = k.cur
    /\ \A t \in Thread : k.stat[t] = "CLOSE" => k'.stat[t] \in {"CLOSE", "FREE"}
    /\ "control" \notin Calls /\ Settled => Settled'

\* When the current thread is in no two-region call, nobody is.
LEMMA QuietNow ==
    ASSUME Inductive, pc[k.cur] \notin {"resume", "delete"}
    PROVE  Quiet /\ Leaving = {} /\ KernelOK(k, {})
<1>1. Quiet BY DEF Inductive, TwoRegionCalls, Quiet
<1>2. Leaving = {} BY <1>1 DEF Quiet, Leaving
<1> QED BY <1>1, <1>2 DEF Inductive, KernelConsistent

\* The obligations of a step after which nobody is in a two-region call.
LEMMA QuietStep ==
    ASSUME k' \in KState, KernelOK(k', {}), pc' \in [Thread -> PC],
           tgt' \in [Thread -> Thread], isr' \in {"none", "timers"},
           Quiet', ClosedLeaves', IdleRuns'
    PROVE  Inductive'
<1>1. Leaving' = {} BY DEF Quiet, Leaving
<1> QED BY <1>1 DEF Inductive, TypeOK, KernelConsistent, TwoRegionCalls, Quiet

\* The state rt_system_scheduler_start leaves is consistent.
LEMMA InitOK == Init => Inductive /\ Settled
<1> SUFFICES ASSUME Init PROVE Inductive /\ Settled OBVIOUS
<1> USE IdleAssumption, PrioMaxAssumption, InitTickAssumption, MainAssumption
<1>1. PrioMax - 1 \in Prio BY DEF Prio
<1>2. k \in KState
  <2>1. << >> \in Seq(Thread) /\ <<Idle>> \in Seq(Thread) OBVIOUS
  <2>2. k.ready \in [Prio -> Seq(Thread)] /\ k.wait \in [Obj -> Seq(Thread)]
        /\ k.defunct \in Seq(Thread)
    BY <2>1 DEF Init, KInit
  <2> QED BY <1>1, <2>2 DEF Init, KInit, KState, Stat, Err
<1>3. /\ ToSet(<< >>) = {} /\ ToSet(<<Idle>>) = {Idle}
      /\ IsInjective(<< >>) /\ IsInjective(<<Idle>>)
  <2> DEFINE one == <<Idle>>
  <2>1. << >> \in Seq(Thread) /\ Len(<< >>) = 0 OBVIOUS
  <2>2. one \in Seq(Thread) /\ Len(one) = 1 /\ one[1] = Idle OBVIOUS
  <2>3. 1 .. 0 = {} /\ 1 .. 1 = {1} OBVIOUS
  <2> HIDE DEF one
  <2>4. \A x : x \notin ToSet(<< >>) BY <2>1, <2>3, InToSet
  <2>5. \A x : x \in ToSet(one) <=> x = Idle BY <2>2, <2>3, InToSet
  <2>6. IsInjective(<< >>) BY <2>1, <2>3, Injective
  <2>7. IsInjective(one) BY <2>2, <2>3, Injective
  <2> QED BY <2>4, <2>5, <2>6, <2>7 DEF one
<1>4. k.cur = Main /\ k.lock = 0 /\ k.timer = {} /\ k.defunct = << >>
      /\ k.group = {PrioMax - 1}
      /\ k.stat = [t \in Thread |-> IF t = Main THEN "RUNNING"
                                    ELSE IF t = Idle THEN "READY" ELSE "FREE"]
      /\ k.prio = [t \in Thread |-> IF t = Main THEN MainPrio ELSE PrioMax - 1]
      /\ k.ready = [p \in Prio |-> IF p = PrioMax - 1 THEN <<Idle>> ELSE << >>]
      /\ k.wait = [o \in Obj |-> << >>]
  BY DEF Init, KInit
<1>5. ReadyListsOK(k, {})
  <2>1. <<Idle>> # << >> OBVIOUS
  <2> QED BY <1>1, <1>3, <1>4, <2>1 DEF ReadyListsOK
<1>6. WaitListsOK(k) /\ DefunctOK(k) /\ CurrentOK(k) /\ TimersOK(k) /\ IdleOK(k)
  BY <1>3, <1>4 DEF WaitListsOK, DefunctOK, CurrentOK, TimersOK, IdleOK
<1>7. pc = [t \in Thread |-> "run"] /\ tgt = [t \in Thread |-> t] /\ isr = "none"
  BY DEF Init
<1>8. Leaving = {} BY <1>7 DEF Leaving
<1>9. Inductive
  BY <1>2, <1>4, <1>5, <1>6, <1>7, <1>8
     DEF Inductive, TypeOK, PC, KernelConsistent, KernelOK, TwoRegionCalls,
         ClosedLeaves, IdleRuns
<1>10. Settled
  BY <1>4 DEF Settled, HighestPriorityRuns, Prio
<1> QED BY <1>9, <1>10

-----------------------------------------------------------------------------
(* The calls of the current thread *)

\* What the caller of a kernel function finds.
LEMMA CallFacts ==
    ASSUME Inductive, NEW t \in Thread, NEW c, Call(t, c)
    PROVE  /\ t = k.cur /\ t # Idle /\ isr = "none" /\ pc[t] = "run"
           /\ Quiet /\ Leaving = {} /\ KernelOK(k, {})
           /\ k \in KState /\ pc \in [Thread -> PC] /\ tgt \in [Thread -> Thread]
           /\ k.stat[t] \in {"RUNNING", "SUSPEND"}
           /\ pc[Idle] = "run"
<1>1. t = k.cur /\ t # Idle /\ isr = "none" /\ pc[t] = "run"
  BY DEF Call, Executing, AppThread
<1>2. Quiet /\ Leaving = {} /\ KernelOK(k, {}) BY <1>1, QuietNow
<1>3. k \in KState /\ pc \in [Thread -> PC] /\ tgt \in [Thread -> Thread]
  BY DEF Inductive, TypeOK
<1>4. k.stat[t] \in {"RUNNING", "SUSPEND"}
  BY <1>1, <1>2 DEF KernelOK, CurrentOK, Inductive, ClosedLeaves
<1> QED BY <1>1, <1>2, <1>3, <1>4 DEF Inductive, IdleRuns

\* A call that leaves the caller at label l, current and not closed.
LEMMA CallStep ==
    ASSUME Inductive, NEW t \in Thread, NEW c, Call(t, c), NEW l \in PC,
           l \notin {"resume", "delete"}, pc' = [pc EXCEPT ![t] = l],
           UNCHANGED <<tgt, isr>>, k' \in KState, KernelOK(k', {}),
           k'.stat[k'.cur] # "CLOSE"
    PROVE  Inductive'
<1>1. Quiet /\ t # Idle /\ pc \in [Thread -> PC] /\ tgt \in [Thread -> Thread]
      /\ isr = "none" /\ pc[Idle] = "run"
  BY CallFacts
<1>2. pc' \in [Thread -> PC] /\ Quiet' /\ IdleRuns'
  BY <1>1, IdleAssumption DEF Quiet, IdleRuns, PC
<1>3. ClosedLeaves' BY DEF ClosedLeaves
<1> QED BY <1>1, <1>2, <1>3, QuietStep

\* rt_thread_create.
LEMMA CreateOK ==
    ASSUME Inductive, NEW t \in Thread, NEW u \in Thread, NEW p \in Prio, Create(t, u, p)
    PROVE  Inductive' /\ Effects
<1>1. Call(t, "create") BY DEF Create
<1>2. k \in KState /\ KernelOK(k, {}) /\ Quiet /\ pc \in [Thread -> PC]
      /\ tgt \in [Thread -> Thread] /\ k.stat[k.cur] \in {"RUNNING", "SUSPEND"}
      /\ isr = "none" /\ pc[Idle] = "run"
  BY <1>1, CallFacts
<1>3. k.stat[u] = "FREE" /\ k' = _thread_init(k, u, p)
      /\ pc' = [pc EXCEPT ![u] = "run"] /\ UNCHANGED <<tgt, isr>>
  BY DEF Create, Goto
<1>4. /\ k' \in KState /\ KernelOK(k', {}) /\ k'.cur = k.cur
      /\ k'.stat = [k.stat EXCEPT ![u] = "INIT"]
  BY <1>2, <1>3, ThreadInit
<1>5. k.cur \in Thread /\ k.stat \in [Thread -> Stat] BY <1>2, KTypes DEF KTyped
<1>6. ClosedLeaves' BY <1>2, <1>4, <1>5 DEF ClosedLeaves
<1>7. pc' \in [Thread -> PC] /\ Quiet' /\ IdleRuns'
  BY <1>2, <1>3, IdleAssumption DEF Quiet, IdleRuns, PC
<1>8. Effects
  <2>1. /\ k'.prio = [k.prio EXCEPT ![u] = p] /\ k'.lock = k.lock
        /\ k.prio \in [Thread -> Prio]
    BY <1>2, <1>3 DEF _thread_init, KState
  <2>2. u # k.cur BY <1>2, <1>3
  <2>3. Settled => Settled'
    <3>1. pc'[k.cur] = pc[k.cur] BY <1>2, <1>3, <1>5, <2>2
    <3> QED BY <1>3, <1>4, <1>5, <2>1, <2>2, <3>1 DEF Settled, HighestPriorityRuns
  <2> QED BY <1>3, <1>4, <1>5, <2>3 DEF Effects
<1> QED BY <1>8, <1>2, <1>3, <1>4, <1>6, <1>7, QuietStep

\* rt_thread_startup, up to its rt_schedule.
LEMMA StartupOK ==
    ASSUME Inductive, NEW t \in Thread, NEW u \in Thread, Startup(t, u)
    PROVE  Inductive' /\ Effects
<1>1. Call(t, "create") BY DEF Startup
<1>2. k \in KState /\ KernelOK(k, {}) /\ t = k.cur
      /\ k.stat[k.cur] \in {"RUNNING", "SUSPEND"}
  BY <1>1, CallFacts
<1> DEFINE s == [k EXCEPT !.stat[u] = "SUSPEND"]
<1>3. k.stat[u] = "INIT" /\ k' = rt_thread_resume(s, u)
      /\ pc' = [pc EXCEPT ![t] = "sched"] /\ UNCHANGED <<tgt, isr>>
  BY DEF Startup, Goto
<1>4. u # k.cur /\ u # Idle /\ InNoList(k, u) /\ u \notin k.timer
  BY <1>2, <1>3 DEF KernelOK, IdleOK, InNoList, ReadyListsOK, WaitListsOK,
                    DefunctOK, TimersOK
<1>5. s \in KState /\ KernelOK(s, {})
  BY <1>2, <1>4, StatOnly DEF Stat
<1>6. s.stat[u] = "SUSPEND" /\ s.cur = k.cur /\ s.stat[k.cur] = k.stat[k.cur]
  BY <1>2, <1>4 DEF KState
<1> HIDE DEF s
<1>7. k' \in KState /\ KernelOK(k', {}) /\ k'.cur = k.cur
      /\ k'.stat[k.cur] = k.stat[k.cur]
  <2>1. k.cur \in Thread BY <1>2, KTypes DEF KTyped
  <2> QED BY <1>3, <1>4, <1>5, <1>6, <2>1, ResumeThread
<1>8. Effects
  <2>1. \A v \in Thread : k.stat[v] = "CLOSE" => k'.stat[v] = "CLOSE"
    <3>1. \A v \in Thread \ {u} : k'.stat[v] = s.stat[v]
      BY <1>3, <1>5, <1>6, ResumeThread
    <3>2. \A v \in Thread \ {u} : s.stat[v] = k.stat[v] BY <1>2 DEF s, KState
    <3> QED BY <1>3, <3>1, <3>2
  <2>2. pc'[k.cur] = "sched" BY <1>1, <1>2, <1>3, CallFacts
  <2> QED BY <1>7, <2>1, <2>2 DEF Effects, Settled, After
<1> QED BY <1>8, <1>1, <1>2, <1>3, <1>7, CallStep DEF PC

\* rt_thread_yield.
LEMMA YieldOK ==
    ASSUME Inductive, NEW t \in Thread, Yield(t)
    PROVE  Inductive' /\ Effects
<1>1. Call(t, "yield") BY DEF Yield
<1>2. k \in KState /\ KernelOK(k, {}) /\ t = k.cur /\ pc[t] = "run"
      /\ k.stat[k.cur] \in {"RUNNING", "SUSPEND"} /\ pc \in [Thread -> PC]
  BY <1>1, CallFacts
<1> DEFINE y == [k EXCEPT !.remaining[t] = InitTick, !.yield = @ \cup {t}]
<1>3. k' = rt_schedule(y) /\ UNCHANGED <<pc, tgt, isr>> BY DEF Yield
<1>4. y \in KState
  <2>1. InitTick \in 1 .. InitTick BY InitTickAssumption
  <2> QED BY <1>2, <2>1 DEF KState
<1>5. y.cur = k.cur /\ y.stat = k.stat /\ y.prio = k.prio /\ y.ready = k.ready
      /\ y.group = k.group /\ y.wait = k.wait /\ y.defunct = k.defunct
      /\ y.timer = k.timer /\ y.lock = k.lock
  BY <1>2 DEF KState
<1>6. KernelOK(y, {}) BY <1>2, <1>4, <1>5, Irrelevant
<1> HIDE DEF y
<1>7. /\ k' \in KState /\ KernelOK(k', {})
      /\ k.lock # 0 => k' = y
      /\ k.lock = 0 => HighestPriorityRuns(k')
  BY <1>3, <1>4, <1>5, <1>6, ScheduleOK
<1>8. k'.stat[k'.cur] # "CLOSE"
  BY <1>2, <1>5, <1>7 DEF HighestPriorityRuns
<1>9. pc' = [pc EXCEPT ![t] = "run"] BY <1>2, <1>3
<1>10. Effects
  <2>1. /\ k'.lock = k.lock
        /\ \A u \in Thread : y.stat[u] \notin {"READY", "RUNNING"} => k'.stat[u] = y.stat[u]
    BY <1>3, <1>4, <1>5, <1>6, ScheduleOK
  <2> QED BY <1>5, <1>7, <2>1 DEF Effects, Settled
<1> QED BY <1>10, <1>1, <1>3, <1>7, <1>8, <1>9, CallStep DEF PC

\* rt_thread_sleep, up to its rt_schedule; also with the scheduler locked.
LEMMA SleepOK ==
    ASSUME Inductive, NEW t \in Thread, Sleep(t)
    PROVE  Inductive' /\ Effects
<1>1. Call(t, "sleep") BY DEF Sleep
<1>2. k \in KState /\ KernelOK(k, {}) /\ t = k.cur /\ t # Idle
      /\ k.stat[k.cur] \in {"RUNNING", "SUSPEND"}
  BY <1>1, CallFacts
<1> DEFINE e == [k EXCEPT !.err[t] = "EOK"]
<1> DEFINE s == rt_thread_suspend(e, t)
<1>3. k' = [s EXCEPT !.timer = @ \cup {t}]
      /\ pc' = [pc EXCEPT ![t] = "sleep"] /\ UNCHANGED <<tgt, isr>>
  BY DEF Sleep, Goto, rt_thread_sleep
<1>4. e \in KState BY <1>2 DEF KState, Err
<1>5. e.cur = k.cur /\ e.stat = k.stat /\ e.prio = k.prio /\ e.ready = k.ready
      /\ e.group = k.group /\ e.wait = k.wait /\ e.defunct = k.defunct
      /\ e.timer = k.timer /\ e.lock = k.lock
  BY <1>2 DEF KState
<1>6. KernelOK(e, {}) BY <1>2, <1>4, <1>5, Irrelevant
<1> HIDE DEF e
<1>7. s \in KState /\ KernelOK(s, {}) /\ s.cur = t /\ s.stat[t] = "SUSPEND"
  BY <1>2, <1>4, <1>5, <1>6, SuspendThread
<1> HIDE DEF s
<1>8. /\ k' \in KState /\ k'.timer = s.timer \cup {t}
      /\ k'.cur = s.cur /\ k'.stat = s.stat /\ k'.prio = s.prio
      /\ k'.ready = s.ready /\ k'.group = s.group /\ k'.wait = s.wait
      /\ k'.defunct = s.defunct
  BY <1>3, <1>7 DEF KState
<1>9. KernelOK(k', {})
  BY <1>7, <1>8 DEF KernelOK, ReadyListsOK, WaitListsOK, DefunctOK, CurrentOK,
                    TimersOK, IdleOK, InNoList
<1>10. Effects
  <2>1. \A u \in Thread \ {t} : s.stat[u] = e.stat[u]
    BY <1>2, <1>4, <1>5, <1>6, SuspendThread DEF s
  <2>2. pc'[k.cur] = "sleep" BY <1>1, <1>2, <1>3, CallFacts
  <2> QED BY <1>2, <1>5, <1>7, <1>8, <2>1, <2>2 DEF Effects, Settled, After
<1> QED BY <1>10, <1>1, <1>3, <1>7, <1>8, <1>9, CallStep DEF PC

\* rt_thread_suspend of the caller.
LEMMA SuspendOK ==
    ASSUME Inductive, NEW t \in Thread, Suspend(t)
    PROVE  Inductive' /\ Effects
<1>1. Call(t, "suspend") BY DEF Suspend
<1>2. k \in KState /\ KernelOK(k, {}) /\ t = k.cur /\ t # Idle
      /\ k.stat[k.cur] \in {"RUNNING", "SUSPEND"}
  BY <1>1, CallFacts
<1>3. k' = rt_thread_suspend(k, t) /\ pc' = [pc EXCEPT ![t] = "sched"]
      /\ UNCHANGED <<tgt, isr>>
  BY DEF Suspend, Goto
<1>4. k' \in KState /\ KernelOK(k', {}) /\ k'.cur = t /\ k'.stat[t] = "SUSPEND"
  BY <1>2, <1>3, SuspendThread
<1>5. Effects
  <2>1. \A u \in Thread \ {t} : k'.stat[u] = k.stat[u]
    BY <1>2, <1>3, SuspendThread
  <2>2. pc'[k.cur] = "sched" BY <1>1, <1>2, <1>3, CallFacts
  <2> QED BY <1>2, <1>4, <2>1, <2>2 DEF Effects, Settled, After
<1> QED BY <1>5, <1>1, <1>3, <1>4, CallStep DEF PC

\* RT_THREAD_CTRL_CHANGE_PRIORITY.
LEMMA ControlOK ==
    ASSUME Inductive, NEW t \in Thread, NEW u \in Thread, NEW p \in Prio, Control(t, u, p)
    PROVE  Inductive' /\ Effects
<1>1. Call(t, "control") BY DEF Control
<1>2. k \in KState /\ KernelOK(k, {}) /\ t = k.cur /\ pc[t] = "run"
      /\ k.stat[k.cur] \in {"RUNNING", "SUSPEND"} /\ pc \in [Thread -> PC]
  BY <1>1, CallFacts
<1>3. k' = ChangePriority(k, u, p) /\ u \in Thread \ {Idle}
      /\ UNCHANGED <<pc, tgt, isr>>
  BY DEF Control, AppThread
<1>4. k' \in KState /\ KernelOK(k', {}) /\ k'.cur = k.cur /\ k'.stat = k.stat
  BY <1>2, <1>3, ChangePriorityOK
<1>5. pc' = [pc EXCEPT ![t] = "run"] BY <1>2, <1>3
<1>6. Effects BY <1>1, <1>4 DEF Effects, Call
<1> QED BY <1>6, <1>1, <1>2, <1>3, <1>4, <1>5, CallStep DEF PC

\* rt_enter_critical and rt_exit_critical.
LEMMA CriticalOK ==
    ASSUME Inductive, NEW t \in Thread, EnterCritical(t) \/ ExitCritical(t)
    PROVE  Inductive' /\ Effects
<1>1. Call(t, "critical") BY DEF EnterCritical, ExitCritical
<1>2. k \in KState /\ KernelOK(k, {}) /\ t = k.cur /\ pc[t] = "run"
      /\ k.stat[k.cur] \in {"RUNNING", "SUSPEND"} /\ pc \in [Thread -> PC]
  BY <1>1, CallFacts
<1>3. k' \in KState /\ k'.cur = k.cur /\ k'.stat = k.stat /\ k'.prio = k.prio
      /\ k'.ready = k.ready /\ k'.group = k.group /\ k'.wait = k.wait
      /\ k'.defunct = k.defunct /\ k'.timer = k.timer
  <2>1. PICK n \in Nat : k' = [k EXCEPT !.lock = n]
    <3>1. k.lock \in Nat BY <1>2, KTypes DEF KTyped
    <3>2. CASE EnterCritical(t)
      <4>1. k.lock + 1 \in Nat BY <3>1
      <4> QED BY <3>2, <4>1 DEF EnterCritical, rt_enter_critical
    <3>3. CASE ExitCritical(t)
      <4>1. k' = [k EXCEPT !.lock = IF k.lock > 0 THEN k.lock - 1 ELSE 0]
        BY <3>3 DEF ExitCritical, rt_exit_critical
      <4>2. (IF k.lock > 0 THEN k.lock - 1 ELSE 0) \in Nat BY <3>1
      <4> QED BY <4>1, <4>2
    <3> QED BY <3>2, <3>3
  <2> QED BY <1>2, <2>1 DEF KState
<1>4. KernelOK(k', {}) BY <1>2, <1>3, Irrelevant
<1>5. PICK l \in {"run", "sched"} : pc' = [pc EXCEPT ![t] = l]
  BY <1>2 DEF EnterCritical, ExitCritical, Goto
<1>6. UNCHANGED <<tgt, isr>> BY DEF EnterCritical, ExitCritical
<1>7. Effects
  <2>1. CASE EnterCritical(t)
    <3>1. k'.lock = k.lock + 1 /\ k.lock \in Nat
      BY <1>2, <2>1 DEF EnterCritical, rt_enter_critical, KState
    <3> QED BY <1>3, <3>1 DEF Effects, Settled
  <2>2. CASE ExitCritical(t)
    <3>1. k'.lock = 0 => pc'[k.cur] = "sched" BY <1>2, <2>2 DEF ExitCritical, Goto
    <3> QED BY <1>3, <3>1 DEF Effects, Settled, After
  <2> QED BY <2>1, <2>2
<1> QED BY <1>7, <1>1, <1>2, <1>3, <1>4, <1>5, <1>6, CallStep DEF PC

\* _thread_exit.
LEMMA ExitOK ==
    ASSUME Inductive, NEW t \in Thread, Exit(t)
    PROVE  Inductive' /\ Effects
<1>1. Call(t, "exit") BY DEF Exit
<1>2. /\ k \in KState /\ KernelOK(k, {}) /\ t = k.cur /\ t # Idle
      /\ k.stat[t] \in {"RUNNING", "SUSPEND"} /\ pc \in [Thread -> PC] /\ Quiet
      /\ tgt \in [Thread -> Thread] /\ isr = "none" /\ pc[Idle] = "run"
  BY <1>1, CallFacts
<1> DEFINE r == rt_schedule_remove_thread(k, t)
<1>3. k.lock = 0 /\ k' = CloseThread(r, t)
      /\ pc' = [pc EXCEPT ![t] = "sched"] /\ UNCHANGED <<tgt, isr>>
  BY DEF Exit, Goto
<1>4. /\ r \in KState
      /\ r = [k EXCEPT !.ready = r.ready, !.wait = r.wait,
                       !.defunct = r.defunct, !.group = r.group]
      /\ KernelOK(r, {} \cup {t})
  BY <1>2, RemoveThread
<1>5. r.lock = 0 /\ r.cur = k.cur /\ r.stat = k.stat
  BY <1>2, <1>3, <1>4 DEF KState
<1> HIDE DEF r
<1>6. k' \in KState /\ KernelOK(k', {}) /\ k'.cur = t /\ k'.lock = 0
  <2>1. KernelOK(r, {t}) BY <1>4
  <2> QED BY <1>2, <1>3, <1>4, <1>5, <2>1, CloseThreadOK
<1>7. pc' \in [Thread -> PC] /\ Quiet' /\ IdleRuns' /\ pc'[t] = "sched"
  BY <1>2, <1>3, IdleAssumption DEF Quiet, IdleRuns, PC
<1>8. ClosedLeaves' BY <1>6, <1>7 DEF ClosedLeaves
<1>9. Effects
  <2>1. k'.stat = [k.stat EXCEPT ![t] = "CLOSE"]
    <3>1. KernelOK(r, {t}) BY <1>4
    <3>2. k'.stat = [r.stat EXCEPT ![t] = "CLOSE"]
      BY <1>2, <1>3, <1>4, <3>1, CloseThreadOK
    <3> QED BY <1>5, <3>2
  <2> QED BY <1>2, <1>3, <1>6, <1>7, <2>1 DEF Effects, Settled, After
<1> QED BY <1>9, <1>2, <1>3, <1>6, <1>7, <1>8, QuietStep

\* The end of rt_thread_sleep.
LEMMA SleepReturnOK ==
    ASSUME Inductive, NEW t \in Thread, SleepReturn(t)
    PROVE  Inductive' /\ Effects
<1>1. t = k.cur /\ pc[t] = "slept" /\ isr = "none" BY DEF SleepReturn, Executing
<1>2. Quiet /\ KernelOK(k, {}) BY <1>1, QuietNow
<1>3. k \in KState /\ pc \in [Thread -> PC] /\ tgt \in [Thread -> Thread]
      /\ pc[Idle] = "run"
  BY DEF Inductive, TypeOK, IdleRuns
<1>4. k' \in KState /\ k'.cur = k.cur /\ k'.stat = k.stat /\ k'.prio = k.prio
      /\ k'.ready = k.ready /\ k'.group = k.group /\ k'.wait = k.wait
      /\ k'.defunct = k.defunct /\ k'.timer = k.timer
  BY <1>3 DEF SleepReturn, KState, Err
<1>5. KernelOK(k', {}) BY <1>2, <1>3, <1>4, Irrelevant
<1>6. pc' = [pc EXCEPT ![t] = "run"] /\ UNCHANGED <<tgt, isr>>
  BY DEF SleepReturn, Goto
<1>7. pc' \in [Thread -> PC] /\ Quiet' /\ IdleRuns'
  BY <1>2, <1>3, <1>6, IdleAssumption DEF Quiet, IdleRuns, PC
<1>8. ClosedLeaves' BY <1>1, <1>4 DEF Inductive, ClosedLeaves
<1>9. Effects
  <2>1. k'.lock = k.lock BY <1>3 DEF SleepReturn, KState
  <2> QED BY <1>1, <1>4, <2>1 DEF Effects, Settled, HighestPriorityRuns, After
<1> QED BY <1>9, <1>1, <1>3, <1>4, <1>5, <1>6, <1>7, <1>8, QuietStep

\* The idle thread frees a closed thread; the processor stays with it.
LEMMA ReapOK ==
    ASSUME Inductive, Reap
    PROVE  Inductive' /\ Effects
<1>1. k.cur = Idle /\ isr = "none" /\ pc[Idle] = "run"
  BY DEF Reap, Executing, Inductive, IdleRuns
<1>2. Quiet /\ KernelOK(k, {}) BY <1>1, QuietNow
<1>3. k \in KState /\ pc \in [Thread -> PC] /\ tgt \in [Thread -> Thread]
  BY DEF Inductive, TypeOK
<1> DEFINE t == Head(k.defunct)
<1>4. k' = [_thread_init(rt_list_remove(k, t), t, PrioMax - 1) EXCEPT !.stat[t] = "FREE"]
      /\ pc' = [pc EXCEPT ![t] = "run"] /\ UNCHANGED <<tgt, isr>>
      /\ k.defunct # << >>
  BY DEF Reap, Goto
<1>5. /\ t \in Thread /\ k.stat[t] = "CLOSE"
      /\ k' \in KState /\ KernelOK(k', {})
      /\ k'.cur = k.cur /\ k'.stat = [k.stat EXCEPT ![t] = "FREE"]
  BY <1>1, <1>2, <1>3, <1>4, FreeThread
<1> HIDE DEF t
<1>6. pc' \in [Thread -> PC] /\ Quiet' /\ IdleRuns'
  BY <1>1, <1>2, <1>3, <1>4, <1>5, IdleAssumption DEF Quiet, IdleRuns, PC
<1>7. ClosedLeaves' BY <1>1, <1>5 DEF ClosedLeaves, KernelOK, IdleOK
<1>8. Effects
  <2>1. k'.lock = k.lock /\ k'.prio = [k.prio EXCEPT ![t] = PrioMax - 1]
        /\ k.prio \in [Thread -> Prio] /\ k.stat \in [Thread -> Stat]
    BY <1>3, <1>4 DEF _thread_init, rt_list_remove, KState
  <2>2. t # Idle BY <1>2, <1>5 DEF KernelOK, IdleOK
  <2>3. Settled => Settled'
    <3>1. pc'[Idle] = "run" BY <1>1, <1>3, <1>4, <2>2, IdleAssumption
    <3> QED BY <1>1, <1>5, <2>1, <2>2, <3>1, IdleAssumption
            DEF Settled, HighestPriorityRuns, After
  <2> QED BY <1>5, <2>1, <2>3 DEF Effects
<1> QED BY <1>8, <1>1, <1>3, <1>4, <1>5, <1>6, <1>7, QuietStep

-----------------------------------------------------------------------------
(* The two-region calls, with the scheduler locked *)

\* The state in the middle of a two-region call of the current thread.
LEMMA MiddleStep ==
    ASSUME Inductive, NEW t \in Thread, NEW c, Call(t, c), NEW u \in AppThread \ {t},
           NEW l \in {"resume", "delete"}, k.lock > 0,
           pc' = [pc EXCEPT ![t] = l], tgt' = [tgt EXCEPT ![t] = u], UNCHANGED isr,
           k' \in KState, k'.cur = k.cur, k'.lock = k.lock, k'.stat = k.stat,
           KernelOK(k', IF l = "delete" THEN {u} ELSE {}),
           l = "resume" => k.stat[u] \in {"SUSPEND", "READY"},
           l = "delete" => u \notin k'.timer
    PROVE  Inductive'
<1>1. /\ Quiet /\ t # Idle /\ t = k.cur /\ isr = "none" /\ pc[Idle] = "run"
      /\ pc \in [Thread -> PC] /\ tgt \in [Thread -> Thread]
      /\ k.stat[t] \in {"RUNNING", "SUSPEND"}
  BY CallFacts
<1>2. pc' \in [Thread -> PC] /\ tgt' \in [Thread -> Thread]
      /\ pc'[t] = l /\ tgt'[t] = u
  BY <1>1 DEF PC, AppThread
<1>3. \A v \in Thread : pc'[v] \in {"resume", "delete"} => v = t
  BY <1>1 DEF Quiet
<1>4. Leaving' = IF l = "delete" THEN {u} ELSE {}
  BY <1>2, <1>3 DEF Leaving
<1>5. TwoRegionCalls' BY <1>1, <1>2, <1>3 DEF TwoRegionCalls
<1>6. ClosedLeaves' /\ IdleRuns' BY <1>1, IdleAssumption DEF ClosedLeaves, IdleRuns
<1> QED BY <1>1, <1>2, <1>4, <1>5, <1>6 DEF Inductive, TypeOK, KernelConsistent

\* rt_thread_resume, up to the region.
LEMMA ResumeCheckOK ==
    ASSUME Guarded, Inductive, NEW t \in Thread, NEW u \in Thread, ResumeCheck(t, u)
    PROVE  Inductive' /\ Effects
<1>1. Call(t, "suspend") /\ u \in AppThread \ {t} /\ k.lock > 0
      /\ k.stat[u] = "SUSPEND" /\ UNCHANGED <<k, isr>>
      /\ pc' = [pc EXCEPT ![t] = "resume"] /\ tgt' = [tgt EXCEPT ![t] = u]
  BY DEF ResumeCheck, MayTouch, Goto
<1>2. k \in KState /\ KernelOK(k, {}) BY <1>1, CallFacts
<1>3. Effects BY <1>1 DEF Effects, Settled
<1> QED BY <1>3, <1>1, <1>2, MiddleStep

\* rt_thread_delete, first region.
LEMMA DeleteRemoveOK ==
    ASSUME Guarded, Inductive, NEW t \in Thread, NEW u \in Thread, DeleteRemove(t, u)
    PROVE  Inductive' /\ Effects
<1>1. Call(t, "delete") /\ u \in AppThread \ {t} /\ k.lock > 0 /\ u \notin k.timer
      /\ k.stat[u] \notin {"FREE", "CLOSE"} /\ UNCHANGED isr
      /\ pc' = [pc EXCEPT ![t] = "delete"] /\ tgt' = [tgt EXCEPT ![t] = u]
      /\ k' = IF k.stat[u] = "INIT" THEN k ELSE rt_schedule_remove_thread(k, u)
  BY DEF DeleteRemove, MayTouch, Goto
<1>2. k \in KState /\ KernelOK(k, {}) BY <1>1, CallFacts
<1>3. /\ k' \in KState /\ KernelOK(k', {u}) /\ k'.cur = k.cur /\ k'.lock = k.lock
      /\ k'.stat = k.stat /\ k'.timer = k.timer
  <2>1. CASE k.stat[u] = "INIT"
    <3>1. KernelOK(k, {u})
      BY <1>2, <2>1 DEF KernelOK, ReadyListsOK, WaitListsOK, DefunctOK, CurrentOK,
                        TimersOK, IdleOK, InNoList
    <3> QED BY <1>1, <1>2, <2>1, <3>1
  <2>2. CASE k.stat[u] # "INIT"
    <3> DEFINE r == rt_schedule_remove_thread(k, u)
    <3>1. /\ r \in KState
          /\ r = [k EXCEPT !.ready = r.ready, !.wait = r.wait,
                           !.defunct = r.defunct, !.group = r.group]
          /\ KernelOK(r, {} \cup {u})
      BY <1>1, <1>2, RemoveThread
    <3>2. k' = r BY <1>1, <2>2
    <3> HIDE DEF r
    <3>3. r.cur = k.cur /\ r.lock = k.lock /\ r.stat = k.stat /\ r.timer = k.timer
      BY <1>2, <3>1 DEF KState
    <3>4. KernelOK(r, {u}) BY <3>1
    <3> QED BY <3>1, <3>2, <3>3, <3>4
  <2> QED BY <2>1, <2>2
<1>4. Effects BY <1>1, <1>3 DEF Effects, Settled
<1> QED BY <1>4, <1>1, <1>3, MiddleStep

\* What the second region of a call finds.
LEMMA MiddleFacts ==
    ASSUME Inductive, NEW t \in Thread, Executing(t), pc[t] \in {"resume", "delete"}
    PROVE  /\ t = k.cur /\ isr = "none" /\ k.lock > 0 /\ t # Idle /\ pc[Idle] = "run"
           /\ k \in KState /\ pc \in [Thread -> PC] /\ tgt \in [Thread -> Thread]
           /\ \A v \in Thread \ {t} : pc[v] \notin {"resume", "delete"}
           /\ tgt[t] \in Thread \ {Idle, t}
           /\ KernelOK(k, IF pc[t] = "delete" THEN {tgt[t]} ELSE {})
           /\ pc[t] = "resume" => k.stat[tgt[t]] \in {"SUSPEND", "READY"}
           /\ k.stat[k.cur] # "CLOSE"
<1>1. t = k.cur /\ isr = "none" BY DEF Executing
<1>2. k \in KState /\ pc \in [Thread -> PC] /\ tgt \in [Thread -> Thread]
      /\ pc[Idle] = "run" /\ t # Idle
  BY DEF Inductive, TypeOK, IdleRuns
<1>3. /\ k.lock > 0 /\ tgt[t] \in Thread \ {Idle, t}
      /\ \A v \in Thread \ {t} : pc[v] \notin {"resume", "delete"}
      /\ pc[t] = "resume" => k.stat[tgt[t]] \in {"SUSPEND", "READY"}
  BY <1>1 DEF Inductive, TwoRegionCalls, AppThread
<1>4. KernelOK(k, IF pc[t] = "delete" THEN {tgt[t]} ELSE {})
  <2>1. CASE pc[t] = "delete"
    <3>1. \A x : x \in Leaving <=> x = tgt[t] BY <1>3, <2>1 DEF Leaving
    <3>2. Leaving = {tgt[t]} BY <3>1
    <3> QED BY <2>1, <3>2 DEF Inductive, KernelConsistent
  <2>2. CASE pc[t] = "resume"
    <3>1. Leaving = {} BY <1>3, <2>2 DEF Leaving
    <3> QED BY <2>2, <3>1 DEF Inductive, KernelConsistent
  <2> QED BY <2>1, <2>2
<1>5. k.stat[k.cur] # "CLOSE"
  BY <1>1 DEF Inductive, ClosedLeaves
<1> QED BY <1>1, <1>2, <1>3, <1>4, <1>5

\* rt_thread_resume, the region.
LEMMA ResumeRegionOK ==
    ASSUME Inductive, NEW t \in Thread, ResumeRegion(t)
    PROVE  Inductive' /\ Effects
<1>1. Executing(t) /\ pc[t] = "resume" /\ k' = rt_thread_resume(k, tgt[t])
      /\ pc' = [pc EXCEPT ![t] = "sched"] /\ tgt' = [tgt EXCEPT ![t] = t] /\ UNCHANGED isr
  BY DEF ResumeRegion, Goto
<1>2. /\ t = k.cur /\ isr = "none" /\ t # Idle /\ pc[Idle] = "run"
      /\ k \in KState /\ pc \in [Thread -> PC] /\ tgt \in [Thread -> Thread]
      /\ \A v \in Thread \ {t} : pc[v] \notin {"resume", "delete"}
      /\ tgt[t] \in Thread \ {t}
      /\ KernelOK(k, {}) /\ k.stat[tgt[t]] \in {"SUSPEND", "READY"}
      /\ k.stat[k.cur] # "CLOSE"
  BY <1>1, MiddleFacts
<1>3. k' \in KState /\ KernelOK(k', {}) /\ k'.cur = k.cur
      /\ k'.stat[k.cur] = k.stat[k.cur]
  BY <1>1, <1>2, ResumeThread
<1>4. pc' \in [Thread -> PC] /\ tgt' \in [Thread -> Thread] /\ Quiet' /\ IdleRuns'
  BY <1>1, <1>2, IdleAssumption DEF Quiet, IdleRuns, PC
<1>5. ClosedLeaves' BY <1>2, <1>3 DEF ClosedLeaves
<1>6. Effects
  <2>1. \A u \in Thread \ {tgt[t]} : k'.stat[u] = k.stat[u] BY <1>1, <1>2, ResumeThread
  <2>2. pc'[k.cur] = "sched" BY <1>1, <1>2
  <2> QED BY <1>2, <1>3, <2>1, <2>2 DEF Effects, Settled, After
<1> QED BY <1>6, <1>1, <1>2, <1>3, <1>4, <1>5, QuietStep

\* rt_thread_delete, second region.
LEMMA DeleteCloseOK ==
    ASSUME Inductive, NEW t \in Thread, DeleteClose(t)
    PROVE  Inductive' /\ Effects
<1>1. Executing(t) /\ pc[t] = "delete" /\ k' = CloseThread(k, tgt[t])
      /\ pc' = [pc EXCEPT ![t] = "run"] /\ tgt' = [tgt EXCEPT ![t] = t] /\ UNCHANGED isr
  BY DEF DeleteClose, Goto
<1>2. /\ t = k.cur /\ isr = "none" /\ t # Idle /\ pc[Idle] = "run" /\ k.lock > 0
      /\ k \in KState /\ pc \in [Thread -> PC] /\ tgt \in [Thread -> Thread]
      /\ \A v \in Thread \ {t} : pc[v] \notin {"resume", "delete"}
      /\ tgt[t] \in Thread \ {Idle, t}
      /\ KernelOK(k, {tgt[t]})
      /\ k.stat[k.cur] # "CLOSE"
  BY <1>1, MiddleFacts
<1>3. k' \in KState /\ KernelOK(k', {}) /\ k'.cur = k.cur /\ k'.lock = k.lock
      /\ k'.stat = [k.stat EXCEPT ![tgt[t]] = "CLOSE"]
  BY <1>1, <1>2, CloseThreadOK
<1>4. pc' \in [Thread -> PC] /\ tgt' \in [Thread -> Thread] /\ Quiet' /\ IdleRuns'
  BY <1>1, <1>2, IdleAssumption DEF Quiet, IdleRuns, PC
<1>5. k.stat \in [Thread -> Stat] BY <1>2, KTypes DEF KTyped
<1>6. ClosedLeaves' BY <1>2, <1>3, <1>5 DEF ClosedLeaves
<1>7. Effects BY <1>2, <1>3, <1>5 DEF Effects, Settled
<1> QED BY <1>7, <1>1, <1>2, <1>3, <1>4, <1>6, QuietStep

-----------------------------------------------------------------------------
(* rt_schedule at the end of a call, and the tick interrupt *)

\* A step of the scheduler or of the tick interrupt that keeps the running and
\* ready threads running or ready, and the others as they are but for w, which
\* becomes ready (w is Idle when there is none).  With the scheduler locked the
\* current thread is the same; otherwise the best thread runs, or nothing but
\* the time slice has changed.
LEMMA SchedulerStep ==
    ASSUME Inductive, NEW w \in Thread \ Leaving,
           k' \in KState, KernelOK(k', Leaving), k'.lock = k.lock,
           k'.timer \subseteq k.timer,
           k.lock # 0 => k'.cur = k.cur,
           k'.stat[w] \in {"READY", "RUNNING"},
           w = Idle \/ k.stat[w] = "SUSPEND",
           \A u \in Thread \ {w} :
              IF k.stat[u] \in {"READY", "RUNNING"}
              THEN k'.stat[u] \in {"READY", "RUNNING"}
              ELSE k'.stat[u] = k.stat[u],
           k.lock = 0 => HighestPriorityRuns(k') \/ (k'.cur = k.cur /\ k'.stat = k.stat),
           isr' \in {"none", "timers"}, UNCHANGED tgt,
           \/ UNCHANGED pc
           \/ /\ pc[k.cur] \in DOMAIN After /\ pc' = [pc EXCEPT ![k.cur] = After[@]]
              /\ k.lock = 0 => HighestPriorityRuns(k')
    PROVE  Inductive'
<1>1. /\ k \in KState /\ pc \in [Thread -> PC] /\ tgt \in [Thread -> Thread]
      /\ pc[Idle] = "run" /\ k.cur \in Thread /\ k.lock \in Nat
      /\ TwoRegionCalls /\ ClosedLeaves /\ CurrentOK(k) /\ CurrentOK(k')
  BY KTypes DEF Inductive, TypeOK, IdleRuns, KTyped, KernelConsistent, KernelOK
<1>2. After["sched"] = "run" /\ After["sleep"] = "slept" /\ After["wait"] = "waited"
      /\ DOMAIN After = {"sched", "sleep", "wait"}
  BY DEF After
<1>3. /\ pc' \in [Thread -> PC] /\ pc'[Idle] = "run"
      /\ \A v \in Thread : /\ pc'[v] \in {"resume", "delete"} <=> pc[v] \in {"resume", "delete"}
                           /\ pc[v] \in {"resume", "delete"} => pc'[v] = pc[v]
  <2>1. CASE UNCHANGED pc BY <1>1, <2>1
  <2>2. CASE pc[k.cur] \in DOMAIN After /\ pc' = [pc EXCEPT ![k.cur] = After[@]]
    <3>1. pc[k.cur] \in {"sched", "sleep"} /\ After[pc[k.cur]] \in {"run", "slept"}
      BY <1>1, <1>2, <2>2 DEF PC
    <3>2. k.cur # Idle BY <1>1, <3>1
    <3> QED BY <1>1, <2>2, <3>1, <3>2, IdleAssumption DEF PC
  <2> QED BY <2>1, <2>2
<1>4. Leaving' = Leaving BY <1>3 DEF Leaving
<1>5. TwoRegionCalls'
  <2> SUFFICES ASSUME NEW t \in Thread, pc'[t] \in {"resume", "delete"}
               PROVE  /\ t = k'.cur /\ k'.lock > 0
                      /\ tgt[t] \in AppThread \ {t}
                      /\ pc'[t] = "resume" => k'.stat[tgt[t]] \in {"SUSPEND", "READY"}
                      /\ pc'[t] = "delete" => tgt[t] \notin k'.timer
    BY DEF TwoRegionCalls
  <2>1. /\ t = k.cur /\ k.lock > 0 /\ tgt[t] \in AppThread \ {t}
        /\ pc[t] = "resume" => k.stat[tgt[t]] \in {"SUSPEND", "READY"}
        /\ pc[t] = "delete" => tgt[t] \notin k.timer /\ pc'[t] = pc[t]
        /\ pc'[t] = pc[t]
    BY <1>1, <1>3 DEF TwoRegionCalls
  <2>2. k'.cur = k.cur BY <2>1
  <2>3. ASSUME pc[t] = "resume" PROVE k'.stat[tgt[t]] \in {"SUSPEND", "READY"}
    <3>1. k'.stat[tgt[t]] # "RUNNING" BY <1>1, <2>1, <2>2 DEF CurrentOK, AppThread
    <3>2. k'.stat[tgt[t]] \in {"SUSPEND", "READY", "RUNNING"}
      BY <2>1, <2>3 DEF AppThread
    <3> QED BY <3>1, <3>2
  <2> QED BY <2>1, <2>2, <2>3
<1>6. ClosedLeaves'
  <2> SUFFICES ASSUME k'.stat[k'.cur] = "CLOSE"
               PROVE  pc'[k'.cur] = "sched" /\ k'.lock = 0
    BY DEF ClosedLeaves
  <2>1. k'.cur \in Thread BY KTypes DEF KTyped
  <2>2. k'.cur = k.cur /\ ~(k.lock = 0 /\ HighestPriorityRuns(k'))
    BY DEF HighestPriorityRuns
  <2>3. k.stat[k.cur] = "CLOSE" BY <2>1, <2>2
  <2>4. pc[k.cur] = "sched" /\ k.lock = 0 BY <1>1, <2>3 DEF ClosedLeaves
  <2> QED BY <2>2, <2>4
<1> QED BY <1>1, <1>3, <1>4, <1>5, <1>6
     DEF Inductive, TypeOK, KernelConsistent, IdleRuns

\* Nobody is half deleted while the scheduler is unlocked, and never Idle.
LEMMA LeavingFacts ==
    ASSUME Inductive
    PROVE  /\ Leaving \in SUBSET Thread /\ Idle \notin Leaving
           /\ k.lock = 0 => Leaving = {}
           /\ \A t \in k.timer : t \notin Leaving
           /\ KernelOK(k, Leaving) /\ k \in KState
<1>1. \A t \in Thread : pc[t] = "delete" =>
         k.lock > 0 /\ tgt[t] \in Thread \ {Idle} /\ tgt[t] \notin k.timer
  BY DEF Inductive, TwoRegionCalls, AppThread
<1>2. k.lock = 0 => Leaving = {} BY <1>1 DEF Leaving
<1> QED BY <1>1, <1>2 DEF Leaving, Inductive, KernelConsistent, TypeOK

\* rt_schedule at the end of a call.
LEMMA ScheduleStepOK ==
    ASSUME Inductive, NEW t \in Thread, Schedule(t), UNCHANGED tgt
    PROVE  Inductive' /\ Effects
<1>1. t = k.cur /\ isr = "none" /\ pc[t] \in DOMAIN After /\ k' = rt_schedule(k)
      /\ pc' = [pc EXCEPT ![t] = After[pc[t]]] /\ UNCHANGED isr
  BY DEF Schedule, Executing, Goto
<1>2. /\ Leaving \in SUBSET Thread /\ Idle \notin Leaving
      /\ k.lock = 0 => Leaving = {}
      /\ KernelOK(k, Leaving) /\ k \in KState
  BY LeavingFacts
<1>3. /\ k' \in KState /\ KernelOK(k', Leaving)
      /\ k'.lock = k.lock /\ k'.timer = k.timer
      /\ k.lock # 0 => k' = k
      /\ k.lock = 0 => HighestPriorityRuns(k')
      /\ \A u \in Thread :
            IF k.stat[u] \in {"READY", "RUNNING"}
            THEN k'.stat[u] \in {"READY", "RUNNING"}
            ELSE k'.stat[u] = k.stat[u]
  BY <1>1, <1>2, ScheduleOK
<1>4. Idle \in Thread \ Leaving /\ k'.stat[Idle] \in {"READY", "RUNNING"}
  BY <1>2, <1>3, IdleAssumption DEF KernelOK, IdleOK
<1>5. pc' = [pc EXCEPT ![k.cur] = After[@]] BY <1>1
<1>6. Effects BY <1>1, <1>3 DEF Effects, Settled
<1> QED BY <1>6, <1>1, <1>3, <1>4, <1>5, SchedulerStep

\* rt_tick_increase and the thread timers it finds expired.
LEMMA TickOK ==
    ASSUME Inductive, Interrupt, UNCHANGED tgt
    PROVE  Inductive' /\ Effects
<1>1. /\ Leaving \in SUBSET Thread /\ Idle \notin Leaving
      /\ k.lock = 0 => Leaving = {}
      /\ \A t \in k.timer : t \notin Leaving
      /\ KernelOK(k, Leaving) /\ k \in KState /\ k.timer \subseteq Thread
  BY LeavingFacts, KTypes DEF KTyped
<1>2. CASE TickEnter
  <2>1. k' = TimeSlice(k) /\ isr' = "timers" /\ UNCHANGED pc BY <1>2 DEF TickEnter
  <2>2. /\ k' \in KState /\ KernelOK(k', Leaving)
        /\ k'.lock = k.lock /\ k'.timer = k.timer
        /\ k.lock # 0 => k'.cur = k.cur
        /\ k.lock = 0 => HighestPriorityRuns(k') \/ (k'.cur = k.cur /\ k'.stat = k.stat)
        /\ \A u \in Thread :
              IF k.stat[u] \in {"READY", "RUNNING"}
              THEN k'.stat[u] \in {"READY", "RUNNING"}
              ELSE k'.stat[u] = k.stat[u]
    BY <1>1, <2>1, TimeSliceOK
  <2>3. Idle \in Thread \ Leaving /\ k'.stat[Idle] \in {"READY", "RUNNING"}
    BY <1>1, <2>2, IdleAssumption DEF KernelOK, IdleOK
  <2>4. Effects
    <3>1. k.lock = 0 => HighestPriorityRuns(k') \/ (k'.cur = k.cur /\ k'.stat = k.stat /\ k'.prio = k.prio)
      BY <1>1, <2>1, TimeSliceOK
    <3>2. Settled => Settled' BY <2>1, <2>2, <3>1 DEF Settled, HighestPriorityRuns
    <3> QED BY <2>2, <3>2 DEF Effects
  <2> QED BY <2>1, <2>2, <2>3, <2>4, SchedulerStep
<1>3. CASE TickLeave
  <2>1. k' = k /\ isr' = "none" /\ UNCHANGED pc BY <1>3 DEF TickLeave
  <2>2. Idle \in Thread \ Leaving /\ k.stat[Idle] \in {"READY", "RUNNING"}
    BY <1>1, IdleAssumption DEF KernelOK, IdleOK
  <2>3. Effects BY <2>1 DEF Effects, Settled
  <2> QED BY <1>1, <2>1, <2>2, <2>3, SchedulerStep
<1>4. ASSUME NEW t \in Thread, TimerFire(t) PROVE Inductive' /\ Effects
  <2>1. k' = _thread_timeout(k, t) /\ t \in k.timer /\ UNCHANGED <<pc, isr>>
        /\ isr = "timers"
    BY <1>4 DEF TimerFire
  <2>2. t \in k.timer \ Leaving BY <1>1, <2>1
  <2>3. /\ k' \in KState /\ KernelOK(k', Leaving)
        /\ k'.lock = k.lock /\ k'.timer = k.timer \ {t}
        /\ k.lock # 0 => k'.cur = k.cur
        /\ k.lock = 0 => HighestPriorityRuns(k')
        /\ k'.stat[t] \in {"READY", "RUNNING"}
        /\ \A u \in Thread \ {t} :
              IF k.stat[u] \in {"READY", "RUNNING"}
              THEN k'.stat[u] \in {"READY", "RUNNING"}
              ELSE k'.stat[u] = k.stat[u]
    BY <1>1, <2>1, <2>2, TimeoutOK
  <2>4. k.stat[t] = "SUSPEND" BY <1>1, <2>1 DEF KernelOK, TimersOK
  <2>5. Effects BY <2>1, <2>3, <2>4 DEF Effects, Settled
  <2> QED BY <2>1, <2>2, <2>3, <2>4, <2>5, SchedulerStep
<1> QED BY <1>2, <1>3, <1>4 DEF Interrupt

-----------------------------------------------------------------------------
(* Theorems *)

\* Every step of the threads, of the idle thread and of the tick interrupt
\* keeps the invariant.
LEMMA NextOK == ASSUME Guarded, Inductive, [Next]_schedVars PROVE Inductive' /\ Effects
<1>1. CASE UNCHANGED schedVars
  BY <1>1 DEF schedVars, Inductive, TypeOK, KernelConsistent, Leaving,
              TwoRegionCalls, ClosedLeaves, IdleRuns, Effects, Settled
<1>2. ASSUME NEW t \in Thread, ThreadStep(t) PROVE Inductive' /\ Effects
  BY <1>2, ExitOK, YieldOK, SleepOK, SleepReturnOK, SuspendOK, ResumeRegionOK,
     DeleteCloseOK, CriticalOK, StartupOK, ResumeCheckOK, DeleteRemoveOK,
     CreateOK, ControlOK
     DEF ThreadStep
<1>3. CASE Reap BY <1>3, ReapOK
<1>4. CASE ProcessorStep /\ UNCHANGED tgt
  BY <1>4, ScheduleStepOK, TickOK DEF ProcessorStep
<1> QED BY <1>1, <1>2, <1>3, <1>4 DEF Next

\* With calls on other threads made under the scheduler lock, the kernel state
\* is consistent in every reachable state.
THEOREM InductiveInvariant == Guarded => (Spec => []Inductive)
<1> SUFFICES ASSUME Guarded PROVE Spec => []Inductive OBVIOUS
<1>1. Init => Inductive BY InitOK
<1>2. Inductive /\ [Next]_schedVars => Inductive' BY NextOK
<1> QED BY <1>1, <1>2, PTL DEF Spec

\* The ready lists hold exactly the READY threads under their priorities, the
\* bitmap exactly the bits of the lists that are not empty.
THEOREM ReadyQueueAlwaysConsistent == Guarded => (Spec => []ReadyQueueConsistent)
<1> SUFFICES ASSUME Guarded PROVE Spec => []ReadyQueueConsistent OBVIOUS
<1>1. Inductive => ReadyQueueConsistent
  BY DEF Inductive, KernelConsistent, KernelOK, ReadyQueueConsistent
<1> QED BY <1>1, InductiveInvariant, PTL

\* The defunct list holds each closed thread once, and nothing else.
THEOREM ClosedThreadsAlwaysDefunct == Guarded => (Spec => []ClosedThreadsDefunct)
<1> SUFFICES ASSUME Guarded PROVE Spec => []ClosedThreadsDefunct OBVIOUS
<1>1. Inductive => ClosedThreadsDefunct
  BY DEF Inductive, KernelConsistent, KernelOK, ClosedThreadsDefunct
<1> QED BY <1>1, InductiveInvariant, PTL

\* The assertion of _thread_timeout never fails.
THEOREM TimeoutAssertionHolds == Guarded => (Spec => []TimeoutAssertion)
<1> SUFFICES ASSUME Guarded PROVE Spec => []TimeoutAssertion OBVIOUS
<1>1. Inductive => TimeoutAssertion
  BY DEF Inductive, KernelConsistent, KernelOK, TimeoutAssertion
<1> QED BY <1>1, InductiveInvariant, PTL

\* A thread that has locked the scheduler keeps the processor until it unlocks.
THEOREM LockKeepsProcessor == Guarded => (Spec => NoSwitchWhenLocked)
<1> SUFFICES ASSUME Guarded PROVE Spec => NoSwitchWhenLocked OBVIOUS
<1>1. Inductive /\ [Next]_schedVars => [k.lock > 0 => k'.cur = k.cur]_schedVars
  BY NextOK DEF Effects
<1> QED BY <1>1, InductiveInvariant, PTL DEF Spec, NoSwitchWhenLocked

\* A closed thread is never brought back; it can only be freed.
THEOREM ClosedIsFinal == Guarded => (Spec => ClosedStaysClosed)
<1> SUFFICES ASSUME Guarded PROVE Spec => ClosedStaysClosed OBVIOUS
<1>1. Inductive /\ [Next]_schedVars =>
        [\A t \in Thread : k.stat[t] = "CLOSE" => k'.stat[t] \in {"CLOSE", "FREE"}]_schedVars
  BY NextOK DEF Effects
<1> QED BY <1>1, InductiveInvariant, PTL DEF Spec, ClosedStaysClosed

\* When no priority is changed from outside, a thread in application code is
\* RUNNING and no ready thread has a higher priority.
THEOREM HighestPriorityAlwaysRuns ==
    Guarded /\ "control" \notin Calls => (Spec => []HighestRuns)
<1> SUFFICES ASSUME Guarded, "control" \notin Calls PROVE Spec => []HighestRuns OBVIOUS
<1>1. Init => Settled BY InitOK
<1>2. Inductive /\ Settled /\ [Next]_schedVars => Settled' BY NextOK DEF Effects
<1>3. Settled => HighestRuns BY DEF Settled, HighestRuns, InThread
<1> QED BY <1>1, <1>2, <1>3, InductiveInvariant, PTL DEF Spec

-----------------------------------------------------------------------------
(* The timers *)

LEMMA TimerNumbers ==
    /\ TickRange \in Nat /\ TickRange > 4 /\ HalfRange \in Nat /\ HalfRange < TickRange
    /\ HalfRange > 0
<1>1. TickRange \in Nat /\ TickRange > 4 BY TimerConstants
<1> QED BY <1>1 DEF HalfRange

LEMMA TickMinusType ==
    ASSUME NEW m \in Int, NEW n \in Int
    PROVE  TickMinus(m, n) \in 0..(TickRange - 1)
<1>1. TickRange \in Nat /\ TickRange > 0 BY TimerNumbers
<1>2. m - n + TickRange \in Int BY <1>1
<1> QED BY <1>1, <1>2 DEF TickMinus

LEMMA EntryType ==
    ASSUME NEW e \in TimerEntry
    PROVE  e.timer \in Timers /\ e.at \in 0..(TickRange - 1)
  BY DEF TimerEntry

LEMMA InTimersIn ==
    ASSUME NEW list \in Seq(TimerEntry)
    PROVE  /\ TimersIn(list) \subseteq Timers
           /\ \A t : t \in TimersIn(list) <=> \E i \in 1 .. Len(list) : list[i].timer = t
           /\ EachOnce(list) <=>
                 \A i, j \in 1 .. Len(list) : list[i].timer = list[j].timer => i = j
           /\ TimersIn(<< >>) = {} /\ EachOnce(<< >>)
<1>1. DOMAIN list = 1 .. Len(list) /\ \A i \in 1 .. Len(list) : list[i] \in TimerEntry
  OBVIOUS
<1>2. \A i \in 1 .. Len(list) : list[i].timer \in Timers BY <1>1, EntryType
<1>3. TimersIn(<< >>) = {} /\ EachOnce(<< >>) BY DEF TimersIn, EachOnce
<1>4. TimersIn(list) \subseteq Timers BY <1>1, <1>2 DEF TimersIn
<1>5. \A t : t \in TimersIn(list) <=> \E i \in 1 .. Len(list) : list[i].timer = t
  BY <1>1 DEF TimersIn
<1>6. EachOnce(list) <=> \A i, j \in 1 .. Len(list) : list[i].timer = list[j].timer => i = j
  BY <1>1 DEF EachOnce
<1> QED BY <1>3, <1>4, <1>5, <1>6

\* _timer_remove on one list: where each entry goes.
LEMMA UnlinkPositions ==
    ASSUME NEW list \in Seq(TimerEntry), EachOnce(list), NEW j \in 1 .. Len(list)
    PROVE  LET r == Unlinked(list, list[j].timer)
           IN  /\ r \in Seq(TimerEntry) /\ Len(r) = Len(list) - 1
               /\ \A i \in 1 .. Len(list) - 1 : r[i] = IF i < j THEN list[i] ELSE list[i + 1]
<1> DEFINE t == list[j].timer
           I == {i \in 1 .. Len(list) : list[i].timer = t}
<1>1. I = {j} BY InTimersIn
<1>2. \E i \in 1 .. Len(list) : list[i].timer = t OBVIOUS
<1>3. Unlinked(list, t) = IF \E i \in 1 .. Len(list) : list[i].timer = t
                          THEN RemoveAt(list, IF I # {} THEN Min(I) ELSE 0) ELSE list
  BY DEF Unlinked, RemoveFirstMatch, SelectInSeq
<1>4. Min({j}) = j
  <2>1. {j} # {} /\ {j} \in SUBSET Nat OBVIOUS
  <2>2. Min({j}) \in {j} BY <2>1, MinNat
  <2> QED BY <2>2
<1>5. Unlinked(list, t) = RemoveAt(list, j) BY <1>1, <1>2, <1>3, <1>4
<1> HIDE DEF t, I
<1>6. /\ RemoveAt(list, j) \in Seq(TimerEntry) /\ Len(RemoveAt(list, j)) = Len(list) - 1
      /\ \A i \in 1 .. Len(list) - 1 :
            RemoveAt(list, j)[i] = IF i < j THEN list[i] ELSE list[i + 1]
  BY RemoveAtFacts
<1> QED BY <1>5, <1>6 DEF t

LEMMA UnlinkAbsent ==
    ASSUME NEW list \in Seq(TimerEntry), NEW t, t \notin TimersIn(list)
    PROVE  Unlinked(list, t) = list
<1>1. ~ \E i \in 1 .. Len(list) : list[i].timer = t BY InTimersIn
<1> QED BY <1>1 DEF Unlinked, RemoveFirstMatch

LEMMA UnlinkFacts ==
    ASSUME NEW list \in Seq(TimerEntry), EachOnce(list), NEW t
    PROVE  /\ Unlinked(list, t) \in Seq(TimerEntry) /\ EachOnce(Unlinked(list, t))
           /\ TimersIn(Unlinked(list, t)) = TimersIn(list) \ {t}
<1>1. CASE t \notin TimersIn(list) BY <1>1, UnlinkAbsent
<1>2. CASE t \in TimersIn(list)
  <2>1. PICK j \in 1 .. Len(list) : list[j].timer = t BY <1>2, InTimersIn
  <2>2. PICK r : r = Unlinked(list, t) OBVIOUS
  <2>3. /\ r \in Seq(TimerEntry) /\ Len(r) = Len(list) - 1
        /\ \A i \in 1 .. Len(list) - 1 : r[i] = IF i < j THEN list[i] ELSE list[i + 1]
    BY <2>1, <2>2, UnlinkPositions
  <2>4. Len(list) \in Nat /\ j \in 1 .. Len(list) OBVIOUS
  <2>5. \A i, l \in 1 .. Len(list) : list[i].timer = list[l].timer => i = l BY InTimersIn
  <2>6. \A i \in 1 .. Len(r) : \E l \in 1 .. Len(list) :
            r[i] = list[l] /\ l = IF i < j THEN i ELSE i + 1
    BY <2>3, <2>4
  <2>7. \A l \in 1 .. Len(list) : l # j => \E i \in 1 .. Len(r) : r[i] = list[l]
    <3> SUFFICES ASSUME NEW l \in 1 .. Len(list), l # j PROVE \E i \in 1 .. Len(r) : r[i] = list[l]
      OBVIOUS
    <3>1. CASE l < j
      <4>1. l \in 1 .. Len(list) - 1 BY <2>4, <3>1
      <4> QED BY <2>3, <3>1, <4>1
    <3>2. CASE ~(l < j)
      <4>1. l - 1 \in 1 .. Len(list) - 1 /\ ~(l - 1 < j) /\ (l - 1) + 1 = l BY <2>4, <3>2
      <4> QED BY <2>3, <4>1
    <3> QED BY <3>1, <3>2
  <2>8. ASSUME NEW i \in 1 .. Len(r), NEW m \in 1 .. Len(r), r[i].timer = r[m].timer PROVE i = m
    <3>1. PICK l \in 1 .. Len(list) : r[i] = list[l] /\ l = IF i < j THEN i ELSE i + 1 BY <2>6
    <3>2. PICK q \in 1 .. Len(list) : r[m] = list[q] /\ q = IF m < j THEN m ELSE m + 1 BY <2>6
    <3>3. l = q BY <2>5, <2>8, <3>1, <3>2
    <3>4. i \in Nat /\ m \in Nat /\ j \in Nat BY <2>3, <2>4
    <3> QED BY <3>1, <3>2, <3>3, <3>4
  <2>9. EachOnce(r) BY <2>3, <2>8, InTimersIn
  <2>10. ASSUME NEW u PROVE u \in TimersIn(r) <=> u \in TimersIn(list) \ {t}
    <3>1. ASSUME u \in TimersIn(r) PROVE u \in TimersIn(list) \ {t}
      <4>1. PICK i \in 1 .. Len(r) : r[i].timer = u BY <2>3, <3>1, InTimersIn
      <4>2. PICK l \in 1 .. Len(list) : r[i] = list[l] /\ l = IF i < j THEN i ELSE i + 1 BY <2>6
      <4>3. l # j
        <5>1. i \in Nat /\ j \in Nat BY <2>3, <2>4
        <5> QED BY <4>2, <5>1
      <4>4. u # t BY <2>1, <2>5, <4>1, <4>2, <4>3
      <4>5. u \in TimersIn(list) BY <4>1, <4>2, InTimersIn
      <4> QED BY <4>4, <4>5
    <3>2. ASSUME u \in TimersIn(list) \ {t} PROVE u \in TimersIn(r)
      <4>1. PICK l \in 1 .. Len(list) : list[l].timer = u BY <3>2, InTimersIn
      <4>2. l # j BY <2>1, <3>2, <4>1
      <4> QED BY <2>3, <2>7, <4>1, <4>2, InTimersIn
    <3> QED BY <3>1, <3>2
  <2> QED BY <2>2, <2>3, <2>9, <2>10
<1> QED BY <1>1, <1>2

\* _rt_timer_start puts an entry into its list.
LEMMA InsertEntryFacts ==
    ASSUME NEW list \in Seq(TimerEntry), EachOnce(list), NEW e \in TimerEntry,
           e.timer \notin TimersIn(list)
    PROVE  /\ InsertEntry(list, e) \in Seq(TimerEntry) /\ EachOnce(InsertEntry(list, e))
           /\ TimersIn(InsertEntry(list, e)) = TimersIn(list) \cup {e.timer}
<1> DEFINE Later == {i \in DOMAIN list : TickMinus(list[i].at, e.at) \in 1..(HalfRange - 1)}
<1>1. DOMAIN list = 1 .. Len(list) /\ Len(list) \in Nat OBVIOUS
<1>2. PICK n : n = IF Later = {} THEN Len(list) + 1 ELSE Min(Later) OBVIOUS
<1>3. n \in Int /\ 1 <= n /\ n <= Len(list) + 1
  <2>1. CASE Later = {} BY <1>1, <1>2, <2>1
  <2>2. CASE Later # {}
    <3>1. Later \in SUBSET Nat /\ Later \subseteq 1 .. Len(list) BY <1>1
    <3> HIDE DEF Later
    <3>2. Min(Later) \in Later BY <2>2, <3>1, MinNat
    <3>3. n \in 1 .. Len(list) BY <1>2, <2>2, <3>1, <3>2
    <3> QED BY <1>1, <3>3
  <2> QED BY <2>1, <2>2
<1>4. PICK r : r = InsertEntry(list, e) OBVIOUS
<1>5. r = InsertAt(list, n, e) BY <1>2, <1>4 DEF InsertEntry
<1> HIDE DEF Later
<1>6. /\ r \in Seq(TimerEntry) /\ Len(r) = Len(list) + 1
      /\ \A x \in 1 .. Len(list) + 1 :
            r[x] = IF x < n THEN list[x] ELSE IF x = n THEN e ELSE list[x - 1]
  <2>1. InsertAt(list, n, e) \in Seq(TimerEntry) /\ PutIn(InsertAt(list, n, e), list, n, e)
    BY <1>3, InsertAtFacts
  <2> QED BY <1>5, <2>1 DEF PutIn
<1>7. \A i, l \in 1 .. Len(list) : list[i].timer = list[l].timer => i = l BY InTimersIn
<1>8. \A i \in 1 .. Len(list) : list[i].timer # e.timer BY InTimersIn
<1>9. \A x \in 1 .. Len(r) :
         \/ x = n /\ r[x] = e
         \/ x < n /\ x \in 1 .. Len(list) /\ r[x] = list[x]
         \/ x > n /\ x - 1 \in 1 .. Len(list) /\ r[x] = list[x - 1]
  BY <1>1, <1>3, <1>6
<1>10. ASSUME NEW x \in 1 .. Len(r), NEW y \in 1 .. Len(r), r[x].timer = r[y].timer PROVE x = y
  <2>0. x \in Int /\ y \in Int BY <1>6
  <2>1. CASE r[x] = e BY <1>8, <1>9, <1>10, <2>1
  <2>2. CASE r[y] = e BY <1>8, <1>9, <1>10, <2>2
  <2>3. CASE r[x] # e /\ r[y] # e
    <3>1. PICK p \in 1 .. Len(list) : r[x] = list[p] /\ p = IF x < n THEN x ELSE x - 1
      BY <1>3, <1>9, <2>0, <2>3
    <3>2. PICK q \in 1 .. Len(list) : r[y] = list[q] /\ q = IF y < n THEN y ELSE y - 1
      BY <1>3, <1>9, <2>0, <2>3
    <3>3. p = q BY <1>7, <1>10, <3>1, <3>2
    <3>4. x # n /\ y # n BY <1>9, <2>3
    <3> QED BY <1>3, <2>0, <3>1, <3>2, <3>3, <3>4
  <2> QED BY <2>1, <2>2, <2>3
<1>11. EachOnce(r) BY <1>6, <1>10, InTimersIn
<1>12. ASSUME NEW u PROVE u \in TimersIn(r) <=> u \in TimersIn(list) \cup {e.timer}
  <2>1. ASSUME u \in TimersIn(r) PROVE u \in TimersIn(list) \cup {e.timer}
    <3>1. PICK x \in 1 .. Len(r) : r[x].timer = u BY <1>6, <2>1, InTimersIn
    <3>2. r[x] = e \/ \E p \in 1 .. Len(list) : r[x] = list[p] BY <1>9
    <3> QED BY <3>1, <3>2, InTimersIn
  <2>2. ASSUME u = e.timer PROVE u \in TimersIn(r)
    <3>1. n \in 1 .. Len(r) /\ r[n] = e BY <1>1, <1>3, <1>6
    <3> QED BY <1>6, <2>2, <3>1, InTimersIn
  <2>3. ASSUME u \in TimersIn(list) PROVE u \in TimersIn(r)
    <3>1. PICK p \in 1 .. Len(list) : list[p].timer = u BY <2>3, InTimersIn
    <3>2. CASE p < n
      <4>1. p \in 1 .. Len(r) /\ r[p] = list[p] BY <1>1, <1>3, <1>6, <3>2
      <4> QED BY <1>6, <3>1, <4>1, InTimersIn
    <3>3. CASE ~(p < n)
      <4>1. p + 1 \in 1 .. Len(list) + 1 /\ ~(p + 1 < n) /\ p + 1 # n /\ (p + 1) - 1 = p
        BY <1>1, <1>3, <3>3
      <4>2. p + 1 \in 1 .. Len(r) /\ r[p + 1] = list[p] BY <1>6, <4>1
      <4> QED BY <1>6, <3>1, <4>2, InTimersIn
    <3> QED BY <3>2, <3>3
  <2> QED BY <2>1, <2>2, <2>3
<1> QED BY <1>4, <1>6, <1>11, <1>12

-----------------------------------------------------------------------------

\* The lists of a state are well formed.
Tidy(x) ==
    /\ x \in TimerState
    /\ EachOnce(x.hard) /\ TimersIn(x.hard) \cap SoftTimer = {}
    /\ EachOnce(x.soft) /\ TimersIn(x.soft) \subseteq SoftTimer

TimerRecord == [exists : BOOLEAN, periodic : BOOLEAN, active : BOOLEAN, init : 0..(HalfRange - 1)]

LEMMA StateFields ==
    ASSUME NEW x \in TimerState
    PROVE  /\ x.rec \in [Timers -> TimerRecord]
           /\ x.hard \in Seq(TimerEntry) /\ x.soft \in Seq(TimerEntry)
           /\ x.local \in [BOOLEAN -> SUBSET Timers]
           /\ x.cur \in [BOOLEAN -> Timers \cup {NoTimer}]
           /\ x.status \in {"idle", "busy"} /\ x.stat \in {"ready", "suspend"}
  BY DEF TimerState, TimerRecord

\* r has the lists of x without t, and the rest of x apart from the records.
Off(x, r, t) ==
    /\ Listed(r) = Listed(x) \ {t} /\ Called(r) = Called(x) \ {t}
    /\ \A c \in BOOLEAN : r.local[c] = x.local[c] \ {t}
    /\ r.cur = x.cur /\ r.status = x.status

\* r has the records of x except the one of t.
Others(x, r, t) == \A u \in Timers \ {t} : r.rec[u] = x.rec[u]

LEMMA RemoveTidy ==
    ASSUME NEW x, Tidy(x), NEW t
    PROVE  LET r == _timer_remove(x, t)
           IN  Tidy(r) /\ Off(x, r, t) /\ r.rec = x.rec /\ r.stat = x.stat
<1> DEFINE r == _timer_remove(x, t)
<1>1. x \in TimerState /\ EachOnce(x.hard) /\ EachOnce(x.soft) BY DEF Tidy
<1>2. x.hard \in Seq(TimerEntry) /\ x.soft \in Seq(TimerEntry) /\ x.local \in [BOOLEAN -> SUBSET Timers]
  BY <1>1, StateFields
<1>3. /\ Unlinked(x.hard, t) \in Seq(TimerEntry) /\ EachOnce(Unlinked(x.hard, t))
      /\ TimersIn(Unlinked(x.hard, t)) = TimersIn(x.hard) \ {t}
  BY <1>1, <1>2, UnlinkFacts
<1>4. /\ Unlinked(x.soft, t) \in Seq(TimerEntry) /\ EachOnce(Unlinked(x.soft, t))
      /\ TimersIn(Unlinked(x.soft, t)) = TimersIn(x.soft) \ {t}
  BY <1>1, <1>2, UnlinkFacts
<1>5. r = [x EXCEPT !.hard = Unlinked(x.hard, t), !.soft = Unlinked(x.soft, t),
                    !.local = [c \in BOOLEAN |-> x.local[c] \ {t}]]
  BY DEF _timer_remove
<1> HIDE DEF r
<1>6. [c \in BOOLEAN |-> x.local[c] \ {t}] \in [BOOLEAN -> SUBSET Timers] BY <1>2
<1>7. /\ r.hard = Unlinked(x.hard, t) /\ r.soft = Unlinked(x.soft, t)
      /\ r.local = [c \in BOOLEAN |-> x.local[c] \ {t}]
      /\ r.rec = x.rec /\ r.cur = x.cur /\ r.status = x.status /\ r.stat = x.stat
      /\ r \in TimerState
  BY <1>1, <1>3, <1>4, <1>5, <1>6 DEF TimerState
<1>8. Tidy(r) BY <1>3, <1>4, <1>7 DEF Tidy
<1>9. \A c \in BOOLEAN : r.local[c] = x.local[c] \ {t} BY <1>7
<1>10. Listed(r) = Listed(x) \ {t} BY <1>3, <1>4, <1>7 DEF Listed
<1>11. r.local[TRUE] = x.local[TRUE] \ {t} /\ r.local[FALSE] = x.local[FALSE] \ {t} BY <1>9
<1>12. Called(r) = Called(x) \ {t} BY <1>11 DEF Called
<1> QED BY <1>7, <1>8, <1>9, <1>10, <1>12 DEF Off, r

LEMMA DeactivateTidy ==
    ASSUME NEW x, Tidy(x), NEW t \in Timers
    PROVE  LET r == Deactivate(x, t)
           IN  /\ Tidy(r) /\ Off(x, r, t) /\ Others(x, r, t) /\ r.stat = x.stat
               /\ ~r.rec[t].active /\ r.rec[t].exists = x.rec[t].exists
<1> DEFINE q == _timer_remove(x, t)
           r == Deactivate(x, t)
<1>1. Tidy(q) /\ Off(x, q, t) /\ q.rec = x.rec /\ q.stat = x.stat BY RemoveTidy
<1>2. r = [q EXCEPT !.rec[t].active = FALSE] BY DEF Deactivate
<1> HIDE DEF q, r
<1>3. q \in TimerState /\ q.rec \in [Timers -> TimerRecord] BY <1>1, StateFields DEF Tidy
<1>4. r = [q EXCEPT !.rec = [q.rec EXCEPT ![t] = [q.rec[t] EXCEPT !.active = FALSE]]]
  BY <1>2, <1>3
<1>5. [q.rec[t] EXCEPT !.active = FALSE] \in TimerRecord BY <1>3 DEF TimerRecord
<1>6. [q.rec EXCEPT ![t] = [q.rec[t] EXCEPT !.active = FALSE]] \in [Timers -> TimerRecord]
  BY <1>3, <1>5
<1>7. /\ r \in TimerState /\ r.rec = [q.rec EXCEPT ![t] = [q.rec[t] EXCEPT !.active = FALSE]]
      /\ r.hard = q.hard /\ r.soft = q.soft /\ r.local = q.local /\ r.cur = q.cur
      /\ r.status = q.status /\ r.stat = q.stat
  BY <1>3, <1>4, <1>6 DEF TimerState, TimerRecord
<1>8. Tidy(r) BY <1>1, <1>7 DEF Tidy
<1>9. Off(x, r, t) BY <1>1, <1>7 DEF Off, Listed, Called
<1>10. Others(x, r, t) BY <1>1, <1>3, <1>7 DEF Others
<1>11. r.rec[t] = [q.rec[t] EXCEPT !.active = FALSE] /\ q.rec[t] \in TimerRecord BY <1>3, <1>7
<1>12. ~r.rec[t].active /\ r.rec[t].exists = x.rec[t].exists BY <1>1, <1>11 DEF TimerRecord
<1> QED BY <1>1, <1>7, <1>8, <1>9, <1>10, <1>12 DEF r

\* r has the lists of x with t in its list.
On(x, r, t) ==
    /\ Listed(r) = Listed(x) \cup {t} /\ Called(r) = Called(x) \ {t}
    /\ \A c \in BOOLEAN : r.local[c] = x.local[c] \ {t}
    /\ r.cur = x.cur /\ r.status = x.status

LEMMA LinkTidy ==
    ASSUME NEW x, Tidy(x), NEW t \in Timers, tick \in 0..(TickRange - 1)
    PROVE  LET r == LinkTimer(x, t)
           IN  /\ Tidy(r) /\ On(x, r, t) /\ Others(x, r, t) /\ r.stat = x.stat
               /\ r.rec[t].active /\ r.rec[t].exists = x.rec[t].exists
<1> DEFINE q == _timer_remove(x, t)
           r == LinkTimer(x, t)
           e == [timer |-> t, at |-> (tick + x.rec[t].init) % TickRange]
<1>1. Tidy(q) /\ Off(x, q, t) /\ q.rec = x.rec /\ q.stat = x.stat BY RemoveTidy
<1>2. r = IF t \in SoftTimer
          THEN [q EXCEPT !.soft = InsertEntry(q.soft, e), !.rec[t].active = TRUE]
          ELSE [q EXCEPT !.hard = InsertEntry(q.hard, e), !.rec[t].active = TRUE]
  BY DEF LinkTimer
<1>3. e \in TimerEntry /\ e.timer = t
  <2>1. x.rec[t] \in TimerRecord BY StateFields DEF Tidy
  <2>2. x.rec[t].init \in 0..(HalfRange - 1) BY <2>1 DEF TimerRecord
  <2>3. tick + x.rec[t].init \in Int BY <2>2, TimerNumbers
  <2>4. (tick + x.rec[t].init) % TickRange \in 0..(TickRange - 1) BY <2>3, TimerNumbers
  <2> QED BY <2>4 DEF TimerEntry
<1> HIDE DEF q, r, e
<1>4. q \in TimerState /\ q.rec \in [Timers -> TimerRecord]
      /\ q.hard \in Seq(TimerEntry) /\ q.soft \in Seq(TimerEntry)
  BY <1>1, StateFields DEF Tidy
<1>5. t \notin TimersIn(q.hard) /\ t \notin TimersIn(q.soft) BY <1>1 DEF Off, Listed
<1>6. /\ InsertEntry(q.hard, e) \in Seq(TimerEntry) /\ EachOnce(InsertEntry(q.hard, e))
      /\ TimersIn(InsertEntry(q.hard, e)) = TimersIn(q.hard) \cup {t}
  BY <1>1, <1>3, <1>4, <1>5, InsertEntryFacts DEF Tidy
<1>7. /\ InsertEntry(q.soft, e) \in Seq(TimerEntry) /\ EachOnce(InsertEntry(q.soft, e))
      /\ TimersIn(InsertEntry(q.soft, e)) = TimersIn(q.soft) \cup {t}
  BY <1>1, <1>3, <1>4, <1>5, InsertEntryFacts DEF Tidy
<1> DEFINE f == [q.rec EXCEPT ![t] = [q.rec[t] EXCEPT !.active = TRUE]]
<1>8. [q.rec[t] EXCEPT !.active = TRUE] \in TimerRecord BY <1>4 DEF TimerRecord
<1>9. f \in [Timers -> TimerRecord] BY <1>4, <1>8
<1>10. f[t] = [q.rec[t] EXCEPT !.active = TRUE] /\ q.rec[t] \in TimerRecord BY <1>4
<1>11. f[t].active /\ f[t].exists = x.rec[t].exists BY <1>1, <1>10 DEF TimerRecord
<1>12. \A u \in Timers \ {t} : f[u] = x.rec[u] BY <1>1, <1>4
<1>13. CASE t \in SoftTimer
  <2>1. r = [q EXCEPT !.soft = InsertEntry(q.soft, e), !.rec = f] BY <1>2, <1>4, <1>13
  <2> HIDE DEF f
  <2>2. /\ r \in TimerState /\ r.rec = f /\ r.hard = q.hard /\ r.soft = InsertEntry(q.soft, e)
        /\ r.local = q.local /\ r.cur = q.cur /\ r.status = q.status /\ r.stat = q.stat
    BY <1>4, <1>7, <1>9, <2>1 DEF TimerState, TimerRecord
  <2>3. Tidy(r) BY <1>1, <1>7, <1>13, <2>2 DEF Tidy
  <2>4. Listed(r) = Listed(q) \cup {t} BY <1>7, <2>2 DEF Listed
  <2>5. On(x, r, t) BY <1>1, <2>2, <2>4 DEF On, Off, Called, Listed
  <2> QED BY <1>1, <1>11, <1>12, <2>2, <2>3, <2>5 DEF Others, r
<1>14. CASE t \notin SoftTimer
  <2>1. r = [q EXCEPT !.hard = InsertEntry(q.hard, e), !.rec = f] BY <1>2, <1>4, <1>14
  <2> HIDE DEF f
  <2>2. /\ r \in TimerState /\ r.rec = f /\ r.soft = q.soft /\ r.hard = InsertEntry(q.hard, e)
        /\ r.local = q.local /\ r.cur = q.cur /\ r.status = q.status /\ r.stat = q.stat
    BY <1>4, <1>6, <1>9, <2>1 DEF TimerState, TimerRecord
  <2>3. Tidy(r) BY <1>1, <1>6, <1>14, <2>2 DEF Tidy
  <2>4. Listed(r) = Listed(q) \cup {t} BY <1>6, <2>2 DEF Listed
  <2>5. On(x, r, t) BY <1>1, <2>2, <2>4 DEF On, Off, Called, Listed
  <2> QED BY <1>1, <1>11, <1>12, <2>2, <2>3, <2>5 DEF Others, r
<1> QED BY <1>13, <1>14

\* rt_thread_resume of the timer thread.
LEMMA ResumeTidy ==
    ASSUME NEW x, Tidy(x), ThreadTimer \in Timers
    PROVE  LET r == ResumeTimerThread(x)
           IN  /\ Tidy(r) /\ Off(x, r, ThreadTimer) /\ Others(x, r, ThreadTimer)
               /\ r.stat = "ready" /\ ~r.rec[ThreadTimer].active
               /\ r.rec[ThreadTimer].exists = x.rec[ThreadTimer].exists
<1> DEFINE q == Deactivate(x, ThreadTimer)
           r == ResumeTimerThread(x)
<1>1. /\ Tidy(q) /\ Off(x, q, ThreadTimer) /\ Others(x, q, ThreadTimer)
      /\ ~q.rec[ThreadTimer].active /\ q.rec[ThreadTimer].exists = x.rec[ThreadTimer].exists
  BY DeactivateTidy
<1>2. r = [q EXCEPT !.stat = "ready"] BY DEF ResumeTimerThread
<1> HIDE DEF q, r
<1>3. /\ r \in TimerState /\ r.rec = q.rec /\ r.hard = q.hard /\ r.soft = q.soft
      /\ r.local = q.local /\ r.cur = q.cur /\ r.status = q.status /\ r.stat = "ready"
  BY <1>1, <1>2 DEF Tidy, TimerState
<1>4. Tidy(r) BY <1>1, <1>3 DEF Tidy
<1>5. Off(x, r, ThreadTimer) BY <1>1, <1>3 DEF Off, Listed, Called
<1> QED BY <1>1, <1>3, <1>4, <1>5 DEF Others, r

Sound(x, m) == Tidy(x) /\ Placed(x, m) /\ CallsHeld(x, m)

LEMMA TimerKinds ==
    /\ AppTimer \subseteq Timers /\ SoftTimer \subseteq AppTimer /\ ThreadTimer \in Timers
    /\ ThreadTimer \notin AppTimer /\ ThreadTimer \notin SoftTimer /\ NoTimer \notin Timers
  BY TimerConstants DEF Timers

\* What a sound state says of a timer.
LEMMA SoundFacts ==
    ASSUME NEW x, NEW m, Sound(x, m)
    PROVE  /\ Tidy(x) /\ x \in TimerState
           /\ Listed(x) \subseteq Timers /\ Called(x) \subseteq AppTimer
           /\ Listed(x) \cap Called(x) = {}
           /\ \A t \in Listed(x) \cup Called(x) : x.rec[t].exists
           /\ \A t \in Listed(x) : x.rec[t].active
           /\ \A t \in Timers : x.rec[t].active => t \in Listed(x) \cup Called(x) \cup m
           /\ \A t \in Called(x) : x.rec[t].active => x.rec[t].periodic \/ t \in m
           /\ x.local[TRUE] \subseteq {x.cur[TRUE]} /\ x.local[FALSE] \subseteq {x.cur[FALSE]}
           /\ x.local[TRUE] \subseteq SoftTimer /\ x.local[FALSE] \cap SoftTimer = {}
           /\ x.cur[TRUE] \in SoftTimer \cup {NoTimer}
           /\ x.cur[FALSE] \in (AppTimer \ SoftTimer) \cup {NoTimer}
<1>1. Tidy(x) /\ Placed(x, m) /\ CallsHeld(x, m) /\ x \in TimerState BY DEF Sound, Tidy
<1>2. /\ x.hard \in Seq(TimerEntry) /\ x.soft \in Seq(TimerEntry)
      /\ x.local \in [BOOLEAN -> SUBSET Timers]
  BY <1>1, StateFields
<1>3. Listed(x) \subseteq Timers BY <1>2, InTimersIn DEF Listed
<1>4. x.local[TRUE] \subseteq Timers /\ x.local[FALSE] \subseteq Timers BY <1>2
<1>5. /\ x.local[TRUE] \subseteq {x.cur[TRUE]} /\ x.cur[TRUE] \in AppTimer \cup {NoTimer}
      /\ x.cur[TRUE] # NoTimer => x.cur[TRUE] \in SoftTimer
  BY <1>1 DEF CallsHeld
<1>6. /\ x.local[FALSE] \subseteq {x.cur[FALSE]} /\ x.cur[FALSE] \in AppTimer \cup {NoTimer}
      /\ x.cur[FALSE] # NoTimer => x.cur[FALSE] \notin SoftTimer
  BY <1>1 DEF CallsHeld
<1>7. x.local[TRUE] \subseteq SoftTimer /\ x.local[FALSE] \cap SoftTimer = {}
  BY <1>4, <1>5, <1>6, TimerKinds
<1>8. Called(x) \subseteq AppTimer BY <1>4, <1>5, <1>6, TimerKinds DEF Called
<1>9. /\ Listed(x) \cap Called(x) = {}
      /\ \A t \in Listed(x) \cup Called(x) : x.rec[t].exists
      /\ \A t \in Listed(x) : x.rec[t].active
      /\ \A t \in Timers : x.rec[t].active => t \in Listed(x) \cup Called(x) \cup m
      /\ \A t \in Called(x) : x.rec[t].active => x.rec[t].periodic \/ t \in m
  BY <1>1 DEF Placed, CallsHeld
<1> QED BY <1>1, <1>3, <1>5, <1>6, <1>7, <1>8, <1>9

\* A timer leaves its place and is not active.
LEMMA SoundOff ==
    ASSUME NEW x, NEW m, Sound(x, m), NEW t \in Timers, NEW r, Tidy(r),
           Off(x, r, t), Others(x, r, t), ~r.rec[t].active
    PROVE  Sound(r, m \ {t}) /\ Sound(r, m)
<1>1. /\ Listed(r) = Listed(x) \ {t} /\ Called(r) = Called(x) \ {t}
      /\ \A c \in BOOLEAN : r.local[c] = x.local[c] \ {t}
      /\ r.cur = x.cur /\ \A u \in Timers \ {t} : r.rec[u] = x.rec[u]
  BY DEF Off, Others
<1>2. /\ Listed(x) \subseteq Timers /\ Called(x) \subseteq Timers
      /\ Listed(x) \cap Called(x) = {}
      /\ \A u \in Listed(x) \cup Called(x) : x.rec[u].exists
      /\ \A u \in Listed(x) : x.rec[u].active
      /\ \A u \in Timers : x.rec[u].active => u \in Listed(x) \cup Called(x) \cup m
      /\ \A u \in Called(x) : x.rec[u].active => x.rec[u].periodic \/ u \in m
  BY SoundFacts, TimerKinds
<1>3. /\ Listed(r) \cap Called(r) = {}
      /\ \A u \in Listed(r) \cup Called(r) : r.rec[u].exists
      /\ \A u \in Listed(r) : r.rec[u].active
  BY <1>1, <1>2
<1>4. \A u \in Timers : r.rec[u].active => u \in Listed(r) \cup Called(r) \cup (m \ {t})
  BY <1>1, <1>2
<1>5. \A u \in Called(r) : r.rec[u].active => r.rec[u].periodic \/ u \in m \ {t}
  BY <1>1, <1>2
<1>6. \A c \in BOOLEAN : r.local[c] \subseteq {r.cur[c]}
                         /\ r.cur[c] \in AppTimer \cup {NoTimer}
                         /\ (r.cur[c] # NoTimer => (c <=> r.cur[c] \in SoftTimer))
  <2>1. \A c \in BOOLEAN : x.local[c] \subseteq {x.cur[c]}
                           /\ x.cur[c] \in AppTimer \cup {NoTimer}
                           /\ (x.cur[c] # NoTimer => (c <=> x.cur[c] \in SoftTimer))
    BY DEF Sound, CallsHeld
  <2> QED BY <1>1, <2>1
<1>7. CallsHeld(r, m \ {t}) /\ CallsHeld(r, m) BY <1>5, <1>6 DEF CallsHeld
<1>8. Placed(r, m \ {t}) /\ Placed(r, m) BY <1>3, <1>4 DEF Placed, Tidy
<1> QED BY <1>7, <1>8 DEF Sound

\* A timer is put into its list.
LEMMA SoundOn ==
    ASSUME NEW x, NEW m, Sound(x, m), NEW t \in Timers, NEW r, Tidy(r),
           On(x, r, t), Others(x, r, t), r.rec[t].active, r.rec[t].exists
    PROVE  Sound(r, m \ {t}) /\ Sound(r, m)
<1>1. /\ Listed(r) = Listed(x) \cup {t} /\ Called(r) = Called(x) \ {t}
      /\ \A c \in BOOLEAN : r.local[c] = x.local[c] \ {t}
      /\ r.cur = x.cur /\ \A u \in Timers \ {t} : r.rec[u] = x.rec[u]
  BY DEF On, Others
<1>2. /\ Listed(x) \subseteq Timers /\ Called(x) \subseteq Timers
      /\ Listed(x) \cap Called(x) = {}
      /\ \A u \in Listed(x) \cup Called(x) : x.rec[u].exists
      /\ \A u \in Listed(x) : x.rec[u].active
      /\ \A u \in Timers : x.rec[u].active => u \in Listed(x) \cup Called(x) \cup m
      /\ \A u \in Called(x) : x.rec[u].active => x.rec[u].periodic \/ u \in m
  BY SoundFacts, TimerKinds
<1>3. /\ Listed(r) \cap Called(r) = {}
      /\ \A u \in Listed(r) \cup Called(r) : r.rec[u].exists
      /\ \A u \in Listed(r) : r.rec[u].active
  BY <1>1, <1>2
<1>4. \A u \in Timers : r.rec[u].active => u \in Listed(r) \cup Called(r) \cup (m \ {t})
  BY <1>1, <1>2
<1>5. \A u \in Called(r) : r.rec[u].active => r.rec[u].periodic \/ u \in m \ {t}
  BY <1>1, <1>2
<1>6. \A c \in BOOLEAN : r.local[c] \subseteq {r.cur[c]}
                         /\ r.cur[c] \in AppTimer \cup {NoTimer}
                         /\ (r.cur[c] # NoTimer => (c <=> r.cur[c] \in SoftTimer))
  <2>1. \A c \in BOOLEAN : x.local[c] \subseteq {x.cur[c]}
                           /\ x.cur[c] \in AppTimer \cup {NoTimer}
                           /\ (x.cur[c] # NoTimer => (c <=> x.cur[c] \in SoftTimer))
    BY DEF Sound, CallsHeld
  <2> QED BY <1>1, <2>1
<1>7. CallsHeld(r, m \ {t}) /\ CallsHeld(r, m) BY <1>5, <1>6 DEF CallsHeld
<1>8. Placed(r, m \ {t}) /\ Placed(r, m) BY <1>3, <1>4 DEF Placed, Tidy
<1> QED BY <1>7, <1>8 DEF Sound

\* rt_timer_start: the timer is in its list, and the timer thread may be ready.
LEMMA StartSound ==
    ASSUME NEW x, NEW m, Sound(x, m), NEW t \in Timers, x.rec[t].exists,
           tick \in 0..(TickRange - 1)
    PROVE  LET r == rt_timer_start(x, t)
           IN  /\ Sound(r, m \ {t}) /\ Sound(r, m)
               /\ r.cur = x.cur /\ r.status = x.status
               /\ r.rec[ThreadTimer].exists = x.rec[ThreadTimer].exists
               /\ \/ r.stat = x.stat /\ Listed(r) = Listed(x) \cup {t}
                  \/ /\ r.stat = "ready" /\ t \in SoftTimer /\ x.status = "idle"
                     /\ ThreadTimer \notin Listed(r)
<1> DEFINE q == LinkTimer(x, t)
           r == rt_timer_start(x, t)
<1>0. Tidy(x) /\ ThreadTimer \in Timers /\ ThreadTimer \notin SoftTimer BY SoundFacts, TimerKinds
<1>1. /\ Tidy(q) /\ On(x, q, t) /\ Others(x, q, t) /\ q.stat = x.stat
      /\ q.rec[t].active /\ q.rec[t].exists = x.rec[t].exists
  BY <1>0, LinkTidy
<1>2. r = IF t \in SoftTimer /\ x.status = "idle" /\ x.stat = "suspend"
          THEN ResumeTimerThread(q) ELSE q
  BY DEF rt_timer_start
<1> HIDE DEF q, r
<1>3. q.rec[t].exists BY <1>1
<1>4. Sound(q, m \ {t}) /\ Sound(q, m) BY <1>1, <1>3, SoundOn
<1>5. q.rec[ThreadTimer].exists = x.rec[ThreadTimer].exists BY <1>0, <1>1 DEF Others
<1>6. Listed(q) = Listed(x) \cup {t} /\ q.cur = x.cur /\ q.status = x.status BY <1>1 DEF On
<1>7. CASE ~(t \in SoftTimer /\ x.status = "idle" /\ x.stat = "suspend")
  <2>1. r = q BY <1>2, <1>7
  <2> QED BY <1>1, <1>4, <1>5, <1>6, <2>1 DEF r
<1>8. CASE t \in SoftTimer /\ x.status = "idle" /\ x.stat = "suspend"
  <2>1. r = ResumeTimerThread(q) BY <1>2, <1>8
  <2>2. /\ Tidy(r) /\ Off(q, r, ThreadTimer) /\ Others(q, r, ThreadTimer)
        /\ r.stat = "ready" /\ ~r.rec[ThreadTimer].active
        /\ r.rec[ThreadTimer].exists = q.rec[ThreadTimer].exists
    BY <1>0, <1>1, <2>1, ResumeTidy
  <2>3. Sound(r, m) BY <1>0, <1>4, <2>2, SoundOff
  <2>4. Sound(r, m \ {t})
    <3>1. PICK n : n = m \ {t} OBVIOUS
    <3>2. Sound(q, n) BY <1>4, <3>1
    <3>3. Sound(r, n) BY <1>0, <2>2, <3>2, SoundOff
    <3> QED BY <3>1, <3>3
  <2>5. ThreadTimer \notin Listed(r) /\ r.cur = q.cur /\ r.status = q.status BY <2>2 DEF Off
  <2> QED BY <1>5, <1>6, <1>8, <2>2, <2>3, <2>4, <2>5 DEF r
<1> QED BY <1>7, <1>8

\* A check takes a timer from its list to its temporary list, for the callback.
Taken(x, r, t, c) ==
    /\ Listed(r) = Listed(x) \ {t} /\ r.status = x.status /\ r.stat = x.stat
    /\ r.cur[c] = t /\ \A d \in BOOLEAN \ {c} : r.cur[d] = x.cur[d]
    /\ \A u \in Timers : r.rec[u].exists = x.rec[u].exists

LEMMA TakeSound ==
    ASSUME NEW x, NEW m, Sound(x, m), NEW t \in Listed(x), t # ThreadTimer,
           NEW c \in BOOLEAN, c <=> t \in SoftTimer, x.cur[c] = NoTimer
    PROVE  Sound(TakeTimer(x, t), m) /\ Taken(x, TakeTimer(x, t), t, c)
<1> DEFINE q == _timer_remove(x, t)
           b == x.rec[t].active /\ x.rec[t].periodic
           f == [x.rec EXCEPT ![t] = [x.rec[t] EXCEPT !.active = b]]
           r == TakeTimer(x, t)
<1>1. /\ Tidy(x) /\ x \in TimerState /\ Listed(x) \subseteq Timers
      /\ Called(x) \subseteq Timers
      /\ Listed(x) \cap Called(x) = {}
      /\ \A u \in Listed(x) \cup Called(x) : x.rec[u].exists
      /\ \A u \in Listed(x) : x.rec[u].active
      /\ \A u \in Timers : x.rec[u].active => u \in Listed(x) \cup Called(x) \cup m
      /\ \A u \in Called(x) : x.rec[u].active => x.rec[u].periodic \/ u \in m
  BY SoundFacts, TimerKinds
<1>2. t \in Timers /\ t \in AppTimer /\ t # NoTimer /\ t \notin Called(x) BY <1>1, TimerKinds DEF Timers
<1>3. Tidy(q) /\ Off(x, q, t) /\ q.rec = x.rec /\ q.stat = x.stat BY <1>1, RemoveTidy
<1>4. r = [q EXCEPT !.rec = f, !.local = [q.local EXCEPT ![c] = {t}],
                    !.cur = [q.cur EXCEPT ![c] = t]]
  <2>1. r = [q EXCEPT !.rec[t].active = @ /\ x.rec[t].periodic,
                      !.local[t \in SoftTimer] = {t}, !.cur[t \in SoftTimer] = t]
    BY DEF TakeTimer
  <2>2. q \in TimerState /\ x.rec \in [Timers -> TimerRecord] BY <1>1, <1>3, StateFields DEF Tidy
  <2> HIDE DEF q, r
  <2>3. c = (t \in SoftTimer) /\ q.rec[t].active = x.rec[t].active BY <1>3
  <2>4. r = [q EXCEPT !.rec[t].active = b, !.local[c] = {t}, !.cur[c] = t]
    BY <2>1, <2>3, Zenon
  <2> QED BY <1>3, <2>2, <2>4 DEF TimerState
<1> HIDE DEF q, r
<1>5. x.rec \in [Timers -> TimerRecord] BY <1>1, StateFields
<1>6. /\ q \in TimerState /\ q.local \in [BOOLEAN -> SUBSET Timers]
      /\ q.cur \in [BOOLEAN -> Timers \cup {NoTimer}]
  BY <1>3, StateFields DEF Tidy
<1>7. x.rec[t] \in TimerRecord /\ b \in BOOLEAN BY <1>2, <1>5 DEF TimerRecord
<1> HIDE DEF b
<1>8. [x.rec[t] EXCEPT !.active = b] \in TimerRecord BY <1>7 DEF TimerRecord
<1>9. f \in [Timers -> TimerRecord] BY <1>5, <1>8
<1>10. f[t] = [x.rec[t] EXCEPT !.active = b] /\ \A u \in Timers \ {t} : f[u] = x.rec[u] BY <1>2, <1>5
<1>11. /\ f[t].active = b /\ f[t].exists = x.rec[t].exists /\ f[t].periodic = x.rec[t].periodic
  BY <1>7, <1>10 DEF TimerRecord
<1> HIDE DEF f
<1> DEFINE l == [q.local EXCEPT ![c] = {t}]
           kept == [q.cur EXCEPT ![c] = t]
<1>12. l \in [BOOLEAN -> SUBSET Timers] /\ kept \in [BOOLEAN -> Timers \cup {NoTimer}]
  BY <1>2, <1>6
<1>13. l[c] = {t} /\ kept[c] = t /\ \A d \in BOOLEAN \ {c} : l[d] = q.local[d] /\ kept[d] = q.cur[d]
  BY <1>6
<1>14. r = [q EXCEPT !.rec = f, !.local = l, !.cur = kept] BY <1>4
<1> HIDE DEF l, kept
<1>15. /\ r \in TimerState /\ r.rec = f /\ r.local = l /\ r.cur = kept /\ r.hard = q.hard
       /\ r.soft = q.soft /\ r.status = q.status /\ r.stat = q.stat
  BY <1>6, <1>9, <1>12, <1>14 DEF TimerState, TimerRecord
<1>16. Tidy(r) BY <1>3, <1>15 DEF Tidy
<1>17. Listed(r) = Listed(x) \ {t} BY <1>3, <1>15 DEF Listed, Off
<1>18. q.cur = x.cur /\ q.status = x.status /\ \A d \in BOOLEAN : q.local[d] = x.local[d] \ {t}
  BY <1>3 DEF Off
<1>19. x.local[c] = {}
  <2>1. x.local[c] \subseteq {x.cur[c]} BY DEF Sound, CallsHeld
  <2>2. x.local[c] \subseteq Timers BY <1>1, StateFields
  <2> QED BY <2>1, <2>2, TimerKinds
<1>20. \A d \in BOOLEAN \ {c} : x.local[d] \subseteq Called(x)
  BY DEF Called
<1>21. ASSUME NEW d \in BOOLEAN \ {c} PROVE r.local[d] = x.local[d] /\ r.cur[d] = x.cur[d]
  <2>1. d \in BOOLEAN OBVIOUS
  <2>2. r.local[d] = q.local[d] /\ r.cur[d] = q.cur[d] BY <1>13, <1>15
  <2>3. q.local[d] = x.local[d] \ {t} /\ q.cur[d] = x.cur[d] BY <1>18, <2>1
  <2>4. t \notin x.local[d] BY <1>2, <1>20
  <2>5. x.local[d] \ {t} = x.local[d] BY <2>4
  <2> QED BY <2>2, <2>3, <2>5
<1>22. r.local[c] = {t} /\ r.cur[c] = t BY <1>13, <1>15
<1>23. Called(r) = Called(x) \cup {t}
  <2>1. CASE c = TRUE
    <3>1. r.local[TRUE] = {t} /\ x.local[TRUE] = {} BY <1>19, <1>22, <2>1, Zenon
    <3>2. FALSE \in BOOLEAN \ {c} BY <2>1
    <3>3. r.local[FALSE] = x.local[FALSE] BY <1>21, <3>2
    <3> QED BY <3>1, <3>3 DEF Called
  <2>2. CASE c = FALSE
    <3>1. r.local[FALSE] = {t} /\ x.local[FALSE] = {} BY <1>19, <1>22, <2>2, Zenon
    <3>2. TRUE \in BOOLEAN \ {c} BY <2>2
    <3>3. r.local[TRUE] = x.local[TRUE] BY <1>21, <3>2
    <3> QED BY <3>1, <3>3 DEF Called
  <2> QED BY <2>1, <2>2
<1>24. \A u \in Timers \ {t} : r.rec[u] = x.rec[u] BY <1>10, <1>15
<1>25. /\ r.rec[t].exists = x.rec[t].exists /\ (r.rec[t].active => r.rec[t].periodic)
       /\ x.rec[t].exists
  BY <1>1, <1>11, <1>15 DEF b
<1>26. Placed(r, m)
  <2>1. /\ Listed(r) \cap Called(r) = {}
        /\ \A u \in Listed(r) \cup Called(r) : r.rec[u].exists
        /\ \A u \in Listed(r) : r.rec[u].active
    BY <1>1, <1>17, <1>23, <1>24, <1>25
  <2>2. \A u \in Timers : r.rec[u].active => u \in Listed(r) \cup Called(r) \cup m
    BY <1>1, <1>17, <1>23, <1>24
  <2> QED BY <1>16, <2>1, <2>2 DEF Placed, Tidy
<1>27. CallsHeld(r, m)
  <2>1. \A u \in Called(r) : r.rec[u].active => r.rec[u].periodic \/ u \in m
    BY <1>1, <1>23, <1>24, <1>25
  <2>2. ASSUME NEW d \in BOOLEAN
        PROVE /\ r.local[d] \subseteq {r.cur[d]} /\ r.cur[d] \in AppTimer \cup {NoTimer}
              /\ r.cur[d] # NoTimer => (d <=> r.cur[d] \in SoftTimer)
    <3>1. CASE d # c
      <4>1. r.local[d] = x.local[d] /\ r.cur[d] = x.cur[d] BY <1>21, <3>1
      <4>2. /\ x.local[d] \subseteq {x.cur[d]} /\ x.cur[d] \in AppTimer \cup {NoTimer}
            /\ x.cur[d] # NoTimer => (d <=> x.cur[d] \in SoftTimer)
        BY DEF Sound, CallsHeld
      <4> QED BY <4>1, <4>2
    <3>2. CASE d = c
      <4>1. r.local[d] = {t} /\ r.cur[d] = t BY <1>22, <3>2, Zenon
      <4>2. d <=> t \in SoftTimer BY <3>2
      <4> QED BY <1>2, <4>1, <4>2
    <3> QED BY <3>1, <3>2
  <2> QED BY <2>1, <2>2 DEF CallsHeld
<1>28. \A u \in Timers : r.rec[u].exists = x.rec[u].exists BY <1>24, <1>25
<1>29. Taken(x, r, t, c) BY <1>3, <1>15, <1>17, <1>18, <1>21, <1>22, <1>28 DEF Taken
<1> QED BY <1>16, <1>26, <1>27, <1>29 DEF Sound, r

\* After the callback the check has no timer; it may have started it again.
Put(x, r, c) ==
    /\ r.status = x.status
    /\ r.cur[c] = NoTimer /\ \A d \in BOOLEAN \ {c} : r.cur[d] = x.cur[d]
    /\ r.rec[ThreadTimer].exists = x.rec[ThreadTimer].exists
    /\ ThreadTimer \in Listed(r) => ThreadTimer \in Listed(x) /\ r.stat = x.stat
    /\ r.stat = x.stat \/ (r.stat = "ready" /\ x.status = "idle")

LEMMA PutSound ==
    ASSUME NEW x, NEW m, Sound(x, m), NEW c \in BOOLEAN, x.cur[c] # NoTimer,
           tick \in 0..(TickRange - 1)
    PROVE  Sound(PutTimer(x, c), m) /\ Put(x, PutTimer(x, c), c)
<1> DEFINE t == x.cur[c]
           l == [x.local EXCEPT ![c] = {}]
           kept == [x.cur EXCEPT ![c] = NoTimer]
           f == [x.rec EXCEPT ![t] = [x.rec[t] EXCEPT !.active = FALSE]]
           off == [x EXCEPT !.local = l, !.cur = kept]
           y == [off EXCEPT !.rec = f]
           r == PutTimer(x, c)
<1>1. /\ Tidy(x) /\ x \in TimerState /\ Listed(x) \subseteq Timers
      /\ Called(x) \subseteq Timers /\ Listed(x) \cap Called(x) = {}
      /\ \A u \in Listed(x) \cup Called(x) : x.rec[u].exists
      /\ \A u \in Listed(x) : x.rec[u].active
      /\ \A u \in Timers : x.rec[u].active => u \in Listed(x) \cup Called(x) \cup m
      /\ \A u \in Called(x) : x.rec[u].active => x.rec[u].periodic \/ u \in m
  BY SoundFacts, TimerKinds
<1>2. \A d \in BOOLEAN : /\ x.local[d] \subseteq {x.cur[d]}
                         /\ x.cur[d] \in AppTimer \cup {NoTimer}
                         /\ x.cur[d] # NoTimer => (d <=> x.cur[d] \in SoftTimer)
  BY DEF Sound, CallsHeld
<1>3. t \in AppTimer /\ t \in Timers /\ t # ThreadTimer /\ x.local[c] \subseteq {t}
  BY <1>2, TimerKinds
<1>4. /\ x.rec \in [Timers -> TimerRecord] /\ x.local \in [BOOLEAN -> SUBSET Timers]
      /\ x.cur \in [BOOLEAN -> Timers \cup {NoTimer}]
  BY <1>1, StateFields
<1>5. l \in [BOOLEAN -> SUBSET Timers] /\ kept \in [BOOLEAN -> Timers \cup {NoTimer}] BY <1>4
<1>6. l[c] = {} /\ kept[c] = NoTimer
  BY <1>4
<1>7. ASSUME NEW d \in BOOLEAN \ {c} PROVE l[d] = x.local[d] /\ kept[d] = x.cur[d] BY <1>4
<1>8. x.local[TRUE] \cup x.local[FALSE] = Called(x)
  BY DEF Called
<1>9. x.local[c] \subseteq Called(x) /\ l[TRUE] \cup l[FALSE] \subseteq Called(x)
      /\ Called(x) \subseteq l[TRUE] \cup l[FALSE] \cup x.local[c]
  <2> HIDE DEF l
  <2>1. CASE c = TRUE
    <3>1. l[TRUE] = {} /\ x.local[c] = x.local[TRUE] BY <1>6, <2>1, Zenon
    <3>2. FALSE \in BOOLEAN \ {c} BY <2>1
    <3>3. l[FALSE] = x.local[FALSE] BY <1>7, <3>2
    <3> QED BY <1>8, <3>1, <3>3
  <2>2. CASE c = FALSE
    <3>1. l[FALSE] = {} /\ x.local[c] = x.local[FALSE] BY <1>6, <2>2, Zenon
    <3>2. TRUE \in BOOLEAN \ {c} BY <2>2
    <3>3. l[TRUE] = x.local[TRUE] BY <1>7, <3>2
    <3> QED BY <1>8, <3>1, <3>3
  <2> QED BY <2>1, <2>2
<1>10. ASSUME NEW z \in TimerState, z.hard = x.hard, z.soft = x.soft, z.local = l, z.cur = kept,
              \A u \in Timers : /\ z.rec[u].exists = x.rec[u].exists
                                /\ z.rec[u].periodic = x.rec[u].periodic
                                /\ z.rec[u].active => x.rec[u].active,
              \A u \in Listed(x) : z.rec[u].active,
              \A u \in x.local[c] : z.rec[u].active => u \in m
       PROVE  Sound(z, m) /\ Listed(z) = Listed(x)
  <2> HIDE DEF l, kept
  <2>1. Tidy(z) BY <1>1, <1>10 DEF Tidy
  <2>2. Listed(z) = Listed(x) BY <1>10 DEF Listed
  <2>3. Called(z) = l[TRUE] \cup l[FALSE] BY <1>10 DEF Called
  <2>4. /\ Listed(z) \cap Called(z) = {}
        /\ \A u \in Listed(z) \cup Called(z) : z.rec[u].exists
        /\ \A u \in Listed(z) : z.rec[u].active
    BY <1>1, <1>9, <1>10, <2>2, <2>3
  <2>5. ASSUME NEW u \in Timers, z.rec[u].active
        PROVE  u \in Listed(z) \cup Called(z) \cup m
    <3>1. x.rec[u].active BY <1>10, <2>5
    <3>2. u \in Listed(x) \cup Called(x) \cup m BY <1>1, <3>1
    <3>3. u \in Called(x) => u \in Called(z) \/ u \in x.local[c] BY <1>9, <2>3
    <3>4. u \in x.local[c] => u \in m BY <1>10, <2>5
    <3> QED BY <2>2, <3>2, <3>3, <3>4
  <2>6. Placed(z, m) BY <2>1, <2>4, <2>5 DEF Placed, Tidy
  <2>7. ASSUME NEW u \in Called(z), z.rec[u].active PROVE z.rec[u].periodic \/ u \in m
    <3>1. u \in Called(x) /\ u \in Timers BY <1>1, <1>9, <2>3
    <3>2. x.rec[u].active /\ z.rec[u].periodic = x.rec[u].periodic BY <1>10, <2>7, <3>1
    <3> QED BY <1>1, <3>1, <3>2
  <2>8. ASSUME NEW d \in BOOLEAN
        PROVE /\ z.local[d] \subseteq {z.cur[d]} /\ z.cur[d] \in AppTimer \cup {NoTimer}
              /\ z.cur[d] # NoTimer => (d <=> z.cur[d] \in SoftTimer)
    <3>1. CASE d # c
      <4>1. d \in BOOLEAN \ {c} BY <3>1
      <4>2. z.local[d] = x.local[d] /\ z.cur[d] = x.cur[d] BY <1>7, <1>10, <4>1
      <4>3. /\ x.local[d] \subseteq {x.cur[d]} /\ x.cur[d] \in AppTimer \cup {NoTimer}
            /\ x.cur[d] # NoTimer => (d <=> x.cur[d] \in SoftTimer)
        BY <1>2
      <4> QED BY <4>2, <4>3
    <3>2. CASE d = c
      <4>1. z.local[d] = {} /\ z.cur[d] = NoTimer BY <1>6, <1>10, <3>2, Zenon
      <4> QED BY <4>1
    <3> QED BY <3>1, <3>2
  <2>9. CallsHeld(z, m) BY <2>7, <2>8 DEF CallsHeld
  <2> QED BY <2>1, <2>2, <2>6, <2>9 DEF Sound
<1>11. off = [x EXCEPT !.local[c] = {}, !.cur[c] = NoTimer] BY <1>1, <1>4 DEF TimerState
<1>12. r = IF Rearms(x, c) THEN rt_timer_start([off EXCEPT !.rec[t].active = FALSE], t) ELSE off
  <2> DEFINE o == [x EXCEPT !.local[c] = {}, !.cur[c] = NoTimer]
  <2>1. r = IF Rearms(x, c) THEN rt_timer_start([o EXCEPT !.rec[t].active = FALSE], t) ELSE o
    BY DEF PutTimer
  <2>2. off = o BY <1>11
  <2> HIDE DEF o, off, r, t
  <2> QED BY <2>1, <2>2
<1> HIDE DEF l, kept
<1>13. /\ off \in TimerState /\ off.hard = x.hard /\ off.soft = x.soft /\ off.local = l
       /\ off.cur = kept /\ off.rec = x.rec /\ off.status = x.status /\ off.stat = x.stat
  BY <1>1, <1>5 DEF TimerState
<1>14. [off EXCEPT !.rec[t].active = FALSE] = y BY <1>3, <1>4, <1>13
<1> HIDE DEF off
<1>15. CASE ~Rearms(x, c)
  <2>1. r = off BY <1>12, <1>15
  <2>2. ASSUME NEW u \in x.local[c], off.rec[u].active PROVE u \in m
    <3>1. u = t /\ u \in Called(x) /\ x.local[c] # {} BY <1>3, <1>9
    <3>2. ~(x.rec[t].periodic /\ x.rec[t].active) BY <1>15, <3>1 DEF Rearms
    <3>3. x.rec[u].active BY <1>13, <2>2
    <3> QED BY <1>1, <3>1, <3>2, <3>3
  <2>3. Sound(off, m) /\ Listed(off) = Listed(x)
    BY <1>1, <1>10, <1>13, <2>2
  <2>4. Put(x, off, c) BY <1>6, <1>7, <1>13, <2>3 DEF Put
  <2> QED BY <2>1, <2>3, <2>4 DEF r
<1>16. CASE Rearms(x, c)
  <2>1. r = rt_timer_start(y, t) BY <1>12, <1>14, <1>16
  <2>2. x.local[c] # {} BY <1>16 DEF Rearms
  <2>3. t \in Called(x) /\ t \notin Listed(x) /\ x.rec[t].exists BY <1>1, <1>3, <1>9, <2>2
  <2>4. [x.rec[t] EXCEPT !.active = FALSE] \in TimerRecord /\ x.rec[t] \in TimerRecord
    <3> HIDE DEF t
    <3>1. x.rec[t] \in TimerRecord BY <1>3, <1>4
    <3> QED BY <3>1 DEF TimerRecord
  <2>5. f \in [Timers -> TimerRecord] BY <1>4, <2>4
  <2>6. f[t] = [x.rec[t] EXCEPT !.active = FALSE] /\ \A u \in Timers \ {t} : f[u] = x.rec[u]
    BY <1>3, <1>4
  <2>7. ~f[t].active /\ f[t].exists = x.rec[t].exists /\ f[t].periodic = x.rec[t].periodic
    BY <2>4, <2>6 DEF TimerRecord
  <2> HIDE DEF f
  <2>8. /\ y \in TimerState /\ y.hard = x.hard /\ y.soft = x.soft /\ y.local = l
        /\ y.cur = kept /\ y.rec = f /\ y.status = x.status /\ y.stat = x.stat
    BY <1>13, <2>5 DEF TimerState, TimerRecord
  <2> HIDE DEF y
  <2>9. \A u \in Timers : /\ y.rec[u].exists = x.rec[u].exists
                          /\ y.rec[u].periodic = x.rec[u].periodic
                          /\ y.rec[u].active => x.rec[u].active
    BY <2>6, <2>7, <2>8
  <2>10. \A u \in Listed(x) : y.rec[u].active BY <1>1, <2>3, <2>6, <2>8
  <2>11. \A u \in x.local[c] : y.rec[u].active => u \in m BY <1>3, <2>7, <2>8
  <2>12. Sound(y, m) /\ Listed(y) = Listed(x) BY <1>10, <2>8, <2>9, <2>10, <2>11
  <2>13. y.rec[t].exists BY <2>3, <2>7, <2>8
  <2>14. /\ Sound(r, m) /\ r.cur = y.cur /\ r.status = y.status
         /\ r.rec[ThreadTimer].exists = y.rec[ThreadTimer].exists
         /\ \/ r.stat = y.stat /\ Listed(r) = Listed(y) \cup {t}
            \/ /\ r.stat = "ready" /\ t \in SoftTimer /\ y.status = "idle"
               /\ ThreadTimer \notin Listed(r)
    <3> HIDE DEF t, r
    <3>1. t \in Timers BY <1>3
    <3> QED BY <2>1, <2>12, <2>13, <3>1, StartSound
  <2>15. y.rec[ThreadTimer].exists = x.rec[ThreadTimer].exists BY <2>9, TimerKinds
  <2>16. r.status = x.status /\ r.cur[c] = NoTimer BY <1>6, <2>8, <2>14
  <2>17. \A d \in BOOLEAN \ {c} : r.cur[d] = x.cur[d] BY <1>7, <2>8, <2>14
  <2>18. /\ ThreadTimer \in Listed(r) => ThreadTimer \in Listed(x) /\ r.stat = x.stat
         /\ r.stat = x.stat \/ (r.stat = "ready" /\ x.status = "idle")
    <3> HIDE DEF r
    <3> QED BY <1>3, <2>8, <2>12, <2>14
  <2>19. Put(x, r, c)
    <3> HIDE DEF r
    <3> QED BY <2>14, <2>15, <2>16, <2>17, <2>18 DEF Put
  <2> QED BY <2>14, <2>19
<1> QED BY <1>15, <1>16


\* The record of one timer is written (rt_timer_control, rt_timer_init).
LEMMA RecordSound ==
    ASSUME NEW x, NEW m, Sound(x, m), NEW t \in Timers, NEW v \in TimerRecord,
           NEW n, m \ {t} \subseteq n,
           t \in Listed(x) \cup Called(x) => v.exists,
           t \in Listed(x) => v.active,
           v.active => t \in Listed(x) \cup Called(x) \cup n,
           t \in Called(x) /\ v.active => v.periodic \/ t \in n
    PROVE  LET r == [x EXCEPT !.rec[t] = v]
           IN  /\ Sound(r, n) /\ Listed(r) = Listed(x)
               /\ r.cur = x.cur /\ r.status = x.status /\ r.stat = x.stat
               /\ \A u \in Timers \ {t} : r.rec[u] = x.rec[u]
<1> DEFINE r == [x EXCEPT !.rec[t] = v]
           f == [x.rec EXCEPT ![t] = v]
<1>1. /\ Tidy(x) /\ x \in TimerState /\ Listed(x) \subseteq Timers
      /\ Called(x) \subseteq Timers /\ Listed(x) \cap Called(x) = {}
      /\ \A u \in Listed(x) \cup Called(x) : x.rec[u].exists
      /\ \A u \in Listed(x) : x.rec[u].active
      /\ \A u \in Timers : x.rec[u].active => u \in Listed(x) \cup Called(x) \cup m
      /\ \A u \in Called(x) : x.rec[u].active => x.rec[u].periodic \/ u \in m
  BY SoundFacts, TimerKinds
<1>2. x.rec \in [Timers -> TimerRecord] BY <1>1, StateFields
<1>3. f \in [Timers -> TimerRecord] /\ f[t] = v /\ \A u \in Timers \ {t} : f[u] = x.rec[u]
  BY <1>2
<1>4. r = [x EXCEPT !.rec = f] BY <1>1 DEF TimerState
<1> HIDE DEF r, f
<1>5. /\ r \in TimerState /\ r.rec = f /\ r.hard = x.hard /\ r.soft = x.soft
      /\ r.local = x.local /\ r.cur = x.cur /\ r.status = x.status /\ r.stat = x.stat
  BY <1>1, <1>3, <1>4 DEF TimerState, TimerRecord
<1>6. Tidy(r) /\ Listed(r) = Listed(x) /\ Called(r) = Called(x)
  BY <1>1, <1>5 DEF Tidy, Listed, Called
<1>7. r.rec[t] = v /\ \A u \in Timers \ {t} : r.rec[u] = x.rec[u] BY <1>3, <1>5
<1>8. /\ \A u \in Listed(r) \cup Called(r) : r.rec[u].exists
      /\ \A u \in Listed(r) : r.rec[u].active
  BY <1>1, <1>6, <1>7
<1>9. \A u \in Timers : r.rec[u].active => u \in Listed(r) \cup Called(r) \cup n
  BY <1>1, <1>6, <1>7
<1>10. \A u \in Called(r) : r.rec[u].active => r.rec[u].periodic \/ u \in n
  BY <1>1, <1>6, <1>7
<1>11. Placed(r, n) BY <1>1, <1>6, <1>8, <1>9 DEF Placed, Tidy
<1>12. CallsHeld(r, n)
  <2>1. \A d \in BOOLEAN : /\ x.local[d] \subseteq {x.cur[d]}
                           /\ x.cur[d] \in AppTimer \cup {NoTimer}
                           /\ x.cur[d] # NoTimer => (d <=> x.cur[d] \in SoftTimer)
    BY DEF Sound, CallsHeld
  <2>2. \A d \in BOOLEAN : /\ r.local[d] \subseteq {r.cur[d]}
                           /\ r.cur[d] \in AppTimer \cup {NoTimer}
                           /\ r.cur[d] # NoTimer => (d <=> r.cur[d] \in SoftTimer)
    BY <1>5, <2>1
  <2> QED BY <1>10, <2>2 DEF CallsHeld
<1> QED BY <1>5, <1>6, <1>7, <1>11, <1>12 DEF Sound, r

\* The state of the timer thread is written.
LEMMA StatSound ==
    ASSUME NEW x, NEW m, Sound(x, m), NEW r \in TimerState,
           r.rec = x.rec, r.hard = x.hard, r.soft = x.soft, r.local = x.local, r.cur = x.cur
    PROVE  Sound(r, m) /\ Listed(r) = Listed(x)
  BY DEF Sound, Tidy, Placed, CallsHeld, Listed, Called

-----------------------------------------------------------------------------

\* Where the tick interrupt and the timer thread are.
Controlled(x, irq, step) ==
    /\ x.cur[FALSE] # NoTimer <=> irq = "callback"
    /\ x.cur[TRUE] # NoTimer <=> step \in {"callback", "awake"}
    /\ x.status = "busy" <=> step \in {"callback", "awake"}
    /\ x.rec[ThreadTimer].exists
    /\ ThreadTimer \in Listed(x) => step = "check" /\ x.stat = "suspend"

Counters ==
    /\ tick \in 0..(TickRange - 1)
    /\ tickIsr \in {"idle", "check", "callback"}
    /\ threadPc \in {"next", "suspend", "delay", "sleep", "check", "callback", "awake"}
    /\ next_timeout \in 0..(TickRange - 1) /\ (threadPc = "sleep" => next_timeout < HalfRange)
    /\ stopping \in AppTimer \cup {NoTimer}
    /\ timerOps \in 0..TimerOpBound /\ muted \subseteq AppTimer

LEMMA TimerParts ==
    TimerInductive <=> Counters /\ Sound(tmr, muted) /\ Controlled(tmr, tickIsr, threadPc)
<1>1. TimerInductive => Counters /\ Sound(tmr, muted) /\ Controlled(tmr, tickIsr, threadPc)
  BY DEF TimerInductive, ListsConsistent, TimerTypeOK, ListedTimers, Counters, Sound, Tidy,
         Placed, Controlled
<1>2. Counters /\ Sound(tmr, muted) /\ Controlled(tmr, tickIsr, threadPc) => TimerInductive
  BY DEF TimerInductive, ListsConsistent, TimerTypeOK, ListedTimers, Counters, Sound, Tidy,
         Placed, Controlled
<1> QED BY <1>1, <1>2

LEMMA TimerPartsNext ==
    ASSUME Counters', Sound(tmr', muted'), Controlled(tmr', tickIsr', threadPc')
    PROVE  TimerInductive'
  BY DEF TimerInductive, ListsConsistent, TimerTypeOK, ListedTimers, Counters, Sound, Tidy,
         Placed, Controlled

LEMMA OpCounted ==
    ASSUME Counters, TimerOp
    PROVE  timerOps' \in 0..TimerOpBound
  BY TimerConstants DEF Counters, TimerOp

LEMMA StartInductive ==
    ASSUME TimerInductive, NEW t \in AppTimer, TimerStart(t)
    PROVE  TimerInductive'
<1>1. Counters /\ Sound(tmr, muted) /\ Controlled(tmr, tickIsr, threadPc) BY TimerParts
<1>2. /\ TimerOp /\ tmr.rec[t].exists /\ tmr' = rt_timer_start(tmr, t) /\ muted' = muted \ {t}
      /\ UNCHANGED <<tick, tickIsr, threadPc, next_timeout, stopping>>
  BY DEF TimerStart
<1>3. t \in Timers /\ t # ThreadTimer /\ tick \in 0..(TickRange - 1)
  BY <1>1, TimerKinds DEF Counters
<1>4. /\ Sound(tmr', muted \ {t}) /\ tmr'.cur = tmr.cur /\ tmr'.status = tmr.status
      /\ tmr'.rec[ThreadTimer].exists = tmr.rec[ThreadTimer].exists
      /\ \/ tmr'.stat = tmr.stat /\ Listed(tmr') = Listed(tmr) \cup {t}
         \/ ThreadTimer \notin Listed(tmr')
  BY <1>1, <1>2, <1>3, StartSound
<1>5. Controlled(tmr', tickIsr', threadPc') BY <1>1, <1>2, <1>3, <1>4 DEF Controlled
<1>6. Counters' BY <1>1, <1>2, OpCounted DEF Counters
<1> QED BY <1>2, <1>4, <1>5, <1>6, TimerPartsNext

\* A timer is stopped: its entry goes and it is not active.
LEMMA DeactivateInductive ==
    ASSUME TimerInductive, NEW t \in AppTimer, tmr' = Deactivate(tmr, t), muted' = muted \ {t},
           Counters', tickIsr' = tickIsr, threadPc' = threadPc
    PROVE  TimerInductive'
<1>1. Counters /\ Sound(tmr, muted) /\ Controlled(tmr, tickIsr, threadPc) BY TimerParts
<1>2. t \in Timers /\ ThreadTimer \in Timers /\ t # ThreadTimer /\ Tidy(tmr)
  BY <1>1, TimerKinds, SoundFacts
<1>3. /\ Tidy(tmr') /\ Off(tmr, tmr', t) /\ Others(tmr, tmr', t) /\ tmr'.stat = tmr.stat
      /\ ~tmr'.rec[t].active
  BY <1>2, DeactivateTidy
<1>4. Sound(tmr', muted') BY <1>1, <1>2, <1>3, SoundOff
<1>5. /\ tmr'.rec[ThreadTimer] = tmr.rec[ThreadTimer] /\ tmr'.cur = tmr.cur
      /\ tmr'.status = tmr.status /\ Listed(tmr') \subseteq Listed(tmr)
  BY <1>2, <1>3 DEF Others, Off
<1>6. Controlled(tmr', tickIsr', threadPc') BY <1>1, <1>3, <1>5 DEF Controlled
<1> QED BY <1>4, <1>6, TimerPartsNext

LEMMA StopInductive ==
    ASSUME TimerInductive, TimerStop \/ \E t \in AppTimer : TimerStopInIsr(t) \/ TimerStopTest(t)
    PROVE  TimerInductive'
<1>1. Counters /\ Sound(tmr, muted) /\ Controlled(tmr, tickIsr, threadPc) BY TimerParts
<1>2. CASE TimerStop
  <2>1. /\ stopping \in AppTimer /\ tmr' = Deactivate(tmr, stopping) /\ muted' = muted \ {stopping}
        /\ tickIsr' = tickIsr /\ threadPc' = threadPc
    BY <1>1, <1>2 DEF TimerStop, Counters
  <2>2. Counters' BY <1>1, <1>2 DEF TimerStop, Counters
  <2> QED BY <2>1, <2>2, DeactivateInductive
<1>3. ASSUME NEW t \in AppTimer, TimerStopInIsr(t) PROVE TimerInductive'
  <2>1. /\ TimerOp /\ tmr' = Deactivate(tmr, t) /\ muted' = muted \ {t}
        /\ tickIsr' = tickIsr /\ threadPc' = threadPc
        /\ UNCHANGED <<tick, next_timeout, stopping>>
    BY <1>3 DEF TimerStopInIsr
  <2>2. Counters' BY <1>1, <2>1, OpCounted DEF Counters
  <2> QED BY <2>1, <2>2, DeactivateInductive
<1>4. ASSUME NEW t \in AppTimer, TimerStopTest(t) PROVE TimerInductive'
  <2>1. TimerOp /\ UNCHANGED <<tick, tmr, tickIsr, threadPc, next_timeout, muted>> /\ stopping' = t
    BY <1>4 DEF TimerStopTest
  <2>2. Counters' BY <1>1, <2>1, OpCounted DEF Counters
  <2>3. Sound(tmr', muted') /\ Controlled(tmr', tickIsr', threadPc') BY <1>1, <2>1
  <2> QED BY <2>2, <2>3, TimerPartsNext
<1> QED BY <1>2, <1>3, <1>4

\* The record of a timer of the application is written.
LEMMA RecordInductive ==
    ASSUME TimerInductive, NEW t \in AppTimer, NEW v \in TimerRecord, NEW n,
           tmr' = [tmr EXCEPT !.rec[t] = v], muted' = n, muted \ {t} \subseteq n,
           t \in Listed(tmr) \cup Called(tmr) => v.exists,
           t \in Listed(tmr) => v.active,
           v.active => t \in Listed(tmr) \cup Called(tmr) \cup n,
           t \in Called(tmr) /\ v.active => v.periodic \/ t \in n,
           Counters', tickIsr' = tickIsr, threadPc' = threadPc
    PROVE  TimerInductive'
<1>1. Counters /\ Sound(tmr, muted) /\ Controlled(tmr, tickIsr, threadPc) BY TimerParts
<1>2. t \in Timers /\ ThreadTimer \in Timers /\ t # ThreadTimer BY TimerKinds
<1>3. /\ Sound(tmr', n) /\ Listed(tmr') = Listed(tmr) /\ tmr'.cur = tmr.cur
      /\ tmr'.status = tmr.status /\ tmr'.stat = tmr.stat
      /\ \A u \in Timers \ {t} : tmr'.rec[u] = tmr.rec[u]
  BY <1>1, <1>2, RecordSound
<1>4. tmr'.rec[ThreadTimer] = tmr.rec[ThreadTimer] BY <1>2, <1>3
<1>5. Controlled(tmr', tickIsr', threadPc') BY <1>1, <1>3, <1>4 DEF Controlled
<1> QED BY <1>3, <1>5, TimerPartsNext

LEMMA ControlInductive ==
    ASSUME TimerInductive, NEW t \in AppTimer,
           \/ TimerSetOneshot(t) \/ TimerSetPeriodic(t)
           \/ \E n \in TimerTimes : TimerSetTime(t, n)
    PROVE  TimerInductive'
<1>1. Counters /\ Sound(tmr, muted) /\ Controlled(tmr, tickIsr, threadPc) BY TimerParts
<1>2. /\ tmr \in TimerState
      /\ Called(tmr) \subseteq AppTimer
      /\ \A u \in Listed(tmr) \cup Called(tmr) : tmr.rec[u].exists
      /\ \A u \in Listed(tmr) : tmr.rec[u].active
      /\ \A u \in Timers : tmr.rec[u].active => u \in Listed(tmr) \cup Called(tmr) \cup muted
      /\ \A u \in Called(tmr) : tmr.rec[u].active => tmr.rec[u].periodic \/ u \in muted
  BY <1>1, SoundFacts
<1>3. t \in Timers BY TimerKinds
<1>4. tmr.rec \in [Timers -> TimerRecord] BY <1>2, StateFields
<1>5. PICK w : w = tmr.rec[t] OBVIOUS
<1>6. w \in TimerRecord BY <1>3, <1>4, <1>5
<1>7. /\ t \in Listed(tmr) \cup Called(tmr) => w.exists
      /\ t \in Listed(tmr) => w.active
      /\ w.active => t \in Listed(tmr) \cup Called(tmr) \cup muted
      /\ t \in Called(tmr) /\ w.active => w.periodic \/ t \in muted
  BY <1>2, <1>3, <1>5
<1>8. CASE TimerSetOneshot(t)
  <2> DEFINE v == [w EXCEPT !.periodic = FALSE]
             n == muted \cup ({t} \cap Called(tmr))
  <2>1. /\ TimerOp /\ tmr' = [tmr EXCEPT !.rec[t].periodic = FALSE] /\ muted' = n
        /\ UNCHANGED <<tick, tickIsr, threadPc, next_timeout, stopping>>
    BY <1>8 DEF TimerSetOneshot, Called
  <2>2. tmr' = [tmr EXCEPT !.rec[t] = v] BY <1>2, <1>3, <1>4, <1>5, <2>1 DEF TimerState
  <2>3. v \in TimerRecord /\ v.exists = w.exists /\ v.active = w.active BY <1>6 DEF TimerRecord
  <2>4. n \subseteq AppTimer BY <1>1 DEF Counters
  <2> HIDE DEF v
  <2>5. /\ t \in Listed(tmr) \cup Called(tmr) => v.exists
        /\ t \in Listed(tmr) => v.active
        /\ v.active => t \in Listed(tmr) \cup Called(tmr) \cup n
        /\ t \in Called(tmr) /\ v.active => v.periodic \/ t \in n
        /\ muted \ {t} \subseteq n
    BY <1>7, <2>3
  <2> HIDE DEF n
  <2>6. Counters' BY <1>1, <2>1, <2>4, OpCounted DEF Counters
  <2> QED BY <2>1, <2>2, <2>3, <2>5, <2>6, RecordInductive
<1>9. CASE TimerSetPeriodic(t)
  <2> DEFINE v == [w EXCEPT !.periodic = TRUE]
  <2>1. /\ TimerOp /\ tmr' = [tmr EXCEPT !.rec[t].periodic = TRUE]
        /\ UNCHANGED <<tick, tickIsr, threadPc, next_timeout, stopping, muted>>
    BY <1>9 DEF TimerSetPeriodic
  <2>2. tmr' = [tmr EXCEPT !.rec[t] = v] BY <1>2, <1>3, <1>4, <1>5, <2>1 DEF TimerState
  <2>3. v \in TimerRecord /\ v.exists = w.exists /\ v.active = w.active /\ v.periodic
    BY <1>6 DEF TimerRecord
  <2> HIDE DEF v
  <2>4. /\ t \in Listed(tmr) \cup Called(tmr) => v.exists
        /\ t \in Listed(tmr) => v.active
        /\ v.active => t \in Listed(tmr) \cup Called(tmr) \cup muted
        /\ t \in Called(tmr) /\ v.active => v.periodic \/ t \in muted
        /\ muted \ {t} \subseteq muted
    BY <1>7, <2>3
  <2>5. Counters' BY <1>1, <2>1, OpCounted DEF Counters
  <2>6. muted' = muted /\ tickIsr' = tickIsr /\ threadPc' = threadPc BY <2>1
  <2> QED BY <2>2, <2>3, <2>4, <2>5, <2>6, RecordInductive
<1>10. ASSUME NEW i \in TimerTimes, TimerSetTime(t, i) PROVE TimerInductive'
  <2> DEFINE v == [w EXCEPT !.init = i]
  <2>1. /\ TimerOp /\ tmr' = [tmr EXCEPT !.rec[t].init = i]
        /\ UNCHANGED <<tick, tickIsr, threadPc, next_timeout, stopping, muted>>
    BY <1>10 DEF TimerSetTime
  <2>2. tmr' = [tmr EXCEPT !.rec[t] = v] BY <1>2, <1>3, <1>4, <1>5, <2>1 DEF TimerState
  <2>3. i \in 0..(HalfRange - 1) BY TimerConstants
  <2>4. v \in TimerRecord /\ v.exists = w.exists /\ v.active = w.active
        /\ v.periodic = w.periodic
    BY <1>6, <2>3 DEF TimerRecord
  <2> HIDE DEF v
  <2>5. /\ t \in Listed(tmr) \cup Called(tmr) => v.exists
        /\ t \in Listed(tmr) => v.active
        /\ v.active => t \in Listed(tmr) \cup Called(tmr) \cup muted
        /\ t \in Called(tmr) /\ v.active => v.periodic \/ t \in muted
        /\ muted \ {t} \subseteq muted
    BY <1>7, <2>4
  <2>6. Counters' BY <1>1, <2>1, OpCounted DEF Counters
  <2>7. muted' = muted /\ tickIsr' = tickIsr /\ threadPc' = threadPc BY <2>1
  <2> QED BY <2>2, <2>4, <2>5, <2>6, <2>7, RecordInductive
<1> QED BY <1>8, <1>9, <1>10

LEMMA CreateInductive ==
    ASSUME TimerInductive, NEW t \in AppTimer, NEW i \in TimerTimes, NEW per \in BOOLEAN,
           TimerCreate(t, i, per)
    PROVE  TimerInductive'
<1> DEFINE v == [exists |-> TRUE, periodic |-> per, active |-> FALSE, init |-> i]
<1>1. Counters /\ Sound(tmr, muted) /\ Controlled(tmr, tickIsr, threadPc) BY TimerParts
<1>2. \A u \in Listed(tmr) \cup Called(tmr) : tmr.rec[u].exists BY <1>1, SoundFacts
<1>3. /\ TimerOp /\ ~tmr.rec[t].exists /\ tmr' = [tmr EXCEPT !.rec[t] = v]
      /\ UNCHANGED <<tick, tickIsr, threadPc, next_timeout, stopping, muted>>
  BY DEF TimerCreate
<1>4. v \in TimerRecord /\ ~v.active /\ v.exists BY TimerConstants DEF TimerRecord
<1> HIDE DEF v
<1>5. /\ t \in Listed(tmr) \cup Called(tmr) => v.exists
      /\ t \in Listed(tmr) => v.active
      /\ v.active => t \in Listed(tmr) \cup Called(tmr) \cup muted
      /\ t \in Called(tmr) /\ v.active => v.periodic \/ t \in muted
      /\ muted \ {t} \subseteq muted
  BY <1>2, <1>3, <1>4
<1>6. Counters' BY <1>1, <1>3, OpCounted DEF Counters
<1>7. muted' = muted /\ tickIsr' = tickIsr /\ threadPc' = threadPc BY <1>3
<1> QED BY <1>3, <1>4, <1>5, <1>6, <1>7, RecordInductive

LEMMA DeleteInductive ==
    ASSUME TimerInductive, NEW t \in AppTimer, TimerDelete(t)
    PROVE  TimerInductive'
<1> DEFINE q == Deactivate(tmr, t)
           v == [q.rec[t] EXCEPT !.exists = FALSE]
           n == muted \ {t}
<1>1. Counters /\ Sound(tmr, muted) /\ Controlled(tmr, tickIsr, threadPc) BY TimerParts
<1>2. t \in Timers /\ ThreadTimer \in Timers /\ t # ThreadTimer /\ Tidy(tmr)
  BY <1>1, TimerKinds, SoundFacts
<1>3. /\ TimerOp /\ tmr' = [q EXCEPT !.rec[t].exists = FALSE] /\ muted' = n
      /\ UNCHANGED <<tick, tickIsr, threadPc, next_timeout, stopping>>
  BY DEF TimerDelete
<1>4. /\ Tidy(q) /\ Off(tmr, q, t) /\ Others(tmr, q, t) /\ q.stat = tmr.stat
      /\ ~q.rec[t].active
  BY <1>2, DeactivateTidy
<1> HIDE DEF q
<1>5. Sound(q, n) BY <1>1, <1>2, <1>4, SoundOff
<1>6. q \in TimerState /\ q.rec \in [Timers -> TimerRecord] BY <1>4, StateFields DEF Tidy
<1>7. tmr' = [q EXCEPT !.rec[t] = v] BY <1>2, <1>3, <1>6 DEF TimerState
<1>8. v \in TimerRecord /\ ~v.active
  <2>1. q.rec[t] \in TimerRecord BY <1>2, <1>6
  <2> QED BY <1>4, <2>1 DEF TimerRecord
<1> HIDE DEF v
<1>9. t \notin Listed(q) /\ t \notin Called(q) BY <1>4 DEF Off
<1>10. /\ Sound(tmr', n) /\ Listed(tmr') = Listed(q) /\ tmr'.cur = q.cur
       /\ tmr'.status = q.status /\ tmr'.stat = q.stat
       /\ \A u \in Timers \ {t} : tmr'.rec[u] = q.rec[u]
  <2>1. n \ {t} \subseteq n OBVIOUS
  <2> HIDE DEF n
  <2> QED BY <1>2, <1>5, <1>7, <1>8, <1>9, <2>1, RecordSound
<1>11. /\ tmr'.rec[ThreadTimer] = tmr.rec[ThreadTimer] /\ tmr'.cur = tmr.cur
       /\ tmr'.status = tmr.status /\ tmr'.stat = tmr.stat /\ Listed(tmr') \subseteq Listed(tmr)
  BY <1>2, <1>4, <1>10 DEF Others, Off
<1>12. Controlled(tmr', tickIsr', threadPc') BY <1>1, <1>3, <1>11 DEF Controlled
<1>13. Counters' BY <1>1, <1>3, OpCounted DEF Counters
<1> QED BY <1>3, <1>10, <1>12, <1>13, TimerPartsNext

LEMMA UseInductive ==
    ASSUME TimerInductive, TimerUse
    PROVE  TimerInductive'
  BY StartInductive, StopInductive, ControlInductive, CreateInductive, DeleteInductive
  DEF TimerUse

\* A step that leaves the timers alone.
LEMMA TimersKept ==
    ASSUME TimerInductive, tmr' = tmr, muted' = muted, Counters',
           tickIsr' = "callback" <=> tickIsr = "callback",
           threadPc' \in {"callback", "awake"} <=> threadPc \in {"callback", "awake"},
           ThreadTimer \in Listed(tmr) => threadPc' = "check"
    PROVE  TimerInductive'
<1>1. Sound(tmr, muted) /\ Controlled(tmr, tickIsr, threadPc) BY TimerParts
<1>2. Sound(tmr', muted') BY <1>1
<1>3. Controlled(tmr', tickIsr', threadPc') BY <1>1 DEF Controlled
<1> QED BY <1>2, <1>3, TimerPartsNext

\* The timer thread is resumed, or suspends itself: its own timer is stopped.
LEMMA ThreadTimerStopped ==
    ASSUME TimerInductive, NEW s \in {"ready", "suspend"},
           tmr' = [Deactivate(tmr, ThreadTimer) EXCEPT !.stat = s], muted' = muted, Counters',
           tickIsr' = tickIsr,
           threadPc' \in {"callback", "awake"} <=> threadPc \in {"callback", "awake"}
    PROVE  TimerInductive'
<1> DEFINE q == Deactivate(tmr, ThreadTimer)
<1>1. Sound(tmr, muted) /\ Controlled(tmr, tickIsr, threadPc) BY TimerParts
<1>2. ThreadTimer \in Timers /\ Tidy(tmr) BY <1>1, TimerKinds, SoundFacts
<1>3. /\ Tidy(q) /\ Off(tmr, q, ThreadTimer) /\ Others(tmr, q, ThreadTimer)
      /\ ~q.rec[ThreadTimer].active /\ q.rec[ThreadTimer].exists = tmr.rec[ThreadTimer].exists
  BY <1>2, DeactivateTidy
<1>4. tmr' = [q EXCEPT !.stat = s] OBVIOUS
<1> HIDE DEF q
<1>5. Sound(q, muted) BY <1>1, <1>2, <1>3, SoundOff
<1>6. /\ tmr' \in TimerState /\ tmr'.rec = q.rec /\ tmr'.hard = q.hard /\ tmr'.soft = q.soft
      /\ tmr'.local = q.local /\ tmr'.cur = q.cur /\ tmr'.status = q.status /\ tmr'.stat = s
  BY <1>3, <1>4 DEF Tidy, TimerState
<1>7. Sound(tmr', muted') /\ Listed(tmr') = Listed(q) BY <1>5, <1>6, StatSound
<1>8. /\ ThreadTimer \notin Listed(tmr') /\ tmr'.cur = tmr.cur /\ tmr'.status = tmr.status
      /\ tmr'.rec[ThreadTimer].exists = tmr.rec[ThreadTimer].exists
  BY <1>3, <1>6, <1>7 DEF Off
<1>9. Controlled(tmr', tickIsr', threadPc') BY <1>1, <1>8 DEF Controlled
<1> QED BY <1>7, <1>9, TimerPartsNext

LEMMA HeadListed ==
    ASSUME NEW list \in Seq(TimerEntry), list # << >>
    PROVE  Head(list).timer \in TimersIn(list) /\ Head(list) \in TimerEntry
<1>1. Len(list) \in Nat /\ Len(list) # 0 /\ Head(list) = list[1] OBVIOUS
<1>2. 1 \in 1 .. Len(list) BY <1>1
<1> QED BY <1>1, <1>2, InTimersIn

LEMMA TickInductive ==
    ASSUME TimerInductive, ClockTick \/ TickInterrupt
    PROVE  TimerInductive'
<1>1. Counters /\ Sound(tmr, muted) /\ Controlled(tmr, tickIsr, threadPc) BY TimerParts
<1>2. /\ tmr \in TimerState /\ Listed(tmr) \subseteq Timers /\ tmr.hard \in Seq(TimerEntry)
  BY <1>1, SoundFacts, StateFields
<1>3. CASE ClockTick
  <2>1. UNCHANGED <<tmr, threadPc, next_timeout, stopping, muted, timerOps>>
        /\ tickIsr = "idle" /\ tickIsr' = "check" /\ tick' = (tick + 1) % TickRange
    BY <1>3 DEF ClockTick
  <2>2. tick' \in 0..(TickRange - 1) BY <1>1, <2>1, TimerNumbers DEF Counters
  <2>3. Counters' BY <1>1, <2>1, <2>2 DEF Counters
  <2>4. ThreadTimer \in Listed(tmr) => threadPc' = "check" BY <1>1, <2>1 DEF Controlled
  <2> QED BY <2>1, <2>3, <2>4, TimersKept
<1>4. CASE CheckEnds
  <2>1. UNCHANGED <<tick, tmr, threadPc, next_timeout, stopping, muted, timerOps>>
        /\ tickIsr = "check" /\ tickIsr' = "idle"
    BY <1>4 DEF CheckEnds
  <2>2. Counters' BY <1>1, <2>1 DEF Counters
  <2>3. ThreadTimer \in Listed(tmr) => threadPc' = "check" BY <1>1, <2>1 DEF Controlled
  <2> QED BY <2>1, <2>2, <2>3, TimersKept
<1>5. CASE CheckWakes
  <2>1. UNCHANGED <<tick, tickIsr, threadPc, next_timeout, stopping, muted, timerOps>>
        /\ tmr' = [Deactivate(tmr, ThreadTimer) EXCEPT !.stat = "ready"]
    BY <1>5 DEF CheckWakes
  <2>2. Counters' BY <1>1, <2>1 DEF Counters
  <2>3. "ready" \in {"ready", "suspend"} /\ muted' = muted /\ tickIsr' = tickIsr
        /\ (threadPc' \in {"callback", "awake"} <=> threadPc \in {"callback", "awake"})
    BY <2>1
  <2> QED BY <2>1, <2>2, <2>3, ThreadTimerStopped
<1>6. CASE CheckTake
  <2>1. PICK t : t = Head(tmr.hard).timer OBVIOUS
  <2>2. /\ tickIsr = "check" /\ TimerDue(tmr.hard) /\ t # ThreadTimer /\ tmr' = TakeTimer(tmr, t)
        /\ tickIsr' = "callback"
        /\ UNCHANGED <<tick, threadPc, next_timeout, stopping, muted, timerOps>>
    BY <1>6, <2>1 DEF CheckTake
  <2>3. t \in TimersIn(tmr.hard) BY <1>2, <2>1, <2>2, HeadListed DEF TimerDue
  <2>4. t \in Listed(tmr) /\ t \notin SoftTimer BY <1>1, <2>3 DEF Listed, Sound, Tidy
  <2>5. tmr.cur[FALSE] = NoTimer BY <1>1, <2>2 DEF Controlled
  <2>6. Sound(tmr', muted) /\ Taken(tmr, tmr', t, FALSE)
    BY <1>1, <2>2, <2>4, <2>5, TakeSound
  <2>7. /\ Listed(tmr') \subseteq Listed(tmr) /\ tmr'.status = tmr.status /\ tmr'.stat = tmr.stat
        /\ tmr'.cur[FALSE] = t /\ tmr'.cur[TRUE] = tmr.cur[TRUE]
        /\ tmr'.rec[ThreadTimer].exists = tmr.rec[ThreadTimer].exists
    BY <2>6, TimerKinds DEF Taken
  <2>8. t # NoTimer BY <1>2, <2>4, TimerKinds
  <2>9. Controlled(tmr', tickIsr', threadPc') BY <1>1, <2>2, <2>7, <2>8 DEF Controlled
  <2>10. Counters' BY <1>1, <2>2 DEF Counters
  <2> QED BY <2>2, <2>6, <2>9, <2>10, TimerPartsNext
<1>7. CASE CheckReturn
  <2>1. /\ tickIsr = "callback" /\ tmr' = PutTimer(tmr, FALSE) /\ tickIsr' = "check"
        /\ UNCHANGED <<tick, threadPc, next_timeout, stopping, muted, timerOps>>
    BY <1>7 DEF CheckReturn
  <2>2. tmr.cur[FALSE] # NoTimer /\ tick \in 0..(TickRange - 1)
    BY <1>1, <2>1 DEF Controlled, Counters
  <2>3. Sound(tmr', muted) /\ Put(tmr, tmr', FALSE) BY <1>1, <2>1, <2>2, PutSound
  <2>4. /\ tmr'.status = tmr.status /\ tmr'.cur[FALSE] = NoTimer /\ tmr'.cur[TRUE] = tmr.cur[TRUE]
        /\ tmr'.rec[ThreadTimer].exists = tmr.rec[ThreadTimer].exists
        /\ ThreadTimer \in Listed(tmr') => ThreadTimer \in Listed(tmr) /\ tmr'.stat = tmr.stat
    BY <2>3 DEF Put
  <2>5. Controlled(tmr', tickIsr', threadPc') BY <1>1, <2>1, <2>4 DEF Controlled
  <2>6. Counters' BY <1>1, <2>1 DEF Counters
  <2> QED BY <2>1, <2>3, <2>5, <2>6, TimerPartsNext
<1> QED BY <1>3, <1>4, <1>5, <1>6, <1>7 DEF TickInterrupt

\* The timer thread sleeps: its own timer is given a time and started.
LEMMA DelayInductive ==
    ASSUME TimerInductive, DelaySelf
    PROVE  TimerInductive'
<1> DEFINE w == tmr.rec[ThreadTimer]
           v == [w EXCEPT !.init = next_timeout]
           q == [tmr EXCEPT !.rec[ThreadTimer] = v]
           y == [q EXCEPT !.stat = "suspend"]
<1>1. Counters /\ Sound(tmr, muted) /\ Controlled(tmr, tickIsr, threadPc) BY TimerParts
<1>2. /\ tmr \in TimerState /\ tmr.rec \in [Timers -> TimerRecord] /\ ThreadTimer \in Timers
      /\ ThreadTimer \notin SoftTimer
      /\ \A u \in Listed(tmr) \cup Called(tmr) : tmr.rec[u].exists
      /\ \A u \in Listed(tmr) : tmr.rec[u].active
      /\ \A u \in Timers : tmr.rec[u].active => u \in Listed(tmr) \cup Called(tmr) \cup muted
      /\ \A u \in Called(tmr) : tmr.rec[u].active => tmr.rec[u].periodic \/ u \in muted
  BY <1>1, SoundFacts, StateFields, TimerKinds
<1>3. /\ threadPc = "sleep" /\ threadPc' = "check" /\ next_timeout' = 0
      /\ tmr' = rt_timer_start([tmr EXCEPT !.stat = "suspend",
                                           !.rec[ThreadTimer].init = next_timeout], ThreadTimer)
      /\ UNCHANGED <<tick, tickIsr, stopping, muted, timerOps>>
  BY DEF DelaySelf, ThreadAt
<1>4. next_timeout \in 0..(HalfRange - 1) BY <1>1, <1>3, TimerNumbers DEF Counters
<1>5. w \in TimerRecord /\ w.exists BY <1>1, <1>2 DEF Controlled
<1>6. [tmr EXCEPT !.stat = "suspend", !.rec[ThreadTimer].init = next_timeout] = y
  BY <1>2 DEF TimerState
<1>7. /\ ThreadTimer \in Listed(tmr) => w.active
      /\ w.active => ThreadTimer \in Listed(tmr) \cup Called(tmr) \cup muted
      /\ ThreadTimer \in Called(tmr) /\ w.active => w.periodic \/ ThreadTimer \in muted
  BY <1>2
<1> HIDE DEF w
<1>8. /\ v \in TimerRecord /\ v.exists /\ v.active = w.active /\ v.periodic = w.periodic
  BY <1>4, <1>5 DEF TimerRecord
<1> HIDE DEF v
<1>9. /\ ThreadTimer \in Listed(tmr) \cup Called(tmr) => v.exists
      /\ ThreadTimer \in Listed(tmr) => v.active
      /\ v.active => ThreadTimer \in Listed(tmr) \cup Called(tmr) \cup muted
      /\ ThreadTimer \in Called(tmr) /\ v.active => v.periodic \/ ThreadTimer \in muted
      /\ muted \ {ThreadTimer} \subseteq muted
  BY <1>7, <1>8
<1>10. /\ Sound(q, muted) /\ Listed(q) = Listed(tmr) /\ q.cur = tmr.cur
       /\ q.status = tmr.status
  <2>1. Sound(tmr, muted) /\ ThreadTimer \in Timers /\ v \in TimerRecord BY <1>1, <1>2, <1>8
  <2>2. PICK n : n = muted OBVIOUS
  <2>3. PICK z : z = q OBVIOUS
  <2> HIDE DEF q
  <2>4. /\ v.active => ThreadTimer \in Listed(tmr) \cup Called(tmr) \cup n
        /\ ThreadTimer \in Called(tmr) /\ v.active => v.periodic \/ ThreadTimer \in n
        /\ muted \ {ThreadTimer} \subseteq n
    BY <1>9, <2>2
  <2>5. Sound(z, n) /\ Listed(z) = Listed(tmr) /\ z.cur = tmr.cur /\ z.status = tmr.status
    BY <1>9, <2>1, <2>3, <2>4, RecordSound DEF q
  <2> QED BY <2>2, <2>3, <2>5
<1>11. q.rec[ThreadTimer] = v BY <1>2 DEF TimerState
<1> HIDE DEF q
<1>12. q \in TimerState BY <1>10, SoundFacts
<1>13. /\ y \in TimerState /\ y.rec = q.rec /\ y.hard = q.hard /\ y.soft = q.soft
       /\ y.local = q.local /\ y.cur = q.cur /\ y.status = q.status /\ y.stat = "suspend"
  BY <1>12 DEF TimerState
<1>14. tmr' = rt_timer_start(y, ThreadTimer) BY <1>3, <1>6
<1> HIDE DEF y
<1>15. Sound(y, muted) /\ Listed(y) = Listed(q) BY <1>10, <1>13, StatSound
<1>16. y.rec[ThreadTimer].exists BY <1>8, <1>11, <1>13
<1>17. tick \in 0..(TickRange - 1) BY <1>1 DEF Counters
<1>18. /\ Sound(tmr', muted) /\ tmr'.cur = y.cur /\ tmr'.status = y.status
       /\ tmr'.rec[ThreadTimer].exists = y.rec[ThreadTimer].exists
       /\ tmr'.stat = y.stat
  BY <1>2, <1>14, <1>15, <1>16, <1>17, StartSound
<1>19. Controlled(tmr', tickIsr', threadPc')
  BY <1>1, <1>3, <1>10, <1>13, <1>16, <1>18 DEF Controlled
<1>20. Counters' BY <1>1, <1>3, TimerNumbers DEF Counters
<1> QED BY <1>3, <1>18, <1>19, <1>20, TimerPartsNext

\* The state of the timer thread is written in the course of a callback.
LEMMA WaitInductive ==
    ASSUME TimerInductive, SoftWaits \/ SoftWoken
    PROVE  TimerInductive'
<1>1. Counters /\ Sound(tmr, muted) /\ Controlled(tmr, tickIsr, threadPc) BY TimerParts
<1>2. PICK s \in {"ready", "suspend"} : tmr' = [tmr EXCEPT !.stat = s]
  BY DEF SoftWaits, SoftWoken
<1>3. /\ threadPc = "callback" /\ threadPc' \in {"callback", "awake"}
      /\ UNCHANGED <<tick, tickIsr, next_timeout, stopping, muted, timerOps>>
  BY DEF SoftWaits, SoftWoken, ThreadAt
<1>4. tmr \in TimerState BY <1>1, SoundFacts
<1>5. /\ tmr' \in TimerState /\ tmr'.rec = tmr.rec /\ tmr'.hard = tmr.hard /\ tmr'.soft = tmr.soft
      /\ tmr'.local = tmr.local /\ tmr'.cur = tmr.cur /\ tmr'.status = tmr.status
  BY <1>2, <1>4 DEF TimerState
<1>6. Sound(tmr', muted') /\ Listed(tmr') = Listed(tmr) BY <1>1, <1>3, <1>5, StatSound
<1>7. Controlled(tmr', tickIsr', threadPc') BY <1>1, <1>3, <1>5, <1>6 DEF Controlled
<1>8. Counters' BY <1>1, <1>3 DEF Counters
<1> QED BY <1>6, <1>7, <1>8, TimerPartsNext

LEMMA SoftCheckInductive ==
    ASSUME TimerInductive, SoftTake \/ SoftReturn
    PROVE  TimerInductive'
<1>1. Counters /\ Sound(tmr, muted) /\ Controlled(tmr, tickIsr, threadPc) BY TimerParts
<1>2. tmr \in TimerState /\ Listed(tmr) \subseteq Timers /\ tmr.soft \in Seq(TimerEntry)
  BY <1>1, SoundFacts, StateFields
<1>3. CASE SoftTake
  <2>1. PICK t : t = Head(tmr.soft).timer OBVIOUS
  <2>2. PICK q : q = TakeTimer(tmr, t) OBVIOUS
  <2>3. /\ threadPc = "check" /\ tmr.stat = "ready" /\ TimerDue(tmr.soft)
        /\ tmr' = [q EXCEPT !.status = "busy"] /\ threadPc' = "callback"
        /\ UNCHANGED <<tick, tickIsr, next_timeout, stopping, muted, timerOps>>
    BY <1>3, <2>1, <2>2 DEF SoftTake, ThreadAt
  <2>4. t \in TimersIn(tmr.soft) BY <1>2, <2>1, <2>3, HeadListed DEF TimerDue
  <2>5. t \in Listed(tmr) /\ t \in SoftTimer BY <1>1, <2>4 DEF Listed, Sound, Tidy
  <2>6. tmr.cur[TRUE] = NoTimer /\ ThreadTimer \notin Listed(tmr) BY <1>1, <2>3 DEF Controlled
  <2>7. t # ThreadTimer /\ t # NoTimer BY <1>2, <2>5, TimerKinds
  <2>8. Sound(q, muted) /\ Taken(tmr, q, t, TRUE)
    BY <1>1, <2>2, <2>5, <2>6, <2>7, TakeSound
  <2>9. /\ Listed(q) \subseteq Listed(tmr)
        /\ q.cur[TRUE] = t /\ q.cur[FALSE] = tmr.cur[FALSE]
        /\ q.rec[ThreadTimer].exists = tmr.rec[ThreadTimer].exists
    BY <2>8, TimerKinds DEF Taken
  <2>10. q \in TimerState BY <2>8, SoundFacts
  <2>11. /\ tmr' \in TimerState /\ tmr'.rec = q.rec /\ tmr'.hard = q.hard /\ tmr'.soft = q.soft
         /\ tmr'.local = q.local /\ tmr'.cur = q.cur /\ tmr'.status = "busy"
    BY <2>3, <2>10 DEF TimerState
  <2>12. Sound(tmr', muted') /\ Listed(tmr') = Listed(q) BY <2>3, <2>8, <2>11, StatSound
  <2>13. Controlled(tmr', tickIsr', threadPc')
    BY <1>1, <2>3, <2>6, <2>7, <2>9, <2>11, <2>12 DEF Controlled
  <2>14. Counters' BY <1>1, <2>3 DEF Counters
  <2> QED BY <2>12, <2>13, <2>14, TimerPartsNext
<1>4. CASE SoftReturn
  <2>1. PICK y : y = [tmr EXCEPT !.status = "idle"] OBVIOUS
  <2>2. /\ threadPc \in {"callback", "awake"} /\ tmr' = PutTimer(y, TRUE) /\ threadPc' = "check"
        /\ UNCHANGED <<tick, tickIsr, next_timeout, stopping, muted, timerOps>>
    BY <1>4, <2>1 DEF SoftReturn, ThreadAt
  <2>3. /\ y \in TimerState /\ y.rec = tmr.rec /\ y.hard = tmr.hard /\ y.soft = tmr.soft
        /\ y.local = tmr.local /\ y.cur = tmr.cur /\ y.status = "idle"
    BY <1>2, <2>1 DEF TimerState
  <2>4. Sound(y, muted) /\ Listed(y) = Listed(tmr) BY <1>1, <2>3, StatSound
  <2>5. y.cur[TRUE] # NoTimer /\ tick \in 0..(TickRange - 1) /\ ThreadTimer \notin Listed(y)
    BY <1>1, <2>2, <2>3, <2>4 DEF Controlled, Counters
  <2>6. Sound(tmr', muted) /\ Put(y, tmr', TRUE) BY <2>2, <2>4, <2>5, PutSound
  <2>7. /\ tmr'.status = y.status /\ tmr'.cur[TRUE] = NoTimer /\ tmr'.cur[FALSE] = y.cur[FALSE]
        /\ tmr'.rec[ThreadTimer].exists = y.rec[ThreadTimer].exists
        /\ ThreadTimer \notin Listed(tmr')
    BY <2>5, <2>6 DEF Put
  <2>8. Controlled(tmr', tickIsr', threadPc') BY <1>1, <2>2, <2>3, <2>7 DEF Controlled
  <2>9. Counters' BY <1>1, <2>2 DEF Counters
  <2> QED BY <2>2, <2>6, <2>8, <2>9, TimerPartsNext
<1> QED BY <1>3, <1>4

LEMMA ThreadInductive ==
    ASSUME TimerInductive, TimerThread
    PROVE  TimerInductive'
<1>1. Counters /\ Sound(tmr, muted) /\ Controlled(tmr, tickIsr, threadPc) BY TimerParts
<1>2. tmr.soft \in Seq(TimerEntry) BY <1>1, SoundFacts, StateFields
<1>3. CASE NextTimeout
  <2>1. /\ threadPc = "next" /\ threadPc' \in {"suspend", "delay"}
        /\ next_timeout' = next_timeout \/ (tmr.soft # << >> /\ next_timeout' = Head(tmr.soft).at)
        /\ UNCHANGED <<tick, tmr, tickIsr, stopping, muted, timerOps>>
    BY <1>3 DEF NextTimeout, ThreadAt
  <2>2. next_timeout' \in 0..(TickRange - 1)
    <3>1. tmr.soft # << >> => Head(tmr.soft).at \in 0..(TickRange - 1)
      BY <1>2, HeadListed, EntryType
    <3> QED BY <1>1, <2>1, <3>1 DEF Counters
  <2>3. Counters' BY <1>1, <2>1, <2>2 DEF Counters
  <2>4. ThreadTimer \notin Listed(tmr) BY <1>1, <2>1 DEF Controlled
  <2> QED BY <2>1, <2>3, <2>4, TimersKept
<1>4. CASE SuspendSelf
  <2>1. /\ threadPc = "suspend" /\ threadPc' = "check"
        /\ tmr' = [Deactivate(tmr, ThreadTimer) EXCEPT !.stat = "suspend"]
        /\ UNCHANGED <<tick, tickIsr, next_timeout, stopping, muted, timerOps>>
    BY <1>4 DEF SuspendSelf, ThreadAt
  <2>2. Counters' BY <1>1, <2>1 DEF Counters
  <2>3. "suspend" \in {"ready", "suspend"} /\ muted' = muted /\ tickIsr' = tickIsr
        /\ (threadPc' \in {"callback", "awake"} <=> threadPc \in {"callback", "awake"})
    BY <2>1
  <2> QED BY <2>1, <2>2, <2>3, ThreadTimerStopped
<1>5. CASE GetTick
  <2> DEFINE d == TickMinus(next_timeout, tick)
  <2>1. /\ threadPc = "delay" /\ UNCHANGED <<tick, tmr, tickIsr, stopping, muted, timerOps>>
        /\ \/ d < HalfRange /\ threadPc' = "sleep" /\ next_timeout' = d
           \/ threadPc' = "check" /\ next_timeout' = 0
    BY <1>5 DEF GetTick, ThreadAt
  <2>2. next_timeout \in Int /\ tick \in Int BY <1>1, TimerNumbers DEF Counters
  <2>3. d \in 0..(TickRange - 1) BY <2>2, TickMinusType
  <2> HIDE DEF d
  <2>4. 0 \in 0..(TickRange - 1) BY TimerNumbers
  <2>5. Counters' BY <1>1, <2>1, <2>3, <2>4 DEF Counters
  <2>6. ThreadTimer \notin Listed(tmr) BY <1>1, <2>1 DEF Controlled
  <2>7. threadPc' \in {"callback", "awake"} <=> threadPc \in {"callback", "awake"} BY <2>1
  <2> QED BY <2>1, <2>5, <2>6, <2>7, TimersKept
<1>6. CASE SoftEnds
  <2>1. /\ threadPc = "check" /\ tmr.stat = "ready" /\ threadPc' = "next"
        /\ UNCHANGED <<tick, tmr, tickIsr, next_timeout, stopping, muted, timerOps>>
    BY <1>6 DEF SoftEnds, ThreadAt
  <2>2. Counters' BY <1>1, <2>1 DEF Counters
  <2>3. ThreadTimer \notin Listed(tmr) BY <1>1, <2>1 DEF Controlled
  <2>4. threadPc' \in {"callback", "awake"} <=> threadPc \in {"callback", "awake"} BY <2>1
  <2> QED BY <2>1, <2>2, <2>3, <2>4, TimersKept
<1> QED BY <1>3, <1>4, <1>5, <1>6, DelayInductive, SoftCheckInductive DEF TimerThread

LEMMA TimerInitInductive ==
    ASSUME TimerInit
    PROVE  TimerInductive
<1>1. PICK boot \in BootTimers :
        tmr = [rec |-> [t \in Timers |->
                        [exists |-> TRUE, active |-> FALSE,
                         periodic |-> t # ThreadTimer /\ boot[t].periodic,
                         init |-> IF t = ThreadTimer THEN 0 ELSE boot[t].init]],
             hard |-> << >>, soft |-> << >>,
             local |-> [c \in BOOLEAN |-> {}], cur |-> [c \in BOOLEAN |-> NoTimer],
             status |-> "idle", stat |-> "ready"]
  BY DEF TimerInit
<1> DEFINE f == [t \in Timers |->
                    [exists |-> TRUE, active |-> FALSE,
                     periodic |-> t # ThreadTimer /\ boot[t].periodic,
                     init |-> IF t = ThreadTimer THEN 0 ELSE boot[t].init]]
           l == [c \in BOOLEAN |-> {}]
           kept == [c \in BOOLEAN |-> NoTimer]
<1>2. ASSUME NEW t \in Timers PROVE f[t] \in TimerRecord /\ f[t].exists /\ ~f[t].active
  <2>1. 0 \in 0..(HalfRange - 1) BY TimerNumbers
  <2>2. CASE t = ThreadTimer BY <2>1, <2>2 DEF TimerRecord
  <2>3. CASE t # ThreadTimer
    <3>1. t \in AppTimer BY <2>3 DEF Timers
    <3>2. boot[t].init \in TimerTimes /\ boot[t].periodic \in BOOLEAN BY <3>1, TimerConstants
    <3>3. boot[t].init \in 0..(HalfRange - 1) BY <3>2, TimerConstants
    <3> QED BY <2>3, <3>2, <3>3 DEF TimerRecord
  <2> QED BY <2>2, <2>3
<1>3. f \in [Timers -> TimerRecord] BY <1>2
<1>4. l \in [BOOLEAN -> SUBSET Timers] /\ kept \in [BOOLEAN -> Timers \cup {NoTimer}] OBVIOUS
<1>5. \A c \in BOOLEAN : l[c] = {} /\ kept[c] = NoTimer OBVIOUS
<1> HIDE DEF f, l, kept
<1>6. /\ tmr.rec = f /\ tmr.hard = << >> /\ tmr.soft = << >> /\ tmr.local = l /\ tmr.cur = kept
      /\ tmr.status = "idle" /\ tmr.stat = "ready"
  BY <1>1 DEF f, l, kept
<1>7. tmr = [rec |-> f, hard |-> << >>, soft |-> << >>, local |-> l, cur |-> kept,
             status |-> "idle", stat |-> "ready"]
  BY <1>1 DEF f, l, kept
<1>8. tmr \in TimerState
  <2>1. << >> \in Seq(TimerEntry) OBVIOUS
  <2> QED BY <1>3, <1>4, <1>7, <2>1 DEF TimerState, TimerRecord
<1>9. TimersIn(<< >>) = {} /\ EachOnce(<< >>)
  <2>1. << >> \in Seq(TimerEntry) OBVIOUS
  <2> QED BY <2>1, InTimersIn
<1>10. Tidy(tmr) BY <1>6, <1>8, <1>9 DEF Tidy
<1>11. tmr.local[TRUE] = {} /\ tmr.local[FALSE] = {} BY <1>5, <1>6
<1>12. Listed(tmr) = {} /\ Called(tmr) = {} BY <1>6, <1>9, <1>11 DEF Listed, Called
<1>13. \A t \in Timers : ~tmr.rec[t].active BY <1>2, <1>6
<1>14. Placed(tmr, muted) BY <1>10, <1>12, <1>13 DEF Placed, Tidy
<1>15. CallsHeld(tmr, muted) BY <1>5, <1>6, <1>12 DEF CallsHeld
<1>16. tmr.cur[TRUE] = NoTimer /\ tmr.cur[FALSE] = NoTimer BY <1>5, <1>6
<1>17. tmr.rec[ThreadTimer].exists BY <1>2, <1>6, TimerKinds
<1>18. Controlled(tmr, tickIsr, threadPc)
  BY <1>6, <1>12, <1>16, <1>17 DEF Controlled, TimerInit
<1>19. Counters BY TimerNumbers, TimerConstants DEF Counters, TimerInit
<1> QED BY <1>10, <1>14, <1>15, <1>18, <1>19, TimerParts DEF Sound

LEMMA TimerStepInductive ==
    ASSUME TimerInductive, [TimerNext]_timerVars
    PROVE  TimerInductive'
<1>1. CASE TimerNext
  BY <1>1, UseInductive, TickInductive, ThreadInductive, WaitInductive DEF TimerNext
<1>2. CASE UNCHANGED timerVars
  <2>1. Counters /\ Sound(tmr, muted) /\ Controlled(tmr, tickIsr, threadPc) BY TimerParts
  <2>2. UNCHANGED <<tick, tmr, tickIsr, threadPc, next_timeout, stopping, muted, timerOps>>
    BY <1>2 DEF timerVars
  <2>3. Counters' BY <2>1, <2>2 DEF Counters
  <2>4. Sound(tmr', muted') /\ Controlled(tmr', tickIsr', threadPc') BY <2>1, <2>2
  <2> QED BY <2>3, <2>4, TimerPartsNext
<1> QED BY <1>1, <1>2

\* Whatever the ticks, the callbacks and the application do, each timer is in one
\* place, exists there, and is called from there only; the timer thread's own
\* timer runs only while that thread waits (rt_timer_start, rt_timer_stop,
\* rt_timer_control, rt_timer_detach, rt_timer_check and rt_soft_timer_check).
THEOREM TimerListsConsistent == TimerSpec => []ListsConsistent
<1>1. TimerInit => TimerInductive BY TimerInitInductive
<1>2. TimerInductive /\ [TimerNext]_timerVars => TimerInductive' BY TimerStepInductive
<1>3. TimerInductive => ListsConsistent BY DEF TimerInductive
<1> QED BY <1>1, <1>2, <1>3, PTL DEF TimerSpec

\* The operations of the application do not make a timer thread ready that waits
\* in a callback.
LEMMA UseLeavesCallback ==
    ASSUME TimerInductive, TimerUse, threadPc \in {"callback", "awake"},
           tmr.stat = "suspend", tmr'.stat = "ready"
    PROVE  timerOps' = timerOps
<1>1. Counters /\ Sound(tmr, muted) /\ tmr.status = "busy" BY TimerParts DEF Controlled
<1>2. tmr \in TimerState /\ Tidy(tmr) /\ tick \in 0..(TickRange - 1)
  BY <1>1, SoundFacts DEF Counters
<1>3. CASE TimerStop BY <1>3 DEF TimerStop
<1>4. ASSUME NEW t \in AppTimer, TimerStart(t) PROVE FALSE
  <2>1. tmr.rec[t].exists /\ tmr' = rt_timer_start(tmr, t) /\ t \in Timers
    BY <1>4, TimerKinds DEF TimerStart
  <2>2. tmr'.stat = tmr.stat \/ tmr.status = "idle" BY <1>1, <1>2, <2>1, StartSound
  <2> QED BY <1>1, <2>2
<1>5. ASSUME NEW t \in AppTimer, TimerStopTest(t) PROVE FALSE BY <1>5 DEF TimerStopTest
<1>6. ASSUME NEW t \in AppTimer, TimerStopInIsr(t) PROVE FALSE
  <2>1. tmr' = Deactivate(tmr, t) /\ t \in Timers BY <1>6, TimerKinds DEF TimerStopInIsr
  <2>2. tmr'.stat = tmr.stat BY <1>2, <2>1, DeactivateTidy
  <2> QED BY <2>2
<1>7. ASSUME NEW f, tmr' = [tmr EXCEPT !.rec = f] PROVE FALSE
  BY <1>2, <1>7 DEF TimerState
<1>8. ASSUME NEW t \in AppTimer,
             \/ TimerSetOneshot(t) \/ TimerSetPeriodic(t)
             \/ \E n \in TimerTimes : TimerSetTime(t, n) \/ \E per \in BOOLEAN : TimerCreate(t, n, per)
      PROVE  FALSE
  <2>1. \E v : tmr' = [tmr EXCEPT !.rec[t] = v]
    <3>1. tmr \in TimerState /\ tmr.rec \in [Timers -> TimerRecord] /\ t \in Timers
      BY <1>2, StateFields, TimerKinds
    <3>2. ASSUME TimerSetOneshot(t) PROVE tmr' = [tmr EXCEPT !.rec[t] = [tmr.rec[t] EXCEPT !.periodic = FALSE]]
      BY <3>1, <3>2 DEF TimerSetOneshot, TimerState
    <3>3. ASSUME TimerSetPeriodic(t) PROVE tmr' = [tmr EXCEPT !.rec[t] = [tmr.rec[t] EXCEPT !.periodic = TRUE]]
      BY <3>1, <3>3 DEF TimerSetPeriodic, TimerState
    <3>4. ASSUME NEW n \in TimerTimes, TimerSetTime(t, n)
          PROVE  tmr' = [tmr EXCEPT !.rec[t] = [tmr.rec[t] EXCEPT !.init = n]]
      BY <3>1, <3>4 DEF TimerSetTime, TimerState
    <3>5. ASSUME NEW n \in TimerTimes, NEW per \in BOOLEAN, TimerCreate(t, n, per)
          PROVE  tmr' = [tmr EXCEPT !.rec[t] = [exists |-> TRUE, periodic |-> per,
                                                active |-> FALSE, init |-> n]]
      BY <3>5 DEF TimerCreate
    <3> QED BY <1>8, <3>2, <3>3, <3>4, <3>5
  <2>2. PICK v : tmr' = [tmr EXCEPT !.rec[t] = v] BY <2>1
  <2>3. tmr' = [tmr EXCEPT !.rec = [tmr.rec EXCEPT ![t] = v]] BY <1>2, <2>2 DEF TimerState
  <2> QED BY <1>7, <2>3
<1>9. ASSUME NEW t \in AppTimer, TimerDelete(t) PROVE FALSE
  <2>1. PICK q : q = Deactivate(tmr, t) OBVIOUS
  <2>2. tmr' = [q EXCEPT !.rec[t].exists = FALSE] /\ t \in Timers
    BY <1>9, <2>1, TimerKinds DEF TimerDelete
  <2>3. q.stat = tmr.stat /\ q \in TimerState BY <1>2, <2>1, <2>2, DeactivateTidy DEF Tidy
  <2>4. tmr'.stat = q.stat BY <2>2, <2>3 DEF TimerState
  <2> QED BY <2>3, <2>4
<1> QED BY <1>3, <1>4, <1>5, <1>6, <1>8, <1>9 DEF TimerUse

\* No operation of the application ends a wait inside the callback of a soft
\* timer: rt_timer_start resumes the timer thread only when it is idle.
THEOREM CallbackIsNotInterrupted == TimerSpec => CallbackWaits
<1>1. TimerInit => TimerInductive BY TimerInitInductive
<1>2. TimerInductive /\ [TimerNext]_timerVars => TimerInductive' BY TimerStepInductive
<1>3. ASSUME TimerInductive, [TimerNext]_timerVars
      PROVE  [tmr.stat = "suspend" /\ threadPc \in {"callback", "awake"} /\ tmr'.stat = "ready"
                => timerOps' = timerOps]_timerVars
  <2>1. CASE TimerUse BY <1>3, <2>1, UseLeavesCallback
  <2>2. CASE ~TimerUse
    BY <1>3, <2>2
    DEF TimerNext, timerVars, ClockTick, TickInterrupt, CheckTake, CheckReturn, CheckWakes,
        CheckEnds, TimerThread, NextTimeout, SuspendSelf, GetTick, DelaySelf, SoftTake,
        SoftReturn, SoftEnds, SoftWaits, SoftWoken
  <2> QED BY <2>1, <2>2
<1> QED BY <1>1, <1>2, <1>3, PTL DEF TimerSpec, CallbackWaits

-----------------------------------------------------------------------------
(* Time on a clock that wraps *)

\* The time from now to a deadline, as a signed number.
Left(at, now) ==
    LET d == TickMinus(at, now) IN IF d < HalfRange THEN d ELSE d - TickRange

Instant == 0..(TickRange - 1)

LEMMA ModNear ==
    /\ \A r \in Nat, x \in Int : r > 0 /\ 0 <= x /\ x < r => x % r = x
    /\ \A r \in Nat, x \in Int : r > 0 /\ r <= x /\ x < r + r => x % r = x - r
<1>1. ASSUME NEW r \in Nat, NEW x \in Int, r > 0, 0 <= x, x < r PROVE x % r = x BY <1>1
<1>2. ASSUME NEW r \in Nat, NEW x \in Int, r > 0, r <= x, x < r + r PROVE x % r = x - r BY <1>2
<1> QED BY <1>1, <1>2

LEMMA Halves ==
    /\ TickRange \in Nat /\ HalfRange \in Nat /\ HalfRange > 0
    /\ 2 * HalfRange < TickRange /\ TickRange <= 2 * HalfRange + 2
<1>1. TickRange \in Nat /\ TickRange > 4 BY TimerConstants
<1> QED BY <1>1 DEF HalfRange

LEMMA TickMinusValue ==
    ASSUME NEW m \in Instant, NEW n \in Instant
    PROVE  TickMinus(m, n) = IF n <= m THEN m - n ELSE m - n + TickRange
<1>1. TickRange \in Nat /\ TickRange > 0 BY TimerNumbers
<1>2. m \in Int /\ n \in Int /\ 0 <= m /\ m < TickRange /\ 0 <= n /\ n < TickRange
  BY <1>1 DEF Instant
<1>3. PICK x \in Int : x = m - n + TickRange BY <1>1, <1>2
<1>4. TickMinus(m, n) = x % TickRange BY <1>3 DEF TickMinus
<1>5. CASE n <= m
  <2>1. TickRange <= x /\ x < TickRange + TickRange BY <1>1, <1>2, <1>3, <1>5
  <2>2. x % TickRange = x - TickRange BY <1>1, <2>1, ModNear
  <2> QED BY <1>1, <1>2, <1>3, <1>4, <1>5, <2>2
<1>6. CASE ~(n <= m)
  <2>1. 0 <= x /\ x < TickRange BY <1>1, <1>2, <1>3, <1>6
  <2>2. x % TickRange = x BY <1>1, <2>1, ModNear
  <2> QED BY <1>3, <1>4, <1>6, <2>2
<1> QED BY <1>5, <1>6

\* What Left is, and that nothing else is.
LEMMA LeftValue ==
    ASSUME NEW at \in Instant, NEW now \in Instant
    PROVE  /\ Left(at, now) \in Int /\ HalfRange - TickRange <= Left(at, now)
           /\ Left(at, now) < HalfRange
           /\ at - now - Left(at, now) \in {0, TickRange, 0 - TickRange}
<1>1. /\ TickRange \in Nat /\ HalfRange \in Nat /\ HalfRange > 0 /\ 2 * HalfRange < TickRange BY Halves
<1>2. at \in Int /\ now \in Int /\ 0 <= at /\ at < TickRange /\ 0 <= now /\ now < TickRange
  BY <1>1 DEF Instant
<1>3. PICK d : d = TickMinus(at, now) OBVIOUS
<1>4. d = IF now <= at THEN at - now ELSE at - now + TickRange BY <1>3, TickMinusValue
<1>5. PICK l : l = Left(at, now) OBVIOUS
<1>6. l = IF d < HalfRange THEN d ELSE d - TickRange BY <1>3, <1>5 DEF Left
<1>7. d \in Int /\ 0 <= d /\ d < TickRange BY <1>1, <1>2, <1>4
<1>8. l \in Int /\ HalfRange - TickRange <= l /\ l < HalfRange BY <1>1, <1>6, <1>7
<1>9. at - now - l \in {0, TickRange, 0 - TickRange} BY <1>1, <1>2, <1>4, <1>6
<1> QED BY <1>5, <1>8, <1>9

LEMMA LeftIs ==
    ASSUME NEW at \in Instant, NEW now \in Instant, NEW z \in Int,
           HalfRange - TickRange <= z, z < HalfRange,
           at - now - z \in {0, TickRange, 0 - TickRange}
    PROVE  Left(at, now) = z
<1>1. /\ TickRange \in Nat /\ HalfRange \in Nat /\ HalfRange > 0 /\ 2 * HalfRange < TickRange BY Halves
<1>2. at \in Int /\ now \in Int BY <1>1 DEF Instant
<1>3. PICK l : l = Left(at, now) OBVIOUS
<1>4. l \in Int /\ HalfRange - TickRange <= l /\ l < HalfRange
      /\ at - now - l \in {0, TickRange, 0 - TickRange}
  BY <1>3, LeftValue
<1>5. l = z BY <1>1, <1>2, <1>4
<1> QED BY <1>3, <1>5

\* A timer that is started has its time left.
LEMMA LeftAtStart ==
    ASSUME NEW now \in Instant, NEW n \in Int, 0 <= n, n < HalfRange
    PROVE  (now + n) % TickRange \in Instant /\ Left((now + n) % TickRange, now) = n
<1>1. /\ TickRange \in Nat /\ HalfRange \in Nat /\ HalfRange > 0 /\ 2 * HalfRange < TickRange BY Halves
<1>2. now \in Int /\ 0 <= now /\ now < TickRange BY <1>1 DEF Instant
<1>3. PICK x \in Int : x = now + n BY <1>2
<1>4. PICK at : at = x % TickRange OBVIOUS
<1>5. at = IF x < TickRange THEN x ELSE x - TickRange
  <2>1. CASE x < TickRange BY <1>1, <1>2, <1>3, <1>4, <2>1, ModNear
  <2>2. CASE ~(x < TickRange)
    <3>1. TickRange <= x /\ x < TickRange + TickRange /\ TickRange > 0 BY <1>1, <1>2, <1>3, <2>2
    <3> QED BY <1>1, <1>4, <2>2, <3>1, ModNear
  <2> QED BY <2>1, <2>2
<1>6. at \in Int /\ 0 <= at /\ at <= TickRange - 1 BY <1>1, <1>2, <1>3, <1>5
<1>7. at \in Instant BY <1>1, <1>6 DEF Instant
<1>8. at - now - n \in {0, TickRange, 0 - TickRange} BY <1>1, <1>2, <1>3, <1>5
<1>9. HalfRange - TickRange <= n BY <1>1
<1>10. Left(at, now) = n BY <1>7, <1>8, <1>9, LeftIs
<1> QED BY <1>3, <1>4, <1>7, <1>10

\* A tick takes one from it, unless the deadline is half the range ago.
LEMMA LeftAfterTick ==
    ASSUME NEW now \in Instant, NEW at \in Instant, Left(at, now) > 0 - HalfRange
    PROVE  /\ (now + 1) % TickRange \in Instant
           /\ Left(at, (now + 1) % TickRange) = Left(at, now) - 1
<1>1. /\ TickRange \in Nat /\ HalfRange \in Nat /\ HalfRange > 0 /\ 2 * HalfRange < TickRange BY Halves
<1>2. now \in Int /\ 0 <= now /\ now < TickRange /\ at \in Int /\ 0 <= at /\ at < TickRange
  BY <1>1 DEF Instant
<1>3. PICK x \in Int : x = now + 1 BY <1>2
<1>4. PICK then : then = x % TickRange OBVIOUS
<1>5. then = IF x < TickRange THEN x ELSE x - TickRange
  <2>1. CASE x < TickRange BY <1>1, <1>2, <1>3, <1>4, <2>1, ModNear
  <2>2. CASE ~(x < TickRange)
    <3>1. TickRange <= x /\ x < TickRange + TickRange /\ TickRange > 0 BY <1>1, <1>2, <1>3, <2>2
    <3> QED BY <1>1, <1>4, <2>2, <3>1, ModNear
  <2> QED BY <2>1, <2>2
<1>6. then \in Int /\ 0 <= then /\ then <= TickRange - 1 BY <1>1, <1>2, <1>3, <1>5
<1>7. then \in Instant BY <1>1, <1>6 DEF Instant
<1>8. PICK l : l = Left(at, now) OBVIOUS
<1>9. l \in Int /\ l < HalfRange /\ at - now - l \in {0, TickRange, 0 - TickRange} /\ l > 0 - HalfRange
  BY <1>8, LeftValue
<1>10. PICK z \in Int : z = l - 1 BY <1>9
<1>11. HalfRange - TickRange <= z /\ z < HalfRange BY <1>1, <1>9, <1>10
<1>12. at - then - z \in {0, TickRange, 0 - TickRange}
  BY <1>1, <1>2, <1>3, <1>5, <1>9, <1>10
<1>13. Left(at, then) = z BY <1>7, <1>11, <1>12, LeftIs
<1> QED BY <1>3, <1>4, <1>7, <1>8, <1>10, <1>13

\* rt_timer_check and the timer thread tell by a difference whether time is up.
LEMMA LeftDue ==
    ASSUME NEW now \in Instant, NEW at \in Instant
    PROVE  /\ Left(at, now) > 0 - HalfRange =>
                 (TickMinus(now, at) < HalfRange <=> Left(at, now) <= 0)
           /\ Left(at, now) > 0 - HalfRange /\ Left(at, now) <= 0 =>
                 TickMinus(now, at) = 0 - Left(at, now)
           /\ TickMinus(at, now) < HalfRange => Left(at, now) = TickMinus(at, now)
<1>1. /\ TickRange \in Nat /\ HalfRange \in Nat /\ HalfRange > 0 /\ 2 * HalfRange < TickRange BY Halves
<1>2. now \in Int /\ 0 <= now /\ now < TickRange /\ at \in Int /\ 0 <= at /\ at < TickRange
  BY <1>1 DEF Instant
<1>3. PICK l : l = Left(at, now) OBVIOUS
<1>4. l \in Int /\ l < HalfRange /\ HalfRange - TickRange <= l
      /\ at - now - l \in {0, TickRange, 0 - TickRange}
  BY <1>3, LeftValue
<1>5. PICK d : d = TickMinus(now, at) OBVIOUS
<1>6. d = IF at <= now THEN now - at ELSE now - at + TickRange BY <1>5, TickMinusValue
<1>7. l > 0 - HalfRange => (d < HalfRange <=> l <= 0) BY <1>1, <1>2, <1>4, <1>6
<1>8. l > 0 - HalfRange /\ l <= 0 => d = 0 - l BY <1>1, <1>2, <1>4, <1>6
<1>9. TickMinus(at, now) < HalfRange => l = TickMinus(at, now) BY <1>3 DEF Left
<1> QED BY <1>3, <1>5, <1>7, <1>8, <1>9

\* rt_timer_start compares deadlines by a difference.
LEMMA LeftLater ==
    ASSUME NEW now \in Instant, NEW a \in Instant, NEW b \in Instant,
           Left(a, now) - Left(b, now) < HalfRange, Left(b, now) - Left(a, now) <= HalfRange
    PROVE  TickMinus(a, b) \in 1..(HalfRange - 1) <=> Left(a, now) > Left(b, now)
<1>1. /\ TickRange \in Nat /\ HalfRange \in Nat /\ HalfRange > 0 /\ 2 * HalfRange < TickRange BY Halves
<1>2. now \in Int /\ 0 <= now /\ now < TickRange /\ a \in Int /\ 0 <= a /\ a < TickRange
      /\ b \in Int /\ 0 <= b /\ b < TickRange
  BY <1>1 DEF Instant
<1>3. PICK l, m : l = Left(a, now) /\ m = Left(b, now) OBVIOUS
<1>4. l \in Int /\ a - now - l \in {0, TickRange, 0 - TickRange} BY <1>3, LeftValue
<1>5. m \in Int /\ b - now - m \in {0, TickRange, 0 - TickRange} BY <1>3, LeftValue
<1>6. l - m < HalfRange /\ m - l <= HalfRange BY <1>3
<1>7. PICK d : d = TickMinus(a, b) OBVIOUS
<1>8. d = IF b <= a THEN a - b ELSE a - b + TickRange BY <1>7, TickMinusValue
<1>9. d \in Int /\ (1 <= d /\ d <= HalfRange - 1 <=> l > m)
  <2>1. d \in Int /\ 0 <= d /\ d < TickRange BY <1>1, <1>2, <1>8
  <2>2. d - (l - m) \in {0, TickRange, 0 - TickRange, 2 * TickRange, 0 - 2 * TickRange,
                         3 * TickRange, 0 - 3 * TickRange}
    BY <1>1, <1>2, <1>4, <1>5, <1>8
  <2>3. d = l - m \/ d = l - m + TickRange BY <1>1, <1>4, <1>5, <1>6, <2>1, <2>2
  <2> QED BY <1>1, <1>4, <1>5, <1>6, <2>1, <2>3
<1> QED BY <1>1, <1>3, <1>7, <1>9

-----------------------------------------------------------------------------
(* Lists in the order of their deadlines *)

Earlier(order, t, u) ==
    \A i, j \in 1 .. Len(order) : order[i] = t /\ order[j] = u => i < j

\* By deadline, and by start among timers with the same deadline.
Before(d, e, order, now) ==
    /\ Left(d.at, now) <= Left(e.at, now)
    /\ Left(d.at, now) = Left(e.at, now) => Earlier(order, d.timer, e.timer)

InOrder(list, order, now) ==
    \A i, j \in 1 .. Len(list) : i < j => Before(list[i], list[j], order, now)

LEMMA InRange ==
    ASSUME NEW list \in Seq(TimerEntry)
    PROVE  /\ \A e : e \in Range(list) <=> \E i \in 1 .. Len(list) : list[i] = e
           /\ Range(list) \subseteq TimerEntry
           /\ \A t : t \in TimersIn(list) <=> \E e \in Range(list) : e.timer = t
<1>1. DOMAIN list = 1 .. Len(list) /\ \A i \in 1 .. Len(list) : list[i] \in TimerEntry OBVIOUS
<1>2. \A e : e \in Range(list) <=> \E i \in 1 .. Len(list) : list[i] = e BY <1>1 DEF Range
<1> QED BY <1>1, <1>2, InTimersIn

LEMMA UnlinkOrder ==
    ASSUME NEW list \in Seq(TimerEntry), EachOnce(list), NEW t
    PROVE  /\ Range(Unlinked(list, t)) = {e \in Range(list) : e.timer # t}
           /\ \A order, now : InOrder(list, order, now) => InOrder(Unlinked(list, t), order, now)
<1>1. CASE t \notin TimersIn(list)
  <2>1. Unlinked(list, t) = list BY <1>1, UnlinkAbsent
  <2>2. {e \in Range(list) : e.timer # t} = Range(list) BY <1>1, InRange
  <2> QED BY <2>1, <2>2
<1>2. CASE t \in TimersIn(list)
  <2>1. PICK j \in 1 .. Len(list) : list[j].timer = t BY <1>2, InTimersIn
  <2>2. PICK r : r = Unlinked(list, t) OBVIOUS
  <2>3. /\ r \in Seq(TimerEntry) /\ Len(r) = Len(list) - 1
        /\ \A i \in 1 .. Len(list) - 1 : r[i] = IF i < j THEN list[i] ELSE list[i + 1]
    BY <2>1, <2>2, UnlinkPositions
  <2>4. Len(list) \in Nat /\ j \in Nat /\ 1 <= j /\ j <= Len(list) OBVIOUS
  <2>5. \A i, l \in 1 .. Len(list) : list[i].timer = list[l].timer => i = l BY InTimersIn
  <2>6. \A i \in 1 .. Len(r) : \E l \in 1 .. Len(list) :
            r[i] = list[l] /\ l = IF i < j THEN i ELSE i + 1
    BY <2>3, <2>4
  <2>7. ASSUME NEW order, NEW now, InOrder(list, order, now) PROVE InOrder(r, order, now)
    <3>1. SUFFICES ASSUME NEW i \in 1 .. Len(r), NEW m \in 1 .. Len(r), i < m
                   PROVE  Before(r[i], r[m], order, now)
      BY DEF InOrder
    <3>2. PICK l \in 1 .. Len(list) : r[i] = list[l] /\ l = IF i < j THEN i ELSE i + 1 BY <2>6
    <3>3. PICK q \in 1 .. Len(list) : r[m] = list[q] /\ q = IF m < j THEN m ELSE m + 1 BY <2>6
    <3>4. l < q
      <4>1. i \in Int /\ m \in Int BY <2>3
      <4> QED BY <2>4, <3>1, <3>2, <3>3, <4>1
    <3>5. Before(list[l], list[q], order, now) BY <2>7, <3>4 DEF InOrder
    <3> QED BY <3>2, <3>3, <3>5
  <2>8. ASSUME NEW e PROVE e \in Range(r) <=> e \in Range(list) /\ e.timer # t
    <3>1. ASSUME e \in Range(r) PROVE e \in Range(list) /\ e.timer # t
      <4>1. PICK i \in 1 .. Len(r) : r[i] = e BY <2>3, <3>1, InRange
      <4>2. PICK l \in 1 .. Len(list) : r[i] = list[l] /\ l = IF i < j THEN i ELSE i + 1 BY <2>6
      <4>3. l # j
        <5>1. i \in Int BY <2>3
        <5> QED BY <2>4, <4>2, <5>1
      <4>4. e.timer # t BY <2>1, <2>5, <4>1, <4>2, <4>3
      <4> QED BY <4>1, <4>2, <4>4, InRange
    <3>2. ASSUME e \in Range(list), e.timer # t PROVE e \in Range(r)
      <4>1. PICK l \in 1 .. Len(list) : list[l] = e BY <3>2, InRange
      <4>2. l # j BY <2>1, <3>2, <4>1
      <4>3. CASE l < j
        <5>1. l \in 1 .. Len(list) - 1 BY <2>4, <4>3
        <5> QED BY <2>3, <4>1, <4>3, <5>1, InRange
      <4>4. CASE ~(l < j)
        <5>1. l - 1 \in 1 .. Len(list) - 1 /\ ~(l - 1 < j) /\ (l - 1) + 1 = l BY <2>4, <4>2, <4>4
        <5>2. r[l - 1] = e BY <2>3, <4>1, <5>1
        <5> QED BY <2>3, <5>1, <5>2, InRange
      <4> QED BY <4>3, <4>4
    <3> QED BY <3>1, <3>2
  <2>9. Range(r) = {e \in Range(list) : e.timer # t} BY <2>8
  <2> QED BY <2>2, <2>7, <2>9
<1> QED BY <1>1, <1>2

\* The new entry goes before the first one with a later deadline.
LEMMA InsertPlace ==
    ASSUME NEW list \in Seq(TimerEntry), NEW e \in TimerEntry
    PROVE  LET r == InsertEntry(list, e)
               Later(i) == TickMinus(list[i].at, e.at) \in 1..(HalfRange - 1)
           IN  /\ r \in Seq(TimerEntry) /\ Len(r) = Len(list) + 1
               /\ \E n \in 1 .. Len(list) + 1 :
                    /\ \A x \in 1 .. Len(list) + 1 :
                         r[x] = IF x < n THEN list[x] ELSE IF x = n THEN e ELSE list[x - 1]
                    /\ \A x \in 1 .. Len(list) : x < n => ~Later(x)
                    /\ n <= Len(list) => Later(n)
<1> DEFINE Later == {i \in DOMAIN list : TickMinus(list[i].at, e.at) \in 1..(HalfRange - 1)}
<1>1. DOMAIN list = 1 .. Len(list) /\ Len(list) \in Nat OBVIOUS
<1>2. PICK n : n = IF Later = {} THEN Len(list) + 1 ELSE Min(Later) OBVIOUS
<1>3. Later \in SUBSET Nat /\ Later \subseteq 1 .. Len(list)
      /\ \A x \in 1 .. Len(list) :
            x \in Later <=> TickMinus(list[x].at, e.at) \in 1..(HalfRange - 1)
  BY <1>1
<1>4. PICK r : r = InsertEntry(list, e) OBVIOUS
<1>5. r = InsertAt(list, n, e) BY <1>2, <1>4 DEF InsertEntry
<1> HIDE DEF Later
<1>6. n \in Int /\ 1 <= n /\ n <= Len(list) + 1 /\ (n <= Len(list) => n \in Later)
      /\ \A x \in Later : ~(x < n)
  <2>1. CASE Later = {} BY <1>1, <1>2, <2>1
  <2>2. CASE Later # {}
    <3>1. Min(Later) \in Later /\ \A x \in Later : Min(Later) <= x BY <1>3, <2>2, MinNat
    <3>2. n \in Later /\ \A x \in Later : n <= x BY <1>2, <2>2, <3>1
    <3>3. \A x \in Later : x \in Int BY <1>3
    <3>4. n \in 1 .. Len(list) BY <1>3, <3>2
    <3> QED BY <1>1, <3>2, <3>3, <3>4
  <2> QED BY <2>1, <2>2
<1>7. /\ r \in Seq(TimerEntry) /\ Len(r) = Len(list) + 1
      /\ \A x \in 1 .. Len(list) + 1 :
            r[x] = IF x < n THEN list[x] ELSE IF x = n THEN e ELSE list[x - 1]
  <2>1. InsertAt(list, n, e) \in Seq(TimerEntry) /\ PutIn(InsertAt(list, n, e), list, n, e)
    BY <1>6, InsertAtFacts
  <2> QED BY <1>5, <2>1 DEF PutIn
<1>8. n \in 1 .. Len(list) + 1 BY <1>1, <1>6
<1>9. \A x \in 1 .. Len(list) : x < n => x \notin Later BY <1>6
<1>10. n <= Len(list) => n \in 1 .. Len(list) /\ n \in Later BY <1>1, <1>6
<1> QED BY <1>3, <1>4, <1>7, <1>8, <1>9, <1>10

LEMMA InsertOrder ==
    ASSUME NEW list \in Seq(TimerEntry), NEW e \in TimerEntry, NEW order, NEW now \in Instant,
           InOrder(list, order, now),
           \A d \in Range(list) : /\ Left(d.at, now) - Left(e.at, now) < HalfRange
                                  /\ Left(e.at, now) - Left(d.at, now) <= HalfRange
                                  /\ Earlier(order, d.timer, e.timer)
    PROVE  /\ InOrder(InsertEntry(list, e), order, now)
           /\ Range(InsertEntry(list, e)) = Range(list) \cup {e}
<1>1. PICK r : r = InsertEntry(list, e) OBVIOUS
<1>2. r \in Seq(TimerEntry) /\ Len(r) = Len(list) + 1 BY <1>1, InsertPlace
<1>3. PICK n \in 1 .. Len(list) + 1 :
        /\ \A x \in 1 .. Len(list) + 1 :
             r[x] = IF x < n THEN list[x] ELSE IF x = n THEN e ELSE list[x - 1]
        /\ \A x \in 1 .. Len(list) : x < n => TickMinus(list[x].at, e.at) \notin 1..(HalfRange - 1)
        /\ n <= Len(list) => TickMinus(list[n].at, e.at) \in 1..(HalfRange - 1)
  BY <1>1, InsertPlace
<1>4. Len(list) \in Nat /\ n \in Int /\ 1 <= n /\ n <= Len(list) + 1 OBVIOUS
<1>5. e.at \in Instant /\ \A x \in 1 .. Len(list) : list[x] \in Range(list) /\ list[x].at \in Instant
  BY InRange, EntryType DEF Instant
<1>6. \A x \in 1 .. Len(list) :
        TickMinus(list[x].at, e.at) \in 1..(HalfRange - 1) <=> Left(list[x].at, now) > Left(e.at, now)
  BY <1>5, LeftLater
<1>7. Left(e.at, now) \in Int /\ \A x \in 1 .. Len(list) : Left(list[x].at, now) \in Int
  BY <1>5, LeftValue
<1>8. \A x \in 1 .. Len(r) :
         \/ x = n /\ r[x] = e
         \/ x < n /\ x \in 1 .. Len(list) /\ r[x] = list[x]
         \/ x > n /\ x - 1 \in 1 .. Len(list) /\ r[x] = list[x - 1]
  BY <1>2, <1>3, <1>4
<1>9. \A x \in 1 .. Len(list) : x < n => Before(list[x], e, order, now)
  BY <1>3, <1>5, <1>6, <1>7 DEF Before
<1>10. \A x \in 1 .. Len(list) : x >= n => Left(list[x].at, now) > Left(e.at, now)
  <2> SUFFICES ASSUME NEW x \in 1 .. Len(list), x >= n
               PROVE  Left(list[x].at, now) > Left(e.at, now)
    OBVIOUS
  <2>1. n \in 1 .. Len(list) /\ n <= Len(list) BY <1>4
  <2>2. Left(list[n].at, now) > Left(e.at, now) BY <1>3, <1>6, <2>1
  <2>3. CASE x = n BY <2>2, <2>3
  <2>4. CASE x # n
    <3>1. n < x BY <1>4, <2>4
    <3>2. Left(list[n].at, now) <= Left(list[x].at, now) BY <2>1, <3>1 DEF InOrder, Before
    <3> QED BY <1>7, <2>1, <2>2, <3>2
  <2> QED BY <2>3, <2>4
<1>11. ASSUME NEW x \in 1 .. Len(r), NEW y \in 1 .. Len(r), x < y
       PROVE  Before(r[x], r[y], order, now)
  <2>0. x \in Int /\ y \in Int BY <1>2
  <2>1. CASE y < n
    <3>1. /\ x \in 1 .. Len(list) /\ r[x] = list[x] /\ y \in 1 .. Len(list) /\ r[y] = list[y]
      BY <1>4, <1>8, <1>11, <2>0, <2>1
    <3> QED BY <1>11, <3>1 DEF InOrder
  <2>2. CASE y = n
    <3>1. x < n /\ x \in 1 .. Len(list) /\ r[x] = list[x] /\ r[y] = e
      BY <1>4, <1>8, <1>11, <2>0, <2>2
    <3> QED BY <1>9, <3>1
  <2>3. CASE y > n
    <3>1. y - 1 \in 1 .. Len(list) /\ r[y] = list[y - 1] BY <1>4, <1>8, <2>0, <2>3
    <3>2. CASE x < n
      <4>1. x \in 1 .. Len(list) /\ r[x] = list[x] /\ x < y - 1 BY <1>4, <1>8, <2>0, <2>3, <3>2
      <4> QED BY <3>1, <4>1 DEF InOrder
    <3>3. CASE x = n
      <4>1. r[x] = e /\ y - 1 >= n BY <1>4, <1>8, <2>0, <2>3, <3>3
      <4>2. Left(list[y - 1].at, now) > Left(e.at, now) BY <1>10, <3>1, <4>1
      <4>3. Before(e, list[y - 1], order, now) BY <1>7, <3>1, <4>2 DEF Before
      <4> QED BY <3>1, <4>1, <4>3
    <3>4. CASE x > n
      <4>1. x - 1 \in 1 .. Len(list) /\ r[x] = list[x - 1] /\ x - 1 < y - 1
        BY <1>4, <1>8, <1>11, <2>0, <3>4
      <4> QED BY <3>1, <4>1 DEF InOrder
    <3> QED BY <1>4, <2>0, <3>2, <3>3, <3>4
  <2> QED BY <1>4, <2>0, <2>1, <2>2, <2>3
<1>12. ASSUME NEW d PROVE d \in Range(r) <=> d \in Range(list) \/ d = e
  <2>1. ASSUME d \in Range(r) PROVE d \in Range(list) \/ d = e
    <3>1. PICK x \in 1 .. Len(r) : r[x] = d BY <1>2, <2>1, InRange
    <3>2. r[x] = e \/ \E p \in 1 .. Len(list) : r[x] = list[p] BY <1>8
    <3> QED BY <1>5, <3>1, <3>2
  <2>2. ASSUME d = e PROVE d \in Range(r)
    <3>1. n \in 1 .. Len(r) /\ r[n] = e BY <1>2, <1>3, <1>4
    <3> QED BY <1>2, <2>2, <3>1, InRange
  <2>3. ASSUME d \in Range(list) PROVE d \in Range(r)
    <3>1. PICK p \in 1 .. Len(list) : list[p] = d BY <2>3, InRange
    <3>2. CASE p < n
      <4>1. p \in 1 .. Len(r) /\ r[p] = list[p] BY <1>2, <1>3, <1>4, <3>2
      <4> QED BY <1>2, <3>1, <4>1, InRange
    <3>3. CASE ~(p < n)
      <4>1. p + 1 \in 1 .. Len(list) + 1 /\ ~(p + 1 < n) /\ p + 1 # n /\ (p + 1) - 1 = p
        BY <1>4, <3>3
      <4>2. p + 1 \in 1 .. Len(r) /\ r[p + 1] = list[p] BY <1>2, <1>3, <4>1
      <4> QED BY <1>2, <3>1, <4>2, InRange
    <3> QED BY <3>2, <3>3
  <2> QED BY <2>1, <2>2, <2>3
<1>13. InOrder(r, order, now) BY <1>11 DEF InOrder
<1>14. Range(r) = Range(list) \cup {e} BY <1>12
<1> QED BY <1>1, <1>13, <1>14

-----------------------------------------------------------------------------
(* The order in which timers were started *)

OrderOK(order) == order \in Seq(AppTimer) /\ IsInjective(order)

\* o is the order without t; o is the order with t at its end.
OrderOff(order, o, t) ==
    /\ OrderOK(o) /\ Range(o) = Range(order) \ {t}
    /\ \A u, v : Earlier(order, u, v) => Earlier(o, u, v)

OrderOn(order, o, t) ==
    /\ OrderOK(o) /\ Range(o) = (Range(order) \cup {t}) \ {ThreadTimer}
    /\ \A u, v : u # t /\ v # t /\ Earlier(order, u, v) => Earlier(o, u, v)
    /\ \A u : u # t => Earlier(o, u, t)

LEMMA InOrderRange ==
    ASSUME NEW order, OrderOK(order)
    PROVE  /\ \A t : t \in Range(order) <=> \E i \in 1 .. Len(order) : order[i] = t
           /\ Range(order) = ToSet(order) /\ Range(order) \subseteq AppTimer
<1>1. order \in Seq(AppTimer) BY DEF OrderOK
<1>2. DOMAIN order = 1 .. Len(order) /\ \A i \in 1 .. Len(order) : order[i] \in AppTimer BY <1>1
<1> QED BY <1>2 DEF Range, ToSet

LEMMA RemovedOrder ==
    ASSUME NEW order, OrderOK(order), NEW t
    PROVE  OrderOff(order, RemoveFirst(order, t), t)
<1>1. order \in Seq(AppTimer) /\ IsInjective(order) BY DEF OrderOK
<1>2. PICK r : r = RemoveFirst(order, t) OBVIOUS
<1>3. r \in Seq(AppTimer) /\ IsInjective(r) /\ ToSet(r) = ToSet(order) \ {t}
  BY <1>1, <1>2, RemoveFirstFacts
<1>4. OrderOK(r) BY <1>3 DEF OrderOK
<1>5. Range(r) = Range(order) \ {t} BY <1>3, <1>4, InOrderRange
<1>6. ASSUME NEW u, NEW v, Earlier(order, u, v) PROVE Earlier(r, u, v)
  <2> SUFFICES ASSUME NEW i \in 1 .. Len(r), NEW j \in 1 .. Len(r), r[i] = u, r[j] = v, ~(i < j)
               PROVE  FALSE
    BY DEF Earlier
  <2>1. i \in Int /\ j \in Int BY <1>3
  <2>2. CASE j < i
    <3>1. InTurn(order, r[j], r[i]) BY <1>1, <1>2, <2>2, RemoveKeepsTurn
    <3>2. PICK p, q \in 1 .. Len(order) : p < q /\ order[p] = v /\ order[q] = u
      BY <3>1 DEF InTurn
    <3>3. q < p BY <1>6, <3>2 DEF Earlier
    <3>4. p \in Int /\ q \in Int BY <1>1
    <3> QED BY <3>2, <3>3, <3>4
  <2>3. CASE i = j
    <3>1. u \in Range(r) BY <1>4, InOrderRange
    <3>2. PICK p \in 1 .. Len(order) : order[p] = u BY <1>5, <3>1, InOrderRange
    <3>3. p < p BY <1>6, <2>3, <3>2 DEF Earlier
    <3>4. p \in Int BY <1>1
    <3> QED BY <3>3, <3>4
  <2> QED BY <2>1, <2>2, <2>3
<1> QED BY <1>2, <1>4, <1>5, <1>6 DEF OrderOff

LEMMA RestartedOrder ==
    ASSUME NEW order, OrderOK(order), NEW t \in AppTimer
    PROVE  OrderOn(order, Append(RemoveFirst(order, t), t), t)
<1>1. PICK s : s = RemoveFirst(order, t) OBVIOUS
<1>2. OrderOff(order, s, t) BY <1>1, RemovedOrder
<1>3. OrderOK(s) /\ s \in Seq(AppTimer) /\ IsInjective(s) /\ Range(s) = Range(order) \ {t}
  BY <1>2 DEF OrderOff, OrderOK
<1>4. t \notin ToSet(s) BY <1>3, InOrderRange
<1>5. PICK r : r = Append(s, t) OBVIOUS
<1>6. r \in Seq(AppTimer) /\ IsInjective(r) /\ ToSet(r) = ToSet(s) \cup {t}
  BY <1>3, <1>4, <1>5, AppendFacts
<1>7. OrderOK(r) BY <1>6 DEF OrderOK
<1>8. Range(r) = Range(order) \cup {t} /\ ThreadTimer \notin Range(r)
  BY <1>3, <1>6, <1>7, InOrderRange, TimerKinds
<1>9. Len(r) = Len(s) + 1 /\ Len(s) \in Nat /\ r[Len(s) + 1] = t
      /\ \A i \in 1 .. Len(s) : r[i] = s[i] /\ s[i] # t
  <2>1. \A i \in 1 .. Len(s) : s[i] # t BY <1>3, <1>4, InToSet
  <2> QED BY <1>3, <1>5, <2>1
<1>10. \A i \in 1 .. Len(r) : i = Len(s) + 1 \/ i \in 1 .. Len(s) BY <1>9
<1>11. ASSUME NEW u, NEW v, u # t, v # t, Earlier(order, u, v) PROVE Earlier(r, u, v)
  <2>1. Earlier(s, u, v) BY <1>2, <1>11 DEF OrderOff
  <2> SUFFICES ASSUME NEW i \in 1 .. Len(r), NEW j \in 1 .. Len(r), r[i] = u, r[j] = v
               PROVE  i < j
    BY DEF Earlier
  <2>2. i \in 1 .. Len(s) /\ j \in 1 .. Len(s) BY <1>9, <1>10, <1>11
  <2>3. s[i] = u /\ s[j] = v BY <1>9, <2>2
  <2> QED BY <2>1, <2>2, <2>3 DEF Earlier
<1>12. ASSUME NEW u, u # t PROVE Earlier(r, u, t)
  <2> SUFFICES ASSUME NEW i \in 1 .. Len(r), NEW j \in 1 .. Len(r), r[i] = u, r[j] = t
               PROVE  i < j
    BY DEF Earlier
  <2>1. i \in 1 .. Len(s) BY <1>9, <1>10, <1>12
  <2>2. j = Len(s) + 1 BY <1>9, <1>10
  <2> QED BY <1>9, <2>1, <2>2
<1>13. OrderOn(order, r, t) BY <1>7, <1>8, <1>11, <1>12 DEF OrderOn
<1> QED BY <1>1, <1>5, <1>13

\* The timer thread's own timer is not in the order.
LEMMA OwnOrder ==
    ASSUME NEW order, OrderOK(order)
    PROVE  OrderOff(order, order, ThreadTimer) /\ OrderOn(order, order, ThreadTimer)
<1>1. ThreadTimer \notin Range(order) BY InOrderRange, TimerKinds
<1>2. \A u : Earlier(order, u, ThreadTimer) BY <1>1, InOrderRange DEF Earlier
<1> QED BY <1>1, <1>2 DEF OrderOff, OrderOn

-----------------------------------------------------------------------------
(* What the operations do to the lists *)

Between(list, lo, hi, now) ==
    \A e \in Range(list) : lo <= Left(e.at, now) /\ Left(e.at, now) <= hi

\* A bound on the times, and by how much the call of a soft timer may be late.
Reach == (HalfRange - SoftGrace - 1) \div 2
Late == SoftGrace + Reach + 1

Ordered(x, order, now, low) ==
    /\ OrderOK(order) /\ Range(order) = Listed(x) \ {ThreadTimer}
    /\ InOrder(x.hard, order, now) /\ InOrder(x.soft, order, now)
    /\ Between(x.hard, low, HalfRange - 1, now) /\ Between(x.soft, 0 - Late, Reach, now)
    /\ \A t \in AppTimer : x.rec[t].init \in TimerTimes

SameTimes(x, r) == \A u \in Timers : r.rec[u].init = x.rec[u].init

Cut(x, r, t) ==
    /\ r.hard = Unlinked(x.hard, t) /\ r.soft = Unlinked(x.soft, t)
    /\ SameTimes(x, r)

NewEntry(x, t, now) == [timer |-> t, at |-> (now + x.rec[t].init) % TickRange]

Joined(x, r, t, now) ==
    /\ r.hard = IF t \in SoftTimer THEN Unlinked(x.hard, t)
                ELSE InsertEntry(Unlinked(x.hard, t), NewEntry(x, t, now))
    /\ r.soft = IF t \in SoftTimer THEN InsertEntry(Unlinked(x.soft, t), NewEntry(x, t, now))
                ELSE Unlinked(x.soft, t)
    /\ SameTimes(x, r)

LEMMA Spans ==
    ASSUME Timely
    PROVE  /\ Reach \in Nat /\ Late \in Nat /\ SoftGrace \in Nat /\ HalfRange \in Nat
           /\ Late = SoftGrace + Reach + 1 /\ Late + Reach <= HalfRange /\ Late < HalfRange
           /\ \A n \in TimerTimes : n \in Nat /\ n <= Reach /\ n < HalfRange
<1>1. SoftGrace \in Nat /\ HalfRange \in Nat /\ SoftGrace + 1 < HalfRange
      /\ \A n \in TimerTimes : SoftGrace + 2 * n < HalfRange
  BY TimerConstants, Halves DEF Timely
<1>2. PICK a \in Nat : a = HalfRange - SoftGrace - 1 BY <1>1
<1>3. PICK b \in Nat : b = a \div 2 BY <1>2
<1>4. 2 * b <= a /\ a <= 2 * b + 1 BY <1>2, <1>3
<1>5. Reach = b BY <1>2, <1>3 DEF Reach
<1>6. Late = SoftGrace + b + 1 BY <1>5 DEF Late
<1>7. \A n \in TimerTimes : n \in Nat /\ n < HalfRange
  <2>1. TimerTimes \subseteq 0..(HalfRange - 1) BY TimerConstants
  <2> QED BY <1>1, <2>1
<1>8. \A n \in TimerTimes : n <= b BY <1>1, <1>2, <1>4, <1>7
<1> QED BY <1>1, <1>2, <1>4, <1>5, <1>6, <1>7, <1>8

LEMMA RemoveLists ==
    ASSUME NEW x \in TimerState, NEW t
    PROVE  LET r == _timer_remove(x, t)
           IN  /\ r.hard = Unlinked(x.hard, t) /\ r.soft = Unlinked(x.soft, t)
               /\ r.rec = x.rec
  BY DEF _timer_remove, TimerState

LEMMA DeactivateLists ==
    ASSUME NEW x, Tidy(x), NEW t \in Timers
    PROVE  Cut(x, Deactivate(x, t), t)
<1> DEFINE q == _timer_remove(x, t)
           r == Deactivate(x, t)
<1>1. x \in TimerState BY DEF Tidy
<1>2. q \in TimerState /\ q.hard = Unlinked(x.hard, t) /\ q.soft = Unlinked(x.soft, t)
      /\ q.rec = x.rec
  BY <1>1, RemoveLists, RemoveTidy DEF Tidy
<1>3. r = [q EXCEPT !.rec[t].active = FALSE] BY DEF Deactivate
<1> HIDE DEF q, r
<1>4. q.rec \in [Timers -> TimerRecord] BY <1>2, StateFields
<1>5. r = [q EXCEPT !.rec = [q.rec EXCEPT ![t] = [q.rec[t] EXCEPT !.active = FALSE]]]
  BY <1>2, <1>3, <1>4
<1>6. r.hard = q.hard /\ r.soft = q.soft
      /\ r.rec = [q.rec EXCEPT ![t] = [q.rec[t] EXCEPT !.active = FALSE]]
  BY <1>2, <1>5 DEF TimerState
<1>7. \A u \in Timers : r.rec[u].init = q.rec[u].init BY <1>4, <1>6 DEF TimerRecord
<1> QED BY <1>2, <1>6, <1>7 DEF Cut, SameTimes, r

LEMMA LinkLists ==
    ASSUME NEW x, Tidy(x), NEW t \in Timers
    PROVE  Joined(x, LinkTimer(x, t), t, tick)
<1> DEFINE q == _timer_remove(x, t)
           e == NewEntry(x, t, tick)
           r == LinkTimer(x, t)
<1>1. x \in TimerState BY DEF Tidy
<1>2. q \in TimerState /\ q.hard = Unlinked(x.hard, t) /\ q.soft = Unlinked(x.soft, t)
      /\ q.rec = x.rec
  BY <1>1, RemoveLists, RemoveTidy DEF Tidy
<1>3. r = IF t \in SoftTimer
          THEN [q EXCEPT !.soft = InsertEntry(q.soft, e), !.rec[t].active = TRUE]
          ELSE [q EXCEPT !.hard = InsertEntry(q.hard, e), !.rec[t].active = TRUE]
  BY DEF LinkTimer, NewEntry
<1> HIDE DEF q, r, e
<1>4. q.rec \in [Timers -> TimerRecord] BY <1>2, StateFields
<1> DEFINE f == [q.rec EXCEPT ![t] = [q.rec[t] EXCEPT !.active = TRUE]]
<1>5. \A u \in Timers : f[u].init = q.rec[u].init BY <1>4 DEF TimerRecord
<1>6. r = IF t \in SoftTimer THEN [q EXCEPT !.soft = InsertEntry(q.soft, e), !.rec = f]
          ELSE [q EXCEPT !.hard = InsertEntry(q.hard, e), !.rec = f]
  BY <1>3, <1>4
<1> HIDE DEF f
<1>7. CASE t \in SoftTimer
  <2>1. r = [q EXCEPT !.soft = InsertEntry(q.soft, e), !.rec = f] BY <1>6, <1>7
  <2>2. r.hard = q.hard /\ r.soft = InsertEntry(q.soft, e) /\ r.rec = f
    BY <1>2, <2>1 DEF TimerState
  <2> QED BY <1>2, <1>5, <1>7, <2>2 DEF Joined, SameTimes, r, e
<1>8. CASE t \notin SoftTimer
  <2>1. r = [q EXCEPT !.hard = InsertEntry(q.hard, e), !.rec = f] BY <1>6, <1>8
  <2>2. r.soft = q.soft /\ r.hard = InsertEntry(q.hard, e) /\ r.rec = f
    BY <1>2, <2>1 DEF TimerState
  <2> QED BY <1>2, <1>5, <1>8, <2>2 DEF Joined, SameTimes, r, e
<1> QED BY <1>7, <1>8

LEMMA TakeLists ==
    ASSUME NEW x, Tidy(x), NEW t \in Timers, NEW c \in BOOLEAN, c <=> t \in SoftTimer
    PROVE  Cut(x, TakeTimer(x, t), t)
<1> DEFINE q == _timer_remove(x, t)
           b == x.rec[t].active /\ x.rec[t].periodic
           f == [x.rec EXCEPT ![t] = [x.rec[t] EXCEPT !.active = b]]
           r == TakeTimer(x, t)
<1>1. x \in TimerState BY DEF Tidy
<1>2. q \in TimerState /\ q.hard = Unlinked(x.hard, t) /\ q.soft = Unlinked(x.soft, t)
      /\ q.rec = x.rec
  BY <1>1, RemoveLists, RemoveTidy DEF Tidy
<1>3. x.rec \in [Timers -> TimerRecord] BY <1>1, StateFields
<1>4. r = [q EXCEPT !.rec = f, !.local = [q.local EXCEPT ![c] = {t}],
                    !.cur = [q.cur EXCEPT ![c] = t]]
  <2>1. r = [q EXCEPT !.rec[t].active = @ /\ x.rec[t].periodic,
                      !.local[t \in SoftTimer] = {t}, !.cur[(t \in SoftTimer)] = t]
    BY DEF TakeTimer
  <2> HIDE DEF q, r
  <2>3. c = (t \in SoftTimer) /\ q.rec[t].active = x.rec[t].active BY <1>2
  <2>4. r = [q EXCEPT !.rec[t].active = b, !.local[c] = {t}, !.cur[c] = t]
    BY <2>1, <2>3, Zenon
  <2> QED BY <1>2, <1>3, <2>4 DEF TimerState
<1> HIDE DEF q, r
<1>5. b \in BOOLEAN /\ x.rec[t] \in TimerRecord BY <1>3 DEF TimerRecord
<1> HIDE DEF b
<1>6. \A u \in Timers : f[u].init = x.rec[u].init BY <1>3, <1>5 DEF TimerRecord
<1> HIDE DEF f
<1>7. r.hard = q.hard /\ r.soft = q.soft /\ r.rec = f BY <1>2, <1>4 DEF TimerState
<1> QED BY <1>2, <1>6, <1>7 DEF Cut, SameTimes, r

LEMMA InOrderWeaken ==
    ASSUME NEW list \in Seq(TimerEntry), NEW order, NEW o, NEW now, InOrder(list, order, now),
           \A d, e \in Range(list) :
               Earlier(order, d.timer, e.timer) => Earlier(o, d.timer, e.timer)
    PROVE  InOrder(list, o, now)
<1>1. \A i \in 1 .. Len(list) : list[i] \in Range(list) BY InRange
<1> QED BY <1>1 DEF InOrder, Before

\* The entries that stay, and the new one.
Fewer(x, r, t) ==
    /\ Range(r.hard) = {e \in Range(x.hard) : e.timer # t}
    /\ Range(r.soft) = {e \in Range(x.soft) : e.timer # t}

More(x, r, t, e) ==
    /\ Range(r.hard) = {d \in Range(x.hard) : d.timer # t} \cup (IF t \in SoftTimer THEN {} ELSE {e})
    /\ Range(r.soft) = {d \in Range(x.soft) : d.timer # t} \cup (IF t \in SoftTimer THEN {e} ELSE {})

LEMMA CutOrdered ==
    ASSUME NEW x, Tidy(x), NEW order, NEW now, NEW low, Ordered(x, order, now, low),
           NEW r, NEW t, Cut(x, r, t), NEW o, OrderOff(order, o, t)
    PROVE  Ordered(r, o, now, low) /\ Fewer(x, r, t)
<1>1. /\ x.hard \in Seq(TimerEntry) /\ x.soft \in Seq(TimerEntry)
      /\ EachOnce(x.hard) /\ EachOnce(x.soft)
  BY StateFields DEF Tidy
<1>2. r.hard = Unlinked(x.hard, t) /\ r.soft = Unlinked(x.soft, t)
      /\ \A u \in Timers : r.rec[u].init = x.rec[u].init
  BY DEF Cut, SameTimes
<1>3. /\ r.hard \in Seq(TimerEntry) /\ TimersIn(r.hard) = TimersIn(x.hard) \ {t}
      /\ r.soft \in Seq(TimerEntry) /\ TimersIn(r.soft) = TimersIn(x.soft) \ {t}
  BY <1>1, <1>2, UnlinkFacts
<1>4. /\ Range(r.hard) = {e \in Range(x.hard) : e.timer # t}
      /\ InOrder(x.hard, order, now) => InOrder(r.hard, order, now)
  BY <1>1, <1>2, UnlinkOrder
<1>5. /\ Range(r.soft) = {e \in Range(x.soft) : e.timer # t}
      /\ InOrder(x.soft, order, now) => InOrder(r.soft, order, now)
  BY <1>1, <1>2, UnlinkOrder
<1>6. /\ Range(order) = Listed(x) \ {ThreadTimer}
      /\ InOrder(x.hard, order, now) /\ InOrder(x.soft, order, now)
      /\ Between(x.hard, low, HalfRange - 1, now) /\ Between(x.soft, 0 - Late, Reach, now)
      /\ \A u \in AppTimer : x.rec[u].init \in TimerTimes
  BY DEF Ordered
<1>7. OrderOK(o) /\ Range(o) = Range(order) \ {t}
      /\ \A u, v : Earlier(order, u, v) => Earlier(o, u, v)
  BY DEF OrderOff
<1>8. InOrder(r.hard, order, now) /\ InOrder(r.soft, order, now) BY <1>4, <1>5, <1>6
<1>9. InOrder(r.hard, o, now) /\ InOrder(r.soft, o, now) BY <1>3, <1>7, <1>8, InOrderWeaken
<1>10. Range(o) = Listed(r) \ {ThreadTimer} BY <1>3, <1>6, <1>7 DEF Listed
<1>11. Between(r.hard, low, HalfRange - 1, now) /\ Between(r.soft, 0 - Late, Reach, now)
  BY <1>4, <1>5, <1>6 DEF Between
<1>12. \A u \in AppTimer : r.rec[u].init \in TimerTimes BY <1>2, <1>6 DEF Timers
<1> QED BY <1>4, <1>5, <1>7, <1>9, <1>10, <1>11, <1>12 DEF Ordered, Fewer

\* The new entry of a timer that is started.
LEMMA NewEntryFacts ==
    ASSUME Timely, NEW x, Tidy(x), NEW t \in Timers, NEW now \in Instant,
           \A u \in AppTimer : x.rec[u].init \in TimerTimes
    PROVE  LET e == NewEntry(x, t, now)
           IN  /\ e \in TimerEntry /\ e.timer = t /\ Left(e.at, now) = x.rec[t].init
               /\ x.rec[t].init \in Nat /\ x.rec[t].init < HalfRange
               /\ t \in SoftTimer => x.rec[t].init <= Reach
<1>1. x.rec \in [Timers -> TimerRecord] BY StateFields DEF Tidy
<1>2. PICK n : n = x.rec[t].init OBVIOUS
<1>3. n \in Int /\ 0 <= n /\ n < HalfRange
  <2>1. n \in 0..(HalfRange - 1) BY <1>1, <1>2 DEF TimerRecord
  <2> QED BY <2>1, Halves
<1>4. PICK a : a = (now + n) % TickRange OBVIOUS
<1>5. a \in Instant /\ Left(a, now) = n BY <1>3, <1>4, LeftAtStart
<1>6. NewEntry(x, t, now) = [timer |-> t, at |-> a] BY <1>2, <1>4 DEF NewEntry
<1>7. [timer |-> t, at |-> a] \in TimerEntry BY <1>5 DEF TimerEntry, Instant
<1>8. t \in SoftTimer => n <= Reach
  <2>1. t \in SoftTimer => t \in AppTimer BY TimerConstants
  <2> QED BY <1>2, <2>1, Spans
<1> QED BY <1>2, <1>3, <1>5, <1>6, <1>7, <1>8

LEMMA JoinedOrdered ==
    ASSUME Timely, NEW x, Tidy(x), NEW order, NEW now \in Instant, NEW low \in {0, 0 - 1},
           Ordered(x, order, now, low), NEW r, NEW t \in Timers, Joined(x, r, t, now),
           NEW o, OrderOn(order, o, t)
    PROVE  Ordered(r, o, now, low) /\ More(x, r, t, NewEntry(x, t, now))
<1> DEFINE e == NewEntry(x, t, now)
           h == Unlinked(x.hard, t)
           s == Unlinked(x.soft, t)
<1>1. /\ x.hard \in Seq(TimerEntry) /\ x.soft \in Seq(TimerEntry)
      /\ EachOnce(x.hard) /\ EachOnce(x.soft)
  BY StateFields DEF Tidy
<1>2. /\ r.hard = IF t \in SoftTimer THEN h ELSE InsertEntry(h, e)
      /\ r.soft = IF t \in SoftTimer THEN InsertEntry(s, e) ELSE s
      /\ \A u \in Timers : r.rec[u].init = x.rec[u].init
  BY DEF Joined, SameTimes
<1>3. /\ Range(order) = Listed(x) \ {ThreadTimer}
      /\ InOrder(x.hard, order, now) /\ InOrder(x.soft, order, now)
      /\ Between(x.hard, low, HalfRange - 1, now) /\ Between(x.soft, 0 - Late, Reach, now)
      /\ \A u \in AppTimer : x.rec[u].init \in TimerTimes
  BY DEF Ordered
<1>4. /\ h \in Seq(TimerEntry) /\ TimersIn(h) = TimersIn(x.hard) \ {t} /\ EachOnce(h)
      /\ Range(h) = {d \in Range(x.hard) : d.timer # t}
      /\ InOrder(h, order, now)
  BY <1>1, <1>3, UnlinkFacts, UnlinkOrder
<1>5. /\ s \in Seq(TimerEntry) /\ TimersIn(s) = TimersIn(x.soft) \ {t} /\ EachOnce(s)
      /\ Range(s) = {d \in Range(x.soft) : d.timer # t}
      /\ InOrder(s, order, now)
  BY <1>1, <1>3, UnlinkFacts, UnlinkOrder
<1>6. /\ e \in TimerEntry /\ e.timer = t /\ Left(e.at, now) = x.rec[t].init
      /\ x.rec[t].init \in Nat /\ x.rec[t].init < HalfRange
      /\ t \in SoftTimer => x.rec[t].init <= Reach
  BY <1>3, NewEntryFacts
<1>7. OrderOK(o) /\ Range(o) = (Range(order) \cup {t}) \ {ThreadTimer}
      /\ (\A u, v : u # t /\ v # t /\ Earlier(order, u, v) => Earlier(o, u, v))
      /\ \A u : u # t => Earlier(o, u, t)
  BY DEF OrderOn
<1>8. PICK n : n = x.rec[t].init OBVIOUS
<1> HIDE DEF e, h, s
<1>9. InOrder(h, o, now) /\ InOrder(s, o, now)
  <2>1. InOrder(h, o, now) BY <1>4, <1>7, InOrderWeaken
  <2>2. InOrder(s, o, now) BY <1>5, <1>7, InOrderWeaken
  <2> QED BY <2>1, <2>2
<1>10. Between(h, low, HalfRange - 1, now) /\ Between(s, 0 - Late, Reach, now)
  BY <1>3, <1>4, <1>5 DEF Between
<1>11. \A d \in Range(h) \cup Range(s) : d \in TimerEntry /\ Earlier(o, d.timer, e.timer)
         /\ Left(d.at, now) \in Int
  <2>1. \A d \in Range(h) \cup Range(s) : d \in TimerEntry /\ d.timer # t BY <1>4, <1>5, InRange
  <2>2. \A d \in TimerEntry : d.at \in Instant BY EntryType DEF Instant
  <2>3. \A d \in Range(h) \cup Range(s) : Left(d.at, now) \in Int BY <2>1, <2>2, LeftValue
  <2> QED BY <1>6, <1>7, <2>1, <2>3
<1>12. /\ Reach \in Nat /\ Late \in Nat /\ HalfRange \in Nat /\ Late + Reach <= HalfRange
       /\ HalfRange > 0
  BY Spans, Halves
<1>13. \A u \in AppTimer : r.rec[u].init \in TimerTimes BY <1>2, <1>3 DEF Timers
<1>14. CASE t \in SoftTimer
  <2>1. r.hard = h /\ r.soft = InsertEntry(s, e) BY <1>2, <1>14
  <2>2. n <= Reach /\ n \in Nat /\ Left(e.at, now) = n BY <1>6, <1>8, <1>14
  <2>3. \A d \in Range(s) : /\ Left(d.at, now) - Left(e.at, now) < HalfRange
                            /\ Left(e.at, now) - Left(d.at, now) <= HalfRange
                            /\ Earlier(o, d.timer, e.timer)
    <3> SUFFICES ASSUME NEW d \in Range(s)
                 PROVE  /\ Left(d.at, now) - Left(e.at, now) < HalfRange
                        /\ Left(e.at, now) - Left(d.at, now) <= HalfRange
      BY <1>11
    <3>1. Left(d.at, now) \in Int /\ 0 - Late <= Left(d.at, now) /\ Left(d.at, now) <= Reach
      BY <1>10, <1>11 DEF Between
    <3>2. Reach < HalfRange
      <4>1. Late = SoftGrace + Reach + 1 /\ SoftGrace \in Nat BY Spans
      <4> QED BY <1>12, <4>1
    <3> QED BY <1>12, <2>2, <3>1, <3>2
  <2>4. InOrder(r.soft, o, now) /\ Range(r.soft) = Range(s) \cup {e}
    BY <1>5, <1>6, <1>9, <2>1, <2>3, InsertOrder
  <2>5. TimersIn(r.soft) = TimersIn(s) \cup {t} BY <1>5, <1>6, <2>1, InsertEntryFacts
  <2>6. Between(r.soft, 0 - Late, Reach, now) BY <1>10, <1>12, <2>2, <2>4 DEF Between
  <2>7. Listed(r) = Listed(x) \cup {t} BY <1>4, <1>5, <2>1, <2>5 DEF Listed
  <2>8. Range(o) = Listed(r) \ {ThreadTimer} BY <1>3, <1>7, <2>7
  <2>9. More(x, r, t, e) BY <1>4, <1>5, <1>14, <2>1, <2>4 DEF More
  <2> QED BY <1>7, <1>9, <1>10, <1>13, <2>1, <2>4, <2>6, <2>8, <2>9 DEF Ordered, e
<1>15. CASE t \notin SoftTimer
  <2>1. r.soft = s /\ r.hard = InsertEntry(h, e) BY <1>2, <1>15
  <2>2. n < HalfRange /\ n \in Nat /\ Left(e.at, now) = n BY <1>6, <1>8
  <2>3. \A d \in Range(h) : /\ Left(d.at, now) - Left(e.at, now) < HalfRange
                            /\ Left(e.at, now) - Left(d.at, now) <= HalfRange
                            /\ Earlier(o, d.timer, e.timer)
    <3> SUFFICES ASSUME NEW d \in Range(h)
                 PROVE  /\ Left(d.at, now) - Left(e.at, now) < HalfRange
                        /\ Left(e.at, now) - Left(d.at, now) <= HalfRange
      BY <1>11
    <3>1. Left(d.at, now) \in Int /\ low <= Left(d.at, now) /\ Left(d.at, now) <= HalfRange - 1
      BY <1>10, <1>11 DEF Between
    <3> QED BY <1>12, <2>2, <3>1
  <2>4. InOrder(r.hard, o, now) /\ Range(r.hard) = Range(h) \cup {e}
    BY <1>4, <1>6, <1>9, <2>1, <2>3, InsertOrder
  <2>5. TimersIn(r.hard) = TimersIn(h) \cup {t} BY <1>4, <1>6, <2>1, InsertEntryFacts
  <2>6. Between(r.hard, low, HalfRange - 1, now)
    <3>1. low <= n /\ n <= HalfRange - 1 BY <1>12, <2>2
    <3> QED BY <1>10, <2>2, <2>4, <3>1 DEF Between
  <2>7. Listed(r) = Listed(x) \cup {t} BY <1>4, <1>5, <2>1, <2>5 DEF Listed
  <2>8. Range(o) = Listed(r) \ {ThreadTimer} BY <1>3, <1>7, <2>7
  <2>9. More(x, r, t, e) BY <1>4, <1>5, <1>15, <2>1, <2>4 DEF More
  <2> QED BY <1>7, <1>9, <1>10, <1>13, <2>1, <2>4, <2>6, <2>8, <2>9 DEF Ordered, e
<1> QED BY <1>14, <1>15

-----------------------------------------------------------------------------
(* The time that is left to the timers of the application *)

EntriesFor(x, u) == {e \in Range(x.hard) \cup Range(x.soft) : e.timer = u}

LeftIn(E, now) == IF E = {} THEN 0 ELSE Left((CHOOSE e \in E : TRUE).at, now)

LeftOf(x, now) == [u \in AppTimer |-> LeftIn(EntriesFor(x, u), now)]

LEMMA MappedLeftIs == MappedLeft = LeftOf(tmr, tick)
  BY DEF MappedLeft, LeftOf, LeftIn, EntriesFor, TimeLeft, Left

LEMMA MappedLeftIsNext == MappedLeft' = LeftOf(tmr', tick')
  BY DEF MappedLeft, LeftOf, LeftIn, EntriesFor, TimeLeft, Left, TickMinus

LEMMA LeftSame ==
    ASSUME NEW x, NEW r, NEW now, \A u \in AppTimer : EntriesFor(r, u) = EntriesFor(x, u)
    PROVE  LeftOf(r, now) = LeftOf(x, now)
  BY DEF LeftOf

LEMMA LeftInFacts == \A now, e : LeftIn({}, now) = 0 /\ LeftIn({e}, now) = Left(e.at, now)
<1>1. \A e : (CHOOSE d \in {e} : TRUE) = e OBVIOUS
<1> QED BY <1>1 DEF LeftIn

Changed(x, r, now, t, n) == LeftOf(r, now) = [LeftOf(x, now) EXCEPT ![t] = n]

LEMMA LeftChanged ==
    ASSUME NEW x, NEW r, NEW now, NEW t \in AppTimer, NEW n,
           \A u \in AppTimer \ {t} : EntriesFor(r, u) = EntriesFor(x, u),
           LeftIn(EntriesFor(r, t), now) = n
    PROVE  Changed(x, r, now, t, n)
<1>1. \A u \in AppTimer \ {t} : LeftOf(r, now)[u] = LeftOf(x, now)[u] BY DEF LeftOf
<1>2. /\ LeftOf(r, now) = [u \in AppTimer |-> LeftOf(r, now)[u]]
      /\ LeftOf(x, now) = [u \in AppTimer |-> LeftOf(x, now)[u]]
      /\ LeftOf(r, now)[t] = n
  BY DEF LeftOf
<1>3. PICK f, g : f = LeftOf(r, now) /\ g = LeftOf(x, now) OBVIOUS
<1>4. f = [g EXCEPT ![t] = n] BY <1>1, <1>2, <1>3
<1> QED BY <1>3, <1>4 DEF Changed

LEMMA FewerLeft ==
    ASSUME NEW x, NEW r, NEW t, Fewer(x, r, t), NEW now
    PROVE  /\ t \in AppTimer => Changed(x, r, now, t, 0)
           /\ t = ThreadTimer => LeftOf(r, now) = LeftOf(x, now)
<1>1. \A u \in AppTimer \ {t} : EntriesFor(r, u) = EntriesFor(x, u) BY DEF Fewer, EntriesFor
<1>2. EntriesFor(r, t) = {} BY DEF Fewer, EntriesFor
<1>3. ASSUME t \in AppTimer PROVE Changed(x, r, now, t, 0)
  <2>1. LeftIn(EntriesFor(r, t), now) = 0 BY <1>2, LeftInFacts
  <2> QED BY <1>1, <1>3, <2>1, LeftChanged
<1>4. t = ThreadTimer => LeftOf(r, now) = LeftOf(x, now) BY <1>1, LeftSame, TimerKinds
<1> QED BY <1>3, <1>4

LEMMA MoreLeft ==
    ASSUME NEW x, NEW r, NEW t, NEW e, e.timer = t, More(x, r, t, e), NEW now
    PROVE  /\ t \in AppTimer => Changed(x, r, now, t, Left(e.at, now))
           /\ t = ThreadTimer => LeftOf(r, now) = LeftOf(x, now)
<1>1. \A u \in AppTimer \ {t} : EntriesFor(r, u) = EntriesFor(x, u) BY DEF More, EntriesFor
<1>2. EntriesFor(r, t) = {e} BY DEF More, EntriesFor
<1>3. ASSUME t \in AppTimer
      PROVE  Changed(x, r, now, t, Left(e.at, now))
  <2>1. LeftIn(EntriesFor(r, t), now) = Left(e.at, now) BY <1>2, LeftInFacts
  <2> QED BY <1>1, <1>3, <2>1, LeftChanged
<1>4. t = ThreadTimer => LeftOf(r, now) = LeftOf(x, now) BY <1>1, LeftSame, TimerKinds
<1> QED BY <1>3, <1>4

\* rt_timer_start, with the timer thread resumed or not.
LEMMA StartOrdered ==
    ASSUME Timely, NEW x, Tidy(x), tick \in Instant, NEW order, NEW low \in {0, 0 - 1},
           Ordered(x, order, tick, low), NEW t \in Timers, NEW o, OrderOn(order, o, t)
    PROVE  LET r == rt_timer_start(x, t)
           IN  /\ Ordered(r, o, tick, low)
               /\ t \in AppTimer =>
                    Changed(x, r, tick, t, x.rec[t].init)
               /\ t = ThreadTimer => LeftOf(r, tick) = LeftOf(x, tick)
               /\ \/ /\ t \in SoftTimer /\ x.status = "idle" /\ x.stat = "suspend"
                     /\ r.stat = "ready"
                  \/ /\ ~(t \in SoftTimer /\ x.status = "idle" /\ x.stat = "suspend")
                     /\ r.stat = x.stat /\ More(x, r, t, NewEntry(x, t, tick))
<1> DEFINE q == LinkTimer(x, t)
           r == rt_timer_start(x, t)
           e == NewEntry(x, t, tick)
<1>1. Joined(x, q, t, tick) BY LinkLists
<1>2. Tidy(q) /\ q.stat = x.stat
  <2>1. tick \in 0..(TickRange - 1) BY DEF Instant
  <2> QED BY <2>1, LinkTidy
<1>3. Ordered(q, o, tick, low) /\ More(x, q, t, e) BY <1>1, JoinedOrdered
<1>4. \A u \in AppTimer : x.rec[u].init \in TimerTimes BY DEF Ordered
<1>5. e.timer = t /\ Left(e.at, tick) = x.rec[t].init BY <1>4, NewEntryFacts
<1>6. r = IF t \in SoftTimer /\ x.status = "idle" /\ x.stat = "suspend"
          THEN ResumeTimerThread(q) ELSE q
  BY DEF rt_timer_start
<1> HIDE DEF q, r, e
<1>7. /\ t \in AppTimer => Changed(x, q, tick, t, x.rec[t].init)
      /\ t = ThreadTimer => LeftOf(q, tick) = LeftOf(x, tick)
  <2>1. /\ t \in AppTimer => Changed(x, q, tick, t, Left(e.at, tick))
        /\ t = ThreadTimer => LeftOf(q, tick) = LeftOf(x, tick)
    BY <1>3, <1>5, MoreLeft
  <2> QED BY <1>5, <2>1
<1>8. CASE ~(t \in SoftTimer /\ x.status = "idle" /\ x.stat = "suspend")
  <2>1. r = q BY <1>6, <1>8
  <2> QED BY <1>2, <1>3, <1>7, <1>8, <2>1 DEF r, e
<1>9. CASE t \in SoftTimer /\ x.status = "idle" /\ x.stat = "suspend"
  <2> DEFINE d == Deactivate(q, ThreadTimer)
  <2>1. r = [d EXCEPT !.stat = "ready"] BY <1>6, <1>9 DEF ResumeTimerThread
  <2>2. ThreadTimer \in Timers /\ t # ThreadTimer BY <1>9, TimerKinds
  <2>3. Cut(q, d, ThreadTimer) /\ Tidy(d) BY <1>2, <2>2, DeactivateLists, DeactivateTidy
  <2> HIDE DEF d
  <2>4. r.hard = d.hard /\ r.soft = d.soft /\ r.rec = d.rec /\ r.stat = "ready"
    BY <2>1, <2>3 DEF Tidy, TimerState
  <2>5. Cut(q, r, ThreadTimer) BY <2>3, <2>4 DEF Cut, SameTimes
  <2>6. OrderOff(o, o, ThreadTimer) BY <1>3, OwnOrder DEF Ordered
  <2>7. Ordered(r, o, tick, low) /\ Fewer(q, r, ThreadTimer) BY <1>2, <1>3, <2>5, <2>6, CutOrdered
  <2>8. LeftOf(r, tick) = LeftOf(q, tick) BY <2>7, FewerLeft
  <2> QED BY <1>7, <1>9, <2>2, <2>4, <2>7, <2>8 DEF r, Changed
<1> QED BY <1>8, <1>9

\* The lists, times and stat of two states are the same.
Alike(x, y) ==
    /\ y.hard = x.hard /\ y.soft = x.soft /\ SameTimes(x, y) /\ y.stat = x.stat

LEMMA AlikeOrdered ==
    ASSUME NEW x, NEW y, Alike(x, y), NEW order, NEW now, NEW low, Ordered(x, order, now, low)
    PROVE  Ordered(y, order, now, low) /\ LeftOf(y, now) = LeftOf(x, now)
<1>1. y.hard = x.hard /\ y.soft = x.soft /\ \A u \in AppTimer : y.rec[u].init = x.rec[u].init
  BY DEF Alike, SameTimes, Timers
<1>2. Ordered(y, order, now, low) BY <1>1 DEF Ordered, Listed
<1>3. LeftOf(y, now) = LeftOf(x, now)
  <2>1. \A u \in AppTimer : EntriesFor(y, u) = EntriesFor(x, u) BY <1>1 DEF EntriesFor
  <2> QED BY <2>1, LeftSame
<1> QED BY <1>2, <1>3

\* The end of a callback starts the timer again or leaves the lists alone.
LEMMA PutLists ==
    ASSUME NEW x, NEW m, Sound(x, m), NEW c \in BOOLEAN, x.cur[c] # NoTimer
    PROVE  /\ ~Rearms(x, c) => Alike(x, PutTimer(x, c))
           /\ Rearms(x, c) => \E y : /\ Tidy(y) /\ Alike(x, y) /\ y.status = x.status
                                     /\ PutTimer(x, c) = rt_timer_start(y, x.cur[c])
<1> DEFINE t == x.cur[c]
           l == [x.local EXCEPT ![c] = {}]
           kept == [x.cur EXCEPT ![c] = NoTimer]
           f == [x.rec EXCEPT ![t] = [x.rec[t] EXCEPT !.active = FALSE]]
           off == [x EXCEPT !.local = l, !.cur = kept]
           y == [off EXCEPT !.rec = f]
           r == PutTimer(x, c)
<1>1. Tidy(x) /\ x \in TimerState BY SoundFacts, TimerKinds
<1>2. t \in AppTimer /\ t \in Timers BY TimerKinds DEF Sound, CallsHeld
<1>3. /\ x.rec \in [Timers -> TimerRecord] /\ x.local \in [BOOLEAN -> SUBSET Timers]
      /\ x.cur \in [BOOLEAN -> Timers \cup {NoTimer}]
  BY <1>1, StateFields
<1>4. l \in [BOOLEAN -> SUBSET Timers] /\ kept \in [BOOLEAN -> Timers \cup {NoTimer}] BY <1>3
<1>5. off = [x EXCEPT !.local[c] = {}, !.cur[c] = NoTimer] BY <1>1, <1>3 DEF TimerState
<1>6. r = IF Rearms(x, c) THEN rt_timer_start([off EXCEPT !.rec[t].active = FALSE], t) ELSE off
  <2> DEFINE o == [x EXCEPT !.local[c] = {}, !.cur[c] = NoTimer]
  <2>1. r = IF Rearms(x, c) THEN rt_timer_start([o EXCEPT !.rec[t].active = FALSE], t) ELSE o
    BY DEF PutTimer
  <2>2. off = o BY <1>5
  <2> HIDE DEF o, off, r, t
  <2> QED BY <2>1, <2>2
<1> HIDE DEF l, kept
<1>7. /\ off \in TimerState /\ off.hard = x.hard /\ off.soft = x.soft
      /\ off.rec = x.rec /\ off.status = x.status /\ off.stat = x.stat
  BY <1>1, <1>4 DEF TimerState
<1>8. [off EXCEPT !.rec[t].active = FALSE] = y BY <1>2, <1>3, <1>7
<1> HIDE DEF off
<1>9. CASE ~Rearms(x, c)
  <2>1. r = off BY <1>6, <1>9
  <2>2. Alike(x, off) BY <1>7 DEF Alike, SameTimes
  <2> QED BY <1>9, <2>1, <2>2
<1>10. CASE Rearms(x, c)
  <2>1. r = rt_timer_start(y, t) BY <1>6, <1>8, <1>10
  <2>2. [x.rec[t] EXCEPT !.active = FALSE] \in TimerRecord /\ x.rec[t] \in TimerRecord
    <3> HIDE DEF t
    <3>1. x.rec[t] \in TimerRecord BY <1>2, <1>3
    <3> QED BY <3>1 DEF TimerRecord
  <2>3. f \in [Timers -> TimerRecord] BY <1>3, <2>2
  <2>4. \A u \in Timers : f[u].init = x.rec[u].init BY <1>2, <1>3, <2>2 DEF TimerRecord
  <2> HIDE DEF f
  <2>5. /\ y \in TimerState /\ y.hard = x.hard /\ y.soft = x.soft
        /\ y.rec = f /\ y.status = x.status /\ y.stat = x.stat
    BY <1>7, <2>3 DEF TimerState, TimerRecord
  <2> HIDE DEF y
  <2>6. Tidy(y) BY <1>1, <2>5 DEF Tidy
  <2>7. Alike(x, y) BY <2>4, <2>5 DEF Alike, SameTimes
  <2> QED BY <1>10, <2>1, <2>5, <2>6, <2>7
<1> QED BY <1>9, <1>10

-----------------------------------------------------------------------------
(* How late the timer thread may be *)

Pace(x, e, now, step, until) ==
    /\ step # "suspend"
    /\ step \in {"next", "delay", "sleep"} => 0 - SoftGrace <= Left(e.at, now)
    /\ step = "next" => \A d \in Range(x.soft) : Left(e.at, now) <= Left(d.at, now) + Reach
    /\ step = "delay" => /\ Left(until, now) <= Left(e.at, now)
                         /\ Left(e.at, now) <= Left(until, now) + Reach
    /\ step = "sleep" => until <= Reach
    /\ step = "check" /\ x.stat = "suspend" =>
        \E d \in Range(x.hard) :
            d.timer = ThreadTimer /\ Left(d.at, now) <= Left(e.at, now) + SoftGrace + Reach

Paced(x, now, step, until) ==
    /\ x.stat = "suspend" => step \in {"check", "callback"}
    /\ \A e \in Range(x.soft) : Pace(x, e, now, step, until)

\* A step that adds no soft timer and keeps the timer thread's own timer.
LEMMA PacedKept ==
    ASSUME NEW x, NEW r, NEW now, NEW step, NEW until, Paced(x, now, step, until),
           Range(r.soft) \subseteq Range(x.soft), r.stat = x.stat,
           \A d \in Range(x.hard) : d.timer = ThreadTimer => d \in Range(r.hard)
    PROVE  Paced(r, now, step, until)
<1>1. r.stat = "suspend" => step \in {"check", "callback"} BY DEF Paced
<1>2. ASSUME NEW e \in Range(r.soft) PROVE Pace(r, e, now, step, until)
  <2>1. Pace(x, e, now, step, until) BY <1>2 DEF Paced
  <2> QED BY <2>1 DEF Pace
<1> QED BY <1>1, <1>2 DEF Paced

\* While the timer thread looks for soft timers to call, or calls one.
LEMMA PacedFree ==
    ASSUME NEW r, NEW now, NEW step, NEW until,
           step = "callback" \/ (step \in {"awake", "check"} /\ r.stat = "ready")
    PROVE  Paced(r, now, step, until)
  BY DEF Paced, Pace

Low(irq) == IF irq = "idle" THEN 0 ELSE 0 - 1

\* The invariant of the refinement.
TimerOrder ==
    /\ Ordered(tmr, startOrder, tick, Low(tickIsr))
    /\ Paced(tmr, tick, threadPc, next_timeout)

LEMMA OrderNext ==
    ASSUME Ordered(tmr', startOrder', tick', Low(tickIsr')),
           Paced(tmr', tick', threadPc', next_timeout')
    PROVE  TimerOrder'
  BY DEF TimerOrder, Ordered, OrderOK, InOrder, Before, Between, Paced, Pace, Low, Earlier, Left,
         TickMinus

LEMMA LowType == ASSUME NEW irq PROVE Low(irq) \in {0, 0 - 1}
  BY DEF Low

-----------------------------------------------------------------------------
(* The steps of Deadlines *)

LEMMA SameHelpers ==
    \A s, e : Promise!RemoveFirst(s, e) = RemoveFirst(s, e) /\ Promise!Range(s) = Range(s)
  BY DEF Promise!RemoveFirst, Promise!RemoveAt, Promise!SelectInSeq, Promise!Min, Promise!Range,
         RemoveFirst, RemoveAt, SelectInSeq, Min, Range

LEMMA UnseenStep ==
    ASSUME startOrder' = startOrder, LeftOf(tmr', tick') = LeftOf(tmr, tick),
           tickIsr' # "idle" <=> tickIsr # "idle", tmr'.cur = tmr.cur
    PROVE  UNCHANGED Promise!deadlineVars
<1>1. MappedLeft' = MappedLeft BY MappedLeftIs, MappedLeftIsNext
<1>2. (tickIsr # "idle")' = (tickIsr # "idle") OBVIOUS
<1> QED BY <1>1, <1>2 DEF Promise!deadlineVars

LEMMA BeginStep ==
    ASSUME NEW t \in AppTimer, NEW n \in 0..HalfRange, startOrder' = Restarted(t),
           tick' = tick, Changed(tmr, tmr', tick, t, n), tickIsr' = tickIsr, tmr'.cur = tmr.cur
    PROVE  Promise!DeadlinesNext
<1>1. MappedLeft' = [MappedLeft EXCEPT ![t] = n]
  BY MappedLeftIs, MappedLeftIsNext DEF Changed
<1>2. Promise!Begin(t, n)
  BY <1>1, SameHelpers DEF Promise!Begin, Promise!Arm, Promise!Without, Restarted, Removed
<1> QED BY <1>2 DEF Promise!DeadlinesNext

LEMMA DropStep ==
    ASSUME NEW t \in AppTimer, startOrder' = Removed(t),
           tick' = tick, Changed(tmr, tmr', tick, t, 0), tickIsr' = tickIsr, tmr'.cur = tmr.cur
    PROVE  Promise!DeadlinesNext
<1>1. MappedLeft' = [MappedLeft EXCEPT ![t] = 0]
  BY MappedLeftIs, MappedLeftIsNext DEF Changed
<1>2. Promise!Drop(t)
  BY <1>1, SameHelpers DEF Promise!Drop, Promise!Disarm, Promise!Without, Removed
<1> QED BY <1>2 DEF Promise!DeadlinesNext

LEMMA ReturnStep ==
    ASSUME NEW c \in BOOLEAN, tmr.cur[c] # NoTimer, tmr'.cur = [tmr.cur EXCEPT ![c] = NoTimer],
           tick' = tick, tickIsr' # "idle" <=> tickIsr # "idle",
           \/ startOrder' = startOrder /\ LeftOf(tmr', tick) = LeftOf(tmr, tick)
           \/ \E n \in 0..HalfRange : /\ startOrder' = Restarted(tmr.cur[c])
                                      /\ Changed(tmr, tmr', tick, tmr.cur[c], n)
    PROVE  Promise!DeadlinesNext
<1>1. (tickIsr # "idle")' = (tickIsr # "idle") OBVIOUS
<1>2. CASE startOrder' = startOrder /\ LeftOf(tmr', tick) = LeftOf(tmr, tick)
  <2>1. MappedLeft' = MappedLeft BY <1>2, MappedLeftIs, MappedLeftIsNext
  <2>2. Promise!Return(c) BY <1>1, <1>2, <2>1 DEF Promise!Return
  <2> QED BY <2>2 DEF Promise!DeadlinesNext
<1>3. ASSUME NEW n \in 0..HalfRange, startOrder' = Restarted(tmr.cur[c]),
             Changed(tmr, tmr', tick, tmr.cur[c], n)
      PROVE  Promise!DeadlinesNext
  <2>1. MappedLeft' = [MappedLeft EXCEPT ![tmr.cur[c]] = n]
    BY <1>3, MappedLeftIs, MappedLeftIsNext DEF Changed
  <2>2. Promise!Arm(tmr.cur[c], n)
    BY <1>3, <2>1, SameHelpers DEF Promise!Arm, Promise!Without, Restarted, Removed
  <2>3. Promise!Return(c) BY <1>1, <2>2 DEF Promise!Return
  <2> QED BY <2>3 DEF Promise!DeadlinesNext
<1> QED BY <1>2, <1>3

LEMMA FirstCallStep ==
    ASSUME NEW i \in DOMAIN startOrder, NEW c \in BOOLEAN, c <=> startOrder[i] \in SoftTimer,
           tmr.cur[c] = NoTimer, tmr'.cur = [tmr.cur EXCEPT ![c] = startOrder[i]],
           tickIsr # "idle" <=> ~c, tickIsr' # "idle" <=> tickIsr # "idle",
           LeftOf(tmr, tick)[startOrder[i]] <= 0,
           \A j \in DOMAIN startOrder \ {i} :
               (startOrder[j] \in SoftTimer <=> startOrder[i] \in SoftTimer) =>
                   \/ LeftOf(tmr, tick)[startOrder[i]] < LeftOf(tmr, tick)[startOrder[j]]
                   \/ /\ LeftOf(tmr, tick)[startOrder[i]] = LeftOf(tmr, tick)[startOrder[j]]
                      /\ i < j,
           startOrder' = Removed(startOrder[i]), tick' = tick,
           Changed(tmr, tmr', tick, startOrder[i], 0)
    PROVE  Promise!DeadlinesNext
<1>1. (tickIsr # "idle")' = (tickIsr # "idle") OBVIOUS
<1>2. PICK t : t = startOrder[i] OBVIOUS
<1>3. c = (t \in SoftTimer) BY <1>2
<1>4. MappedLeft' = [MappedLeft EXCEPT ![t] = 0]
  BY <1>2, MappedLeftIs, MappedLeftIsNext DEF Changed
<1>5. Promise!Disarm(t) BY <1>2, <1>4, SameHelpers DEF Promise!Disarm, Promise!Without, Removed
<1>6. Promise!Foremost(i) BY MappedLeftIs DEF Promise!Foremost
<1>7. /\ tmr.cur[(t \in SoftTimer)] = NoTimer
      /\ ((tickIsr # "idle") <=> ~(t \in SoftTimer)) /\ MappedLeft[t] <= 0
      /\ tmr'.cur = [tmr.cur EXCEPT ![(t \in SoftTimer)] = t]
  <2>1. MappedLeft[t] <= 0 BY <1>2, MappedLeftIs
  <2>2. tmr.cur[(t \in SoftTimer)] = NoTimer BY <1>3, Zenon
  <2>3. tmr'.cur = [tmr.cur EXCEPT ![(t \in SoftTimer)] = t] BY <1>2, <1>3, Zenon
  <2> QED BY <1>3, <2>1, <2>2, <2>3
<1>8. Promise!Call(i) BY <1>1, <1>2, <1>5, <1>6, <1>7, Zenon DEF Promise!Call
<1> QED BY <1>8 DEF Promise!DeadlinesNext

LEMMA PassStep ==
    ASSUME tickIsr = "idle", tickIsr' = "check", startOrder' = startOrder, tmr'.cur = tmr.cur,
           \A t \in Range(startOrder) \ SoftTimer : LeftOf(tmr, tick)[t] >= 0,
           LeftOf(tmr', tick') =
               [t \in AppTimer |->
                   IF t \in Range(startOrder) THEN LeftOf(tmr, tick)[t] - 1 ELSE 0]
    PROVE  Promise!DeadlinesNext
<1>1. MappedLeft' = [t \in AppTimer |-> IF t \in Range(startOrder) THEN MappedLeft[t] - 1 ELSE 0]
  BY MappedLeftIs, MappedLeftIsNext
<1>2. \A t \in Range(startOrder) \ SoftTimer : MappedLeft[t] >= 0 BY MappedLeftIs
<1>3. Promise!Pass BY <1>1, <1>2, SameHelpers DEF Promise!Pass, Promise!Armed
<1> QED BY <1>3 DEF Promise!DeadlinesNext

LEMMA CallsDoneStep ==
    ASSUME tickIsr = "check", tickIsr' = "idle", startOrder' = startOrder, tmr' = tmr,
           tick' = tick, tmr.cur[FALSE] = NoTimer,
           \A t \in Range(startOrder) \ SoftTimer : LeftOf(tmr, tick)[t] > 0
    PROVE  Promise!DeadlinesNext
<1>1. MappedLeft' = MappedLeft BY MappedLeftIs, MappedLeftIsNext
<1>2. \A t \in Range(startOrder) \ SoftTimer : MappedLeft[t] > 0 BY MappedLeftIs
<1>3. Promise!CallsDone BY <1>1, <1>2, SameHelpers DEF Promise!CallsDone, Promise!Armed
<1> QED BY <1>3 DEF Promise!DeadlinesNext

\* The step is one of Deadlines, or leaves what it sees unchanged.
DeadlineStep == [Promise!DeadlinesNext]_(Promise!deadlineVars)

LEMMA OrderParts ==
    ASSUME TimerInductive, TimerOrder
    PROVE  /\ Counters /\ Sound(tmr, muted) /\ Controlled(tmr, tickIsr, threadPc)
           /\ Tidy(tmr) /\ tmr \in TimerState /\ tick \in Instant
           /\ tmr.hard \in Seq(TimerEntry) /\ tmr.soft \in Seq(TimerEntry)
           /\ tmr.rec \in [Timers -> TimerRecord]
           /\ Ordered(tmr, startOrder, tick, Low(tickIsr)) /\ OrderOK(startOrder)
           /\ Paced(tmr, tick, threadPc, next_timeout) /\ Low(tickIsr) \in {0, 0 - 1}
           /\ \A u \in AppTimer : tmr.rec[u].init \in TimerTimes
<1>1. Counters /\ Sound(tmr, muted) /\ Controlled(tmr, tickIsr, threadPc) BY TimerParts
<1>2. Tidy(tmr) /\ tmr \in TimerState BY <1>1, SoundFacts
<1>3. tick \in Instant BY <1>1 DEF Counters, Instant
<1>4. Ordered(tmr, startOrder, tick, Low(tickIsr)) /\ Paced(tmr, tick, threadPc, next_timeout)
  BY DEF TimerOrder
<1>5. OrderOK(startOrder) /\ \A u \in AppTimer : tmr.rec[u].init \in TimerTimes
  BY <1>4 DEF Ordered
<1> QED BY <1>1, <1>2, <1>3, <1>4, <1>5, StateFields, LowType

\* The timers of the application do not change how late the timer thread may be.
LEMMA FewerPaced ==
    ASSUME NEW x, NEW r, NEW t, t # ThreadTimer, Fewer(x, r, t), r.stat = x.stat,
           NEW now, NEW step, NEW until, Paced(x, now, step, until)
    PROVE  Paced(r, now, step, until)
<1>1. Range(r.soft) \subseteq Range(x.soft) BY DEF Fewer
<1>2. \A d \in Range(x.hard) : d.timer = ThreadTimer => d \in Range(r.hard) BY DEF Fewer
<1> QED BY <1>1, <1>2, PacedKept

LEMMA MorePaced ==
    ASSUME NEW x, NEW r, NEW t, t # ThreadTimer, t \notin SoftTimer, NEW e, More(x, r, t, e),
           r.stat = x.stat, NEW now, NEW step, NEW until, Paced(x, now, step, until)
    PROVE  Paced(r, now, step, until)
<1>1. Range(r.soft) \subseteq Range(x.soft) BY DEF More
<1>2. \A d \in Range(x.hard) : d.timer = ThreadTimer => d \in Range(r.hard) BY DEF More
<1> QED BY <1>1, <1>2, PacedKept

LEMMA StartStep ==
    ASSUME Timely, TimerInductive, TimerOrder, NEW t \in AppTimer, TimerStart(t)
    PROVE  TimerOrder' /\ DeadlineStep
<1>1. /\ Counters /\ Sound(tmr, muted) /\ Controlled(tmr, tickIsr, threadPc)
      /\ Tidy(tmr) /\ tick \in Instant /\ tmr.rec \in [Timers -> TimerRecord]
      /\ Ordered(tmr, startOrder, tick, Low(tickIsr)) /\ OrderOK(startOrder)
      /\ Paced(tmr, tick, threadPc, next_timeout) /\ Low(tickIsr) \in {0, 0 - 1}
  BY OrderParts
<1>2. /\ tmr.rec[t].exists /\ tmr' = rt_timer_start(tmr, t) /\ startOrder' = Restarted(t)
      /\ UNCHANGED <<tick, tickIsr, threadPc, next_timeout, stopping>>
      /\ t \in SoftTimer => tmr.stat = "suspend" \/ tmr.status = "busy"
  BY DEF TimerStart, ThreadCalm, Timely
<1>3. t \in Timers /\ t # ThreadTimer BY TimerKinds
<1>4. OrderOn(startOrder, startOrder', t) BY <1>1, <1>2, RestartedOrder DEF Restarted, Removed
<1>5. /\ Ordered(tmr', startOrder', tick, Low(tickIsr))
      /\ Changed(tmr, tmr', tick, t, tmr.rec[t].init)
      /\ \/ /\ t \in SoftTimer /\ tmr.status = "idle" /\ tmr.stat = "suspend"
            /\ tmr'.stat = "ready"
         \/ /\ ~(t \in SoftTimer /\ tmr.status = "idle" /\ tmr.stat = "suspend")
            /\ tmr'.stat = tmr.stat /\ More(tmr, tmr', t, NewEntry(tmr, t, tick))
  BY <1>1, <1>2, <1>3, <1>4, StartOrdered
<1>6. tmr'.cur = tmr.cur
  <2>1. tick \in 0..(TickRange - 1) BY <1>1 DEF Instant
  <2> QED BY <1>1, <1>2, <1>3, <2>1, StartSound
<1>7. tmr.rec[t].init \in 0..HalfRange
  <2>1. tmr.rec[t].init \in 0..(HalfRange - 1) BY <1>1, <1>3 DEF TimerRecord
  <2> QED BY <2>1, Halves
<1>8. Promise!DeadlinesNext BY <1>2, <1>5, <1>6, <1>7, BeginStep
<1>9. tmr.stat = "suspend" => threadPc \in {"check", "callback"} BY <1>1 DEF Paced
<1>10. tmr.status = "busy" <=> threadPc \in {"callback", "awake"} BY <1>1 DEF Controlled
<1>11. tmr.stat \in {"ready", "suspend"} BY <1>1, StateFields DEF Tidy
<1>12. Paced(tmr', tick, threadPc, next_timeout)
  <2>1. CASE t \in SoftTimer
    <3>1. threadPc = "callback" \/ (threadPc \in {"awake", "check"} /\ tmr'.stat = "ready")
      <4>1. CASE tmr.status = "busy"
        <5>1. tmr'.stat = tmr.stat BY <1>5, <4>1
        <5>2. threadPc = "awake" => tmr.stat = "ready" BY <1>9, <1>11
        <5> QED BY <1>10, <4>1, <5>1, <5>2
      <4>2. CASE tmr.status # "busy"
        <5>1. tmr.stat = "suspend" BY <1>2, <2>1, <4>2
        <5>2. tmr.status = "idle" BY <1>1, <4>2, StateFields DEF Tidy
        <5>3. tmr'.stat = "ready" BY <1>5, <2>1, <5>1, <5>2
        <5>4. threadPc = "check" BY <1>9, <1>10, <4>2, <5>1
        <5> QED BY <5>3, <5>4
      <4> QED BY <4>1, <4>2
    <3> QED BY <3>1, PacedFree
  <2>2. CASE t \notin SoftTimer BY <1>1, <1>3, <1>5, <2>2, MorePaced
  <2> QED BY <2>1, <2>2
<1>13. TimerOrder' BY <1>2, <1>5, <1>12, OrderNext
<1> QED BY <1>8, <1>13 DEF DeadlineStep

\* rt_timer_stop and rt_timer_delete.
LEMMA DroppedStep ==
    ASSUME Timely, TimerInductive, TimerOrder, NEW t \in AppTimer, Cut(tmr, tmr', t),
           tmr'.stat = tmr.stat, tmr'.cur = tmr.cur, startOrder' = Removed(t),
           UNCHANGED <<tick, tickIsr, threadPc, next_timeout>>
    PROVE  TimerOrder' /\ DeadlineStep
<1>1. /\ Tidy(tmr) /\ Ordered(tmr, startOrder, tick, Low(tickIsr)) /\ OrderOK(startOrder)
      /\ Paced(tmr, tick, threadPc, next_timeout)
  BY OrderParts
<1>2. OrderOff(startOrder, startOrder', t) BY <1>1, RemovedOrder DEF Removed
<1>3. Ordered(tmr', startOrder', tick, Low(tickIsr)) /\ Fewer(tmr, tmr', t)
  BY <1>1, <1>2, CutOrdered
<1>4. Changed(tmr, tmr', tick, t, 0) BY <1>3, FewerLeft
<1>5. Promise!DeadlinesNext BY <1>4, DropStep
<1>6. t # ThreadTimer BY TimerKinds
<1>7. Paced(tmr', tick, threadPc, next_timeout) BY <1>1, <1>3, <1>6, FewerPaced
<1>8. TimerOrder' BY <1>3, <1>7, OrderNext
<1> QED BY <1>5, <1>8 DEF DeadlineStep

LEMMA StopStep ==
    ASSUME Timely, TimerInductive, TimerOrder,
           TimerStop \/ \E t \in AppTimer : TimerStopInIsr(t) \/ TimerDelete(t)
    PROVE  TimerOrder' /\ DeadlineStep
<1>1. Counters /\ Tidy(tmr) BY OrderParts
<1>2. PICK t \in AppTimer :
        /\ startOrder' = Removed(t) /\ UNCHANGED <<tick, tickIsr, threadPc, next_timeout>>
        /\ \/ tmr' = Deactivate(tmr, t)
           \/ tmr' = [Deactivate(tmr, t) EXCEPT !.rec[t].exists = FALSE]
  <2>1. CASE TimerStop
    <3>1. stopping \in AppTimer BY <1>1, <2>1 DEF TimerStop, Counters
    <3> QED BY <2>1, <3>1 DEF TimerStop
  <2>2. CASE \E t \in AppTimer : TimerStopInIsr(t) BY <2>2 DEF TimerStopInIsr
  <2>3. CASE \E t \in AppTimer : TimerDelete(t) BY <2>3 DEF TimerDelete
  <2> QED BY <2>1, <2>2, <2>3
<1>3. t \in Timers BY TimerKinds
<1>4. PICK q : q = Deactivate(tmr, t) OBVIOUS
<1>5. Tidy(q) /\ Cut(tmr, q, t) /\ q.stat = tmr.stat /\ q.cur = tmr.cur
  BY <1>1, <1>3, <1>4, DeactivateLists, DeactivateTidy DEF Off
<1>6. tmr'.hard = q.hard /\ tmr'.soft = q.soft /\ tmr'.stat = q.stat /\ tmr'.cur = q.cur
      /\ \A u \in Timers : tmr'.rec[u].init = q.rec[u].init
  <2>1. CASE tmr' = q BY <2>1
  <2>2. CASE tmr' = [q EXCEPT !.rec[t].exists = FALSE]
    <3>1. q \in TimerState /\ q.rec \in [Timers -> TimerRecord] BY <1>5, StateFields DEF Tidy
    <3>2. PICK f : f = [q.rec EXCEPT ![t] = [q.rec[t] EXCEPT !.exists = FALSE]] OBVIOUS
    <3>3. tmr' = [q EXCEPT !.rec = f] BY <1>3, <2>2, <3>1, <3>2 DEF TimerState
    <3>4. \A u \in Timers : f[u].init = q.rec[u].init BY <3>1, <3>2 DEF TimerRecord
    <3> QED BY <3>1, <3>3, <3>4 DEF TimerState
  <2> QED BY <1>2, <1>4, <2>1, <2>2
<1>7. Cut(tmr, tmr', t) BY <1>5, <1>6 DEF Cut, SameTimes
<1> QED BY <1>2, <1>5, <1>6, <1>7, DroppedStep

\* A step that leaves the lists alone.
LEMMA ListsKept ==
    ASSUME TimerInductive, TimerOrder, tmr'.hard = tmr.hard, tmr'.soft = tmr.soft,
           tmr'.cur = tmr.cur, startOrder' = startOrder, tick' = tick, tickIsr' = tickIsr,
           \A u \in AppTimer : tmr'.rec[u].init \in TimerTimes,
           Paced(tmr', tick, threadPc', next_timeout')
    PROVE  TimerOrder' /\ DeadlineStep
<1>1. Ordered(tmr, startOrder, tick, Low(tickIsr)) BY OrderParts
<1>2. Ordered(tmr', startOrder', tick, Low(tickIsr)) BY <1>1 DEF Ordered, Listed
<1>3. LeftOf(tmr', tick) = LeftOf(tmr, tick)
  <2>1. \A u \in AppTimer : EntriesFor(tmr', u) = EntriesFor(tmr, u) BY DEF EntriesFor
  <2> QED BY <2>1, LeftSame
<1>4. UNCHANGED Promise!deadlineVars BY <1>3, UnseenStep
<1>5. TimerOrder' BY <1>2, OrderNext
<1> QED BY <1>4, <1>5 DEF DeadlineStep

\* rt_timer_control, rt_timer_create and the first region of rt_timer_stop.
LEMMA ControlStep ==
    ASSUME TimerInductive, TimerOrder, NEW t \in AppTimer,
           \/ TimerStopTest(t) \/ TimerSetOneshot(t) \/ TimerSetPeriodic(t)
           \/ \E n \in TimerTimes : TimerSetTime(t, n) \/ \E per \in BOOLEAN : TimerCreate(t, n, per)
    PROVE  TimerOrder' /\ DeadlineStep
<1>1. /\ Counters /\ tmr \in TimerState /\ tmr.rec \in [Timers -> TimerRecord]
      /\ Paced(tmr, tick, threadPc, next_timeout)
      /\ \A u \in AppTimer : tmr.rec[u].init \in TimerTimes
  BY OrderParts
<1>2. t \in Timers /\ AppTimer \subseteq Timers BY TimerKinds
<1>3. UNCHANGED <<tick, tickIsr, threadPc, next_timeout, startOrder>>
  BY DEF TimerStopTest, TimerSetOneshot, TimerSetPeriodic, TimerSetTime, TimerCreate
<1>4. PICK w : w = tmr.rec[t] OBVIOUS
<1>5. w \in TimerRecord /\ w.init \in TimerTimes BY <1>1, <1>2, <1>4
<1>6. tmr' = tmr \/ \E v : v.init \in TimerTimes /\ tmr' = [tmr EXCEPT !.rec = [@ EXCEPT ![t] = v]]
  <2>1. CASE TimerStopTest(t) BY <2>1 DEF TimerStopTest
  <2>2. CASE TimerSetOneshot(t)
    <3>1. PICK v : v = [w EXCEPT !.periodic = FALSE] OBVIOUS
    <3>2. v.init \in TimerTimes BY <1>5, <3>1 DEF TimerRecord
    <3>3. tmr' = [tmr EXCEPT !.rec = [@ EXCEPT ![t] = v]]
      BY <1>1, <1>2, <1>4, <2>2, <3>1 DEF TimerSetOneshot, TimerState
    <3> QED BY <3>2, <3>3
  <2>3. CASE TimerSetPeriodic(t)
    <3>1. PICK v : v = [w EXCEPT !.periodic = TRUE] OBVIOUS
    <3>2. v.init \in TimerTimes BY <1>5, <3>1 DEF TimerRecord
    <3>3. tmr' = [tmr EXCEPT !.rec = [@ EXCEPT ![t] = v]]
      BY <1>1, <1>2, <1>4, <2>3, <3>1 DEF TimerSetPeriodic, TimerState
    <3> QED BY <3>2, <3>3
  <2>4. ASSUME NEW n \in TimerTimes, TimerSetTime(t, n)
        PROVE  \E v : v.init \in TimerTimes /\ tmr' = [tmr EXCEPT !.rec = [@ EXCEPT ![t] = v]]
    <3>1. PICK v : v = [w EXCEPT !.init = n] OBVIOUS
    <3>2. v.init \in TimerTimes BY <1>5, <2>4, <3>1 DEF TimerRecord
    <3>3. tmr' = [tmr EXCEPT !.rec = [@ EXCEPT ![t] = v]]
      BY <1>1, <1>2, <1>4, <2>4, <3>1 DEF TimerSetTime, TimerState
    <3> QED BY <3>2, <3>3
  <2>5. ASSUME NEW n \in TimerTimes, NEW per \in BOOLEAN, TimerCreate(t, n, per)
        PROVE  \E v : v.init \in TimerTimes /\ tmr' = [tmr EXCEPT !.rec = [@ EXCEPT ![t] = v]]
    <3>1. PICK v : v = [exists |-> TRUE, periodic |-> per, active |-> FALSE, init |-> n] OBVIOUS
    <3>2. v.init \in TimerTimes BY <2>5, <3>1
    <3>3. tmr' = [tmr EXCEPT !.rec = [@ EXCEPT ![t] = v]]
      BY <1>1, <2>5, <3>1 DEF TimerCreate, TimerState
    <3> QED BY <3>2, <3>3
  <2> QED BY <2>1, <2>2, <2>3, <2>4, <2>5
<1>7. /\ tmr'.hard = tmr.hard /\ tmr'.soft = tmr.soft /\ tmr'.cur = tmr.cur
      /\ tmr'.stat = tmr.stat /\ \A u \in AppTimer : tmr'.rec[u].init \in TimerTimes
  <2>1. CASE tmr' = tmr BY <1>1, <2>1
  <2>2. ASSUME NEW v, v.init \in TimerTimes, tmr' = [tmr EXCEPT !.rec = [@ EXCEPT ![t] = v]]
        PROVE  /\ tmr'.hard = tmr.hard /\ tmr'.soft = tmr.soft /\ tmr'.cur = tmr.cur
               /\ tmr'.stat = tmr.stat /\ \A u \in AppTimer : tmr'.rec[u].init \in TimerTimes
    <3>1. PICK f : f = [tmr.rec EXCEPT ![t] = v] OBVIOUS
    <3>2. tmr' = [tmr EXCEPT !.rec = f] BY <2>2, <3>1
    <3>3. \A u \in AppTimer : f[u].init \in TimerTimes BY <1>1, <1>2, <2>2, <3>1
    <3> QED BY <1>1, <3>2, <3>3 DEF TimerState
  <2> QED BY <1>6, <2>1, <2>2
<1>8. Paced(tmr', tick, threadPc', next_timeout')
  <2>1. Paced(tmr', tick, threadPc, next_timeout) BY <1>1, <1>7, PacedKept
  <2> QED BY <1>3, <2>1
<1> QED BY <1>3, <1>7, <1>8, ListsKept

LEMMA UseStep ==
    ASSUME Timely, TimerInductive, TimerOrder, TimerUse
    PROVE  TimerOrder' /\ DeadlineStep
  BY StartStep, StopStep, ControlStep DEF TimerUse

-----------------------------------------------------------------------------
(* The tick interrupt *)

\* The entry of a listed timer of the application.
LEMMA EntryLeft ==
    ASSUME NEW x, Tidy(x), NEW now
    PROVE  /\ \A e \in Range(x.hard) \cup Range(x.soft) :
                e.timer \in AppTimer => LeftOf(x, now)[e.timer] = Left(e.at, now)
           /\ \A t \in Listed(x) : \E e \in Range(x.hard) \cup Range(x.soft) :
                e.timer = t /\ (t \in SoftTimer <=> e \in Range(x.soft))
                            /\ (t \notin SoftTimer <=> e \in Range(x.hard))
           /\ \A t \in AppTimer \ Listed(x) : LeftOf(x, now)[t] = 0
<1>1. /\ x.hard \in Seq(TimerEntry) /\ x.soft \in Seq(TimerEntry)
      /\ EachOnce(x.hard) /\ EachOnce(x.soft) /\ TimersIn(x.hard) \cap SoftTimer = {}
      /\ TimersIn(x.soft) \subseteq SoftTimer
  BY StateFields DEF Tidy
<1>2. ASSUME NEW list \in Seq(TimerEntry), EachOnce(list), NEW d \in Range(list), NEW e \in Range(list),
             d.timer = e.timer
      PROVE  d = e
  <2>1. PICK i \in 1 .. Len(list) : list[i] = d BY <1>2, InRange
  <2>2. PICK j \in 1 .. Len(list) : list[j] = e BY <1>2, InRange
  <2>3. i = j BY <1>2, <2>1, <2>2, InTimersIn
  <2> QED BY <2>1, <2>2, <2>3
<1>3. /\ \A e \in Range(x.hard) : e.timer \in TimersIn(x.hard) /\ e.timer \notin SoftTimer
      /\ \A e \in Range(x.soft) : e.timer \in TimersIn(x.soft) /\ e.timer \in SoftTimer
  BY <1>1, InRange
<1>4. ASSUME NEW e \in Range(x.hard) \cup Range(x.soft), e.timer \in AppTimer
      PROVE  LeftOf(x, now)[e.timer] = Left(e.at, now)
  <2>1. ASSUME NEW d \in Range(x.hard) \cup Range(x.soft), d.timer = e.timer PROVE d = e
    <3>1. CASE e \in Range(x.hard)
      <4>1. d \in Range(x.hard) BY <1>3, <2>1, <3>1
      <4> QED BY <1>1, <1>2, <2>1, <3>1, <4>1
    <3>2. CASE e \in Range(x.soft)
      <4>1. d \in Range(x.soft) BY <1>3, <2>1, <3>2
      <4> QED BY <1>1, <1>2, <2>1, <3>2, <4>1
    <3> QED BY <3>1, <3>2
  <2>2. EntriesFor(x, e.timer) = {e} BY <2>1 DEF EntriesFor
  <2>3. LeftOf(x, now)[e.timer] = LeftIn(EntriesFor(x, e.timer), now) BY <1>4 DEF LeftOf
  <2> QED BY <2>2, <2>3, LeftInFacts
<1>5. ASSUME NEW t \in Listed(x)
      PROVE  \E e \in Range(x.hard) \cup Range(x.soft) :
                e.timer = t /\ (t \in SoftTimer <=> e \in Range(x.soft))
                            /\ (t \notin SoftTimer <=> e \in Range(x.hard))
  <2>1. CASE t \in TimersIn(x.hard)
    <3>1. PICK e \in Range(x.hard) : e.timer = t BY <1>1, <2>1, InRange
    <3> QED BY <1>3, <3>1
  <2>2. CASE t \in TimersIn(x.soft)
    <3>1. PICK e \in Range(x.soft) : e.timer = t BY <1>1, <2>2, InRange
    <3> QED BY <1>3, <3>1
  <2> QED BY <2>1, <2>2 DEF Listed
<1>6. ASSUME NEW t \in AppTimer \ Listed(x) PROVE LeftOf(x, now)[t] = 0
  <2>1. EntriesFor(x, t) = {} BY <1>3, <1>6 DEF EntriesFor, Listed
  <2>2. LeftOf(x, now)[t] = LeftIn(EntriesFor(x, t), now) BY <1>6 DEF LeftOf
  <2> QED BY <2>1, <2>2, LeftInFacts
<1> QED BY <1>4, <1>5, <1>6

\* The times left, while the bounds hold.
LEMMA TimesLeft ==
    ASSUME Timely, TimerInductive, TimerOrder
    PROVE  /\ \A e \in Range(tmr.hard) : /\ e \in TimerEntry /\ e.at \in Instant /\ Left(e.at, tick) \in Int
                                         /\ Low(tickIsr) <= Left(e.at, tick)
                                         /\ Left(e.at, tick) < HalfRange
                                         /\ Left(e.at, tick) > 0 - HalfRange
           /\ \A e \in Range(tmr.soft) : /\ e \in TimerEntry /\ e.at \in Instant /\ Left(e.at, tick) \in Int
                                         /\ 0 - Late <= Left(e.at, tick)
                                         /\ Left(e.at, tick) <= Reach
                                         /\ Left(e.at, tick) > 0 - HalfRange
<1>1. /\ tmr.hard \in Seq(TimerEntry) /\ tmr.soft \in Seq(TimerEntry) /\ tick \in Instant
      /\ Ordered(tmr, startOrder, tick, Low(tickIsr)) /\ Low(tickIsr) \in {0, 0 - 1}
  BY OrderParts
<1>2. \A e \in Range(tmr.hard) \cup Range(tmr.soft) : e \in TimerEntry /\ e.at \in Instant
  <2>1. \A e \in TimerEntry : e.at \in Instant BY EntryType DEF Instant
  <2> QED BY <1>1, <2>1, InRange
<1>3. \A e \in Range(tmr.hard) \cup Range(tmr.soft) :
         Left(e.at, tick) \in Int /\ Left(e.at, tick) < HalfRange
  BY <1>1, <1>2, LeftValue
<1>4. HalfRange \in Nat /\ HalfRange > 1
  <2>1. TickRange \in Nat /\ TickRange > 4 BY TimerConstants
  <2>2. HalfRange \in Nat /\ TickRange <= 2 * HalfRange + 2 BY Halves
  <2> QED BY <2>1, <2>2
<1>5. Late \in Nat /\ Late < HalfRange BY Spans
<1>6. \A e \in Range(tmr.hard) : Low(tickIsr) <= Left(e.at, tick) /\ Left(e.at, tick) > 0 - HalfRange
  <2>1. \A e \in Range(tmr.hard) : Low(tickIsr) <= Left(e.at, tick) BY <1>1 DEF Ordered, Between
  <2> QED BY <1>1, <1>3, <1>4, <2>1
<1>7. \A e \in Range(tmr.soft) : 0 - Late <= Left(e.at, tick) /\ Left(e.at, tick) <= Reach
                                 /\ Left(e.at, tick) > 0 - HalfRange
  <2>1. \A e \in Range(tmr.soft) : 0 - Late <= Left(e.at, tick) /\ Left(e.at, tick) <= Reach
    BY <1>1 DEF Ordered, Between
  <2> QED BY <1>3, <1>4, <1>5, <2>1
<1> QED BY <1>2, <1>3, <1>6, <1>7

\* One tick later, when every time that is left can be counted down.
LEMMA LaterOrder ==
    ASSUME NEW list \in Seq(TimerEntry), NEW order, NEW now, NEW then,
           \A e \in Range(list) : Left(e.at, now) \in Int /\ Left(e.at, then) = Left(e.at, now) - 1,
           InOrder(list, order, now)
    PROVE  InOrder(list, order, then)
<1> SUFFICES ASSUME NEW i \in 1 .. Len(list), NEW j \in 1 .. Len(list), i < j
             PROVE  Before(list[i], list[j], order, then)
  BY DEF InOrder
<1>1. list[i] \in Range(list) /\ list[j] \in Range(list) BY InRange
<1>2. PICK d, e : d = list[i] /\ e = list[j] OBVIOUS
<1>3. PICK a, b \in Int : a = Left(d.at, now) /\ b = Left(e.at, now) BY <1>1, <1>2
<1>4. Left(d.at, then) = a - 1 /\ Left(e.at, then) = b - 1 BY <1>1, <1>2, <1>3
<1>5. a <= b /\ (a = b => Earlier(order, d.timer, e.timer)) BY <1>2, <1>3 DEF InOrder, Before
<1>6. a - 1 <= b - 1 /\ (a - 1 = b - 1 => Earlier(order, d.timer, e.timer)) BY <1>3, <1>5
<1> QED BY <1>2, <1>4, <1>6 DEF Before

\* The timer thread has not been held up for longer than SoftGrace.
LEMMA NotLate ==
    ASSUME Timely, TimerInductive, TimerOrder, TimerThreadKeepsUp,
           tmr.stat = "ready" \/ tmr.status = "busy", NEW e \in Range(tmr.soft)
    PROVE  Left(e.at, tick) > 0 - SoftGrace \/ Left(e.at, tick) > 0
<1>1. tick \in Instant BY OrderParts
<1>2. e.at \in Instant /\ Left(e.at, tick) \in Int /\ Left(e.at, tick) > 0 - HalfRange BY TimesLeft
<1>3. TickMinus(tick, e.at) \notin SoftGrace..(HalfRange - 1) BY DEF TimerThreadKeepsUp
<1>4. PICK l \in Int : l = Left(e.at, tick) BY <1>2
<1>5. SoftGrace \in Nat /\ HalfRange \in Nat BY Spans
<1>6. ASSUME l <= 0 PROVE l > 0 - SoftGrace
  <2>1. TickMinus(tick, e.at) = 0 - l BY <1>1, <1>2, <1>4, <1>6, LeftDue
  <2>2. 0 - l \notin SoftGrace..(HalfRange - 1) BY <1>3, <2>1
  <2>3. l > 0 - HalfRange BY <1>2, <1>4
  <2> QED BY <1>4, <1>5, <1>6, <2>2, <2>3
<1> QED BY <1>4, <1>6

LEMMA ClockStep ==
    ASSUME Timely, TimerInductive, TimerOrder, ClockTick
    PROVE  TimerOrder' /\ DeadlineStep
<1>1. /\ Counters /\ Controlled(tmr, tickIsr, threadPc) /\ Tidy(tmr) /\ tick \in Instant
      /\ tmr.hard \in Seq(TimerEntry) /\ tmr.soft \in Seq(TimerEntry)
      /\ Ordered(tmr, startOrder, tick, Low(tickIsr))
      /\ Paced(tmr, tick, threadPc, next_timeout)
      /\ tmr.stat \in {"ready", "suspend"} /\ tmr.status \in {"idle", "busy"}
  BY OrderParts, StateFields
<1>2. /\ tickIsr = "idle" /\ TimerThreadKeepsUp /\ tick' = (tick + 1) % TickRange
      /\ tickIsr' = "check" /\ UNCHANGED <<tmr, threadPc, next_timeout, startOrder>>
  BY DEF ClockTick
<1>3. /\ Low(tickIsr) = 0 /\ Low(tickIsr') = 0 - 1 BY <1>2 DEF Low
<1>4. \A e \in Range(tmr.hard) : e \in TimerEntry /\ e.at \in Instant /\ Left(e.at, tick) \in Int /\ 0 <= Left(e.at, tick)
                                 /\ Left(e.at, tick) < HalfRange
                                 /\ Left(e.at, tick) > 0 - HalfRange
  BY <1>3, TimesLeft
<1>5. \A e \in Range(tmr.soft) : e \in TimerEntry /\ e.at \in Instant /\ Left(e.at, tick) \in Int
                                 /\ 0 - Late <= Left(e.at, tick)
                                 /\ Left(e.at, tick) <= Reach /\ Left(e.at, tick) > 0 - HalfRange
  BY TimesLeft
<1>6. \A at \in Instant : Left(at, tick) > 0 - HalfRange => Left(at, tick') = Left(at, tick) - 1
  BY <1>1, <1>2, LeftAfterTick
<1>7. \A e \in Range(tmr.hard) \cup Range(tmr.soft) : Left(e.at, tick') = Left(e.at, tick) - 1
  BY <1>4, <1>5, <1>6
<1>8. /\ Reach \in Nat /\ Late \in Nat /\ SoftGrace \in Nat /\ HalfRange \in Nat
      /\ Late = SoftGrace + Reach + 1 /\ Late + Reach <= HalfRange /\ Late < HalfRange
  BY Spans
<1>9. tmr.stat = "suspend" => threadPc \in {"check", "callback"} BY <1>1 DEF Paced
<1>10. tmr.status = "busy" <=> threadPc \in {"callback", "awake"} BY <1>1 DEF Controlled
<1>11. ASSUME NEW e \in Range(tmr.soft), tmr.stat = "ready" \/ tmr.status = "busy"
       PROVE  Left(e.at, tick) - 1 >= 0 - SoftGrace
  <2>1. Left(e.at, tick) > 0 - SoftGrace \/ Left(e.at, tick) > 0 BY <1>2, <1>11, NotLate
  <2>2. Left(e.at, tick) \in Int BY <1>5
  <2> QED BY <1>8, <2>1, <2>2
<1>12. ASSUME NEW e \in Range(tmr.soft), tmr.stat = "suspend", threadPc = "check"
       PROVE  \E d \in Range(tmr.hard) :
                 d.timer = ThreadTimer /\ Left(d.at, tick) <= Left(e.at, tick) + SoftGrace + Reach
  <2>1. Pace(tmr, e, tick, threadPc, next_timeout) BY <1>1, <1>12 DEF Paced
  <2> QED BY <1>12, <2>1 DEF Pace
<1>13. ASSUME NEW e \in Range(tmr.soft) PROVE Left(e.at, tick) - 1 >= 0 - Late
  <2>0. Left(e.at, tick) \in Int BY <1>5
  <2>1. CASE tmr.stat = "ready" \/ tmr.status = "busy"
    <3>1. Left(e.at, tick) - 1 >= 0 - SoftGrace BY <1>11, <2>1
    <3> QED BY <1>8, <2>0, <3>1
  <2>2. CASE ~(tmr.stat = "ready" \/ tmr.status = "busy")
    <3>1. tmr.stat = "suspend" /\ threadPc = "check" BY <1>1, <1>9, <1>10, <2>2
    <3>2. PICK d \in Range(tmr.hard) : Left(d.at, tick) <= Left(e.at, tick) + SoftGrace + Reach
      BY <1>12, <3>1
    <3>3. Left(d.at, tick) \in Int /\ 0 <= Left(d.at, tick) BY <1>4
    <3> QED BY <1>8, <2>0, <3>2, <3>3
  <2> QED BY <2>1, <2>2
<1>14. Ordered(tmr, startOrder, tick', 0 - 1)
  <2>1. InOrder(tmr.hard, startOrder, tick')
    <3>1. InOrder(tmr.hard, startOrder, tick) BY <1>1 DEF Ordered
    <3>2. \A e \in Range(tmr.hard) : Left(e.at, tick) \in Int /\ Left(e.at, tick') = Left(e.at, tick) - 1
      BY <1>4, <1>7
    <3> QED BY <1>1, <3>1, <3>2, LaterOrder
  <2>2. InOrder(tmr.soft, startOrder, tick')
    <3>1. InOrder(tmr.soft, startOrder, tick) BY <1>1 DEF Ordered
    <3>2. \A e \in Range(tmr.soft) : Left(e.at, tick) \in Int /\ Left(e.at, tick') = Left(e.at, tick) - 1
      BY <1>5, <1>7
    <3> QED BY <1>1, <3>1, <3>2, LaterOrder
  <2>3. Between(tmr.hard, 0 - 1, HalfRange - 1, tick')
    <3> SUFFICES ASSUME NEW e \in Range(tmr.hard)
                 PROVE  0 - 1 <= Left(e.at, tick') /\ Left(e.at, tick') <= HalfRange - 1
      BY DEF Between
    <3>1. PICK l \in Int : l = Left(e.at, tick) /\ 0 <= l /\ l < HalfRange BY <1>4
    <3>2. Left(e.at, tick') = l - 1 BY <1>7, <3>1
    <3> QED BY <1>8, <3>1, <3>2
  <2>4. Between(tmr.soft, 0 - Late, Reach, tick')
    <3> SUFFICES ASSUME NEW e \in Range(tmr.soft)
                 PROVE  0 - Late <= Left(e.at, tick') /\ Left(e.at, tick') <= Reach
      BY DEF Between
    <3>1. PICK l \in Int : l = Left(e.at, tick) /\ l - 1 >= 0 - Late /\ l <= Reach BY <1>5, <1>13
    <3>2. Left(e.at, tick') = l - 1 BY <1>7, <3>1
    <3> QED BY <1>8, <3>1, <3>2
  <2> QED BY <1>1, <2>1, <2>2, <2>3, <2>4 DEF Ordered
<1>15. ASSUME NEW e \in Range(tmr.soft) PROVE Pace(tmr, e, tick', threadPc, next_timeout)
  <2>1. Pace(tmr, e, tick, threadPc, next_timeout) BY <1>1 DEF Paced
  <2>2. PICK l \in Int : l = Left(e.at, tick) BY <1>5
  <2>3. Left(e.at, tick') = l - 1 BY <1>7, <2>2
  <2>4. threadPc # "suspend" BY <2>1 DEF Pace
  <2>5. ASSUME threadPc \in {"next", "delay", "sleep"} PROVE 0 - SoftGrace <= Left(e.at, tick')
    <3>1. tmr.stat = "ready" BY <1>1, <1>9, <2>5
    <3>2. l - 1 >= 0 - SoftGrace BY <1>11, <2>2, <3>1
    <3> QED BY <1>8, <2>2, <2>3, <3>2
  <2>6. ASSUME threadPc = "next", NEW d \in Range(tmr.soft)
        PROVE  Left(e.at, tick') <= Left(d.at, tick') + Reach
    <3>1. Left(e.at, tick) <= Left(d.at, tick) + Reach BY <2>1, <2>6 DEF Pace
    <3>2. PICK m \in Int : m = Left(d.at, tick) BY <1>5
    <3>3. Left(d.at, tick') = m - 1 BY <1>7, <3>2
    <3> QED BY <1>8, <2>2, <2>3, <3>1, <3>2, <3>3
  <2>7. ASSUME threadPc = "delay"
        PROVE  /\ Left(next_timeout, tick') <= Left(e.at, tick')
               /\ Left(e.at, tick') <= Left(next_timeout, tick') + Reach
    <3>1. /\ Left(next_timeout, tick) <= Left(e.at, tick)
          /\ Left(e.at, tick) <= Left(next_timeout, tick) + Reach
          /\ 0 - SoftGrace <= Left(e.at, tick)
      BY <2>1, <2>7 DEF Pace
    <3>2. next_timeout \in Instant BY <1>1 DEF Counters, Instant
    <3>3. PICK m \in Int : m = Left(next_timeout, tick) BY <1>1, <3>2, LeftValue
    <3>4. m > 0 - HalfRange BY <1>8, <2>2, <3>1, <3>3
    <3>5. Left(next_timeout, tick') = m - 1 BY <1>6, <3>2, <3>3, <3>4
    <3> QED BY <1>8, <2>2, <2>3, <3>1, <3>3, <3>5
  <2>8. threadPc = "sleep" => next_timeout <= Reach BY <2>1 DEF Pace
  <2>9. ASSUME threadPc = "check", tmr.stat = "suspend"
        PROVE  \E d \in Range(tmr.hard) :
                  d.timer = ThreadTimer /\ Left(d.at, tick') <= Left(e.at, tick') + SoftGrace + Reach
    <3>1. PICK d \in Range(tmr.hard) :
            d.timer = ThreadTimer /\ Left(d.at, tick) <= Left(e.at, tick) + SoftGrace + Reach
      BY <1>12, <2>9
    <3>2. PICK m \in Int : m = Left(d.at, tick) BY <1>4
    <3>3. Left(d.at, tick') = m - 1 BY <1>7, <3>2
    <3>4. Left(d.at, tick') <= Left(e.at, tick') + SoftGrace + Reach
      BY <1>8, <2>2, <2>3, <3>1, <3>2, <3>3
    <3> QED BY <3>1, <3>4
  <2> QED BY <2>4, <2>5, <2>6, <2>7, <2>8, <2>9 DEF Pace
<1>16. Paced(tmr, tick', threadPc, next_timeout) BY <1>9, <1>15 DEF Paced
<1>17. TimerOrder' BY <1>2, <1>3, <1>14, <1>16, OrderNext
<1>18. Range(startOrder) = Listed(tmr) \ {ThreadTimer} /\ Range(startOrder) \subseteq AppTimer
  <2>1. Range(startOrder) = Listed(tmr) \ {ThreadTimer} /\ OrderOK(startOrder) BY <1>1 DEF Ordered
  <2> QED BY <2>1, InOrderRange
<1>19. \A t \in Range(startOrder) \ SoftTimer : LeftOf(tmr, tick)[t] >= 0
  <2> SUFFICES ASSUME NEW t \in Range(startOrder) \ SoftTimer PROVE LeftOf(tmr, tick)[t] >= 0
    OBVIOUS
  <2>1. PICK e \in Range(tmr.hard) : e.timer = t BY <1>1, <1>18, EntryLeft
  <2>2. LeftOf(tmr, tick)[t] = Left(e.at, tick) BY <1>1, <1>18, <2>1, EntryLeft
  <2> QED BY <1>4, <2>2
<1>20. LeftOf(tmr, tick') = [t \in AppTimer |->
            IF t \in Range(startOrder) THEN LeftOf(tmr, tick)[t] - 1 ELSE 0]
  <2>1. ASSUME NEW t \in AppTimer
        PROVE  LeftOf(tmr, tick')[t] =
                   IF t \in Range(startOrder) THEN LeftOf(tmr, tick)[t] - 1 ELSE 0
    <3>1. CASE t \in Range(startOrder)
      <4>1. PICK e \in Range(tmr.hard) \cup Range(tmr.soft) : e.timer = t
        BY <1>1, <1>18, <3>1, EntryLeft
      <4>2. LeftOf(tmr, tick)[t] = Left(e.at, tick) BY <1>1, <4>1, <2>1, EntryLeft
      <4>3. LeftOf(tmr, tick')[t] = Left(e.at, tick') BY <1>1, <4>1, <2>1, EntryLeft
      <4> QED BY <1>7, <3>1, <4>1, <4>2, <4>3
    <3>2. CASE t \notin Range(startOrder)
      <4>1. t \in AppTimer \ Listed(tmr) BY <1>18, <2>1, <3>2, TimerKinds
      <4> QED BY <1>1, <3>2, <4>1, EntryLeft
    <3> QED BY <3>1, <3>2
  <2>2. LeftOf(tmr, tick') = [t \in AppTimer |-> LeftOf(tmr, tick')[t]] BY DEF LeftOf
  <2> QED BY <2>1, <2>2
<1>21. Promise!DeadlinesNext BY <1>2, <1>19, <1>20, PassStep
<1> QED BY <1>17, <1>21 DEF DeadlineStep

\* The head of a list tells whether any of its timers is due.
LEMMA DueLeft ==
    ASSUME NEW list \in Seq(TimerEntry), NEW order, tick \in Instant, InOrder(list, order, tick),
           \A e \in Range(list) : e.at \in Instant /\ Left(e.at, tick) \in Int
                                  /\ Left(e.at, tick) > 0 - HalfRange
    PROVE  /\ TimerDue(list) => list # << >> /\ Left(Head(list).at, tick) <= 0
           /\ ~TimerDue(list) => \A e \in Range(list) : Left(e.at, tick) > 0
<1>1. CASE list = << >>
  <2>1. Range(list) = {}
    <3>1. Len(list) = 0 BY <1>1
    <3>2. \A i : i \notin 1 .. Len(list) BY <3>1
    <3> QED BY <3>2, InRange
  <2> QED BY <1>1, <2>1 DEF TimerDue
<1>2. CASE list # << >>
  <2>1. Len(list) \in Nat /\ Len(list) # 0 /\ Head(list) = list[1] BY <1>2
  <2>2. 1 \in 1 .. Len(list) BY <2>1
  <2>3. Head(list) \in Range(list) BY <2>1, <2>2, InRange
  <2>4. PICK h : h = Head(list) OBVIOUS
  <2>5. h.at \in Instant /\ Left(h.at, tick) \in Int /\ Left(h.at, tick) > 0 - HalfRange
    BY <2>3, <2>4
  <2>6. TickMinus(tick, h.at) < HalfRange <=> Left(h.at, tick) <= 0 BY <2>5, LeftDue
  <2>7. TimerDue(list) <=> Left(h.at, tick) <= 0 BY <1>2, <2>4, <2>6 DEF TimerDue
  <2>8. ASSUME NEW e \in Range(list) PROVE Left(h.at, tick) <= Left(e.at, tick)
    <3>1. PICK i \in 1 .. Len(list) : list[i] = e BY <2>8, InRange
    <3>2. CASE i = 1 BY <2>1, <2>4, <2>5, <3>1, <3>2
    <3>3. CASE i # 1
      <4>1. 1 < i BY <2>1, <3>3
      <4>2. Before(list[1], list[i], order, tick) BY <2>2, <4>1 DEF InOrder
      <4> QED BY <2>1, <2>4, <3>1, <4>2 DEF Before
    <3> QED BY <3>2, <3>3
  <2>9. ASSUME ~(Left(h.at, tick) <= 0), NEW e \in Range(list) PROVE Left(e.at, tick) > 0
    <3>1. PICK a, b \in Int : a = Left(h.at, tick) /\ b = Left(e.at, tick) BY <2>5
    <3>2. a <= b /\ ~(a <= 0) BY <2>8, <2>9, <3>1
    <3> QED BY <3>1, <3>2
  <2> QED BY <1>2, <2>4, <2>7, <2>9
<1> QED BY <1>1, <1>2

FirstUp(x, order, now, e, i) ==
    /\ order[i] = e.timer
    /\ LeftOf(x, now)[order[i]] = Left(e.at, now)
    /\ \A j \in DOMAIN order \ {i} :
        (order[j] \in SoftTimer <=> order[i] \in SoftTimer) =>
            \/ LeftOf(x, now)[order[i]] < LeftOf(x, now)[order[j]]
            \/ LeftOf(x, now)[order[i]] = LeftOf(x, now)[order[j]] /\ i < j

\* The head of a list is the timer that Deadlines calls.
LEMMA HeadForemost ==
    ASSUME NEW x, Tidy(x), NEW order, NEW now \in Instant, NEW low, Ordered(x, order, now, low),
           NEW list \in Seq(TimerEntry), list = x.hard \/ list = x.soft,
           list # << >>, Head(list).timer \in AppTimer
    PROVE  \E i \in DOMAIN order : FirstUp(x, order, now, Head(list), i)
<1>1. /\ x.hard \in Seq(TimerEntry) /\ x.soft \in Seq(TimerEntry)
      /\ TimersIn(x.hard) \cap SoftTimer = {} /\ TimersIn(x.soft) \subseteq SoftTimer
  BY StateFields DEF Tidy
<1>2. /\ OrderOK(order) /\ Range(order) = Listed(x) \ {ThreadTimer}
      /\ InOrder(x.hard, order, now) /\ InOrder(x.soft, order, now)
  BY DEF Ordered
<1>3. InOrder(list, order, now) /\ Range(list) \subseteq Range(x.hard) \cup Range(x.soft)
  BY <1>2
<1>4. \A t \in TimersIn(list), u \in Listed(x) :
        (u \in SoftTimer <=> t \in SoftTimer) => u \in TimersIn(list)
  <2>1. CASE list = x.hard BY <1>1, <2>1 DEF Listed
  <2>2. CASE list = x.soft BY <1>1, <2>2 DEF Listed
  <2> QED BY <2>1, <2>2
<1>5. TimersIn(list) \subseteq Listed(x) BY DEF Listed
<1>6. Len(list) \in Nat /\ 1 \in 1 .. Len(list) /\ Head(list) = list[1]
  <2>1. Len(list) \in Nat /\ Len(list) # 0 /\ Head(list) = list[1] OBVIOUS
  <2> QED BY <2>1
<1>7. PICK h : h = Head(list) OBVIOUS
<1>8. PICK t : t = h.timer OBVIOUS
<1>9. h \in Range(list) /\ t \in TimersIn(list) /\ t \in Listed(x) /\ t \in AppTimer
  BY <1>5, <1>6, <1>7, <1>8, InRange, InTimersIn
<1>10. t \in Range(order) BY <1>2, <1>9, TimerKinds
<1>11. order \in Seq(AppTimer) /\ IsInjective(order) /\ DOMAIN order = 1 .. Len(order)
  BY <1>2 DEF OrderOK
<1>12. PICK i \in DOMAIN order : order[i] = t BY <1>2, <1>10, <1>11, InOrderRange
<1>13. LeftOf(x, now)[t] = Left(h.at, now) BY <1>3, <1>8, <1>9, EntryLeft
<1>14. ASSUME NEW j \in DOMAIN order \ {i}, order[j] \in SoftTimer <=> t \in SoftTimer
       PROVE  \/ LeftOf(x, now)[t] < LeftOf(x, now)[order[j]]
              \/ LeftOf(x, now)[t] = LeftOf(x, now)[order[j]] /\ i < j
  <2>1. PICK u : u = order[j] OBVIOUS
  <2>2. u \in Range(order) /\ u \in AppTimer BY <1>2, <1>11, <2>1, InOrderRange
  <2>3. u # t BY <1>11, <1>12, <1>14, <2>1 DEF IsInjective
  <2>4. u \in TimersIn(list) BY <1>2, <1>4, <1>9, <1>14, <2>1, <2>2
  <2>5. PICK p \in 1 .. Len(list) : list[p].timer = u BY <2>4, InTimersIn
  <2>6. p # 1 BY <1>6, <1>7, <1>8, <2>3, <2>5
  <2>7. 1 < p BY <1>6, <2>6
  <2>8. Before(list[1], list[p], order, now) BY <1>3, <1>6, <2>7 DEF InOrder
  <2>9. list[p] \in Range(list) BY InRange
  <2>10. LeftOf(x, now)[u] = Left(list[p].at, now) BY <1>3, <2>2, <2>5, <2>9, EntryLeft
  <2>11. /\ h.at \in Instant /\ list[p].at \in Instant
    <3>1. \A e \in TimerEntry : e.at \in Instant BY EntryType DEF Instant
    <3> QED BY <1>9, <2>9, <3>1, InRange
  <2>12. Left(h.at, now) \in Int /\ Left(list[p].at, now) \in Int BY <2>11, LeftValue
  <2>13. Left(h.at, now) <= Left(list[p].at, now)
         /\ (Left(h.at, now) = Left(list[p].at, now) => Earlier(order, t, u))
    BY <1>6, <1>7, <1>8, <2>5, <2>8 DEF Before
  <2>14. Earlier(order, t, u) => i < j BY <1>11, <1>12, <2>1 DEF Earlier
  <2>15. PICK a, b \in Int : a = Left(h.at, now) /\ b = Left(list[p].at, now) BY <2>12
  <2>16. a < b \/ (a = b /\ i < j) BY <2>13, <2>14, <2>15
  <2> QED BY <1>13, <2>1, <2>10, <2>15, <2>16
<1> QED BY <1>7, <1>8, <1>12, <1>13, <1>14 DEF FirstUp

LEMMA OneSet ==
    ASSUME NEW S, NEW f \in [BOOLEAN -> S], NEW g \in [BOOLEAN -> S], NEW c \in BOOLEAN, NEW v,
           g[c] = v, \A d \in BOOLEAN \ {c} : g[d] = f[d]
    PROVE  g = [f EXCEPT ![c] = v]
  OBVIOUS

\* A check takes the first timer of its list.
LEMMA TakeStep ==
    ASSUME Timely, TimerInductive, TimerOrder, NEW c \in BOOLEAN, NEW list \in Seq(TimerEntry),
           list = tmr.hard \/ list = tmr.soft, list # << >>, Head(list).timer \in AppTimer,
           c <=> Head(list).timer \in SoftTimer,
           Left(Head(list).at, tick) <= 0, tmr.cur[c] = NoTimer,
           tmr'.cur = [tmr.cur EXCEPT ![c] = Head(list).timer],
           Cut(tmr, tmr', Head(list).timer), tickIsr # "idle" <=> ~c,
           tickIsr' # "idle" <=> tickIsr # "idle", tick' = tick,
           startOrder' = Removed(Head(list).timer),
           Fewer(tmr, tmr', Head(list).timer) => Paced(tmr', tick, threadPc', next_timeout')
    PROVE  TimerOrder' /\ DeadlineStep
<1>1. /\ Tidy(tmr) /\ tick \in Instant /\ OrderOK(startOrder)
      /\ Ordered(tmr, startOrder, tick, Low(tickIsr))
  BY OrderParts
<1>2. PICK t : t = Head(list).timer OBVIOUS
<1>3. OrderOff(startOrder, startOrder', t) BY <1>1, <1>2, RemovedOrder DEF Removed
<1>4. Ordered(tmr', startOrder', tick, Low(tickIsr)) /\ Fewer(tmr, tmr', t)
  BY <1>1, <1>2, <1>3, CutOrdered
<1>5. Low(tickIsr') = Low(tickIsr) BY DEF Low
<1>6. TimerOrder' BY <1>2, <1>4, <1>5, OrderNext
<1>7. Changed(tmr, tmr', tick, t, 0) BY <1>2, <1>4, FewerLeft
<1>8. PICK i \in DOMAIN startOrder : FirstUp(tmr, startOrder, tick, Head(list), i)
  BY <1>1, HeadForemost
<1>9. /\ tmr'.cur = [tmr.cur EXCEPT ![c] = startOrder[i]] /\ LeftOf(tmr, tick)[startOrder[i]] <= 0
      /\ startOrder' = Removed(startOrder[i]) /\ Changed(tmr, tmr', tick, startOrder[i], 0)
  BY <1>2, <1>7, <1>8 DEF FirstUp
<1>10. /\ c <=> startOrder[i] \in SoftTimer
       /\ \A j \in DOMAIN startOrder \ {i} :
            (startOrder[j] \in SoftTimer <=> startOrder[i] \in SoftTimer) =>
                \/ LeftOf(tmr, tick)[startOrder[i]] < LeftOf(tmr, tick)[startOrder[j]]
                \/ /\ LeftOf(tmr, tick)[startOrder[i]] = LeftOf(tmr, tick)[startOrder[j]]
                   /\ i < j
  BY <1>8 DEF FirstUp
<1>11. Promise!DeadlinesNext BY <1>9, <1>10, FirstCallStep
<1> QED BY <1>6, <1>11 DEF DeadlineStep

LEMMA CheckTakeStep ==
    ASSUME Timely, TimerInductive, TimerOrder, CheckTake
    PROVE  TimerOrder' /\ DeadlineStep
<1>1. /\ Sound(tmr, muted) /\ Controlled(tmr, tickIsr, threadPc) /\ Tidy(tmr) /\ tick \in Instant
      /\ tmr.hard \in Seq(TimerEntry) /\ Ordered(tmr, startOrder, tick, Low(tickIsr))
      /\ Paced(tmr, tick, threadPc, next_timeout) /\ tmr \in TimerState
  BY OrderParts
<1>2. PICK t : t = Head(tmr.hard).timer OBVIOUS
<1>3. /\ tickIsr = "check" /\ TimerDue(tmr.hard) /\ t # ThreadTimer /\ tmr' = TakeTimer(tmr, t)
      /\ tickIsr' = "callback" /\ startOrder' = Removed(t)
      /\ UNCHANGED <<tick, threadPc, next_timeout>>
  BY <1>2 DEF CheckTake
<1>4. InOrder(tmr.hard, startOrder, tick) BY <1>1 DEF Ordered
<1>5. tmr.hard # << >> /\ Left(Head(tmr.hard).at, tick) <= 0 BY <1>1, <1>3, <1>4, TimesLeft, DueLeft
<1>6. t \in TimersIn(tmr.hard) BY <1>1, <1>2, <1>5, HeadListed
<1>7. t \in Listed(tmr) /\ t \notin SoftTimer BY <1>1, <1>6 DEF Listed, Tidy
<1>8. t \in Timers /\ t \in AppTimer
  <2>1. Listed(tmr) \subseteq Timers BY <1>1, SoundFacts
  <2> QED BY <1>3, <1>7, <2>1 DEF Timers
<1>9. tmr.cur[FALSE] = NoTimer BY <1>1, <1>3 DEF Controlled
<1>10. FALSE <=> t \in SoftTimer BY <1>7
<1>11. Sound(tmr', muted) /\ Taken(tmr, tmr', t, FALSE)
  BY <1>1, <1>3, <1>7, <1>9, <1>10, TakeSound
<1>12. Cut(tmr, tmr', t) BY <1>1, <1>3, <1>8, <1>10, TakeLists
<1>13. /\ tmr.cur \in [BOOLEAN -> Timers \cup {NoTimer}] /\ tmr'.cur \in [BOOLEAN -> Timers \cup {NoTimer}]
  BY <1>1, <1>11, SoundFacts, StateFields
<1>14. tmr'.cur = [tmr.cur EXCEPT ![FALSE] = t] BY <1>11, <1>13, OneSet DEF Taken
<1>15. ASSUME Fewer(tmr, tmr', t) PROVE Paced(tmr', tick, threadPc', next_timeout')
  <2>1. tmr'.stat = tmr.stat BY <1>11 DEF Taken
  <2>2. Paced(tmr', tick, threadPc, next_timeout) BY <1>1, <1>3, <1>15, <2>1, FewerPaced
  <2> QED BY <1>3, <2>2
<1>16. PICK list : list = tmr.hard OBVIOUS
<1>17. /\ list \in Seq(TimerEntry) /\ (list = tmr.hard \/ list = tmr.soft)
       /\ list # << >> /\ Head(list).timer = t /\ Left(Head(list).at, tick) <= 0
  BY <1>1, <1>2, <1>5, <1>16
<1> QED BY <1>3, <1>8, <1>9, <1>10, <1>12, <1>14, <1>15, <1>17, TakeStep

LEMMA SoftTakeStep ==
    ASSUME Timely, TimerInductive, TimerOrder, SoftTake
    PROVE  TimerOrder' /\ DeadlineStep
<1>1. /\ Sound(tmr, muted) /\ Controlled(tmr, tickIsr, threadPc) /\ Tidy(tmr) /\ tick \in Instant
      /\ tmr.soft \in Seq(TimerEntry) /\ Ordered(tmr, startOrder, tick, Low(tickIsr))
      /\ tmr \in TimerState
  BY OrderParts
<1>2. PICK t : t = Head(tmr.soft).timer OBVIOUS
<1>3. PICK q : q = TakeTimer(tmr, t) OBVIOUS
<1>4. /\ tickIsr = "idle" /\ tickIsr' = tickIsr /\ threadPc = "check" /\ TimerDue(tmr.soft)
      /\ tmr' = [q EXCEPT !.status = "busy"] /\ threadPc' = "callback" /\ startOrder' = Removed(t)
      /\ tick' = tick
  BY <1>2, <1>3 DEF SoftTake, ThreadAt
<1>5. InOrder(tmr.soft, startOrder, tick) BY <1>1 DEF Ordered
<1>6. tmr.soft # << >> /\ Left(Head(tmr.soft).at, tick) <= 0 BY <1>1, <1>4, <1>5, TimesLeft, DueLeft
<1>7. t \in TimersIn(tmr.soft) BY <1>1, <1>2, <1>6, HeadListed
<1>8. t \in Listed(tmr) /\ t \in SoftTimer BY <1>1, <1>7 DEF Listed, Tidy
<1>9. t \in Timers /\ t \in AppTimer /\ t # ThreadTimer BY <1>8, TimerKinds
<1>10. tmr.cur[TRUE] = NoTimer BY <1>1, <1>4 DEF Controlled
<1>11. TRUE <=> t \in SoftTimer BY <1>8
<1>12. Sound(q, muted) /\ Taken(tmr, q, t, TRUE)
  BY <1>1, <1>3, <1>8, <1>9, <1>10, <1>11, TakeSound
<1>13. Cut(tmr, q, t) BY <1>1, <1>3, <1>9, <1>11, TakeLists
<1>14. q \in TimerState BY <1>12, SoundFacts
<1>15. tmr'.rec = q.rec /\ tmr'.hard = q.hard /\ tmr'.soft = q.soft /\ tmr'.cur = q.cur
  BY <1>4, <1>14 DEF TimerState
<1>16. Cut(tmr, tmr', t) BY <1>13, <1>15 DEF Cut, SameTimes
<1>17. /\ tmr.cur \in [BOOLEAN -> Timers \cup {NoTimer}] /\ tmr'.cur \in [BOOLEAN -> Timers \cup {NoTimer}]
  BY <1>1, <1>14, <1>15, StateFields
<1>18. tmr'.cur = [tmr.cur EXCEPT ![TRUE] = t]
  <2>1. tmr'.cur[TRUE] = t /\ \A d \in BOOLEAN \ {TRUE} : tmr'.cur[d] = tmr.cur[d]
    BY <1>12, <1>15 DEF Taken
  <2> QED BY <1>17, <2>1, OneSet
<1>19. Paced(tmr', tick, threadPc', next_timeout') BY <1>4, PacedFree
<1>20. PICK list : list = tmr.soft OBVIOUS
<1>21. /\ list \in Seq(TimerEntry) /\ (list = tmr.hard \/ list = tmr.soft)
       /\ list # << >> /\ Head(list).timer = t /\ Left(Head(list).at, tick) <= 0
  BY <1>1, <1>2, <1>6, <1>20
<1> QED BY <1>4, <1>9, <1>10, <1>11, <1>16, <1>18, <1>19, <1>21, TakeStep

\* The end of a callback.
PutDone(x, r, o, c, low) ==
    /\ Ordered(r, o, tick, low)
    /\ \/ o = startOrder /\ LeftOf(r, tick) = LeftOf(x, tick)
       \/ \E n \in 0..HalfRange : o = Restarted(x.cur[c]) /\ Changed(x, r, tick, x.cur[c], n)
    /\ r.cur = [x.cur EXCEPT ![c] = NoTimer]
    /\ x.stat = "ready" => r.stat = "ready"
    /\ x.cur[c] \notin SoftTimer =>
         \A step, until : Paced(x, tick, step, until) => Paced(r, tick, step, until)

LEMMA PutOrdered ==
    ASSUME Timely, NEW x, NEW m, Sound(x, m), NEW c \in BOOLEAN, x.cur[c] # NoTimer,
           tick \in Instant, NEW low \in {0, 0 - 1}, Ordered(x, startOrder, tick, low),
           NEW r, r = PutTimer(x, c), NEW o,
           o = IF Rearms(x, c) THEN Restarted(x.cur[c]) ELSE startOrder
    PROVE  PutDone(x, r, o, c, low)
<1>1. x \in TimerState /\ tick \in 0..(TickRange - 1) BY SoundFacts DEF Instant
<1>2. Sound(r, m) /\ Put(x, r, c) BY <1>1, PutSound
<1>3. r.cur = [x.cur EXCEPT ![c] = NoTimer]
  <2>1. x.cur \in [BOOLEAN -> Timers \cup {NoTimer}] /\ r.cur \in [BOOLEAN -> Timers \cup {NoTimer}]
    BY <1>1, <1>2, SoundFacts, StateFields
  <2>2. r.cur[c] = NoTimer /\ \A d \in BOOLEAN \ {c} : r.cur[d] = x.cur[d] BY <1>2 DEF Put
  <2> QED BY <2>1, <2>2, OneSet
<1>4. PICK t : t = x.cur[c] OBVIOUS
<1>5. t \in AppTimer /\ t \in Timers /\ t # ThreadTimer BY <1>4, TimerKinds DEF Sound, CallsHeld
<1>6. CASE ~Rearms(x, c)
  <2>1. Alike(x, r) /\ o = startOrder BY <1>6, PutLists
  <2>2. Ordered(r, o, tick, low) /\ LeftOf(r, tick) = LeftOf(x, tick) BY <2>1, AlikeOrdered
  <2>3. r.stat = x.stat /\ r.hard = x.hard /\ r.soft = x.soft BY <2>1 DEF Alike
  <2>4. \A step, until : Paced(x, tick, step, until) => Paced(r, tick, step, until)
    BY <2>3, PacedKept
  <2> QED BY <1>3, <2>1, <2>2, <2>3, <2>4 DEF PutDone
<1>7. CASE Rearms(x, c)
  <2>1. o = Restarted(t) BY <1>4, <1>7
  <2>2. PICK y : Tidy(y) /\ Alike(x, y) /\ r = rt_timer_start(y, t) BY <1>4, <1>7, PutLists
  <2>3. Ordered(y, startOrder, tick, low) /\ LeftOf(y, tick) = LeftOf(x, tick)
    BY <2>2, AlikeOrdered
  <2>4. OrderOK(startOrder) BY DEF Ordered
  <2>5. OrderOn(startOrder, o, t) BY <1>5, <2>1, <2>4, RestartedOrder DEF Restarted, Removed
  <2>6. /\ Ordered(r, o, tick, low) /\ Changed(y, r, tick, t, y.rec[t].init)
        /\ \/ /\ t \in SoftTimer /\ y.status = "idle" /\ y.stat = "suspend"
              /\ r.stat = "ready"
           \/ /\ ~(t \in SoftTimer /\ y.status = "idle" /\ y.stat = "suspend")
              /\ r.stat = y.stat /\ More(y, r, t, NewEntry(y, t, tick))
    BY <1>5, <2>2, <2>3, <2>5, StartOrdered
  <2>7. PICK n : n = y.rec[t].init OBVIOUS
  <2>8. n \in 0..HalfRange
    <3>1. y.rec \in [Timers -> TimerRecord] BY <2>2, StateFields DEF Tidy
    <3>2. n \in 0..(HalfRange - 1) BY <1>5, <2>7, <3>1 DEF TimerRecord
    <3> QED BY <3>2, Halves
  <2>9. Changed(x, r, tick, t, n) BY <2>3, <2>6, <2>7 DEF Changed
  <2>10. \E i \in 0..HalfRange : o = Restarted(x.cur[c]) /\ Changed(x, r, tick, x.cur[c], i)
    BY <1>4, <2>1, <2>8, <2>9
  <2>11. y.stat = x.stat /\ y.hard = x.hard /\ y.soft = x.soft BY <2>2 DEF Alike
  <2>12. x.stat = "ready" => r.stat = "ready" BY <2>6, <2>11
  <2>13. ASSUME t \notin SoftTimer, NEW step, NEW until, Paced(x, tick, step, until)
         PROVE  Paced(r, tick, step, until)
    <3>1. Paced(y, tick, step, until) BY <2>11, <2>13, PacedKept
    <3>2. r.stat = y.stat /\ More(y, r, t, NewEntry(y, t, tick)) BY <2>6, <2>13
    <3> QED BY <1>5, <2>13, <3>1, <3>2, MorePaced
  <2>14. x.cur[c] \notin SoftTimer =>
           \A step, until : Paced(x, tick, step, until) => Paced(r, tick, step, until)
    BY <1>4, <2>13
  <2> QED BY <1>3, <2>6, <2>10, <2>12, <2>14 DEF PutDone
<1> QED BY <1>6, <1>7

LEMMA CheckReturnStep ==
    ASSUME Timely, TimerInductive, TimerOrder, CheckReturn
    PROVE  TimerOrder' /\ DeadlineStep
<1>1. /\ Sound(tmr, muted) /\ Controlled(tmr, tickIsr, threadPc) /\ tick \in Instant
      /\ Ordered(tmr, startOrder, tick, Low(tickIsr)) /\ Low(tickIsr) \in {0, 0 - 1}
      /\ Paced(tmr, tick, threadPc, next_timeout)
  BY OrderParts
<1>2. /\ tickIsr = "callback" /\ tmr' = PutTimer(tmr, FALSE) /\ tickIsr' = "check"
      /\ startOrder' = IF Rearms(tmr, FALSE) THEN Restarted(tmr.cur[FALSE]) ELSE startOrder
      /\ UNCHANGED <<tick, threadPc, next_timeout>>
  BY DEF CheckReturn
<1>3. tmr.cur[FALSE] # NoTimer /\ tmr.cur[FALSE] \notin SoftTimer
  <2>1. tmr.cur[FALSE] # NoTimer BY <1>1, <1>2 DEF Controlled
  <2>2. tmr.cur[FALSE] \in (AppTimer \ SoftTimer) \cup {NoTimer} BY <1>1, SoundFacts
  <2> QED BY <2>1, <2>2
<1>4. /\ Ordered(tmr', startOrder', tick, Low(tickIsr))
      /\ \/ startOrder' = startOrder /\ LeftOf(tmr', tick) = LeftOf(tmr, tick)
         \/ \E n \in 0..HalfRange : /\ startOrder' = Restarted(tmr.cur[FALSE])
                                    /\ Changed(tmr, tmr', tick, tmr.cur[FALSE], n)
      /\ tmr'.cur = [tmr.cur EXCEPT ![FALSE] = NoTimer]
      /\ \A step, until : Paced(tmr, tick, step, until) => Paced(tmr', tick, step, until)
  <2>1. PICK low : low = Low(tickIsr) OBVIOUS
  <2>2. PICK o : o = IF Rearms(tmr, FALSE) THEN Restarted(tmr.cur[FALSE]) ELSE startOrder OBVIOUS
  <2>3. PICK r : r = PutTimer(tmr, FALSE) OBVIOUS
  <2>4. PICK c \in BOOLEAN : c = FALSE OBVIOUS
  <2>5. /\ low \in {0, 0 - 1} /\ Ordered(tmr, startOrder, tick, low) /\ tmr.cur[c] # NoTimer
        /\ o = (IF Rearms(tmr, c) THEN Restarted(tmr.cur[c]) ELSE startOrder) /\ r = PutTimer(tmr, c)
    BY <1>1, <1>3, <2>1, <2>2, <2>3, <2>4
  <2>6. PutDone(tmr, r, o, c, low) BY <1>1, <2>5, PutOrdered
  <2>7. PutDone(tmr, tmr', startOrder', FALSE, Low(tickIsr))
    BY <1>2, <2>1, <2>2, <2>3, <2>4, <2>6
  <2> QED BY <1>3, <2>7 DEF PutDone
<1>5. Low(tickIsr') = Low(tickIsr) /\ (tickIsr' # "idle" <=> tickIsr # "idle") BY <1>2 DEF Low
<1>6. Promise!DeadlinesNext BY <1>2, <1>3, <1>4, <1>5, ReturnStep
<1>7. Paced(tmr', tick, threadPc, next_timeout) BY <1>1, <1>4
<1>8. TimerOrder' BY <1>2, <1>4, <1>5, <1>7, OrderNext
<1> QED BY <1>6, <1>8 DEF DeadlineStep

LEMMA SoftReturnStep ==
    ASSUME Timely, TimerInductive, TimerOrder, SoftReturn
    PROVE  TimerOrder' /\ DeadlineStep
<1>1. /\ Sound(tmr, muted) /\ Controlled(tmr, tickIsr, threadPc) /\ tick \in Instant
      /\ Ordered(tmr, startOrder, tick, Low(tickIsr)) /\ Low(tickIsr) \in {0, 0 - 1}
      /\ tmr \in TimerState
  BY OrderParts
<1>2. PICK y : y = [tmr EXCEPT !.status = "idle"] OBVIOUS
<1>3. /\ threadPc \in {"callback", "awake"} /\ tmr.stat = "ready" /\ tmr' = PutTimer(y, TRUE)
      /\ startOrder' = IF Rearms(tmr, TRUE) THEN Restarted(tmr.cur[TRUE]) ELSE startOrder
      /\ threadPc' = "check" /\ tickIsr' = tickIsr /\ tick' = tick
  BY <1>2 DEF SoftReturn, ThreadAt
<1>4. /\ y \in TimerState /\ y.rec = tmr.rec /\ y.hard = tmr.hard /\ y.soft = tmr.soft
      /\ y.local = tmr.local /\ y.cur = tmr.cur /\ y.stat = tmr.stat
  BY <1>1, <1>2 DEF TimerState
<1>5. Sound(y, muted) BY <1>1, <1>4, StatSound
<1>6. y.cur[TRUE] # NoTimer BY <1>1, <1>3, <1>4 DEF Controlled
<1>7. Alike(tmr, y) BY <1>4 DEF Alike, SameTimes
<1>8. Ordered(y, startOrder, tick, Low(tickIsr)) /\ LeftOf(y, tick) = LeftOf(tmr, tick)
  BY <1>1, <1>7, AlikeOrdered
<1>9. startOrder' = IF Rearms(y, TRUE) THEN Restarted(y.cur[TRUE]) ELSE startOrder
  BY <1>3, <1>4 DEF Rearms
<1>10. /\ Ordered(tmr', startOrder', tick, Low(tickIsr))
       /\ \/ startOrder' = startOrder /\ LeftOf(tmr', tick) = LeftOf(y, tick)
          \/ \E n \in 0..HalfRange : /\ startOrder' = Restarted(y.cur[TRUE])
                                     /\ Changed(y, tmr', tick, y.cur[TRUE], n)
       /\ tmr'.cur = [y.cur EXCEPT ![TRUE] = NoTimer]
       /\ y.stat = "ready" => tmr'.stat = "ready"
  <2>1. PICK low : low = Low(tickIsr) OBVIOUS
  <2>2. PICK o : o = IF Rearms(y, TRUE) THEN Restarted(y.cur[TRUE]) ELSE startOrder OBVIOUS
  <2>3. PICK r : r = PutTimer(y, TRUE) OBVIOUS
  <2>4. PICK c \in BOOLEAN : c = TRUE OBVIOUS
  <2>5. /\ low \in {0, 0 - 1} /\ Ordered(y, startOrder, tick, low) /\ y.cur[c] # NoTimer
        /\ o = (IF Rearms(y, c) THEN Restarted(y.cur[c]) ELSE startOrder) /\ r = PutTimer(y, c)
    BY <1>1, <1>6, <1>8, <2>1, <2>2, <2>3, <2>4
  <2>6. PutDone(y, r, o, c, low) BY <1>1, <1>5, <2>5, PutOrdered
  <2>7. PutDone(y, tmr', startOrder', TRUE, Low(tickIsr))
    BY <1>3, <1>9, <2>1, <2>2, <2>3, <2>4, <2>6
  <2> QED BY <2>7 DEF PutDone
<1>11. \A n : Changed(y, tmr', tick, y.cur[TRUE], n) => Changed(tmr, tmr', tick, tmr.cur[TRUE], n)
  BY <1>4, <1>8 DEF Changed
<1>12. \/ startOrder' = startOrder /\ LeftOf(tmr', tick) = LeftOf(tmr, tick)
       \/ \E n \in 0..HalfRange : /\ startOrder' = Restarted(tmr.cur[TRUE])
                                  /\ Changed(tmr, tmr', tick, tmr.cur[TRUE], n)
  BY <1>4, <1>8, <1>10, <1>11
<1>13. tmr'.cur = [tmr.cur EXCEPT ![TRUE] = NoTimer] /\ tmr.cur[TRUE] # NoTimer
  BY <1>4, <1>6, <1>10
<1>14. Promise!DeadlinesNext BY <1>3, <1>12, <1>13, ReturnStep
<1>15. tmr'.stat = "ready" BY <1>3, <1>4, <1>10
<1>16. Paced(tmr', tick, threadPc', next_timeout') BY <1>3, <1>15, PacedFree
<1>17. TimerOrder' BY <1>3, <1>10, <1>16, OrderNext
<1> QED BY <1>14, <1>17 DEF DeadlineStep

\* The timer thread's own timer leaves its list.
LEMMA OwnTimerOff ==
    ASSUME Timely, TimerInductive, TimerOrder, NEW s,
           tmr' = [Deactivate(tmr, ThreadTimer) EXCEPT !.stat = s],
           startOrder' = startOrder, tick' = tick, tickIsr' = tickIsr,
           Range(tmr'.soft) \subseteq Range(tmr.soft) /\ tmr'.stat = s =>
               Paced(tmr', tick, threadPc', next_timeout')
    PROVE  TimerOrder' /\ DeadlineStep
<1>1. /\ Tidy(tmr) /\ Ordered(tmr, startOrder, tick, Low(tickIsr)) /\ OrderOK(startOrder)
  BY OrderParts
<1>2. PICK q : q = Deactivate(tmr, ThreadTimer) OBVIOUS
<1>3. Tidy(q) /\ Cut(tmr, q, ThreadTimer) /\ q.cur = tmr.cur
  BY <1>1, <1>2, TimerKinds, DeactivateLists, DeactivateTidy DEF Off
<1>4. /\ tmr'.hard = q.hard /\ tmr'.soft = q.soft /\ tmr'.rec = q.rec /\ tmr'.cur = q.cur
      /\ tmr'.stat = s
  BY <1>2, <1>3 DEF Tidy, TimerState
<1>5. Cut(tmr, tmr', ThreadTimer) BY <1>3, <1>4 DEF Cut, SameTimes
<1>6. OrderOff(startOrder, startOrder, ThreadTimer) BY <1>1, OwnOrder
<1>7. Ordered(tmr', startOrder, tick, Low(tickIsr)) /\ Fewer(tmr, tmr', ThreadTimer)
  BY <1>1, <1>5, <1>6, CutOrdered
<1>8. LeftOf(tmr', tick) = LeftOf(tmr, tick) BY <1>7, FewerLeft
<1>9. Range(tmr'.soft) \subseteq Range(tmr.soft) BY <1>7 DEF Fewer
<1>10. TimerOrder' BY <1>4, <1>7, <1>9, OrderNext
<1>11. UNCHANGED Promise!deadlineVars BY <1>3, <1>4, <1>8, UnseenStep
<1> QED BY <1>10, <1>11 DEF DeadlineStep

LEMMA CheckWakesStep ==
    ASSUME Timely, TimerInductive, TimerOrder, CheckWakes
    PROVE  TimerOrder' /\ DeadlineStep
<1>1. Controlled(tmr, tickIsr, threadPc) /\ tmr.hard \in Seq(TimerEntry) BY OrderParts
<1>2. /\ TimerDue(tmr.hard) /\ Head(tmr.hard).timer = ThreadTimer
      /\ tmr' = [Deactivate(tmr, ThreadTimer) EXCEPT !.stat = "ready"]
      /\ UNCHANGED <<tick, tickIsr, threadPc, next_timeout, startOrder>>
  BY DEF CheckWakes
<1>3. ThreadTimer \in Listed(tmr) BY <1>1, <1>2, HeadListed DEF TimerDue, Listed
<1>4. threadPc' = "check" BY <1>1, <1>2, <1>3 DEF Controlled
<1>5. tmr'.stat = "ready" => Paced(tmr', tick, threadPc', next_timeout') BY <1>4, PacedFree
<1> QED BY <1>2, <1>5, OwnTimerOff

LEMMA CheckEndsStep ==
    ASSUME Timely, TimerInductive, TimerOrder, CheckEnds
    PROVE  TimerOrder' /\ DeadlineStep
<1>1. /\ Controlled(tmr, tickIsr, threadPc) /\ Tidy(tmr) /\ tick \in Instant
      /\ tmr.hard \in Seq(TimerEntry) /\ Ordered(tmr, startOrder, tick, Low(tickIsr))
      /\ Paced(tmr, tick, threadPc, next_timeout)
  BY OrderParts
<1>2. /\ tickIsr = "check" /\ ~TimerDue(tmr.hard) /\ tickIsr' = "idle"
      /\ UNCHANGED <<tick, tmr, threadPc, next_timeout, startOrder>>
  BY DEF CheckEnds
<1>3. InOrder(tmr.hard, startOrder, tick) BY <1>1 DEF Ordered
<1>4. \A e \in Range(tmr.hard) : Left(e.at, tick) > 0 BY <1>1, <1>2, <1>3, TimesLeft, DueLeft
<1>5. \A e \in Range(tmr.hard) : Left(e.at, tick) \in Int BY TimesLeft
<1>6. Between(tmr.hard, 0, HalfRange - 1, tick)
  <2>1. \A e \in Range(tmr.hard) : Left(e.at, tick) <= HalfRange - 1 BY <1>1 DEF Ordered, Between
  <2> QED BY <1>4, <1>5, <2>1 DEF Between
<1>7. Ordered(tmr, startOrder, tick, 0) BY <1>1, <1>6 DEF Ordered
<1>8. Low(tickIsr') = 0 BY <1>2 DEF Low
<1>9. TimerOrder' BY <1>1, <1>2, <1>7, <1>8, OrderNext
<1>10. tmr.cur[FALSE] = NoTimer BY <1>1, <1>2 DEF Controlled
<1>11. \A t \in Range(startOrder) \ SoftTimer : LeftOf(tmr, tick)[t] > 0
  <2> SUFFICES ASSUME NEW t \in Range(startOrder) \ SoftTimer PROVE LeftOf(tmr, tick)[t] > 0
    OBVIOUS
  <2>1. Range(startOrder) = Listed(tmr) \ {ThreadTimer} /\ OrderOK(startOrder) BY <1>1 DEF Ordered
  <2>2. t \in Listed(tmr) /\ t \in AppTimer BY <2>1, InOrderRange
  <2>3. PICK e \in Range(tmr.hard) : e.timer = t BY <1>1, <2>2, EntryLeft
  <2>4. LeftOf(tmr, tick)[t] = Left(e.at, tick) BY <1>1, <2>2, <2>3, EntryLeft
  <2> QED BY <1>4, <2>4
<1>12. Promise!DeadlinesNext BY <1>2, <1>10, <1>11, CallsDoneStep
<1> QED BY <1>9, <1>12 DEF DeadlineStep

-----------------------------------------------------------------------------
(* The timer thread *)

LEMMA NoneInRange == Range(<< >>) = {}
  BY DEF Range

LEMMA NextTimeoutStep ==
    ASSUME Timely, TimerInductive, TimerOrder, NextTimeout
    PROVE  TimerOrder' /\ DeadlineStep
<1>1. /\ tmr.soft \in Seq(TimerEntry) /\ Ordered(tmr, startOrder, tick, Low(tickIsr))
      /\ Paced(tmr, tick, threadPc, next_timeout)
      /\ \A u \in AppTimer : tmr.rec[u].init \in TimerTimes
  BY OrderParts
<1>2. /\ threadPc = "next" /\ tmr.stat = "ready" /\ tmr' = tmr
      /\ UNCHANGED <<tick, tickIsr, startOrder>>
      /\ \/ tmr.soft = << >> /\ threadPc' = "suspend"
         \/ tmr.soft # << >> /\ threadPc' = "delay" /\ next_timeout' = Head(tmr.soft).at
  BY DEF NextTimeout, ThreadAt
<1>3. Paced(tmr, tick, threadPc', next_timeout')
  <2>1. CASE tmr.soft = << >>
    <3>1. Range(tmr.soft) = {} BY <2>1, NoneInRange
    <3> QED BY <1>2, <3>1 DEF Paced
  <2>2. CASE tmr.soft # << >>
    <3>1. PICK f : f = Head(tmr.soft) OBVIOUS
    <3>2. f = tmr.soft[1] /\ 1 \in 1 .. Len(tmr.soft) BY <1>1, <2>2, <3>1
    <3>3. f \in Range(tmr.soft) BY <1>1, <3>2, InRange
    <3>4. threadPc' = "delay" /\ next_timeout' = f.at BY <1>2, <2>2, <3>1
    <3>5. ASSUME NEW e \in Range(tmr.soft) PROVE Pace(tmr, e, tick, "delay", f.at)
      <4>1. /\ 0 - SoftGrace <= Left(e.at, tick)
            /\ Left(e.at, tick) <= Left(f.at, tick) + Reach
        BY <1>1, <1>2, <3>3, <3>5 DEF Paced, Pace
      <4>2. Left(f.at, tick) <= Left(e.at, tick)
        <5>1. PICK i \in 1 .. Len(tmr.soft) : tmr.soft[i] = e BY <1>1, <3>5, InRange
        <5>2. CASE i = 1
          <6>1. Left(e.at, tick) \in Int BY <3>5, TimesLeft
          <6>2. f = e BY <3>2, <5>1, <5>2
          <6> QED BY <6>1, <6>2
        <5>3. CASE i # 1
          <6>1. 1 < i BY <1>1, <5>1, <5>3
          <6>2. Before(tmr.soft[1], tmr.soft[i], startOrder, tick)
            BY <1>1, <3>2, <5>1, <6>1 DEF Ordered, InOrder
          <6> QED BY <3>2, <5>1, <6>2 DEF Before
        <5> QED BY <5>2, <5>3
      <4> QED BY <1>2, <4>1, <4>2 DEF Pace
    <3> QED BY <1>2, <3>4, <3>5 DEF Paced
  <2> QED BY <2>1, <2>2
<1> QED BY <1>1, <1>2, <1>3, ListsKept

LEMMA SuspendSelfStep ==
    ASSUME Timely, TimerInductive, TimerOrder, SuspendSelf
    PROVE  TimerOrder' /\ DeadlineStep
<1>1. Paced(tmr, tick, threadPc, next_timeout) BY OrderParts
<1>2. /\ threadPc = "suspend" /\ threadPc' = "check"
      /\ tmr' = [Deactivate(tmr, ThreadTimer) EXCEPT !.stat = "suspend"]
      /\ UNCHANGED <<tick, tickIsr, startOrder>>
  BY DEF SuspendSelf, ThreadAt
<1>3. Range(tmr.soft) = {} BY <1>1, <1>2 DEF Paced, Pace
<1>4. Range(tmr'.soft) \subseteq Range(tmr.soft) /\ tmr'.stat = "suspend" =>
        Paced(tmr', tick, threadPc', next_timeout')
  BY <1>2, <1>3 DEF Paced
<1> QED BY <1>2, <1>4, OwnTimerOff

LEMMA GetTickStep ==
    ASSUME Timely, TimerInductive, TimerOrder, GetTick
    PROVE  TimerOrder' /\ DeadlineStep
<1>1. /\ Counters /\ tick \in Instant /\ Paced(tmr, tick, threadPc, next_timeout)
      /\ \A u \in AppTimer : tmr.rec[u].init \in TimerTimes
  BY OrderParts
<1>2. /\ threadPc = "delay" /\ tmr.stat = "ready" /\ tmr' = tmr
      /\ UNCHANGED <<tick, tickIsr, startOrder>>
      /\ \/ /\ TickMinus(next_timeout, tick) < HalfRange
            /\ threadPc' = "sleep" /\ next_timeout' = TickMinus(next_timeout, tick)
         \/ threadPc' = "check"
  BY DEF GetTick, ThreadAt
<1>3. Paced(tmr, tick, threadPc', next_timeout')
  <2>1. CASE threadPc' = "check" BY <1>2, <2>1, PacedFree
  <2>2. CASE threadPc' # "check"
    <3>1. /\ TickMinus(next_timeout, tick) < HalfRange
          /\ threadPc' = "sleep" /\ next_timeout' = TickMinus(next_timeout, tick)
      BY <1>2, <2>2
    <3>2. next_timeout \in Instant BY <1>1 DEF Counters, Instant
    <3>3. next_timeout' = Left(next_timeout, tick) BY <1>1, <3>1, <3>2, LeftDue
    <3>4. next_timeout' \in Int BY <1>1, <3>2, <3>3, LeftValue
    <3>5. ASSUME NEW e \in Range(tmr.soft) PROVE Pace(tmr, e, tick, "sleep", next_timeout')
      <4>1. 0 - SoftGrace <= Left(e.at, tick) /\ Left(next_timeout, tick) <= Left(e.at, tick)
        BY <1>1, <1>2, <3>5 DEF Paced, Pace
      <4>2. Left(e.at, tick) \in Int /\ Left(e.at, tick) <= Reach BY <3>5, TimesLeft
      <4>3. Reach \in Nat BY Spans
      <4>4. next_timeout' <= Reach BY <3>3, <3>4, <4>1, <4>2, <4>3
      <4> QED BY <4>1, <4>4 DEF Pace
    <3> QED BY <1>2, <3>1, <3>5 DEF Paced
  <2> QED BY <2>1, <2>2
<1> QED BY <1>1, <1>2, <1>3, ListsKept

LEMMA SoftEndsStep ==
    ASSUME Timely, TimerInductive, TimerOrder, SoftEnds
    PROVE  TimerOrder' /\ DeadlineStep
<1>1. /\ tick \in Instant /\ tmr.soft \in Seq(TimerEntry)
      /\ Ordered(tmr, startOrder, tick, Low(tickIsr))
      /\ \A u \in AppTimer : tmr.rec[u].init \in TimerTimes
  BY OrderParts
<1>2. /\ ~TimerDue(tmr.soft) /\ threadPc' = "next" /\ tmr.stat = "ready" /\ tmr' = tmr
      /\ UNCHANGED <<tick, tickIsr, startOrder>>
  BY DEF SoftEnds, ThreadAt
<1>3. \A e \in Range(tmr.soft) : /\ e.at \in Instant /\ Left(e.at, tick) \in Int
                                 /\ Left(e.at, tick) > 0 - HalfRange
                                 /\ Left(e.at, tick) <= Reach
  BY TimesLeft
<1>4. InOrder(tmr.soft, startOrder, tick) BY <1>1 DEF Ordered
<1>5. \A e \in Range(tmr.soft) : Left(e.at, tick) > 0 BY <1>1, <1>2, <1>3, <1>4, DueLeft
<1>6. ASSUME NEW e \in Range(tmr.soft) PROVE Pace(tmr, e, tick, "next", next_timeout')
  <2>1. SoftGrace \in Nat /\ Reach \in Nat BY Spans
  <2>2. 0 - SoftGrace <= Left(e.at, tick) BY <1>3, <1>5, <1>6, <2>1
  <2>3. \A d \in Range(tmr.soft) : Left(e.at, tick) <= Left(d.at, tick) + Reach
    BY <1>3, <1>5, <1>6, <2>1
  <2> QED BY <2>2, <2>3 DEF Pace
<1>7. Paced(tmr, tick, threadPc', next_timeout') BY <1>2, <1>6 DEF Paced
<1> QED BY <1>1, <1>2, <1>7, ListsKept

\* A callback that waits.
LEMMA SoftWaitStep ==
    ASSUME Timely, TimerInductive, TimerOrder, SoftWaits \/ SoftWoken
    PROVE  TimerOrder' /\ DeadlineStep
<1>1. tmr \in TimerState /\ \A u \in AppTimer : tmr.rec[u].init \in TimerTimes BY OrderParts
<1>2. PICK s : tmr' = [tmr EXCEPT !.stat = s] BY DEF SoftWaits, SoftWoken
<1>3. /\ UNCHANGED <<tick, tickIsr, startOrder>>
      /\ threadPc' = "callback" \/ (threadPc' = "awake" /\ tmr' = [tmr EXCEPT !.stat = "ready"])
  BY DEF SoftWaits, SoftWoken, ThreadAt
<1>4. /\ tmr'.hard = tmr.hard /\ tmr'.soft = tmr.soft /\ tmr'.cur = tmr.cur /\ tmr'.rec = tmr.rec
  BY <1>1, <1>2 DEF TimerState
<1>5. threadPc' = "callback" \/ (threadPc' \in {"awake", "check"} /\ tmr'.stat = "ready")
  BY <1>1, <1>3 DEF TimerState
<1>6. Paced(tmr', tick, threadPc', next_timeout') BY <1>5, PacedFree
<1> QED BY <1>1, <1>3, <1>4, <1>6, ListsKept

LEMMA DelaySelfStep ==
    ASSUME Timely, TimerInductive, TimerOrder, DelaySelf
    PROVE  TimerOrder' /\ DeadlineStep
<1>1. /\ Counters /\ Tidy(tmr) /\ tmr \in TimerState /\ tick \in Instant
      /\ tmr.rec \in [Timers -> TimerRecord]
      /\ Ordered(tmr, startOrder, tick, Low(tickIsr)) /\ OrderOK(startOrder)
      /\ Paced(tmr, tick, threadPc, next_timeout) /\ Low(tickIsr) \in {0, 0 - 1}
      /\ \A u \in AppTimer : tmr.rec[u].init \in TimerTimes
  BY OrderParts
<1>2. /\ threadPc = "sleep" /\ threadPc' = "check"
      /\ tmr' = rt_timer_start([tmr EXCEPT !.stat = "suspend",
                                           !.rec[ThreadTimer].init = next_timeout], ThreadTimer)
      /\ UNCHANGED <<tick, tickIsr, startOrder>>
  BY DEF DelaySelf, ThreadAt
<1>3. next_timeout \in 0..(HalfRange - 1) BY <1>1, <1>2, TimerNumbers DEF Counters
<1>4. PICK g : g = [tmr.rec EXCEPT ![ThreadTimer] = [tmr.rec[ThreadTimer] EXCEPT !.init = next_timeout]]
  OBVIOUS
<1>5. /\ g \in [Timers -> TimerRecord] /\ g[ThreadTimer].init = next_timeout
      /\ \A u \in AppTimer : g[u] = tmr.rec[u]
  <2>1. PICK w : w = tmr.rec[ThreadTimer] OBVIOUS
  <2>2. w \in TimerRecord BY <1>1, <2>1, TimerKinds
  <2>3. PICK v : v = [w EXCEPT !.init = next_timeout] OBVIOUS
  <2>4. v \in TimerRecord /\ v.init = next_timeout BY <1>3, <2>2, <2>3 DEF TimerRecord
  <2>5. g = [tmr.rec EXCEPT ![ThreadTimer] = v] BY <1>4, <2>1, <2>3
  <2> QED BY <1>1, <2>4, <2>5, TimerKinds
<1>6. PICK y : y = [tmr EXCEPT !.stat = "suspend", !.rec = g] OBVIOUS
<1>7. tmr' = rt_timer_start(y, ThreadTimer)
  <2>1. y = [tmr EXCEPT !.stat = "suspend", !.rec[ThreadTimer].init = next_timeout]
    BY <1>1, <1>4, <1>6 DEF TimerState
  <2> QED BY <1>2, <2>1
<1>8. /\ y \in TimerState /\ y.rec = g /\ y.hard = tmr.hard /\ y.soft = tmr.soft
      /\ y.cur = tmr.cur /\ y.stat = "suspend"
  BY <1>1, <1>5, <1>6 DEF TimerState, TimerRecord
<1>9. Tidy(y) BY <1>1, <1>8 DEF Tidy
<1>10. \A u \in AppTimer : y.rec[u].init \in TimerTimes BY <1>1, <1>5, <1>8
<1>11. Ordered(y, startOrder, tick, Low(tickIsr)) BY <1>1, <1>8, <1>10 DEF Ordered, Listed
<1>12. OrderOn(startOrder, startOrder, ThreadTimer) BY <1>1, OwnOrder
<1>13. PICK low : low = Low(tickIsr) OBVIOUS
<1>14. low \in {0, 0 - 1} /\ Ordered(y, startOrder, tick, low) BY <1>1, <1>11, <1>13
<1>15. /\ Ordered(tmr', startOrder, tick, low) /\ LeftOf(tmr', tick) = LeftOf(y, tick)
       /\ tmr'.stat = "suspend" /\ More(y, tmr', ThreadTimer, NewEntry(y, ThreadTimer, tick))
  BY <1>1, <1>7, <1>8, <1>9, <1>12, <1>14, TimerKinds, StartOrdered
<1>16. LeftOf(y, tick) = LeftOf(tmr, tick) BY <1>8, LeftSame DEF EntriesFor
<1>17. PICK f : f = NewEntry(y, ThreadTimer, tick) OBVIOUS
<1>18. f.timer = ThreadTimer /\ Left(f.at, tick) = next_timeout
  BY <1>1, <1>5, <1>8, <1>9, <1>10, <1>17, TimerKinds, NewEntryFacts
<1>19. f \in Range(tmr'.hard) /\ Range(tmr'.soft) \subseteq Range(tmr.soft)
  BY <1>8, <1>15, <1>17, TimerKinds DEF More
<1>20. ASSUME NEW e \in Range(tmr.soft) PROVE Pace(tmr', e, tick, "check", next_timeout')
  <2>1. 0 - SoftGrace <= Left(e.at, tick) /\ next_timeout <= Reach
    BY <1>1, <1>2, <1>20 DEF Paced, Pace
  <2>2. Left(e.at, tick) \in Int BY <1>20, TimesLeft
  <2>3. SoftGrace \in Nat /\ Reach \in Nat /\ next_timeout \in Nat BY <1>3, Spans
  <2>4. next_timeout <= Left(e.at, tick) + SoftGrace + Reach BY <2>1, <2>2, <2>3
  <2> QED BY <1>18, <1>19, <2>4 DEF Pace
<1>21. Paced(tmr', tick, threadPc', next_timeout') BY <1>2, <1>19, <1>20 DEF Paced
<1>22. TimerOrder' BY <1>2, <1>13, <1>15, <1>21, OrderNext
<1>23. tmr'.cur = tmr.cur
  <2>1. tmr' = LinkTimer(y, ThreadTimer) BY <1>7, TimerKinds DEF rt_timer_start
  <2> QED BY <1>1, <1>8, <1>9, <2>1, TimerKinds, LinkTidy DEF Instant, On
<1>24. UNCHANGED Promise!deadlineVars BY <1>2, <1>15, <1>16, <1>23, UnseenStep
<1> QED BY <1>22, <1>24 DEF DeadlineStep

LEMMA TimerThreadStep ==
    ASSUME Timely, TimerInductive, TimerOrder, TimerThread \/ SoftWaits \/ SoftWoken
    PROVE  TimerOrder' /\ DeadlineStep
  BY NextTimeoutStep, SuspendSelfStep, GetTickStep, DelaySelfStep, SoftTakeStep, SoftReturnStep,
     SoftEndsStep, SoftWaitStep
  DEF TimerThread

-----------------------------------------------------------------------------
(* The refinement *)

LEMMA RefinementStep ==
    ASSUME Timely, TimerInductive, TimerOrder, [TimerNext]_timerVars
    PROVE  TimerOrder' /\ DeadlineStep
<1>1. CASE UNCHANGED timerVars
  <2>1. /\ Paced(tmr, tick, threadPc, next_timeout)
        /\ \A u \in AppTimer : tmr.rec[u].init \in TimerTimes
    BY OrderParts
  <2>2. tmr' = tmr /\ UNCHANGED <<tick, tickIsr, threadPc, next_timeout, startOrder>>
    BY <1>1 DEF timerVars
  <2> QED BY <2>1, <2>2, ListsKept
<1>2. CASE TimerUse BY <1>2, UseStep
<1>3. CASE ClockTick BY <1>3, ClockStep
<1>4. CASE TickInterrupt
  BY <1>4, CheckTakeStep, CheckReturnStep, CheckWakesStep, CheckEndsStep DEF TickInterrupt
<1>5. CASE TimerThread \/ SoftWaits \/ SoftWoken BY <1>5, TimerThreadStep
<1> QED BY <1>1, <1>2, <1>3, <1>4, <1>5 DEF TimerNext

LEMMA RefinementInit ==
    ASSUME TimerInit
    PROVE  TimerOrder /\ Promise!DeadlinesInit
<1>1. PICK boot \in BootTimers :
        tmr = [rec |-> [t \in Timers |->
                        [exists |-> TRUE, active |-> FALSE,
                         periodic |-> t # ThreadTimer /\ boot[t].periodic,
                         init |-> IF t = ThreadTimer THEN 0 ELSE boot[t].init]],
             hard |-> << >>, soft |-> << >>,
             local |-> [c \in BOOLEAN |-> {}], cur |-> [c \in BOOLEAN |-> NoTimer],
             status |-> "idle", stat |-> "ready"]
  BY DEF TimerInit
<1>2. /\ startOrder = << >> /\ tickIsr = "idle" /\ threadPc = "next" BY DEF TimerInit
<1>3. /\ tmr.hard = << >> /\ tmr.soft = << >> /\ tmr.cur = [c \in BOOLEAN |-> NoTimer]
      /\ tmr.stat = "ready"
  BY <1>1
<1>4. \A u \in AppTimer : tmr.rec[u].init \in TimerTimes
  <2>1. \A u \in AppTimer : tmr.rec[u].init = boot[u].init BY <1>1, TimerKinds
  <2>2. \A u \in AppTimer : boot[u].init \in TimerTimes BY TimerConstants
  <2> QED BY <2>1, <2>2
<1>5. Range(tmr.hard) = {} /\ Range(tmr.soft) = {} /\ Range(startOrder) = {}
  BY <1>2, <1>3, NoneInRange
<1>6. Listed(tmr) = {} BY <1>3 DEF Listed, TimersIn
<1>7. OrderOK(startOrder) BY <1>2 DEF OrderOK, IsInjective
<1>8. Ordered(tmr, startOrder, tick, Low(tickIsr))
  BY <1>3, <1>4, <1>5, <1>6, <1>7 DEF Ordered, InOrder, Between
<1>9. Paced(tmr, tick, threadPc, next_timeout) BY <1>3, <1>5 DEF Paced
<1>10. LeftOf(tmr, tick) = [t \in AppTimer |-> 0]
  BY <1>5, LeftInFacts DEF LeftOf, EntriesFor
<1>11. Promise!DeadlinesInit BY <1>2, <1>3, <1>10, MappedLeftIs DEF Promise!DeadlinesInit
<1> QED BY <1>8, <1>9, <1>11 DEF TimerOrder

\* When the timer thread is not overtaken and times are short enough for late
\* soft timers to be told from early ones, the two ordered lists, deadlines
\* that wrap, the tick interrupt and the timer thread (timer.c) call each timer
\* when Deadlines says: a hard timer in the very tick in which its time is up, a
\* soft one not before it, the earlier deadline first and, of equal ones, the
\* one that was started first; none is called that was not started or that was
\* stopped since.
THEOREM TimersKeepDeadlines == Timely => (TimerSpec => ImplementsDeadlines)
<1>1. TimerInit => TimerInductive /\ TimerOrder /\ Promise!DeadlinesInit
  BY TimerInitInductive, RefinementInit
<1>2. TimerInductive /\ [TimerNext]_timerVars => TimerInductive' BY TimerStepInductive
<1>3. Timely /\ TimerInductive /\ TimerOrder /\ [TimerNext]_timerVars =>
        TimerOrder' /\ [Promise!DeadlinesNext]_(Promise!deadlineVars)
  BY RefinementStep DEF DeadlineStep
<1> SUFFICES ASSUME Timely PROVE TimerSpec => ImplementsDeadlines OBVIOUS
<1>4. TimerInductive /\ TimerOrder /\ [TimerNext]_timerVars =>
        TimerOrder' /\ [Promise!DeadlinesNext]_(Promise!deadlineVars)
  BY <1>3
<1> QED BY <1>1, <1>2, <1>4, PTL DEF TimerSpec, ImplementsDeadlines, Promise!DeadlinesSpec

\* Under the same hypothesis the timer thread waits without a time limit only
\* when there is no soft timer, as the comment at timer.c:791 says; a timer that
\* is started by something more urgent between rt_timer_list_next_timeout and
\* rt_thread_suspend is forgotten.
THEOREM NoTimerIsForgotten == Timely => (TimerSpec => []NoForgottenTimer)
<1>1. TimerInit => TimerInductive /\ TimerOrder BY TimerInitInductive, RefinementInit
<1>2. TimerInductive /\ [TimerNext]_timerVars => TimerInductive' BY TimerStepInductive
<1> SUFFICES ASSUME Timely PROVE TimerSpec => []NoForgottenTimer OBVIOUS
<1>3. TimerInductive /\ TimerOrder /\ [TimerNext]_timerVars => TimerOrder' BY RefinementStep
<1>4. ASSUME TimerInductive, TimerOrder, tmr.stat = "suspend", threadPc = "check",
             ThreadTimer \notin ListedTimers
      PROVE  tmr.soft = << >>
  <2>1. /\ tmr.hard \in Seq(TimerEntry) /\ tmr.soft \in Seq(TimerEntry)
        /\ Paced(tmr, tick, threadPc, next_timeout)
    BY <1>4, OrderParts
  <2>2. \A d \in Range(tmr.hard) : d.timer # ThreadTimer
    BY <1>4, <2>1, InRange DEF ListedTimers, Listed
  <2>3. Range(tmr.soft) = {} BY <1>4, <2>1, <2>2 DEF Paced, Pace
  <2>4. SUFFICES ASSUME tmr.soft # << >> PROVE FALSE OBVIOUS
  <2>5. 1 \in 1 .. Len(tmr.soft) BY <2>1, <2>4
  <2>6. tmr.soft[1] \in Range(tmr.soft) BY <2>1, <2>5, InRange
  <2> QED BY <2>3, <2>6
<1>5. TimerInductive /\ TimerOrder => NoForgottenTimer BY <1>4 DEF NoForgottenTimer
<1> QED BY <1>1, <1>2, <1>3, <1>5, PTL DEF TimerSpec

=============================================================================
