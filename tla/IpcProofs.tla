----------------------------- MODULE IpcProofs -----------------------------
(***************************************************************************)
(* Facts about Workers that the proofs about the IPC objects share: what   *)
(* each kernel operator does to the suspend lists, that the loop of        *)
(* _ipc_list_resume_all empties one list, and that ThreadsOK is kept by    *)
(* the scheduler, the tick interrupt and every way to wait and to wake.    *)
(***************************************************************************)
EXTENDS Workers, KernelProofs

-----------------------------------------------------------------------------
(* Lists *)

\* Induction over the natural numbers, for a set of them.
LEMMA NatInduct ==
    ASSUME NEW P \in SUBSET Nat, 0 \in P, \A n \in P : n + 1 \in P
    PROVE  P = Nat
<1> SUFFICES ASSUME P # Nat PROVE FALSE OBVIOUS
<1> DEFINE Q == Nat \ P
<1>1. Q \in SUBSET Nat /\ Q # {} OBVIOUS
<1>2. PICK m \in Q : \A n \in Q : m <= n BY <1>1, MinNat
<1>3. m \in Nat /\ m # 0 OBVIOUS
<1>4. m - 1 \in Nat /\ ~(m <= m - 1) BY <1>3
<1>5. m - 1 \in P BY <1>2, <1>4
<1>6. (m - 1) + 1 = m BY <1>3
<1> QED BY <1>5, <1>6

\* Taking a node out loses no order among the others.
LEMMA RemoveKeepsOrder ==
    ASSUME NEW T, NEW s \in Seq(T), IsInjective(s), NEW e,
           NEW p \in 1 .. Len(s), NEW q \in 1 .. Len(s), p < q, s[p] # e, s[q] # e
    PROVE  \E i, j \in 1 .. Len(RemoveFirst(s, e)) :
               i < j /\ RemoveFirst(s, e)[i] = s[p] /\ RemoveFirst(s, e)[j] = s[q]
<1>1. CASE e \notin ToSet(s) BY <1>1, RemoveAbsent
<1>2. CASE e \in ToSet(s)
  <2>1. PICK n \in 1 .. Len(s) : s[n] = e BY <1>2, InToSet
  <2> DEFINE r == RemoveFirst(s, e)
  <2>2. /\ Len(r) = Len(s) - 1
        /\ \A x \in 1 .. Len(s) - 1 : r[x] = IF x < n THEN s[x] ELSE s[x + 1]
    BY <2>1, RemovePositions
  <2> HIDE DEF r
  <2>3. p # n /\ q # n BY <2>1
  <2> DEFINE i == IF p < n THEN p ELSE p - 1
             j == IF q < n THEN q ELSE q - 1
  <2>4. i \in 1 .. Len(s) - 1 /\ j \in 1 .. Len(s) - 1 /\ i < j
    BY <2>3
  <2>5. r[i] = s[p] /\ r[j] = s[q]
    <3>1. \A x \in 1 .. Len(s) : x > n => x - 1 \in 1 .. Len(s) - 1 /\ r[x - 1] = s[x]
      <4> SUFFICES ASSUME NEW x \in 1 .. Len(s), x > n
                   PROVE  x - 1 \in 1 .. Len(s) - 1 /\ r[x - 1] = s[x]
        OBVIOUS
      <4>1. x - 1 \in 1 .. Len(s) - 1 /\ ~(x - 1 < n) /\ (x - 1) + 1 = x OBVIOUS
      <4> QED BY <4>1, <2>2
    <3>2. \A x \in 1 .. Len(s) : x < n => x \in 1 .. Len(s) - 1 /\ r[x] = s[x]
      BY <2>2
    <3> QED BY <3>1, <3>2, <2>3
  <2> HIDE DEF i, j
  <2> QED BY <2>2, <2>4, <2>5 DEF r
<1> QED BY <1>1, <1>2

\* A node is linked at position n of a list that does not hold it.
LEMMA InsertFacts ==
    ASSUME NEW T, NEW s \in Seq(T), IsInjective(s), NEW e \in T, e \notin ToSet(s),
           NEW n \in 1 .. Len(s) + 1
    PROVE  LET r == InsertAt(s, n, e)
           IN  /\ r \in Seq(T) /\ IsInjective(r) /\ ToSet(r) = ToSet(s) \cup {e}
               /\ Len(r) = Len(s) + 1
               /\ \A x \in 1 .. Len(s) + 1 :
                     r[x] = IF x < n THEN s[x] ELSE IF x = n THEN e ELSE s[x - 1]
<1> DEFINE r == InsertAt(s, n, e)
<1>0. r \in Seq(T) /\ PutIn(r, s, n, e)
  <2>1. n \in Int /\ 1 <= n /\ n <= Len(s) + 1 OBVIOUS
  <2>2. InsertAt(s, n, e) \in Seq(T) /\ PutIn(InsertAt(s, n, e), s, n, e) BY <2>1, InsertAtFacts
  <2> QED BY <2>2
<1> HIDE DEF r
<1>4. r \in Seq(T) /\ Len(r) = Len(s) + 1 BY <1>0 DEF PutIn
<1>5. ASSUME NEW x \in 1 .. Len(s) + 1
      PROVE  r[x] = IF x < n THEN s[x] ELSE IF x = n THEN e ELSE s[x - 1]
  BY <1>0 DEF PutIn
<1>6. \A x \in 1 .. Len(s) : s[x] # e BY InToSet
<1>7. \A x, y \in 1 .. Len(s) : s[x] = s[y] => x = y BY Injective
<1>8. IsInjective(r)
  <2>1. ASSUME NEW x \in 1 .. Len(r), NEW y \in 1 .. Len(r), r[x] = r[y] PROVE x = y
    <3>1. \A z \in 1 .. Len(r) : z > n => z - 1 \in 1 .. Len(s) /\ r[z] = s[z - 1]
      BY <1>4, <1>5
    <3>2. \A z \in 1 .. Len(r) : z < n => z \in 1 .. Len(s) /\ r[z] = s[z]
      BY <1>4, <1>5
    <3>3. r[n] = e BY <1>4, <1>5
    <3>a. \A z \in 1 .. Len(r) : r[z] = e => z = n
      <4> SUFFICES ASSUME NEW z \in 1 .. Len(r), r[z] = e, z # n PROVE FALSE OBVIOUS
      <4>1. z < n \/ z > n BY <1>4
      <4> QED BY <4>1, <3>1, <3>2, <1>6
    <3>4. CASE x = n BY <2>1, <3>a, <3>3, <3>4
    <3>5. CASE y = n BY <2>1, <3>a, <3>3, <3>5
    <3>6. CASE x < n /\ y < n BY <2>1, <3>2, <3>6, <1>7
    <3>7. CASE x > n /\ y > n
      <4>1. x - 1 = y - 1 BY <2>1, <3>1, <3>7, <1>7
      <4> QED BY <4>1, <1>4
    <3>8. CASE x < n /\ y > n
      <4>1. x = y - 1 BY <2>1, <3>1, <3>2, <3>8, <1>7
      <4> QED BY <4>1, <3>8, <1>4
    <3>9. CASE x > n /\ y < n
      <4>1. x - 1 = y BY <2>1, <3>1, <3>2, <3>9, <1>7
      <4> QED BY <4>1, <3>9, <1>4
    <3> QED BY <3>4, <3>5, <3>6, <3>7, <3>8, <3>9, <1>4
  <2> QED BY <1>4, <2>1, Injective
<1>9. ToSet(r) = ToSet(s) \cup {e}
  <2>1. ASSUME NEW x \in ToSet(r) PROVE x \in ToSet(s) \cup {e}
    <3>1. PICK i \in 1 .. Len(r) : r[i] = x BY <2>1, <1>4, InToSet
    <3>2. x = e \/ \E y \in 1 .. Len(s) : s[y] = x BY <3>1, <1>4, <1>5
    <3> QED BY <3>2, InToSet
  <2>2. ASSUME NEW x \in ToSet(s) PROVE x \in ToSet(r)
    <3>1. PICK i \in 1 .. Len(s) : s[i] = x BY <2>2, InToSet
    <3>2. \E y \in 1 .. Len(r) : r[y] = x
      <4>1. CASE i < n BY <4>1, <3>1, <1>4, <1>5
      <4>2. CASE i >= n
        <5>1. i + 1 \in 1 .. Len(r) /\ r[i + 1] = s[i] BY <4>2, <1>4, <1>5
        <5> QED BY <5>1, <3>1
      <4> QED BY <4>1, <4>2
    <3> QED BY <3>2, <1>4, InToSet
  <2>3. e \in ToSet(r)
    <3>1. n \in 1 .. Len(r) /\ r[n] = e BY <1>4, <1>5
    <3> QED BY <3>1, <1>4, InToSet
  <2> QED BY <2>1, <2>2, <2>3
<1> QED BY <1>4, <1>5, <1>8, <1>9 DEF r

-----------------------------------------------------------------------------
(* What the kernel operators do to the suspend lists and the error codes *)

Runnable == {"READY", "RUNNING"}

\* The suspend lists without t.
WaitWithout(a, t) == [o \in Obj |-> RemoveFirst(a.wait[o], t)]

\* A call that takes the state a to b and makes the threads of S runnable, and
\* one that leaves the priorities alone.
Woke(a, b, S) ==
    /\ b \in KState /\ KernelOK(b, {})
    /\ b.lock = a.lock /\ b.timer = a.timer \ S
    /\ \A u \in Thread : IF u \in S \/ a.stat[u] \in Runnable THEN b.stat[u] \in Runnable
                         ELSE b.stat[u] = a.stat[u]
    /\ \/ b.stat[b.cur] = "RUNNING"
       \/ b.cur = a.cur /\ b.stat[b.cur] = a.stat[a.cur]

Effect(a, b, S) == Woke(a, b, S) /\ b.prio = a.prio

\* Two such calls in a row.
LEMMA WokeTrans ==
    ASSUME NEW a, NEW b, NEW c, NEW S, NEW R, Woke(a, b, S), Woke(b, c, R)
    PROVE  Woke(a, c, S \cup R)
<1>1. c.timer = a.timer \ (S \cup R) BY DEF Woke
<1> QED BY <1>1 DEF Woke

LEMMA EffectTrans ==
    ASSUME NEW a, NEW b, NEW c, NEW S, NEW R, Effect(a, b, S), Effect(b, c, R)
    PROVE  Effect(a, c, S \cup R)
<1>1. Woke(a, c, S \cup R) BY WokeTrans DEF Effect
<1> QED BY <1>1 DEF Effect

\* A thread that is on no suspend list leaves the lists as they are.
LEMMA WithoutAbsent ==
    ASSUME NEW a, a.wait \in [Obj -> Seq(Thread)], NEW t,
           \A o \in Obj : t \notin ToSet(a.wait[o])
    PROVE  WaitWithout(a, t) = a.wait
<1>1. ASSUME NEW o \in Obj PROVE RemoveFirst(a.wait[o], t) = a.wait[o]
  <2>1. a.wait[o] \in Seq(Thread) OBVIOUS
  <2> QED BY <2>1, RemoveAbsent
<1> QED BY <1>1 DEF WaitWithout

\* rt_schedule_remove_thread touches the suspend lists of one thread only.
LEMMA RemoveThreadLists ==
    ASSUME NEW a, "wait" \in DOMAIN a, "err" \in DOMAIN a, NEW t
    PROVE  /\ rt_schedule_remove_thread(a, t).wait = WaitWithout(a, t)
           /\ rt_schedule_remove_thread(a, t).err = a.err
<1> DEFINE l == rt_list_remove(a, t)
<1>1. l.wait = WaitWithout(a, t) /\ l.err = a.err /\ DOMAIN l = DOMAIN a
  BY DEF rt_list_remove, WaitWithout
<1>2. rt_schedule_remove_thread(a, t)
        = IF l.ready[l.prio[t]] = << >> THEN [l EXCEPT !.group = @ \ {l.prio[t]}] ELSE l
  BY DEF rt_schedule_remove_thread
<1> HIDE DEF l
<1> QED BY <1>1, <1>2

\* ... and rt_schedule_insert_thread touches none.
LEMMA InsertThreadLists ==
    ASSUME NEW a, "wait" \in DOMAIN a, "err" \in DOMAIN a, NEW t
    PROVE  /\ rt_schedule_insert_thread(a, t).wait = a.wait
           /\ rt_schedule_insert_thread(a, t).err = a.err
           /\ DOMAIN rt_schedule_insert_thread(a, t) = DOMAIN a
  BY DEF rt_schedule_insert_thread

\* The region of rt_thread_resume.
LEMMA ResumeEffect ==
    ASSUME NEW a \in KState, KernelOK(a, {}), NEW t \in Thread,
           a.stat[t] \in {"SUSPEND", "READY"}
    PROVE  LET b == rt_thread_resume(a, t)
           IN  /\ Effect(a, b, {t})
               /\ b.wait = WaitWithout(a, t) /\ b.err = a.err /\ b.cur = a.cur
               /\ b.stat[t] = IF t = a.cur THEN "RUNNING" ELSE "READY"
               /\ \A u \in Thread \ {t} : b.stat[u] = a.stat[u]
<1> DEFINE b == rt_thread_resume(a, t)
           l == [rt_list_remove(a, t) EXCEPT !.timer = @ \ {t}]
<1>1. /\ b \in KState /\ KernelOK(b, {})
      /\ b.cur = a.cur /\ b.lock = a.lock /\ b.prio = a.prio
      /\ b.timer = a.timer \ {t}
      /\ \A u \in Thread \ {t} : b.stat[u] = a.stat[u]
      /\ b.stat[t] = IF t = a.cur THEN "RUNNING" ELSE "READY"
  BY ResumeThread
<1>2. b.wait = WaitWithout(a, t) /\ b.err = a.err
  <2>1. "wait" \in DOMAIN a /\ "err" \in DOMAIN a BY DEF KState
  <2>2. l.wait = WaitWithout(a, t) /\ l.err = a.err /\ DOMAIN l = DOMAIN a
    BY <2>1 DEF rt_list_remove, WaitWithout
  <2>3. b = rt_schedule_insert_thread(l, t) BY DEF rt_thread_resume
  <2> HIDE DEF l, b
  <2> QED BY <2>1, <2>2, <2>3, InsertThreadLists
<1> HIDE DEF b
<1>3. a.cur \in Thread BY DEF KState
<1> QED BY <1>1, <1>2, <1>3 DEF Effect, Woke, Runnable, b

\* rt_schedule.
LEMMA ScheduleEffect ==
    ASSUME NEW a \in KState, KernelOK(a, {})
    PROVE  LET b == rt_schedule(a)
           IN  Effect(a, b, {}) /\ b.wait = a.wait /\ b.err = a.err
<1> DEFINE b == rt_schedule(a)
           to == HighestThread(a)
<1>1. /\ b \in KState /\ KernelOK(b, {})
      /\ b.lock = a.lock /\ b.prio = a.prio /\ b.timer = a.timer
      /\ a.lock # 0 => b = a
      /\ a.lock = 0 => HighestPriorityRuns(b)
      /\ \A u \in Thread : IF a.stat[u] \in {"READY", "RUNNING"}
                            THEN b.stat[u] \in {"READY", "RUNNING"}
                            ELSE b.stat[u] = a.stat[u]
  BY ScheduleOK
<1>2. Effect(a, b, {})
  <2> HIDE DEF b
  <2>1. a.timer \ {} = a.timer OBVIOUS
  <2> QED BY <1>1, <2>1 DEF Effect, Woke, Runnable, HighestPriorityRuns
<1>3. a.wait \in [Obj -> Seq(Thread)] /\ "wait" \in DOMAIN a /\ "err" \in DOMAIN a
  BY DEF KState
<1>4. \A u \in Thread : a.stat[u] # "SUSPEND" => \A o \in Obj : u \notin ToSet(a.wait[o])
  BY DEF KernelOK, WaitListsOK
<1>5. b.wait = a.wait /\ b.err = a.err
  <2>1. CASE a.lock # 0 \/ a.group = {} BY <2>1 DEF rt_schedule
  <2>2. CASE ~(a.lock # 0 \/ a.group = {}) /\ KeepsRunning(a)
    <3> DEFINE y == [a EXCEPT !.yield = @ \ {a.cur}]
    <3>1. b = rt_schedule_remove_thread(y, a.cur) BY <2>2 DEF rt_schedule
    <3>2. y.wait = a.wait /\ y.err = a.err /\ DOMAIN y = DOMAIN a BY <1>3
    <3> HIDE DEF y, b
    <3>3. \A o \in Obj : a.cur \notin ToSet(y.wait[o])
      BY <1>4, <2>2, <3>2 DEF KeepsRunning, KState
    <3>4. WaitWithout(y, a.cur) = y.wait
      BY <1>3, <3>2, <3>3, WithoutAbsent
    <3>5. b.wait = WaitWithout(y, a.cur) /\ b.err = y.err
      BY <1>3, <3>1, <3>2, RemoveThreadLists
    <3> QED BY <3>2, <3>4, <3>5
  <2>3. CASE ~(a.lock # 0 \/ a.group = {}) /\ ~KeepsRunning(a)
    <3> DEFINE c == [a EXCEPT !.cur = to]
               y == [c EXCEPT !.yield = @ \ {a.cur}]
               q == IF a.stat[a.cur] = "RUNNING" THEN rt_schedule_insert_thread(y, a.cur) ELSE c
               g == rt_schedule_remove_thread(q, to)
    <3>1. b = [g EXCEPT !.stat[to] = "RUNNING"] BY <2>3 DEF rt_schedule, SwitchTo
    <3>2. to \in Thread /\ a.stat[to] = "READY"
      <4>1. {} \in SUBSET Thread OBVIOUS
      <4> QED BY <2>3, <4>1, HighestReady
    <3> HIDE DEF b, to
    <3>3. /\ c.wait = a.wait /\ c.err = a.err /\ DOMAIN c = DOMAIN a
          /\ y.wait = a.wait /\ y.err = a.err /\ DOMAIN y = DOMAIN a
      BY <1>3
    <3> HIDE DEF c, y
    <3>4. q.wait = a.wait /\ q.err = a.err /\ DOMAIN q = DOMAIN a
      BY <1>3, <3>3, InsertThreadLists
    <3> HIDE DEF q
    <3>5. \A o \in Obj : to \notin ToSet(q.wait[o]) BY <1>4, <3>2, <3>4
    <3>6. WaitWithout(q, to) = q.wait BY <1>3, <3>4, <3>5, WithoutAbsent
    <3>7. g.wait = WaitWithout(q, to) /\ g.err = q.err
      BY <1>3, <3>4, RemoveThreadLists
    <3>8. "wait" \in DOMAIN g /\ "err" \in DOMAIN g
      BY <1>3, <3>4 DEF rt_schedule_remove_thread, rt_list_remove
    <3> HIDE DEF g
    <3>9. b.wait = g.wait /\ b.err = g.err BY <3>1, <3>8
    <3> QED BY <3>4, <3>6, <3>7, <3>9
  <2> QED BY <2>1, <2>2, <2>3
<1> QED BY <1>2, <1>5

\* _thread_timeout.
LEMMA TimeoutEffect ==
    ASSUME NEW a \in KState, KernelOK(a, {}), NEW t \in a.timer
    PROVE  LET b == _thread_timeout(a, t)
           IN  /\ t \in Thread /\ a.stat[t] = "SUSPEND"
               /\ Effect(a, b, {t})
               /\ b.wait = WaitWithout(a, t) /\ b.err = [a.err EXCEPT ![t] = "ETIMEOUT"]
<1> DEFINE e == [a EXCEPT !.err[t] = "ETIMEOUT"]
           s == rt_thread_resume(e, t)
           b == rt_schedule(s)
<1>0. t \in Thread /\ a.stat[t] = "SUSPEND" BY DEF KState, KernelOK, TimersOK
<1>1. /\ e \in KState
      /\ e.cur = a.cur /\ e.stat = a.stat /\ e.prio = a.prio /\ e.lock = a.lock
      /\ e.ready = a.ready /\ e.group = a.group /\ e.wait = a.wait
      /\ e.defunct = a.defunct /\ e.timer = a.timer
      /\ e.err = [a.err EXCEPT ![t] = "ETIMEOUT"]
  BY <1>0 DEF KState, Err
<1> HIDE DEF e
<1>2. KernelOK(e, {}) BY <1>1, Irrelevant
<1>3. Effect(e, s, {t}) /\ s.wait = WaitWithout(e, t) /\ s.err = e.err
  BY <1>0, <1>1, <1>2, ResumeEffect
<1> HIDE DEF s
<1>4. s \in KState /\ KernelOK(s, {}) BY <1>3 DEF Effect, Woke
<1>5. Effect(s, b, {}) /\ b.wait = s.wait /\ b.err = s.err
  BY <1>4, ScheduleEffect
<1> HIDE DEF b
<1>6. Effect(e, b, {t} \cup {}) BY <1>3, <1>5, EffectTrans
<1>7. Effect(a, b, {t})
  <2>1. {t} \cup {} = {t} OBVIOUS
  <2> QED BY <1>1, <1>6, <2>1 DEF Effect, Woke
<1>8. b = _thread_timeout(a, t) BY DEF _thread_timeout, e, s, b
<1>9. WaitWithout(e, t) = WaitWithout(a, t) BY <1>1 DEF WaitWithout
<1> QED BY <1>0, <1>1, <1>3, <1>5, <1>7, <1>8, <1>9

\* The time slice part of the tick interrupt.
LEMMA TimeSliceEffect ==
    ASSUME NEW a \in KState, KernelOK(a, {})
    PROVE  LET b == TimeSlice(a)
           IN  Effect(a, b, {}) /\ b.wait = a.wait /\ b.err = a.err
<1>K. a.cur \in Thread BY DEF KState
<1>1. CASE a.remaining[a.cur] = 1
  <2> DEFINE e == [a EXCEPT !.remaining[a.cur] = InitTick, !.yield = a.yield \cup {a.cur}]
             b == rt_schedule(e)
  <2>1. /\ e \in KState
        /\ e.cur = a.cur /\ e.stat = a.stat /\ e.prio = a.prio /\ e.lock = a.lock
        /\ e.ready = a.ready /\ e.group = a.group /\ e.wait = a.wait
        /\ e.defunct = a.defunct /\ e.timer = a.timer /\ e.err = a.err
    <3>1. InitTick \in 1 .. InitTick BY InitTickAssumption
    <3> QED BY <1>K, <3>1 DEF KState
  <2>2. TimeSlice(a) = b BY <1>1 DEF TimeSlice
  <2> HIDE DEF e
  <2>3. KernelOK(e, {}) BY <2>1, Irrelevant
  <2>4. Effect(e, b, {}) /\ b.wait = e.wait /\ b.err = e.err
    BY <2>1, <2>3, ScheduleEffect
  <2> HIDE DEF b
  <2>5. Effect(a, b, {}) BY <2>1, <2>4 DEF Effect, Woke
  <2> QED BY <2>1, <2>2, <2>4, <2>5
<1>2. CASE a.remaining[a.cur] # 1
  <2> DEFINE e == [a EXCEPT !.remaining[a.cur] = @ - 1]
  <2>1. /\ e \in KState
        /\ e.cur = a.cur /\ e.stat = a.stat /\ e.prio = a.prio /\ e.lock = a.lock
        /\ e.ready = a.ready /\ e.group = a.group /\ e.wait = a.wait
        /\ e.defunct = a.defunct /\ e.timer = a.timer /\ e.err = a.err
    <3>1. a.remaining[a.cur] \in 1 .. InitTick BY <1>K DEF KState
    <3>2. a.remaining[a.cur] - 1 \in 1 .. InitTick BY <1>2, <3>1, InitTickAssumption
    <3> QED BY <1>K, <3>2 DEF KState
  <2>2. TimeSlice(a) = e BY <1>2 DEF TimeSlice
  <2> HIDE DEF e
  <2>3. KernelOK(e, {}) BY <2>1, Irrelevant
  <2>4. a.timer \ {} = a.timer OBVIOUS
  <2> QED BY <2>1, <2>2, <2>3, <2>4 DEF Effect, Woke
<1> QED BY <1>1, <1>2

\* rt_thread_suspend of the running thread.
LEMMA SuspendEffect ==
    ASSUME NEW a \in KState, KernelOK(a, {}), NEW t, t = a.cur, t # Idle,
           a.stat[t] = "RUNNING"
    PROVE  LET b == rt_thread_suspend(a, t)
           IN  /\ b \in KState /\ KernelOK(b, {}) /\ InNoList(b, t)
               /\ b.cur = a.cur /\ b.lock = a.lock /\ b.prio = a.prio
               /\ b.timer = a.timer /\ t \notin a.timer
               /\ \A u \in Thread : b.stat[u] = IF u = t THEN "SUSPEND" ELSE a.stat[u]
               /\ b.wait = a.wait /\ b.err = a.err
<1> DEFINE b == rt_thread_suspend(a, t)
           r == rt_schedule_remove_thread(a, t)
<1>0. t \in Thread BY DEF KState
<1>1. /\ b \in KState /\ KernelOK(b, {})
      /\ b.cur = a.cur /\ b.lock = a.lock /\ b.prio = a.prio
      /\ \A u \in Thread \ {t} : b.stat[u] = a.stat[u]
      /\ b.stat[t] = "SUSPEND"
      /\ InNoList(b, t) /\ b.timer = a.timer \ {t}
  BY SuspendThread
<1>2. t \notin a.timer BY DEF KernelOK, TimersOK
<1>3. b = [r EXCEPT !.stat[t] = "SUSPEND", !.timer = @ \ {t}]
  BY DEF rt_thread_suspend
<1>4. a.wait \in [Obj -> Seq(Thread)] /\ "wait" \in DOMAIN a /\ "err" \in DOMAIN a
  BY DEF KState
<1>5. r.wait = WaitWithout(a, t) /\ r.err = a.err
  BY <1>4, RemoveThreadLists
<1>6. "wait" \in DOMAIN r /\ "err" \in DOMAIN r
  BY <1>4 DEF rt_schedule_remove_thread, rt_list_remove
<1> HIDE DEF b, r
<1>7. b.wait = r.wait /\ b.err = r.err BY <1>3, <1>6
<1>8. \A o \in Obj : t \notin ToSet(a.wait[o]) BY <1>0 DEF KernelOK, WaitListsOK
<1>9. WaitWithout(a, t) = a.wait BY <1>4, <1>8, WithoutAbsent
<1> QED BY <1>0, <1>1, <1>2, <1>5, <1>7, <1>9 DEF b

\* The place RT_IPC_FLAG_PRIO chooses is after the threads of the same and of a
\* higher priority in front, and before a thread of a lower priority.
LEMMA PrioPositionFacts ==
    ASSUME NEW a \in KState, NEW o \in Obj, NEW t \in Thread
    PROVE  LET n == PrioPosition(a, o, t)
           IN  /\ n \in 1 .. Len(a.wait[o]) + 1
               /\ \A i \in 1 .. Len(a.wait[o]) : i < n => a.prio[a.wait[o][i]] <= a.prio[t]
               /\ n <= Len(a.wait[o]) => a.prio[t] < a.prio[a.wait[o][n]]
<1> DEFINE L == {i \in 1 .. Len(a.wait[o]) : a.prio[t] < a.prio[a.wait[o][i]]}
           n == PrioPosition(a, o, t)
<1>1. a.wait[o] \in Seq(Thread) /\ a.prio \in [Thread -> Prio] BY DEF KState
<1>2. \A i \in 1 .. Len(a.wait[o]) : a.wait[o][i] \in Thread BY <1>1
<1>3. \A u \in Thread : a.prio[u] \in Nat BY <1>1, PrioMaxAssumption DEF Prio
<1>4. n = IF L = {} THEN Len(a.wait[o]) + 1 ELSE Min(L) BY DEF PrioPosition
<1>5. Len(a.wait[o]) \in Nat BY <1>1
<1>6. CASE L = {}
  <2>1. n = Len(a.wait[o]) + 1 BY <1>4, <1>6
  <2>2. \A i \in 1 .. Len(a.wait[o]) : a.prio[a.wait[o][i]] <= a.prio[t]
    BY <1>2, <1>3, <1>6
  <2> HIDE DEF n, L
  <2>3. ~(n <= Len(a.wait[o])) BY <2>1, <1>5
  <2> QED BY <2>1, <2>2, <2>3, <1>5 DEF n
<1>7. CASE L # {}
  <2>1. L \in SUBSET Nat BY <1>5
  <2>2. n = Min(L) BY <1>4, <1>7
  <2> HIDE DEF n
  <2>3. n \in L /\ \A i \in L : n <= i
    <3> HIDE DEF L
    <3> QED BY <1>7, <2>1, <2>2, MinNat
  <2>4. ASSUME NEW i \in 1 .. Len(a.wait[o]), i < n PROVE a.prio[a.wait[o][i]] <= a.prio[t]
    <3>1. i \notin L BY <2>3, <2>4, <1>5
    <3> QED BY <1>2, <1>3, <3>1
  <2> QED BY <2>3, <2>4, <1>5 DEF n
<1> QED BY <1>6, <1>7

\* Where _ipc_list_suspend links a thread.
Position(a, o, t, flag) ==
    IF flag = "FIFO" THEN Len(a.wait[o]) + 1 ELSE PrioPosition(a, o, t)

\* The call that takes a to b has suspended t and linked it into the list of o.
Linked(a, b, o, t, flag) ==
    LET n == Position(a, o, t, flag)
    IN  /\ b \in KState /\ KernelOK(b, {})
        /\ b.cur = a.cur /\ b.lock = a.lock /\ b.prio = a.prio
        /\ \A u \in Thread : b.stat[u] = IF u = t THEN "SUSPEND" ELSE a.stat[u]
        /\ n \in 1 .. Len(a.wait[o]) + 1
        /\ b.wait = [a.wait EXCEPT ![o] = InsertAt(a.wait[o], n, t)]
        /\ ToSet(b.wait[o]) = ToSet(a.wait[o]) \cup {t}
        /\ \A q \in Obj : t \notin ToSet(a.wait[q])

\* The running thread is suspended on the list of o.
LEMMA WaitEffect ==
    ASSUME NEW a \in KState, KernelOK(a, {}), NEW t, t = a.cur, t # Idle,
           a.stat[t] = "RUNNING", NEW o \in Obj, NEW flag
    PROVE  LET b == _ipc_list_suspend(a, o, t, flag)
           IN  Linked(a, b, o, t, flag) /\ b.err = a.err /\ b.timer = a.timer
<1> DEFINE s == rt_thread_suspend(a, t)
           n == Position(a, o, t, flag)
           w == InsertAt(a.wait[o], n, t)
           b == _ipc_list_suspend(a, o, t, flag)
<1>0. t \in Thread BY DEF KState
<1>1. /\ s \in KState /\ KernelOK(s, {}) /\ InNoList(s, t)
      /\ s.cur = a.cur /\ s.lock = a.lock /\ s.prio = a.prio
      /\ s.timer = a.timer /\ t \notin a.timer
      /\ \A u \in Thread : s.stat[u] = IF u = t THEN "SUSPEND" ELSE a.stat[u]
      /\ s.wait = a.wait /\ s.err = a.err
  BY SuspendEffect
<1>2. Position(s, o, t, flag) = n
  BY <1>1 DEF Position, PrioPosition
<1>3. b = [s EXCEPT !.wait[o] = InsertAt(s.wait[o], n, t)]
  BY <1>1, <1>2 DEF _ipc_list_suspend, Position, KState
<1>4. a.wait[o] \in Seq(Thread) /\ IsInjective(a.wait[o]) /\ t \notin ToSet(a.wait[o])
  BY <1>1 DEF KState, KernelOK, WaitListsOK, InNoList
<1>5. n \in 1 .. Len(a.wait[o]) + 1
  <2>1. PrioPosition(a, o, t) \in 1 .. Len(a.wait[o]) + 1 BY <1>0, PrioPositionFacts
  <2>2. Len(a.wait[o]) + 1 \in 1 .. Len(a.wait[o]) + 1 BY <1>4
  <2> QED BY <2>1, <2>2 DEF Position
<1> HIDE DEF s, n, b
<1>6. w \in Seq(Thread) /\ IsInjective(w) /\ ToSet(w) = ToSet(a.wait[o]) \cup {t}
  BY <1>0, <1>4, <1>5, InsertFacts
<1> HIDE DEF w
<1>7. /\ b \in KState
      /\ b.cur = a.cur /\ b.lock = a.lock /\ b.prio = a.prio /\ b.err = a.err
      /\ b.timer = a.timer
      /\ b.stat = s.stat /\ b.ready = s.ready /\ b.group = s.group /\ b.defunct = s.defunct
      /\ b.wait = [a.wait EXCEPT ![o] = w]
  BY <1>0, <1>1, <1>3, <1>6 DEF KState, w
<1>8. b.wait[o] = w /\ \A q \in Obj \ {o} : b.wait[q] = a.wait[q]
  <2>1. a.wait \in [Obj -> Seq(Thread)] BY DEF KState
  <2> QED BY <1>7, <2>1
<1>9. WaitListsOK(b)
  <2> SUFFICES ASSUME NEW q \in Obj
               PROVE  /\ IsInjective(b.wait[q])
                      /\ \A u \in ToSet(b.wait[q]) :
                            /\ b.stat[u] = "SUSPEND"
                            /\ \A j \in Obj \ {q} : u \notin ToSet(b.wait[j])
    BY DEF WaitListsOK
  <2>0. \A j \in Obj : t \notin ToSet(a.wait[j]) BY <1>1 DEF InNoList
  <2>1. IsInjective(b.wait[q])
    BY <1>6, <1>8 DEF KernelOK, WaitListsOK
  <2>2. ASSUME NEW u \in ToSet(b.wait[q])
        PROVE  b.stat[u] = "SUSPEND" /\ \A j \in Obj \ {q} : u \notin ToSet(b.wait[j])
    <3>1. CASE u = t
      <4>1. q = o BY <1>8, <2>0, <3>1
      <4> QED BY <1>0, <1>1, <1>7, <1>8, <2>0, <3>1, <4>1
    <3>2. CASE u # t
      <4>1. u \in ToSet(a.wait[q]) BY <1>6, <1>8, <3>2
      <4>2. s.stat[u] = "SUSPEND" /\ \A j \in Obj \ {q} : u \notin ToSet(a.wait[j])
        BY <4>1, <1>1 DEF KernelOK, WaitListsOK
      <4> QED BY <1>6, <1>7, <1>8, <3>2, <4>2
    <3> QED BY <3>1, <3>2
  <2> QED BY <2>1, <2>2
<1>10. KernelOK(b, {})
  <2>1. ReadyListsOK(b, {}) /\ DefunctOK(b) /\ CurrentOK(b) /\ IdleOK(b)
    BY <1>1, <1>7 DEF KernelOK, ReadyListsOK, DefunctOK, CurrentOK, IdleOK
  <2>2. TimersOK(b)
    <3>1. s.stat[t] = "SUSPEND" BY <1>0, <1>1
    <3> QED BY <1>1, <1>7, <3>1 DEF KernelOK, TimersOK
  <2> QED BY <1>9, <2>1, <2>2 DEF KernelOK
<1>11. \A q \in Obj : t \notin ToSet(a.wait[q]) BY <1>1 DEF InNoList
<1>12. Linked(a, b, o, t, flag)
  BY <1>1, <1>5, <1>6, <1>7, <1>8, <1>10, <1>11 DEF n, w, Linked
<1> QED BY <1>7, <1>12 DEF b

\* The first thread of a list that is not empty is suspended, and leaves only
\* this list when it is resumed.
LEMMA HeadFacts ==
    ASSUME NEW a \in KState, KernelOK(a, {}), NEW o \in Obj, a.wait[o] # << >>
    PROVE  LET t == Head(a.wait[o])
           IN  /\ t \in Thread /\ t \in ToSet(a.wait[o]) /\ a.stat[t] = "SUSPEND"
               /\ WaitWithout(a, t) = [a.wait EXCEPT ![o] = Tail(@)]
               /\ Tail(a.wait[o]) \in Seq(Thread)
               /\ ToSet(Tail(a.wait[o])) = ToSet(a.wait[o]) \ {t}
<1> DEFINE t == Head(a.wait[o])
<1>1. a.wait \in [Obj -> Seq(Thread)] /\ a.wait[o] \in Seq(Thread) BY DEF KState
<1>2. t \in ToSet(a.wait[o]) /\ ToSet(a.wait[o]) \subseteq Thread BY <1>1, EmptyFacts
<1>3. /\ IsInjective(a.wait[o]) /\ a.stat[t] = "SUSPEND"
      /\ \A q \in Obj \ {o} : t \notin ToSet(a.wait[q])
  BY <1>2 DEF KernelOK, WaitListsOK
<1>4. RemoveFirst(a.wait[o], t) = Tail(a.wait[o]) BY <1>1, <1>3, RemoveHead
<1>5. /\ Tail(a.wait[o]) \in Seq(Thread)
      /\ ToSet(Tail(a.wait[o])) = ToSet(a.wait[o]) \ {t}
  BY <1>1, <1>3, <1>4, RemoveFirstFacts
<1> HIDE DEF t
<1>6. ASSUME NEW q \in Obj \ {o} PROVE RemoveFirst(a.wait[q], t) = a.wait[q]
  <2>1. a.wait[q] \in Seq(Thread) /\ t \notin ToSet(a.wait[q]) BY <1>1, <1>3
  <2> QED BY <2>1, RemoveAbsent
<1>7. WaitWithout(a, t) = [a.wait EXCEPT ![o] = Tail(@)]
  BY <1>1, <1>4, <1>6 DEF WaitWithout
<1> QED BY <1>2, <1>3, <1>5, <1>7 DEF t

\* _ipc_list_resume.
LEMMA IpcResumeEffect ==
    ASSUME NEW a \in KState, KernelOK(a, {}), NEW o \in Obj, a.wait[o] # << >>
    PROVE  LET b == _ipc_list_resume(a, o)
               t == Head(a.wait[o])
           IN  /\ Effect(a, b, {t}) /\ b.cur = a.cur
               /\ b.wait = [a.wait EXCEPT ![o] = Tail(@)] /\ b.err = a.err
<1> DEFINE t == Head(a.wait[o])
<1>1. t \in Thread /\ a.stat[t] = "SUSPEND" /\ WaitWithout(a, t) = [a.wait EXCEPT ![o] = Tail(@)]
  BY HeadFacts
<1>2. _ipc_list_resume(a, o) = rt_thread_resume(a, t) BY DEF _ipc_list_resume
<1> HIDE DEF t
<1>3. /\ Effect(a, rt_thread_resume(a, t), {t}) /\ rt_thread_resume(a, t).cur = a.cur
      /\ rt_thread_resume(a, t).wait = WaitWithout(a, t) /\ rt_thread_resume(a, t).err = a.err
  BY <1>1, ResumeEffect
<1> QED BY <1>1, <1>2, <1>3 DEF t

\* One turn of _ipc_list_resume_all.
LEMMA ResumeErrorEffect ==
    ASSUME NEW a \in KState, KernelOK(a, {}), NEW o \in Obj, a.wait[o] # << >>
    PROVE  LET b == ResumeWithError(a, o)
               t == Head(a.wait[o])
           IN  /\ Effect(a, b, {t}) /\ b.cur = a.cur
               /\ b.wait = [a.wait EXCEPT ![o] = Tail(@)]
               /\ b.err = [a.err EXCEPT ![t] = "ERROR"]
<1> DEFINE t == Head(a.wait[o])
           e == [a EXCEPT !.err[t] = "ERROR"]
           b == _ipc_list_resume(e, o)
<1>1. t \in Thread BY HeadFacts
<1>2. b = ResumeWithError(a, o) BY DEF ResumeWithError
<1>3. e.wait[o] # << >> /\ Head(e.wait[o]) = t BY DEF KState
<1> HIDE DEF t
<1>4. /\ e \in KState
      /\ e.cur = a.cur /\ e.stat = a.stat /\ e.prio = a.prio /\ e.lock = a.lock
      /\ e.ready = a.ready /\ e.group = a.group /\ e.wait = a.wait
      /\ e.defunct = a.defunct /\ e.timer = a.timer
      /\ e.err = [a.err EXCEPT ![t] = "ERROR"]
  BY <1>1 DEF KState, Err
<1> HIDE DEF e
<1>5. KernelOK(e, {}) BY <1>4, Irrelevant
<1>6. /\ Effect(e, b, {t}) /\ b.cur = e.cur
      /\ b.wait = [e.wait EXCEPT ![o] = Tail(@)] /\ b.err = e.err
  BY <1>3, <1>4, <1>5, IpcResumeEffect
<1> HIDE DEF b
<1>7. Effect(a, b, {t}) BY <1>4, <1>6 DEF Effect, Woke
<1> QED BY <1>2, <1>4, <1>6, <1>7 DEF t

\* The recursive function behind ResumeAll exists.
TurnsOf(f, a, o, N) == [n \in 0 .. N |-> IF n = 0 THEN a ELSE ResumeWithError(f[n - 1], o)]

LEMMA ResumeAllTurns ==
    ASSUME NEW a, NEW o, NEW N \in Nat
    PROVE  \E f : f = TurnsOf(f, a, o, N)
<1> DEFINE P == {m \in Nat : \E f : f = TurnsOf(f, a, o, m)}
<1>1. 0 \in P
  <2> DEFINE f == [n \in 0 .. 0 |-> a]
  <2>1. f = TurnsOf(f, a, o, 0) BY DEF TurnsOf
  <2> QED BY <2>1
<1>2. ASSUME NEW m \in P PROVE m + 1 \in P
  <2>0. PICK f : f = TurnsOf(f, a, o, m) OBVIOUS
  <2>1. f = [n \in 0 .. m |-> IF n = 0 THEN a ELSE ResumeWithError(f[n - 1], o)]
    BY <2>0 DEF TurnsOf
  <2> DEFINE g == [n \in 0 .. m + 1 |-> IF n = m + 1 THEN ResumeWithError(f[m], o) ELSE f[n]]
  <2>2. ASSUME NEW n \in 0 .. m + 1
        PROVE  g[n] = IF n = 0 THEN a ELSE ResumeWithError(g[n - 1], o)
    <3>1. CASE n = m + 1
      <4>1. n # 0 /\ n - 1 = m /\ m \in 0 .. m + 1 /\ m # m + 1 BY <3>1
      <4>2. g[n] = ResumeWithError(f[m], o) /\ g[m] = f[m] BY <3>1, <4>1
      <4> QED BY <4>1, <4>2
    <3>2. CASE n # m + 1 /\ n # 0
      <4>1. n \in 0 .. m /\ n - 1 \in 0 .. m + 1 /\ n - 1 # m + 1 BY <3>2
      <4>2. g[n] = f[n] /\ g[n - 1] = f[n - 1] BY <3>2, <4>1
      <4>3. f[n] = ResumeWithError(f[n - 1], o) BY <2>1, <3>2, <4>1
      <4> QED BY <3>2, <4>2, <4>3
    <3>3. CASE n = 0
      <4>1. g[0] = f[0] /\ f[0] = a
        <5>1. 0 \in 0 .. m /\ 0 \in 0 .. m + 1 /\ 0 # m + 1 OBVIOUS
        <5> QED BY <2>1, <5>1
      <4> QED BY <3>3, <4>1
    <3> QED BY <3>1, <3>2, <3>3
  <2>3. g = TurnsOf(g, a, o, m + 1) BY <2>2 DEF TurnsOf
  <2> HIDE DEF g
  <2>4. m + 1 \in Nat OBVIOUS
  <2> QED BY <2>3, <2>4
<1>3. P \in SUBSET Nat OBVIOUS
<1> HIDE DEF P
<1>4. P = Nat BY <1>1, <1>2, <1>3, NatInduct
<1> QED BY <1>4 DEF P

\* _ipc_list_resume_all inside a reset: the list is emptied, every thread of it
\* is runnable and has an error, and nobody else is concerned.
LEMMA ResumeAllEffect ==
    ASSUME NEW a \in KState, KernelOK(a, {}), NEW o \in Obj
    PROVE  LET b == ResumeAll(a, o)
               S == ToSet(a.wait[o])
           IN  /\ Effect(a, b, S) /\ b.cur = a.cur
               /\ b.wait = [a.wait EXCEPT ![o] = << >>]
               /\ b.err = [u \in Thread |-> IF u \in S THEN "ERROR" ELSE a.err[u]]
<1> DEFINE w == a.wait[o]
           N == Len(w)
           S(n) == {w[i] : i \in 1 .. n}
           f == CHOOSE g : g = TurnsOf(g, a, o, N)
           OK(n) == LET b == f[n]
                    IN  /\ Effect(a, b, S(n)) /\ b.cur = a.cur
                        /\ b.wait = [a.wait EXCEPT ![o] = SubSeq(w, n + 1, N)]
                        /\ b.err = [u \in Thread |-> IF u \in S(n) THEN "ERROR" ELSE a.err[u]]
<1>1. w \in Seq(Thread) /\ N \in Nat /\ a.wait \in [Obj -> Seq(Thread)] BY DEF KState
<1>2. f = TurnsOf(f, a, o, N)
  <2>1. \E g : g = TurnsOf(g, a, o, N) BY <1>1, ResumeAllTurns
  <2> QED BY <2>1
<1>3. ResumeAll(a, o) = f[N] BY DEF ResumeAll, TurnsOf
<1> HIDE DEF f
<1>4. /\ f[0] = a
      /\ \A n \in 0 .. N : n # 0 => f[n] = ResumeWithError(f[n - 1], o)
  <2>1. 0 \in 0 .. N BY <1>1
  <2> QED BY <1>2, <2>1 DEF TurnsOf
<1>5. OK(0)
  <2>1. S(0) = {} OBVIOUS
  <2>2. SubSeq(w, 0 + 1, N) = w BY <1>1
  <2>3. [a.wait EXCEPT ![o] = w] = a.wait BY <1>1
  <2>4. a.err = [u \in Thread |-> a.err[u]] BY DEF KState
  <2>5. Effect(a, a, {})
    <3>1. a.timer \ {} = a.timer OBVIOUS
    <3> QED BY <3>1 DEF Effect, Woke
  <2> HIDE DEF w
  <2> QED BY <1>4, <2>1, <2>2, <2>3, <2>4, <2>5
<1>6. ASSUME NEW n \in 0 .. N, n # N, OK(n) PROVE OK(n + 1)
  <2> DEFINE b == f[n]
             c == f[n + 1]
             t == w[n + 1]
             x == SubSeq(w, n + 1, N)
  <2>1. n + 1 \in 0 .. N /\ n + 1 # 0 /\ (n + 1) - 1 = n /\ n + 1 \in 1 .. N BY <1>1, <1>6
  <2>2. c = ResumeWithError(b, o) BY <1>4, <2>1
  <2>3. b.wait[o] = x /\ b.wait = [a.wait EXCEPT ![o] = x] BY <1>1, <1>6
  <2>4. x # << >> /\ Head(x) = t /\ Tail(x) = SubSeq(w, (n + 1) + 1, N)
    <3> HIDE DEF w
    <3>1. Len(x) = N - n /\ x[1] = w[n + 1] /\ x \in Seq(Thread)
      BY <1>1, <2>1
    <3>2. Tail(x) = SubSeq(w, (n + 1) + 1, N) BY <1>1, <2>1
    <3>3. N - n # 0 BY <1>1, <1>6
    <3> HIDE DEF x, N
    <3>4. x # << >> BY <3>1, <3>3
    <3>5. Head(x) = x[1] BY <3>1, <3>4
    <3> QED BY <3>1, <3>2, <3>4, <3>5 DEF t
  <2>5. b \in KState /\ KernelOK(b, {}) /\ Effect(a, b, S(n)) /\ b.cur = a.cur
        /\ b.err = [u \in Thread |-> IF u \in S(n) THEN "ERROR" ELSE a.err[u]]
    BY <1>6 DEF Effect, Woke
  <2>6. t \in Thread BY <1>1, <2>1
  <2> HIDE DEF b, c, x, t, w
  <2>7. /\ Effect(b, c, {t}) /\ c.cur = b.cur
        /\ c.wait = [b.wait EXCEPT ![o] = Tail(@)]
        /\ c.err = [b.err EXCEPT ![t] = "ERROR"]
    BY <2>2, <2>3, <2>4, <2>5, ResumeErrorEffect
  <2>8. S(n + 1) = S(n) \cup {t} BY <1>1, <2>1 DEF t
  <2> HIDE DEF S
  <2>9. Effect(a, c, S(n + 1)) BY <2>5, <2>7, <2>8, EffectTrans
  <2>10. c.wait = [a.wait EXCEPT ![o] = SubSeq(w, (n + 1) + 1, N)]
    BY <1>1, <2>3, <2>4, <2>7
  <2>11. c.err = [u \in Thread |-> IF u \in S(n + 1) THEN "ERROR" ELSE a.err[u]]
    BY <2>5, <2>6, <2>7, <2>8
  <2> QED BY <2>5, <2>7, <2>9, <2>10, <2>11 DEF c
<1>7. OK(N)
  <2> DEFINE P == {n \in Nat : n <= N => OK(n)}
  <2>1. P \in SUBSET Nat OBVIOUS
  <2>2. 0 \in P BY <1>5
  <2>3. ASSUME NEW n \in P PROVE n + 1 \in P
    <3> HIDE DEF OK
    <3>1. n + 1 <= N => n \in 0 .. N /\ n # N /\ n <= N BY <1>1
    <3> QED BY <2>3, <3>1, <1>6
  <2>4. P = Nat
    <3> HIDE DEF P
    <3> QED BY <2>1, <2>2, <2>3, NatInduct
  <2>5. N \in P BY <1>1, <2>4
  <2> HIDE DEF OK
  <2> QED BY <2>5, <1>1
<1>8. S(N) = ToSet(w) BY <1>1, InToSet
<1>9. SubSeq(w, N + 1, N) = << >> BY <1>1
<1> HIDE DEF S, w, N
<1> QED BY <1>3, <1>7, <1>8, <1>9 DEF w

-----------------------------------------------------------------------------
(* ThreadsOK is kept *)

\* A thread that is executing and not about to give up the processor is RUNNING.
LEMMA CurrentRuns ==
    ASSUME k \in KState, ThreadsOK, pc[k.cur] \notin {"sleep", "wait"}
    PROVE  k.cur \in Thread /\ k.stat[k.cur] = "RUNNING"
           /\ \A o \in Obj : k.cur \notin ToSet(k.wait[o])
<1>1. k.cur \in Thread BY DEF KState
<1>2. k.stat[k.cur] = "RUNNING" BY <1>1 DEF ThreadsOK, KernelOK, CurrentOK
<1>3. \A o \in Obj : k.cur \notin ToSet(k.wait[o])
  BY <1>1, <1>2 DEF ThreadsOK, KernelOK, WaitListsOK
<1> QED BY <1>1, <1>2, <1>3

\* A step that resumes the threads of S, and in which only a runnable thread, or
\* the one that calls rt_schedule, moves on.
LEMMA KeepThreads ==
    ASSUME k \in KState, ThreadsOK, NEW S \in SUBSET Thread, Woke(k, k', S),
           \A u \in Thread, o \in Obj : u \in ToSet(k'.wait[o]) => u \in ToSet(k.wait[o]),
           \A u \in Thread \ S, o \in Obj : u \in ToSet(k.wait[o]) => u \in ToSet(k'.wait[o]),
           pc'[Idle] = pc[Idle],
           \A u \in Thread :
              \/ pc'[u] = pc[u]
              \/ k.stat[u] \in Runnable
              \/ /\ (pc[u] = "sleep" /\ pc'[u] = "slept") \/ (pc[u] = "wait" /\ pc'[u] = "waited")
                 /\ k'.stat[k'.cur] = "RUNNING"
    PROVE  ThreadsOK'
<1>1. KernelOK(k', {}) /\ k'.lock = 0 /\ pc'[Idle] = "run" /\ k' \in KState
  BY DEF Woke, ThreadsOK
<1>2. ASSUME NEW u \in Thread
      PROVE  k'.stat[u] \in {"READY", "RUNNING", "SUSPEND"}
             /\ (k'.stat[u] = "SUSPEND" => k.stat[u] = "SUSPEND" /\ u \notin S)
  BY DEF Woke, ThreadsOK, Runnable
<1>3. ASSUME NEW u \in Thread, NEW o \in Obj, u \in ToSet(k'.wait[o])
      PROVE  pc'[u] \in {"wait", "waited"}
  <2>1. u \in ToSet(k.wait[o]) /\ pc[u] \in {"wait", "waited"}
    BY <1>3 DEF ThreadsOK, Blocked
  <2>2. k.stat[u] = "SUSPEND" BY <2>1 DEF ThreadsOK, KernelOK, WaitListsOK
  <2> QED BY <2>1, <2>2 DEF Runnable
<1>4. ASSUME NEW u \in Thread, k'.stat[u] = "SUSPEND"
      PROVE  pc'[u] \in {"sleep", "slept"} \/ \E o \in Obj : u \in ToSet(k'.wait[o])
  <2>1. k.stat[u] = "SUSPEND" /\ u \notin S BY <1>2, <1>4
  <2>2. CASE pc[u] \in {"sleep", "slept"} BY <2>1, <2>2 DEF Runnable
  <2>3. CASE \E o \in Obj : u \in ToSet(k.wait[o]) BY <2>1, <2>3
  <2> QED BY <2>1, <2>2, <2>3 DEF ThreadsOK
<1>5. ASSUME k'.stat[k'.cur] = "SUSPEND" PROVE pc'[k'.cur] \in {"sleep", "wait"}
  <2>1. k'.cur = k.cur /\ k.stat[k.cur] = "SUSPEND" BY <1>5 DEF Woke
  <2>2. k.cur \in Thread BY DEF KState
  <2>3. pc'[k.cur] = pc[k.cur] BY <1>5, <2>1, <2>2 DEF Runnable
  <2> QED BY <2>1, <2>3 DEF ThreadsOK
<1> QED BY <1>1, <1>2, <1>3, <1>4, <1>5 DEF ThreadsOK, Blocked

\* A running worker waits on the list of o or sleeps.
LEMMA SuspendThreads ==
    ASSUME k \in KState, ThreadsOK, NEW t \in Thread, t # Idle, t = k.cur,
           k' \in KState, KernelOK(k', {}), k'.lock = k.lock, k'.cur = k.cur,
           \A u \in Thread : k'.stat[u] = IF u = t THEN "SUSPEND" ELSE k.stat[u],
           \A u \in Thread \ {t} : pc'[u] = pc[u],
           \A u \in Thread \ {t}, o \in Obj : u \in ToSet(k'.wait[o]) <=> u \in ToSet(k.wait[o]),
           \/ pc'[t] = "sleep" /\ \A o \in Obj : t \notin ToSet(k'.wait[o])
           \/ pc'[t] = "wait" /\ \E o \in Obj : t \in ToSet(k'.wait[o])
    PROVE  ThreadsOK'
<1>1. KernelOK(k', {}) /\ k'.lock = 0 /\ pc'[Idle] = "run"
  BY IdleAssumption DEF ThreadsOK
<1>2. ASSUME NEW u \in Thread
      PROVE  /\ k'.stat[u] \in {"READY", "RUNNING", "SUSPEND"}
             /\ \A o \in Obj : u \in ToSet(k'.wait[o]) => pc'[u] \in {"wait", "waited"}
             /\ k'.stat[u] = "SUSPEND" =>
                   pc'[u] \in {"sleep", "slept"} \/ \E o \in Obj : u \in ToSet(k'.wait[o])
  <2>1. CASE u = t BY <2>1
  <2>2. CASE u # t BY <2>2 DEF ThreadsOK, Blocked
  <2> QED BY <2>1, <2>2
<1> QED BY <1>1, <1>2 DEF ThreadsOK, Blocked

\* The rt_schedule that ends a call.
LEMMA ScheduleStep ==
    ASSUME k \in KState, ThreadsOK, NEW PC, pc \in [Thread -> PC], NEW t \in Thread,
           Schedule(t)
    PROVE  /\ k' \in KState /\ ThreadsOK'
           /\ k'.wait = k.wait /\ k'.err = k.err /\ k'.prio = k.prio /\ k'.timer = k.timer
           /\ Woke(k, k', {})
           /\ pc' = [pc EXCEPT ![t] = After[pc[t]]] /\ pc[t] \in {"sched", "sleep", "wait"}
<1>1. /\ k' = rt_schedule(k) /\ t = k.cur /\ pc[t] \in {"sched", "sleep", "wait"}
      /\ pc' = [pc EXCEPT ![t] = After[pc[t]]]
  BY DEF Schedule, Executing, Goto, After
<1>2. KernelOK(k, {}) /\ k.lock = 0 /\ pc[Idle] = "run" BY DEF ThreadsOK
<1>3. Effect(k, k', {}) /\ k'.wait = k.wait /\ k'.err = k.err
  BY <1>1, <1>2, ScheduleEffect
<1>4. k'.stat[k'.cur] = "RUNNING"
  BY <1>1, <1>2, ScheduleOK DEF HighestPriorityRuns
<1>5. \A u \in Thread \ {t} : pc'[u] = pc[u] BY <1>1
<1>6. pc[t] = "sched" \/ (pc[t] = "sleep" /\ pc'[t] = "slept") \/ (pc[t] = "wait" /\ pc'[t] = "waited")
  <2>1. pc'[t] = After[pc[t]] BY <1>1
  <2>2. After["sleep"] = "slept" /\ After["wait"] = "waited" BY DEF After
  <2>3. CASE pc[t] = "sleep" BY <2>1, <2>2, <2>3
  <2>4. CASE pc[t] = "wait" BY <2>1, <2>2, <2>4
  <2> QED BY <1>1, <2>3, <2>4
<1>7. pc[t] = "sched" => k.stat[t] = "RUNNING" BY <1>1, CurrentRuns
<1>8. Woke(k, k', {}) /\ k'.prio = k.prio /\ k'.timer = k.timer BY <1>3 DEF Effect, Woke
<1>9. t # Idle BY <1>1, <1>2
<1>10. ThreadsOK' BY <1>3, <1>4, <1>5, <1>6, <1>7, <1>8, <1>9, KeepThreads, IdleAssumption DEF Runnable
<1> QED BY <1>1, <1>3, <1>8, <1>10 DEF Woke

\* A step after which the threads are where they were, and S is runnable.
LEMMA WakeStep ==
    ASSUME k \in KState, ThreadsOK, NEW S \in SUBSET Thread, Woke(k, k', S),
           \A u \in Thread, o \in Obj : u \in ToSet(k'.wait[o]) => u \in ToSet(k.wait[o]),
           \A u \in Thread \ S, o \in Obj : u \in ToSet(k.wait[o]) => u \in ToSet(k'.wait[o]),
           pc' = pc
    PROVE  k' \in KState /\ ThreadsOK'
<1>1. k' \in KState BY DEF Woke
<1>2. ThreadsOK' BY KeepThreads
<1> QED BY <1>1, <1>2

\* The tick interrupt, but for the timers that expire in it.
LEMMA TickStep ==
    ASSUME k \in KState, ThreadsOK, TickEnter \/ TickLeave
    PROVE  /\ k' \in KState /\ ThreadsOK'
           /\ k'.wait = k.wait /\ k'.err = k.err /\ k'.prio = k.prio /\ k'.timer = k.timer
           /\ Woke(k, k', {}) /\ pc' = pc /\ isr' \in {"none", "timers"}
<1>0. KernelOK(k, {}) /\ k.timer \ {} = k.timer BY DEF ThreadsOK
<1>1. Effect(k, k', {}) /\ k'.wait = k.wait /\ k'.err = k.err
  <2>1. CASE TickEnter BY <2>1, <1>0, TimeSliceEffect DEF TickEnter
  <2>2. CASE TickLeave BY <2>2, <1>0 DEF TickLeave, Effect, Woke
  <2> QED BY <2>1, <2>2
<1>2. Woke(k, k', {}) /\ k'.prio = k.prio /\ k'.timer = k.timer BY <1>0, <1>1 DEF Effect, Woke
<1>3. pc' = pc /\ isr' \in {"none", "timers"} BY DEF TickEnter, TickLeave
<1>4. k' \in KState /\ ThreadsOK' BY <1>1, <1>2, <1>3, WakeStep
<1> QED BY <1>1, <1>2, <1>3, <1>4

\* The suspend lists without t, thread by thread.
LEMMA InWaitWithout ==
    ASSUME NEW a \in KState, KernelOK(a, {}), NEW t
    PROVE  \A o \in Obj : /\ WaitWithout(a, t)[o] = RemoveFirst(a.wait[o], t)
                          /\ ToSet(WaitWithout(a, t)[o]) = ToSet(a.wait[o]) \ {t}
<1> TAKE o \in Obj
<1>1. a.wait[o] \in Seq(Thread) /\ IsInjective(a.wait[o])
  BY DEF KState, KernelOK, WaitListsOK
<1>2. ToSet(RemoveFirst(a.wait[o], t)) = ToSet(a.wait[o]) \ {t}
  BY <1>1, RemoveFirstFacts
<1> QED BY <1>2 DEF WaitWithout

\* The timer of t expires: it leaves its list with an error, wherever it is.
LEMMA TimerStep ==
    ASSUME k \in KState, ThreadsOK, NEW t, TimerFire(t)
    PROVE  /\ k' \in KState /\ ThreadsOK' /\ t \in Thread /\ k.stat[t] = "SUSPEND"
           /\ k'.wait = WaitWithout(k, t) /\ k'.err = [k.err EXCEPT ![t] = "ETIMEOUT"]
           /\ k'.prio = k.prio /\ Woke(k, k', {t}) /\ pc' = pc /\ isr' = isr
           /\ t \in k.timer
<1>0. KernelOK(k, {}) /\ t \in k.timer /\ k' = _thread_timeout(k, t) /\ pc' = pc /\ isr' = isr
  BY DEF ThreadsOK, TimerFire
<1>1. /\ t \in Thread /\ k.stat[t] = "SUSPEND" /\ Effect(k, k', {t})
      /\ k'.wait = WaitWithout(k, t) /\ k'.err = [k.err EXCEPT ![t] = "ETIMEOUT"]
  BY <1>0, TimeoutEffect
<1>2. Woke(k, k', {t}) /\ k'.prio = k.prio BY <1>1 DEF Effect
<1>3. \A o \in Obj : ToSet(k'.wait[o]) = ToSet(k.wait[o]) \ {t} BY <1>0, <1>1, InWaitWithout
<1>4. k' \in KState /\ ThreadsOK' BY <1>0, <1>1, <1>2, <1>3, WakeStep
<1> QED BY <1>0, <1>1, <1>2, <1>4

\* rt_thread_sleep.
LEMMA SleepStep ==
    ASSUME k \in KState, ThreadsOK, NEW PC, pc \in [Thread -> PC], NEW t \in Thread, Sleep(t)
    PROVE  /\ k' \in KState /\ ThreadsOK'
           /\ k'.wait = k.wait /\ k'.err = [k.err EXCEPT ![t] = "EOK"] /\ k'.prio = k.prio
           /\ pc[t] = "run" /\ pc' = [pc EXCEPT ![t] = "sleep"] /\ isr' = isr
<1> DEFINE e == [k EXCEPT !.err[t] = "EOK"]
           s == rt_thread_suspend(e, t)
<1>0. /\ KernelOK(k, {}) /\ t = k.cur /\ t # Idle /\ pc[t] = "run"
      /\ k' = rt_thread_sleep(k, t) /\ pc' = [pc EXCEPT ![t] = "sleep"] /\ isr' = isr
  BY DEF ThreadsOK, Sleep, Calling, Worker, Executing, Goto
<1>1. k.stat[t] = "RUNNING" /\ \A o \in Obj : t \notin ToSet(k.wait[o]) BY <1>0, CurrentRuns
<1>2. /\ e \in KState
      /\ e.cur = k.cur /\ e.stat = k.stat /\ e.prio = k.prio /\ e.lock = k.lock
      /\ e.ready = k.ready /\ e.group = k.group /\ e.wait = k.wait
      /\ e.defunct = k.defunct /\ e.timer = k.timer /\ e.err = [k.err EXCEPT ![t] = "EOK"]
  BY DEF KState, Err
<1>3. k' = [s EXCEPT !.timer = @ \cup {t}] BY <1>0 DEF rt_thread_sleep
<1> HIDE DEF e
<1>4. KernelOK(e, {}) BY <1>0, <1>2, Irrelevant
<1>5. /\ s \in KState /\ KernelOK(s, {})
      /\ s.cur = e.cur /\ s.lock = e.lock /\ s.prio = e.prio
      /\ \A u \in Thread : s.stat[u] = IF u = t THEN "SUSPEND" ELSE e.stat[u]
      /\ s.wait = e.wait /\ s.err = e.err
  BY <1>0, <1>1, <1>2, <1>4, SuspendEffect
<1> HIDE DEF s
<1>6. /\ k' \in KState /\ k'.cur = s.cur /\ k'.lock = s.lock /\ k'.prio = s.prio
      /\ k'.stat = s.stat /\ k'.wait = s.wait /\ k'.err = s.err /\ k'.timer = s.timer \cup {t}
      /\ k'.ready = s.ready /\ k'.group = s.group /\ k'.defunct = s.defunct
  BY <1>3, <1>5 DEF KState
<1>7. KernelOK(k', {})
  <2>1. ReadyListsOK(k', {}) /\ WaitListsOK(k') /\ DefunctOK(k') /\ CurrentOK(k') /\ IdleOK(k')
    BY <1>5, <1>6 DEF KernelOK, ReadyListsOK, WaitListsOK, DefunctOK, CurrentOK, IdleOK
  <2>2. TimersOK(k') BY <1>5, <1>6 DEF KernelOK, TimersOK
  <2> QED BY <2>1, <2>2 DEF KernelOK
<1>8. pc'[t] = "sleep" /\ \A u \in Thread \ {t} : pc'[u] = pc[u] BY <1>0
<1>9. ThreadsOK' BY <1>0, <1>1, <1>2, <1>5, <1>6, <1>7, <1>8, SuspendThreads
<1> QED BY <1>0, <1>2, <1>5, <1>6, <1>9

\* A step that changes only the error code of one thread, and where the current
\* thread is.
LEMMA ErrorOnly ==
    ASSUME NEW a \in KState, KernelOK(a, {}), NEW t \in Thread, NEW x \in Err
    PROVE  LET b == [a EXCEPT !.err[t] = x]
           IN  /\ Effect(a, b, {}) /\ b.wait = a.wait /\ b.err = [a.err EXCEPT ![t] = x]
               /\ b.cur = a.cur /\ b.stat = a.stat
<1> DEFINE b == [a EXCEPT !.err[t] = x]
<1>1. /\ b \in KState
      /\ b.cur = a.cur /\ b.stat = a.stat /\ b.prio = a.prio /\ b.lock = a.lock
      /\ b.ready = a.ready /\ b.group = a.group /\ b.wait = a.wait
      /\ b.defunct = a.defunct /\ b.timer = a.timer /\ b.err = [a.err EXCEPT ![t] = x]
  BY DEF KState
<1> HIDE DEF b
<1>2. KernelOK(b, {}) BY <1>1, Irrelevant
<1>3. a.timer \ {} = a.timer OBVIOUS
<1> QED BY <1>1, <1>2, <1>3 DEF Effect, Woke, b

\* The executing thread moves on, and the suspend lists stay.
LEMMA MoveStep ==
    ASSUME k \in KState, ThreadsOK, NEW PC, pc \in [Thread -> PC],
           NEW t \in Thread, t = k.cur, t # Idle, pc[t] \notin {"sleep", "wait"},
           NEW l, pc' = [pc EXCEPT ![t] = l],
           NEW S \in SUBSET Thread, Woke(k, k', S),
           \A u \in Thread, o \in Obj : u \in ToSet(k'.wait[o]) => u \in ToSet(k.wait[o]),
           \A u \in Thread \ S, o \in Obj : u \in ToSet(k.wait[o]) => u \in ToSet(k'.wait[o])
    PROVE  k' \in KState /\ ThreadsOK'
<1>1. k.stat[t] = "RUNNING" BY CurrentRuns
<1>2. \A u \in Thread \ {t} : pc'[u] = pc[u] OBVIOUS
<1>3. ThreadsOK' BY <1>1, <1>2, KeepThreads, IdleAssumption DEF Runnable
<1> QED BY <1>3 DEF Woke

\* The executing thread leaves the kernel state alone and moves on.
LEMMA GotoStep ==
    ASSUME k \in KState, ThreadsOK, NEW PC, pc \in [Thread -> PC],
           NEW t \in Thread, t = k.cur, t # Idle, pc[t] \notin {"sleep", "wait"},
           NEW l, pc' = [pc EXCEPT ![t] = l], k' = k
    PROVE  ThreadsOK'
<1>1. Woke(k, k', {})
  <2>1. k.timer \ {} = k.timer OBVIOUS
  <2> QED BY <2>1 DEF Woke, ThreadsOK
<1>2. {} \in SUBSET Thread OBVIOUS
<1> QED BY <1>1, <1>2, MoveStep

\* The return of rt_thread_sleep.
LEMMA SleepReturnStep ==
    ASSUME k \in KState, ThreadsOK, NEW PC, pc \in [Thread -> PC], NEW t \in Thread,
           SleepReturn(t)
    PROVE  /\ k' \in KState /\ ThreadsOK' /\ pc[t] = "slept"
           /\ k'.wait = k.wait /\ k'.prio = k.prio /\ pc' = [pc EXCEPT ![t] = "run"] /\ isr' = isr
           /\ \A u \in Thread \ {t} : k'.err[u] = k.err[u]
           /\ k'.err[t] \in Err /\ k'.timer = k.timer /\ Woke(k, k', {})
<1> DEFINE x == IF k.err[t] = "ETIMEOUT" THEN "EOK" ELSE k.err[t]
<1>0. /\ KernelOK(k, {}) /\ t = k.cur /\ t # Idle /\ pc[t] = "slept"
      /\ k' = [k EXCEPT !.err[t] = x] /\ pc' = [pc EXCEPT ![t] = "run"] /\ isr' = isr
  BY DEF ThreadsOK, SleepReturn, Executing, Goto, KState
<1>1. x \in Err /\ k.err \in [Thread -> Err] BY DEF KState, Err
<1> HIDE DEF x
<1>2. Effect(k, k', {}) /\ k'.wait = k.wait /\ k'.err = [k.err EXCEPT ![t] = x]
  BY <1>0, <1>1, ErrorOnly
<1>3. k'.prio = k.prio /\ Woke(k, k', {}) /\ k'.timer = k.timer BY <1>2 DEF Effect, Woke
<1>4. {} \in SUBSET Thread OBVIOUS
<1>5. k' \in KState /\ ThreadsOK' BY <1>0, <1>2, <1>3, <1>4, MoveStep
<1> QED BY <1>0, <1>1, <1>2, <1>3, <1>5

\* One look of _ipc_list_resume_all, and one turn of it.
LEMMA LookStep ==
    ASSUME k \in KState, ThreadsOK, NEW PC, pc \in [Thread -> PC], NEW t \in Thread,
           NEW o \in Obj, ResumeAllLook(t, o)
    PROVE  /\ k' = k /\ ThreadsOK' /\ pc[t] = "delall" /\ isr' = isr
           /\ pc' = [pc EXCEPT ![t] = IF k.wait[o] = << >> THEN "delobj" ELSE "delone"]
<1>1. /\ k' = k /\ t = k.cur /\ pc[t] = "delall" /\ isr' = isr
      /\ pc' = [pc EXCEPT ![t] = IF k.wait[o] = << >> THEN "delobj" ELSE "delone"]
  BY DEF ResumeAllLook, Executing, Goto
<1>2. t # Idle BY <1>1 DEF ThreadsOK
<1>3. ThreadsOK' BY <1>1, <1>2, GotoStep
<1> QED BY <1>1, <1>3

LEMMA TurnStep ==
    ASSUME k \in KState, ThreadsOK, NEW PC, pc \in [Thread -> PC], NEW t \in Thread,
           NEW o \in Obj, ResumeAllTurn(t, o)
    PROVE  LET u == Head(k.wait[o])
           IN  /\ k' \in KState /\ ThreadsOK' /\ pc[t] = "delone" /\ isr' = isr
               /\ pc' = [pc EXCEPT ![t] = "delall"] /\ k.wait[o] # << >>
               /\ u \in Thread /\ u \in ToSet(k.wait[o])
               /\ k'.wait = [k.wait EXCEPT ![o] = Tail(@)] /\ k'.prio = k.prio
               /\ k'.err = [k.err EXCEPT ![u] = "ERROR"] /\ k'.wait = WaitWithout(k, u)
               /\ Woke(k, k', {u})
<1> DEFINE u == Head(k.wait[o])
<1>1. /\ KernelOK(k, {}) /\ t = k.cur /\ pc[t] = "delone" /\ k.wait[o] # << >> /\ isr' = isr
      /\ k' = ResumeWithError(k, o) /\ pc' = [pc EXCEPT ![t] = "delall"]
  BY DEF ThreadsOK, ResumeAllTurn, Executing, Goto
<1>2. t # Idle BY <1>1 DEF ThreadsOK
<1>3. /\ Effect(k, k', {u}) /\ k'.wait = [k.wait EXCEPT ![o] = Tail(@)]
      /\ k'.err = [k.err EXCEPT ![u] = "ERROR"]
  BY <1>1, ResumeErrorEffect
<1>4. u \in Thread /\ u \in ToSet(k.wait[o]) /\ WaitWithout(k, u) = [k.wait EXCEPT ![o] = Tail(@)]
  BY <1>1, HeadFacts
<1> HIDE DEF u
<1>5. \A q \in Obj : ToSet(k'.wait[q]) = ToSet(k.wait[q]) \ {u}
  <2>1. k'.wait = WaitWithout(k, u) BY <1>3, <1>4
  <2> QED BY <1>1, <2>1, InWaitWithout
<1>6. Woke(k, k', {u}) /\ k'.prio = k.prio BY <1>3 DEF Effect
<1>7. k' \in KState /\ ThreadsOK' BY <1>1, <1>2, <1>4, <1>5, <1>6, MoveStep
<1> QED BY <1>1, <1>3, <1>4, <1>6, <1>7 DEF u

\* The executing worker resumes the first thread of a list and goes on to its
\* rt_schedule.
LEMMA ResumeStep ==
    ASSUME k \in KState, ThreadsOK, NEW PC, pc \in [Thread -> PC],
           NEW t \in Thread, t = k.cur, t # Idle, pc[t] \notin {"sleep", "wait"},
           NEW l, pc' = [pc EXCEPT ![t] = l],
           NEW o \in Obj, k.wait[o] # << >>, k' = _ipc_list_resume(k, o)
    PROVE  LET u == Head(k.wait[o])
           IN  /\ k' \in KState /\ ThreadsOK'
               /\ u \in Thread /\ u \in ToSet(k.wait[o])
               /\ k'.wait = [k.wait EXCEPT ![o] = Tail(@)] /\ k'.prio = k.prio
               /\ k'.err = k.err /\ k'.wait = WaitWithout(k, u)
               /\ Woke(k, k', {u})
<1> DEFINE u == Head(k.wait[o])
<1>1. KernelOK(k, {}) BY DEF ThreadsOK
<1>3. Effect(k, k', {u}) /\ k'.wait = [k.wait EXCEPT ![o] = Tail(@)] /\ k'.err = k.err
  BY <1>1, IpcResumeEffect
<1>4. u \in Thread /\ u \in ToSet(k.wait[o]) /\ WaitWithout(k, u) = [k.wait EXCEPT ![o] = Tail(@)]
  BY <1>1, HeadFacts
<1> HIDE DEF u
<1>5. \A q \in Obj : ToSet(k'.wait[q]) = ToSet(k.wait[q]) \ {u}
  <2>1. k'.wait = WaitWithout(k, u) BY <1>3, <1>4
  <2> QED BY <1>1, <2>1, InWaitWithout
<1>6. Woke(k, k', {u}) /\ k'.prio = k.prio BY <1>3 DEF Effect
<1>7. k' \in KState /\ ThreadsOK' BY <1>4, <1>5, <1>6, MoveStep
<1> QED BY <1>3, <1>4, <1>6, <1>7 DEF u

\* An interrupt handler resumes the first thread of a list and reschedules.
LEMMA IsrResumeStep ==
    ASSUME k \in KState, ThreadsOK, pc' = pc, NEW o \in Obj, k.wait[o] # << >>,
           k' = rt_schedule(_ipc_list_resume(k, o))
    PROVE  LET u == Head(k.wait[o])
           IN  /\ k' \in KState /\ ThreadsOK'
               /\ u \in Thread /\ u \in ToSet(k.wait[o])
               /\ k'.wait = [k.wait EXCEPT ![o] = Tail(@)] /\ k'.prio = k.prio
               /\ k'.err = k.err /\ k'.wait = WaitWithout(k, u)
               /\ Woke(k, k', {u})
<1> DEFINE u == Head(k.wait[o])
           s == _ipc_list_resume(k, o)
<1>1. KernelOK(k, {}) BY DEF ThreadsOK
<1>2. Effect(k, s, {u}) /\ s.wait = [k.wait EXCEPT ![o] = Tail(@)] /\ s.err = k.err
  BY <1>1, IpcResumeEffect
<1>4. u \in Thread /\ u \in ToSet(k.wait[o]) /\ WaitWithout(k, u) = [k.wait EXCEPT ![o] = Tail(@)]
  BY <1>1, HeadFacts
<1> HIDE DEF u, s
<1>5. s \in KState /\ KernelOK(s, {}) BY <1>2 DEF Effect, Woke
<1>6. Effect(s, k', {}) /\ k'.wait = s.wait /\ k'.err = s.err BY <1>5, ScheduleEffect DEF s
<1>7. Effect(k, k', {u})
  <2>1. Effect(k, k', {u} \cup {}) BY <1>2, <1>6, EffectTrans
  <2>2. {u} \cup {} = {u} OBVIOUS
  <2> QED BY <2>1, <2>2
<1>8. \A q \in Obj : ToSet(k'.wait[q]) = ToSet(k.wait[q]) \ {u}
  <2>1. k'.wait = WaitWithout(k, u) BY <1>2, <1>4, <1>6
  <2> QED BY <1>1, <2>1, InWaitWithout
<1>9. Woke(k, k', {u}) /\ k'.prio = k.prio BY <1>7 DEF Effect
<1>10. k' \in KState /\ ThreadsOK' BY <1>4, <1>8, <1>9, WakeStep
<1> QED BY <1>2, <1>4, <1>6, <1>9, <1>10 DEF u

\* The executing worker ends every wait on o, in one region.
LEMMA ResumeAllStep ==
    ASSUME k \in KState, ThreadsOK, NEW PC, pc \in [Thread -> PC],
           NEW t \in Thread, t = k.cur, t # Idle, pc[t] \notin {"sleep", "wait"},
           NEW l, pc' = [pc EXCEPT ![t] = l], NEW o \in Obj, k' = ResumeAll(k, o)
    PROVE  LET S == ToSet(k.wait[o])
           IN  /\ k' \in KState /\ ThreadsOK' /\ S \subseteq Thread
               /\ k'.wait = [k.wait EXCEPT ![o] = << >>] /\ k'.prio = k.prio
               /\ k'.err = [u \in Thread |-> IF u \in S THEN "ERROR" ELSE k.err[u]]
               /\ Woke(k, k', S)
<1> DEFINE S == ToSet(k.wait[o])
<1>1. KernelOK(k, {}) BY DEF ThreadsOK
<1>2. /\ Effect(k, k', S) /\ k'.wait = [k.wait EXCEPT ![o] = << >>]
      /\ k'.err = [u \in Thread |-> IF u \in S THEN "ERROR" ELSE k.err[u]]
  BY <1>1, ResumeAllEffect
<1>3. k.wait \in [Obj -> Seq(Thread)] BY DEF KState
<1>4. S \in SUBSET Thread /\ ToSet(<< >>) = {}
  <2>1. k.wait[o] \in Seq(Thread) /\ << >> \in Seq(Thread) BY <1>3
  <2> QED BY <2>1, EmptyFacts
<1>5. Woke(k, k', S) /\ k'.prio = k.prio BY <1>2 DEF Effect
<1>6. /\ \A u \in Thread, q \in Obj : u \in ToSet(k'.wait[q]) => u \in ToSet(k.wait[q])
      /\ \A u \in Thread \ S, q \in Obj : u \in ToSet(k.wait[q]) => u \in ToSet(k'.wait[q])
  BY <1>2, <1>3, <1>4
<1> HIDE DEF S
<1>7. k' \in KState /\ ThreadsOK' BY <1>4, <1>5, <1>6, MoveStep
<1> QED BY <1>2, <1>4, <1>5, <1>7 DEF S

\* The region of a call that waits: the error code is cleared, the thread is
\* linked and its timer started.
Blocking(a, o, t, flag, w) ==
    StartTimer(_ipc_list_suspend([a EXCEPT !.err[t] = "EOK"], o, t, flag), t, w = "limited")

\* What that region does.
BlockedOn(a, b, o, t, flag, w) ==
    /\ Linked(a, b, o, t, flag)
    /\ b.err = [a.err EXCEPT ![t] = "EOK"]
    /\ b.timer = IF w = "limited" THEN a.timer \cup {t} ELSE a.timer

LEMMA BlockingEffect ==
    ASSUME NEW a \in KState, KernelOK(a, {}), NEW t, t = a.cur, t # Idle,
           a.stat[t] = "RUNNING", NEW o \in Obj, NEW flag, NEW w
    PROVE  BlockedOn(a, Blocking(a, o, t, flag, w), o, t, flag, w)
<1> DEFINE e == [a EXCEPT !.err[t] = "EOK"]
           s == _ipc_list_suspend(e, o, t, flag)
           b == [s EXCEPT !.timer = IF w = "limited" THEN @ \cup {t} ELSE @]
<1>0. t \in Thread BY DEF KState
<1>1. Effect(a, e, {}) /\ e.wait = a.wait /\ e.err = [a.err EXCEPT ![t] = "EOK"]
      /\ e.cur = a.cur /\ e.stat = a.stat
  <2>1. "EOK" \in Err BY DEF Err
  <2> QED BY <1>0, <2>1, ErrorOnly
<1>2. Blocking(a, o, t, flag, w) = b BY DEF Blocking, StartTimer
<1> HIDE DEF e
<1>3. e \in KState /\ KernelOK(e, {}) /\ e.prio = a.prio /\ e.lock = a.lock /\ e.timer = a.timer
  BY <1>1 DEF Effect, Woke
<1>4. t = e.cur /\ e.stat[t] = "RUNNING" BY <1>1
<1>5. Linked(e, s, o, t, flag) BY <1>3, <1>4, WaitEffect
<1>6. s.err = e.err BY <1>3, <1>4, WaitEffect
<1>7. s.timer = e.timer BY <1>3, <1>4, WaitEffect
<1> HIDE DEF s
<1>8. Position(e, o, t, flag) = Position(a, o, t, flag)
  BY <1>1, <1>3 DEF Position, PrioPosition
<1>9. s \in KState /\ KernelOK(s, {}) /\ s.stat[t] = "SUSPEND" BY <1>0, <1>5 DEF Linked
<1>10. /\ b \in KState /\ b.cur = s.cur /\ b.lock = s.lock /\ b.prio = s.prio
       /\ b.err = s.err /\ b.stat = s.stat /\ b.wait = s.wait /\ b.ready = s.ready
       /\ b.group = s.group /\ b.defunct = s.defunct
       /\ b.timer = IF w = "limited" THEN s.timer \cup {t} ELSE s.timer
  BY <1>0, <1>9 DEF KState
<1> HIDE DEF b
<1>11. KernelOK(b, {})
  <2>1. ReadyListsOK(b, {}) BY <1>9, <1>10 DEF KernelOK, ReadyListsOK
  <2>2. WaitListsOK(b) BY <1>9, <1>10 DEF KernelOK, WaitListsOK
  <2>3. DefunctOK(b) /\ CurrentOK(b) /\ IdleOK(b)
    BY <1>9, <1>10 DEF KernelOK, DefunctOK, CurrentOK, IdleOK
  <2>4. TimersOK(b) BY <1>9, <1>10 DEF KernelOK, TimersOK
  <2> QED BY <2>1, <2>2, <2>3, <2>4 DEF KernelOK
<1>12. Linked(a, b, o, t, flag) BY <1>1, <1>3, <1>5, <1>8, <1>10, <1>11 DEF Linked
<1>13. b.err = [a.err EXCEPT ![t] = "EOK"]
       /\ b.timer = IF w = "limited" THEN a.timer \cup {t} ELSE a.timer
  BY <1>1, <1>3, <1>6, <1>7, <1>10
<1> QED BY <1>2, <1>12, <1>13 DEF BlockedOn

\* The executing worker waits on the list of o.
LEMMA WaitStep ==
    ASSUME k \in KState, ThreadsOK, NEW PC, pc \in [Thread -> PC],
           NEW t \in Thread, t = k.cur, t # Idle, pc[t] \notin {"sleep", "wait"},
           pc' = [pc EXCEPT ![t] = "wait"],
           NEW o \in Obj, NEW flag, NEW w, k' = Blocking(k, o, t, flag, w)
    PROVE  ThreadsOK' /\ BlockedOn(k, k', o, t, flag, w)
<1>1. KernelOK(k, {}) BY DEF ThreadsOK
<1>2. k.stat[t] = "RUNNING" BY CurrentRuns
<1>3. BlockedOn(k, k', o, t, flag, w) BY <1>1, <1>2, BlockingEffect
<1>4. /\ k' \in KState /\ KernelOK(k', {})
      /\ k'.cur = k.cur /\ k'.lock = k.lock
      /\ \A u \in Thread : k'.stat[u] = IF u = t THEN "SUSPEND" ELSE k.stat[u]
      /\ ToSet(k'.wait[o]) = ToSet(k.wait[o]) \cup {t}
  BY <1>3 DEF BlockedOn, Linked
<1>5. \A q \in Obj \ {o} : k'.wait[q] = k.wait[q]
  <2>1. k.wait \in [Obj -> Seq(Thread)] BY DEF KState
  <2> QED BY <1>3, <2>1 DEF BlockedOn, Linked
<1>6. \A u \in Thread \ {t}, q \in Obj : u \in ToSet(k'.wait[q]) <=> u \in ToSet(k.wait[q])
  BY <1>4, <1>5
<1>7. pc'[t] = "wait" /\ \A u \in Thread \ {t} : pc'[u] = pc[u] OBVIOUS
<1>8. t \in ToSet(k'.wait[o]) BY <1>4
<1>9. ThreadsOK' BY <1>4, <1>6, <1>7, <1>8, SuspendThreads
<1> QED BY <1>3, <1>9

\* The state rt_system_scheduler_start leaves.
LEMMA BootThreads ==
    ASSUME k = KBoot, pc = [t \in Thread |-> "run"]
    PROVE  k \in KState /\ ThreadsOK /\ k.prio = BootPrio /\ \A o \in Obj : k.wait[o] = << >>
<1>1. First \in Thread /\ Idle \in Thread /\ First # Idle BY BootAssumption, IdleAssumption
<1>2. /\ k.cur = First /\ k.prio = BootPrio /\ k.timer = {} /\ k.defunct = << >> /\ k.lock = 0
      /\ k.stat = [t \in Thread |-> IF t = First THEN "RUNNING" ELSE "READY"]
      /\ k.ready = BootReady /\ k.group = {p \in Prio : BootReady[p] # << >>}
      /\ k.wait = [o \in Obj |-> << >>]
  BY DEF KBoot
<1>3. k \in KState
  <2>1. InitTick \in 1 .. InitTick BY InitTickAssumption
  <2>2. BootReady \in [Prio -> Seq(Thread)] BY BootAssumption
  <2>3. BootPrio \in [Thread -> Prio] BY BootAssumption
  <2> QED BY <1>1, <2>1, <2>2, <2>3 DEF KBoot, KState, Stat, Err
<1>4. ToSet(<< >>) = {}
  <2>1. << >> \in Seq(Thread) OBVIOUS
  <2> QED BY <2>1, EmptyFacts
<1>5. KernelOK(k, {})
  <2>1. ReadyListsOK(k, {})
    <3>1. \A p \in Prio : /\ IsInjective(BootReady[p])
                          /\ ToSet(BootReady[p]) = {t \in Thread \ {First} : BootPrio[t] = p}
      BY BootAssumption
    <3>2. \A t \in Thread : BootPrio[t] \in Prio BY BootAssumption
    <3> QED BY <1>2, <3>1, <3>2 DEF ReadyListsOK
  <2>2. IsInjective(<< >>) BY DEF IsInjective
  <2>3. WaitListsOK(k) BY <1>2, <1>4, <2>2 DEF WaitListsOK
  <2>4. DefunctOK(k) BY <1>2, <1>4, <2>2 DEF DefunctOK
  <2>5. CurrentOK(k) /\ TimersOK(k) BY <1>1, <1>2 DEF CurrentOK, TimersOK
  <2>6. IdleOK(k) BY <1>1, <1>2, BootAssumption DEF IdleOK
  <2> QED BY <2>1, <2>3, <2>4, <2>5, <2>6 DEF KernelOK
<1>6. ThreadsOK BY <1>1, <1>2, <1>4, <1>5 DEF ThreadsOK
<1> QED BY <1>2, <1>3, <1>6

=============================================================================
