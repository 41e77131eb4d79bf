---------------------------- MODULE MutexProofs ----------------------------
(***************************************************************************)
(* Theorems about the mutexes, for every number of mutexes, threads and    *)
(* priorities, every recursion limit, every mixture of calls and every     *)
(* interleaving with the tick interrupt; and about priority inheritance,   *)
(* for one mutex that is never deleted.                                    *)
(***************************************************************************)
EXTENDS Mutex, IpcProofs

(* Inheriting and restoring a priority *)

\* The call that takes a to b has changed priorities only.
Reranked(a, b) ==
    /\ b \in KState /\ KernelOK(b, {})
    /\ b.cur = a.cur /\ b.lock = a.lock /\ b.timer = a.timer /\ b.stat = a.stat
    /\ b.wait = a.wait /\ b.err = a.err

LEMMA RerankSame ==
    ASSUME NEW a \in KState, KernelOK(a, {})
    PROVE  Reranked(a, a)
  BY DEF Reranked

\* RT_THREAD_CTRL_CHANGE_PRIORITY.
LEMMA ChangePriorityEffect ==
    ASSUME NEW a \in KState, KernelOK(a, {}), NEW t \in Thread \ {Idle}, NEW p \in Prio
    PROVE  LET b == ChangePriority(a, t, p)
           IN  Reranked(a, b) /\ b.prio = [a.prio EXCEPT ![t] = p]
<1> DEFINE b == ChangePriority(a, t, p)
<1>1. b \in KState /\ KernelOK(b, {}) /\ b.cur = a.cur /\ b.lock = a.lock /\ b.timer = a.timer
      /\ b.stat = a.stat
  BY ChangePriorityOK
<1>2. b.wait = a.wait /\ b.err = a.err /\ b.prio = [a.prio EXCEPT ![t] = p]
  <2>1. CASE a.stat[t] # "READY" BY <2>1 DEF ChangePriority, KState
  <2>2. CASE a.stat[t] = "READY"
    <3> DEFINE r == rt_schedule_remove_thread(a, t)
               e == [r EXCEPT !.prio[t] = p]
    <3>1. b = rt_schedule_insert_thread(e, t) BY <2>2 DEF ChangePriority
    <3>2. r.wait = WaitWithout(a, t) /\ r.err = a.err
      BY RemoveThreadLists DEF KState
    <3>3. r \in KState /\ r = [a EXCEPT !.ready = r.ready, !.wait = r.wait,
                                        !.defunct = r.defunct, !.group = r.group]
      BY <2>2, RemoveThread
    <3> HIDE DEF r, b
    <3>4. r.prio = a.prio BY <3>3 DEF KState
    <3>5. a.wait \in [Obj -> Seq(Thread)] /\ \A o \in Obj : t \notin ToSet(a.wait[o])
      BY <2>2 DEF KState, KernelOK, WaitListsOK
    <3>6. r.wait = a.wait BY <3>2, <3>5, WithoutAbsent
    <3>7. e.wait = a.wait /\ e.err = a.err /\ e.prio = [a.prio EXCEPT ![t] = p]
          /\ "wait" \in DOMAIN e /\ "err" \in DOMAIN e /\ "prio" \in DOMAIN e
      BY <3>2, <3>3, <3>4, <3>6 DEF KState
    <3> HIDE DEF e
    <3>8. b.wait = e.wait /\ b.err = e.err BY <3>1, <3>7, InsertThreadLists
    <3>9. b.prio = e.prio BY <3>1, <3>7 DEF rt_schedule_insert_thread
    <3> QED BY <3>7, <3>8, <3>9
  <2> QED BY <2>1, <2>2
<1> HIDE DEF b
<1>3. Reranked(a, b) BY <1>1, <1>2 DEF Reranked
<1> QED BY <1>2, <1>3 DEF b

-----------------------------------------------------------------------------
(* The inductive invariant *)

Waiting == {"wait", "waited"}

\* What the inductive invariant says.
LEMMA Now ==
    ASSUME Inductive
    PROVE  /\ k \in KState /\ ThreadsOK /\ KernelOK(k, {}) /\ pc \in [Thread -> MutexPC]
           /\ value \in [Obj -> 0 .. 1] /\ owner \in [Obj -> Thread \cup {None}]
           /\ hold \in [Obj -> 0 .. HoldMax] /\ orig \in [Obj -> Prio \cup {NoPrio}]
           /\ alive \subseteq Obj /\ arg \in [Thread -> Obj \cup {None}]
           /\ inside \in [Obj -> [Thread -> 0 .. HoldMax]] /\ isr \in {"none", "timers"}
           /\ k.wait \in [Obj -> Seq(Thread)] /\ k.err \in [Thread -> Err]
           /\ OwnerConsistent /\ HoldersAgree /\ WaitOutcome
           /\ Engaged /\ GoneEmpty /\ WaitersLinked /\ GranteesHold /\ DeletersAlone
           /\ None \notin Thread /\ HoldMax \in Nat \ {0}
<1>1. k.wait \in [Obj -> Seq(Thread)] /\ k.err \in [Thread -> Err]
  BY DEF Inductive, TypeOK, KState
<1> QED BY <1>1, MutexAssumption DEF Inductive, TypeOK, HoldersAgree, ThreadsOK, Engaged

\* A thread on a suspend list.
LEMMA WaiterFacts ==
    ASSUME Inductive, NEW m \in Obj, NEW t \in ToSet(k.wait[m])
    PROVE  /\ t \in Thread /\ t # Idle /\ pc[t] \in Waiting /\ arg[t] = m /\ owner[m] # t
           /\ k.err[t] = "EOK" /\ m \in alive /\ owner[m] # None /\ k.stat[t] = "SUSPEND"
<1>1. k.wait[m] \in Seq(Thread) BY Now
<1>2. t \in Thread BY <1>1, EmptyFacts
<1>3. k.wait[m] # << >> BY <1>1, EmptyFacts
<1>4. pc[t] \in Waiting BY <1>2, Now DEF ThreadsOK, Blocked, Waiting
<1>5. arg[t] = m /\ owner[m] # t /\ k.err[t] = "EOK" /\ m \in alive
  BY <1>3, Now DEF GoneEmpty, WaitersLinked
<1>6. owner[m] # None BY <1>3, <1>5, Now DEF OwnerConsistent
<1>7. t # Idle BY <1>4, Now DEF ThreadsOK, Waiting
<1>8. k.stat[t] = "SUSPEND" BY Now DEF KernelOK, WaitListsOK
<1> QED BY <1>2, <1>4, <1>5, <1>6, <1>7, <1>8

\* Steps that change no mutex, no suspend list and no error code of a waiting
\* call, and begin and end neither a waiting call nor a deletion.
LEMMA QuietOK ==
    ASSUME Inductive, k' \in KState, ThreadsOK', k'.wait = k.wait,
           \A u \in Thread : pc[u] \in Waiting => k'.err[u] = k.err[u],
           \A u \in Thread : pc'[u] \in Waiting <=> pc[u] \in Waiting,
           \A u \in Thread : pc'[u] \in Deleting => pc[u] \in Deleting,
           \A u \in Thread : pc'[u] = "delobj" => pc[u] = "delobj" \/ k.wait[arg[u]] = << >>,
           pc' \in [Thread -> MutexPC], isr' \in {"none", "timers"}, UNCHANGED mutexOnly
    PROVE  Inductive'
<1>0. /\ value' = value /\ owner' = owner /\ hold' = hold /\ orig' = orig
      /\ alive' = alive /\ arg' = arg /\ inside' = inside
  BY DEF mutexOnly
<1>1. TypeOK' BY <1>0, Now DEF TypeOK
<1>2. OwnerConsistent' BY <1>0, Now DEF OwnerConsistent
<1>3. HoldersAgree' BY <1>0, <1>2, Now DEF HoldersAgree, Blocked, Waiting
<1>4. WaitOutcome' BY ZenonT(40), <1>0, Now DEF WaitOutcome, Blocked, Waiting
<1>5. Engaged'
  <2>1. \A m \in Obj : \A t \in ToSet(k.wait[m]) : k'.err[t] = k.err[t] BY WaiterFacts
  <2>2. \A m \in Obj : owner'[m] # Idle BY <1>0, Now DEF Engaged
  <2>3. GoneEmpty' BY <1>0, Now DEF GoneEmpty
  <2>4. WaitersLinked' BY <1>0, <2>1, Now DEF WaitersLinked
  <2>5. GranteesHold' BY <1>0, Now DEF GranteesHold, Blocked, Waiting
  <2>6. DeletersAlone' BY <1>0, Now DEF DeletersAlone, Deleting
  <2> QED BY <2>2, <2>3, <2>4, <2>5, <2>6 DEF Engaged
<1> QED BY <1>1, <1>3, <1>4, <1>5 DEF Inductive

\* What the thread that makes a call finds.
LEMMA CallFacts ==
    ASSUME Inductive, NEW t \in Thread, NEW m \in Obj, Call(t, m)
    PROVE  /\ t = k.cur /\ t # Idle /\ pc[t] = "run" /\ m \in alive
           /\ pc[t] \notin Waiting /\ pc[t] \notin Deleting
           /\ \A o \in Obj : t \notin ToSet(k.wait[o])
           /\ \A u \in Thread : pc[u] \in Deleting => arg[u] # m
<1>1. /\ t = k.cur /\ t # Idle /\ pc[t] = "run" /\ m \in alive
      /\ \A u \in Thread : pc[u] \in Deleting => arg[u] # m
  BY DEF Call, Calling, Worker, Executing
<1>2. \A o \in Obj : t \notin ToSet(k.wait[o]) BY <1>1, Now, CurrentRuns
<1> QED BY <1>1, <1>2 DEF Waiting, Deleting

\* A call that changes only the error code of its caller in the kernel state.
LEMMA ErrorStep ==
    ASSUME Inductive, NEW t \in Thread, NEW x \in Err, k' = [k EXCEPT !.err[t] = x], pc' = pc
    PROVE  /\ k' \in KState /\ ThreadsOK' /\ k'.wait = k.wait /\ k'.prio = k.prio
           /\ \A u \in Thread \ {t} : k'.err[u] = k.err[u]
<1>1. Effect(k, k', {}) /\ k'.wait = k.wait /\ k'.err = [k.err EXCEPT ![t] = x]
  BY Now, ErrorOnly
<1>2. {} \in SUBSET Thread OBVIOUS
<1>3. Woke(k, k', {}) /\ k'.prio = k.prio BY <1>1 DEF Effect
<1>4. k' \in KState /\ ThreadsOK' BY <1>1, <1>2, <1>3, Now, WakeStep
<1>5. \A u \in Thread \ {t} : k'.err[u] = k.err[u] BY <1>1, Now
<1> QED BY <1>1, <1>3, <1>4, <1>5

LEMMA TakeRefusedOK ==
    ASSUME Inductive, NEW t \in Thread, NEW m \in Obj, TakeRefused(t, m) \/ ReleaseRefused(t, m)
    PROVE  Inductive' /\ k'.wait = k.wait /\ k'.prio = k.prio
<1>1. PICK x \in Err : k' = [k EXCEPT !.err[t] = x]
  BY DEF TakeRefused, ReleaseRefused, Err
<1>2. pc' = pc /\ isr' = isr /\ UNCHANGED mutexOnly /\ Call(t, m)
  BY DEF TakeRefused, ReleaseRefused, mutexOnly
<1>3. /\ k' \in KState /\ ThreadsOK' /\ k'.wait = k.wait /\ k'.prio = k.prio
      /\ \A u \in Thread \ {t} : k'.err[u] = k.err[u]
  BY <1>1, <1>2, ErrorStep
<1>4. pc[t] \notin Waiting BY <1>2, CallFacts
<1>5. Inductive' BY <1>2, <1>3, <1>4, Now, QuietOK
<1> QED BY <1>3, <1>5

\* The mutexes other than m stay as they are.
Others(m) ==
    \A n \in Obj \ {m} : /\ value'[n] = value[n] /\ owner'[n] = owner[n] /\ hold'[n] = hold[n]
                         /\ orig'[n] = orig[n] /\ inside'[n] = inside[n]

\* A call of the running thread that changes the fields of m only: m gets or
\* stays with an owner, the caller, or is free.
LEMMA OwnCall ==
    ASSUME Inductive, NEW t \in Thread, NEW m \in Obj, Call(t, m),
           k' \in KState, ThreadsOK', k'.wait = k.wait,
           \A u \in Thread \ {t} : k'.err[u] = k.err[u],
           pc' = pc, isr' = isr, arg' = arg, alive' = alive, Others(m),
           value' \in [Obj -> 0 .. 1], owner' \in [Obj -> Thread \cup {None}],
           hold' \in [Obj -> 0 .. HoldMax], orig' \in [Obj -> Prio \cup {NoPrio}],
           inside' \in [Obj -> [Thread -> 0 .. HoldMax]],
           owner[m] \in {t, None},
           \/ /\ owner'[m] = t /\ value'[m] = 0 /\ hold'[m] > 0 /\ orig'[m] \in Prio
              /\ inside'[m][t] = hold'[m]
           \/ /\ owner'[m] = None /\ value'[m] = 1 /\ hold'[m] = 0 /\ orig'[m] = NoPrio
              /\ inside'[m][t] = 0 /\ k.wait[m] = << >>,
           \A u \in Thread \ {t} : inside'[m][u] = inside[m][u]
    PROVE  Inductive'
<1>0. /\ t = k.cur /\ t # Idle /\ pc[t] = "run" /\ m \in alive
      /\ pc[t] \notin Waiting /\ pc[t] \notin Deleting
      /\ \A o \in Obj : t \notin ToSet(k.wait[o])
      /\ \A u \in Thread : pc[u] \in Deleting => arg[u] # m
  BY CallFacts
<1>1. TypeOK' BY Now DEF TypeOK
<1>a. owner'[m] # Idle /\ \A u \in Thread \ {t} : owner[m] # u /\ owner'[m] # u
  BY <1>0, Now, IdleAssumption
<1>2. OwnerConsistent'
  <2> SUFFICES ASSUME NEW n \in alive
               PROVE  IF owner'[n] = None
                      THEN value'[n] = 1 /\ hold'[n] = 0 /\ orig'[n] = NoPrio /\ k.wait[n] = << >>
                      ELSE value'[n] = 0 /\ hold'[n] > 0 /\ orig'[n] \in Prio
    BY DEF OwnerConsistent
  <2>1. CASE n # m
    <3>1. n \in Obj \ {m} BY <2>1, Now
    <3>2. /\ value'[n] = value[n] /\ owner'[n] = owner[n] /\ hold'[n] = hold[n]
          /\ orig'[n] = orig[n]
      BY <3>1 DEF Others
    <3> QED BY <3>2, Now DEF OwnerConsistent
  <2>2. CASE n = m BY <2>2, Now
  <2> QED BY <2>1, <2>2
<1>3. HoldersAgree'
  <2> SUFFICES ASSUME NEW n \in alive, NEW u \in Thread
               PROVE  inside'[n][u] = IF owner'[n] # u \/ (pc[u] \in Waiting /\ arg[u] = n)
                                      THEN 0 ELSE hold'[n]
    BY <1>2 DEF HoldersAgree, Blocked, Waiting
  <2>1. n \in Obj BY Now
  <2>2. inside[n][u] = IF owner[n] # u \/ (pc[u] \in Waiting /\ arg[u] = n) THEN 0 ELSE hold[n]
    BY Now DEF HoldersAgree, Blocked, Waiting
  <2>3. CASE n # m BY <2>1, <2>2, <2>3 DEF Others
  <2>4. CASE n = m /\ u # t BY <2>2, <2>4, Now
  <2>5. CASE n = m /\ u = t BY <1>0, <2>5, Now
  <2> QED BY <2>3, <2>4, <2>5
<1>4. WaitOutcome'
  <2> SUFFICES ASSUME NEW u \in Thread, pc[u] \in Waiting, u \notin ToSet(k.wait[arg[u]])
               PROVE  (owner'[arg[u]] = u) = (k'.err[u] = "EOK")
    BY DEF WaitOutcome, Blocked, Waiting
  <2>1. u # t /\ arg[u] \in Obj BY <1>0, Now DEF GranteesHold, Blocked, Waiting
  <2>2. (owner[arg[u]] = u) = (k.err[u] = "EOK") BY Now DEF WaitOutcome, Blocked, Waiting
  <2>3. owner'[arg[u]] = u <=> owner[arg[u]] = u
    <3>1. CASE arg[u] = m BY <1>a, <2>1, <3>1
    <3>2. CASE arg[u] # m BY <2>1, <3>2 DEF Others
    <3> QED BY <3>1, <3>2
  <2> QED BY <2>1, <2>2, <2>3
<1>5. Engaged'
  <2>1. \A n \in Obj : owner'[n] # Idle BY <1>0, Now, IdleAssumption DEF Engaged, Others
  <2>2. GoneEmpty'
    <3>1. \A n \in Obj \ alive : inside'[n] = inside[n] BY <1>0 DEF Others
    <3> QED BY <3>1, Now DEF GoneEmpty
  <2>3. WaitersLinked'
    <3> SUFFICES ASSUME NEW n \in Obj, NEW u \in ToSet(k.wait[n])
                 PROVE  arg[u] = n /\ owner'[n] # u /\ k'.err[u] = "EOK"
      BY DEF WaitersLinked
    <3>1. u \in Thread /\ u # t /\ arg[u] = n /\ owner[n] # u /\ k.err[u] = "EOK"
      BY <1>0, WaiterFacts
    <3>2. CASE n = m BY <1>a, <3>1, <3>2
    <3>3. CASE n # m BY <3>1, <3>3 DEF Others
    <3> QED BY <3>1, <3>2, <3>3
  <2>4. GranteesHold'
    <3> SUFFICES ASSUME NEW u \in Thread, pc[u] \in Waiting
                 PROVE  /\ arg[u] \in Obj
                        /\ owner'[arg[u]] = u => arg[u] \in alive /\ hold'[arg[u]] = 1
      BY DEF GranteesHold, Blocked, Waiting
    <3>1. u # t /\ arg[u] \in Obj /\ (owner[arg[u]] = u => arg[u] \in alive /\ hold[arg[u]] = 1)
      BY <1>0, Now DEF GranteesHold, Blocked, Waiting
    <3> QED BY <3>1, Now DEF Others
  <2>5. DeletersAlone' BY SMTT(30), <1>0, Now DEF DeletersAlone, Others
  <2> QED BY <2>1, <2>2, <2>3, <2>4, <2>5 DEF Engaged
<1> QED BY <1>1, <1>3, <1>4, <1>5 DEF Inductive

\* rt_mutex_take of a mutex the caller owns, and of a free one.
LEMMA TakeAgainOK ==
    ASSUME Inductive, NEW t \in Thread, NEW m \in Obj, TakeAgain(t, m)
    PROVE  Inductive' /\ k'.wait = k.wait /\ k'.prio = k.prio
<1>0. /\ Call(t, m) /\ owner[m] = t /\ k' = [k EXCEPT !.err[t] = "EOK"]
      /\ pc' = pc /\ isr' = isr /\ value' = value /\ owner' = owner /\ orig' = orig
      /\ alive' = alive /\ arg' = arg
  BY DEF TakeAgain
<1>1. /\ k' \in KState /\ ThreadsOK' /\ k'.wait = k.wait /\ k'.prio = k.prio
      /\ \A u \in Thread \ {t} : k'.err[u] = k.err[u]
  BY <1>0, ErrorStep DEF Err
<1>2. m \in alive /\ pc[t] \notin Waiting BY <1>0, CallFacts
<1>3. value[m] = 0 /\ hold[m] > 0 /\ orig[m] \in Prio /\ inside[m][t] = hold[m]
  BY <1>0, <1>2, Now DEF OwnerConsistent, HoldersAgree, Blocked, Waiting
<1>4. CASE hold[m] < HoldMax
  <2>1. /\ hold' = [hold EXCEPT ![m] = hold[m] + 1]
        /\ inside' = [inside EXCEPT ![m][t] = inside[m][t] + 1]
    BY <1>0, <1>4, Now DEF TakeAgain
  <2>2. hold[m] + 1 \in 0 .. HoldMax /\ hold[m] + 1 > 0 BY <1>4, Now
  <2>3. hold' \in [Obj -> 0 .. HoldMax] /\ hold'[m] = hold[m] + 1 BY <2>1, <2>2, Now
  <2>4. /\ inside' \in [Obj -> [Thread -> 0 .. HoldMax]] /\ inside'[m][t] = hold[m] + 1
        /\ \A u \in Thread \ {t} : inside'[m][u] = inside[m][u]
    BY <1>3, <2>1, <2>2, Now
  <2>5. Others(m) BY <1>0, <2>1, Now DEF Others
  <2>6. Inductive' BY <1>0, <1>1, <1>3, <2>2, <2>3, <2>4, <2>5, Now, OwnCall
  <2> QED BY <1>1, <2>6
<1>5. CASE ~(hold[m] < HoldMax)
  <2>1. UNCHANGED mutexOnly BY <1>0, <1>5 DEF TakeAgain, mutexOnly
  <2>2. Inductive' BY <1>0, <1>1, <1>2, <2>1, Now, QuietOK
  <2> QED BY <1>1, <2>2
<1> QED BY <1>4, <1>5

LEMMA TakeFreeOK ==
    ASSUME Inductive, NEW t \in Thread, NEW m \in Obj, TakeFree(t, m)
    PROVE  Inductive' /\ k'.wait = k.wait /\ k'.prio = k.prio /\ owner[m] = None
<1>0. /\ Call(t, m) /\ value[m] > 0 /\ k' = [k EXCEPT !.err[t] = "EOK"]
      /\ value' = [value EXCEPT ![m] = value[m] - 1] /\ owner' = [owner EXCEPT ![m] = t]
      /\ orig' = [orig EXCEPT ![m] = k.prio[t]] /\ hold' = [hold EXCEPT ![m] = hold[m] + 1]
      /\ inside' = [inside EXCEPT ![m][t] = inside[m][t] + 1]
      /\ pc' = pc /\ isr' = isr /\ alive' = alive /\ arg' = arg
  BY Now DEF TakeFree
<1>1. /\ k' \in KState /\ ThreadsOK' /\ k'.wait = k.wait /\ k'.prio = k.prio
      /\ \A u \in Thread \ {t} : k'.err[u] = k.err[u]
  BY <1>0, ErrorStep DEF Err
<1>2. m \in alive /\ pc[t] \notin Waiting BY <1>0, CallFacts
<1>3. owner[m] = None /\ hold[m] = 0 /\ value[m] = 1 /\ inside[m][t] = 0
  BY <1>0, <1>2, Now DEF OwnerConsistent, HoldersAgree
<1>4. k.prio[t] \in Prio BY Now DEF KState
<1>5. /\ value' \in [Obj -> 0 .. 1] /\ value'[m] = 0
      /\ owner' \in [Obj -> Thread \cup {None}] /\ owner'[m] = t
      /\ hold' \in [Obj -> 0 .. HoldMax] /\ hold'[m] = 1
      /\ orig' \in [Obj -> Prio \cup {NoPrio}] /\ orig'[m] \in Prio
  BY <1>0, <1>3, <1>4, Now
<1>6. /\ inside' \in [Obj -> [Thread -> 0 .. HoldMax]] /\ inside'[m][t] = 1
      /\ \A u \in Thread \ {t} : inside'[m][u] = inside[m][u]
  BY <1>0, <1>3, Now
<1>7. Others(m) BY <1>0, Now DEF Others
<1>8. Inductive' BY <1>0, <1>1, <1>3, <1>5, <1>6, <1>7, OwnCall
<1> QED BY <1>1, <1>3, <1>8

\* rt_mutex_release that is not the outermost, and the outermost one while
\* nobody waits.
LEMMA ReleaseInnerOK ==
    ASSUME Inductive, NEW t \in Thread, NEW m \in Obj, ReleaseInner(t, m)
    PROVE  Inductive' /\ k' = k
<1>0. /\ Call(t, m) /\ owner[m] = t /\ hold[m] > 1 /\ k' = k
      /\ hold' = [hold EXCEPT ![m] = hold[m] - 1]
      /\ inside' = [inside EXCEPT ![m][t] = inside[m][t] - 1]
      /\ pc' = pc /\ isr' = isr /\ value' = value /\ owner' = owner /\ orig' = orig
      /\ alive' = alive /\ arg' = arg
  BY Now DEF ReleaseInner
<1>1. k' \in KState /\ ThreadsOK' BY <1>0, Now DEF ThreadsOK, Blocked
<1>2. m \in alive /\ pc[t] \notin Waiting BY <1>0, CallFacts
<1>3. value[m] = 0 /\ orig[m] \in Prio /\ inside[m][t] = hold[m]
  BY <1>0, <1>2, Now DEF OwnerConsistent, HoldersAgree, Blocked, Waiting
<1>4. hold[m] - 1 \in 0 .. HoldMax /\ hold[m] - 1 > 0 BY <1>0, Now
<1>5. hold' \in [Obj -> 0 .. HoldMax] /\ hold'[m] = hold[m] - 1 BY <1>0, <1>4, Now
<1>6. /\ inside' \in [Obj -> [Thread -> 0 .. HoldMax]] /\ inside'[m][t] = hold[m] - 1
      /\ \A u \in Thread \ {t} : inside'[m][u] = inside[m][u]
  BY <1>0, <1>3, <1>4, Now
<1>7. Others(m) BY <1>0, Now DEF Others
<1>8. Inductive' BY <1>0, <1>1, <1>3, <1>4, <1>5, <1>6, <1>7, Now, OwnCall
<1> QED BY <1>0, <1>8

\* The kernel state after the owner has its original priority back.
LEMMA RestoreEffect ==
    ASSUME Inductive, NEW m \in alive, owner[m] # None
    PROVE  Reranked(k, Restore(m)) /\ Restore(m).prio = [k.prio EXCEPT ![owner[m]] = orig[m]]
<1>1. owner[m] \in Thread \ {Idle} /\ orig[m] \in Prio
  BY Now DEF Engaged, OwnerConsistent
<1>2. CASE orig[m] # k.prio[owner[m]]
  BY <1>1, <1>2, Now, ChangePriorityEffect DEF Restore
<1>3. CASE orig[m] = k.prio[owner[m]]
  <2>1. k.prio = [k.prio EXCEPT ![owner[m]] = orig[m]] BY <1>1, <1>3, Now DEF KState
  <2> QED BY <1>3, <2>1, Now, RerankSame DEF Restore
<1> QED BY <1>2, <1>3

\* A call that changes priorities only keeps the threads where they are.
LEMMA RerankWoke == ASSUME NEW a, NEW b, Reranked(a, b) PROVE Woke(a, b, {})
<1>1. a.timer \ {} = a.timer OBVIOUS
<1> QED BY <1>1 DEF Reranked, Woke

LEMMA ReleaseFreeOK ==
    ASSUME Inductive, NEW t \in Thread, NEW m \in Obj, ReleaseFree(t, m)
    PROVE  /\ Inductive' /\ k'.wait = k.wait /\ m \in alive /\ owner[m] = t
           /\ k'.prio = [k.prio EXCEPT ![t] = orig[m]]
<1>0. /\ Call(t, m) /\ owner[m] = t /\ hold[m] = 1 /\ k.wait[m] = << >> /\ k' = Restore(m)
      /\ value' = [value EXCEPT ![m] = value[m] + 1] /\ owner' = [owner EXCEPT ![m] = None]
      /\ orig' = [orig EXCEPT ![m] = NoPrio] /\ hold' = [hold EXCEPT ![m] = hold[m] - 1]
      /\ inside' = [inside EXCEPT ![m][t] = inside[m][t] - 1]
      /\ pc' = pc /\ isr' = isr /\ alive' = alive /\ arg' = arg
  BY Now DEF ReleaseFree
<1>1. m \in alive /\ pc[t] \notin Waiting BY <1>0, CallFacts
<1>2. Reranked(k, k') /\ k'.prio = [k.prio EXCEPT ![t] = orig[m]]
  BY <1>0, <1>1, Now, RestoreEffect
<1>3. k' \in KState /\ k'.wait = k.wait /\ k'.err = k.err BY <1>2 DEF Reranked
<1>4. ThreadsOK'
  <2>1. Woke(k, k', {}) /\ {} \in SUBSET Thread BY <1>2, RerankWoke
  <2> QED BY <1>0, <1>3, <2>1, Now, WakeStep
<1>5. value[m] = 0 /\ inside[m][t] = 1
  BY <1>0, <1>1, Now DEF OwnerConsistent, HoldersAgree, Blocked, Waiting
<1>6. /\ value' \in [Obj -> 0 .. 1] /\ value'[m] = 1
      /\ owner' \in [Obj -> Thread \cup {None}] /\ owner'[m] = None
      /\ hold' \in [Obj -> 0 .. HoldMax] /\ hold'[m] = 0
      /\ orig' \in [Obj -> Prio \cup {NoPrio}] /\ orig'[m] = NoPrio
  BY <1>0, <1>5, Now
<1>7. /\ inside' \in [Obj -> [Thread -> 0 .. HoldMax]] /\ inside'[m][t] = 0
      /\ \A u \in Thread \ {t} : inside'[m][u] = inside[m][u]
  BY <1>0, <1>5, Now
<1>8. Others(m) BY <1>0, Now DEF Others
<1>9. Inductive' BY <1>0, <1>3, <1>4, <1>6, <1>7, <1>8, OwnCall
<1> QED BY <1>0, <1>1, <1>2, <1>3, <1>9

\* The owner inherits the priority of the caller.
LEMMA InheritEffect ==
    ASSUME Inductive, NEW m \in alive, owner[m] # None, NEW t \in Thread
    PROVE  /\ Reranked(k, Inherit(t, m))
           /\ Inherit(t, m).prio = IF k.prio[t] < k.prio[owner[m]]
                                   THEN [k.prio EXCEPT ![owner[m]] = k.prio[t]] ELSE k.prio
<1>1. owner[m] \in Thread \ {Idle} /\ k.prio[t] \in Prio
  BY Now DEF Engaged, KState
<1>2. CASE k.prio[t] < k.prio[owner[m]]
  BY <1>1, <1>2, Now, ChangePriorityEffect DEF Inherit
<1>3. CASE ~(k.prio[t] < k.prio[owner[m]])
  BY <1>3, Now, RerankSame DEF Inherit
<1> QED BY <1>2, <1>3

\* rt_mutex_take that waits, up to its rt_schedule.
LEMMA TakeWaitOK ==
    ASSUME Inductive, NEW t \in Thread, NEW m \in Obj, NEW w, TakeWait(t, m, w)
    PROVE  /\ Inductive' /\ BlockedOn(Inherit(t, m), k', m, t, "PRIO", w)
           /\ m \in alive /\ owner[m] # None /\ owner[m] # t
<1>0. /\ Call(t, m) /\ owner[m] # t /\ value[m] = 0
      /\ k' = Blocking(Inherit(t, m), m, t, "PRIO", w)
      /\ pc' = [pc EXCEPT ![t] = "wait"] /\ arg' = [arg EXCEPT ![t] = m]
      /\ isr' = isr /\ value' = value /\ owner' = owner /\ hold' = hold /\ orig' = orig
      /\ alive' = alive /\ inside' = inside
  BY DEF TakeWait, Goto, Blocking
<1>1. /\ t = k.cur /\ t # Idle /\ pc[t] = "run" /\ m \in alive
      /\ pc[t] \notin Waiting /\ pc[t] \notin Deleting
      /\ \A o \in Obj : t \notin ToSet(k.wait[o])
      /\ \A u \in Thread : pc[u] \in Deleting => arg[u] # m
  BY <1>0, CallFacts
<1>2. owner[m] # None BY <1>0, <1>1, Now DEF OwnerConsistent
<1> DEFINE a == Inherit(t, m)
<1>3. /\ a \in KState /\ KernelOK(a, {}) /\ a.cur = k.cur /\ a.lock = k.lock
      /\ a.stat = k.stat /\ a.wait = k.wait /\ a.err = k.err
  BY <1>1, <1>2, InheritEffect DEF Reranked
<1>4. k.stat[t] = "RUNNING" BY <1>1, Now, CurrentRuns DEF Waiting
<1> HIDE DEF a
<1>5. BlockedOn(a, k', m, t, "PRIO", w) BY <1>0, <1>1, <1>3, <1>4, BlockingEffect DEF a
<1>6. /\ k' \in KState /\ KernelOK(k', {})
      /\ k'.cur = k.cur /\ k'.lock = k.lock
      /\ \A u \in Thread : k'.stat[u] = IF u = t THEN "SUSPEND" ELSE k.stat[u]
      /\ ToSet(k'.wait[m]) = ToSet(k.wait[m]) \cup {t}
      /\ k'.err = [k.err EXCEPT ![t] = "EOK"]
  BY <1>3, <1>5 DEF BlockedOn, Linked
<1>7. \A q \in Obj \ {m} : k'.wait[q] = k.wait[q]
  BY <1>3, <1>5, Now DEF BlockedOn, Linked
<1>8. k'.err[t] = "EOK" /\ \A u \in Thread \ {t} : k'.err[u] = k.err[u] BY <1>6, Now
<1>9. pc'[t] = "wait" /\ \A u \in Thread \ {t} : pc'[u] = pc[u] BY <1>0, Now
<1>10. arg'[t] = m /\ \A u \in Thread \ {t} : arg'[u] = arg[u] BY <1>0, Now
<1>11. ThreadsOK'
  <2>1. \A u \in Thread \ {t}, q \in Obj : u \in ToSet(k'.wait[q]) <=> u \in ToSet(k.wait[q])
    BY <1>6, <1>7
  <2>2. t \in ToSet(k'.wait[m]) BY <1>6
  <2> QED BY <1>1, <1>6, <1>9, <2>1, <2>2, Now, SuspendThreads
<1>12. TypeOK'
  <2>1. pc' \in [Thread -> MutexPC] BY <1>0, Now DEF MutexPC
  <2>2. arg' \in [Thread -> Obj \cup {None}] BY <1>0, Now
  <2> QED BY <1>0, <1>6, <2>1, <2>2, Now DEF TypeOK
<1>13. OwnerConsistent'
  <2> SUFFICES ASSUME NEW n \in alive
               PROVE  IF owner[n] = None
                      THEN value[n] = 1 /\ hold[n] = 0 /\ orig[n] = NoPrio /\ k'.wait[n] = << >>
                      ELSE value[n] = 0 /\ hold[n] > 0 /\ orig[n] \in Prio
    BY <1>0 DEF OwnerConsistent
  <2> QED BY <1>2, <1>7, Now DEF OwnerConsistent
<1>14. HoldersAgree'
  <2> SUFFICES ASSUME NEW n \in alive, NEW u \in Thread
               PROVE  inside[n][u] = IF owner[n] # u \/ (pc'[u] \in Waiting /\ arg'[u] = n)
                                     THEN 0 ELSE hold[n]
    BY <1>0, <1>13 DEF HoldersAgree, Blocked, Waiting
  <2>1. inside[n][u] = IF owner[n] # u \/ (pc[u] \in Waiting /\ arg[u] = n) THEN 0 ELSE hold[n]
    BY Now DEF HoldersAgree, Blocked, Waiting
  <2>2. CASE u # t BY <1>9, <1>10, <2>1, <2>2
  <2>3. CASE u = t BY <1>0, <1>1, <1>10, <2>1, <2>3
  <2> QED BY <2>2, <2>3
<1>15. WaitOutcome'
  <2> SUFFICES ASSUME NEW u \in Thread, pc'[u] \in Waiting, u \notin ToSet(k'.wait[arg'[u]])
               PROVE  (owner[arg'[u]] = u) = (k'.err[u] = "EOK")
    BY <1>0 DEF WaitOutcome, Blocked, Waiting
  <2>1. u # t BY <1>6, <1>10
  <2>2. pc[u] \in Waiting /\ arg'[u] = arg[u] /\ k'.err[u] = k.err[u]
    BY <1>8, <1>9, <1>10, <2>1
  <2>3. arg[u] \in Obj BY <2>2, Now DEF GranteesHold, Blocked, Waiting
  <2>4. u \notin ToSet(k.wait[arg[u]]) BY <1>6, <1>7, <2>2, <2>3
  <2> QED BY <2>2, <2>4, Now DEF WaitOutcome, Blocked, Waiting
<1>16. Engaged'
  <2>1. \A n \in Obj : owner'[n] # Idle BY <1>0, Now DEF Engaged
  <2>2. GoneEmpty' BY ZenonT(40), <1>0, <1>1, <1>7, Now DEF GoneEmpty
  <2>3. WaitersLinked'
    <3> SUFFICES ASSUME NEW n \in Obj, NEW u \in ToSet(k'.wait[n])
                 PROVE  arg'[u] = n /\ owner[n] # u /\ k'.err[u] = "EOK"
      BY <1>0 DEF WaitersLinked
    <3>1. CASE u = t
      <4>1. n = m BY <1>1, <1>7, <3>1
      <4> QED BY <1>0, <1>8, <1>10, <3>1, <4>1
    <3>2. CASE u # t
      <4>1. u \in ToSet(k.wait[n]) BY <1>6, <1>7, <3>2
      <4> QED BY <1>8, <1>10, <3>2, <4>1, WaiterFacts
    <3> QED BY <3>1, <3>2
  <2>4. GranteesHold'
    <3> SUFFICES ASSUME NEW u \in Thread, pc'[u] \in Waiting
                 PROVE  /\ arg'[u] \in Obj
                        /\ owner[arg'[u]] = u => arg'[u] \in alive /\ hold[arg'[u]] = 1
      BY <1>0 DEF GranteesHold, Blocked, Waiting
    <3>1. CASE u = t BY <1>0, <1>10, <3>1
    <3>2. CASE u # t BY <1>9, <1>10, <3>2, Now DEF GranteesHold, Blocked, Waiting
    <3> QED BY <3>1, <3>2
  <2>5. DeletersAlone'
    <3> SUFFICES ASSUME NEW u \in Thread, pc'[u] \in Deleting
                 PROVE  /\ arg'[u] \in alive /\ owner[arg'[u]] \in {u, None}
                        /\ pc'[u] = "delobj" => k'.wait[arg'[u]] = << >>
                        /\ \A v \in Thread \ {u} : pc'[v] \in Deleting => arg'[v] # arg'[u]
      BY <1>0 DEF DeletersAlone
    <3>1. \A v \in Thread : pc'[v] \in Deleting => v # t /\ pc[v] = pc'[v] /\ arg'[v] = arg[v]
      BY <1>9, <1>10 DEF Deleting
    <3>2. arg[u] # m /\ arg[u] \in Obj BY <1>1, <3>1, Now DEF DeletersAlone
    <3> QED BY <1>7, <3>1, <3>2, Now DEF DeletersAlone
  <2> QED BY <2>1, <2>2, <2>3, <2>4, <2>5 DEF Engaged
<1> QED BY <1>0, <1>1, <1>2, <1>5, <1>12, <1>11, <1>14, <1>15, <1>16 DEF Inductive, a

\* rt_mutex_take after its rt_schedule.
LEMMA TakeReturnOK ==
    ASSUME Inductive, NEW t \in Thread, TakeReturn(t)
    PROVE  Inductive' /\ k' = k
<1>0. /\ t = k.cur /\ pc[t] = "waited" /\ pc' = [pc EXCEPT ![t] = "run"] /\ k' = k
      /\ inside' = IF k.err[t] = "EOK"
                   THEN [inside EXCEPT ![arg[t]][t] = inside[arg[t]][t] + 1] ELSE inside
      /\ arg' = [arg EXCEPT ![t] = None]
      /\ isr' = isr /\ value' = value /\ owner' = owner /\ hold' = hold /\ orig' = orig
      /\ alive' = alive
  BY DEF TakeReturn, Executing, Goto
<1> DEFINE m == arg[t]
<1>1. t # Idle /\ m \in Obj /\ \A o \in Obj : t \notin ToSet(k.wait[o])
  BY <1>0, Now, CurrentRuns DEF ThreadsOK, GranteesHold, Blocked
<1>2. (owner[m] = t) = (k.err[t] = "EOK") BY <1>0, <1>1, Now DEF WaitOutcome, Blocked
<1>3. owner[m] = t => m \in alive /\ hold[m] = 1 /\ inside[m][t] = 0
  BY <1>0, <1>1, Now DEF GranteesHold, HoldersAgree, Blocked
<1>4. ThreadsOK' BY <1>0, <1>1, Now, GotoStep
<1>5. pc'[t] = "run" /\ (\A u \in Thread \ {t} : pc'[u] = pc[u]) /\ pc' \in [Thread -> MutexPC]
  BY <1>0, Now DEF MutexPC
<1>6. arg'[t] = None /\ (\A u \in Thread \ {t} : arg'[u] = arg[u])
      /\ arg' \in [Thread -> Obj \cup {None}]
  BY <1>0, Now
<1> HIDE DEF m
<1>7. /\ inside' \in [Obj -> [Thread -> 0 .. HoldMax]]
      /\ \A n \in Obj, u \in Thread :
            inside'[n][u] = IF owner[m] = t /\ n = m /\ u = t THEN 1 ELSE inside[n][u]
  <2>1. CASE owner[m] = t
    <3>0. k.err[t] = "EOK" /\ inside[m][t] + 1 = 1 BY <1>2, <1>3, <2>1
    <3>1. inside' = [inside EXCEPT ![m][t] = inside[m][t] + 1] BY <1>0, <3>0 DEF m
    <3> QED BY <1>1, <2>1, <3>0, <3>1, Now
  <2>2. CASE owner[m] # t
    <3>1. inside' = inside BY <1>0, <1>2, <2>2
    <3> QED BY <2>2, <3>1, Now
  <2> QED BY <2>1, <2>2
<1>8. TypeOK' BY <1>0, <1>5, <1>6, <1>7, Now DEF TypeOK
<1>9. OwnerConsistent' BY <1>0, Now DEF OwnerConsistent
<1>10. HoldersAgree'
  <2> SUFFICES ASSUME NEW n \in alive, NEW u \in Thread
               PROVE  inside'[n][u] = IF owner[n] # u \/ (pc'[u] \in Waiting /\ arg'[u] = n)
                                      THEN 0 ELSE hold[n]
    BY <1>0, <1>9 DEF HoldersAgree, Blocked, Waiting
  <2>1. inside[n][u] = IF owner[n] # u \/ (pc[u] \in Waiting /\ arg[u] = n) THEN 0 ELSE hold[n]
    BY Now DEF HoldersAgree, Blocked, Waiting
  <2>2. n \in Obj BY Now
  <2>3. CASE u # t BY <1>5, <1>6, <1>7, <2>1, <2>2, <2>3
  <2>4. CASE u = t /\ n # m BY <1>5, <1>7, <2>1, <2>2, <2>4 DEF Waiting, m
  <2>5. CASE u = t /\ n = m BY <1>3, <1>5, <1>7, <2>1, <2>2, <2>5 DEF Waiting
  <2> QED BY <2>3, <2>4, <2>5
<1>11. WaitOutcome'
  <2>1. \A u \in Thread : pc'[u] \in Waiting => u # t BY <1>5 DEF Waiting
  <2> QED BY <1>0, <1>5, <1>6, <2>1, Now DEF WaitOutcome, Blocked, Waiting
<1>12. Engaged'
  <2>1. \A n \in Obj : owner'[n] # Idle BY <1>0, Now DEF Engaged
  <2>2. GoneEmpty' BY <1>0, <1>3, <1>7, Now DEF GoneEmpty
  <2>3. WaitersLinked'
    <3> SUFFICES ASSUME NEW n \in Obj, NEW u \in ToSet(k.wait[n])
                 PROVE  arg'[u] = n /\ owner[n] # u /\ k.err[u] = "EOK"
      BY <1>0 DEF WaitersLinked
    <3>1. u # t BY <1>1
    <3> QED BY <1>6, <3>1, WaiterFacts
  <2>4. GranteesHold'
    <3>1. \A u \in Thread : pc'[u] \in Waiting => u # t BY <1>5 DEF Waiting
    <3> QED BY <1>0, <1>5, <1>6, <3>1, Now DEF GranteesHold, Blocked, Waiting
  <2>5. DeletersAlone'
    <3>1. \A u \in Thread : pc'[u] \in Deleting => u # t /\ pc[u] = pc'[u] /\ arg'[u] = arg[u]
      BY <1>5, <1>6 DEF Deleting
    <3> QED BY <1>0, <3>1, Now DEF DeletersAlone
  <2> QED BY <2>1, <2>2, <2>3, <2>4, <2>5 DEF Engaged
<1> QED BY <1>0, <1>4, <1>8, <1>10, <1>11, <1>12 DEF Inductive

\* The outermost rt_mutex_release with threads waiting: the first becomes the
\* owner.
LEMMA ReleaseToOK ==
    ASSUME Inductive, NEW t \in Thread, NEW m \in Obj, ReleaseTo(t, m)
    PROVE  LET h == Head(k.wait[m])
           IN  /\ Inductive' /\ m \in alive /\ owner[m] = t /\ owner'[m] = h
               /\ h \in Thread /\ h \in ToSet(k.wait[m]) /\ h # t
               /\ k'.wait = [k.wait EXCEPT ![m] = Tail(@)] /\ k.wait[m] # << >>
               /\ k'.prio = [k.prio EXCEPT ![t] = orig[m]]
<1> DEFINE h == Head(k.wait[m])
           a == Restore(m)
<1>0. /\ Call(t, m) /\ owner[m] = t /\ hold[m] = 1 /\ k.wait[m] # << >>
      /\ owner' = [owner EXCEPT ![m] = h] /\ orig' = [orig EXCEPT ![m] = k.prio[h]]
      /\ k' = _ipc_list_resume(a, m)
      /\ inside' = [inside EXCEPT ![m][t] = inside[m][t] - 1]
      /\ pc' = [pc EXCEPT ![t] = "sched"]
      /\ isr' = isr /\ value' = value /\ hold' = hold /\ alive' = alive /\ arg' = arg
  BY Now DEF ReleaseTo, Goto
<1>1. /\ t = k.cur /\ t # Idle /\ pc[t] = "run" /\ m \in alive
      /\ pc[t] \notin Waiting /\ pc[t] \notin Deleting
      /\ \A o \in Obj : t \notin ToSet(k.wait[o])
      /\ \A u \in Thread : pc[u] \in Deleting => arg[u] # m
  BY <1>0, CallFacts
<1>2. Reranked(k, a) /\ a.prio = [k.prio EXCEPT ![t] = orig[m]]
  BY <1>0, <1>1, Now, RestoreEffect
<1> HIDE DEF a
<1>3. a \in KState /\ KernelOK(a, {}) /\ a.wait = k.wait /\ a.err = k.err
  BY <1>2 DEF Reranked
<1>4. /\ h \in Thread /\ h \in ToSet(k.wait[m]) /\ ToSet(Tail(k.wait[m])) = ToSet(k.wait[m]) \ {h}
  BY <1>0, Now, HeadFacts
<1>5. /\ Effect(a, k', {h}) /\ k'.wait = [k.wait EXCEPT ![m] = Tail(@)] /\ k'.err = k.err
  BY ZenonT(40), <1>0, <1>3, IpcResumeEffect
<1> HIDE DEF h
<1>6. Woke(k, k', {h})
  <2>1. Woke(k, a, {}) BY <1>2, RerankWoke
  <2>2. Woke(a, k', {h}) BY <1>5 DEF Effect
  <2>3. Woke(k, k', {} \cup {h}) BY <2>1, <2>2, WokeTrans
  <2>4. {} \cup {h} = {h} OBVIOUS
  <2> QED BY <2>3, <2>4
<1>7. k' \in KState /\ k'.prio = a.prio BY <1>5 DEF Effect, Woke
<1>8. ToSet(k'.wait[m]) = ToSet(k.wait[m]) \ {h} /\ \A o \in Obj \ {m} : k'.wait[o] = k.wait[o]
  BY <1>4, <1>5, Now
<1>9. \A o \in Obj \ {m} : h \notin ToSet(k.wait[o]) BY <1>4, Now DEF KernelOK, WaitListsOK
<1>10. ThreadsOK'
  <2>1. \A u \in Thread, o \in Obj : u \in ToSet(k'.wait[o]) => u \in ToSet(k.wait[o])
    BY <1>8
  <2>2. \A u \in Thread \ {h}, o \in Obj : u \in ToSet(k.wait[o]) => u \in ToSet(k'.wait[o])
    BY <1>8
  <2>3. {h} \in SUBSET Thread BY <1>4
  <2>4. pc[t] \notin {"sleep", "wait"} BY <1>1
  <2> QED BY <1>0, <1>1, <1>6, <2>1, <2>2, <2>3, <2>4, Now, MoveStep
<1>11. /\ h # t /\ h # Idle /\ pc[h] \in Waiting /\ arg[h] = m /\ owner[m] # h /\ k.err[h] = "EOK"
  BY <1>1, <1>4, WaiterFacts
<1>12. pc' \in [Thread -> MutexPC] /\ pc'[t] = "sched" /\ \A u \in Thread \ {t} : pc'[u] = pc[u]
  BY <1>0, Now DEF MutexPC
<1>13. /\ owner' \in [Obj -> Thread \cup {None}] /\ owner'[m] = h
       /\ \A n \in Obj \ {m} : owner'[n] = owner[n]
       /\ orig' \in [Obj -> Prio \cup {NoPrio}] /\ orig'[m] \in Prio
       /\ \A n \in Obj \ {m} : orig'[n] = orig[n]
  <2>1. k.prio[h] \in Prio BY <1>4, Now DEF KState
  <2> QED BY <1>0, <1>4, <2>1, Now
<1>14. inside[m][t] = 1
  <2>1. m \in alive /\ owner[m] = t /\ hold[m] = 1 BY <1>0, <1>1, Now
  <2>2. ~Blocked(t) BY <1>1 DEF Blocked
  <2>3. inside[m][t] = (IF owner[m] # t \/ (Blocked(t) /\ arg[t] = m) THEN 0 ELSE hold[m])
    BY <2>1 DEF Inductive, HoldersAgree
  <2> QED BY <2>1, <2>2, <2>3
<1>15. /\ inside' \in [Obj -> [Thread -> 0 .. HoldMax]] /\ inside'[m][t] = 0
       /\ \A u \in Thread \ {t} : inside'[m][u] = inside[m][u]
       /\ \A n \in Obj \ {m} : inside'[n] = inside[n]
  BY <1>0, <1>14, Now
<1>16. TypeOK' BY <1>0, <1>7, <1>12, <1>13, <1>15, Now DEF TypeOK
<1>17. OwnerConsistent'
  <2> SUFFICES ASSUME NEW n \in alive
               PROVE  IF owner'[n] = None
                      THEN value[n] = 1 /\ hold[n] = 0 /\ orig'[n] = NoPrio /\ k'.wait[n] = << >>
                      ELSE value[n] = 0 /\ hold[n] > 0 /\ orig'[n] \in Prio
    BY <1>0 DEF OwnerConsistent
  <2>1. CASE n = m BY <1>0, <1>4, <1>13, <2>1, Now DEF OwnerConsistent
  <2>2. CASE n # m BY <1>8, <1>13, <2>2, Now DEF OwnerConsistent
  <2> QED BY <2>1, <2>2
<1>18. HoldersAgree'
  <2> SUFFICES ASSUME NEW n \in alive, NEW u \in Thread
               PROVE  inside'[n][u] = IF owner'[n] # u \/ (pc'[u] \in Waiting /\ arg[u] = n)
                                      THEN 0 ELSE hold[n]
    BY <1>0, <1>17 DEF HoldersAgree, Blocked, Waiting
  <2>1. inside[n][u] = IF owner[n] # u \/ (pc[u] \in Waiting /\ arg[u] = n) THEN 0 ELSE hold[n]
    BY Now DEF HoldersAgree, Blocked, Waiting
  <2>2. n \in Obj /\ (pc'[u] \in Waiting <=> pc[u] \in Waiting) BY <1>1, <1>12, Now DEF Waiting
  <2>3. CASE n # m BY <1>13, <1>15, <2>1, <2>2, <2>3
  <2>4. CASE n = m /\ u = t BY <1>11, <1>13, <1>15, <2>4
  <2>5. CASE n = m /\ u = h BY <1>11, <1>13, <1>15, <2>1, <2>2, <2>5
  <2>6. CASE n = m /\ u # t /\ u # h BY <1>0, <1>13, <1>15, <2>1, <2>6
  <2> QED BY <2>3, <2>4, <2>5, <2>6
<1>19. WaitOutcome'
  <2> SUFFICES ASSUME NEW u \in Thread, pc'[u] \in Waiting, u \notin ToSet(k'.wait[arg[u]])
               PROVE  (owner'[arg[u]] = u) = (k'.err[u] = "EOK")
    BY <1>0 DEF WaitOutcome, Blocked, Waiting
  <2>1. u # t /\ pc[u] \in Waiting BY <1>12 DEF Waiting
  <2>2. arg[u] \in Obj BY <2>1, Now DEF GranteesHold, Blocked, Waiting
  <2>3. CASE u = h BY <1>5, <1>11, <1>13, <2>3
  <2>4. CASE u # h
    <3>1. u \notin ToSet(k.wait[arg[u]]) BY <1>8, <2>2, <2>4
    <3>2. (owner[arg[u]] = u) = (k.err[u] = "EOK")
      BY <2>1, <3>1, Now DEF WaitOutcome, Blocked, Waiting
    <3>3. owner'[arg[u]] = u <=> owner[arg[u]] = u BY <1>0, <1>13, <2>1, <2>2, <2>4
    <3> QED BY <1>5, <3>2, <3>3
  <2> QED BY <2>3, <2>4
<1>20. Engaged'
  <2>1. \A n \in Obj : owner'[n] # Idle BY <1>11, <1>13, Now DEF Engaged
  <2>2. GoneEmpty' BY <1>0, <1>1, <1>8, <1>15, Now DEF GoneEmpty
  <2>3. WaitersLinked'
    <3> SUFFICES ASSUME NEW n \in Obj, NEW u \in ToSet(k'.wait[n])
                 PROVE  arg[u] = n /\ owner'[n] # u /\ k'.err[u] = "EOK"
      BY <1>0 DEF WaitersLinked
    <3>1. u \in ToSet(k.wait[n]) /\ u # h BY <1>8, <1>9
    <3> QED BY <1>5, <1>13, <3>1, WaiterFacts
  <2>4. GranteesHold'
    <3> SUFFICES ASSUME NEW u \in Thread, pc'[u] \in Waiting
                 PROVE  /\ arg[u] \in Obj
                        /\ owner'[arg[u]] = u => arg[u] \in alive /\ hold[arg[u]] = 1
      BY <1>0 DEF GranteesHold, Blocked, Waiting
    <3>1. u # t /\ pc[u] \in Waiting BY <1>12 DEF Waiting
    <3>2. arg[u] \in Obj /\ (owner[arg[u]] = u => arg[u] \in alive /\ hold[arg[u]] = 1)
      BY <3>1, Now DEF GranteesHold, Blocked, Waiting
    <3> QED BY <1>0, <1>1, <1>13, <3>2
  <2>5. DeletersAlone'
    <3> SUFFICES ASSUME NEW u \in Thread, pc'[u] \in Deleting
                 PROVE  /\ arg[u] \in alive /\ owner'[arg[u]] \in {u, None}
                        /\ pc'[u] = "delobj" => k'.wait[arg[u]] = << >>
                        /\ \A v \in Thread \ {u} : pc'[v] \in Deleting => arg[v] # arg[u]
      BY <1>0 DEF DeletersAlone
    <3>1. \A v \in Thread : pc'[v] \in Deleting => pc[v] = pc'[v]
      BY <1>12 DEF Deleting
    <3>2. arg[u] # m /\ arg[u] \in Obj BY <1>1, <3>1, Now DEF DeletersAlone
    <3> QED BY <1>8, <1>13, <3>1, <3>2, Now DEF DeletersAlone
  <2> QED BY <2>1, <2>2, <2>3, <2>4, <2>5 DEF Engaged
<1>21. Inductive' BY <1>10, <1>16, <1>18, <1>19, <1>20 DEF Inductive
<1> QED BY <1>0, <1>1, <1>2, <1>4, <1>5, <1>7, <1>11, <1>13, <1>21 DEF h


\* Steps that change no mutex and take a waiting or sleeping thread off its
\* suspend list with an error.
LEMMA LeaveOK ==
    ASSUME Inductive, k' \in KState, ThreadsOK', NEW t \in Thread, NEW x \in Err \ {"EOK"},
           k'.wait = WaitWithout(k, t), k'.err = [k.err EXCEPT ![t] = x],
           pc[t] \in Waiting => \E o \in Obj : t \in ToSet(k.wait[o]),
           \A u \in Thread : pc'[u] \in Waiting <=> pc[u] \in Waiting,
           \A u \in Thread : pc'[u] \in Deleting => pc[u] \in Deleting,
           \A u \in Thread : pc'[u] = "delobj" => pc[u] = "delobj",
           pc' \in [Thread -> MutexPC], isr' \in {"none", "timers"}, UNCHANGED mutexOnly
    PROVE  Inductive'
<1>0. /\ value' = value /\ owner' = owner /\ hold' = hold /\ orig' = orig
      /\ alive' = alive /\ arg' = arg /\ inside' = inside
  BY DEF mutexOnly
<1>1. /\ \A o \in Obj : ToSet(k'.wait[o]) = ToSet(k.wait[o]) \ {t}
      /\ \A o \in Obj : k.wait[o] = << >> => k'.wait[o] = << >>
  <2>1. \A o \in Obj : /\ k'.wait[o] = RemoveFirst(k.wait[o], t)
                       /\ ToSet(k'.wait[o]) = ToSet(k.wait[o]) \ {t}
    <3>1. \A o \in Obj : /\ WaitWithout(k, t)[o] = RemoveFirst(k.wait[o], t)
                         /\ ToSet(WaitWithout(k, t)[o]) = ToSet(k.wait[o]) \ {t}
      BY Now, InWaitWithout
    <3> QED BY <3>1
  <2>2. RemoveFirst(<< >>, t) = << >>
    <3>1. << >> \in Seq(Thread) OBVIOUS
    <3>2. t \notin ToSet(<< >>) BY <3>1, EmptyFacts
    <3> QED BY <3>1, <3>2, RemoveAbsent
  <2> QED BY <2>1, <2>2
<1>2. k'.err[t] = x /\ \A u \in Thread \ {t} : k'.err[u] = k.err[u] BY Now
<1>3. TypeOK' BY <1>0, Now DEF TypeOK
<1>4. OwnerConsistent' BY <1>0, <1>1, Now DEF OwnerConsistent
<1>5. HoldersAgree' BY <1>0, <1>4, Now DEF HoldersAgree, Blocked, Waiting
<1>6. WaitOutcome'
  <2> SUFFICES ASSUME NEW u \in Thread, pc[u] \in Waiting, u \notin ToSet(k'.wait[arg[u]])
               PROVE  (owner[arg[u]] = u) = (k'.err[u] = "EOK")
    BY <1>0 DEF WaitOutcome, Blocked, Waiting
  <2>1. arg[u] \in Obj BY Now DEF GranteesHold, Blocked, Waiting
  <2>2. CASE u = t
    <3>1. PICK o \in Obj : t \in ToSet(k.wait[o]) BY <2>2
    <3>2. arg[t] = o /\ owner[o] # t BY <3>1, WaiterFacts
    <3> QED BY <1>2, <2>2, <3>2
  <2>3. CASE u # t
    <3>1. u \notin ToSet(k.wait[arg[u]]) BY <1>1, <2>1, <2>3
    <3> QED BY <1>2, <2>3, <3>1, Now DEF WaitOutcome, Blocked, Waiting
  <2> QED BY <2>2, <2>3
<1>7. Engaged'
  <2>1. \A n \in Obj : owner'[n] # Idle BY <1>0, Now DEF Engaged
  <2>2. GoneEmpty' BY <1>0, <1>1, Now DEF GoneEmpty
  <2>3. WaitersLinked'
    <3> SUFFICES ASSUME NEW n \in Obj, NEW u \in ToSet(k'.wait[n])
                 PROVE  arg[u] = n /\ owner[n] # u /\ k'.err[u] = "EOK"
      BY <1>0 DEF WaitersLinked
    <3>1. u \in ToSet(k.wait[n]) /\ u # t BY <1>1
    <3> QED BY <1>2, <3>1, WaiterFacts
  <2>4. GranteesHold' BY <1>0, Now DEF GranteesHold, Blocked, Waiting
  <2>5. DeletersAlone'
    <3> SUFFICES ASSUME NEW u \in Thread, pc'[u] \in Deleting
                 PROVE  /\ arg[u] \in alive /\ owner[arg[u]] \in {u, None}
                        /\ pc'[u] = "delobj" => k'.wait[arg[u]] = << >>
                        /\ \A v \in Thread \ {u} : pc'[v] \in Deleting => arg[v] # arg[u]
      BY <1>0 DEF DeletersAlone
    <3>1. arg[u] \in Obj BY Now DEF DeletersAlone
    <3> QED BY <1>1, <3>1, Now DEF DeletersAlone
  <2> QED BY <2>1, <2>2, <2>3, <2>4, <2>5 DEF Engaged
<1> QED BY <1>3, <1>5, <1>6, <1>7 DEF Inductive

\* rt_mutex_delete and rt_mutex_detach: the begin, the turns of
\* _ipc_list_resume_all and the end.
LEMMA DeleteBeginOK ==
    ASSUME Inductive, NEW t \in Thread, NEW m \in Obj, DeleteBegin(t, m)
    PROVE  Inductive'
<1>0. /\ Call(t, m) /\ owner[m] \in {t, None} /\ k' = k
      /\ pc' = [pc EXCEPT ![t] = "delall"] /\ arg' = [arg EXCEPT ![t] = m]
      /\ isr' = isr /\ value' = value /\ owner' = owner /\ hold' = hold /\ orig' = orig
      /\ alive' = alive /\ inside' = inside
  BY DEF DeleteBegin, Goto
<1>1. /\ t = k.cur /\ t # Idle /\ pc[t] = "run" /\ m \in alive
      /\ pc[t] \notin Waiting /\ pc[t] \notin Deleting
      /\ \A o \in Obj : t \notin ToSet(k.wait[o])
      /\ \A u \in Thread : pc[u] \in Deleting => arg[u] # m
  BY <1>0, CallFacts
<1>2. ThreadsOK' BY <1>0, <1>1, Now, GotoStep
<1>3. pc'[t] = "delall" /\ (\A u \in Thread \ {t} : pc'[u] = pc[u]) /\ pc' \in [Thread -> MutexPC]
  BY <1>0, Now DEF MutexPC, Deleting
<1>4. arg'[t] = m /\ (\A u \in Thread \ {t} : arg'[u] = arg[u])
      /\ arg' \in [Thread -> Obj \cup {None}]
  BY <1>0, Now
<1>5. \A u \in Thread : pc'[u] \in Waiting => u # t /\ pc[u] \in Waiting BY <1>3 DEF Waiting
<1>6. TypeOK' BY <1>0, <1>3, <1>4, Now DEF TypeOK
<1>7. OwnerConsistent' BY <1>0, Now DEF OwnerConsistent
<1>8. HoldersAgree'
  <2> SUFFICES ASSUME NEW n \in alive, NEW u \in Thread
               PROVE  inside[n][u] = IF owner[n] # u \/ (pc'[u] \in Waiting /\ arg'[u] = n)
                                     THEN 0 ELSE hold[n]
    BY <1>0, <1>7 DEF HoldersAgree, Blocked, Waiting
  <2>1. inside[n][u] = IF owner[n] # u \/ (pc[u] \in Waiting /\ arg[u] = n) THEN 0 ELSE hold[n]
    BY Now DEF HoldersAgree, Blocked, Waiting
  <2>2. CASE u # t BY <1>3, <1>4, <2>1, <2>2
  <2>3. CASE u = t BY <1>1, <1>5, <2>1, <2>3
  <2> QED BY <2>2, <2>3
<1>9. WaitOutcome' BY <1>0, <1>4, <1>5, Now DEF WaitOutcome, Blocked, Waiting
<1>10. Engaged'
  <2>1. \A n \in Obj : owner'[n] # Idle BY <1>0, Now DEF Engaged
  <2>2. GoneEmpty' BY <1>0, Now DEF GoneEmpty
  <2>3. WaitersLinked'
    <3> SUFFICES ASSUME NEW n \in Obj, NEW u \in ToSet(k.wait[n])
                 PROVE  arg'[u] = n /\ owner[n] # u /\ k.err[u] = "EOK"
      BY <1>0 DEF WaitersLinked
    <3>1. u # t BY <1>1
    <3> QED BY <1>4, <3>1, WaiterFacts
  <2>4. GranteesHold' BY <1>0, <1>4, <1>5, Now DEF GranteesHold, Blocked, Waiting
  <2>5. DeletersAlone'
    <3> SUFFICES ASSUME NEW u \in Thread, pc'[u] \in Deleting
                 PROVE  /\ arg'[u] \in alive /\ owner[arg'[u]] \in {u, None}
                        /\ pc'[u] = "delobj" => k.wait[arg'[u]] = << >>
                        /\ \A v \in Thread \ {u} : pc'[v] \in Deleting => arg'[v] # arg'[u]
      BY <1>0 DEF DeletersAlone
    <3>1. CASE u = t
      <4>1. \A v \in Thread \ {t} : pc'[v] \in Deleting => arg'[v] # m BY <1>1, <1>3, <1>4
      <4> QED BY <1>0, <1>1, <1>3, <1>4, <3>1, <4>1
    <3>2. CASE u # t
      <4>1. pc[u] \in Deleting /\ arg'[u] = arg[u] /\ pc'[u] = pc[u] BY <1>3, <1>4, <3>2
      <4>2. arg[u] # m BY <1>1, <4>1
      <4>3. \A v \in Thread \ {u} : pc'[v] \in Deleting => arg'[v] # arg[u]
        BY <1>3, <1>4, <4>1, <4>2, Now DEF DeletersAlone
      <4> QED BY <4>1, <4>3, Now DEF DeletersAlone
    <3> QED BY <3>1, <3>2
  <2> QED BY <2>1, <2>2, <2>3, <2>4, <2>5 DEF Engaged
<1> QED BY <1>2, <1>6, <1>8, <1>9, <1>10 DEF Inductive

LEMMA DeleteResumeOK ==
    ASSUME Inductive, NEW t \in Thread, DeleteResume(t)
    PROVE  Inductive'
<1>0. pc[t] \in Deleting /\ UNCHANGED mutexOnly BY DEF DeleteResume, mutexOnly
<1>1. arg[t] \in Obj BY <1>0, Now DEF DeletersAlone
<1>2. CASE ResumeAllLook(t, arg[t])
  <2>1. /\ k' = k /\ ThreadsOK' /\ pc[t] = "delall" /\ isr' = isr
        /\ pc' = [pc EXCEPT ![t] = IF k.wait[arg[t]] = << >> THEN "delobj" ELSE "delone"]
    BY <1>1, <1>2, Now, LookStep
  <2>2. /\ pc' \in [Thread -> MutexPC] /\ \A u \in Thread \ {t} : pc'[u] = pc[u]
        /\ pc'[t] \in {"delone", "delobj"} /\ (pc'[t] = "delobj" => k.wait[arg[t]] = << >>)
    BY <2>1, Now DEF MutexPC, Deleting
  <2>3. \A u \in Thread : pc'[u] \in Waiting <=> pc[u] \in Waiting BY <2>1, <2>2 DEF Waiting
  <2>4. \A u \in Thread : pc'[u] \in Deleting => pc[u] \in Deleting BY <1>0, <2>2
  <2>5. \A u \in Thread : pc'[u] = "delobj" => pc[u] = "delobj" \/ k.wait[arg[u]] = << >>
    BY <2>2
  <2> QED BY <1>0, <2>1, <2>2, <2>3, <2>4, <2>5, Now, QuietOK
<1>3. CASE ResumeAllTurn(t, arg[t])
  <2> DEFINE u == Head(k.wait[arg[t]])
  <2>1. /\ k' \in KState /\ ThreadsOK' /\ pc[t] = "delone" /\ isr' = isr
        /\ pc' = [pc EXCEPT ![t] = "delall"]
        /\ u \in Thread /\ u \in ToSet(k.wait[arg[t]])
        /\ k'.err = [k.err EXCEPT ![u] = "ERROR"] /\ k'.wait = WaitWithout(k, u)
    BY <1>1, <1>3, Now, TurnStep
  <2> HIDE DEF u
  <2>2. /\ pc' \in [Thread -> MutexPC] /\ pc'[t] = "delall"
        /\ \A v \in Thread \ {t} : pc'[v] = pc[v]
    BY <2>1, Now DEF MutexPC, Deleting
  <2>3. \A v \in Thread : pc'[v] \in Waiting <=> pc[v] \in Waiting BY <2>1, <2>2 DEF Waiting
  <2>4. \A v \in Thread : pc'[v] \in Deleting => pc[v] \in Deleting BY <1>0, <2>2
  <2>5. \A v \in Thread : pc'[v] = "delobj" => pc[v] = "delobj" BY <2>2
  <2>6. "ERROR" \in Err \ {"EOK"} BY DEF Err
  <2> QED BY <1>0, <1>1, <2>1, <2>2, <2>3, <2>4, <2>5, <2>6, Now, LeaveOK
<1> QED BY <1>2, <1>3 DEF DeleteResume

LEMMA DeleteEndOK ==
    ASSUME Inductive, NEW t \in Thread, DeleteEnd(t)
    PROVE  Inductive'
<1> DEFINE m == arg[t]
<1>0. /\ t = k.cur /\ pc[t] = "delobj" /\ pc' = [pc EXCEPT ![t] = "run"] /\ k' = k
      /\ alive' = alive \ {m} /\ inside' = [inside EXCEPT ![m] = [u \in Thread |-> 0]]
      /\ arg' = [arg EXCEPT ![t] = None]
      /\ isr' = isr /\ value' = value /\ owner' = owner /\ hold' = hold /\ orig' = orig
  BY DEF DeleteEnd, Executing, Goto
<1>1. /\ m \in alive /\ m \in Obj /\ owner[m] \in {t, None} /\ k.wait[m] = << >>
      /\ \A u \in Thread \ {t} : pc[u] \in Deleting => arg[u] # m
  BY <1>0, Now DEF DeletersAlone, Deleting
<1>2. t # Idle /\ \A o \in Obj : t \notin ToSet(k.wait[o])
  BY <1>0, Now, CurrentRuns DEF ThreadsOK
<1> HIDE DEF m
<1>3. ThreadsOK' BY <1>0, <1>2, Now, GotoStep
<1>4. pc'[t] = "run" /\ (\A u \in Thread \ {t} : pc'[u] = pc[u]) /\ pc' \in [Thread -> MutexPC]
  BY <1>0, Now DEF MutexPC
<1>5. arg'[t] = None /\ (\A u \in Thread \ {t} : arg'[u] = arg[u])
      /\ arg' \in [Thread -> Obj \cup {None}]
  BY <1>0, Now
<1>6. \A u \in Thread : pc'[u] \in Waiting <=> pc[u] \in Waiting
  BY <1>0, <1>4 DEF Waiting
<1>7. /\ inside' \in [Obj -> [Thread -> 0 .. HoldMax]]
      /\ \A u \in Thread : inside'[m][u] = 0
      /\ \A n \in Obj \ {m} : inside'[n] = inside[n]
  <2>1. [u \in Thread |-> 0] \in [Thread -> 0 .. HoldMax] BY Now
  <2> QED BY <1>0, <1>1, <2>1, Now
<1>8. TypeOK' BY <1>0, <1>4, <1>5, <1>7, Now DEF TypeOK
<1>9. OwnerConsistent' BY <1>0, Now DEF OwnerConsistent
<1>10. HoldersAgree'
  <2> SUFFICES ASSUME NEW n \in alive, n # m, NEW u \in Thread
               PROVE  inside'[n][u] = IF owner[n] # u \/ (pc'[u] \in Waiting /\ arg'[u] = n)
                                      THEN 0 ELSE hold[n]
    BY <1>0, <1>9 DEF HoldersAgree, Blocked, Waiting
  <2>1. inside[n][u] = IF owner[n] # u \/ (pc[u] \in Waiting /\ arg[u] = n) THEN 0 ELSE hold[n]
    BY Now DEF HoldersAgree, Blocked, Waiting
  <2>2. n \in Obj BY Now
  <2>3. CASE u # t BY <1>4, <1>5, <1>7, <2>1, <2>2, <2>3
  <2>4. CASE u = t BY <1>0, <1>4, <1>6, <1>7, <2>1, <2>2, <2>4 DEF Waiting
  <2> QED BY <2>3, <2>4
<1>11. \A u \in Thread : pc'[u] \in Waiting => u # t /\ pc[u] \in Waiting /\ arg'[u] = arg[u]
  BY <1>4, <1>5, <1>6 DEF Waiting
<1>12. WaitOutcome' BY <1>0, <1>11, Now DEF WaitOutcome, Blocked, Waiting
<1>13. Engaged'
  <2>1. \A n \in Obj : owner'[n] # Idle BY <1>0, Now DEF Engaged
  <2>2. GoneEmpty'
    <3> SUFFICES ASSUME NEW n \in Obj, n \notin alive \/ n = m
                 PROVE  k.wait[n] = << >> /\ \A u \in Thread : inside'[n][u] = 0
      BY <1>0 DEF GoneEmpty
    <3>1. CASE n = m BY <1>1, <1>7, <3>1
    <3>2. CASE n # m BY <1>7, <3>2, Now DEF GoneEmpty
    <3> QED BY <3>1, <3>2
  <2>3. WaitersLinked'
    <3> SUFFICES ASSUME NEW n \in Obj, NEW u \in ToSet(k.wait[n])
                 PROVE  arg'[u] = n /\ owner[n] # u /\ k.err[u] = "EOK"
      BY <1>0 DEF WaitersLinked
    <3>1. u # t BY <1>2
    <3> QED BY <1>5, <3>1, WaiterFacts
  <2>4. GranteesHold'
    <3> SUFFICES ASSUME NEW u \in Thread, pc'[u] \in Waiting
                 PROVE  /\ arg[u] \in Obj
                        /\ owner[arg[u]] = u => arg[u] \in alive /\ arg[u] # m /\ hold[arg[u]] = 1
      BY <1>0, <1>11 DEF GranteesHold, Blocked, Waiting
    <3>1. u # t /\ pc[u] \in Waiting BY <1>11
    <3>2. owner[arg[u]] = u => arg[u] # m BY <1>1, <3>1, Now
    <3> QED BY <3>1, <3>2, Now DEF GranteesHold, Blocked, Waiting
  <2>5. DeletersAlone'
    <3> SUFFICES ASSUME NEW u \in Thread, pc'[u] \in Deleting
                 PROVE  /\ arg'[u] \in alive /\ arg'[u] # m /\ owner[arg'[u]] \in {u, None}
                        /\ pc'[u] = "delobj" => k.wait[arg'[u]] = << >>
                        /\ \A v \in Thread \ {u} : pc'[v] \in Deleting => arg'[v] # arg'[u]
      BY <1>0 DEF DeletersAlone
    <3>1. \A v \in Thread : pc'[v] \in Deleting => v # t /\ pc[v] = pc'[v] /\ arg'[v] = arg[v]
      BY <1>4, <1>5 DEF Deleting
    <3>2. arg[u] # m BY <1>1, <3>1
    <3> QED BY <3>1, <3>2, Now DEF DeletersAlone
  <2> QED BY <2>1, <2>2, <2>3, <2>4, <2>5 DEF Engaged
<1> QED BY <1>3, <1>8, <1>10, <1>12, <1>13 DEF Inductive

\* rt_mutex_create and rt_mutex_init after a deletion.
LEMMA CreateOK ==
    ASSUME Inductive, NEW t \in Thread, NEW m \in Obj, Create(t, m)
    PROVE  Inductive'
<1>0. /\ m \notin alive /\ alive' = alive \cup {m} /\ k' = k /\ pc' = pc /\ isr' = isr
      /\ value' = [value EXCEPT ![m] = 1] /\ owner' = [owner EXCEPT ![m] = None]
      /\ orig' = [orig EXCEPT ![m] = NoPrio] /\ hold' = [hold EXCEPT ![m] = 0]
      /\ arg' = arg /\ inside' = inside
  BY DEF Create
<1>1. /\ value' \in [Obj -> 0 .. 1] /\ value'[m] = 1
      /\ owner' \in [Obj -> Thread \cup {None}] /\ owner'[m] = None
      /\ hold' \in [Obj -> 0 .. HoldMax] /\ hold'[m] = 0
      /\ orig' \in [Obj -> Prio \cup {NoPrio}] /\ orig'[m] = NoPrio
      /\ \A n \in Obj \ {m} : /\ value'[n] = value[n] /\ owner'[n] = owner[n]
                              /\ hold'[n] = hold[n] /\ orig'[n] = orig[n]
  BY <1>0, Now
<1>2. k.wait[m] = << >> /\ \A u \in Thread : inside[m][u] = 0 BY <1>0, Now DEF GoneEmpty
<1>3. ThreadsOK' BY <1>0, Now DEF ThreadsOK, Blocked
<1>4. TypeOK' BY <1>0, <1>1, Now DEF TypeOK
<1>5. OwnerConsistent'
  <2> SUFFICES ASSUME NEW n \in alive \cup {m}
               PROVE  IF owner'[n] = None
                      THEN value'[n] = 1 /\ hold'[n] = 0 /\ orig'[n] = NoPrio /\ k.wait[n] = << >>
                      ELSE value'[n] = 0 /\ hold'[n] > 0 /\ orig'[n] \in Prio
    BY <1>0 DEF OwnerConsistent
  <2>1. CASE n = m BY <1>1, <1>2, <2>1
  <2>2. CASE n # m BY <1>1, <2>2, Now DEF OwnerConsistent
  <2> QED BY <2>1, <2>2
<1>6. HoldersAgree'
  <2> SUFFICES ASSUME NEW n \in alive \cup {m}, NEW u \in Thread
               PROVE  inside[n][u] = IF owner'[n] # u \/ (pc[u] \in Waiting /\ arg[u] = n)
                                     THEN 0 ELSE hold'[n]
    BY <1>0, <1>5 DEF HoldersAgree, Blocked, Waiting
  <2>1. CASE n = m BY <1>1, <1>2, <2>1
  <2>2. CASE n # m
    <3>1. n \in alive /\ n \in Obj BY <2>2, Now
    <3>2. inside[n][u] = IF owner[n] # u \/ (pc[u] \in Waiting /\ arg[u] = n) THEN 0 ELSE hold[n]
      BY <3>1, Now DEF HoldersAgree, Blocked, Waiting
    <3> QED BY <1>1, <2>2, <3>1, <3>2
  <2> QED BY <2>1, <2>2
<1>7. \A u \in Thread : pc[u] \in Waiting => /\ arg[u] \in Obj
                                             /\ owner'[arg[u]] = u <=> owner[arg[u]] = u
  BY <1>0, <1>1, Now DEF GranteesHold, Blocked, Waiting
<1>8. WaitOutcome' BY <1>0, <1>7, Now DEF WaitOutcome, Blocked, Waiting
<1>9. Engaged'
  <2>1. \A n \in Obj : owner'[n] # Idle BY <1>1, Now, IdleAssumption DEF Engaged
  <2>2. GoneEmpty' BY <1>0, Now DEF GoneEmpty
  <2>3. WaitersLinked'
    <3> SUFFICES ASSUME NEW n \in Obj, NEW u \in ToSet(k.wait[n])
                 PROVE  arg[u] = n /\ owner'[n] # u /\ k.err[u] = "EOK"
      BY <1>0 DEF WaitersLinked
    <3>1. n \in alive /\ arg[u] = n /\ owner[n] # u /\ k.err[u] = "EOK" BY WaiterFacts
    <3> QED BY <1>0, <1>1, <3>1
  <2>4. GranteesHold'
    <3> SUFFICES ASSUME NEW u \in Thread, pc[u] \in Waiting
                 PROVE  /\ arg[u] \in Obj
                        /\ owner'[arg[u]] = u =>
                              arg[u] \in alive \cup {m} /\ hold'[arg[u]] = 1
      BY <1>0 DEF GranteesHold, Blocked, Waiting
    <3>1. arg[u] \in Obj /\ (owner[arg[u]] = u => arg[u] \in alive /\ hold[arg[u]] = 1)
      BY Now DEF GranteesHold, Blocked, Waiting
    <3> QED BY <1>0, <1>1, <1>7, <3>1
  <2>5. DeletersAlone'
    <3> SUFFICES ASSUME NEW u \in Thread, pc[u] \in Deleting
                 PROVE  /\ arg[u] \in alive \cup {m} /\ owner'[arg[u]] \in {u, None}
                        /\ pc[u] = "delobj" => k.wait[arg[u]] = << >>
                        /\ \A v \in Thread \ {u} : pc[v] \in Deleting => arg[v] # arg[u]
      BY <1>0 DEF DeletersAlone
    <3>1. arg[u] \in alive /\ arg[u] \in Obj /\ arg[u] # m BY <1>0, Now DEF DeletersAlone
    <3> QED BY <1>1, <3>1, Now DEF DeletersAlone
  <2> QED BY <2>1, <2>2, <2>3, <2>4, <2>5 DEF Engaged
<1> QED BY <1>3, <1>4, <1>6, <1>8, <1>9 DEF Inductive

\* rt_thread_sleep and its return.
LEMMA PauseOK ==
    ASSUME Inductive, NEW t \in Thread, Pause(t)
    PROVE  Inductive' /\ k'.wait = k.wait /\ k'.prio = k.prio
<1>0. UNCHANGED mutexOnly BY DEF Pause
<1>1. CASE Sleep(t)
  <2>1. /\ k' \in KState /\ ThreadsOK'
        /\ k'.wait = k.wait /\ k'.err = [k.err EXCEPT ![t] = "EOK"] /\ k'.prio = k.prio
        /\ pc[t] = "run" /\ pc' = [pc EXCEPT ![t] = "sleep"] /\ isr' = isr
    BY <1>1, Now, SleepStep
  <2>2. /\ pc' \in [Thread -> MutexPC] /\ pc'[t] = "sleep"
        /\ \A u \in Thread \ {t} : pc'[u] = pc[u]
    BY <2>1, Now DEF MutexPC
  <2>3. \A u \in Thread : pc[u] \in Waiting => k'.err[u] = k.err[u] BY <2>1, Now DEF Waiting
  <2>4. \A u \in Thread : pc'[u] \in Waiting <=> pc[u] \in Waiting BY <2>1, <2>2 DEF Waiting
  <2>5. \A u \in Thread : pc'[u] \in Deleting => pc[u] = pc'[u] BY <2>2 DEF Deleting
  <2>6. Inductive' BY <1>0, <2>1, <2>2, <2>3, <2>4, <2>5, Now, QuietOK DEF Deleting
  <2> QED BY <2>1, <2>6
<1>2. CASE SleepReturn(t)
  <2>1. /\ k' \in KState /\ ThreadsOK' /\ pc[t] = "slept"
        /\ k'.wait = k.wait /\ k'.prio = k.prio /\ pc' = [pc EXCEPT ![t] = "run"] /\ isr' = isr
        /\ \A u \in Thread \ {t} : k'.err[u] = k.err[u]
    BY <1>2, Now, SleepReturnStep
  <2>2. /\ pc' \in [Thread -> MutexPC] /\ pc'[t] = "run"
        /\ \A u \in Thread \ {t} : pc'[u] = pc[u]
    BY <2>1, Now DEF MutexPC
  <2>3. \A u \in Thread : pc[u] \in Waiting => k'.err[u] = k.err[u] BY <2>1 DEF Waiting
  <2>4. \A u \in Thread : pc'[u] \in Waiting <=> pc[u] \in Waiting BY <2>1, <2>2 DEF Waiting
  <2>5. \A u \in Thread : pc'[u] \in Deleting => pc[u] = pc'[u] BY <2>2 DEF Deleting
  <2>6. Inductive' BY <1>0, <2>1, <2>2, <2>3, <2>4, <2>5, Now, QuietOK DEF Deleting
  <2> QED BY <2>1, <2>6
<1> QED BY <1>1, <1>2 DEF Pause

\* The rt_schedule that ends a call, and the tick interrupt.
LEMMA RescheduleOK ==
    ASSUME Inductive, NEW t \in Thread, Schedule(t), UNCHANGED mutexOnly
    PROVE  Inductive' /\ k'.wait = k.wait /\ k'.prio = k.prio
<1>0. isr' = isr BY DEF Schedule
<1>1. /\ k' \in KState /\ ThreadsOK'
      /\ k'.wait = k.wait /\ k'.err = k.err /\ k'.prio = k.prio
      /\ pc' = [pc EXCEPT ![t] = After[pc[t]]] /\ pc[t] \in {"sched", "sleep", "wait"}
  BY Now, ScheduleStep
<1>2. /\ pc' \in [Thread -> MutexPC] /\ pc'[t] \in {"run", "slept", "waited"}
      /\ pc[t] = "wait" <=> pc'[t] = "waited"
      /\ \A u \in Thread \ {t} : pc'[u] = pc[u]
  <2>1. After["sched"] = "run" /\ After["sleep"] = "slept" /\ After["wait"] = "waited"
    BY DEF After
  <2>2. After[pc[t]] \in MutexPC BY <1>1, <2>1 DEF MutexPC
  <2> QED BY <1>1, <2>1, <2>2, Now
<1>3. \A u \in Thread : pc'[u] \in Waiting <=> pc[u] \in Waiting BY <1>1, <1>2 DEF Waiting
<1>4. \A u \in Thread : pc'[u] \in Deleting => pc[u] = pc'[u] BY <1>2 DEF Deleting
<1>5. Inductive' BY <1>0, <1>1, <1>2, <1>3, <1>4, Now, QuietOK DEF Deleting
<1> QED BY <1>1, <1>5

LEMMA TickOK ==
    ASSUME Inductive, TickEnter \/ TickLeave, UNCHANGED mutexOnly
    PROVE  Inductive' /\ k'.wait = k.wait /\ k'.prio = k.prio
<1>1. /\ k' \in KState /\ ThreadsOK'
      /\ k'.wait = k.wait /\ k'.err = k.err /\ k'.prio = k.prio
      /\ pc' = pc /\ isr' \in {"none", "timers"}
  BY Now, TickStep
<1>2. Inductive' BY <1>1, Now, QuietOK
<1> QED BY <1>1, <1>2

\* The timer of a waiting or sleeping thread expires.
LEMMA TimeoutStepOK ==
    ASSUME Inductive, NEW t \in Thread, TimerFire(t), UNCHANGED mutexOnly
    PROVE  /\ Inductive' /\ k'.wait = WaitWithout(k, t) /\ k'.prio = k.prio
<1>1. /\ k' \in KState /\ ThreadsOK' /\ t \in Thread /\ k.stat[t] = "SUSPEND"
      /\ k'.wait = WaitWithout(k, t) /\ k'.err = [k.err EXCEPT ![t] = "ETIMEOUT"]
      /\ k'.prio = k.prio /\ pc' = pc /\ isr' = isr
  BY Now, TimerStep
<1>2. pc[t] \in Waiting => \E o \in Obj : t \in ToSet(k.wait[o])
  BY <1>1, Now DEF ThreadsOK, Waiting
<1>3. "ETIMEOUT" \in Err \ {"EOK"} BY DEF Err
<1>4. Inductive' BY <1>1, <1>2, <1>3, Now, LeaveOK
<1> QED BY <1>1, <1>4

-----------------------------------------------------------------------------
(* The theorems about every mutex *)

LEMMA InitOK == Init => Inductive
<1> SUFFICES ASSUME Init PROVE Inductive OBVIOUS
<1>1. /\ k = KBoot /\ pc = [t \in Thread |-> "run"] /\ isr = "none"
      /\ value = [m \in Obj |-> 1] /\ owner = [m \in Obj |-> None]
      /\ hold = [m \in Obj |-> 0] /\ orig = [m \in Obj |-> NoPrio] /\ alive = Obj
      /\ arg = [t \in Thread |-> None] /\ inside = [m \in Obj |-> [t \in Thread |-> 0]]
  BY DEF Init
<1>2. None \notin Thread /\ HoldMax \in Nat \ {0} /\ Idle \in Thread
  BY MutexAssumption, IdleAssumption
<1>3. k \in KState /\ ThreadsOK /\ \A o \in Obj : k.wait[o] = << >>
  BY <1>1, BootThreads
<1>4. TypeOK
  <2>1. pc \in [Thread -> MutexPC] BY <1>1 DEF MutexPC
  <2>2. inside \in [Obj -> [Thread -> 0 .. HoldMax]] BY <1>1, <1>2
  <2>3. hold \in [Obj -> 0 .. HoldMax] BY <1>1, <1>2
  <2> QED BY <1>1, <1>2, <1>3, <2>1, <2>2, <2>3 DEF TypeOK
<1>5. OwnerConsistent BY <1>1, <1>3 DEF OwnerConsistent
<1>6. HoldersAgree BY <1>1, <1>2, <1>5 DEF HoldersAgree
<1>7. \A t \in Thread : pc[t] \notin {"wait", "waited"} /\ pc[t] \notin Deleting
  BY <1>1 DEF Deleting
<1>8. WaitOutcome BY <1>7 DEF WaitOutcome, Blocked
<1>9. \A m \in Obj : ToSet(k.wait[m]) = {}
  <2>1. << >> \in Seq(Thread) OBVIOUS
  <2> QED BY <1>3, <2>1, EmptyFacts
<1>10. Engaged
  BY <1>1, <1>2, <1>7, <1>9 DEF Engaged, GoneEmpty, WaitersLinked, GranteesHold,
                              DeletersAlone, Blocked
<1> QED BY <1>3, <1>4, <1>6, <1>8, <1>10 DEF Inductive

LEMMA StutterOK == ASSUME Inductive, UNCHANGED mutexVars PROVE Inductive'
<1>1. /\ k' = k /\ pc' = pc /\ isr' = isr /\ value' = value /\ owner' = owner /\ hold' = hold
      /\ orig' = orig /\ alive' = alive /\ arg' = arg /\ inside' = inside
  BY DEF mutexVars
<1>2. ThreadsOK' BY <1>1, Now DEF ThreadsOK, Blocked
<1>3. UNCHANGED mutexOnly BY <1>1 DEF mutexOnly
<1> QED BY <1>1, <1>2, <1>3, Now, QuietOK

LEMMA NextOK == ASSUME Inductive, [Next]_mutexVars PROVE Inductive'
<1>1. ASSUME NEW t \in Thread, NEW m \in Obj, MutexStep(t, m) PROVE Inductive'
  <2>1. CASE \E w \in Waits : TakeWait(t, m, w) BY <2>1, TakeWaitOK
  <2>2. CASE Release(t, m)
    BY <2>2, ReleaseInnerOK, ReleaseToOK, ReleaseFreeOK DEF Release
  <2> QED BY <1>1, <2>1, <2>2, TakeAgainOK, TakeFreeOK, TakeRefusedOK, DeleteBeginOK,
             CreateOK DEF MutexStep
<1>2. ASSUME NEW t \in Thread, TakeReturn(t) \/ DeleteResume(t) \/ DeleteEnd(t) \/ Pause(t)
      PROVE  Inductive'
  BY <1>2, TakeReturnOK, DeleteResumeOK, DeleteEndOK, PauseOK
<1>3. CASE ProcessorStep /\ UNCHANGED mutexOnly
  <2>1. ASSUME NEW t \in Thread, Schedule(t) PROVE Inductive' BY <1>3, <2>1, RescheduleOK
  <2>2. ASSUME NEW t \in Thread, TimerFire(t) PROVE Inductive'
    <3>1. UNCHANGED mutexOnly BY <1>3
    <3> QED BY <2>2, <3>1, TimeoutStepOK
  <2> QED BY <1>3, <2>1, <2>2, TickOK DEF ProcessorStep, Interrupt
<1>4. CASE UNCHANGED mutexVars BY <1>4, StutterOK
<1> QED BY <1>1, <1>2, <1>3, <1>4 DEF Next

\* The inductive invariant of the mutexes.
THEOREM InductiveInvariant == Spec => []Inductive
<1>1. Init => Inductive BY InitOK
<1>2. Inductive /\ [Next]_mutexVars => Inductive' BY NextOK
<1> QED BY <1>1, <1>2, PTL DEF Spec

\* The ready lists and the suspend lists stay consistent while
\* RT_THREAD_CTRL_CHANGE_PRIORITY moves owners between priorities.
THEOREM ListsStayConsistent == Spec => []KernelConsistent
<1>1. Inductive => KernelConsistent BY Now DEF KernelConsistent, Inductive
<1> QED BY <1>1, InductiveInvariant, PTL

\* Mutual exclusion: only the owner is inside, as often as mutex->hold says, and
\* the fields of a mutex agree, through recursive takes, time limits that expire,
\* hand-overs by rt_mutex_release and deletions.
THEOREM OnlyTheOwnerIsInside == Spec => []HoldersAgree
<1>1. Inductive => HoldersAgree BY DEF Inductive
<1> QED BY <1>1, InductiveInvariant, PTL

\* rt_mutex_take returns RT_EOK after a wait exactly when the caller has become
\* the owner, although the release and the timeout race for it.
THEOREM ReturnCodeTellsTheOwner == Spec => []WaitOutcome
<1>1. Inductive => WaitOutcome BY DEF Inductive
<1> QED BY <1>1, InductiveInvariant, PTL

-----------------------------------------------------------------------------
(* Suspend lists sorted by priority *)

LEMMA SortedTail ==
    ASSUME NEW s \in Seq(Thread), s # << >>, NEW p, Sorted(s, p)
    PROVE  Sorted(Tail(s), p) /\ \A t \in ToSet(Tail(s)) : p[Head(s)] <= p[t]
<1>1. /\ Len(Tail(s)) = Len(s) - 1 /\ Head(s) = s[1] /\ Len(s) \in Nat /\ 1 \in 1 .. Len(s)
      /\ \A i \in 1 .. Len(s) - 1 : Tail(s)[i] = s[i + 1]
  OBVIOUS
<1>2. ASSUME NEW i \in 1 .. Len(Tail(s)), NEW j \in 1 .. Len(Tail(s)), i < j
      PROVE  p[Tail(s)[i]] <= p[Tail(s)[j]]
  <2>1. i + 1 \in 1 .. Len(s) /\ j + 1 \in 1 .. Len(s) /\ i + 1 < j + 1 BY <1>1, <1>2
  <2>2. p[s[i + 1]] <= p[s[j + 1]] BY <2>1 DEF Sorted
  <2> QED BY <1>1, <2>2
<1>3. ASSUME NEW t \in ToSet(Tail(s)) PROVE p[Head(s)] <= p[t]
  <2>1. PICK i \in 1 .. Len(Tail(s)) : t = Tail(s)[i] BY DEF ToSet
  <2>2. i + 1 \in 1 .. Len(s) /\ 1 < i + 1 BY <1>1
  <2>3. p[s[1]] <= p[s[i + 1]] BY <1>1, <2>2 DEF Sorted
  <2> QED BY <1>1, <2>1, <2>3
<1>4. Sorted(Tail(s), p) BY <1>2 DEF Sorted
<1> QED BY <1>3, <1>4

LEMMA SortedRemove ==
    ASSUME NEW s \in Seq(Thread), IsInjective(s), NEW p, Sorted(s, p), NEW e
    PROVE  Sorted(RemoveFirst(s, e), p)
<1> DEFINE r == RemoveFirst(s, e)
<1> SUFFICES ASSUME NEW i \in 1 .. Len(r), NEW j \in 1 .. Len(r), i < j
             PROVE  p[r[i]] <= p[r[j]]
  BY DEF Sorted
<1>1. PICK a, b \in 1 .. Len(s) : a < b /\ s[a] = r[i] /\ s[b] = r[j] BY RemoveOrder
<1> QED BY <1>1 DEF Sorted

LEMMA SortedInsert ==
    ASSUME NEW s \in Seq(Thread), IsInjective(s), NEW p \in [Thread -> Prio], Sorted(s, p),
           NEW t \in Thread, t \notin ToSet(s), NEW n \in 1 .. Len(s) + 1,
           \A i \in 1 .. Len(s) : i < n => p[s[i]] <= p[t],
           n <= Len(s) => p[t] < p[s[n]]
    PROVE  Sorted(InsertAt(s, n, t), p)
<1> DEFINE r == InsertAt(s, n, t)
<1>1. /\ Len(r) = Len(s) + 1 /\ Len(s) \in Nat
      /\ \A x \in 1 .. Len(s) + 1 :
            r[x] = IF x < n THEN s[x] ELSE IF x = n THEN t ELSE s[x - 1]
  BY InsertFacts
<1> HIDE DEF r
<1>2. /\ \A u \in Thread : p[u] \in Int
      /\ \A i \in 1 .. Len(s) : s[i] \in Thread
  BY PrioMaxAssumption DEF Prio
<1>3. \A i \in 1 .. Len(s) : i >= n => p[t] <= p[s[i]]
  <2> SUFFICES ASSUME NEW i \in 1 .. Len(s), i >= n PROVE p[t] <= p[s[i]] OBVIOUS
  <2>1. n \in 1 .. Len(s) /\ p[t] < p[s[n]] BY <1>1
  <2>2. p[s[n]] <= p[s[i]]
    <3>1. CASE i = n BY <1>2, <3>1
    <3>2. CASE i # n
      <4>1. n < i BY <3>2
      <4> QED BY <2>1, <4>1 DEF Sorted
    <3> QED BY <3>1, <3>2
  <2>3. p[t] \in Int /\ p[s[n]] \in Int /\ p[s[i]] \in Int BY <1>2, <2>1
  <2> QED BY <2>1, <2>2, <2>3
<1> SUFFICES ASSUME NEW i \in 1 .. Len(r), NEW j \in 1 .. Len(r), i < j
             PROVE  p[r[i]] <= p[r[j]]
  BY DEF Sorted, r
<1>4. i \in 1 .. Len(s) + 1 /\ j \in 1 .. Len(s) + 1 BY <1>1
<1>5. CASE j < n
  <2>1. i \in 1 .. Len(s) /\ j \in 1 .. Len(s) /\ r[i] = s[i] /\ r[j] = s[j] BY <1>1, <1>4, <1>5
  <2> QED BY <2>1 DEF Sorted
<1>6. CASE j = n
  <2>1. i \in 1 .. Len(s) /\ i < n /\ r[i] = s[i] /\ r[j] = t BY <1>1, <1>4, <1>6
  <2> QED BY <2>1
<1>7. CASE j > n /\ i < n
  <2>1. i \in 1 .. Len(s) /\ j - 1 \in 1 .. Len(s) /\ i < j - 1 /\ r[i] = s[i] /\ r[j] = s[j - 1]
    BY <1>1, <1>4, <1>7
  <2> QED BY <2>1 DEF Sorted
<1>8. CASE j > n /\ i = n
  <2>1. j - 1 \in 1 .. Len(s) /\ j - 1 >= n /\ r[i] = t /\ r[j] = s[j - 1] BY <1>1, <1>4, <1>8
  <2> QED BY <1>3, <2>1
<1>9. CASE j > n /\ i > n
  <2>1. /\ i - 1 \in 1 .. Len(s) /\ j - 1 \in 1 .. Len(s) /\ i - 1 < j - 1
        /\ r[i] = s[i - 1] /\ r[j] = s[j - 1]
    BY <1>1, <1>4, <1>9
  <2> QED BY <2>1 DEF Sorted
<1> QED BY <1>4, <1>5, <1>6, <1>7, <1>8, <1>9

\* Only the priorities of the threads in the list matter.
LEMMA SortedSame ==
    ASSUME NEW s \in Seq(Thread), NEW p, NEW q, Sorted(s, p), \A t \in ToSet(s) : q[t] = p[t]
    PROVE  Sorted(s, q)
<1>1. \A i \in 1 .. Len(s) : s[i] \in ToSet(s) BY DEF ToSet
<1> QED BY <1>1 DEF Sorted

-----------------------------------------------------------------------------
(* Priority inheritance with one mutex *)

\* What Lent says of the one mutex.
LentBy(m) ==
    /\ alive = {m} /\ \A t \in Thread : pc[t] \notin Deleting
    /\ \A t \in Thread : owner[m] # t => k.prio[t] = BootPrio[t]
    /\ owner[m] # None => orig[m] = BootPrio[owner[m]]
    /\ Sorted(k.wait[m], k.prio)
    /\ \A t \in ToSet(k.wait[m]) : owner[m] # None => k.prio[owner[m]] <= k.prio[t]

LEMMA LentNow ==
    ASSUME NEW m, Obj = {m}, Inductive, Lent
    PROVE  LentBy(m) /\ m \in Obj /\ m \in alive
  BY DEF Lent, LentBy, Inheritance

LEMMA LentThen ==
    ASSUME NEW m, Obj = {m}, LentBy(m)'
    PROVE  Lent'
  BY DEF Lent, LentBy, Inheritance

\* Steps that change neither the suspend list nor a priority nor the owner.
LEMMA StillLent ==
    ASSUME NEW m, LentBy(m), k'.wait[m] = k.wait[m], k'.prio = k.prio,
           owner' = owner, orig' = orig, alive' = alive,
           \A t \in Thread : pc'[t] \in Deleting => pc[t] \in Deleting
    PROVE  LentBy(m)'
  BY DEF LentBy

\* The list of the one mutex.
LEMMA OneList ==
    ASSUME Inductive, NEW m \in Obj
    PROVE  /\ k.wait[m] \in Seq(Thread) /\ IsInjective(k.wait[m])
           /\ k.prio \in [Thread -> Prio] /\ \A t \in Thread : k.prio[t] \in Int
           /\ \A t \in ToSet(k.wait[m]) : t \in Thread /\ owner[m] # t /\ owner[m] # None
           /\ owner[m] # None => owner[m] \in Thread
<1>1. k.wait[m] \in Seq(Thread) /\ IsInjective(k.wait[m])
  BY Now DEF KernelOK, WaitListsOK
<1>2. k.prio \in [Thread -> Prio] BY Now DEF KState
<1>3. \A t \in Thread : k.prio[t] \in Int BY <1>2, PrioMaxAssumption DEF Prio
<1>4. \A t \in ToSet(k.wait[m]) : t \in Thread /\ owner[m] # t /\ owner[m] # None BY WaiterFacts
<1> QED BY <1>1, <1>2, <1>3, <1>4, Now

LEMMA TakeFreeLent ==
    ASSUME Inductive, NEW t \in Thread, NEW m \in Obj, LentBy(m), TakeFree(t, m)
    PROVE  LentBy(m)'
<1>1. k'.wait = k.wait /\ k'.prio = k.prio /\ owner[m] = None BY TakeFreeOK
<1>2. owner'[m] = t /\ orig'[m] = k.prio[t] /\ alive' = alive /\ pc' = pc
  BY Now DEF TakeFree
<1>3. k.wait[m] = << >> /\ ToSet(k.wait[m]) = {}
  <2>1. k.wait[m] = << >> BY <1>1, Now DEF OwnerConsistent, LentBy
  <2> QED BY <2>1, Now, EmptyFacts
<1>4. \A u \in Thread : k.prio[u] = BootPrio[u] BY <1>1, Now DEF LentBy
<1> QED BY <1>1, <1>2, <1>3, <1>4 DEF LentBy

LEMMA TakeWaitLent ==
    ASSUME Inductive, NEW t \in Thread, NEW m \in Obj, LentBy(m), NEW w, TakeWait(t, m, w)
    PROVE  LentBy(m)'
<1> DEFINE a == Inherit(t, m)
           h == owner[m]
           n == PrioPosition(a, m, t)
<1>1. BlockedOn(a, k', m, t, "PRIO", w) /\ m \in alive /\ h # None /\ h # t BY TakeWaitOK
<1>2. /\ a \in KState /\ a.wait = k.wait
      /\ a.prio = IF k.prio[t] < k.prio[h] THEN [k.prio EXCEPT ![h] = k.prio[t]] ELSE k.prio
  BY <1>1, InheritEffect DEF Reranked
<1>3. owner' = owner /\ orig' = orig /\ alive' = alive /\ pc' = [pc EXCEPT ![t] = "wait"]
  BY DEF TakeWait, Goto
<1>4. /\ k.wait[m] \in Seq(Thread) /\ IsInjective(k.wait[m])
      /\ k.prio \in [Thread -> Prio] /\ \A u \in Thread : k.prio[u] \in Int
      /\ \A u \in ToSet(k.wait[m]) : u \in Thread /\ h # u
      /\ h \in Thread
  BY <1>1, OneList
<1> HIDE DEF a, h
<1>5. /\ k'.prio = a.prio /\ k'.wait[m] = InsertAt(k.wait[m], n, t)
      /\ ToSet(k'.wait[m]) = ToSet(k.wait[m]) \cup {t} /\ t \notin ToSet(k.wait[m])
  <2>1. "PRIO" # "FIFO" OBVIOUS
  <2> QED BY <1>1, <1>2, <2>1, Now DEF BlockedOn, Linked, Position
<1>6. /\ n \in 1 .. Len(k.wait[m]) + 1
      /\ \A i \in 1 .. Len(k.wait[m]) : i < n => a.prio[k.wait[m][i]] <= a.prio[t]
      /\ n <= Len(k.wait[m]) => a.prio[t] < a.prio[k.wait[m][n]]
  BY <1>2, PrioPositionFacts
<1> HIDE DEF n
<1>7. /\ a.prio \in [Thread -> Prio] /\ a.prio[t] = k.prio[t]
      /\ \A u \in Thread \ {h} : a.prio[u] = k.prio[u]
      /\ a.prio[h] <= k.prio[h] /\ a.prio[h] <= k.prio[t]
  BY <1>1, <1>2, <1>4
<1>8. Sorted(k'.wait[m], k'.prio)
  <2>1. Sorted(k.wait[m], a.prio)
    BY <1>4, <1>7, SortedSame DEF LentBy
  <2> QED BY <1>4, <1>5, <1>6, <1>7, <2>1, SortedInsert
<1>9. \A u \in ToSet(k'.wait[m]) : k'.prio[h] <= k'.prio[u]
  <2> SUFFICES ASSUME NEW u \in ToSet(k'.wait[m]) PROVE a.prio[h] <= a.prio[u] BY <1>5
  <2>1. CASE u = t BY <1>7, <2>1
  <2>2. CASE u # t
    <3>1. u \in ToSet(k.wait[m]) /\ u \in Thread /\ u # h BY <1>4, <1>5, <2>2
    <3>2. k.prio[h] <= k.prio[u] BY <1>1, <3>1 DEF LentBy, h
    <3>3. a.prio[h] \in Int /\ k.prio[h] \in Int /\ k.prio[u] \in Int
      BY <1>2, <1>4, <3>1
    <3> QED BY <1>7, <3>1, <3>2, <3>3
  <2> QED BY <2>1, <2>2
<1>10. \A u \in Thread : h # u => k'.prio[u] = BootPrio[u]
  BY <1>5, <1>7 DEF LentBy, h
<1>11. \A u \in Thread : pc'[u] \notin Deleting BY <1>3, Now DEF LentBy, Deleting
<1> QED BY <1>1, <1>3, <1>8, <1>9, <1>10, <1>11 DEF LentBy, h

LEMMA ReleaseToLent ==
    ASSUME Inductive, NEW t \in Thread, NEW m \in Obj, LentBy(m), ReleaseTo(t, m)
    PROVE  LentBy(m)'
<1> DEFINE h == Head(k.wait[m])
<1>1. /\ owner[m] = t /\ owner'[m] = h /\ h \in Thread /\ h \in ToSet(k.wait[m]) /\ h # t
      /\ k'.wait = [k.wait EXCEPT ![m] = Tail(k.wait[m])] /\ k.wait[m] # << >>
      /\ k'.prio = [k.prio EXCEPT ![t] = orig[m]]
  BY Now, ReleaseToOK
<1>2. orig'[m] = k.prio[h] /\ alive' = alive /\ pc' = [pc EXCEPT ![t] = "sched"]
  BY Now DEF ReleaseTo, Goto
<1>3. /\ k.wait[m] \in Seq(Thread) /\ k.prio \in [Thread -> Prio]
      /\ \A u \in ToSet(k.wait[m]) : u \in Thread /\ t # u
  BY <1>1, OneList
<1>4. /\ Sorted(Tail(k.wait[m]), k.prio)
      /\ \A u \in ToSet(Tail(k.wait[m])) : k.prio[h] <= k.prio[u]
  BY <1>1, <1>3, SortedTail DEF LentBy
<1>5. ToSet(Tail(k.wait[m])) = ToSet(k.wait[m]) \ {h} /\ Tail(k.wait[m]) \in Seq(Thread)
  BY <1>1, Now, HeadFacts
<1> HIDE DEF h
<1>6. orig[m] = BootPrio[t] BY <1>1, Now DEF LentBy
<1>7. k'.prio[t] = BootPrio[t] /\ \A u \in Thread \ {t} : k'.prio[u] = k.prio[u]
  BY <1>1, <1>3, <1>6
<1>8. k'.wait[m] = Tail(k.wait[m]) BY <1>1, Now
<1>9. \A u \in ToSet(Tail(k.wait[m])) : k'.prio[u] = k.prio[u] BY <1>3, <1>5, <1>7
<1>10. Sorted(k'.wait[m], k'.prio) BY ZenonT(40), <1>4, <1>5, <1>8, <1>9, SortedSame
<1>11. \A u \in ToSet(k'.wait[m]) : k'.prio[h] <= k'.prio[u] BY <1>1, <1>4, <1>7, <1>8, <1>9
<1>12. \A u \in Thread : k.prio[u] = BootPrio[u] \/ u = t BY <1>1 DEF LentBy
<1>13. \A u \in Thread : h # u => k'.prio[u] = BootPrio[u] BY <1>7, <1>12
<1>14. orig'[m] = BootPrio[h] BY <1>1, <1>2, <1>12
<1>15. \A u \in Thread : pc'[u] \notin Deleting BY <1>2, Now DEF LentBy, Deleting
<1> QED BY <1>1, <1>2, <1>10, <1>11, <1>13, <1>14, <1>15 DEF LentBy

LEMMA ReleaseFreeLent ==
    ASSUME Inductive, NEW t \in Thread, NEW m \in Obj, LentBy(m), ReleaseFree(t, m)
    PROVE  LentBy(m)'
<1>1. k'.wait = k.wait /\ owner[m] = t /\ k'.prio = [k.prio EXCEPT ![t] = orig[m]]
  BY ReleaseFreeOK
<1>2. k.wait[m] = << >> /\ owner'[m] = None /\ alive' = alive /\ pc' = pc
  BY Now DEF ReleaseFree
<1>3. ToSet(k.wait[m]) = {} BY <1>2, Now, EmptyFacts
<1>4. k.prio \in [Thread -> Prio] BY OneList
<1>5. orig[m] = BootPrio[t] BY <1>1, Now DEF LentBy
<1>6. \A u \in Thread : k'.prio[u] = BootPrio[u] BY <1>1, <1>4, <1>5 DEF LentBy
<1>7. Sorted(k'.wait[m], k'.prio) BY <1>1, <1>2 DEF Sorted
<1> QED BY <1>1, <1>2, <1>3, <1>6, <1>7 DEF LentBy

LEMMA TimeoutLent ==
    ASSUME Inductive, NEW t \in Thread, NEW m \in Obj, LentBy(m), TimerFire(t),
           UNCHANGED mutexOnly
    PROVE  LentBy(m)'
<1>1. k'.wait = WaitWithout(k, t) /\ k'.prio = k.prio BY TimeoutStepOK
<1>2. /\ k'.wait[m] = RemoveFirst(k.wait[m], t)
      /\ ToSet(k'.wait[m]) = ToSet(k.wait[m]) \ {t}
  <2>1. \A o \in Obj : /\ WaitWithout(k, t)[o] = RemoveFirst(k.wait[o], t)
                       /\ ToSet(WaitWithout(k, t)[o]) = ToSet(k.wait[o]) \ {t}
    BY Now, InWaitWithout
  <2> QED BY <1>1, <2>1
<1>3. pc' = pc /\ owner' = owner /\ orig' = orig /\ alive' = alive BY DEF TimerFire, mutexOnly
<1>4. Sorted(k'.wait[m], k'.prio) BY <1>1, <1>2, OneList, SortedRemove DEF LentBy
<1> QED BY <1>1, <1>2, <1>3, <1>4 DEF LentBy

LEMMA LentInit == ASSUME Single, Init PROVE Lent
<1>1. PICK m : Obj = {m} BY DEF Single
<1>2. /\ alive = Obj /\ owner = [o \in Obj |-> None] /\ \A t \in Thread : pc[t] = "run"
  BY DEF Init
<1>3. k.prio = BootPrio /\ \A o \in Obj : k.wait[o] = << >>
  BY BootThreads DEF Init
<1>4. ToSet(<< >>) = {}
  <2>1. << >> \in Seq(Thread) OBVIOUS
  <2> QED BY <2>1, EmptyFacts
<1>5. Sorted(<< >>, BootPrio) BY DEF Sorted
<1> QED BY <1>1, <1>2, <1>3, <1>4, <1>5 DEF Lent, Inheritance, Deleting

LEMMA LentNext == ASSUME Single, Inductive, Lent, [Next]_mutexVars PROVE Lent'
<1>0. PICK m : Obj = {m} BY DEF Single
<1>1. LentBy(m) /\ m \in Obj /\ m \in alive BY <1>0, LentNow
<1>2. alive = Obj /\ \A t \in Thread : pc[t] \notin Deleting BY DEF Lent
<1> SUFFICES LentBy(m)' BY <1>0, LentThen
<1>3. ASSUME NEW t \in Thread, MutexStep(t, m) PROVE LentBy(m)'
  <2>1. CASE TakeAgain(t, m)
    <3>1. owner' = owner /\ orig' = orig /\ alive' = alive /\ pc' = pc BY <2>1 DEF TakeAgain
    <3> QED BY <1>1, <2>1, <3>1, TakeAgainOK, StillLent
  <2>2. CASE TakeFree(t, m) BY <1>1, <2>2, TakeFreeLent
  <2>3. CASE TakeRefused(t, m) \/ ReleaseRefused(t, m)
    <3>1. owner' = owner /\ orig' = orig /\ alive' = alive /\ pc' = pc
      BY <2>3 DEF TakeRefused, ReleaseRefused
    <3> QED BY <1>1, <2>3, <3>1, TakeRefusedOK, StillLent
  <2>4. CASE \E w \in Waits : TakeWait(t, m, w) BY <1>1, <2>4, TakeWaitLent
  <2>5. CASE ReleaseInner(t, m)
    <3>1. owner' = owner /\ orig' = orig /\ alive' = alive /\ pc' = pc /\ k' = k
      BY <2>5 DEF ReleaseInner
    <3> QED BY <1>1, <3>1, StillLent
  <2>6. CASE ReleaseTo(t, m) BY <1>1, <2>6, ReleaseToLent
  <2>7. CASE ReleaseFree(t, m) BY <1>1, <2>7, ReleaseFreeLent
  <2>8. ~DeleteBegin(t, m) BY DEF DeleteBegin, Single
  <2>9. ~Create(t, m) BY <1>1 DEF Create
  <2> QED BY <1>3, <2>1, <2>2, <2>3, <2>4, <2>5, <2>6, <2>7, <2>8, <2>9
          DEF MutexStep, Release
<1>4. ASSUME NEW t \in Thread, TakeReturn(t) \/ DeleteResume(t) \/ DeleteEnd(t) \/ Pause(t)
      PROVE  LentBy(m)'
  <2>1. CASE TakeReturn(t)
    <3>1. owner' = owner /\ orig' = orig /\ alive' = alive /\ k' = k
          /\ pc' = [pc EXCEPT ![t] = "run"]
      BY <2>1 DEF TakeReturn, Goto
    <3>2. \A u \in Thread : pc'[u] \in Deleting => pc[u] \in Deleting
      BY <3>1, Now DEF Deleting
    <3> QED BY <1>1, <3>1, <3>2, StillLent
  <2>2. ~DeleteResume(t) /\ ~DeleteEnd(t) BY <1>2 DEF DeleteResume, DeleteEnd, Deleting
  <2>3. CASE Pause(t)
    <3>1. owner' = owner /\ orig' = orig /\ alive' = alive BY <2>3 DEF Pause, mutexOnly
    <3>2. pc' = [pc EXCEPT ![t] = "sleep"] \/ pc' = [pc EXCEPT ![t] = "run"]
      BY <2>3 DEF Pause, Sleep, SleepReturn, Goto
    <3>3. \A u \in Thread : pc'[u] \in Deleting => pc[u] \in Deleting
      BY <3>2, Now DEF Deleting
    <3> QED BY <1>1, <2>3, <3>1, <3>3, PauseOK, StillLent
  <2> QED BY <1>4, <2>1, <2>2, <2>3
<1>5. CASE ProcessorStep /\ UNCHANGED mutexOnly
  <2>0. UNCHANGED mutexOnly /\ owner' = owner /\ orig' = orig /\ alive' = alive
    BY <1>5 DEF mutexOnly
  <2>1. ASSUME NEW t \in Thread, Schedule(t) PROVE LentBy(m)'
    <3>1. pc[t] \in {"sched", "sleep", "wait"} /\ pc' = [pc EXCEPT ![t] = After[pc[t]]]
      BY <2>1, Now, ScheduleStep
    <3>2. \A u \in Thread : pc'[u] \in Deleting => pc[u] \in Deleting
      <4>1. After[pc[t]] \in {"run", "slept", "waited"} BY <3>1 DEF After
      <4> QED BY <3>1, <4>1, Now DEF Deleting
    <3>3. k'.wait = k.wait /\ k'.prio = k.prio BY <2>0, <2>1, RescheduleOK
    <3> QED BY <1>1, <2>0, <3>2, <3>3, StillLent
  <2>2. ASSUME NEW t \in Thread, TimerFire(t) PROVE LentBy(m)'
    BY <1>1, <2>0, <2>2, TimeoutLent
  <2>3. CASE TickEnter \/ TickLeave
    <3>1. pc' = pc BY <2>3 DEF TickEnter, TickLeave
    <3>2. k'.wait = k.wait /\ k'.prio = k.prio BY <2>0, <2>3, TickOK
    <3> QED BY <1>1, <2>0, <3>1, <3>2, StillLent
  <2> QED BY <1>5, <2>1, <2>2, <2>3 DEF ProcessorStep, Interrupt
<1>6. CASE UNCHANGED mutexVars
  <2>1. k' = k /\ pc' = pc /\ owner' = owner /\ orig' = orig /\ alive' = alive
    BY <1>6 DEF mutexVars
  <2> QED BY <1>1, <2>1, StillLent
<1>7. CASE \E t \in Thread, o \in Obj : MutexStep(t, o) BY <1>0, <1>3, <1>7
<1> QED BY <1>4, <1>5, <1>6, <1>7 DEF Next

\* Priorities follow the ownership of a single mutex that is never deleted.
THEOREM PrioritiesFollowOwnership == Single => (Spec => []Lent)
<1> SUFFICES ASSUME Single PROVE Spec => []Lent OBVIOUS
<1>1. Init => Lent BY LentInit
<1>2. Lent /\ Inductive /\ [Next]_mutexVars => Lent' BY LentNext
<1> QED BY <1>1, <1>2, InductiveInvariant, PTL DEF Spec

\* Priority inheritance: the owner is never less urgent than a thread that waits
\* for it, whatever the order of takes, hand-overs and timeouts.
THEOREM OwnerInherits == Single => (Spec => []Inheritance)
<1> SUFFICES ASSUME Single PROVE Spec => []Inheritance OBVIOUS
<1>1. Lent => Inheritance BY DEF Lent
<1>2. Spec => []Lent BY PrioritiesFollowOwnership
<1> QED BY <1>1, <1>2, PTL

\* A thread that owns no mutex has its own priority: rt_mutex_release has taken
\* back all that was inherited.
THEOREM OwnPriorityComesBack == Single => (Spec => []PriorityRestored)
<1> SUFFICES ASSUME Single PROVE Spec => []PriorityRestored OBVIOUS
<1>1. Lent => PriorityRestored BY DEF Lent, PriorityRestored, Worker
<1>2. Spec => []Lent BY PrioritiesFollowOwnership
<1> QED BY <1>1, <1>2, PTL
=============================================================================
