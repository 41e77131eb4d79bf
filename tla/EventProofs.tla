---------------------------- MODULE EventProofs ----------------------------
(***************************************************************************)
(* Theorems about the event object, for every set of bits, every mixture   *)
(* of requests, any number of threads and every interleaving with the tick *)
(* interrupt and with interrupt handlers that send.                        *)
(***************************************************************************)
EXTENDS Event, IpcProofs

Waiting == {"wait", "waited"}

\* More bits meet what fewer bits meet.
LEMMA MeetsMore ==
    ASSUME NEW S, NEW R, R \subseteq S, NEW w, NEW a, Meets(R, w, a)
    PROVE  Meets(S, w, a)
  BY DEF Meets

LEMMA RequestFacts ==
    ASSUME NEW r \in Requests
    PROVE  r.want \subseteq Bits /\ r.want # {} /\ r.and \in BOOLEAN /\ r.clear \in BOOLEAN
  BY EventAssumption

\* No bits meet no request.
LEMMA MeetsNothing == ASSUME NEW r \in Requests PROVE ~Meets({}, r.want, r.and)
<1>1. r.want # {} BY RequestFacts
<1> QED BY <1>1 DEF Meets

\* What the inductive invariant says.
LEMMA Now ==
    ASSUME Inductive
    PROVE  /\ k \in KState /\ ThreadsOK /\ KernelOK(k, {}) /\ pc \in [Thread -> EventPC]
           /\ isr \in {"none", "timers"} /\ set \subseteq Bits
           /\ eset \in [Thread -> SUBSET Bits] /\ req \in [Thread -> Requests \cup {NoRequest}]
           /\ alive \in BOOLEAN /\ Ev \in Obj
           /\ k.wait \in [Obj -> Seq(Thread)] /\ k.err \in [Thread -> Err]
           /\ k.wait[Ev] \in Seq(Thread) /\ IsInjective(k.wait[Ev])
           /\ \A t \in ToSet(k.wait[Ev]) : ~Meets(set, req[t].want, req[t].and)
           /\ Delivered
           /\ \A o \in Obj \ {Ev} : k.wait[o] = << >>
           /\ \A t \in ToSet(k.wait[Ev]) : k.err[t] = "EOK"
           /\ \A t \in Thread : pc[t] \in Waiting => req[t] \in Requests
<1>1. Ev \in Obj BY EventAssumption
<1>2. k \in KState /\ ThreadsOK /\ KernelOK(k, {})
  BY DEF Inductive, NoMissedEvent, TypeOK, ThreadsOK
<1>3. k.wait \in [Obj -> Seq(Thread)] /\ k.err \in [Thread -> Err] BY <1>2 DEF KState
<1>4. k.wait[Ev] \in Seq(Thread) /\ IsInjective(k.wait[Ev])
  BY <1>1, <1>2, <1>3 DEF KernelOK, WaitListsOK
<1>5. /\ \A o \in Obj \ {Ev} : k.wait[o] = << >>
      /\ \A t \in ToSet(k.wait[Ev]) : k.err[t] = "EOK"
      /\ \A t \in Thread : pc[t] \in Waiting => req[t] \in Requests
  BY DEF Inductive, Asking, Blocked, Waiting
<1>6. /\ pc \in [Thread -> EventPC] /\ isr \in {"none", "timers"} /\ set \subseteq Bits
      /\ eset \in [Thread -> SUBSET Bits] /\ req \in [Thread -> Requests \cup {NoRequest}]
      /\ alive \in BOOLEAN /\ Delivered
      /\ \A t \in ToSet(k.wait[Ev]) : ~Meets(set, req[t].want, req[t].and)
  BY DEF Inductive, NoMissedEvent, TypeOK
<1> QED BY <1>1, <1>2, <1>3, <1>4, <1>5, <1>6

\* A thread on the suspend list.
LEMMA WaiterFacts ==
    ASSUME Inductive, NEW t \in ToSet(k.wait[Ev])
    PROVE  /\ t \in Thread /\ t # Idle /\ pc[t] \in Waiting /\ req[t] \in Requests
           /\ eset[t] = req[t].want /\ k.err[t] = "EOK" /\ k.stat[t] = "SUSPEND"
<1>1. t \in Thread BY Now, EmptyFacts
<1>2. pc[t] \in Waiting BY <1>1, Now DEF ThreadsOK, Blocked, Waiting
<1>3. t # Idle BY <1>2, Now DEF ThreadsOK, Waiting
<1>4. eset[t] = req[t].want BY <1>1, <1>2, <1>3, Now DEF Delivered, Blocked, Waiting, Worker
<1>5. k.stat[t] = "SUSPEND" BY Now DEF KernelOK, WaitListsOK
<1> QED BY <1>1, <1>2, <1>3, <1>4, <1>5, Now

\* The action of ConsumedOnce.
ConsumedStep ==
    \A t \in Woken : req[t].clear =>
        /\ eset'[t] \cap set' = {}
        /\ \A u \in Woken \ {t} : req[u].clear => eset'[t] \cap eset'[u] = {}

\* The types of a step.
Typed ==
    /\ k' \in KState /\ pc' \in [Thread -> EventPC] /\ isr' \in {"none", "timers"}
    /\ set' \subseteq Bits /\ eset' \in [Thread -> SUBSET Bits]
    /\ req' \in [Thread -> Requests \cup {NoRequest}] /\ alive' \in BOOLEAN

\* Steps in which threads leave the suspend list only with an error, bits are
\* only cleared, and no request of a waiting thread changes.
LEMMA QuietOK ==
    ASSUME Inductive, Typed, ThreadsOK',
           \A o \in Obj \ {Ev} : k'.wait[o] = << >>,
           ToSet(k'.wait[Ev]) \subseteq ToSet(k.wait[Ev]),
           \A u \in Thread : pc'[u] \in Waiting =>
               pc[u] \in Waiting /\ eset'[u] = eset[u] /\ req'[u] = req[u],
           \A u \in ToSet(k.wait[Ev]) \ ToSet(k'.wait[Ev]) : k'.err[u] # "EOK",
           \A u \in Thread : pc[u] \in Waiting =>
               u \in ToSet(k.wait[Ev]) \ ToSet(k'.wait[Ev]) \/ k'.err[u] = k.err[u],
           set' \subseteq set
    PROVE  Inductive' /\ ConsumedStep
<1>1. \A u \in ToSet(k'.wait[Ev]) :
         /\ u \in ToSet(k.wait[Ev]) /\ u \in Thread /\ pc'[u] \in Waiting /\ pc[u] \in Waiting
         /\ k.err[u] = "EOK"
  <2> SUFFICES ASSUME NEW u \in ToSet(k'.wait[Ev])
               PROVE  /\ u \in ToSet(k.wait[Ev]) /\ u \in Thread /\ pc'[u] \in Waiting
                      /\ pc[u] \in Waiting /\ k.err[u] = "EOK"
    OBVIOUS
  <2>1. u \in ToSet(k.wait[Ev]) OBVIOUS
  <2>2. u \in Thread /\ pc[u] \in Waiting /\ k.err[u] = "EOK" BY <2>1, WaiterFacts
  <2>3. pc'[u] \in Waiting BY <2>2, Now DEF ThreadsOK, Blocked, Waiting
  <2> QED BY <2>1, <2>2, <2>3
<1>2. NoMissedEvent'
  <2>1. TypeOK' BY DEF TypeOK, Typed
  <2>2. ASSUME NEW u \in ToSet(k'.wait[Ev]) PROVE ~Meets(set', req'[u].want, req'[u].and)
    <3>1. req'[u] = req[u] /\ ~Meets(set, req[u].want, req[u].and) BY <1>1, Now
    <3> QED BY <3>1, MeetsMore
  <2> QED BY <2>1, <2>2 DEF NoMissedEvent
<1>3. Delivered'
  <2> SUFFICES ASSUME NEW u \in Worker, pc'[u] \in Waiting
               PROVE  IF u \in ToSet(k'.wait[Ev]) \/ k'.err[u] # "EOK"
                      THEN eset[u] = req[u].want
                      ELSE /\ eset[u] # {} /\ eset[u] \subseteq req[u].want
                           /\ req[u].and => eset[u] = req[u].want
    BY DEF Delivered, Blocked, Waiting, Worker
  <2>1. u \in Thread /\ pc[u] \in Waiting BY DEF Worker
  <2>2. CASE u \in ToSet(k.wait[Ev])
    <3>1. eset[u] = req[u].want BY <2>2, WaiterFacts
    <3> QED BY <2>1, <2>2, <3>1
  <2>3. CASE u \notin ToSet(k.wait[Ev])
    <3>1. k'.err[u] = k.err[u] /\ u \notin ToSet(k'.wait[Ev]) BY <1>1, <2>1, <2>3
    <3> QED BY <2>1, <2>3, <3>1, Now DEF Delivered, Blocked, Waiting
  <2> QED BY <2>2, <2>3
<1>4. Asking'
  <2>1. \A u \in ToSet(k'.wait[Ev]) : k'.err[u] = "EOK" BY <1>1
  <2>2. \A u \in Thread : pc'[u] \in Waiting => req'[u] \in Requests BY Now
  <2> QED BY <2>1, <2>2 DEF Asking, Blocked, Waiting
<1>5. ConsumedStep BY DEF ConsumedStep, Woken
<1> QED BY <1>2, <1>3, <1>4, <1>5 DEF Inductive

\* What the thread that makes a call finds.
LEMMA CallFacts ==
    ASSUME Inductive, NEW t \in Thread, Calling(t)
    PROVE  /\ t = k.cur /\ t # Idle /\ pc[t] = "run" /\ pc[t] \notin Waiting
           /\ \A o \in Obj : t \notin ToSet(k.wait[o])
<1>1. t = k.cur /\ t # Idle /\ pc[t] = "run" BY DEF Calling, Worker, Executing
<1>2. \A o \in Obj : t \notin ToSet(k.wait[o]) BY <1>1, Now, CurrentRuns
<1> QED BY <1>1, <1>2 DEF Waiting

-----------------------------------------------------------------------------
(* The loop of rt_event_send *)

SendState == [k : KState, set : SUBSET Bits, eset : [Thread -> SUBSET Bits]]

\* The threads the loop has woken so far.
Gone(s) == ToSet(k.wait[Ev]) \ ToSet(s.k.wait[Ev])

\* After n turns: the threads that are not woken have what they had, and of these
\* the ones that the loop has passed are not met by the bits that are left; each
\* woken thread has bits it asked for, and if it clears them nobody else has.
LoopOK(s, n) ==
    /\ s \in SendState /\ Effect(k, s.k, Gone(s)) /\ s.k.err = k.err
    /\ ToSet(s.k.wait[Ev]) \subseteq ToSet(k.wait[Ev])
    /\ \A o \in Obj \ {Ev} : s.k.wait[o] = << >>
    /\ \A t \in Thread \ Gone(s) : s.eset[t] = eset[t]
    /\ \A j \in n + 1 .. Len(k.wait[Ev]) : k.wait[Ev][j] \notin Gone(s)
    /\ \A j \in 1 .. n : k.wait[Ev][j] \notin Gone(s) =>
          ~Meets(s.set, eset[k.wait[Ev][j]], req[k.wait[Ev][j]].and)
    /\ \A t \in Gone(s) :
          /\ s.eset[t] # {} /\ s.eset[t] \subseteq eset[t]
          /\ req[t].and => s.eset[t] = eset[t]
          /\ req[t].clear =>
                /\ s.eset[t] \cap s.set = {}
                /\ \A u \in Gone(s) \ {t} : req[u].clear => s.eset[t] \cap s.eset[u] = {}

LEMMA LoopInit ==
    ASSUME Inductive, NEW b \in SUBSET Bits
    PROVE  LoopOK([k |-> k, set |-> set \cup b, eset |-> eset], 0)
<1> DEFINE s == [k |-> k, set |-> set \cup b, eset |-> eset]
<1>1. s \in SendState BY Now DEF SendState
<1>2. s.k = k /\ s.eset = eset OBVIOUS
<1> HIDE DEF s
<1>3. Gone(s) = {} BY <1>2 DEF Gone
<1>4. Effect(k, k, {})
  <2>1. k.timer \ {} = k.timer OBVIOUS
  <2> QED BY <2>1, Now DEF Effect, Woke
<1>5. \A o \in Obj \ {Ev} : k.wait[o] = << >> BY Now
<1>6. LoopOK(s, 0) BY <1>1, <1>2, <1>3, <1>4, <1>5 DEF LoopOK
<1> QED BY <1>6 DEF s

\* A turn in which the request is met.
LEMMA TurnMet ==
    ASSUME Inductive, NEW n \in Nat, n < Len(k.wait[Ev]), NEW s, LoopOK(s, n),
           Meets(s.set, s.eset[k.wait[Ev][n + 1]], req[k.wait[Ev][n + 1]].and)
    PROVE  LoopOK(SendTurn(s, k.wait[Ev][n + 1]), n + 1)
<1> DEFINE w == k.wait[Ev]
           t == w[n + 1]
           got == s.eset[t] \cap s.set
           c == rt_thread_resume(s.k, t)
           b == SendTurn(s, t)
<1>1. n + 1 \in 1 .. Len(w) /\ w \in Seq(Thread) /\ IsInjective(w) BY Now
<1>2. t \in Thread /\ t \in ToSet(w) BY <1>1 DEF ToSet
<1>3. n + 1 \in n + 1 .. Len(w) BY <1>1
<1>4. t \notin Gone(s) /\ t \in ToSet(s.k.wait[Ev]) BY <1>2, <1>3 DEF LoopOK, Gone
<1>5. /\ s \in SendState /\ s.k \in KState /\ KernelOK(s.k, {}) /\ s.k.err = k.err
      /\ Effect(k, s.k, Gone(s)) /\ s.eset[t] = eset[t]
  BY <1>2, <1>4 DEF LoopOK, Effect, Woke
<1>6. s.k.stat[t] = "SUSPEND" BY <1>4, <1>5, Now DEF KernelOK, WaitListsOK
<1>7. Effect(s.k, c, {t}) /\ c.wait = WaitWithout(s.k, t) /\ c.err = k.err
  BY <1>2, <1>5, <1>6, ResumeEffect
<1>8. /\ b.k = c /\ b.eset = [s.eset EXCEPT ![t] = got]
      /\ b.set = IF req[t].clear THEN s.set \ got ELSE s.set
      /\ b \in SendState
  <2>1. c \in KState BY <1>7 DEF Effect, Woke
  <2>2. b = [s EXCEPT !.k = c, !.eset[t] = got, !.set = IF req[t].clear THEN @ \ got ELSE @]
    BY DEF SendTurn
  <2> HIDE DEF b, c
  <2>3. s.eset \in [Thread -> SUBSET Bits] /\ s.set \in SUBSET Bits BY <1>5 DEF SendState
  <2> QED BY <1>2, <1>5, <2>1, <2>2, <2>3 DEF SendState
<1>9. \A o \in Obj : ToSet(c.wait[o]) = ToSet(s.k.wait[o]) \ {t}
                     /\ c.wait[o] = RemoveFirst(s.k.wait[o], t)
  <2>1. \A o \in Obj : /\ WaitWithout(s.k, t)[o] = RemoveFirst(s.k.wait[o], t)
                       /\ ToSet(WaitWithout(s.k, t)[o]) = ToSet(s.k.wait[o]) \ {t}
    BY <1>5, InWaitWithout
  <2> QED BY <1>7, <2>1
<1> HIDE DEF c, b
<1>10. Gone(b) = Gone(s) \cup {t} BY <1>2, <1>8, <1>9, Now DEF Gone
<1>11. Effect(k, b.k, Gone(b)) BY <1>5, <1>7, <1>8, <1>10, EffectTrans
<1>12. ToSet(b.k.wait[Ev]) \subseteq ToSet(k.wait[Ev])
  <2>1. ToSet(s.k.wait[Ev]) \subseteq ToSet(k.wait[Ev]) BY DEF LoopOK
  <2> QED BY <1>8, <1>9, <2>1, Now
<1>13. \A o \in Obj \ {Ev} : b.k.wait[o] = << >>
  <2>1. RemoveFirst(<< >>, t) = << >>
    <3>1. << >> \in Seq(Thread) OBVIOUS
    <3>2. t \notin ToSet(<< >>) BY <3>1, EmptyFacts
    <3> QED BY <3>1, <3>2, RemoveAbsent
  <2> QED BY SMTT(30), <1>8, <1>9, <2>1 DEF LoopOK
<1>14. \A u \in Thread \ {t} : b.eset[u] = s.eset[u] BY <1>5, <1>8 DEF SendState
<1>15. b.eset[t] = got BY <1>2, <1>5, <1>8 DEF SendState
<1>16. b.set \subseteq s.set BY <1>8
<1>17. \A u \in Thread \ Gone(b) : b.eset[u] = eset[u] BY <1>10, <1>14 DEF LoopOK
<1>18. \A j \in 1 .. Len(w) : j # n + 1 => w[j] # t BY <1>1 DEF IsInjective
<1>19. \A j \in n + 1 + 1 .. Len(w) : w[j] \notin Gone(b)
  <2> SUFFICES ASSUME NEW j \in n + 1 + 1 .. Len(w) PROVE w[j] \notin Gone(b) OBVIOUS
  <2>1. j \in n + 1 .. Len(w) /\ j \in 1 .. Len(w) /\ j # n + 1 BY <1>1
  <2> QED BY <1>10, <1>18, <2>1 DEF LoopOK
<1>20. \A j \in 1 .. n + 1 : w[j] \notin Gone(b) => ~Meets(b.set, eset[w[j]], req[w[j]].and)
  <2> SUFFICES ASSUME NEW j \in 1 .. n + 1, w[j] \notin Gone(b)
               PROVE  ~Meets(b.set, eset[w[j]], req[w[j]].and)
    OBVIOUS
  <2>1. j # n + 1 BY <1>10
  <2>2. j \in 1 .. n BY <2>1
  <2>3. ~Meets(s.set, eset[w[j]], req[w[j]].and) BY <1>10, <2>2 DEF LoopOK
  <2> QED BY <1>16, <2>3, MeetsMore
<1>21. req[t] \in Requests /\ eset[t] = req[t].want BY <1>2, WaiterFacts
<1>22. got # {} /\ got \subseteq eset[t] /\ (req[t].and => got = eset[t])
  <2>1. eset[t] # {} BY <1>21, RequestFacts
  <2> QED BY <1>5, <2>1 DEF Meets
<1>23. \A u \in Gone(s) : u \in Thread /\ u # t
  BY <1>1, <1>4, EmptyFacts DEF Gone
<1>24. \A u \in Gone(b) :
          /\ b.eset[u] # {} /\ b.eset[u] \subseteq eset[u]
          /\ req[u].and => b.eset[u] = eset[u]
  <2> SUFFICES ASSUME NEW u \in Gone(b)
               PROVE  /\ b.eset[u] # {} /\ b.eset[u] \subseteq eset[u]
                      /\ req[u].and => b.eset[u] = eset[u]
    OBVIOUS
  <2>1. CASE u = t BY <1>15, <1>22, <2>1
  <2>2. CASE u # t
    <3>1. u \in Gone(s) /\ b.eset[u] = s.eset[u] BY <1>10, <1>14, <1>23, <2>2
    <3> QED BY <3>1 DEF LoopOK
  <2> QED BY <2>1, <2>2
<1>25. \A u \in Gone(s) : req[u].clear => b.eset[u] \cap s.set = {} /\ b.eset[u] \cap got = {}
  <2> SUFFICES ASSUME NEW u \in Gone(s), req[u].clear
               PROVE  b.eset[u] \cap s.set = {} /\ b.eset[u] \cap got = {}
    OBVIOUS
  <2>1. b.eset[u] = s.eset[u] /\ s.eset[u] \cap s.set = {} BY <1>14, <1>23 DEF LoopOK
  <2> QED BY <2>1
<1>26. \A u \in Gone(b) : req[u].clear =>
          /\ b.eset[u] \cap b.set = {}
          /\ \A v \in Gone(b) \ {u} : req[v].clear => b.eset[u] \cap b.eset[v] = {}
  <2> SUFFICES ASSUME NEW u \in Gone(b), req[u].clear
               PROVE  /\ b.eset[u] \cap b.set = {}
                      /\ \A v \in Gone(b) \ {u} : req[v].clear => b.eset[u] \cap b.eset[v] = {}
    OBVIOUS
  <2>1. CASE u = t
    <3>1. b.set = s.set \ got BY <1>8, <2>1
    <3>2. b.eset[u] \cap b.set = {} BY <1>15, <2>1, <3>1
    <3>3. \A v \in Gone(b) \ {u} : req[v].clear => b.eset[v] \cap got = {} BY <1>10, <1>25, <2>1
    <3> QED BY <1>15, <2>1, <3>2, <3>3
  <2>2. CASE u # t
    <3>1. u \in Gone(s) BY <1>10, <2>2
    <3>2. b.eset[u] \cap b.set = {} BY <1>16, <1>25, <3>1
    <3>3. ASSUME NEW v \in Gone(b) \ {u}, req[v].clear PROVE b.eset[u] \cap b.eset[v] = {}
      <4>1. CASE v = t BY <1>15, <1>25, <3>1, <4>1
      <4>2. CASE v # t
        <5>1. v \in Gone(s) \ {u} BY <1>10, <4>2
        <5>2. s.eset[u] \cap s.eset[v] = {} BY <3>1, <3>3, <5>1 DEF LoopOK
        <5> QED BY <1>14, <1>23, <3>1, <5>1, <5>2
      <4> QED BY <4>1, <4>2
    <3> QED BY <3>2, <3>3
  <2> QED BY <2>1, <2>2
<1>27. b.k.err = k.err BY <1>7, <1>8
<1>28. LoopOK(b, n + 1)
  BY <1>8, <1>11, <1>12, <1>13, <1>17, <1>19, <1>20, <1>24, <1>26, <1>27 DEF LoopOK
<1> QED BY <1>28 DEF b

\* A turn in which it is not.
LEMMA TurnUnmet ==
    ASSUME Inductive, NEW n \in Nat, n < Len(k.wait[Ev]), NEW s, LoopOK(s, n),
           ~Meets(s.set, s.eset[k.wait[Ev][n + 1]], req[k.wait[Ev][n + 1]].and)
    PROVE  LoopOK(SendTurn(s, k.wait[Ev][n + 1]), n + 1)
<1> DEFINE w == k.wait[Ev]
           t == w[n + 1]
<1>1. n + 1 \in 1 .. Len(w) /\ w \in Seq(Thread) BY Now
<1>2. t \in Thread /\ n + 1 \in n + 1 .. Len(w) BY <1>1
<1>3. t \notin Gone(s) BY <1>2 DEF LoopOK
<1>4. s.eset[t] = eset[t] BY <1>2, <1>3 DEF LoopOK
<1>5. \A j \in n + 1 + 1 .. Len(w) : w[j] \notin Gone(s)
  <2>1. \A j \in n + 1 + 1 .. Len(w) : j \in n + 1 .. Len(w) BY <1>1
  <2> QED BY <2>1 DEF LoopOK
<1>6. \A j \in 1 .. n + 1 : w[j] \notin Gone(s) => ~Meets(s.set, eset[w[j]], req[w[j]].and)
  <2> SUFFICES ASSUME NEW j \in 1 .. n + 1, w[j] \notin Gone(s)
               PROVE  ~Meets(s.set, eset[w[j]], req[w[j]].and)
    OBVIOUS
  <2>1. CASE j = n + 1 BY <1>4, <2>1
  <2>2. CASE j # n + 1
    <3>1. j \in 1 .. n BY <2>2
    <3> QED BY <3>1 DEF LoopOK
  <2> QED BY <2>1, <2>2
<1>7. SendTurn(s, t) = s BY DEF SendTurn
<1>8. LoopOK(s, n + 1) BY <1>5, <1>6 DEF LoopOK
<1> QED BY <1>7, <1>8


\* The recursive function behind Sent exists.
SendsOf(f, s, N) == [n \in 0 .. N |-> IF n = 0 THEN s ELSE SendTurn(f[n - 1], k.wait[Ev][n])]

LEMMA SendTurns ==
    ASSUME NEW s, NEW N \in Nat
    PROVE  \E f : f = SendsOf(f, s, N)
<1> DEFINE P == {m \in Nat : \E f : f = SendsOf(f, s, m)}
<1>1. 0 \in P
  <2> DEFINE f == [n \in 0 .. 0 |-> s]
  <2>1. f = SendsOf(f, s, 0) BY DEF SendsOf
  <2> QED BY <2>1
<1>2. ASSUME NEW m \in P PROVE m + 1 \in P
  <2>0. PICK f : f = SendsOf(f, s, m) OBVIOUS
  <2>1. f = [n \in 0 .. m |-> IF n = 0 THEN s ELSE SendTurn(f[n - 1], k.wait[Ev][n])]
    BY <2>0 DEF SendsOf
  <2> DEFINE last == SendTurn(f[m], k.wait[Ev][m + 1])
             g == [n \in 0 .. m + 1 |-> IF n = m + 1 THEN last ELSE f[n]]
  <2>2. ASSUME NEW n \in 0 .. m + 1
        PROVE  g[n] = IF n = 0 THEN s ELSE SendTurn(g[n - 1], k.wait[Ev][n])
    <3>1. CASE n = m + 1
      <4>1. n # 0 /\ n - 1 = m /\ m \in 0 .. m + 1 /\ m # m + 1 BY <3>1
      <4>2. g[n] = last /\ g[m] = f[m] BY <3>1, <4>1
      <4> QED BY <3>1, <4>1, <4>2
    <3>2. CASE n # m + 1 /\ n # 0
      <4>1. n \in 0 .. m /\ n - 1 \in 0 .. m + 1 /\ n - 1 # m + 1 BY <3>2
      <4>2. g[n] = f[n] /\ g[n - 1] = f[n - 1] BY <3>2, <4>1
      <4>3. f[n] = SendTurn(f[n - 1], k.wait[Ev][n]) BY <2>1, <3>2, <4>1
      <4> QED BY <3>2, <4>2, <4>3
    <3>3. CASE n = 0
      <4>1. g[0] = f[0] /\ f[0] = s
        <5>1. 0 \in 0 .. m /\ 0 \in 0 .. m + 1 /\ 0 # m + 1 OBVIOUS
        <5> QED BY <2>1, <5>1
      <4> QED BY <3>3, <4>1
    <3> QED BY <3>1, <3>2, <3>3
  <2>3. g = SendsOf(g, s, m + 1) BY <2>2 DEF SendsOf
  <2> HIDE DEF g
  <2>4. m + 1 \in Nat OBVIOUS
  <2> QED BY <2>3, <2>4
<1>3. P \in SUBSET Nat OBVIOUS
<1> HIDE DEF P
<1>4. P = Nat BY <1>1, <1>2, <1>3, NatInduct
<1> QED BY <1>4 DEF P

\* The region of rt_event_send.
LEMMA SentEffect ==
    ASSUME Inductive, NEW b \in SUBSET Bits
    PROVE  LoopOK(Sent(b), Len(k.wait[Ev]))
<1> DEFINE N == Len(k.wait[Ev])
           s == [k |-> k, set |-> set \cup b, eset |-> eset]
           f == CHOOSE g : g = SendsOf(g, s, N)
           P == {n \in Nat : n <= N => LoopOK(f[n], n)}
<1>1. N \in Nat BY Now
<1>2. f = SendsOf(f, s, N)
  <2>1. \E g : g = SendsOf(g, s, N) BY <1>1, SendTurns
  <2> QED BY <2>1
<1>3. Sent(b) = f[N] BY DEF Sent, SendsOf
<1> HIDE DEF f
<1>4. f[0] = s /\ \A n \in 0 .. N : n # 0 => f[n] = SendTurn(f[n - 1], k.wait[Ev][n])
  <2>1. 0 \in 0 .. N BY <1>1
  <2> QED BY <1>2, <2>1 DEF SendsOf
<1>5. 0 \in P BY <1>4, LoopInit
<1>6. ASSUME NEW n \in P PROVE n + 1 \in P
  <2> SUFFICES ASSUME n + 1 <= N PROVE LoopOK(f[n + 1], n + 1) OBVIOUS
  <2>1. n \in Nat /\ n < N /\ n + 1 \in 0 .. N /\ n + 1 # 0 /\ (n + 1) - 1 = n BY <1>1, <1>6
  <2>2. LoopOK(f[n], n) BY <1>1, <1>6, <2>1
  <2>3. f[n + 1] = SendTurn(f[n], k.wait[Ev][n + 1]) BY <1>4, <2>1
  <2>4. LoopOK(SendTurn(f[n], k.wait[Ev][n + 1]), n + 1) BY <2>1, <2>2, TurnMet, TurnUnmet
  <2> QED BY <2>3, <2>4
<1>7. P \in SUBSET Nat OBVIOUS
<1> HIDE DEF P
<1>8. P = Nat BY <1>5, <1>6, <1>7, NatInduct
<1>9. LoopOK(f[N], N) BY <1>1, <1>8 DEF P
<1> QED BY <1>3, <1>9

\* A send, by whoever makes it.
LEMMA SentOK ==
    ASSUME Inductive, Typed, ThreadsOK', NEW s, LoopOK(s, Len(k.wait[Ev])),
           k'.wait = s.k.wait, k'.err = s.k.err, set' = s.set, eset' = s.eset, req' = req,
           \A u \in Thread : pc'[u] \in Waiting <=> pc[u] \in Waiting
    PROVE  Inductive' /\ ConsumedStep
<1>1. /\ k'.err = k.err /\ ToSet(k'.wait[Ev]) = ToSet(k.wait[Ev]) \ Gone(s)
      /\ Gone(s) \subseteq ToSet(k.wait[Ev])
      /\ \A o \in Obj \ {Ev} : k'.wait[o] = << >>
  BY DEF LoopOK, Gone
<1>2. \A u \in ToSet(k'.wait[Ev]) :
         /\ u \in ToSet(k.wait[Ev]) /\ u \in Thread /\ u \notin Gone(s) /\ eset'[u] = eset[u]
  <2>1. ToSet(k.wait[Ev]) \subseteq Thread BY WaiterFacts
  <2> QED BY <1>1, <2>1 DEF LoopOK
<1>3. NoMissedEvent'
  <2>1. TypeOK' BY DEF TypeOK, Typed
  <2>2. ASSUME NEW u \in ToSet(k'.wait[Ev]) PROVE ~Meets(set', req[u].want, req[u].and)
    <3>1. u \in ToSet(k.wait[Ev]) /\ u \notin Gone(s) BY <1>2
    <3>2. PICK j \in 1 .. Len(k.wait[Ev]) : k.wait[Ev][j] = u BY <3>1 DEF ToSet
    <3>3. ~Meets(s.set, eset[u], req[u].and) BY <3>1, <3>2 DEF LoopOK
    <3>4. eset[u] = req[u].want BY <3>1, WaiterFacts
    <3> QED BY <3>3, <3>4
  <2> QED BY <2>1, <2>2 DEF NoMissedEvent
<1>4. Delivered'
  <2> SUFFICES ASSUME NEW u \in Worker, pc'[u] \in Waiting
               PROVE  IF u \in ToSet(k'.wait[Ev]) \/ k'.err[u] # "EOK"
                      THEN eset'[u] = req[u].want
                      ELSE /\ eset'[u] # {} /\ eset'[u] \subseteq req[u].want
                           /\ req[u].and => eset'[u] = req[u].want
    BY DEF Delivered, Blocked, Waiting, Worker
  <2>1. u \in Thread /\ pc[u] \in Waiting BY DEF Worker
  <2>2. CASE u \in Gone(s)
    <3>1. u \in ToSet(k.wait[Ev]) /\ u \notin ToSet(k'.wait[Ev]) BY <1>1, <2>2
    <3>2. eset[u] = req[u].want /\ k.err[u] = "EOK" BY <3>1, WaiterFacts
    <3> QED BY <1>1, <2>2, <3>1, <3>2 DEF LoopOK
  <2>3. CASE u \notin Gone(s)
    <3>1. eset'[u] = eset[u] BY <2>1, <2>3 DEF LoopOK
    <3>2. u \in ToSet(k'.wait[Ev]) <=> u \in ToSet(k.wait[Ev]) BY <1>1, <2>3
    <3> QED BY <1>1, <2>1, <3>1, <3>2, Now DEF Delivered, Blocked, Waiting
  <2> QED BY <2>2, <2>3
<1>5. Asking' BY <1>1, <1>2, Now DEF Asking, Blocked, Waiting
<1>6. Woken \subseteq Gone(s) BY <1>1 DEF Woken
<1>7. ConsumedStep
  <2> SUFFICES ASSUME NEW t \in Woken, req[t].clear
               PROVE  /\ eset'[t] \cap set' = {}
                      /\ \A u \in Woken \ {t} : req[u].clear => eset'[t] \cap eset'[u] = {}
    BY DEF ConsumedStep
  <2>1. t \in Gone(s) BY <1>6
  <2>2. /\ s.eset[t] \cap s.set = {}
        /\ \A u \in Gone(s) \ {t} : req[u].clear => s.eset[t] \cap s.eset[u] = {}
    BY <2>1 DEF LoopOK
  <2> QED BY <1>6, <2>2
<1> QED BY <1>3, <1>4, <1>5, <1>7 DEF Inductive

\* rt_event_send by a thread and by an interrupt handler.
LEMMA SendOK ==
    ASSUME Inductive, NEW t \in Thread, NEW b \in SUBSET Bits, Send(t, b)
    PROVE  Inductive' /\ ConsumedStep
<1> DEFINE s == Sent(b)
<1>0. /\ Call(t) /\ k' = s.k /\ set' = s.set /\ eset' = s.eset
      /\ pc' = (IF s.k # k THEN [pc EXCEPT ![t] = "sched"] ELSE pc)
      /\ isr' = isr /\ req' = req /\ alive' = alive
  BY DEF Send, Goto
<1>1. t = k.cur /\ t # Idle /\ pc[t] = "run" /\ pc[t] \notin Waiting
  BY <1>0, CallFacts DEF Call
<1>2. LoopOK(s, Len(k.wait[Ev])) BY SentEffect
<1> HIDE DEF s
<1>3. /\ s \in SendState /\ Woke(k, k', Gone(s)) /\ Gone(s) \in SUBSET Thread
      /\ ToSet(k'.wait[Ev]) = ToSet(k.wait[Ev]) \ Gone(s)
      /\ \A o \in Obj \ {Ev} : k'.wait[o] = << >>
  <2>1. ToSet(k.wait[Ev]) \subseteq Thread BY WaiterFacts
  <2> QED BY <1>0, <1>2, <2>1 DEF LoopOK, Effect, Gone
<1>4. pc' \in [Thread -> EventPC] /\ (\A u \in Thread : pc'[u] \in Waiting <=> pc[u] \in Waiting)
  BY <1>0, <1>1, Now DEF EventPC, Waiting
<1>5. /\ \A u \in Thread, o \in Obj : u \in ToSet(k'.wait[o]) => u \in ToSet(k.wait[o])
      /\ \A u \in Thread \ Gone(s), o \in Obj : u \in ToSet(k.wait[o]) => u \in ToSet(k'.wait[o])
  BY <1>3, Now
<1>6. ThreadsOK'
  <2>1. CASE pc' = pc BY <1>3, <1>5, <2>1, Now, WakeStep
  <2>2. CASE pc' = [pc EXCEPT ![t] = "sched"]
    <3>1. pc[t] \notin {"sleep", "wait"} BY <1>1
    <3> QED BY <1>1, <1>3, <1>5, <2>2, <3>1, Now, MoveStep
  <2> QED BY <1>0, <2>1, <2>2
<1>7. Typed BY <1>0, <1>3, <1>4, Now DEF Typed, SendState
<1> QED BY <1>0, <1>2, <1>4, <1>6, <1>7, SentOK

LEMMA IsrSendOK ==
    ASSUME Inductive, NEW b \in SUBSET Bits, IsrSend(b)
    PROVE  Inductive' /\ ConsumedStep
<1> DEFINE s == Sent(b)
<1>0. /\ k' = (IF s.k # k THEN rt_schedule(s.k) ELSE k) /\ set' = s.set /\ eset' = s.eset
      /\ pc' = pc /\ isr' = isr /\ req' = req /\ alive' = alive
  BY DEF IsrSend
<1>1. LoopOK(s, Len(k.wait[Ev])) BY SentEffect
<1> HIDE DEF s
<1>2. /\ s \in SendState /\ s.k \in KState /\ KernelOK(s.k, {}) /\ Woke(k, s.k, Gone(s))
      /\ Gone(s) \in SUBSET Thread
      /\ ToSet(s.k.wait[Ev]) = ToSet(k.wait[Ev]) \ Gone(s)
      /\ \A o \in Obj \ {Ev} : s.k.wait[o] = << >>
  <2>1. ToSet(k.wait[Ev]) \subseteq Thread BY WaiterFacts
  <2> QED BY <1>1, <2>1 DEF LoopOK, Effect, Woke, Gone
<1>3. Woke(k, k', Gone(s)) /\ k'.wait = s.k.wait /\ k'.err = s.k.err
  <2>1. CASE s.k # k
    <3>1. k' = rt_schedule(s.k) BY <1>0, <2>1
    <3>2. Woke(s.k, k', {}) /\ k'.wait = s.k.wait /\ k'.err = s.k.err
      BY <1>2, <3>1, ScheduleEffect DEF Effect
    <3>3. Woke(k, k', Gone(s) \cup {}) BY <1>2, <3>2, WokeTrans
    <3>4. Gone(s) \cup {} = Gone(s) OBVIOUS
    <3> QED BY <3>2, <3>3, <3>4
  <2>2. CASE s.k = k BY <1>0, <1>2, <2>2
  <2> QED BY <2>1, <2>2
<1>4. /\ \A u \in Thread, o \in Obj : u \in ToSet(k'.wait[o]) => u \in ToSet(k.wait[o])
      /\ \A u \in Thread \ Gone(s), o \in Obj : u \in ToSet(k.wait[o]) => u \in ToSet(k'.wait[o])
  BY <1>2, <1>3, Now
<1>5. k' \in KState /\ ThreadsOK' BY <1>0, <1>2, <1>3, <1>4, Now, WakeStep
<1>6. Typed BY <1>0, <1>2, <1>5, Now DEF Typed, SendState
<1> QED BY <1>0, <1>1, <1>3, <1>5, <1>6, SentOK

\* A thread that waits leaves the list with an error.
LEMMA LeaveOK ==
    ASSUME Inductive, Typed, ThreadsOK', NEW t \in ToSet(k.wait[Ev]), NEW x, x # "EOK",
           k'.wait = WaitWithout(k, t), k'.err = [k.err EXCEPT ![t] = x],
           \A u \in Thread : pc'[u] \in Waiting => pc[u] \in Waiting,
           eset' = eset, req' = req, set' = set
    PROVE  Inductive' /\ ConsumedStep
<1>1. \A o \in Obj : /\ WaitWithout(k, t)[o] = RemoveFirst(k.wait[o], t)
                     /\ ToSet(WaitWithout(k, t)[o]) = ToSet(k.wait[o]) \ {t}
  BY Now, InWaitWithout
<1>2. RemoveFirst(<< >>, t) = << >>
  <2>1. << >> \in Seq(Thread) OBVIOUS
  <2>2. t \notin ToSet(<< >>) BY <2>1, EmptyFacts
  <2> QED BY <2>1, <2>2, RemoveAbsent
<1>3. /\ ToSet(k'.wait[Ev]) = ToSet(k.wait[Ev]) \ {t}
      /\ \A o \in Obj \ {Ev} : k'.wait[o] = << >>
  BY <1>1, <1>2, Now
<1>4. t \in Thread BY WaiterFacts
<1>5. k'.err[t] = x /\ \A u \in Thread \ {t} : k'.err[u] = k.err[u] BY <1>4, Now
<1> QED BY <1>3, <1>4, <1>5, QuietOK

-----------------------------------------------------------------------------
(* The other calls *)

\* Steps that leave the suspend list and the error codes of waiting threads.
LEMMA StillOK ==
    ASSUME Inductive, Typed, ThreadsOK', k'.wait = k.wait,
           \A u \in Thread : pc'[u] \in Waiting =>
               pc[u] \in Waiting /\ eset'[u] = eset[u] /\ req'[u] = req[u],
           \A u \in Thread : pc[u] \in Waiting => k'.err[u] = k.err[u],
           set' \subseteq set
    PROVE  Inductive' /\ ConsumedStep
  BY Now, QuietOK

\* rt_event_recv that does not wait.
LEMMA RecvOK ==
    ASSUME Inductive, NEW t \in Thread, NEW r, Recv(t, r) \/ RecvRefused(t, r)
    PROVE  Inductive' /\ ConsumedStep
<1>0. /\ Call(t) /\ set' \subseteq set /\ pc' = pc /\ isr' = isr /\ eset' = eset /\ req' = req
      /\ alive' = alive
  BY DEF Recv, RecvRefused
<1>1. PICK x \in Err : k' = [k EXCEPT !.err[t] = x] BY DEF Recv, RecvRefused, Err
<1>2. pc[t] \notin Waiting BY <1>0, CallFacts DEF Call
<1>3. Effect(k, k', {}) /\ k'.wait = k.wait /\ k'.err = [k.err EXCEPT ![t] = x]
  BY <1>1, Now, ErrorOnly
<1>4. k' \in KState /\ ThreadsOK'
  <2>1. {} \in SUBSET Thread /\ Woke(k, k', {}) BY <1>3 DEF Effect
  <2> QED BY <1>0, <1>3, <2>1, Now, WakeStep
<1>5. \A u \in Thread : pc[u] \in Waiting => k'.err[u] = k.err[u] BY <1>2, <1>3, Now
<1>6. Typed BY <1>0, <1>4, Now DEF Typed
<1> QED BY <1>0, <1>3, <1>4, <1>5, <1>6, StillOK

\* rt_event_recv that waits, up to its rt_schedule.
LEMMA RecvWaitOK ==
    ASSUME Inductive, NEW t \in Thread, NEW r \in Requests, NEW w, RecvWait(t, r, w)
    PROVE  Inductive' /\ ConsumedStep
<1>0. /\ Call(t) /\ ~Meets(set, r.want, r.and) /\ k' = Blocking(k, Ev, t, Flag, w)
      /\ eset' = [eset EXCEPT ![t] = r.want] /\ req' = [req EXCEPT ![t] = r]
      /\ pc' = [pc EXCEPT ![t] = "wait"] /\ isr' = isr /\ set' = set /\ alive' = alive
  BY DEF RecvWait, Goto, Blocking
<1>1. /\ t = k.cur /\ t # Idle /\ pc[t] = "run" /\ pc[t] \notin {"sleep", "wait"}
      /\ \A o \in Obj : t \notin ToSet(k.wait[o])
  BY <1>0, CallFacts DEF Call
<1>2. ThreadsOK' /\ BlockedOn(k, k', Ev, t, Flag, w) BY <1>0, <1>1, Now, WaitStep
<1>3. /\ k' \in KState /\ ToSet(k'.wait[Ev]) = ToSet(k.wait[Ev]) \cup {t}
      /\ k'.err = [k.err EXCEPT ![t] = "EOK"]
      /\ \A o \in Obj \ {Ev} : k'.wait[o] = k.wait[o]
  BY <1>2, Now DEF BlockedOn, Linked
<1>4. k'.err[t] = "EOK" /\ \A u \in Thread \ {t} : k'.err[u] = k.err[u] BY <1>3, Now
<1>5. /\ pc' \in [Thread -> EventPC] /\ pc'[t] = "wait"
      /\ \A u \in Thread \ {t} : pc'[u] = pc[u]
  BY <1>0, Now DEF EventPC
<1>6. /\ eset' \in [Thread -> SUBSET Bits] /\ eset'[t] = r.want
      /\ \A u \in Thread \ {t} : eset'[u] = eset[u]
  <2>1. r.want \in SUBSET Bits BY RequestFacts
  <2> QED BY <1>0, <2>1, Now
<1>7. /\ req' \in [Thread -> Requests \cup {NoRequest}] /\ req'[t] = r
      /\ \A u \in Thread \ {t} : req'[u] = req[u]
  BY <1>0, Now
<1>8. TypeOK' BY <1>0, <1>3, <1>5, <1>6, <1>7, Now DEF TypeOK
<1>9. \A u \in ToSet(k'.wait[Ev]) : u = t \/ (u \in ToSet(k.wait[Ev]) /\ u \in Thread \ {t})
  <2>1. ToSet(k.wait[Ev]) \subseteq Thread BY WaiterFacts
  <2> QED BY <1>3, <2>1
<1>10. NoMissedEvent' BY <1>0, <1>7, <1>8, <1>9, Now DEF NoMissedEvent
<1>11. Delivered'
  <2> SUFFICES ASSUME NEW u \in Worker, pc'[u] \in Waiting
               PROVE  IF u \in ToSet(k'.wait[Ev]) \/ k'.err[u] # "EOK"
                      THEN eset'[u] = req'[u].want
                      ELSE /\ eset'[u] # {} /\ eset'[u] \subseteq req'[u].want
                           /\ req'[u].and => eset'[u] = req'[u].want
    BY DEF Delivered, Blocked, Waiting, Worker
  <2>1. u \in Thread BY DEF Worker
  <2>2. CASE u = t BY <1>3, <1>6, <1>7, <2>2
  <2>3. CASE u # t
    <3>1. /\ pc[u] \in Waiting /\ k'.err[u] = k.err[u] /\ eset'[u] = eset[u] /\ req'[u] = req[u]
          /\ (u \in ToSet(k'.wait[Ev]) <=> u \in ToSet(k.wait[Ev]))
      BY <1>3, <1>4, <1>5, <1>6, <1>7, <2>1, <2>3
    <3> QED BY <3>1, Now DEF Delivered, Blocked, Waiting
  <2> QED BY <2>2, <2>3
<1>12. Asking'
  <2>1. \A o \in Obj \ {Ev} : k'.wait[o] = << >> BY <1>3, Now
  <2>2. \A u \in ToSet(k'.wait[Ev]) : k'.err[u] = "EOK" BY <1>4, <1>9, Now
  <2>3. \A u \in Thread : pc'[u] \in Waiting => req'[u] \in Requests BY <1>5, <1>7, Now
  <2> QED BY <2>1, <2>2, <2>3 DEF Asking, Blocked, Waiting
<1>13. ConsumedStep BY <1>3 DEF ConsumedStep, Woken
<1> QED BY <1>2, <1>10, <1>11, <1>12, <1>13 DEF Inductive

LEMMA RecvReturnOK ==
    ASSUME Inductive, NEW t \in Thread, RecvReturn(t)
    PROVE  Inductive' /\ ConsumedStep
<1>0. /\ t = k.cur /\ pc[t] = "waited" /\ pc' = [pc EXCEPT ![t] = "run"] /\ k' = k
      /\ eset' = [eset EXCEPT ![t] = {}] /\ req' = [req EXCEPT ![t] = NoRequest]
      /\ isr' = isr /\ set' = set /\ alive' = alive
  BY DEF RecvReturn, Executing, Goto
<1>1. t # Idle BY <1>0, Now DEF ThreadsOK
<1>2. ThreadsOK' BY <1>0, <1>1, Now, GotoStep
<1>3. /\ pc' \in [Thread -> EventPC] /\ pc'[t] = "run"
      /\ \A u \in Thread \ {t} : pc'[u] = pc[u]
  BY <1>0, Now DEF EventPC
<1>4. /\ eset' \in [Thread -> SUBSET Bits] /\ \A u \in Thread \ {t} : eset'[u] = eset[u]
  BY <1>0, Now
<1>5. /\ req' \in [Thread -> Requests \cup {NoRequest}]
      /\ \A u \in Thread \ {t} : req'[u] = req[u]
  BY <1>0, Now
<1>6. \A u \in Thread : pc'[u] \in Waiting =>
         pc[u] \in Waiting /\ eset'[u] = eset[u] /\ req'[u] = req[u]
  BY <1>3, <1>4, <1>5 DEF Waiting
<1>7. Typed BY <1>0, <1>3, <1>4, <1>5, Now DEF Typed
<1> QED BY <1>0, <1>2, <1>6, <1>7, StillOK

\* RT_IPC_CMD_RESET.
LEMMA ResetOK ==
    ASSUME Inductive, NEW t \in Thread, Reset(t)
    PROVE  Inductive' /\ ConsumedStep
<1>0. /\ Call(t) /\ k' = ResumeAll(k, Ev) /\ set' = {} /\ pc' = [pc EXCEPT ![t] = "sched"]
      /\ isr' = isr /\ eset' = eset /\ req' = req /\ alive' = alive
  BY DEF Reset, Goto
<1>1. t = k.cur /\ t # Idle /\ pc[t] = "run" /\ pc[t] \notin {"sleep", "wait"}
  BY <1>0, CallFacts DEF Call
<1>2. /\ k' \in KState /\ ThreadsOK' /\ k'.wait = [k.wait EXCEPT ![Ev] = << >>]
      /\ k'.err = [u \in Thread |-> IF u \in ToSet(k.wait[Ev]) THEN "ERROR" ELSE k.err[u]]
  BY <1>0, <1>1, Now, ResumeAllStep
<1>3. /\ pc' \in [Thread -> EventPC] /\ pc'[t] = "sched"
      /\ \A u \in Thread \ {t} : pc'[u] = pc[u]
  BY <1>0, Now DEF EventPC
<1>4. Typed BY <1>0, <1>2, <1>3, Now DEF Typed
<1>5. k'.wait[Ev] = << >> /\ \A o \in Obj \ {Ev} : k'.wait[o] = << >> BY <1>2, Now
<1>6. ToSet(k'.wait[Ev]) = {}
  <2>1. << >> \in Seq(Thread) OBVIOUS
  <2> QED BY <1>5, <2>1, EmptyFacts
<1>7. \A u \in Thread : pc'[u] \in Waiting => pc[u] \in Waiting BY <1>3 DEF Waiting
<1>8. ToSet(k.wait[Ev]) \subseteq Thread BY WaiterFacts
<1>9. \A u \in Thread : IF u \in ToSet(k.wait[Ev]) THEN k'.err[u] # "EOK"
                        ELSE k'.err[u] = k.err[u]
  BY <1>2
<1> QED BY <1>0, <1>2, <1>4, <1>5, <1>6, <1>7, <1>8, <1>9, QuietOK

\* rt_event_delete, rt_event_detach and rt_event_create.
LEMMA DeleteBeginOK ==
    ASSUME Inductive, NEW t \in Thread, DeleteBegin(t)
    PROVE  Inductive' /\ ConsumedStep
<1>0. /\ Call(t) /\ k' = k /\ pc' = [pc EXCEPT ![t] = "delall"]
      /\ isr' = isr /\ set' = set /\ eset' = eset /\ req' = req /\ alive' = alive
  BY DEF DeleteBegin, Goto
<1>1. t = k.cur /\ t # Idle /\ pc[t] \notin {"sleep", "wait"} BY <1>0, CallFacts DEF Call
<1>2. ThreadsOK' BY <1>0, <1>1, Now, GotoStep
<1>3. /\ pc' \in [Thread -> EventPC] /\ pc'[t] = "delall"
      /\ \A u \in Thread \ {t} : pc'[u] = pc[u]
  BY <1>0, Now DEF EventPC, Deleting
<1>4. \A u \in Thread : pc'[u] \in Waiting => pc[u] \in Waiting BY <1>3 DEF Waiting
<1>5. Typed BY <1>0, <1>3, Now DEF Typed
<1> QED BY <1>0, <1>2, <1>4, <1>5, StillOK

LEMMA DeleteResumeOK ==
    ASSUME Inductive, NEW t \in Thread, DeleteResume(t)
    PROVE  Inductive' /\ ConsumedStep
<1>0. set' = set /\ eset' = eset /\ req' = req /\ alive' = alive BY DEF DeleteResume
<1>1. CASE ResumeAllLook(t, Ev)
  <2>1. /\ k' = k /\ ThreadsOK' /\ pc[t] = "delall" /\ isr' = isr
        /\ pc' = [pc EXCEPT ![t] = IF k.wait[Ev] = << >> THEN "delobj" ELSE "delone"]
    BY <1>1, Now, LookStep
  <2>2. /\ pc' \in [Thread -> EventPC] /\ \A u \in Thread \ {t} : pc'[u] = pc[u]
        /\ pc'[t] \in {"delone", "delobj"}
    BY <2>1, Now DEF EventPC, Deleting
  <2>3. \A u \in Thread : pc'[u] \in Waiting => pc[u] \in Waiting BY <2>2 DEF Waiting
  <2>4. Typed BY <1>0, <2>1, <2>2, Now DEF Typed
  <2> QED BY <1>0, <2>1, <2>3, <2>4, StillOK
<1>2. CASE ResumeAllTurn(t, Ev)
  <2> DEFINE u == Head(k.wait[Ev])
  <2>1. /\ k' \in KState /\ ThreadsOK' /\ pc[t] = "delone" /\ isr' = isr
        /\ pc' = [pc EXCEPT ![t] = "delall"] /\ u \in Thread /\ u \in ToSet(k.wait[Ev])
        /\ k'.err = [k.err EXCEPT ![u] = "ERROR"] /\ k'.wait = WaitWithout(k, u)
    BY <1>2, Now, TurnStep
  <2> HIDE DEF u
  <2>2. /\ pc' \in [Thread -> EventPC] /\ pc'[t] = "delall"
        /\ \A v \in Thread \ {t} : pc'[v] = pc[v]
    BY <2>1, Now DEF EventPC, Deleting
  <2>3. \A v \in Thread : pc'[v] \in Waiting => pc[v] \in Waiting BY <2>2 DEF Waiting
  <2>4. Typed BY <1>0, <2>1, <2>2, Now DEF Typed
  <2>5. "ERROR" # "EOK" OBVIOUS
  <2> QED BY <1>0, <2>1, <2>3, <2>4, <2>5, LeaveOK
<1> QED BY <1>1, <1>2 DEF DeleteResume

LEMMA DeleteEndOK ==
    ASSUME Inductive, NEW t \in Thread, DeleteEnd(t)
    PROVE  Inductive' /\ ConsumedStep
<1>0. /\ t = k.cur /\ pc[t] = "delobj" /\ pc' = [pc EXCEPT ![t] = "run"] /\ k' = k
      /\ isr' = isr /\ set' = set /\ eset' = eset /\ req' = req /\ alive' = FALSE
  BY DEF DeleteEnd, Executing, Goto
<1>1. t # Idle BY <1>0, Now DEF ThreadsOK
<1>2. ThreadsOK' BY <1>0, <1>1, Now, GotoStep
<1>3. /\ pc' \in [Thread -> EventPC] /\ pc'[t] = "run"
      /\ \A u \in Thread \ {t} : pc'[u] = pc[u]
  BY <1>0, Now DEF EventPC
<1>4. \A u \in Thread : pc'[u] \in Waiting => pc[u] \in Waiting BY <1>3 DEF Waiting
<1>5. Typed BY <1>0, <1>3, Now DEF Typed
<1> QED BY <1>0, <1>2, <1>4, <1>5, StillOK

LEMMA CreateOK ==
    ASSUME Inductive, NEW t \in Thread, Create(t)
    PROVE  Inductive' /\ ConsumedStep
<1>0. /\ k' = k /\ pc' = pc /\ isr' = isr /\ set' = {} /\ eset' = eset /\ req' = req
      /\ alive' = TRUE
  BY DEF Create
<1>1. ThreadsOK' BY <1>0, Now DEF ThreadsOK, Blocked
<1>2. Typed BY <1>0, Now DEF Typed
<1> QED BY <1>0, <1>1, <1>2, StillOK

\* The rt_schedule that ends a call, and the tick interrupt.
LEMMA ProcessorOK ==
    ASSUME Inductive, ProcessorStep, UNCHANGED <<set, eset, req, alive>>
    PROVE  Inductive' /\ ConsumedStep
<1>0. set' = set /\ eset' = eset /\ req' = req /\ alive' = alive OBVIOUS
<1>1. ASSUME NEW t \in Thread, Schedule(t) PROVE Inductive' /\ ConsumedStep
  <2>1. /\ k' \in KState /\ ThreadsOK' /\ k'.wait = k.wait /\ k'.err = k.err
        /\ pc' = [pc EXCEPT ![t] = After[pc[t]]] /\ pc[t] \in {"sched", "sleep", "wait"}
    BY <1>1, Now, ScheduleStep
  <2>2. isr' = isr BY <1>1 DEF Schedule
  <2>3. /\ pc' \in [Thread -> EventPC] /\ (pc'[t] \in Waiting => pc[t] \in Waiting)
        /\ \A u \in Thread \ {t} : pc'[u] = pc[u]
    <3>1. After["sched"] = "run" /\ After["sleep"] = "slept" /\ After["wait"] = "waited"
      BY DEF After
    <3>2. pc[t] \in {"sched", "wait"} BY <2>1, Now DEF EventPC, Deleting
    <3>3. After[pc[t]] \in EventPC BY <3>1, <3>2 DEF EventPC
    <3> QED BY <2>1, <3>1, <3>2, <3>3, Now DEF Waiting
  <2>4. Typed BY <1>0, <2>1, <2>2, <2>3, Now DEF Typed
  <2>5. \A u \in Thread : pc'[u] \in Waiting => pc[u] \in Waiting BY <2>3
  <2> QED BY <1>0, <2>1, <2>4, <2>5, StillOK
<1>2. CASE TickEnter \/ TickLeave
  <2>1. /\ k' \in KState /\ ThreadsOK' /\ k'.wait = k.wait /\ k'.err = k.err
        /\ pc' = pc /\ isr' \in {"none", "timers"}
    BY <1>2, Now, TickStep
  <2>2. Typed BY <1>0, <2>1, Now DEF Typed
  <2> QED BY <1>0, <2>1, <2>2, StillOK
<1>3. ASSUME NEW t \in Thread, TimerFire(t) PROVE Inductive' /\ ConsumedStep
  <2>1. /\ k' \in KState /\ ThreadsOK' /\ k.stat[t] = "SUSPEND"
        /\ k'.wait = WaitWithout(k, t) /\ k'.err = [k.err EXCEPT ![t] = "ETIMEOUT"]
        /\ pc' = pc /\ isr' = isr
    BY <1>3, Now, TimerStep
  <2>2. t \in ToSet(k.wait[Ev])
    <3>1. pc[t] \notin {"sleep", "slept"} BY Now DEF EventPC, Deleting
    <3>2. PICK o \in Obj : t \in ToSet(k.wait[o]) BY <2>1, <3>1, Now DEF ThreadsOK
    <3>3. << >> \in Seq(Thread) OBVIOUS
    <3>4. ToSet(<< >>) = {} BY <3>3, EmptyFacts
    <3> QED BY <3>2, <3>4, Now
  <2>3. Typed BY <1>0, <2>1, Now DEF Typed
  <2>4. "ETIMEOUT" # "EOK" OBVIOUS
  <2> QED BY <1>0, <2>1, <2>2, <2>3, <2>4, LeaveOK
<1> QED BY <1>1, <1>2, <1>3 DEF ProcessorStep, Interrupt

-----------------------------------------------------------------------------
(* The theorems *)

LEMMA InitOK == Init => Inductive
<1> SUFFICES ASSUME Init PROVE Inductive OBVIOUS
<1>1. /\ k = KBoot /\ pc = [t \in Thread |-> "run"] /\ isr = "none" /\ set = {}
      /\ eset = [t \in Thread |-> {}] /\ req = [t \in Thread |-> NoRequest] /\ alive = TRUE
  BY DEF Init
<1>2. k \in KState /\ ThreadsOK /\ \A o \in Obj : k.wait[o] = << >> BY <1>1, BootThreads
<1>3. ToSet(k.wait[Ev]) = {}
  <2>1. << >> \in Seq(Thread) /\ Ev \in Obj BY EventAssumption
  <2> QED BY <1>2, <2>1, EmptyFacts
<1>4. \A t \in Thread : pc[t] \notin {"wait", "waited"} BY <1>1
<1>5. TypeOK
  <2>1. pc \in [Thread -> EventPC] BY <1>1 DEF EventPC
  <2> QED BY <1>1, <1>2, <2>1 DEF TypeOK
<1> QED BY <1>2, <1>3, <1>4, <1>5
        DEF Inductive, NoMissedEvent, Delivered, Asking, Blocked, Worker

LEMMA StutterOK == ASSUME Inductive, UNCHANGED eventVars PROVE Inductive' /\ ConsumedStep
<1>1. /\ k' = k /\ pc' = pc /\ isr' = isr /\ set' = set /\ eset' = eset /\ req' = req
      /\ alive' = alive
  BY DEF eventVars
<1>2. ThreadsOK' BY <1>1, Now DEF ThreadsOK, Blocked
<1>3. Typed BY <1>1, Now DEF Typed
<1> QED BY <1>1, <1>2, <1>3, StillOK

LEMMA NextOK == ASSUME Inductive, [Next]_eventVars PROVE Inductive' /\ ConsumedStep
<1>1. ASSUME NEW t \in Thread, NEW b \in (SUBSET Bits) \ {{}}, Send(t, b)
      PROVE  Inductive' /\ ConsumedStep
  BY <1>1, SendOK
<1>2. ASSUME NEW t \in Thread, NEW r \in Requests,
             \/ Recv(t, r) \/ RecvRefused(t, r)
             \/ \E w \in Waits : RecvWait(t, r, w)
      PROVE  Inductive' /\ ConsumedStep
  BY <1>2, RecvOK, RecvWaitOK
<1>3. ASSUME NEW b \in (SUBSET Bits) \ {{}}, IsrSend(b) PROVE Inductive' /\ ConsumedStep
  BY <1>3, IsrSendOK
<1> QED BY <1>1, <1>2, <1>3, RecvReturnOK, ResetOK, DeleteBeginOK, DeleteResumeOK,
           DeleteEndOK, CreateOK, ProcessorOK, StutterOK DEF Next

\* The inductive invariant of the event object.
THEOREM InductiveInvariant == Spec => []Inductive
<1>1. Init => Inductive BY InitOK
<1>2. Inductive /\ [Next]_eventVars => Inductive' BY NextOK
<1> QED BY <1>1, <1>2, PTL DEF Spec

\* No event is missed: after every send nobody waits for bits that are set.
THEOREM NoEventIsMissed == Spec => []NoMissedEvent
<1>1. Inductive => NoMissedEvent BY DEF Inductive
<1> QED BY <1>1, InductiveInvariant, PTL

\* A thread that rt_event_send wakes has bits it asked for, all of them with
\* RT_EVENT_FLAG_AND; a wait that fails leaves its request untouched.
THEOREM WokenWithTheirBits == Spec => []Delivered
<1>1. Inductive => Delivered BY DEF Inductive
<1> QED BY <1>1, InductiveInvariant, PTL

\* Bits that a woken thread clears go to no other thread that clears them, and
\* are gone from event->set.
THEOREM BitsConsumedOnce == Spec => ConsumedOnce
<1>1. Inductive /\ [Next]_eventVars => [ConsumedStep]_eventVars BY NextOK
<1> QED BY <1>1, InductiveInvariant, PTL DEF Spec, ConsumedOnce, ConsumedStep
=============================================================================
