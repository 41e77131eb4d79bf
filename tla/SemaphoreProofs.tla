-------------------------- MODULE SemaphoreProofs --------------------------
(***************************************************************************)
(* Theorems about the semaphore, for every number of threads and           *)
(* priorities, either queueing discipline, every mixture of calls and      *)
(* every interleaving with the tick interrupt: its invariants, and that it *)
(* implements CountingSemaphore.                                           *)
(***************************************************************************)
EXTENDS Semaphore, IpcProofs, FiniteSetTheorems

(* The suspend list and the order of arrival *)

Before(ord, a, b) == \E i, j \in 1 .. Len(ord) : i < j /\ ord[i] = a /\ ord[j] = b

\* a is served before b.
Preferred(ord, a, b) ==
    IF Flag = "FIFO" THEN Before(ord, a, b)
    ELSE \/ BootPrio[a] < BootPrio[b]
         \/ BootPrio[a] = BootPrio[b] /\ Before(ord, a, b)

\* The list w serves the threads of ord as it should.
Ordered(w, ord) ==
    /\ w \in Seq(Thread) /\ IsInjective(w)
    /\ ord \in Seq(Thread) /\ IsInjective(ord)
    /\ ToSet(ord) = ToSet(w)
    /\ \A i, j \in 1 .. Len(w) : i < j => Preferred(ord, w[i], w[j])

LEMMA BootPrioNat == \A t \in Thread : BootPrio[t] \in Nat
  BY BootAssumption, PrioMaxAssumption DEF Prio

LEMMA OrderedEmpty == Ordered(<< >>, << >>)
<1>1. << >> \in Seq(Thread) OBVIOUS
<1>2. IsInjective(<< >>) BY DEF IsInjective
<1> QED BY <1>1, <1>2 DEF Ordered

\* A thread leaves both.
LEMMA OrderedRemove ==
    ASSUME NEW w, NEW ord, Ordered(w, ord), NEW e
    PROVE  Ordered(RemoveFirst(w, e), RemoveFirst(ord, e))
<1> DEFINE r == RemoveFirst(w, e)
           s == RemoveFirst(ord, e)
<1>0. /\ w \in Seq(Thread) /\ IsInjective(w) /\ ord \in Seq(Thread) /\ IsInjective(ord)
      /\ ToSet(ord) = ToSet(w)
      /\ \A i, j \in 1 .. Len(w) : i < j => Preferred(ord, w[i], w[j])
  BY DEF Ordered
<1>1. r \in Seq(Thread) /\ IsInjective(r) /\ ToSet(r) = ToSet(w) \ {e}
  BY <1>0, RemoveFirstFacts
<1>2. s \in Seq(Thread) /\ IsInjective(s) /\ ToSet(s) = ToSet(ord) \ {e}
  BY <1>0, RemoveFirstFacts
<1>3. ASSUME NEW i \in 1 .. Len(r), NEW j \in 1 .. Len(r), i < j
      PROVE  Preferred(s, r[i], r[j])
  <2>1. PICK p, q \in 1 .. Len(w) : p < q /\ w[p] = r[i] /\ w[q] = r[j]
    <3>1. i \in 1 .. Len(RemoveFirst(w, e)) /\ j \in 1 .. Len(RemoveFirst(w, e)) OBVIOUS
    <3>2. \E p, q \in 1 .. Len(w) :
             p < q /\ w[p] = RemoveFirst(w, e)[i] /\ w[q] = RemoveFirst(w, e)[j]
      BY <1>0, <1>3, <3>1, RemoveOrder
    <3> QED BY <3>2
  <2>2. r[i] # e /\ r[j] # e BY <1>1, InToSet
  <2> HIDE DEF r, s
  <2>3. Preferred(ord, r[i], r[j]) BY <1>0, <2>1
  <2>4. ASSUME Before(ord, r[i], r[j]) PROVE Before(s, r[i], r[j])
    <3>1. PICK x, y \in 1 .. Len(ord) : x < y /\ ord[x] = r[i] /\ ord[y] = r[j]
      BY <2>4 DEF Before
    <3>2. \E m, n \in 1 .. Len(s) : m < n /\ s[m] = ord[x] /\ s[n] = ord[y]
      BY <1>0, <2>2, <3>1, RemoveKeepsOrder DEF s
    <3> QED BY <3>1, <3>2 DEF Before
  <2> QED BY <2>3, <2>4 DEF Preferred
<1> HIDE DEF r, s
<1>4. Ordered(r, s) BY <1>0, <1>1, <1>2, <1>3 DEF Ordered
<1> QED BY <1>4 DEF r, s

\* A thread arrives: it is linked behind those that are served before it.
LEMMA OrderedInsert ==
    ASSUME NEW w, NEW ord, Ordered(w, ord), NEW t \in Thread, t \notin ToSet(w),
           NEW n \in 1 .. Len(w) + 1,
           Flag = "FIFO" => n = Len(w) + 1,
           Flag # "FIFO" => /\ \A i \in 1 .. Len(w) : i < n => BootPrio[w[i]] <= BootPrio[t]
                            /\ n <= Len(w) => BootPrio[t] < BootPrio[w[n]]
    PROVE  Ordered(InsertAt(w, n, t), Append(ord, t))
<1> DEFINE r == InsertAt(w, n, t)
           s == Append(ord, t)
<1>0. /\ w \in Seq(Thread) /\ IsInjective(w) /\ ord \in Seq(Thread) /\ IsInjective(ord)
      /\ ToSet(ord) = ToSet(w)
      /\ \A i, j \in 1 .. Len(w) : i < j => Preferred(ord, w[i], w[j])
  BY DEF Ordered
<1>1. /\ r \in Seq(Thread) /\ IsInjective(r) /\ ToSet(r) = ToSet(w) \cup {t}
      /\ Len(r) = Len(w) + 1
      /\ \A x \in 1 .. Len(w) + 1 :
            r[x] = IF x < n THEN w[x] ELSE IF x = n THEN t ELSE w[x - 1]
  BY <1>0, InsertFacts
<1>2. s \in Seq(Thread) /\ IsInjective(s) /\ ToSet(s) = ToSet(ord) \cup {t}
  BY <1>0, AppendFacts
<1>3. Len(s) = Len(ord) + 1 /\ s[Len(ord) + 1] = t /\ \A i \in 1 .. Len(ord) : s[i] = ord[i]
  BY <1>0, AppendProperties
<1>4. Len(w) \in Nat /\ Len(ord) \in Nat /\ \A i \in 1 .. Len(w) : w[i] \in Thread BY <1>0
<1> HIDE DEF r, s
<1>5. ASSUME NEW a, NEW b, Before(ord, a, b) PROVE Before(s, a, b)
  <2>1. PICK x, y \in 1 .. Len(ord) : x < y /\ ord[x] = a /\ ord[y] = b BY <1>5 DEF Before
  <2>2. x \in 1 .. Len(s) /\ y \in 1 .. Len(s) /\ s[x] = a /\ s[y] = b BY <1>3, <1>4, <2>1
  <2> QED BY <2>1, <2>2 DEF Before
<1>6. ASSUME NEW i \in 1 .. Len(w) PROVE Before(s, w[i], t)
  <2>1. w[i] \in ToSet(ord) BY <1>0, InToSet
  <2>2. PICK x \in 1 .. Len(ord) : ord[x] = w[i] BY <1>0, <2>1, InToSet
  <2>3. x \in 1 .. Len(s) /\ Len(ord) + 1 \in 1 .. Len(s) /\ x < Len(ord) + 1 BY <1>3, <1>4
  <2> QED BY <1>3, <2>2, <2>3 DEF Before
<1>7. ASSUME NEW i \in 1 .. Len(w), NEW j \in 1 .. Len(w), i < j PROVE Preferred(s, w[i], w[j])
  BY <1>0, <1>5, <1>7 DEF Preferred
<1>8. ASSUME NEW i \in 1 .. Len(w), i < n PROVE Preferred(s, w[i], t)
  <2>1. CASE Flag = "FIFO" BY <1>6, <2>1 DEF Preferred
  <2>2. CASE Flag # "FIFO"
    <3>1. BootPrio[w[i]] <= BootPrio[t] /\ BootPrio[w[i]] \in Nat /\ BootPrio[t] \in Nat
      BY <1>4, <1>8, <2>2, BootPrioNat
    <3> QED BY <1>6, <2>2, <3>1 DEF Preferred
  <2> QED BY <2>1, <2>2
<1>9. ASSUME NEW j \in 1 .. Len(w), j >= n PROVE Preferred(s, t, w[j])
  <2>1. Flag # "FIFO" /\ n <= Len(w) BY <1>4, <1>9
  <2>2. BootPrio[t] < BootPrio[w[n]] BY <2>1
  <2>3. BootPrio[w[n]] <= BootPrio[w[j]]
    <3>1. CASE n = j BY <1>4, <3>1, BootPrioNat
    <3>2. CASE n < j
      <4>1. n \in 1 .. Len(w) /\ Preferred(ord, w[n], w[j]) BY <1>0, <2>1, <3>2
      <4> QED BY <1>4, <2>1, <4>1, BootPrioNat DEF Preferred
    <3> QED BY <1>4, <1>9, <3>1, <3>2
  <2>4. n \in 1 .. Len(w) BY <2>1
  <2>5. BootPrio[t] \in Nat /\ BootPrio[w[n]] \in Nat /\ BootPrio[w[j]] \in Nat
    BY <1>4, <2>4, BootPrioNat
  <2>6. BootPrio[t] < BootPrio[w[j]] BY <2>2, <2>3, <2>5
  <2> QED BY <2>1, <2>6 DEF Preferred
<1>10. ASSUME NEW i \in 1 .. Len(r), NEW j \in 1 .. Len(r), i < j
       PROVE  Preferred(s, r[i], r[j])
  <2>0. i \in 1 .. Len(w) + 1 /\ j \in 1 .. Len(w) + 1 BY <1>1
  <2>1. CASE j < n
    <3>1. i \in 1 .. Len(w) /\ j \in 1 .. Len(w) /\ i < n /\ r[i] = w[i] /\ r[j] = w[j]
      BY <1>1, <1>4, <1>10, <2>0, <2>1
    <3> QED BY <1>7, <1>10, <3>1
  <2>2. CASE j = n
    <3>1. i \in 1 .. Len(w) /\ i < n /\ r[i] = w[i] /\ r[j] = t
      BY <1>1, <1>4, <1>10, <2>0, <2>2
    <3> QED BY <1>8, <3>1
  <2>3. CASE i = n
    <3>1. j - 1 \in 1 .. Len(w) /\ j - 1 >= n /\ r[i] = t /\ r[j] = w[j - 1]
      BY <1>1, <1>4, <1>10, <2>0, <2>3
    <3> QED BY <1>9, <3>1
  <2>4. CASE i < n /\ j > n
    <3>1. i \in 1 .. Len(w) /\ j - 1 \in 1 .. Len(w) /\ i < j - 1 /\ r[i] = w[i] /\ r[j] = w[j - 1]
      BY <1>1, <1>4, <1>10, <2>0, <2>4
    <3> QED BY <1>7, <3>1
  <2>5. CASE i > n
    <3>1. /\ i - 1 \in 1 .. Len(w) /\ j - 1 \in 1 .. Len(w) /\ i - 1 < j - 1
          /\ r[i] = w[i - 1] /\ r[j] = w[j - 1]
      BY <1>1, <1>4, <1>10, <2>0, <2>5
    <3> QED BY <1>7, <3>1
  <2> QED BY <1>4, <2>0, <2>1, <2>2, <2>3, <2>4, <2>5
<1>11. Ordered(r, s) BY <1>0, <1>1, <1>2, <1>10 DEF Ordered
<1> QED BY <1>11 DEF r, s

\* The first thread of the list is the one CountingSemaphore serves next.
LEMMA HeadIsNext ==
    ASSUME NEW w, NEW ord, Ordered(w, ord), w # << >>
    PROVE  \E i \in 1 .. Len(ord) :
              /\ ord[i] = Head(w)
              /\ IF Flag = "FIFO" THEN i = 1
                 ELSE \A j \in 1 .. Len(ord) :
                         \/ BootPrio[Head(w)] < BootPrio[ord[j]]
                         \/ BootPrio[Head(w)] = BootPrio[ord[j]] /\ i <= j
<1> DEFINE t == Head(w)
<1>0. /\ w \in Seq(Thread) /\ IsInjective(w) /\ ord \in Seq(Thread) /\ IsInjective(ord)
      /\ ToSet(ord) = ToSet(w)
      /\ \A i, j \in 1 .. Len(w) : i < j => Preferred(ord, w[i], w[j])
  BY DEF Ordered
<1>1. 1 \in 1 .. Len(w) /\ w[1] = t BY <1>0
<1>2. t \in ToSet(ord) BY <1>0, <1>1, InToSet
<1> HIDE DEF t
<1>3. PICK i \in 1 .. Len(ord) : ord[i] = t BY <1>0, <1>2, InToSet
<1>4. \A x, y \in 1 .. Len(ord) : ord[x] = ord[y] => x = y BY <1>0, Injective
<1>5. ASSUME NEW b, Before(ord, t, b), NEW j \in 1 .. Len(ord), ord[j] = b PROVE i < j
  <2>1. PICK x, y \in 1 .. Len(ord) : x < y /\ ord[x] = t /\ ord[y] = b BY <1>5 DEF Before
  <2>2. x = i /\ y = j BY <1>3, <1>4, <1>5, <2>1
  <2> QED BY <2>1, <2>2
<1>6. ASSUME NEW j \in 1 .. Len(ord)
      PROVE  j = i \/ (Preferred(ord, t, ord[j]) /\ (Before(ord, t, ord[j]) => i < j))
  <2>1. ord[j] \in ToSet(w) BY <1>0, InToSet
  <2>2. PICK m \in 1 .. Len(w) : w[m] = ord[j] BY <1>0, <2>1, InToSet
  <2>3. CASE m = 1 BY <1>1, <1>3, <1>4, <2>2, <2>3
  <2>4. CASE m # 1
    <3>1. 1 < m BY <2>4, <1>0
    <3> QED BY <1>0, <1>1, <1>5, <2>2, <3>1
  <2> QED BY <2>3, <2>4
<1>7. CASE Flag = "FIFO"
  <2>1. 1 \in 1 .. Len(ord) BY <1>0, <1>3
  <2>2. 1 = i \/ i < 1 BY <1>6, <1>7, <2>1 DEF Preferred
  <2> QED BY <1>3, <1>7, <2>2 DEF t
<1>8. CASE Flag # "FIFO"
  <2>1. ASSUME NEW j \in 1 .. Len(ord)
        PROVE  BootPrio[t] < BootPrio[ord[j]] \/ (BootPrio[t] = BootPrio[ord[j]] /\ i <= j)
    <3>1. CASE j = i BY <1>3, <3>1
    <3>2. CASE j # i BY <1>6, <1>8, <3>2 DEF Preferred
    <3> QED BY <3>1, <3>2
  <2> QED BY <1>3, <1>8, <2>1 DEF t
<1> QED BY <1>7, <1>8

-----------------------------------------------------------------------------
(* The abstract semaphore *)

\* Outcome, of a given kernel state and place of the threads.
OutcomeOf(a, p, t) ==
    IF p[t] \notin {"wait", "waited"} THEN "none"
    ELSE IF t \in ToSet(a.wait[Sem]) THEN "waiting"
    ELSE IF a.err[t] = "EOK" THEN "granted" ELSE "failed"

LEMMA OutcomeNow ==
    /\ [t \in Thread |-> Outcome(t)] = [t \in Thread |-> OutcomeOf(k, pc, t)]
    /\ [t \in Thread |-> Outcome(t)]' = [t \in Thread |-> OutcomeOf(k', pc', t)]
  BY DEF Outcome, OutcomeOf, Blocked

\* The two modules take RemoveFirst from the same library.
LEMMA SameRemove == \A s, e : Abs!RemoveFirst(s, e) = RemoveFirst(s, e)
  BY DEF Abs!RemoveFirst, Abs!RemoveAt, Abs!SelectInSeq, Abs!Min,
         RemoveFirst, RemoveAt, SelectInSeq, Min

\* The step is one of CountingSemaphore, or leaves what it sees unchanged.
AbsStep == [Abs!AbsNext]_(Abs!absVars)

LEMMA AbsStutter ==
    ASSUME value' = value, order' = order,
           \A u \in Thread : OutcomeOf(k', pc', u) = OutcomeOf(k, pc, u)
    PROVE  AbsStep
  BY OutcomeNow DEF AbsStep, Abs!absVars

LEMMA AbsAcquire ==
    ASSUME value > 0, value' = value - 1, order' = order,
           \A u \in Thread : OutcomeOf(k', pc', u) = OutcomeOf(k, pc, u)
    PROVE  AbsStep
  BY OutcomeNow DEF AbsStep, Abs!AbsNext, Abs!Acquire

LEMMA AbsRelease ==
    ASSUME order = << >>, value < SemMax, value' = value + 1, order' = order,
           \A u \in Thread : OutcomeOf(k', pc', u) = OutcomeOf(k, pc, u)
    PROVE  AbsStep
  BY OutcomeNow DEF AbsStep, Abs!AbsNext, Abs!Release

LEMMA AbsWait ==
    ASSUME NEW t \in Thread, value = 0, value' = value, order' = Append(order, t),
           OutcomeOf(k, pc, t) = "none",
           \A u \in Thread : OutcomeOf(k', pc', u) = IF u = t THEN "waiting" ELSE OutcomeOf(k, pc, u)
    PROVE  AbsStep
<1>1. Abs!Wait(t) BY OutcomeNow DEF Abs!Wait
<1> QED BY <1>1 DEF AbsStep, Abs!AbsNext

LEMMA AbsLeave ==
    ASSUME NEW t \in Thread, NEW x, order' = RemoveFirst(order, t),
           \A u \in Thread : OutcomeOf(k', pc', u) = IF u = t THEN x ELSE OutcomeOf(k, pc, u)
    PROVE  Abs!Leave(t, x)
  BY OutcomeNow, SameRemove DEF Abs!Leave

LEMMA AbsFail ==
    ASSUME NEW t \in Thread, value' = value, order' = RemoveFirst(order, t),
           OutcomeOf(k, pc, t) = "waiting",
           \A u \in Thread : OutcomeOf(k', pc', u) = IF u = t THEN "failed" ELSE OutcomeOf(k, pc, u)
    PROVE  AbsStep
<1>1. Abs!Leave(t, "failed") BY AbsLeave
<1>2. Abs!Fail(t) BY <1>1, OutcomeNow DEF Abs!Fail
<1> QED BY <1>2 DEF AbsStep, Abs!AbsNext

LEMMA AbsReturn ==
    ASSUME NEW t \in Thread, value' = value, order' = order,
           OutcomeOf(k, pc, t) \in {"granted", "failed"},
           \A u \in Thread : OutcomeOf(k', pc', u) = IF u = t THEN "none" ELSE OutcomeOf(k, pc, u)
    PROVE  AbsStep
<1>1. Abs!Return(t) BY OutcomeNow DEF Abs!Return
<1> QED BY <1>1 DEF AbsStep, Abs!AbsNext

LEMMA AbsRenew ==
    ASSUME value' \in 0 .. SemMax, order' = << >>,
           \A u \in Thread : OutcomeOf(k', pc', u) =
               IF OutcomeOf(k, pc, u) = "waiting" THEN "failed" ELSE OutcomeOf(k, pc, u)
    PROVE  AbsStep
<1>1. Abs!Renew(value') BY OutcomeNow DEF Abs!Renew
<1> QED BY <1>1 DEF AbsStep, Abs!AbsNext

LEMMA AbsGrant ==
    ASSUME Ordered(k.wait[Sem], order), k.wait[Sem] # << >>,
           NEW t \in Thread, t = Head(k.wait[Sem]), value' = value,
           order' = RemoveFirst(order, t),
           \A u \in Thread : OutcomeOf(k', pc', u) = IF u = t THEN "granted" ELSE OutcomeOf(k, pc, u)
    PROVE  AbsStep
<1>1. Abs!IsNext(t) BY HeadIsNext DEF Abs!IsNext
<1>2. Abs!Leave(t, "granted") BY AbsLeave
<1>3. Abs!Grant(t) BY <1>1, <1>2 DEF Abs!Grant
<1> QED BY <1>3 DEF AbsStep, Abs!AbsNext

-----------------------------------------------------------------------------
(* The permits *)

HeldBy(h) == {d \in Thread \X (1 .. MaxHold) : d[2] <= h[d[1]]}

\* The threads that have been handed a permit and have not yet run again.
Awarded(a, p) == {t \in Thread : OutcomeOf(a, p, t) = "granted"}

\* The step keeps the number of permits, under the rules of PermitsConserved.
PermitStep == PermitRules /\ IsFiniteSet(Thread) /\ PermitsConserved => PermitsConserved'

LEMMA Permits ==
    /\ PermitsConserved <=>
          (alive => value + Cardinality(HeldBy(holds)) + Cardinality(Awarded(k, pc)) = InitValue)
    /\ PermitsConserved' <=>
          (alive' => value' + Cardinality(HeldBy(holds')) + Cardinality(Awarded(k', pc')) = InitValue)
<1>1. \A t \in Thread : Outcome(t) = OutcomeOf(k, pc, t) BY DEF Outcome, OutcomeOf, Blocked
<1>2. \A t \in Thread : Outcome(t)' = OutcomeOf(k', pc', t) BY DEF Outcome, OutcomeOf, Blocked
<1>3. InFlight = Awarded(k, pc) BY <1>1 DEF InFlight, Awarded
<1>4. InFlight' = Awarded(k', pc') BY <1>2 DEF InFlight, Awarded
<1>5. Held = HeldBy(holds) /\ Held' = HeldBy(holds') BY DEF Held, HeldBy
<1> QED BY <1>3, <1>4, <1>5 DEF PermitsConserved

LEMMA HeldFinite ==
    ASSUME IsFiniteSet(Thread), NEW h
    PROVE  IsFiniteSet(HeldBy(h)) /\ Cardinality(HeldBy(h)) \in Nat
<1>1. MaxHold \in Nat /\ 1 \in Int BY SemAssumption
<1>2. IsFiniteSet(1 .. MaxHold) BY <1>1, FS_Interval
<1>3. IsFiniteSet(Thread \X (1 .. MaxHold)) BY <1>2, FS_Product
<1>4. IsFiniteSet(HeldBy(h)) BY <1>3, FS_Subset DEF HeldBy
<1> QED BY <1>4, FS_CardinalityType

LEMMA AwardedFinite ==
    ASSUME IsFiniteSet(Thread), NEW a, NEW p
    PROVE  IsFiniteSet(Awarded(a, p)) /\ Cardinality(Awarded(a, p)) \in Nat
<1>1. IsFiniteSet(Awarded(a, p)) BY FS_Subset DEF Awarded
<1> QED BY <1>1, FS_CardinalityType

\* A thread holds one permit more.
LEMMA HeldMore ==
    ASSUME IsFiniteSet(Thread), NEW t \in Thread,
           NEW h \in [Thread -> 0 .. MaxHold], NEW g \in [Thread -> 0 .. MaxHold],
           g[t] = h[t] + 1, \A u \in Thread \ {t} : g[u] = h[u]
    PROVE  Cardinality(HeldBy(g)) = Cardinality(HeldBy(h)) + 1
<1> DEFINE d == <<t, g[t]>>
<1>1. MaxHold \in Nat BY SemAssumption
<1>2. h[t] \in 0 .. MaxHold /\ g[t] \in 0 .. MaxHold OBVIOUS
<1>3. g[t] \in 1 .. MaxHold /\ ~(g[t] <= h[t]) BY <1>1, <1>2
<1>4. d \notin HeldBy(h) BY <1>3 DEF HeldBy
<1>5. ASSUME NEW u \in Thread, NEW n \in 1 .. MaxHold
      PROVE  n <= g[u] <=> (n <= h[u] \/ (u = t /\ n = g[t]))
  <2>1. CASE u = t
    <3>1. n \in Nat /\ h[t] \in Nat /\ g[t] = h[t] + 1 BY <1>1, <1>2
    <3> QED BY <2>1, <3>1
  <2>2. CASE u # t BY <2>2
  <2> QED BY <2>1, <2>2
<1>6. HeldBy(g) = HeldBy(h) \cup {d}
  <2>1. ASSUME NEW e \in Thread \X (1 .. MaxHold)
        PROVE  e \in HeldBy(g) <=> e \in HeldBy(h) \cup {d}
    <3>1. PICK u \in Thread, n \in 1 .. MaxHold : e = <<u, n>> BY <2>1
    <3>2. e \in HeldBy(g) <=> n <= g[u] BY <3>1 DEF HeldBy
    <3>3. e \in HeldBy(h) <=> n <= h[u] BY <3>1 DEF HeldBy
    <3>4. e = d <=> (u = t /\ n = g[t]) BY <3>1
    <3> QED BY <1>5, <3>2, <3>3, <3>4
  <2>2. d \in Thread \X (1 .. MaxHold) BY <1>3
  <2>3. HeldBy(g) \subseteq Thread \X (1 .. MaxHold) /\ HeldBy(h) \subseteq Thread \X (1 .. MaxHold)
    BY DEF HeldBy
  <2> HIDE DEF d
  <2> QED BY <2>1, <2>2, <2>3
<1> HIDE DEF d
<1>7. IsFiniteSet(HeldBy(h)) BY HeldFinite
<1> QED BY <1>4, <1>6, <1>7, FS_AddElement

\* A thread is handed a permit.
LEMMA AwardedMore ==
    ASSUME IsFiniteSet(Thread), NEW a, NEW p, NEW b, NEW q, NEW t \in Thread,
           OutcomeOf(a, p, t) # "granted", OutcomeOf(b, q, t) = "granted",
           \A u \in Thread \ {t} : OutcomeOf(b, q, u) = OutcomeOf(a, p, u)
    PROVE  Cardinality(Awarded(b, q)) = Cardinality(Awarded(a, p)) + 1
<1>1. t \notin Awarded(a, p) /\ Awarded(b, q) = Awarded(a, p) \cup {t} BY DEF Awarded
<1>2. IsFiniteSet(Awarded(a, p)) BY AwardedFinite
<1> QED BY <1>1, <1>2, FS_AddElement

LEMMA PermitsStill ==
    ASSUME value' = value, holds' = holds, alive' => alive,
           \A u \in Thread : OutcomeOf(k', pc', u) = "granted" <=> OutcomeOf(k, pc, u) = "granted"
    PROVE  PermitStep
<1>1. Awarded(k', pc') = Awarded(k, pc) BY DEF Awarded
<1> QED BY <1>1, Permits DEF PermitStep

LEMMA PermitTaken ==
    ASSUME NEW t \in Thread, value \in Nat, value > 0, value' = value - 1, alive' = alive,
           holds \in [Thread -> 0 .. MaxHold], holds' \in [Thread -> 0 .. MaxHold],
           holds'[t] = holds[t] + 1, \A u \in Thread \ {t} : holds'[u] = holds[u],
           \A u \in Thread : OutcomeOf(k', pc', u) = OutcomeOf(k, pc, u)
    PROVE  PermitStep
<1> SUFFICES ASSUME IsFiniteSet(Thread), PermitsConserved PROVE PermitsConserved'
  BY DEF PermitStep
<1>1. Awarded(k', pc') = Awarded(k, pc) BY DEF Awarded
<1>2. Cardinality(HeldBy(holds')) = Cardinality(HeldBy(holds)) + 1 BY HeldMore
<1>3. PICK n, m \in Nat : n = Cardinality(HeldBy(holds)) /\ m = Cardinality(Awarded(k, pc))
  BY HeldFinite, AwardedFinite
<1>4. alive => value + n + m = InitValue BY <1>3, Permits
<1>5. value' + (n + 1) + m = value + n + m BY <1>3
<1> QED BY <1>1, <1>2, <1>3, <1>4, <1>5, Permits

\* A release that finds nobody waiting: the limit is not reached while permits
\* are held.
LEMMA PermitReleased ==
    ASSUME NEW t \in Thread, value \in Nat, alive, alive' = alive,
           value' = IF value < SemMax THEN value + 1 ELSE value,
           holds \in [Thread -> 0 .. MaxHold], holds' \in [Thread -> 0 .. MaxHold],
           holds[t] = holds'[t] + 1, \A u \in Thread \ {t} : holds'[u] = holds[u],
           \A u \in Thread : OutcomeOf(k', pc', u) = OutcomeOf(k, pc, u)
    PROVE  PermitStep
<1> SUFFICES ASSUME IsFiniteSet(Thread), PermitsConserved PROVE PermitsConserved'
  BY DEF PermitStep
<1>1. Awarded(k', pc') = Awarded(k, pc) BY DEF Awarded
<1>2. Cardinality(HeldBy(holds)) = Cardinality(HeldBy(holds')) + 1 BY HeldMore
<1>3. PICK n, m \in Nat : n = Cardinality(HeldBy(holds')) /\ m = Cardinality(Awarded(k, pc))
  BY HeldFinite, AwardedFinite
<1>4. value + (n + 1) + m = InitValue BY <1>2, <1>3, Permits
<1>5. InitValue \in 0 .. SemMax /\ SemMax \in Nat BY SemAssumption
<1>6. value < SemMax BY <1>3, <1>4, <1>5
<1>7. value' + n + m = InitValue BY <1>3, <1>4, <1>6
<1> QED BY <1>1, <1>3, <1>7, Permits

\* A release that hands the permit to a waiting thread.
LEMMA PermitGranted ==
    ASSUME NEW t \in Thread, NEW w \in Thread, value' = value, value \in Nat, alive' = alive,
           holds \in [Thread -> 0 .. MaxHold], holds' \in [Thread -> 0 .. MaxHold],
           holds[t] = holds'[t] + 1, \A u \in Thread \ {t} : holds'[u] = holds[u],
           OutcomeOf(k, pc, w) # "granted", OutcomeOf(k', pc', w) = "granted",
           \A u \in Thread \ {w} : OutcomeOf(k', pc', u) = OutcomeOf(k, pc, u)
    PROVE  PermitStep
<1> SUFFICES ASSUME IsFiniteSet(Thread), PermitsConserved PROVE PermitsConserved'
  BY DEF PermitStep
<1>1. Cardinality(Awarded(k', pc')) = Cardinality(Awarded(k, pc)) + 1 BY AwardedMore
<1>2. Cardinality(HeldBy(holds)) = Cardinality(HeldBy(holds')) + 1 BY HeldMore
<1>3. PICK n, m \in Nat : n = Cardinality(HeldBy(holds')) /\ m = Cardinality(Awarded(k, pc))
  BY HeldFinite, AwardedFinite
<1>4. alive => value + (n + 1) + m = InitValue BY <1>2, <1>3, Permits
<1>5. value' + n + (m + 1) = value + (n + 1) + m BY <1>3
<1> QED BY <1>1, <1>3, <1>4, <1>5, Permits

\* A thread that was handed a permit runs again.
LEMMA PermitReceived ==
    ASSUME NEW t \in Thread, value' = value, value \in Nat, alive' = alive,
           holds \in [Thread -> 0 .. MaxHold], holds' \in [Thread -> 0 .. MaxHold],
           holds'[t] = holds[t] + 1, \A u \in Thread \ {t} : holds'[u] = holds[u],
           OutcomeOf(k, pc, t) = "granted", OutcomeOf(k', pc', t) # "granted",
           \A u \in Thread \ {t} : OutcomeOf(k', pc', u) = OutcomeOf(k, pc, u)
    PROVE  PermitStep
<1> SUFFICES ASSUME IsFiniteSet(Thread), PermitsConserved PROVE PermitsConserved'
  BY DEF PermitStep
<1>1. Cardinality(Awarded(k, pc)) = Cardinality(Awarded(k', pc')) + 1
  <2>1. \A u \in Thread \ {t} : OutcomeOf(k, pc, u) = OutcomeOf(k', pc', u) OBVIOUS
  <2> QED BY <2>1, AwardedMore
<1>2. Cardinality(HeldBy(holds')) = Cardinality(HeldBy(holds)) + 1 BY HeldMore
<1>3. PICK n, m \in Nat : n = Cardinality(HeldBy(holds)) /\ m = Cardinality(Awarded(k', pc'))
  BY HeldFinite, AwardedFinite
<1>4. alive => value + n + (m + 1) = InitValue BY <1>1, <1>3, Permits
<1>5. value' + (n + 1) + m = value + n + (m + 1) BY <1>3
<1> QED BY <1>2, <1>3, <1>4, <1>5, Permits

-----------------------------------------------------------------------------
(* The steps *)

\* What the inductive invariant says, in the terms of this module.
LEMMA Now ==
    ASSUME Inductive
    PROVE  /\ k \in KState /\ ThreadsOK /\ pc \in [Thread -> SemPC]
           /\ holds \in [Thread -> 0 .. MaxHold] /\ value \in 0 .. SemMax /\ alive \in BOOLEAN
           /\ isr \in {"none", "timers"}
           /\ k.prio = BootPrio /\ \A o \in Obj \ {Sem} : k.wait[o] = << >>
           /\ Ordered(k.wait[Sem], order) /\ \A t \in ToSet(k.wait[Sem]) : k.err[t] = "EOK"
           /\ value > 0 \/ ~alive => k.wait[Sem] = << >>
           /\ \A t \in Thread : pc[t] = "delobj" => k.wait[Sem] = << >>
           /\ \A t \in Thread : pc[t] \in {"wait", "waited"} => holds[t] < MaxHold
<1>1. k.wait[Sem] \in Seq(Thread) /\ IsInjective(k.wait[Sem])
  BY SemAssumption DEF Inductive, NoVainWait, TypeOK, KState, ThreadsOK, KernelOK, WaitListsOK
<1>2. Ordered(k.wait[Sem], order)
  BY <1>1 DEF Inductive, NoVainWait, TypeOK, Served, InGrantOrder, Ahead, Ordered, Preferred, Before
<1> QED BY <1>2 DEF Inductive, NoVainWait, TypeOK, Served, Blocked

\* ... and what has to be shown of the next state.
Kept ==
    /\ k' \in KState /\ ThreadsOK' /\ pc' \in [Thread -> SemPC]
    /\ holds' \in [Thread -> 0 .. MaxHold] /\ value' \in 0 .. SemMax /\ alive' \in BOOLEAN
    /\ isr' \in {"none", "timers"}
    /\ k'.prio = BootPrio /\ \A o \in Obj \ {Sem} : k'.wait[o] = << >>
    /\ Ordered(k'.wait[Sem], order') /\ \A t \in ToSet(k'.wait[Sem]) : k'.err[t] = "EOK"
    /\ value' > 0 \/ ~alive' => k'.wait[Sem] = << >>
    /\ \A t \in Thread : pc'[t] = "delobj" => k'.wait[Sem] = << >>
    /\ \A t \in Thread : pc'[t] \in {"wait", "waited"} => holds'[t] < MaxHold

LEMMA KeptInductive == ASSUME Kept PROVE Inductive'
<1>1. Served' BY DEF Kept, Ordered, Served, Blocked
<1>2. InGrantOrder' BY DEF Kept, Ordered, InGrantOrder, Ahead, Preferred, Before
<1>3. NoVainWait' BY DEF Kept, Ordered, NoVainWait, TypeOK
<1> QED BY <1>1, <1>2, <1>3 DEF Kept, Inductive

\* The suspend lists and the order of arrival stay.
LEMMA QuietKept ==
    ASSUME Inductive, k' \in KState, ThreadsOK', k'.wait = k.wait, k'.prio = k.prio,
           \A u \in ToSet(k.wait[Sem]) : k'.err[u] = k.err[u],
           order' = order, pc' \in [Thread -> SemPC], holds' \in [Thread -> 0 .. MaxHold],
           value' \in 0 .. SemMax, alive' \in BOOLEAN, isr' \in {"none", "timers"},
           value' > 0 \/ ~alive' => k.wait[Sem] = << >>,
           \A t \in Thread : pc'[t] = "delobj" => k.wait[Sem] = << >>,
           \A t \in Thread : pc'[t] \in {"wait", "waited"} => holds'[t] < MaxHold
    PROVE  Kept
  BY Now DEF Kept

\* One thread leaves.
LEMMA LeaveKept ==
    ASSUME Inductive, k' \in KState, ThreadsOK', NEW t \in Thread,
           k'.wait = WaitWithout(k, t), k'.prio = k.prio,
           \A u \in Thread \ {t} : k'.err[u] = k.err[u],
           order' = RemoveFirst(order, t), pc' \in [Thread -> SemPC],
           holds' \in [Thread -> 0 .. MaxHold], value' \in 0 .. SemMax, alive' = alive,
           isr' \in {"none", "timers"}, value' = value,
           \A u \in Thread : pc'[u] = "delobj" => pc[u] = "delobj",
           \A u \in Thread : pc'[u] \in {"wait", "waited"} => pc[u] \in {"wait", "waited"},
           \A u \in Thread : holds'[u] <= holds[u]
    PROVE  Kept
<1>0. Sem \in Obj /\ MaxHold \in Nat BY SemAssumption
<1>1. \A o \in Obj : k'.wait[o] = RemoveFirst(k.wait[o], t) BY DEF WaitWithout
<1>2. RemoveFirst(<< >>, t) = << >>
  <2>1. << >> \in Seq(Thread) /\ t \notin ToSet(<< >>)
    <3>1. << >> \in Seq(Thread) OBVIOUS
    <3> QED BY <3>1, EmptyFacts
  <2> QED BY <2>1, RemoveAbsent
<1>3. Ordered(k'.wait[Sem], order') BY <1>0, <1>1, Now, OrderedRemove
<1>4. \A o \in Obj \ {Sem} : k'.wait[o] = << >> BY <1>1, <1>2, Now
<1>5. k.wait[Sem] = << >> => k'.wait[Sem] = << >> BY <1>0, <1>1, <1>2
<1>6. ASSUME NEW u \in Thread, pc'[u] \in {"wait", "waited"} PROVE holds'[u] < MaxHold
  <2>1. holds[u] < MaxHold /\ holds[u] \in 0 .. MaxHold /\ holds'[u] \in 0 .. MaxHold
    BY <1>6, Now
  <2> QED BY <1>0, <1>6, <2>1
<1>7. ToSet(k'.wait[Sem]) = ToSet(k.wait[Sem]) \ {t} /\ ToSet(k.wait[Sem]) \subseteq Thread
  <2>1. k.wait[Sem] \in Seq(Thread) /\ IsInjective(k.wait[Sem]) BY Now DEF Ordered
  <2>2. ToSet(RemoveFirst(k.wait[Sem], t)) = ToSet(k.wait[Sem]) \ {t} BY <2>1, RemoveFirstFacts
  <2>3. ToSet(k.wait[Sem]) \subseteq Thread BY <2>1, EmptyFacts
  <2> QED BY <1>0, <1>1, <2>2, <2>3
<1>8. \A u \in ToSet(k'.wait[Sem]) : k'.err[u] = "EOK" BY <1>7, Now
<1> QED BY <1>3, <1>4, <1>5, <1>6, <1>8, Now DEF Kept

\* What the thread that makes a call finds.
LEMMA CallFacts ==
    ASSUME Inductive, NEW t \in Thread, Call(t)
    PROVE  /\ t = k.cur /\ t # Idle /\ pc[t] = "run" /\ alive
           /\ \A u \in Thread : pc[u] \notin {"delall", "delone", "delobj"}
           /\ \A o \in Obj : t \notin ToSet(k.wait[o])
<1>1. /\ t = k.cur /\ t # Idle /\ pc[t] = "run" /\ alive
      /\ \A u \in Thread : pc[u] \notin {"delall", "delone", "delobj"}
  BY DEF Call, Calling, Worker, Executing, Usable, Deleting
<1>2. \A o \in Obj : t \notin ToSet(k.wait[o]) BY <1>1, Now, CurrentRuns
<1> QED BY <1>1, <1>2

\* A step that leaves the processor alone, and in which no thread moves.
LEMMA StillKept ==
    ASSUME Inductive, k' = k, pc' = pc
    PROVE  ThreadsOK'
  BY Now DEF ThreadsOK, Blocked

LEMMA TakeOK ==
    ASSUME Inductive, NEW t \in Thread, Take(t)
    PROVE  Kept /\ AbsStep /\ PermitStep
<1>1. /\ holds[t] < MaxHold /\ value > 0 /\ value' = value - 1
      /\ holds' = [holds EXCEPT ![t] = holds[t] + 1]
      /\ k' = k /\ pc' = pc /\ isr' = isr /\ alive' = alive /\ order' = order /\ pc[t] = "run"
  BY CallFacts DEF Take
<1>2. SemMax \in Nat /\ MaxHold \in Nat BY SemAssumption
<1>3. value' \in 0 .. SemMax /\ k.wait[Sem] = << >> BY <1>1, <1>2, Now
<1>4. holds' \in [Thread -> 0 .. MaxHold]
  <2>1. holds[t] + 1 \in 0 .. MaxHold BY <1>1, <1>2, Now
  <2> QED BY <1>1, <2>1, Now
<1>5. \A u \in Thread : pc'[u] \in {"wait", "waited"} => holds'[u] < MaxHold
  BY <1>1, Now
<1>6. ThreadsOK' BY <1>1, StillKept
<1>7. Kept BY <1>1, <1>3, <1>4, <1>5, <1>6, Now, QuietKept
<1>8. AbsStep BY <1>1, AbsAcquire
<1>9. PermitStep
  <2>1. holds'[t] = holds[t] + 1 /\ \A u \in Thread \ {t} : holds'[u] = holds[u] BY <1>1, Now
  <2>2. \A u \in Thread : OutcomeOf(k', pc', u) = OutcomeOf(k, pc, u) BY <1>1
  <2>3. value \in Nat /\ holds \in [Thread -> 0 .. MaxHold] BY <1>2, Now
  <2> QED BY <1>1, <1>4, <2>1, <2>2, <2>3, PermitTaken
<1> QED BY <1>7, <1>8, <1>9

LEMMA UnchangedOK ==
    ASSUME Inductive, UNCHANGED semVars
    PROVE  Kept /\ AbsStep /\ PermitStep
<1>1. /\ k' = k /\ pc' = pc /\ isr' = isr /\ alive' = alive /\ order' = order
      /\ holds' = holds /\ value' = value
  BY DEF semVars
<1>2. ThreadsOK' BY <1>1, StillKept
<1>3. Kept BY <1>1, <1>2, Now, QuietKept
<1>4. AbsStep BY <1>1, AbsStutter
<1>5. PermitStep BY <1>1, PermitsStill
<1> QED BY <1>3, <1>4, <1>5

LEMMA ConsumeOK ==
    ASSUME Inductive, NEW t \in Thread, Consume(t)
    PROVE  Kept /\ AbsStep /\ PermitStep
<1>1. /\ holds[t] > 0 /\ holds' = [holds EXCEPT ![t] = holds[t] - 1] /\ value' = value
      /\ k' = k /\ pc' = pc /\ isr' = isr /\ alive' = alive /\ order' = order /\ pc[t] = "run"
  BY DEF Consume, Calling
<1>2. MaxHold \in Nat BY SemAssumption
<1>3. holds' \in [Thread -> 0 .. MaxHold]
  <2>1. holds[t] - 1 \in 0 .. MaxHold BY <1>1, <1>2, Now
  <2> QED BY <1>1, <2>1, Now
<1>4. \A u \in Thread : pc'[u] \in {"wait", "waited"} => holds'[u] < MaxHold
  BY <1>1, Now
<1>5. ThreadsOK' BY <1>1, StillKept
<1>6. Kept BY <1>1, <1>3, <1>4, <1>5, Now, QuietKept
<1>7. AbsStep BY <1>1, AbsStutter
<1>8. PermitStep BY DEF PermitStep, PermitRules, Consume
<1> QED BY <1>6, <1>7, <1>8

\* The region of rt_sem_take that waits.
LEMMA TakeWaitOK ==
    ASSUME Inductive, NEW t \in Thread, NEW w, TakeWait(t, w)
    PROVE  Kept /\ AbsStep /\ PermitStep
<1>0. Sem \in Obj /\ MaxHold \in Nat BY SemAssumption
<1>1. /\ t = k.cur /\ t # Idle /\ pc[t] = "run" /\ alive
      /\ \A u \in Thread : pc[u] \notin {"delall", "delone", "delobj"}
      /\ \A o \in Obj : t \notin ToSet(k.wait[o])
  BY CallFacts DEF TakeWait
<1>2. /\ holds[t] < MaxHold /\ value = 0 /\ value' = value /\ holds' = holds
      /\ k' = Blocking(k, Sem, t, Flag, w) /\ pc' = [pc EXCEPT ![t] = "wait"]
      /\ order' = Append(order, t) /\ isr' = isr /\ alive' = alive
  BY DEF TakeWait, Goto, Blocking
<1>3. ThreadsOK' /\ BlockedOn(k, k', Sem, t, Flag, w)
  BY <1>0, <1>1, <1>2, Now, WaitStep
<1> DEFINE n == Position(k, Sem, t, Flag)
<1>4. /\ k' \in KState /\ k'.prio = k.prio
      /\ n \in 1 .. Len(k.wait[Sem]) + 1
      /\ k'.wait = [k.wait EXCEPT ![Sem] = InsertAt(k.wait[Sem], n, t)]
      /\ ToSet(k'.wait[Sem]) = ToSet(k.wait[Sem]) \cup {t}
      /\ k'.err = [k.err EXCEPT ![t] = "EOK"]
  BY <1>3 DEF BlockedOn, Linked
<1>5. k.wait \in [Obj -> Seq(Thread)] /\ k.err \in [Thread -> Err] BY Now DEF KState
<1>6. k'.wait[Sem] = InsertAt(k.wait[Sem], n, t) /\ \A o \in Obj \ {Sem} : k'.wait[o] = k.wait[o]
  BY <1>0, <1>4, <1>5
<1>7. Ordered(k'.wait[Sem], order')
  <2>1. Ordered(k.wait[Sem], order) /\ t \notin ToSet(k.wait[Sem]) /\ k.prio = BootPrio
    BY <1>0, <1>1, Now
  <2>2. Flag = "FIFO" => n = Len(k.wait[Sem]) + 1 BY DEF Position
  <2>3. Flag # "FIFO" =>
           /\ \A i \in 1 .. Len(k.wait[Sem]) : i < n => BootPrio[k.wait[Sem][i]] <= BootPrio[t]
           /\ n <= Len(k.wait[Sem]) => BootPrio[t] < BootPrio[k.wait[Sem][n]]
    <3>1. Flag # "FIFO" => n = PrioPosition(k, Sem, t) BY DEF Position
    <3> HIDE DEF n
    <3> QED BY <1>0, <2>1, <3>1, Now, PrioPositionFacts
  <2> HIDE DEF n
  <2>4. Ordered(InsertAt(k.wait[Sem], n, t), Append(order, t))
    BY <1>4, <2>1, <2>2, <2>3, OrderedInsert
  <2> QED BY <1>2, <1>6, <2>4
<1> HIDE DEF n
<1>8. pc'[t] = "wait" /\ \A u \in Thread \ {t} : pc'[u] = pc[u] BY <1>2, Now
<1>9. Kept
  <2>1. pc' \in [Thread -> SemPC] BY <1>2, Now DEF SemPC
  <2>2. \A u \in Thread : pc'[u] # "delobj" BY <1>1, <1>8
  <2>3. \A u \in Thread : pc'[u] \in {"wait", "waited"} => holds'[u] < MaxHold
    BY <1>2, <1>8, Now
  <2>4. ~(value' > 0) /\ alive' BY <1>1, <1>2
  <2>5. \A o \in Obj \ {Sem} : k'.wait[o] = << >> BY <1>6, Now
  <2>6. \A u \in ToSet(k'.wait[Sem]) : k'.err[u] = "EOK" BY <1>4, <1>5, Now
  <2> QED BY <1>2, <1>3, <1>4, <1>7, <2>1, <2>2, <2>3, <2>4, <2>5, <2>6, Now DEF Kept
<1>10. AbsStep /\ PermitStep
  <2>1. OutcomeOf(k, pc, t) = "none" BY <1>1 DEF OutcomeOf
  <2>2. OutcomeOf(k', pc', t) = "waiting" BY <1>4, <1>8 DEF OutcomeOf
  <2>3. ASSUME NEW u \in Thread \ {t} PROVE OutcomeOf(k', pc', u) = OutcomeOf(k, pc, u)
    <3>1. k'.err[u] = k.err[u] BY <1>4, <1>5
    <3> QED BY <1>4, <1>8, <3>1 DEF OutcomeOf
  <2>4. PermitStep BY <1>2, <2>1, <2>2, <2>3, PermitsStill
  <2> QED BY <1>2, <2>1, <2>2, <2>3, <2>4, AbsWait
<1> QED BY <1>9, <1>10

\* The executing thread leaves a call without touching the kernel state.
LEMMA TakeReturnOK ==
    ASSUME Inductive, NEW t \in Thread, TakeReturn(t)
    PROVE  Kept /\ AbsStep /\ PermitStep
<1>0. MaxHold \in Nat BY SemAssumption
<1>1. /\ t = k.cur /\ pc[t] = "waited" /\ pc' = [pc EXCEPT ![t] = "run"]
      /\ holds' = [holds EXCEPT ![t] = IF k.err[t] = "EOK" THEN holds[t] + 1 ELSE holds[t]]
      /\ k' = k /\ isr' = isr /\ value' = value /\ alive' = alive /\ order' = order
  BY DEF TakeReturn, Executing, Goto
<1>2. t # Idle /\ \A o \in Obj : t \notin ToSet(k.wait[o])
  BY <1>1, Now, CurrentRuns DEF ThreadsOK
<1>3. ThreadsOK' BY <1>1, <1>2, Now, GotoStep
<1>4. pc'[t] = "run" /\ (\A u \in Thread \ {t} : pc'[u] = pc[u]) /\ pc' \in [Thread -> SemPC]
  BY <1>1, Now DEF SemPC
<1>5. holds' \in [Thread -> 0 .. MaxHold]
  <2>1. holds[t] < MaxHold /\ holds[t] \in 0 .. MaxHold BY <1>1, Now
  <2>2. holds[t] + 1 \in 0 .. MaxHold BY <1>0, <2>1
  <2> QED BY <1>1, <2>1, <2>2, Now
<1>6. \A u \in Thread : pc'[u] \in {"wait", "waited"} => holds'[u] < MaxHold
  BY <1>1, <1>4, Now
<1>7. \A u \in Thread : pc'[u] = "delobj" => k.wait[Sem] = << >> BY <1>4, Now
<1>8. Kept BY <1>1, <1>3, <1>4, <1>5, <1>6, <1>7, Now, QuietKept
<1>9. AbsStep /\ PermitStep
  <2>1. OutcomeOf(k, pc, t) \in {"granted", "failed"} BY <1>1, <1>2, SemAssumption DEF OutcomeOf
  <2>2. OutcomeOf(k', pc', t) = "none" BY <1>4 DEF OutcomeOf
  <2>3. \A u \in Thread \ {t} : OutcomeOf(k', pc', u) = OutcomeOf(k, pc, u)
    BY <1>1, <1>4 DEF OutcomeOf
  <2>4. PermitStep
    <3>1. \A u \in Thread \ {t} : holds'[u] = holds[u] BY <1>1, Now
    <3>2. value \in Nat /\ holds \in [Thread -> 0 .. MaxHold] BY Now, SemAssumption
    <3>3. CASE k.err[t] = "EOK"
      <4>1. OutcomeOf(k, pc, t) = "granted" BY <1>1, <1>2, <3>3, SemAssumption DEF OutcomeOf
      <4>2. holds'[t] = holds[t] + 1 BY <1>1, <3>3, Now
      <4> QED BY <1>1, <1>5, <2>2, <2>3, <3>1, <3>2, <4>1, <4>2, PermitReceived
    <3>4. CASE k.err[t] # "EOK"
      <4>1. OutcomeOf(k, pc, t) = "failed" BY <1>1, <1>2, <3>4, SemAssumption DEF OutcomeOf
      <4>2. holds' = holds BY <1>1, <3>4, Now
      <4> QED BY <1>1, <2>2, <2>3, <4>1, <4>2, PermitsStill
    <3> QED BY <3>3, <3>4
  <2> QED BY <1>1, <2>1, <2>2, <2>3, <2>4, AbsReturn
<1> QED BY <1>8, <1>9

\* The first waiting thread is resumed without an error and gets the permit.
LEMMA GrantOK ==
    ASSUME Inductive, k.wait[Sem] # << >>, alive, NEW u \in Thread, u = Head(k.wait[Sem]),
           u \in ToSet(k.wait[Sem]), k' \in KState, ThreadsOK', k'.wait = WaitWithout(k, u),
           k'.prio = k.prio, k'.err = k.err, order' = RemoveFirst(order, u),
           pc' \in [Thread -> SemPC],
           \A v \in Thread : pc'[v] = pc[v] \/ (pc[v] = "run" /\ pc'[v] = "sched"),
           holds' \in [Thread -> 0 .. MaxHold], \A v \in Thread : holds'[v] <= holds[v],
           value' = ReleasedValue, alive' = alive, isr' = isr
    PROVE  /\ Kept /\ AbsStep /\ value' = value
           /\ OutcomeOf(k, pc, u) = "waiting" /\ OutcomeOf(k', pc', u) = "granted"
           /\ \A v \in Thread \ {u} : OutcomeOf(k', pc', v) = OutcomeOf(k, pc, v)
<1>0. Sem \in Obj BY SemAssumption
<1>1. value' = value BY DEF ReleasedValue
<1>2. Kept BY <1>1, Now, LeaveKept
<1>3. /\ AbsStep
      /\ OutcomeOf(k, pc, u) = "waiting" /\ OutcomeOf(k', pc', u) = "granted"
      /\ \A v \in Thread \ {u} : OutcomeOf(k', pc', v) = OutcomeOf(k, pc, v)
  <2>1. ToSet(k'.wait[Sem]) = ToSet(k.wait[Sem]) \ {u}
    <3>1. KernelOK(k, {}) BY Now DEF ThreadsOK
    <3> QED BY <1>0, <3>1, Now, InWaitWithout
  <2>2. pc[u] \in {"wait", "waited"} BY <1>0, Now DEF ThreadsOK, Blocked
  <2>3. OutcomeOf(k', pc', u) = "granted"
    <3>1. pc'[u] \in {"wait", "waited"} BY <2>2
    <3>2. k'.err[u] = "EOK" BY Now
    <3> QED BY <2>1, <3>1, <3>2 DEF OutcomeOf
  <2>4. \A v \in Thread \ {u} : OutcomeOf(k', pc', v) = OutcomeOf(k, pc, v)
    BY <2>1 DEF OutcomeOf
  <2>5. OutcomeOf(k, pc, u) = "waiting" BY <2>2 DEF OutcomeOf
  <2>6. AbsStep BY <1>1, <2>3, <2>4, Now, AbsGrant
  <2> QED BY <2>3, <2>4, <2>5, <2>6
<1> QED BY <1>1, <1>2, <1>3

\* Nobody waits.
LEMMA NobodyQueued ==
    ASSUME Inductive, k.wait[Sem] = << >>
    PROVE  order = << >>
<1>1. order \in Seq(Thread) /\ k.wait[Sem] \in Seq(Thread) /\ ToSet(order) = ToSet(k.wait[Sem])
  BY Now DEF Ordered
<1>2. ToSet(k.wait[Sem]) = {} BY <1>1, EmptyFacts
<1> QED BY <1>1, <1>2, EmptyFacts

\* rt_sem_release by a thread and by an interrupt handler.
LEMMA ReleaseOK ==
    ASSUME Inductive, NEW t \in Thread, Release(t)
    PROVE  Kept /\ AbsStep /\ PermitStep
<1>0. Sem \in Obj /\ MaxHold \in Nat /\ SemMax \in Nat BY SemAssumption
<1>1. /\ t = k.cur /\ t # Idle /\ pc[t] = "run" /\ alive
      /\ \A u \in Thread : pc[u] \notin {"delall", "delone", "delobj"}
  BY CallFacts DEF Release
<1>2. /\ k' = ReleasedKernel /\ value' = ReleasedValue /\ order' = ReleasedOrder
      /\ isr' = isr /\ alive' = alive
      /\ IF k.wait[Sem] # << >> THEN pc' = [pc EXCEPT ![t] = "sched"] ELSE pc' = pc
  BY DEF Release, Goto
<1>3. holds' \in [Thread -> 0 .. MaxHold] /\ \A u \in Thread : holds'[u] <= holds[u]
  <2>1. \A u \in Thread : holds[u] \in 0 .. MaxHold BY Now
  <2>2. CASE holds[t] > 0 /\ holds' = [holds EXCEPT ![t] = holds[t] - 1]
    <3>1. holds[t] - 1 \in 0 .. MaxHold BY <1>0, <2>1, <2>2
    <3> QED BY <1>0, <2>1, <2>2, <3>1, Now
  <2>3. CASE holds' = holds BY <1>0, <2>1, <2>3, Now
  <2> QED BY <2>2, <2>3 DEF Release
<1>3a. ASSUME PermitRules
       PROVE  holds[t] = holds'[t] + 1 /\ \A u \in Thread \ {t} : holds'[u] = holds[u]
  <2>1. holds[t] > 0 /\ holds' = [holds EXCEPT ![t] = holds[t] - 1] BY <1>3a DEF PermitRules, Release
  <2>2. holds[t] \in 0 .. MaxHold BY Now
  <2>3. holds'[t] = holds[t] - 1 /\ \A u \in Thread \ {t} : holds'[u] = holds[u] BY <2>1, Now
  <2> QED BY <1>0, <2>2, <2>3
<1>3b. value \in Nat /\ holds \in [Thread -> 0 .. MaxHold] BY <1>0, Now
<1>4. CASE k.wait[Sem] # << >>
  <2> DEFINE u == Head(k.wait[Sem])
  <2>1. k' = _ipc_list_resume(k, Sem) /\ pc' = [pc EXCEPT ![t] = "sched"]
        /\ order' = RemoveFirst(order, u)
    BY <1>2, <1>4 DEF ReleasedKernel, ReleasedOrder
  <2>2. /\ k' \in KState /\ ThreadsOK' /\ u \in Thread /\ u \in ToSet(k.wait[Sem])
        /\ k'.prio = k.prio /\ k'.err = k.err /\ k'.wait = WaitWithout(k, u)
    BY <1>0, <1>1, <1>4, <2>1, Now, ResumeStep
  <2>3. /\ pc' \in [Thread -> SemPC]
        /\ \A v \in Thread : pc'[v] = pc[v] \/ (pc[v] = "run" /\ pc'[v] = "sched")
    BY <1>1, <2>1, Now DEF SemPC
  <2> HIDE DEF u
  <2>4. /\ Kept /\ AbsStep /\ value' = value
        /\ OutcomeOf(k, pc, u) = "waiting" /\ OutcomeOf(k', pc', u) = "granted"
        /\ \A v \in Thread \ {u} : OutcomeOf(k', pc', v) = OutcomeOf(k, pc, v)
    BY <1>1, <1>2, <1>3, <1>4, <2>1, <2>2, <2>3, GrantOK DEF u
  <2>5. ASSUME PermitRules PROVE PermitStep
    BY <1>2, <1>3, <1>3a, <1>3b, <2>2, <2>4, <2>5, PermitGranted
  <2> QED BY <2>4, <2>5 DEF PermitStep
<1>5. CASE k.wait[Sem] = << >>
  <2>1. k' = k /\ pc' = pc /\ order' = order BY <1>2, <1>5 DEF ReleasedKernel, ReleasedOrder
  <2>2. value' = IF value < SemMax THEN value + 1 ELSE value BY <1>2, <1>5 DEF ReleasedValue
  <2>3. value' \in 0 .. SemMax BY <1>0, <2>2, Now
  <2>4. \A u \in Thread : pc'[u] \in {"wait", "waited"} => holds'[u] < MaxHold
    <3>1. \A u \in Thread : holds[u] \in 0 .. MaxHold /\ holds'[u] \in 0 .. MaxHold BY <1>3, Now
    <3> QED BY <1>0, <1>3, <2>1, <3>1, Now
  <2>5. ThreadsOK' BY <2>1, StillKept
  <2>6. Kept BY <1>2, <1>3, <1>5, <2>1, <2>3, <2>4, <2>5, Now, QuietKept
  <2>7. order = << >> BY <1>5, NobodyQueued
  <2>8. AbsStep
    <3>1. \A u \in Thread : OutcomeOf(k', pc', u) = OutcomeOf(k, pc, u) BY <2>1
    <3>2. CASE value < SemMax BY <2>1, <2>2, <2>7, <3>1, <3>2, AbsRelease
    <3>3. CASE ~(value < SemMax) BY <2>1, <2>2, <3>1, <3>3, AbsStutter
    <3> QED BY <3>2, <3>3
  <2>9. ASSUME PermitRules PROVE PermitStep
    <3>1. \A u \in Thread : OutcomeOf(k', pc', u) = OutcomeOf(k, pc, u) BY <2>1
    <3> QED BY <1>1, <1>2, <1>3, <1>3a, <1>3b, <2>2, <2>9, <3>1, PermitReleased
  <2> QED BY <2>6, <2>8, <2>9 DEF PermitStep
<1> QED BY <1>4, <1>5

LEMMA IsrReleaseOK ==
    ASSUME Inductive, IsrRelease
    PROVE  Kept /\ AbsStep /\ PermitStep
<1>0. Sem \in Obj /\ MaxHold \in Nat /\ SemMax \in Nat BY SemAssumption
<1>1. alive /\ value' = ReleasedValue /\ order' = ReleasedOrder /\ pc' = pc /\ isr' = isr
      /\ alive' = alive /\ holds' = holds
  BY DEF IsrRelease, Usable
<1>2. \A u \in Thread : holds[u] \in 0 .. MaxHold BY Now
<1>3. \A u \in Thread : holds'[u] <= holds[u] BY <1>0, <1>1, <1>2
<1>6. PermitStep BY DEF PermitStep, PermitRules, IsrRelease
<1>4. CASE k.wait[Sem] # << >>
  <2> DEFINE u == Head(k.wait[Sem])
  <2>1. k' = rt_schedule(_ipc_list_resume(k, Sem)) /\ order' = RemoveFirst(order, u)
    BY <1>1, <1>4 DEF IsrRelease, ReleasedKernel, ReleasedOrder
  <2>2. /\ k' \in KState /\ ThreadsOK' /\ u \in Thread /\ u \in ToSet(k.wait[Sem])
        /\ k'.prio = k.prio /\ k'.err = k.err /\ k'.wait = WaitWithout(k, u)
    BY <1>0, <1>1, <1>4, <2>1, Now, IsrResumeStep
  <2>3. Kept /\ AbsStep BY <1>1, <1>3, <1>4, <2>1, <2>2, Now, GrantOK
  <2> QED BY <1>6, <2>3
<1>5. CASE k.wait[Sem] = << >>
  <2>1. k' = k /\ order' = order BY <1>1, <1>5 DEF IsrRelease, ReleasedOrder
  <2>2. value' = IF value < SemMax THEN value + 1 ELSE value BY <1>1, <1>5 DEF ReleasedValue
  <2>3. value' \in 0 .. SemMax BY <1>0, <2>2, Now
  <2>4. ThreadsOK' BY <1>1, <2>1, StillKept
  <2>5. Kept BY <1>1, <1>5, <2>1, <2>3, <2>4, Now, QuietKept
  <2>6. order = << >> BY <1>5, NobodyQueued
  <2>7. AbsStep
    <3>1. \A u \in Thread : OutcomeOf(k', pc', u) = OutcomeOf(k, pc, u) BY <1>1, <2>1
    <3>2. CASE value < SemMax BY <2>1, <2>2, <2>6, <3>1, <3>2, AbsRelease
    <3>3. CASE ~(value < SemMax) BY <2>1, <2>2, <3>1, <3>3, AbsStutter
    <3> QED BY <3>2, <3>3
  <2> QED BY <1>6, <2>5, <2>7
<1> QED BY <1>4, <1>5

\* RT_IPC_CMD_RESET.
LEMMA ResetOK ==
    ASSUME Inductive, NEW t \in Thread, NEW v \in ResetValues, Reset(t, v)
    PROVE  Kept /\ AbsStep /\ PermitStep
<1>0. Sem \in Obj /\ SemMax \in Nat /\ v \in Nat BY SemAssumption
<1>1. /\ t = k.cur /\ t # Idle /\ pc[t] = "run" /\ alive
      /\ \A u \in Thread : pc[u] \notin {"delall", "delone", "delobj"}
      /\ \A o \in Obj : t \notin ToSet(k.wait[o])
  BY CallFacts DEF Reset
<1>2. /\ k' = ResumeAll(k, Sem) /\ value' = v % (SemMax + 1) /\ order' = << >>
      /\ pc' = [pc EXCEPT ![t] = "sched"] /\ isr' = isr /\ alive' = alive /\ holds' = holds
  BY DEF Reset, Goto
<1>3. /\ k' \in KState /\ ThreadsOK' /\ ToSet(k.wait[Sem]) \subseteq Thread
      /\ k'.wait = [k.wait EXCEPT ![Sem] = << >>] /\ k'.prio = k.prio
      /\ k'.err = [u \in Thread |-> IF u \in ToSet(k.wait[Sem]) THEN "ERROR" ELSE k.err[u]]
  BY <1>0, <1>1, <1>2, Now, ResumeAllStep
<1>4. k'.wait[Sem] = << >> /\ \A o \in Obj \ {Sem} : k'.wait[o] = << >>
  <2>1. k.wait \in [Obj -> Seq(Thread)] BY Now DEF KState
  <2> QED BY <1>0, <1>3, <2>1, Now
<1>5. ToSet(<< >>) = {}
  <2>1. << >> \in Seq(Thread) OBVIOUS
  <2> QED BY <2>1, EmptyFacts
<1>6. value' \in 0 .. SemMax BY <1>0, <1>2
<1>7. pc' \in [Thread -> SemPC] /\ pc'[t] = "sched" /\ \A u \in Thread \ {t} : pc'[u] = pc[u]
  BY <1>2, Now DEF SemPC
<1>8. Kept
  <2>1. \A u \in Thread : pc'[u] \in {"wait", "waited"} => holds'[u] < MaxHold BY <1>2, <1>7, Now
  <2> QED BY <1>2, <1>3, <1>4, <1>5, <1>6, <1>7, <2>1, Now, OrderedEmpty DEF Kept
<1>9. AbsStep
  <2>1. ASSUME NEW u \in Thread
        PROVE  OutcomeOf(k', pc', u) =
                 IF OutcomeOf(k, pc, u) = "waiting" THEN "failed" ELSE OutcomeOf(k, pc, u)
    <3>1. CASE pc[u] \notin {"wait", "waited"}
      <4>1. pc'[u] \notin {"wait", "waited"} BY <1>7, <3>1
      <4> QED BY <3>1, <4>1 DEF OutcomeOf
    <3>2. CASE pc[u] \in {"wait", "waited"}
      <4>1. pc'[u] = pc[u] BY <1>1, <1>7, <3>2
      <4>2. u \notin ToSet(k'.wait[Sem]) BY <1>4, <1>5
      <4>3. k'.err[u] = IF u \in ToSet(k.wait[Sem]) THEN "ERROR" ELSE k.err[u] BY <1>3
      <4> QED BY <3>2, <4>1, <4>2, <4>3 DEF OutcomeOf
    <3> QED BY <3>1, <3>2
  <2> QED BY <1>2, <1>6, <2>1, AbsRenew
<1>10. PermitStep BY DEF PermitStep, PermitRules, Reset
<1> QED BY <1>8, <1>9, <1>10

\* The list of waiting threads and their error codes stay, and no thread enters
\* or leaves a waiting call.
LEMMA QuietOK ==
    ASSUME Inductive, k' \in KState, ThreadsOK', k'.wait = k.wait, k'.prio = k.prio,
           \A u \in Thread : pc[u] \in {"wait", "waited"} => k'.err[u] = k.err[u],
           \A u \in Thread : pc'[u] \in {"wait", "waited"} <=> pc[u] \in {"wait", "waited"},
           pc' \in [Thread -> SemPC], isr' \in {"none", "timers"},
           \A u \in Thread : pc'[u] = "delobj" => k.wait[Sem] = << >>,
           UNCHANGED <<value, holds, order>>,
           alive' = alive \/ (alive' = FALSE /\ k.wait[Sem] = << >>)
    PROVE  Kept /\ AbsStep /\ PermitStep
<1>0. value' = value /\ holds' = holds /\ order' = order OBVIOUS
<1>1. \A u \in ToSet(k.wait[Sem]) : k'.err[u] = k.err[u]
  <2>1. ToSet(k.wait[Sem]) \subseteq Thread BY Now, EmptyFacts DEF Ordered
  <2> QED BY <2>1, Now, SemAssumption DEF ThreadsOK, Blocked
<1>2. \A u \in Thread : pc'[u] \in {"wait", "waited"} => holds'[u] < MaxHold BY <1>0, Now
<1>3. value' > 0 \/ ~alive' => k.wait[Sem] = << >> BY <1>0, Now
<1>4. alive' \in BOOLEAN BY Now
<1>5. Kept BY <1>0, <1>1, <1>2, <1>3, <1>4, Now, QuietKept
<1>6. \A u \in Thread : OutcomeOf(k', pc', u) = OutcomeOf(k, pc, u) BY DEF OutcomeOf
<1>7. AbsStep BY <1>0, <1>6, AbsStutter
<1>8. PermitStep BY <1>0, <1>6, PermitsStill
<1> QED BY <1>5, <1>7, <1>8

\* rt_sem_delete: its begin, the turns of _ipc_list_resume_all and its end.
LEMMA DeleteBeginOK ==
    ASSUME Inductive, NEW t \in Thread, DeleteBegin(t)
    PROVE  Kept /\ AbsStep /\ PermitStep
<1>1. t = k.cur /\ t # Idle /\ pc[t] = "run" BY CallFacts DEF DeleteBegin
<1>2. /\ pc' = [pc EXCEPT ![t] = "delall"] /\ k' = k /\ isr' = isr /\ alive' = alive
      /\ UNCHANGED <<value, holds, order>>
  BY DEF DeleteBegin, Goto
<1>3. ThreadsOK' BY <1>1, <1>2, Now, GotoStep
<1>4. /\ pc' \in [Thread -> SemPC] /\ pc'[t] = "delall" /\ \A u \in Thread \ {t} : pc'[u] = pc[u]
  BY <1>2, Now DEF SemPC, Deleting
<1> QED BY <1>1, <1>2, <1>3, <1>4, Now, QuietOK

LEMMA DeleteResumeOK ==
    ASSUME Inductive, NEW t \in Thread, DeleteResume(t)
    PROVE  Kept /\ AbsStep /\ PermitStep
<1>0. Sem \in Obj /\ MaxHold \in Nat BY SemAssumption
<1>1. value' = value /\ alive' = alive /\ holds' = holds BY DEF DeleteResume
<1>2. CASE ResumeAllLook(t, Sem) /\ UNCHANGED order
  <2>1. /\ k' = k /\ ThreadsOK' /\ pc[t] = "delall" /\ isr' = isr
        /\ pc' = [pc EXCEPT ![t] = IF k.wait[Sem] = << >> THEN "delobj" ELSE "delone"]
    BY <1>0, <1>2, Now, LookStep
  <2>2. /\ pc' \in [Thread -> SemPC] /\ \A u \in Thread \ {t} : pc'[u] = pc[u]
        /\ pc'[t] \in {"delone", "delobj"} /\ (pc'[t] = "delobj" => k.wait[Sem] = << >>)
    BY <2>1, Now DEF SemPC, Deleting
  <2>3. \A u \in Thread : pc'[u] = "delobj" => k.wait[Sem] = << >> BY <2>2, Now
  <2>4. \A u \in Thread : pc'[u] \in {"wait", "waited"} <=> pc[u] \in {"wait", "waited"}
    BY <2>1, <2>2
  <2> QED BY <1>1, <1>2, <2>1, <2>2, <2>3, <2>4, Now, QuietOK
<1>3. CASE ResumeAllTurn(t, Sem) /\ order' = ReleasedOrder
  <2> DEFINE u == Head(k.wait[Sem])
  <2>1. /\ k' \in KState /\ ThreadsOK' /\ pc[t] = "delone" /\ isr' = isr
        /\ pc' = [pc EXCEPT ![t] = "delall"] /\ k.wait[Sem] # << >>
        /\ u \in Thread /\ u \in ToSet(k.wait[Sem]) /\ k'.prio = k.prio
        /\ k'.err = [k.err EXCEPT ![u] = "ERROR"] /\ k'.wait = WaitWithout(k, u)
    BY <1>0, <1>3, Now, TurnStep
  <2>2. order' = RemoveFirst(order, u) BY <1>3, <2>1 DEF ReleasedOrder
  <2> HIDE DEF u
  <2>3. /\ pc' \in [Thread -> SemPC] /\ pc'[t] = "delall" /\ \A v \in Thread \ {t} : pc'[v] = pc[v]
    BY <2>1, Now DEF SemPC, Deleting
  <2>4. k.err \in [Thread -> Err] BY Now DEF KState
  <2>5. k'.err[u] = "ERROR" /\ \A v \in Thread \ {u} : k'.err[v] = k.err[v] BY <2>1, <2>4
  <2>6. \A v \in Thread : holds'[v] <= holds[v]
    <3>1. \A v \in Thread : holds[v] \in 0 .. MaxHold BY Now
    <3> QED BY <1>0, <1>1, <3>1
  <2>7. Kept BY <1>1, <2>1, <2>2, <2>3, <2>5, <2>6, Now, LeaveKept
  <2>8. AbsStep /\ PermitStep
    <3>1. ToSet(k'.wait[Sem]) = ToSet(k.wait[Sem]) \ {u}
      <4>1. k \in KState /\ KernelOK(k, {}) BY Now DEF ThreadsOK
      <4> QED BY <1>0, <2>1, <4>1, InWaitWithout
    <3>2. pc[u] \in {"wait", "waited"} BY <1>0, <2>1, Now DEF ThreadsOK, Blocked
    <3>3. pc'[u] = pc[u] BY <2>1, <2>3, <3>2
    <3>4. OutcomeOf(k, pc, u) = "waiting" BY <2>1, <3>2 DEF OutcomeOf
    <3>5. OutcomeOf(k', pc', u) = "failed" BY <2>5, <3>1, <3>2, <3>3 DEF OutcomeOf
    <3>6. \A v \in Thread \ {u} : OutcomeOf(k', pc', v) = OutcomeOf(k, pc, v)
      BY <2>1, <2>3, <2>5, <3>1 DEF OutcomeOf
    <3>7. PermitStep BY <1>1, <3>4, <3>5, <3>6, PermitsStill
    <3> QED BY <1>1, <2>1, <2>2, <3>4, <3>5, <3>6, <3>7, AbsFail
  <2> QED BY <2>7, <2>8
<1> QED BY <1>2, <1>3 DEF DeleteResume

LEMMA DeleteEndOK ==
    ASSUME Inductive, NEW t \in Thread, DeleteEnd(t)
    PROVE  Kept /\ AbsStep /\ PermitStep
<1>1. /\ t = k.cur /\ pc[t] = "delobj" /\ pc' = [pc EXCEPT ![t] = "run"]
      /\ k' = k /\ isr' = isr /\ alive' = FALSE /\ UNCHANGED <<value, holds, order>>
  BY DEF DeleteEnd, Executing, Goto
<1>2. t # Idle /\ k.wait[Sem] = << >> BY <1>1, Now DEF ThreadsOK
<1>3. ThreadsOK' BY <1>1, <1>2, Now, GotoStep
<1>4. /\ pc' \in [Thread -> SemPC] /\ pc'[t] = "run" /\ \A u \in Thread \ {t} : pc'[u] = pc[u]
  BY <1>1, Now DEF SemPC
<1> QED BY <1>1, <1>2, <1>3, <1>4, Now, QuietOK

\* rt_sem_create after a deletion.
LEMMA CreateOK ==
    ASSUME Inductive, NEW t \in Thread, Create(t)
    PROVE  Kept /\ AbsStep /\ PermitStep
<1>0. InitValue \in 0 .. SemMax /\ MaxHold \in Nat BY SemAssumption
<1>1. /\ ~alive /\ alive' = TRUE /\ value' = InitValue /\ holds' = [u \in Thread |-> 0]
      /\ k' = k /\ pc' = pc /\ isr' = isr /\ order' = order
      /\ \A u \in Thread \ {Idle} : pc[u] \notin {"wait", "waited"}
  BY DEF Create, Worker, Blocked
<1>2. k.wait[Sem] = << >> BY <1>1, Now
<1>3. \A u \in Thread : pc[u] \notin {"wait", "waited"} BY <1>1, Now DEF ThreadsOK
<1>4. ThreadsOK' BY <1>1, StillKept
<1>5. Kept BY <1>0, <1>1, <1>2, <1>3, <1>4, Now, QuietKept
<1>6. order' = << >> BY <1>1, <1>2, NobodyQueued
<1>7. \A u \in Thread : OutcomeOf(k, pc, u) = "none" /\ OutcomeOf(k', pc', u) = "none"
  BY <1>1, <1>3 DEF OutcomeOf
<1>8. AbsStep BY <1>0, <1>1, <1>6, <1>7, AbsRenew
<1>9. PermitStep
  <2>1. Awarded(k', pc') = {} BY <1>7 DEF Awarded
  <2>2. HeldBy(holds') = {} BY <1>0, <1>1 DEF HeldBy
  <2>3. Cardinality({}) = 0 BY FS_EmptySet
  <2>4. value' + 0 + 0 = InitValue BY <1>0, <1>1, SemAssumption
  <2>5. PermitsConserved' BY <2>1, <2>2, <2>3, <2>4, Permits
  <2> QED BY <2>5 DEF PermitStep
<1> QED BY <1>5, <1>8, <1>9

\* rt_thread_sleep and its return.
LEMMA PauseOK ==
    ASSUME Inductive, NEW t \in Thread, Pause(t)
    PROVE  Kept /\ AbsStep /\ PermitStep
<1>0. UNCHANGED <<value, holds, order>> /\ alive' = alive BY DEF Pause
<1>1. k.err \in [Thread -> Err] BY Now DEF KState
<1>2. CASE Sleep(t)
  <2>1. /\ k' \in KState /\ ThreadsOK'
        /\ k'.wait = k.wait /\ k'.err = [k.err EXCEPT ![t] = "EOK"] /\ k'.prio = k.prio
        /\ pc[t] = "run" /\ pc' = [pc EXCEPT ![t] = "sleep"] /\ isr' = isr
    BY <1>2, Now, SleepStep
  <2>2. /\ pc' \in [Thread -> SemPC] /\ pc'[t] = "sleep" /\ \A u \in Thread \ {t} : pc'[u] = pc[u]
    BY <2>1, Now DEF SemPC
  <2>3. \A u \in Thread \ {t} : k'.err[u] = k.err[u] BY <1>1, <2>1
  <2> QED BY <1>0, <2>1, <2>2, <2>3, Now, QuietOK
<1>3. CASE SleepReturn(t)
  <2>1. /\ k' \in KState /\ ThreadsOK' /\ pc[t] = "slept"
        /\ k'.wait = k.wait /\ k'.prio = k.prio /\ pc' = [pc EXCEPT ![t] = "run"] /\ isr' = isr
        /\ \A u \in Thread \ {t} : k'.err[u] = k.err[u]
    BY <1>3, Now, SleepReturnStep
  <2>2. /\ pc' \in [Thread -> SemPC] /\ pc'[t] = "run" /\ \A u \in Thread \ {t} : pc'[u] = pc[u]
    BY <2>1, Now DEF SemPC
  <2> QED BY <1>0, <2>1, <2>2, Now, QuietOK
<1> QED BY <1>2, <1>3 DEF Pause

\* The rt_schedule that ends a call, and the tick interrupt.
LEMMA RescheduleOK ==
    ASSUME Inductive, NEW t \in Thread, Reschedule(t)
    PROVE  Kept /\ AbsStep /\ PermitStep
<1>0. UNCHANGED <<value, holds, order>> /\ alive' = alive /\ isr' = isr
  BY DEF Reschedule, Schedule
<1>1. /\ k' \in KState /\ ThreadsOK'
      /\ k'.wait = k.wait /\ k'.err = k.err /\ k'.prio = k.prio
      /\ pc' = [pc EXCEPT ![t] = After[pc[t]]] /\ pc[t] \in {"sched", "sleep", "wait"}
  BY Now, ScheduleStep DEF Reschedule
<1>2. /\ pc' \in [Thread -> SemPC] /\ pc'[t] \in {"run", "slept", "waited"}
      /\ pc[t] = "wait" <=> pc'[t] = "waited"
      /\ \A u \in Thread \ {t} : pc'[u] = pc[u]
  <2>1. After["sched"] = "run" /\ After["sleep"] = "slept" /\ After["wait"] = "waited"
    BY DEF After
  <2>2. After[pc[t]] \in SemPC BY <1>1, <2>1 DEF SemPC
  <2> QED BY <1>1, <2>1, <2>2, Now
<1>3. \A u \in Thread : pc'[u] \in {"wait", "waited"} <=> pc[u] \in {"wait", "waited"}
  BY <1>1, <1>2
<1>4. \A u \in Thread : pc'[u] = "delobj" => k.wait[Sem] = << >> BY <1>2, Now
<1> QED BY <1>0, <1>1, <1>2, <1>3, <1>4, Now, QuietOK

LEMMA TickOK ==
    ASSUME Inductive, Tick
    PROVE  Kept /\ AbsStep /\ PermitStep
<1>0. UNCHANGED <<value, holds, order>> /\ alive' = alive BY DEF Tick
<1>1. /\ k' \in KState /\ ThreadsOK'
      /\ k'.wait = k.wait /\ k'.err = k.err /\ k'.prio = k.prio
      /\ pc' = pc /\ isr' \in {"none", "timers"}
  BY Now, TickStep DEF Tick
<1> QED BY <1>0, <1>1, Now, QuietOK

\* The timer of a waiting or sleeping thread expires.
LEMMA TimeoutStepOK ==
    ASSUME Inductive, NEW t \in Thread, Timeout(t)
    PROVE  Kept /\ AbsStep /\ PermitStep
<1>0. Sem \in Obj /\ MaxHold \in Nat BY SemAssumption
<1>1. /\ order' = RemoveFirst(order, t) /\ value' = value /\ alive' = alive /\ holds' = holds
  BY DEF Timeout
<1>2. /\ k' \in KState /\ ThreadsOK' /\ k.stat[t] = "SUSPEND"
      /\ k'.wait = WaitWithout(k, t) /\ k'.err = [k.err EXCEPT ![t] = "ETIMEOUT"]
      /\ k'.prio = k.prio /\ pc' = pc /\ isr' = isr
  BY Now, TimerStep DEF Timeout
<1>3. k.err \in [Thread -> Err] BY Now DEF KState
<1>4. k'.err[t] = "ETIMEOUT" /\ \A u \in Thread \ {t} : k'.err[u] = k.err[u] BY <1>2, <1>3
<1>5. \A v \in Thread : holds'[v] <= holds[v]
  <2>1. \A v \in Thread : holds[v] \in 0 .. MaxHold BY Now
  <2> QED BY <1>0, <1>1, <2>1
<1>6. Kept BY <1>1, <1>2, <1>4, <1>5, Now, LeaveKept
<1>7. AbsStep /\ PermitStep
  <2>1. ToSet(k'.wait[Sem]) = ToSet(k.wait[Sem]) \ {t}
    <3>1. k \in KState /\ KernelOK(k, {}) BY Now DEF ThreadsOK
    <3> QED BY <1>0, <1>2, <3>1, InWaitWithout
  <2>2. \A u \in Thread \ {t} : OutcomeOf(k', pc', u) = OutcomeOf(k, pc, u)
    BY <1>2, <1>4, <2>1 DEF OutcomeOf
  <2>3. CASE t \in ToSet(k.wait[Sem])
    <3>1. pc[t] \in {"wait", "waited"} BY <1>0, <2>3, Now DEF ThreadsOK, Blocked
    <3>2. OutcomeOf(k, pc, t) = "waiting" BY <2>3, <3>1 DEF OutcomeOf
    <3>3. OutcomeOf(k', pc', t) = "failed" BY <1>2, <1>4, <2>1, <3>1 DEF OutcomeOf
    <3>4. PermitStep BY <1>1, <2>2, <3>2, <3>3, PermitsStill
    <3> QED BY <1>1, <2>2, <3>2, <3>3, <3>4, AbsFail
  <2>4. CASE t \notin ToSet(k.wait[Sem])
    <3>1. order \in Seq(Thread) /\ t \notin ToSet(order) BY <2>4, Now DEF Ordered
    <3>2. order' = order BY <1>1, <3>1, RemoveAbsent
    <3>3. \A o \in Obj : t \notin ToSet(k.wait[o])
      <4>1. ToSet(<< >>) = {}
        <5>1. << >> \in Seq(Thread) OBVIOUS
        <5> QED BY <5>1, EmptyFacts
      <4> QED BY <2>4, <4>1, Now
    <3>4. pc[t] \in {"sleep", "slept"} BY <1>2, <3>3, Now DEF ThreadsOK
    <3>5. OutcomeOf(k', pc', t) = OutcomeOf(k, pc, t) BY <1>2, <3>4 DEF OutcomeOf
    <3>6. PermitStep BY <1>1, <2>2, <3>5, PermitsStill
    <3> QED BY <1>1, <2>2, <3>2, <3>5, <3>6, AbsStutter
  <2> QED BY <2>3, <2>4
<1> QED BY <1>6, <1>7

-----------------------------------------------------------------------------
(* The theorems *)

LEMMA InitOK == Init => Inductive /\ Abs!AbsInit
<1> SUFFICES ASSUME Init PROVE Inductive /\ Abs!AbsInit OBVIOUS
<1>1. /\ k = KBoot /\ pc = [t \in Thread |-> "run"] /\ isr = "none" /\ value = InitValue
      /\ alive = TRUE /\ holds = [t \in Thread |-> 0] /\ order = << >>
  BY DEF Init
<1>2. Sem \in Obj /\ MaxHold \in Nat /\ InitValue \in 0 .. SemMax BY SemAssumption
<1>3. k \in KState /\ ThreadsOK /\ k.prio = BootPrio /\ \A o \in Obj : k.wait[o] = << >>
  BY <1>1, BootThreads
<1>4. TypeOK
  <2>1. pc \in [Thread -> SemPC] BY <1>1 DEF SemPC
  <2>2. holds \in [Thread -> 0 .. MaxHold] BY <1>1, <1>2
  <2> QED BY <1>1, <1>2, <1>3, <2>1, <2>2 DEF TypeOK
<1>5. NoVainWait BY <1>2, <1>3, <1>4 DEF NoVainWait
<1>6. ToSet(<< >>) = {} /\ IsInjective(<< >>)
  <2>1. << >> \in Seq(Thread) OBVIOUS
  <2> QED BY <2>1, EmptyFacts, OrderedEmpty DEF Ordered
<1>7. Served BY <1>1, <1>2, <1>3, <1>6 DEF Served, Blocked
<1>8. InGrantOrder BY <1>2, <1>3 DEF InGrantOrder
<1>9. Abs!AbsInit BY <1>1 DEF Abs!AbsInit, Outcome, Blocked
<1> QED BY <1>3, <1>5, <1>7, <1>8, <1>9 DEF Inductive

LEMMA NextOK == ASSUME Inductive, [Next]_semVars PROVE Inductive' /\ AbsStep /\ PermitStep
<1>1. Kept /\ AbsStep /\ PermitStep
  <2>1. ASSUME NEW t \in Thread, SemStep(t) PROVE Kept /\ AbsStep /\ PermitStep
    <3>1. CASE TakeRefused(t) BY <3>1, UnchangedOK DEF TakeRefused
    <3>2. CASE \E w \in Waits : TakeWait(t, w) BY <3>2, TakeWaitOK
    <3>3. CASE \E v \in ResetValues : Reset(t, v) BY <3>3, ResetOK
    <3> QED BY <2>1, <3>1, <3>2, <3>3, TakeOK, TakeReturnOK, ReleaseOK, ConsumeOK,
               DeleteBeginOK, DeleteResumeOK, DeleteEndOK, CreateOK, PauseOK DEF SemStep
  <2>2. CASE UNCHANGED semVars BY <2>2, UnchangedOK
  <2> QED BY <2>1, <2>2, RescheduleOK, TimeoutStepOK, IsrReleaseOK, TickOK DEF Next
<1> QED BY <1>1, KeptInductive

\* The inductive invariant of the semaphore.
THEOREM InductiveInvariant == Spec => []Inductive
<1>1. Init => Inductive BY InitOK
<1>2. Inductive /\ [Next]_semVars => Inductive' BY NextOK
<1> QED BY <1>1, <1>2, PTL DEF Spec

\* No wakeup is lost: nobody waits in rt_sem_take while a permit is available or
\* the semaphore is gone, and sem->value never leaves its range.
THEOREM NobodyWaitsInVain == Spec => []NoVainWait
<1>1. Inductive => NoVainWait BY DEF Inductive
<1> QED BY <1>1, InductiveInvariant, PTL

\* A thread in rt_sem_take is suspended exactly while it is on the suspend list:
\* the tick interrupt between the region and its rt_schedule leaves none behind.
THEOREM WaitersAlwaysSuspended == Spec => []WaitersSuspended
<1>1. Inductive => WaitersSuspended
  <2> SUFFICES ASSUME Inductive, NEW t \in Worker
               PROVE  /\ t \in ToSet(k.wait[Sem]) =>
                            pc[t] \in {"wait", "waited"} /\ k.stat[t] = "SUSPEND"
                      /\ Blocked(t) /\ t \notin ToSet(k.wait[Sem]) =>
                            k.stat[t] \in {"READY", "RUNNING"}
    BY DEF WaitersSuspended
  <2>1. t \in Thread /\ Sem \in Obj BY SemAssumption DEF Worker
  <2>2. ThreadsOK /\ KernelOK(k, {}) /\ WaitListsOK(k) BY Now DEF ThreadsOK, KernelOK
  <2>3. t \in ToSet(k.wait[Sem]) => pc[t] \in {"wait", "waited"} /\ k.stat[t] = "SUSPEND"
    BY <2>1, <2>2 DEF ThreadsOK, WaitListsOK, Blocked
  <2>4. ASSUME Blocked(t), t \notin ToSet(k.wait[Sem]) PROVE k.stat[t] \in {"READY", "RUNNING"}
    <3>1. ToSet(<< >>) = {}
      <4>1. << >> \in Seq(Thread) OBVIOUS
      <4> QED BY <4>1, EmptyFacts
    <3>2. \A o \in Obj : t \notin ToSet(k.wait[o]) BY <2>4, <3>1, Now
    <3>3. pc[t] \notin {"sleep", "slept"} BY <2>4 DEF Blocked
    <3> QED BY <2>1, <2>2, <3>2, <3>3 DEF ThreadsOK
  <2> QED BY <2>3, <2>4
<1> QED BY <1>1, InductiveInvariant, PTL

\* Permits are neither made nor lost as long as threads release only permits they
\* hold: rt_sem_release gives a permit to exactly one of sem->value and the first
\* waiting thread, and a time-out or a deletion takes none from a thread that was
\* handed one and has not yet run again.
THEOREM PermitsAreConserved ==
    ASSUME IsFiniteSet(Thread), PermitRules
    PROVE  Spec => []PermitsConserved
<1>1. Init => Inductive /\ PermitsConserved
  <2> SUFFICES ASSUME Init PROVE PermitsConserved BY InitOK
  <2>1. value = InitValue /\ holds = [t \in Thread |-> 0] /\ pc = [t \in Thread |-> "run"]
    BY DEF Init
  <2>2. InitValue \in Nat /\ MaxHold \in Nat BY SemAssumption
  <2>3. Awarded(k, pc) = {} BY <2>1 DEF Awarded, OutcomeOf
  <2>4. HeldBy(holds) = {} BY <2>1, <2>2 DEF HeldBy
  <2>5. Cardinality({}) = 0 BY FS_EmptySet
  <2>6. value + 0 + 0 = InitValue BY <2>1, <2>2
  <2> QED BY <2>3, <2>4, <2>5, <2>6, Permits
<1>2. Inductive /\ PermitsConserved /\ [Next]_semVars => Inductive' /\ PermitsConserved'
  BY NextOK DEF PermitStep
<1> QED BY <1>1, <1>2, PTL DEF Spec

\* The semaphore of ipc.c implements the counting semaphore: every permit that is
\* released while threads wait goes to the one that is due, and to nobody else.
THEOREM SemaphoreRefinement == Spec => ImplementsSemaphore
<1>1. Init => Inductive /\ Abs!AbsInit BY InitOK
<1>2. Inductive /\ [Next]_semVars => Inductive' /\ [Abs!AbsNext]_(Abs!absVars)
  BY NextOK DEF AbsStep
<1> QED BY <1>1, <1>2, PTL DEF Spec, ImplementsSemaphore, Abs!AbsSpec

=============================================================================
