--------------------------- MODULE ServiceProofs ---------------------------
(***************************************************************************)
(* Proofs about the services around the kernel: completions, memory pools, *)
(* data queues, pipes, work queues, ring buffers and the heap.  The lemmas *)
(* about lists are those of KernelProofs.                                  *)
(***************************************************************************)
EXTENDS Completion, MemPool, DataQueue, Pipe, WorkQueue, RingBuffer, Heap, KernelProofs,
        FiniteSetTheorems

-----------------------------------------------------------------------------
(* Lists and sets *)

\* The threads of a finite set that satisfy something can be counted.
LEMMA Counted ==
    ASSUME NEW S \in SUBSET Task
    PROVE  IsFiniteSet(S) /\ Cardinality(S) \in Nat
<1>1. IsFiniteSet(Task) BY TaskConstants
<1>2. IsFiniteSet(S) BY <1>1, FS_Subset
<1> QED BY <1>2, FS_CardinalityType

\* A record of a thread that is known field by field.
LEMMA TaskFields ==
    ASSUME NEW th \in [Task -> TaskState], NEW t \in Task
    PROVE  /\ th[t].at \in {"idle", "call", "wait"}
           /\ th[t].time \in {"none", "limited", "forever"}
           /\ th[t].err \in {"ok", "timeout", "error"}
  BY DEF TaskState

LEMMA AtRestType == AtRest \in TaskState BY DEF AtRest, TaskState

LEMMA WaitingType == ASSUME NEW time \in TaskTimes PROVE Waiting(time) \in TaskState
  BY TaskConstants DEF Waiting, TaskState

-----------------------------------------------------------------------------
(* Completions *)

\* rt_completion_wait takes a done, or suspends its one thread.
LEMMA CmplWaitOK ==
    ASSUME CmplInductive, NEW t \in Task, NEW time \in TaskTimes, CmplWait(t, time)
    PROVE  CmplInductive'
<1>1. t = CmplWaiter /\ cmplTask[t].at = "idle" BY DEF CmplWait
<1>2. \A u \in Task : cmplTask[u].at # "wait"
  BY <1>1 DEF CmplInductive
<1>3. cmpl.wait = << >> /\ cmpl.wait \in Seq(Task) /\ cmpl.done \in BOOLEAN
  <2>1. cmpl.wait \in Seq(Task) /\ cmpl.done \in BOOLEAN BY DEF CmplInductive
  <2>2. ToSet(cmpl.wait) = {}
    BY <1>2, <2>1, EmptyFacts DEF CmplInductive, CmplNoMissedDone, ListOf
  <2> QED BY <2>1, <2>2, EmptyFacts
<1>4. CASE cmpl.done
  <2>1. cmpl' = [done |-> FALSE, wait |-> << >>] /\ cmplTask' = cmplTask
    BY <1>3, <1>4 DEF CmplWait, CmplInductive
  <2> QED BY <1>2, <1>3, <2>1 DEF CmplInductive, CmplNoMissedDone, ListOf
<1>5. CASE ~cmpl.done
  <2>1. /\ cmpl' = [done |-> FALSE, wait |-> Append(<< >>, t)]
        /\ cmplTask' = [cmplTask EXCEPT ![t] = Waiting(time)]
    BY <1>3, <1>5 DEF CmplWait, CmplInductive
  <2>2. << >> \in Seq(Task) /\ IsInjective(<< >>) /\ t \notin ToSet(<< >>)
    BY DEF IsInjective, ToSet
  <2>3. /\ cmpl'.wait \in Seq(Task) /\ IsInjective(cmpl'.wait) /\ ToSet(cmpl'.wait) = {t}
    <3>1. ToSet(<< >>) = {} BY DEF ToSet
    <3>2. /\ Append(<< >>, t) \in Seq(Task) /\ IsInjective(Append(<< >>, t))
          /\ ToSet(Append(<< >>, t)) = ToSet(<< >>) \cup {t}
      BY ONLY ZenonT(40), <2>2, t \in Task, AppendFacts
    <3>3. cmpl'.wait = Append(<< >>, t) BY <2>1
    <3> QED BY <3>1, <3>2, <3>3
  <2>4. /\ cmplTask' \in [Task -> TaskState]
        /\ cmplTask'[t].at = "wait" /\ cmplTask'[t].err = "ok"
        /\ \A u \in Task \ {t} : cmplTask'[u] = cmplTask[u]
    BY <2>1, WaitingType DEF CmplInductive, Waiting
  <2>5. cmpl' \in [done : BOOLEAN, wait : Seq(Task)] /\ ~cmpl'.done
    BY <2>1, <2>3
  <2> QED BY <1>1, <1>2, <2>3, <2>4, <2>5 DEF CmplInductive, CmplNoMissedDone, ListOf
<1> QED BY <1>4, <1>5

\* The second region of rt_completion_wait.
LEMMA CmplWaitedOK ==
    ASSUME CmplInductive, NEW t \in Task, CmplWaited(t)
    PROVE  CmplInductive'
<1>1. /\ t = CmplWaiter /\ t \notin ToSet(cmpl.wait)
      /\ cmpl.wait \in Seq(Task)
      /\ \A u \in Task \ {t} : cmplTask[u].at # "wait"
  BY DEF CmplInductive, CmplWaited
<1>2. cmpl.wait = << >>
  <2>1. ToSet(cmpl.wait) = {}
    BY <1>1, EmptyFacts DEF CmplInductive, CmplNoMissedDone, ListOf
  <2> QED BY <1>1, <2>1, EmptyFacts
<1>3. cmpl' = [done |-> FALSE, wait |-> << >>] /\ cmplTask' = [cmplTask EXCEPT ![t] = AtRest]
  BY <1>2 DEF CmplWaited, CmplInductive
<1>4. /\ cmplTask' \in [Task -> TaskState] /\ cmplTask'[t].at = "idle"
      /\ \A u \in Task \ {t} : cmplTask'[u] = cmplTask[u]
  BY <1>3, AtRestType DEF CmplInductive, AtRest
<1>5. IsInjective(<< >>) /\ ToSet(<< >>) = {} BY DEF IsInjective, ToSet
<1> QED BY <1>1, <1>3, <1>4, <1>5 DEF CmplInductive, CmplNoMissedDone, ListOf

\* The timer of the waiting thread.
LEMMA CmplTimeoutOK ==
    ASSUME CmplInductive, NEW t \in Task, CmplTimeout(t)
    PROVE  CmplInductive'
<1>1. /\ t \in ToSet(cmpl.wait) /\ cmpl.wait \in Seq(Task) /\ IsInjective(cmpl.wait)
      /\ cmpl' = [cmpl EXCEPT !.wait = RemoveFirst(@, t)]
      /\ cmplTask' = [cmplTask EXCEPT ![t].err = "timeout"]
  BY DEF CmplTimeout, CmplInductive, CmplNoMissedDone, ListOf
<1>2. ~cmpl.done
  <2>1. cmpl.wait # << >> BY <1>1, EmptyFacts
  <2> QED BY <2>1 DEF CmplInductive, CmplNoMissedDone
<1>3. /\ cmpl'.wait \in Seq(Task) /\ IsInjective(cmpl'.wait)
      /\ ToSet(cmpl'.wait) = ToSet(cmpl.wait) \ {t}
      /\ cmpl' \in [done : BOOLEAN, wait : Seq(Task)] /\ cmpl'.done = cmpl.done
  BY <1>1, RemoveFirstFacts DEF CmplInductive
<1>4. /\ cmplTask' \in [Task -> TaskState] /\ cmplTask'[t].err = "timeout"
      /\ cmplTask'[t].at = cmplTask[t].at
      /\ \A u \in Task \ {t} : cmplTask'[u] = cmplTask[u]
  BY <1>1 DEF CmplInductive, TaskState
<1> QED BY <1>1, <1>2, <1>3, <1>4, EmptyFacts DEF CmplInductive, CmplNoMissedDone, ListOf

\* The region of rt_completion_done: the only thread that can wait is woken.
LEMMA CmplDoneOK ==
    ASSUME CmplInductive, NEW t \in Task, CmplDoneRegion(t)
    PROVE  CmplInductive'
<1>1. /\ cmpl.wait \in Seq(Task) /\ IsInjective(cmpl.wait)
      /\ \A u \in ToSet(cmpl.wait) : u \in Task /\ cmplTask[u].at = "wait"
  BY EmptyFacts DEF CmplInductive, CmplNoMissedDone, ListOf
<1>2. \A u \in ToSet(cmpl.wait) : u = CmplWaiter BY <1>1 DEF CmplInductive
<1>3. cmpl' = [done |-> TRUE, wait |-> << >>]
  <2>1. CASE cmpl.wait # << >>
    <3>1. /\ Tail(cmpl.wait) \in Seq(Task)
          /\ ToSet(Tail(cmpl.wait)) = ToSet(cmpl.wait) \ {Head(cmpl.wait)}
          /\ Head(cmpl.wait) \in ToSet(cmpl.wait)
      BY <1>1, <2>1, TailFacts
    <3>2. ToSet(Tail(cmpl.wait)) = {} BY <1>2, <3>1
    <3>3. Tail(cmpl.wait) = << >> BY <3>1, <3>2, EmptyFacts
    <3> QED BY <2>1, <3>3 DEF CmplDoneRegion
  <2> QED BY <2>1 DEF CmplDoneRegion
<1>4. /\ cmplTask' \in [Task -> TaskState] /\ cmplTask'[t].at = "idle"
      /\ \A u \in Task \ {t} : cmplTask'[u] = cmplTask[u]
  BY AtRestType DEF CmplDoneRegion, CmplInductive, AtRest
<1>5. IsInjective(<< >>) /\ ToSet(<< >>) = {} BY DEF IsInjective, ToSet
<1> QED BY <1>3, <1>4, <1>5 DEF CmplInductive, CmplNoMissedDone, ListOf

\* What the completion needs is an inductive invariant.
LEMMA CmplStepOK == ASSUME CmplInductive, [CmplNext]_cmplVars PROVE CmplInductive'
<1>1. ASSUME NEW t \in Task, CmplDoneTest(t) PROVE CmplInductive'
  <2>1. /\ cmpl' = cmpl /\ cmplTask' \in [Task -> TaskState]
        /\ cmplTask'[t].at = "call" /\ cmplTask[t].at = "idle"
        /\ \A u \in Task \ {t} : cmplTask'[u] = cmplTask[u]
    BY <1>1 DEF CmplDoneTest, CmplInductive, TaskState
  <2>2. ToSet(cmpl.wait) \subseteq Task BY EmptyFacts DEF CmplInductive
  <2> QED BY <2>1, <2>2 DEF CmplInductive, CmplNoMissedDone, ListOf
<1>2. CASE CmplReset
  <2>1. /\ cmpl' = [done |-> FALSE, wait |-> << >>] /\ cmplTask' = cmplTask
        /\ cmplTask[CmplWaiter].at = "idle"
    BY <1>2 DEF CmplReset
  <2>2. IsInjective(<< >>) /\ ToSet(<< >>) = {} BY DEF IsInjective, ToSet
  <2> QED BY <2>1, <2>2 DEF CmplInductive, CmplNoMissedDone, ListOf
<1>3. CASE UNCHANGED cmplVars
  BY <1>3 DEF cmplVars, CmplInductive, CmplNoMissedDone, ListOf
<1> QED BY <1>1, <1>2, <1>3, CmplWaitOK, CmplWaitedOK, CmplTimeoutOK, CmplDoneOK DEF CmplNext

\* No done is lost although rt_completion_done looks at the flag with interrupts
\* enabled: a set flag and a suspended thread exclude each other, and a wait that
\* ends without an error has its flag.
THEOREM NoDoneIsMissed == CmplSpec => []CmplNoMissedDone
<1>1. CmplInit => CmplInductive
  <2>1. IsInjective(<< >>) /\ ToSet(<< >>) = {} BY DEF IsInjective, ToSet
  <2> QED BY <2>1, AtRestType
        DEF CmplInit, CmplInductive, CmplNoMissedDone, ListOf, AtRest
<1>2. CmplInductive /\ [CmplNext]_cmplVars => CmplInductive' BY CmplStepOK
<1>3. CmplInductive => CmplNoMissedDone BY DEF CmplInductive
<1> QED BY <1>1, <1>2, <1>3, PTL DEF CmplSpec

-----------------------------------------------------------------------------
(* Memory pools *)

\* The list of the blocks of a new pool.
LEMMA SetToSeqFacts ==
    ASSUME NEW S, IsFiniteSet(S)
    PROVE  /\ SetToSeq(S) \in Seq(S) /\ Len(SetToSeq(S)) = Cardinality(S)
           /\ IsInjective(SetToSeq(S)) /\ ToSet(SetToSeq(S)) = S
<1> DEFINE n == Cardinality(S)
           f == SetToSeq(S)
<1>1. n \in Nat /\ ExistsBijection(1..n, S) BY FS_CardinalityType
<1> HIDE DEF n
<1>2. PICK g : g \in Bijection(1..n, S) BY <1>1 DEF ExistsBijection
<1>3. g \in [1..n -> S] /\ IsInjective(g)
  BY <1>2 DEF Bijection, Injection, IsInjective
<1>4. f \in [1..n -> S] /\ IsInjective(f) BY <1>3 DEF SetToSeq, n
<1> HIDE DEF f
<1>5. f \in Seq(S) /\ Len(f) = n /\ DOMAIN f = 1..n BY <1>1, <1>4
<1>6. f \in Injection(1..n, S) BY <1>4 DEF Injection, IsInjective
<1>7. f \in Surjection(1..n, S)
  <2>1. Cardinality(1..n) = n
    <3>1. Cardinality(1..n) = IF 1 > n THEN 0 ELSE n - 1 + 1 BY <1>1, FS_Interval
    <3> QED BY <1>1, <3>1
  <2>2. Cardinality(1..n) = Cardinality(S) => f \in Surjection(1..n, S)
    BY <1>6, FS_Injection
  <2> QED BY <2>1, <2>2 DEF n
<1>8. ToSet(f) = S BY <1>4, <1>5, <1>7 DEF Surjection, ToSet
<1> QED BY <1>4, <1>5, <1>8 DEF f, n

\* What a step leaves true of the blocks.
MpBlocksOK(m, held) ==
    /\ m.count = Len(m.free) /\ IsInjective(m.free)
    /\ \A b \in Block : b \in ToSet(m.free) <=> \A t \in Task : b \notin held[t]
    /\ \A t, u \in Task : t # u => held[t] \cap held[u] = {}

\* A block is taken by rt_mp_alloc.
LEMMA MpTakeBlocks ==
    ASSUME MpInductive, mp.alive # "no", mp.count # 0, NEW t \in Task, MpTake(t)
    PROVE  /\ MpBlocksOK(mp', mpHeld')
           /\ mp'.free \in Seq(Block) /\ mp'.count \in Nat /\ mp'.count = mp.count - 1
           /\ mpHeld' \in [Task -> SUBSET Block]
           /\ mp'.wait = mp.wait /\ mp'.alive = mp.alive
           /\ mp' = [free |-> mp'.free, count |-> mp'.count, wait |-> mp.wait, alive |-> mp.alive]
<1>1. /\ mp \in [free : Seq(Block), count : Nat, wait : Seq(Task), alive : {"yes", "deleting", "no"}]
      /\ mpHeld \in [Task -> SUBSET Block] /\ MpBlocksOK(mp, mpHeld)
  BY DEF MpInductive, MpNoVainWait, MpBlocksConserved, MpBlocksOK
<1>2. mp.free \in Seq(Block) /\ IsInjective(mp.free) /\ mp.free # << >> /\ mp.count \in Nat
  BY <1>1 DEF MpBlocksOK
<1>3. /\ Head(mp.free) \in Block /\ Head(mp.free) \in ToSet(mp.free)
      /\ Tail(mp.free) \in Seq(Block) /\ Len(Tail(mp.free)) = Len(mp.free) - 1
      /\ IsInjective(Tail(mp.free))
      /\ ToSet(Tail(mp.free)) = ToSet(mp.free) \ {Head(mp.free)}
  BY <1>2, TailFacts
<1> DEFINE h == Head(mp.free)
<1>4. /\ mp' = [free |-> Tail(mp.free), count |-> mp.count - 1, wait |-> mp.wait, alive |-> mp.alive]
      /\ mpHeld' = [mpHeld EXCEPT ![t] = @ \cup {h}]
  BY <1>1 DEF MpTake
<1> HIDE DEF h
<1>5. /\ mpHeld' \in [Task -> SUBSET Block] /\ mpHeld'[t] = mpHeld[t] \cup {h}
      /\ \A u \in Task \ {t} : mpHeld'[u] = mpHeld[u]
  BY <1>1, <1>3, <1>4 DEF h
<1>6. \A u \in Task : h \notin mpHeld[u] BY <1>1, <1>3 DEF MpBlocksOK, h
<1>7. ASSUME NEW b \in Block
      PROVE  b \in ToSet(Tail(mp.free)) <=> \A u \in Task : b \notin mpHeld'[u]
  <2>1. b \in ToSet(mp.free) <=> \A u \in Task : b \notin mpHeld[u] BY <1>1 DEF MpBlocksOK
  <2>2. CASE b = h BY <1>3, <1>5, <2>2 DEF h
  <2>3. CASE b # h BY <1>3, <1>5, <2>1, <2>3 DEF h
  <2> QED BY <2>2, <2>3
<1>8. ASSUME NEW u \in Task, NEW v \in Task, u # v PROVE mpHeld'[u] \cap mpHeld'[v] = {}
  <2>1. mpHeld[u] \cap mpHeld[v] = {} BY <1>1, <1>8 DEF MpBlocksOK
  <2> QED BY <1>5, <1>6, <1>8, <2>1
<1>9. mp.count = Len(mp.free) BY <1>1 DEF MpBlocksOK
<1>10. MpBlocksOK(mp', mpHeld') BY <1>3, <1>4, <1>7, <1>8, <1>9 DEF MpBlocksOK
<1>11. mp.count - 1 \in Nat BY <1>1
<1> QED BY <1>3, <1>4, <1>5, <1>10, <1>11

\* A block comes back by rt_mp_free.
LEMMA MpFreeBlocks ==
    ASSUME MpInductive, mp.alive # "no", NEW t \in Task, NEW b \in Block, MpFree(t, b)
    PROVE  /\ MpBlocksOK(mp', mpHeld')
           /\ mp'.free \in Seq(Block) /\ mp'.count \in Nat /\ mp'.count = mp.count + 1
           /\ mpHeld' \in [Task -> SUBSET Block]
           /\ mp' \in [free : Seq(Block), count : Nat, wait : Seq(Task), alive : {"yes"}]
           /\ mp'.wait = IF mp.wait = << >> THEN << >> ELSE Tail(mp.wait)
<1>1. /\ mp \in [free : Seq(Block), count : Nat, wait : Seq(Task), alive : {"yes", "deleting", "no"}]
      /\ mpHeld \in [Task -> SUBSET Block] /\ MpBlocksOK(mp, mpHeld) /\ b \in mpHeld[t]
  BY DEF MpInductive, MpNoVainWait, MpBlocksConserved, MpBlocksOK, MpFree
<1>2. mp.free \in Seq(Block) /\ IsInjective(mp.free) /\ mp.count \in Nat /\ b \notin ToSet(mp.free)
  BY <1>1 DEF MpBlocksOK
<1> DEFINE r == <<b>> \o mp.free
<1>3. r \in Seq(Block) /\ IsInjective(r) /\ ToSet(r) = ToSet(mp.free) \cup {b}
  BY <1>2, PrependFacts
<1>4. Len(r) = Len(mp.free) + 1 BY <1>2
<1>5. /\ mp' = [free |-> r, count |-> mp.count + 1, alive |-> mp.alive,
                wait |-> IF mp.wait = << >> THEN << >> ELSE Tail(mp.wait)]
      /\ mpHeld' = [mpHeld EXCEPT ![t] = @ \ {b}]
  BY <1>1 DEF MpFree
<1> HIDE DEF r
<1>6. /\ mpHeld' \in [Task -> SUBSET Block] /\ mpHeld'[t] = mpHeld[t] \ {b}
      /\ \A u \in Task \ {t} : mpHeld'[u] = mpHeld[u]
  BY <1>1, <1>5
<1>7. \A u \in Task \ {t} : b \notin mpHeld[u] BY <1>1 DEF MpBlocksOK
<1>8. ASSUME NEW c \in Block PROVE c \in ToSet(r) <=> \A u \in Task : c \notin mpHeld'[u]
  <2>1. c \in ToSet(mp.free) <=> \A u \in Task : c \notin mpHeld[u] BY <1>1 DEF MpBlocksOK
  <2>2. CASE c = b BY <1>3, <1>6, <1>7, <2>2
  <2>3. CASE c # b BY <1>3, <1>6, <2>1, <2>3
  <2> QED BY <2>2, <2>3
<1>9. ASSUME NEW u \in Task, NEW v \in Task, u # v PROVE mpHeld'[u] \cap mpHeld'[v] = {}
  <2>1. mpHeld[u] \cap mpHeld[v] = {} BY <1>1, <1>9 DEF MpBlocksOK
  <2> QED BY <1>6, <2>1
<1>10. mp.count = Len(mp.free) BY <1>1 DEF MpBlocksOK
<1>11. MpBlocksOK(mp', mpHeld') BY <1>3, <1>4, <1>5, <1>8, <1>9, <1>10 DEF MpBlocksOK
<1>12. mp' \in [free : Seq(Block), count : Nat, wait : Seq(Task), alive : {"yes"}]
  <2>1. mp.alive = "yes" BY DEF MpFree
  <2>2. mp.wait \in Seq(Task) BY <1>1
  <2>3. (IF mp.wait = << >> THEN << >> ELSE Tail(mp.wait)) \in Seq(Task) BY <2>2
  <2>4. mp.count + 1 \in Nat BY <1>2
  <2> QED BY <1>3, <1>5, <2>1, <2>3, <2>4
<1> QED BY <1>2, <1>3, <1>5, <1>6, <1>11, <1>12

\* What MpInductive says, part by part.
LEMMA MpNow ==
    ASSUME MpInductive
    PROVE  /\ mp \in [free : Seq(Block), count : Nat, wait : Seq(Task),
                      alive : {"yes", "deleting", "no"}]
           /\ mpTask \in [Task -> TaskState] /\ mpHeld \in [Task -> SUBSET Block]
           /\ mp.wait \in Seq(Task) /\ mp.count \in Nat
           /\ mp.alive \in {"yes", "deleting", "no"}
           /\ IsInjective(mp.wait) /\ MpWaiters \subseteq Task
           /\ \A t \in MpWaiters : mpTask[t].at = "wait" /\ mpTask[t].err = "ok"
           /\ (mp.wait = << >>) <=> (MpWaiters = {})
           /\ mp.alive # "no" => MpBlocksOK(mp, mpHeld)
           /\ mp.wait # << >> => mp.count <= Cardinality(MpWoken)
           /\ \A t \in MpWoken : t \in Task /\ mp.alive = "yes" /\ t \notin MpWaiters
           /\ \A t \in MpWaiters : mp.alive # "no"
           /\ MpWoken \in SUBSET Task /\ IsFiniteSet(MpWoken) /\ Cardinality(MpWoken) \in Nat
<1>1. mp.wait \in Seq(Task) /\ mp.alive \in {"yes", "deleting", "no"} BY DEF MpInductive
<1>2. (mp.wait = << >>) <=> (MpWaiters = {}) BY <1>1, EmptyFacts DEF MpWaiters
<1>3. MpWaiters \subseteq Task BY <1>1, EmptyFacts DEF MpWaiters
<1>4. MpWoken \in SUBSET Task BY DEF MpWoken
<1>5. IsFiniteSet(MpWoken) /\ Cardinality(MpWoken) \in Nat BY <1>4, Counted
<1>6. \A t \in MpWaiters : mpTask[t].at = "wait" /\ mpTask[t].err = "ok"
  BY DEF MpInductive, MpNoVainWait, ListOf, MpWaiters
<1>7. \A t \in MpWoken : mp.alive = "yes" /\ t \notin MpWaiters
  BY <1>1, <1>4 DEF MpInductive, MpNoVainWait, MpWoken
<1>8. \A t \in MpWaiters : mp.alive # "no"
  BY <1>3, <1>6 DEF MpInductive, MpNoVainWait
<1> QED BY <1>1, <1>2, <1>3, <1>4, <1>5, <1>6, <1>7, <1>8
        DEF MpInductive, MpNoVainWait, MpBlocksConserved, MpBlocksOK, ListOf, MpWaiters

\* The parts together, for a pool that is in use after the step.
LEMMA MpUsed ==
    ASSUME mp' \in [free : Seq(Block), count : Nat, wait : Seq(Task), alive : {"yes"}],
           mpTask' \in [Task -> TaskState], mpHeld' \in [Task -> SUBSET Block],
           MpBlocksOK(mp', mpHeld'), ListOf(mp'.wait, mpTask'),
           mp'.wait # << >> => mp'.count <= Cardinality(MpWoken')
    PROVE  MpInductive'
<1>1. mp'.alive = "yes" OBVIOUS
<1> QED BY <1>1 DEF MpInductive, MpNoVainWait, MpBlocksConserved, MpBlocksOK

\* rt_mp_alloc, at first and after a wakeup.
LEMMA MpAllocOK ==
    ASSUME MpInductive, NEW t \in Task, NEW time \in {"none", "limited", "forever"},
           mp.alive = "yes", t \notin MpWaiters, rt_mp_alloc(t, time)
    PROVE  MpInductive'
<1>1. CASE mp.count # 0
  <2>1. MpTake(t) BY <1>1 DEF rt_mp_alloc
  <2>2. /\ MpBlocksOK(mp', mpHeld') /\ mpHeld' \in [Task -> SUBSET Block]
        /\ mp' \in [free : Seq(Block), count : Nat, wait : Seq(Task), alive : {"yes"}]
        /\ mp'.wait = mp.wait /\ mp'.count = mp.count - 1
    <3>1. /\ MpBlocksOK(mp', mpHeld')
          /\ mp'.free \in Seq(Block) /\ mp'.count \in Nat /\ mp'.count = mp.count - 1
          /\ mpHeld' \in [Task -> SUBSET Block]
          /\ mp'.wait = mp.wait /\ mp'.alive = mp.alive
          /\ mp' = [free |-> mp'.free, count |-> mp'.count, wait |-> mp.wait, alive |-> mp.alive]
      BY <1>1, <2>1, MpTakeBlocks
    <3> QED BY <3>1, MpNow
  <2>3. /\ mpTask' \in [Task -> TaskState] /\ mpTask'[t].at = "idle"
        /\ \A u \in Task \ {t} : mpTask'[u] = mpTask[u]
    BY <2>1, MpNow, AtRestType DEF MpTake, AtRest
  <2>4. MpWoken' = MpWoken \ {t} BY <2>2, <2>3 DEF MpWoken, MpWaiters
  <2>5. Cardinality(MpWoken') \in Nat /\ Cardinality(MpWoken') >= Cardinality(MpWoken) - 1
    <3>1. Cardinality(MpWoken') = IF t \in MpWoken THEN Cardinality(MpWoken) - 1
                                  ELSE Cardinality(MpWoken)
      BY <2>4, MpNow, FS_RemoveElement
    <3>2. MpWoken' \in SUBSET Task BY <2>4, MpNow
    <3>3. Cardinality(MpWoken') \in Nat BY <3>2, Counted
    <3> QED BY <3>1, <3>3, MpNow
  <2>6. mp'.wait # << >> => mp'.count <= Cardinality(MpWoken')
    BY <2>2, <2>5, MpNow
  <2>7. ListOf(mp'.wait, mpTask') BY <2>2, <2>3, MpNow DEF ListOf, MpWaiters
  <2> QED BY <2>2, <2>3, <2>6, <2>7, MpUsed
<1>2. CASE mp.count = 0 /\ time = "none"
  <2>1. /\ mp' = mp /\ mpHeld' = mpHeld /\ mpTask' = [mpTask EXCEPT ![t] = AtRest]
    BY <1>2 DEF rt_mp_alloc, MpNoBlock
  <2>2. /\ mpTask' \in [Task -> TaskState]
        /\ \A u \in Task \ {t} : mpTask'[u] = mpTask[u]
    BY <2>1, MpNow, AtRestType
  <2>3. ListOf(mp'.wait, mpTask') BY <2>1, <2>2, MpNow DEF ListOf, MpWaiters
  <2>4. MpWoken' \in SUBSET Task BY DEF MpWoken
  <2>5. Cardinality(MpWoken') \in Nat BY <2>4, Counted
  <2>6. mp'.count <= Cardinality(MpWoken') BY <1>2, <2>1, <2>5
  <2>7. mp' \in [free : Seq(Block), count : Nat, wait : Seq(Task), alive : {"yes"}]
    BY <2>1, MpNow
  <2> QED BY <2>1, <2>2, <2>3, <2>6, <2>7, MpNow, MpUsed
<1>3. CASE mp.count = 0 /\ time # "none"
  <2>1. /\ mp' = [mp EXCEPT !.wait = <<t>> \o @] /\ mpHeld' = mpHeld
        /\ mpTask' = [mpTask EXCEPT ![t] = Waiting(time)]
    BY <1>3 DEF rt_mp_alloc, MpNoBlock
  <2>2. /\ mpTask' \in [Task -> TaskState]
        /\ mpTask'[t].at = "wait" /\ mpTask'[t].err = "ok"
        /\ \A u \in Task \ {t} : mpTask'[u] = mpTask[u]
    <3>1. Waiting(time) \in TaskState BY DEF Waiting, TaskState
    <3> QED BY <2>1, <3>1, MpNow DEF Waiting
  <2>3. /\ <<t>> \o mp.wait \in Seq(Task) /\ IsInjective(<<t>> \o mp.wait)
        /\ ToSet(<<t>> \o mp.wait) = MpWaiters \cup {t}
    BY MpNow, PrependFacts DEF MpWaiters
  <2>4. /\ mp' \in [free : Seq(Block), count : Nat, wait : Seq(Task), alive : {"yes"}]
        /\ mp'.wait = <<t>> \o mp.wait /\ mp'.count = 0 /\ mp'.free = mp.free
    BY <1>3, <2>1, <2>3, MpNow
  <2>5. ListOf(mp'.wait, mpTask')
    BY <2>2, <2>3, <2>4, MpNow DEF ListOf
  <2>6. MpWoken' \in SUBSET Task BY DEF MpWoken
  <2>7. Cardinality(MpWoken') \in Nat BY <2>6, Counted
  <2>8. MpBlocksOK(mp', mpHeld')
    <3>1. MpBlocksOK(mp, mpHeld) BY MpNow
    <3> QED BY <1>3, <2>1, <2>4, <3>1 DEF MpBlocksOK
  <2> QED BY <2>1, <2>2, <2>4, <2>5, <2>7, <2>8, MpNow, MpUsed
<1> QED BY <1>1, <1>2, <1>3

\* rt_mp_free: the block and a woken thread go together.
LEMMA MpFreeOK ==
    ASSUME MpInductive, NEW t \in Task, NEW b \in Block, MpFree(t, b)
    PROVE  MpInductive'
<1>1. mp.alive = "yes" /\ mpTask' = mpTask BY DEF MpFree
<1>2. /\ MpBlocksOK(mp', mpHeld')
      /\ mp'.free \in Seq(Block) /\ mp'.count \in Nat /\ mp'.count = mp.count + 1
      /\ mpHeld' \in [Task -> SUBSET Block]
      /\ mp' \in [free : Seq(Block), count : Nat, wait : Seq(Task), alive : {"yes"}]
      /\ mp'.wait = IF mp.wait = << >> THEN << >> ELSE Tail(mp.wait)
  BY <1>1, MpFreeBlocks
<1>3. CASE mp.wait = << >>
  <2>1. mp'.wait = << >> BY <1>2, <1>3
  <2>3. ListOf(mp'.wait, mpTask') BY <1>1, <1>3, <2>1, MpNow DEF ListOf, MpWaiters
  <2> QED BY <1>1, <1>2, <2>1, <2>3, MpNow, MpUsed
<1>4. CASE mp.wait # << >>
  <2> DEFINE h == Head(mp.wait)
  <2>1. /\ h \in Task /\ h \in MpWaiters /\ Tail(mp.wait) \in Seq(Task)
        /\ IsInjective(Tail(mp.wait)) /\ ToSet(Tail(mp.wait)) = MpWaiters \ {h}
    BY <1>4, MpNow, TailFacts DEF MpWaiters
  <2>2. mp'.wait = Tail(mp.wait) BY <1>2, <1>4
  <2> HIDE DEF h
  <2>4. ListOf(mp'.wait, mpTask') BY <1>1, <2>1, <2>2, MpNow DEF ListOf
  <2>5. MpWoken' = MpWoken \cup {h} /\ h \notin MpWoken
    BY <1>1, <2>1, <2>2, MpNow DEF MpWoken, MpWaiters
  <2>6. Cardinality(MpWoken') = Cardinality(MpWoken) + 1
    BY <2>5, MpNow, FS_AddElement
  <2>7. mp'.count <= Cardinality(MpWoken') BY <1>2, <1>4, <2>6, MpNow
  <2> QED BY <1>1, <1>2, <2>4, <2>7, MpNow, MpUsed
<1> QED BY <1>3, <1>4

\* A wait that ends with an error, and the timer of a waiting thread.
LEMMA MpFailsOK ==
    ASSUME MpInductive, NEW t \in Task, MpFails(t)
    PROVE  MpInductive'
<1>1. /\ mp' = mp /\ mpHeld' = mpHeld /\ mpTask' \in [Task -> TaskState]
      /\ mpTask'[t].at = "idle" /\ mpTask[t].err # "ok"
      /\ \A u \in Task \ {t} : mpTask'[u] = mpTask[u]
  BY MpNow, AtRestType DEF MpFails, AtRest
<1>2. MpWaiters' = MpWaiters /\ t \notin MpWaiters BY <1>1, MpNow DEF MpWaiters
<1>3. MpWoken' = MpWoken BY <1>1, <1>2 DEF MpWoken
<1>4. ListOf(mp'.wait, mpTask') BY <1>1, <1>2, MpNow DEF ListOf, MpWaiters
<1>5. mp.alive = "no" => \A u \in Task : mpTask'[u].at = "wait" => mpTask'[u].err # "ok"
  BY <1>1 DEF MpInductive, MpNoVainWait
<1>6. MpBlocksConserved' BY <1>1 DEF MpInductive, MpNoVainWait, MpBlocksConserved
<1>7. mp.alive = "deleting" => \A u \in MpWaiters : mpTask'[u].time = "forever"
  BY <1>1, <1>2, MpNow DEF MpInductive
<1> QED BY <1>1, <1>2, <1>3, <1>4, <1>5, <1>6, <1>7 DEF MpInductive, MpNoVainWait

LEMMA MpTimeoutOK ==
    ASSUME MpInductive, NEW t \in Task, MpTimeout(t)
    PROVE  MpInductive'
<1>1. t \in MpWaiters /\ mpTask[t].time = "limited" BY DEF MpTimeout
<1>2. mp.alive = "yes" BY <1>1, MpNow DEF MpInductive
<1>3. /\ mpTask' \in [Task -> TaskState] /\ mpTask'[t].err = "timeout"
      /\ \A u \in Task \ {t} : mpTask'[u] = mpTask[u]
  BY MpNow DEF MpTimeout, TaskState
<1>4. /\ RemoveFirst(mp.wait, t) \in Seq(Task) /\ IsInjective(RemoveFirst(mp.wait, t))
      /\ ToSet(RemoveFirst(mp.wait, t)) = MpWaiters \ {t}
  BY MpNow, RemoveFirstFacts DEF MpWaiters
<1>5. /\ mp' \in [free : Seq(Block), count : Nat, wait : Seq(Task), alive : {"yes"}]
      /\ mp'.wait = RemoveFirst(mp.wait, t) /\ mp'.free = mp.free /\ mp'.count = mp.count
      /\ mpHeld' = mpHeld
  BY <1>2, <1>4, MpNow DEF MpTimeout
<1>6. ListOf(mp'.wait, mpTask') BY <1>3, <1>4, <1>5, MpNow DEF ListOf
<1>7. MpWoken' = MpWoken BY ZenonT(40), <1>1, <1>3, <1>4, <1>5, MpNow DEF MpWoken, MpWaiters
<1>8. mp'.wait # << >> => mp'.count <= Cardinality(MpWoken')
  <2>1. mp.wait # << >> BY <1>1, MpNow
  <2> QED BY <1>5, <1>7, <2>1, MpNow
<1>9. MpBlocksOK(mp', mpHeld')
  <2>1. MpBlocksOK(mp, mpHeld) BY <1>2, MpNow
  <2> QED BY <1>5, <2>1 DEF MpBlocksOK
<1> QED BY <1>3, <1>5, <1>6, <1>8, <1>9, MpNow, MpUsed

\* rt_mp_delete: nobody but the threads that it wakes with an error is left.
LEMMA MpDeleteOK ==
    ASSUME MpInductive, MpDeleteBegin \/ MpDeleteTurn \/ MpDeleteEnd
    PROVE  MpInductive'
<1>1. CASE MpDeleteBegin
  <2>1. /\ mp.alive = "yes" /\ mpTask' = mpTask /\ mpHeld' = mpHeld /\ MpWoken = {}
        /\ mp' = [mp EXCEPT !.alive = "deleting"]
        /\ \A t \in Task : mpTask[t].at = "wait" => mpTask[t].time = "forever"
    BY <1>1 DEF MpDeleteBegin
  <2>2. /\ mp' \in [free : Seq(Block), count : Nat, wait : Seq(Task), alive : {"yes", "deleting", "no"}]
        /\ mp'.alive = "deleting" /\ mp'.wait = mp.wait /\ mp'.free = mp.free /\ mp'.count = mp.count
    BY <2>1, MpNow
  <2>3. MpWaiters' = MpWaiters BY <2>2 DEF MpWaiters
  <2>4. MpWoken' = {} BY <2>1, <2>3 DEF MpWoken
  <2>5. MpBlocksConserved' BY <2>1, <2>2 DEF MpInductive, MpNoVainWait, MpBlocksConserved
  <2>6. ListOf(mp.wait, mpTask) /\ \A t \in MpWaiters : mpTask[t].time = "forever"
    BY <2>1, MpNow DEF MpInductive, MpNoVainWait
  <2>7. mp.wait # << >> => mp.count <= Cardinality({}) BY <2>1, MpNow
  <2> QED BY <2>1, <2>2, <2>3, <2>4, <2>5, <2>6, <2>7, MpNow DEF MpInductive, MpNoVainWait
<1>2. CASE MpDeleteTurn
  <2> DEFINE h == Head(mp.wait)
  <2>1. mp.alive = "deleting" /\ mp.wait # << >> BY <1>2 DEF MpDeleteTurn
  <2>2. /\ h \in Task /\ h \in MpWaiters /\ Tail(mp.wait) \in Seq(Task)
        /\ IsInjective(Tail(mp.wait)) /\ ToSet(Tail(mp.wait)) = MpWaiters \ {h}
    BY <2>1, MpNow, TailFacts DEF MpWaiters
  <2>3. /\ mp' = [mp EXCEPT !.wait = Tail(mp.wait)] /\ mpHeld' = mpHeld
        /\ mpTask' = [mpTask EXCEPT ![h].err = "error"]
    BY <1>2 DEF MpDeleteTurn
  <2> HIDE DEF h
  <2>4. /\ mpTask' \in [Task -> TaskState] /\ mpTask'[h].err = "error"
        /\ \A u \in Task \ {h} : mpTask'[u] = mpTask[u]
    BY <2>2, <2>3, MpNow DEF TaskState
  <2>5. /\ mp' \in [free : Seq(Block), count : Nat, wait : Seq(Task), alive : {"yes", "deleting", "no"}]
        /\ mp'.alive = "deleting" /\ mp'.wait = Tail(mp.wait) /\ mp'.free = mp.free
        /\ mp'.count = mp.count
    BY <2>1, <2>2, <2>3, MpNow
  <2>6. MpWaiters' = MpWaiters \ {h} BY <2>2, <2>5 DEF MpWaiters
  <2>7. MpWoken = {} /\ \A t \in MpWaiters : mpTask[t].time = "forever"
    BY <2>1 DEF MpInductive
  <2>8. MpWoken' = {} BY <2>2, <2>4, <2>6, <2>7 DEF MpWoken
  <2>9. MpBlocksConserved' BY <2>1, <2>3, <2>5 DEF MpInductive, MpNoVainWait, MpBlocksConserved
  <2>10. ListOf(mp'.wait, mpTask') BY <2>2, <2>4, <2>5, MpNow DEF ListOf
  <2>11. \A t \in MpWaiters' : mpTask'[t].time = "forever" BY <2>4, <2>6, <2>7, MpNow
  <2>12. mp.count <= Cardinality({}) BY <2>1, <2>7, MpNow
  <2> QED BY <2>3, <2>4, <2>5, <2>6, <2>8, <2>9, <2>10, <2>11, <2>12, MpNow DEF MpInductive, MpNoVainWait
<1>3. CASE MpDeleteEnd
  <2>1. /\ mp.alive = "deleting" /\ mp.wait = << >> /\ mpTask' = mpTask
        /\ mp' = [mp EXCEPT !.alive = "no", !.free = << >>, !.count = 0]
        /\ mpHeld' = [t \in Task |-> {}]
    BY <1>3 DEF MpDeleteEnd
  <2>2. /\ mp' \in [free : Seq(Block), count : Nat, wait : Seq(Task), alive : {"yes", "deleting", "no"}]
        /\ mp'.alive = "no" /\ mp'.wait = << >> /\ mp'.count = 0
    <3>1. << >> \in Seq(Block) /\ mp \in [free : Seq(Block), count : Nat, wait : Seq(Task),
                                        alive : {"yes", "deleting", "no"}]
      BY MpNow
    <3> QED BY <2>1, <3>1
  <2>3. MpWoken = {} BY <2>1 DEF MpInductive
  <2>4. \A t \in Task : mpTask[t].at = "wait" => mpTask[t].err # "ok"
    BY <2>1, <2>3, MpNow DEF MpWoken
  <2>5. ListOf(mp'.wait, mpTask') BY <2>1, <2>2 DEF MpInductive, MpNoVainWait
  <2> QED BY <2>1, <2>2, <2>4, <2>5, MpNow
          DEF MpInductive, MpNoVainWait, MpBlocksConserved
<1> QED BY <1>1, <1>2, <1>3

\* A new pool, at first and after a deletion.
LEMMA MpFresh ==
    ASSUME mp' = [free |-> SetToSeq(Block), count |-> Cardinality(Block),
                  wait |-> << >>, alive |-> "yes"],
           mpTask' \in [Task -> TaskState], mpHeld' \in [Task -> SUBSET Block],
           \A t \in Task : mpHeld'[t] = {}
    PROVE  MpInductive'
<1>1. /\ SetToSeq(Block) \in Seq(Block) /\ Len(SetToSeq(Block)) = Cardinality(Block)
      /\ IsInjective(SetToSeq(Block)) /\ ToSet(SetToSeq(Block)) = Block
  BY MpConstants, SetToSeqFacts
<1>2. Cardinality(Block) \in Nat BY MpConstants, FS_CardinalityType
<1>3. << >> \in Seq(Task) /\ IsInjective(<< >>) /\ ToSet(<< >>) = {}
  BY DEF IsInjective, ToSet
<1>4. mp' \in [free : Seq(Block), count : Nat, wait : Seq(Task), alive : {"yes"}]
  BY <1>1, <1>2, <1>3
<1>5. MpBlocksOK(mp', mpHeld') BY <1>1 DEF MpBlocksOK
<1>6. ListOf(mp'.wait, mpTask') BY <1>3 DEF ListOf
<1> QED BY <1>4, <1>5, <1>6, MpUsed

LEMMA MpStepOK == ASSUME MpInductive, [MpNext]_mpVars PROVE MpInductive'
<1>1. ASSUME NEW t \in Task, NEW time \in TaskTimes, MpAlloc(t, time) PROVE MpInductive'
  <2>1. mp.alive = "yes" /\ mpTask[t].at = "idle" /\ rt_mp_alloc(t, time) BY <1>1 DEF MpAlloc
  <2>2. t \notin MpWaiters BY <2>1, MpNow
  <2>3. time \in {"none", "limited", "forever"} BY TaskConstants
  <2> QED BY <2>1, <2>2, <2>3, MpAllocOK
<1>2. ASSUME NEW t \in Task, MpRetry(t) PROVE MpInductive'
  <2>1. t \in MpWoken BY <1>2 DEF MpRetry
  <2>2. mp.alive = "yes" /\ t \notin MpWaiters BY <2>1, MpNow
  <2>3. mpTask[t].time \in {"none", "limited", "forever"} BY MpNow, TaskFields
  <2>4. PICK time \in {"none", "limited", "forever"} : rt_mp_alloc(t, time)
    BY <1>2, <2>3 DEF MpRetry
  <2> QED BY <2>2, <2>4, MpAllocOK
<1>3. CASE MpCreate
  BY <1>3, MpNow, MpFresh DEF MpCreate, MpInductive
<1>4. CASE UNCHANGED mpVars
  <2>1. mp' = mp /\ mpTask' = mpTask /\ mpHeld' = mpHeld BY <1>4 DEF mpVars
  <2>2. MpWaiters' = MpWaiters BY <2>1 DEF MpWaiters
  <2>3. MpWoken' = MpWoken BY <2>1, <2>2 DEF MpWoken
  <2> QED BY <2>1, <2>2, <2>3 DEF MpInductive, MpNoVainWait, MpBlocksConserved
<1> QED BY <1>1, <1>2, <1>3, <1>4, MpFreeOK, MpFailsOK, MpTimeoutOK, MpDeleteOK DEF MpNext

\* Every block is free or held by one thread; while threads wait, every free
\* block has a woken thread that comes for it; nobody waits for a pool that is
\* gone.
THEOREM NoBlockWaitsInVain == MpSpec => []MpNoVainWait
<1>1. MpInit => MpInductive
  <2> SUFFICES ASSUME MpInit PROVE MpInductive OBVIOUS
  <2>1. /\ mp = [free |-> SetToSeq(Block), count |-> Cardinality(Block),
                 wait |-> << >>, alive |-> "yes"]
        /\ mpTask \in [Task -> TaskState] /\ mpHeld \in [Task -> SUBSET Block]
        /\ \A t \in Task : mpHeld[t] = {}
    BY AtRestType DEF MpInit
  <2>2. /\ SetToSeq(Block) \in Seq(Block) /\ Len(SetToSeq(Block)) = Cardinality(Block)
        /\ IsInjective(SetToSeq(Block)) /\ ToSet(SetToSeq(Block)) = Block
    BY MpConstants, SetToSeqFacts
  <2>3. Cardinality(Block) \in Nat BY MpConstants, FS_CardinalityType
  <2>4. << >> \in Seq(Task) /\ IsInjective(<< >>) /\ ToSet(<< >>) = {}
    BY DEF IsInjective, ToSet
  <2>5. mp \in [free : Seq(Block), count : Nat, wait : Seq(Task),
                alive : {"yes", "deleting", "no"}]
    BY <2>1, <2>2, <2>3, <2>4
  <2> QED BY <2>1, <2>2, <2>4, <2>5
          DEF MpInductive, MpNoVainWait, MpBlocksConserved, ListOf
<1>2. MpInductive /\ [MpNext]_mpVars => MpInductive' BY MpStepOK
<1>3. MpInductive => MpNoVainWait BY DEF MpInductive
<1> QED BY <1>1, <1>2, <1>3, PTL DEF MpSpec

-----------------------------------------------------------------------------
(* Data queues *)

\* The woken threads that come for an item, and those that come with one.
DqReaders == {t \in DqWoken : dqItem[t] = NoItem}
DqWriters == {t \in DqWoken : dqItem[t] # NoItem}

\* The ring of rt_data_queue_push: one item more, and the flags follow.
LEMMA DqStoreFacts ==
    ASSUME NEW x \in DqState, DqFlags(x), ~x.full, NEW m \in DqItem
    PROVE  LET y == DqStore(x, m)
           IN  /\ y \in DqState /\ DqFlags(y)
               /\ DqLen(y) = DqLen(x) + 1 /\ ~y.empty
               /\ y.push = x.push /\ y.alive = x.alive /\ y.waking = x.waking /\ y.begun = x.begun
               /\ y.pop = IF x.pop = << >> THEN << >> ELSE Tail(x.pop)
               /\ y.get = x.get /\ y.ring = [x.ring EXCEPT ![x.put] = m]
<1> DEFINE p == DqStep(x.put)
           q == IF x.pop = << >> THEN << >> ELSE Tail(x.pop)
           g == [x.ring EXCEPT ![x.put] = m]
           f == x.full \/ p = x.get
           y == [x EXCEPT !.ring = g, !.put = p, !.empty = FALSE, !.full = f, !.pop = q]
<1>1. DqSize \in Nat /\ DqSize > 0 BY DqConstants
<1>2. /\ x.ring \in [0..(DqSize - 1) -> DqItem \cup {NoItem}]
      /\ x.get \in 0..(DqSize - 1) /\ x.put \in 0..(DqSize - 1) /\ x.pop \in Seq(Task)
  BY DEF DqState
<1>3. DqStore(x, m) = y BY DEF DqStore
<1>4. p \in 0..(DqSize - 1) BY <1>1, <1>2 DEF DqStep
<1>5. q \in Seq(Task) BY <1>2
<1>6. g \in [0..(DqSize - 1) -> DqItem \cup {NoItem}] BY <1>2
<1>7. f \in BOOLEAN /\ (f <=> p = x.get) OBVIOUS
<1> HIDE DEF g, q, f, p
<1>8. y \in DqState BY <1>4, <1>5, <1>6, <1>7 DEF DqState
<1>9. /\ y.ring = g /\ y.get = x.get /\ y.put = p /\ y.empty = FALSE /\ y.full = f
      /\ y.push = x.push /\ y.pop = q /\ y.alive = x.alive /\ y.waking = x.waking /\ y.begun = x.begun
  BY DEF DqState
<1> HIDE DEF y
<1>10. p = IF x.put + 1 = DqSize THEN 0 ELSE x.put + 1 BY DEF p, DqStep
<1>11. DqFlags(y) BY <1>7, <1>9 DEF DqFlags
<1>12. DqLen(y) = DqLen(x) + 1
  <2>1. DqLen(y) = IF p > x.get THEN p - x.get ELSE DqSize + p - x.get BY <1>9 DEF DqLen
  <2>2. x.put = x.get <=> x.empty BY DEF DqFlags
  <2>3. DqLen(x) = IF x.put = x.get THEN 0
                   ELSE IF x.put > x.get THEN x.put - x.get ELSE DqSize + x.put - x.get
    BY <2>2 DEF DqLen
  <2> QED BY SMTT(30), <1>1, <1>2, <1>10, <2>1, <2>3
<1> QED BY <1>3, <1>8, <1>9, <1>11, <1>12 DEF q, g

\* The ring of rt_data_queue_pop; a thread that pushes is woken when the queue
\* has become empty, at the latest.
LEMMA DqFetchFacts ==
    ASSUME NEW x \in DqState, DqFlags(x), ~x.empty
    PROVE  LET y == DqFetch(x)
           IN  /\ y \in DqState /\ DqFlags(y)
               /\ DqLen(y) = DqLen(x) - 1 /\ DqLen(y) \in Nat
               /\ y.pop = x.pop /\ y.alive = x.alive /\ y.waking = x.waking /\ y.begun = x.begun
               /\ \/ y.push = x.push /\ (y.empty => x.push = << >>)
                  \/ x.push # << >> /\ y.push = Tail(x.push)
               /\ y.get = DqStep(x.get) /\ y.ring = [x.ring EXCEPT ![x.get] = NoItem]
<1> DEFINE p == DqStep(x.get)
           g == [x.ring EXCEPT ![x.get] = NoItem]
           e == x.empty \/ x.put = p
           z == [x EXCEPT !.ring = g, !.get = p, !.full = FALSE, !.empty = e]
           y == IF DqLen(z) <= DqLwm /\ z.push # << >> THEN [z EXCEPT !.push = Tail(@)] ELSE z
<1>1. DqSize \in Nat /\ DqSize > 0 /\ DqLwm \in Nat BY DqConstants
<1>2. /\ x.ring \in [0..(DqSize - 1) -> DqItem \cup {NoItem}]
      /\ x.get \in 0..(DqSize - 1) /\ x.put \in 0..(DqSize - 1) /\ x.push \in Seq(Task)
  BY DEF DqState
<1>3. DqFetch(x) = y BY DEF DqFetch
<1>4. p \in 0..(DqSize - 1) BY <1>1, <1>2 DEF DqStep
<1>5. g \in [0..(DqSize - 1) -> DqItem \cup {NoItem}] BY <1>2
<1>6. e \in BOOLEAN /\ (e <=> x.put = p) OBVIOUS
<1> HIDE DEF g, e, p
<1>7. z \in DqState BY <1>4, <1>5, <1>6 DEF DqState
<1>8. /\ z.ring = g /\ z.get = p /\ z.put = x.put /\ z.empty = e /\ z.full = FALSE
      /\ z.push = x.push /\ z.pop = x.pop /\ z.alive = x.alive /\ z.waking = x.waking /\ z.begun = x.begun
  BY DEF DqState
<1> HIDE DEF z
<1>9. p = IF x.get + 1 = DqSize THEN 0 ELSE x.get + 1 BY DEF p, DqStep
<1>10. DqLen(z) = DqLen(x) - 1 /\ DqLen(z) \in Nat /\ (e => DqLen(z) = 0)
  <2>1. DqLen(z) = (IF x.put = p THEN 0 ELSE IF x.put > p THEN x.put - p ELSE DqSize + x.put - p)
    BY <1>6, <1>8 DEF DqLen
  <2>2. DqLen(x) = IF x.put > x.get THEN x.put - x.get ELSE DqSize + x.put - x.get
    BY DEF DqLen
  <2> QED BY SMTT(30), <1>1, <1>2, <1>6, <1>9, <2>1, <2>2
<1>11. /\ y \in DqState /\ y.get = z.get /\ y.put = z.put /\ y.empty = z.empty /\ y.full = z.full
       /\ y.ring = z.ring /\ y.pop = z.pop /\ y.alive = z.alive /\ y.waking = z.waking /\ y.begun = z.begun
       /\ \/ y.push = z.push /\ ~(DqLen(z) <= DqLwm /\ z.push # << >>)
          \/ z.push # << >> /\ y.push = Tail(z.push)
  <2>1. CASE DqLen(z) <= DqLwm /\ z.push # << >>
    <3>1. z.push \in Seq(Task) /\ Tail(z.push) \in Seq(Task) BY <1>2, <1>8, <2>1
    <3> QED BY <1>7, <2>1, <3>1 DEF DqState
  <2>2. CASE ~(DqLen(z) <= DqLwm /\ z.push # << >>) BY <1>7, <2>2
  <2> QED BY <2>1, <2>2
<1> HIDE DEF y
<1>12. DqLen(y) = DqLen(z) BY <1>11 DEF DqLen
<1>13. DqFlags(y) BY <1>6, <1>8, <1>11 DEF DqFlags
<1>14. \/ y.push = x.push /\ (y.empty => x.push = << >>)
       \/ x.push # << >> /\ y.push = Tail(x.push)
  BY <1>1, <1>8, <1>10, <1>11
<1> QED BY <1>3, <1>8, <1>10, <1>11, <1>12, <1>13, <1>14 DEF p, g

\* What DqInductive says, part by part.
LEMMA DqNow ==
    ASSUME DqInductive
    PROVE  /\ dq \in DqState /\ DqFlags(dq)
           /\ dqTask \in [Task -> TaskState] /\ dqItem \in [Task -> DqItem \cup {NoItem}]
           /\ dq.push \in Seq(Task) /\ IsInjective(dq.push) /\ ToSet(dq.push) \subseteq Task
           /\ dq.pop \in Seq(Task) /\ IsInjective(dq.pop) /\ ToSet(dq.pop) \subseteq Task
           /\ \A t \in ToSet(dq.push) : /\ dqTask[t].at = "wait" /\ dqTask[t].err = "ok"
                                       /\ dqItem[t] # NoItem
           /\ \A t \in ToSet(dq.pop) : /\ dqTask[t].at = "wait" /\ dqTask[t].err = "ok"
                                      /\ dqItem[t] = NoItem
           /\ (dq.push = << >>) <=> (ToSet(dq.push) = {})
           /\ (dq.pop = << >>) <=> (ToSet(dq.pop) = {})
           /\ DqReaders \in SUBSET Task /\ IsFiniteSet(DqReaders)
           /\ Cardinality(DqReaders) \in Nat /\ DqLen(dq) \in Nat
           /\ ~dq.waking /\ dq.pop # << >> => DqLen(dq) <= Cardinality(DqReaders)
           /\ ~dq.waking /\ ~dq.begun /\ dq.push # << >> /\ dq.empty => DqWriters # {}
<1>1. dq \in DqState /\ dq.push \in Seq(Task) /\ dq.pop \in Seq(Task) BY DEF DqInductive, DqState
<1>2. /\ ToSet(dq.push) \subseteq Task /\ ToSet(dq.pop) \subseteq Task
      /\ (dq.push = << >>) <=> (ToSet(dq.push) = {})
      /\ (dq.pop = << >>) <=> (ToSet(dq.pop) = {})
  BY <1>1, EmptyFacts
<1>3. DqReaders \in SUBSET Task BY DEF DqReaders, DqWoken
<1>4. IsFiniteSet(DqReaders) /\ Cardinality(DqReaders) \in Nat BY <1>3, Counted
<1>5. DqLen(dq) \in Nat
  <2>1. /\ dq.get \in 0..(DqSize - 1) /\ dq.put \in 0..(DqSize - 1)
        /\ DqSize \in Nat
    BY <1>1, DqConstants DEF DqState
  <2> QED BY <2>1 DEF DqLen
<1>6. /\ DqFlags(dq)
      /\ dqTask \in [Task -> TaskState] /\ dqItem \in [Task -> DqItem \cup {NoItem}]
      /\ IsInjective(dq.push) /\ IsInjective(dq.pop)
  BY DEF DqInductive, DqNoLostWakeup, ListOf
<1>7. /\ \A t \in ToSet(dq.push) : /\ dqTask[t].at = "wait" /\ dqTask[t].err = "ok"
                                   /\ dqItem[t] # NoItem
      /\ \A t \in ToSet(dq.pop) : /\ dqTask[t].at = "wait" /\ dqTask[t].err = "ok"
                                  /\ dqItem[t] = NoItem
  BY DEF DqInductive, DqNoLostWakeup, ListOf
<1>8. ~dq.waking /\ dq.pop # << >> => DqLen(dq) <= Cardinality(DqReaders)
  BY DEF DqInductive, DqNoLostWakeup, DqReaders
<1>9. ~dq.waking /\ ~dq.begun /\ dq.push # << >> /\ dq.empty => DqWriters # {}
  BY DEF DqInductive, DqNoLostWakeup, DqWriters
<1> QED BY <1>1, <1>2, <1>3, <1>4, <1>5, <1>6, <1>7, <1>8, <1>9

\* The lists of a queue, its threads and their items.
DqLists(x, th, it) ==
    /\ ListOf(x.push, th) /\ \A t \in ToSet(x.push) : it[t] # NoItem
    /\ ListOf(x.pop, th) /\ \A t \in ToSet(x.pop) : it[t] = NoItem

\* The parts together.
LEMMA DqParts ==
    ASSUME dq' \in DqState, DqFlags(dq'), dqTask' \in [Task -> TaskState],
           dqItem' \in [Task -> DqItem \cup {NoItem}], DqLists(dq', dqTask', dqItem'),
           ~dq'.waking /\ dq'.pop # << >> => DqLen(dq') <= Cardinality(DqReaders'),
           ~dq'.waking /\ ~dq'.begun /\ dq'.push # << >> /\ dq'.empty => DqWriters' # {}
    PROVE  DqInductive'
  BY DEF DqInductive, DqNoLostWakeup, DqLists, DqReaders, DqWriters, DqLen, DqFlags

\* A thread that ends its call, or starts to wait.
LEMMA DqFinishFacts ==
    ASSUME DqInductive, NEW t \in Task, DqFinish(t)
    PROVE  /\ dqTask' \in [Task -> TaskState] /\ dqItem' \in [Task -> DqItem \cup {NoItem}]
           /\ dqTask'[t].at = "idle" /\ dqItem'[t] = NoItem
           /\ \A u \in Task \ {t} : dqTask'[u] = dqTask[u] /\ dqItem'[u] = dqItem[u]
  BY DqNow, AtRestType DEF DqFinish, AtRest

LEMMA DqSuspendFacts ==
    ASSUME DqInductive, NEW t \in Task, NEW time \in {"none", "limited", "forever"},
           NEW m \in DqItem \cup {NoItem}, DqSuspend(t, time, m)
    PROVE  /\ dqTask' \in [Task -> TaskState] /\ dqItem' \in [Task -> DqItem \cup {NoItem}]
           /\ dqTask'[t].at = "wait" /\ dqTask'[t].err = "ok" /\ dqItem'[t] = m
           /\ \A u \in Task \ {t} : dqTask'[u] = dqTask[u] /\ dqItem'[u] = dqItem[u]
<1>1. Waiting(time) \in TaskState BY DEF Waiting, TaskState
<1> QED BY <1>1, DqNow DEF DqSuspend, Waiting

\* rt_data_queue_push, at first and after a wakeup.
LEMMA DqPushOK ==
    ASSUME DqInductive, NEW t \in Task, NEW m \in DqItem,
           NEW time \in {"none", "limited", "forever"},
           t \notin DqSuspended, t \notin DqReaders, rt_data_queue_push(t, m, time)
    PROVE  DqInductive'
<1>0. m # NoItem BY DqConstants
<1>1. CASE dq.full
  <2>1. dq' = [dq EXCEPT !.push = Append(@, t)] /\ DqSuspend(t, time, m)
    BY <1>1 DEF rt_data_queue_push
  <2>2. /\ dqTask' \in [Task -> TaskState] /\ dqItem' \in [Task -> DqItem \cup {NoItem}]
        /\ dqTask'[t].at = "wait" /\ dqTask'[t].err = "ok" /\ dqItem'[t] = m
        /\ \A u \in Task \ {t} : dqTask'[u] = dqTask[u] /\ dqItem'[u] = dqItem[u]
    BY <2>1, DqSuspendFacts
  <2>3. /\ Append(dq.push, t) \in Seq(Task) /\ IsInjective(Append(dq.push, t))
        /\ ToSet(Append(dq.push, t)) = ToSet(dq.push) \cup {t}
    BY DqNow, AppendFacts DEF DqSuspended
  <2>4. /\ dq' \in DqState /\ dq'.push = Append(dq.push, t) /\ dq'.pop = dq.pop
        /\ dq'.get = dq.get /\ dq'.put = dq.put /\ dq'.empty = dq.empty /\ dq'.full = dq.full
        /\ dq'.waking = dq.waking /\ dq'.begun = dq.begun
    BY <2>1, <2>3, DqNow DEF DqState
  <2>5. DqLen(dq') = DqLen(dq) /\ DqFlags(dq') BY <2>4, DqNow DEF DqLen, DqFlags
  <2>6. ListOf(dq'.push, dqTask') /\ \A u \in ToSet(dq'.push) : dqItem'[u] # NoItem
    BY <1>0, <2>2, <2>3, <2>4, DqNow DEF ListOf
  <2>7. ListOf(dq'.pop, dqTask') /\ \A u \in ToSet(dq'.pop) : dqItem'[u] = NoItem
    BY <2>2, <2>4, DqNow DEF ListOf, DqSuspended
  <2>8. DqReaders' = DqReaders
    BY <1>0, <2>2, <2>3, <2>4 DEF DqReaders, DqWoken, DqSuspended
  <2>9. ~dq'.waking /\ dq'.pop # << >> => DqLen(dq') <= Cardinality(DqReaders')
    BY <2>4, <2>5, <2>8, DqNow
  <2>10. ~dq'.empty BY <1>1, <2>4, DqNow DEF DqFlags
  <2> QED BY <2>2, <2>4, <2>5, <2>6, <2>7, <2>9, <2>10, DqParts DEF DqLists
<1>2. CASE ~dq.full
  <2>1. dq' = DqStore(dq, m) /\ DqFinish(t) BY <1>2 DEF rt_data_queue_push
  <2>2. /\ dqTask' \in [Task -> TaskState] /\ dqItem' \in [Task -> DqItem \cup {NoItem}]
        /\ dqTask'[t].at = "idle" /\ dqItem'[t] = NoItem
        /\ \A u \in Task \ {t} : dqTask'[u] = dqTask[u] /\ dqItem'[u] = dqItem[u]
    BY <2>1, DqFinishFacts
  <2>3. /\ dq' \in DqState /\ DqFlags(dq') /\ DqLen(dq') = DqLen(dq) + 1 /\ ~dq'.empty
        /\ dq'.push = dq.push /\ dq'.waking = dq.waking /\ dq'.begun = dq.begun
        /\ dq'.pop = IF dq.pop = << >> THEN << >> ELSE Tail(dq.pop)
    BY <1>2, <2>1, DqNow, DqStoreFacts
  <2>4. ListOf(dq'.push, dqTask') /\ \A u \in ToSet(dq'.push) : dqItem'[u] # NoItem
    BY <2>2, <2>3, DqNow DEF ListOf, DqSuspended
  <2>5. CASE dq.pop = << >>
    <3>1. dq'.pop = dq.pop BY <2>3, <2>5
    <3>2. ListOf(dq'.pop, dqTask') /\ \A u \in ToSet(dq'.pop) : dqItem'[u] = NoItem
      BY <2>5, <3>1, DqNow DEF ListOf
    <3> QED BY <2>2, <2>3, <2>4, <2>5, <3>1, <3>2, DqParts DEF DqLists
  <2>6. CASE dq.pop # << >>
    <3> DEFINE h == Head(dq.pop)
    <3>1. /\ h \in Task /\ h \in ToSet(dq.pop) /\ IsInjective(Tail(dq.pop))
          /\ ToSet(Tail(dq.pop)) = ToSet(dq.pop) \ {h}
      BY <2>6, DqNow, TailFacts
    <3>2. dq'.pop = Tail(dq.pop) BY <2>3, <2>6
    <3> HIDE DEF h
    <3>3. h # t /\ h \in DqSuspended BY <3>1 DEF DqSuspended
    <3>4. ListOf(dq'.pop, dqTask') /\ \A u \in ToSet(dq'.pop) : dqItem'[u] = NoItem
      BY <2>2, <3>1, <3>2, DqNow DEF ListOf, DqSuspended
    <3>5. DqReaders' = DqReaders \cup {h} /\ h \notin DqReaders
      <4>1. DqSuspended' = DqSuspended \ {h}
        BY <2>3, <3>1, <3>2, DqNow DEF DqSuspended
      <4>2. dqTask'[h].at = "wait" /\ dqTask'[h].err = "ok" /\ dqItem'[h] = NoItem
        BY <2>2, <3>1, <3>3, DqNow
      <4> QED BY <2>2, <3>1, <3>3, <4>1, <4>2 DEF DqReaders, DqWoken
    <3>6. Cardinality(DqReaders') = Cardinality(DqReaders) + 1
      BY <3>5, DqNow, FS_AddElement
    <3>7. ~dq'.waking => DqLen(dq') <= Cardinality(DqReaders')
      BY <2>3, <2>6, <3>6, DqNow
    <3> QED BY <2>2, <2>3, <2>4, <3>4, <3>7, DqParts DEF DqLists
  <2> QED BY <2>5, <2>6
<1> QED BY <1>1, <1>2

\* rt_data_queue_pop, at first and after a wakeup.
LEMMA DqPopOK ==
    ASSUME DqInductive, NEW t \in Task, NEW time \in {"none", "limited", "forever"},
           t \notin DqSuspended, t \notin DqWriters, rt_data_queue_pop(t, time)
    PROVE  DqInductive'
<1>1. CASE dq.empty
  <2>1. dq' = [dq EXCEPT !.pop = Append(@, t)] /\ DqSuspend(t, time, NoItem)
    BY <1>1 DEF rt_data_queue_pop
  <2>2. /\ dqTask' \in [Task -> TaskState] /\ dqItem' \in [Task -> DqItem \cup {NoItem}]
        /\ dqTask'[t].at = "wait" /\ dqTask'[t].err = "ok" /\ dqItem'[t] = NoItem
        /\ \A u \in Task \ {t} : dqTask'[u] = dqTask[u] /\ dqItem'[u] = dqItem[u]
    BY <2>1, DqSuspendFacts
  <2>3. /\ Append(dq.pop, t) \in Seq(Task) /\ IsInjective(Append(dq.pop, t))
        /\ ToSet(Append(dq.pop, t)) = ToSet(dq.pop) \cup {t}
    BY DqNow, AppendFacts DEF DqSuspended
  <2>4. /\ dq' \in DqState /\ dq'.pop = Append(dq.pop, t) /\ dq'.push = dq.push
        /\ dq'.get = dq.get /\ dq'.put = dq.put /\ dq'.empty = dq.empty /\ dq'.full = dq.full
        /\ dq'.waking = dq.waking /\ dq'.begun = dq.begun
    BY <2>1, <2>3, DqNow DEF DqState
  <2>5. DqLen(dq') = 0 /\ DqFlags(dq') BY <1>1, <2>4, DqNow DEF DqLen, DqFlags
  <2>6. ListOf(dq'.pop, dqTask') /\ \A u \in ToSet(dq'.pop) : dqItem'[u] = NoItem
    BY <2>2, <2>3, <2>4, DqNow DEF ListOf
  <2>7. ListOf(dq'.push, dqTask') /\ \A u \in ToSet(dq'.push) : dqItem'[u] # NoItem
    BY <2>2, <2>4, DqNow DEF ListOf, DqSuspended
  <2>8. DqWriters' = DqWriters
    BY <2>2, <2>3, <2>4 DEF DqWriters, DqWoken, DqSuspended
  <2>9. DqReaders' \in SUBSET Task BY DEF DqReaders, DqWoken
  <2>10. Cardinality(DqReaders') \in Nat BY <2>9, Counted
  <2>11. ~dq'.waking /\ ~dq'.begun /\ dq'.push # << >> /\ dq'.empty => DqWriters' # {}
    BY <2>4, <2>8, DqNow
  <2> QED BY <2>2, <2>4, <2>5, <2>6, <2>7, <2>10, <2>11, DqParts DEF DqLists
<1>2. CASE ~dq.empty
  <2>1. dq' = DqFetch(dq) /\ DqFinish(t) BY <1>2 DEF rt_data_queue_pop
  <2>2. /\ dqTask' \in [Task -> TaskState] /\ dqItem' \in [Task -> DqItem \cup {NoItem}]
        /\ dqTask'[t].at = "idle" /\ dqItem'[t] = NoItem
        /\ \A u \in Task \ {t} : dqTask'[u] = dqTask[u] /\ dqItem'[u] = dqItem[u]
    BY <2>1, DqFinishFacts
  <2>3. /\ dq' \in DqState /\ DqFlags(dq') /\ DqLen(dq') = DqLen(dq) - 1
        /\ dq'.pop = dq.pop /\ dq'.waking = dq.waking /\ dq'.begun = dq.begun
        /\ \/ dq'.push = dq.push /\ (dq'.empty => dq.push = << >>)
           \/ dq.push # << >> /\ dq'.push = Tail(dq.push)
    BY <1>2, <2>1, DqNow, DqFetchFacts
  <2>4. ListOf(dq'.pop, dqTask') /\ \A u \in ToSet(dq'.pop) : dqItem'[u] = NoItem
    BY <2>2, <2>3, DqNow DEF ListOf, DqSuspended
  <2>5. ASSUME DqReaders' = DqReaders \ {t}
        PROVE  ~dq'.waking /\ dq'.pop # << >> => DqLen(dq') <= Cardinality(DqReaders')
    <3>1. Cardinality(DqReaders') = IF t \in DqReaders THEN Cardinality(DqReaders) - 1
                                    ELSE Cardinality(DqReaders)
      BY <2>5, DqNow, FS_RemoveElement
    <3> QED BY <2>3, <3>1, DqNow
  <2>6. CASE dq'.push = dq.push /\ (dq'.empty => dq.push = << >>)
    <3>1. ListOf(dq'.push, dqTask') /\ \A u \in ToSet(dq'.push) : dqItem'[u] # NoItem
      BY <2>2, <2>6, DqNow DEF ListOf, DqSuspended
    <3>2. DqReaders' = DqReaders \ {t}
      BY <2>2, <2>3, <2>6 DEF DqReaders, DqWoken, DqSuspended
    <3> QED BY <2>2, <2>3, <2>4, <2>5, <2>6, <3>1, <3>2, DqParts DEF DqLists
  <2>7. CASE dq.push # << >> /\ dq'.push = Tail(dq.push)
    <3> DEFINE h == Head(dq.push)
    <3>1. /\ h \in Task /\ h \in ToSet(dq.push) /\ IsInjective(Tail(dq.push))
          /\ ToSet(Tail(dq.push)) = ToSet(dq.push) \ {h}
      BY <2>7, DqNow, TailFacts
    <3> HIDE DEF h
    <3>2. h # t /\ h \in DqSuspended BY <3>1 DEF DqSuspended
    <3>3. ListOf(dq'.push, dqTask') /\ \A u \in ToSet(dq'.push) : dqItem'[u] # NoItem
      BY <2>2, <2>7, <3>1, DqNow DEF ListOf, DqSuspended
    <3>4. DqSuspended' = DqSuspended \ {h}
      BY <2>3, <2>7, <3>1, DqNow DEF DqSuspended
    <3>5. dqTask'[h].at = "wait" /\ dqTask'[h].err = "ok" /\ dqItem'[h] # NoItem
      BY <2>2, <3>1, <3>2, DqNow
    <3>6. h \in DqWriters' BY <3>1, <3>4, <3>5 DEF DqWriters, DqWoken
    <3>7. DqReaders' = DqReaders \ {t}
      BY <2>2, <3>1, <3>2, <3>4, <3>5 DEF DqReaders, DqWoken
    <3> QED BY <2>2, <2>3, <2>4, <2>5, <3>3, <3>6, <3>7, DqParts DEF DqLists
  <2> QED BY <2>3, <2>6, <2>7
<1> QED BY <1>1, <1>2

\* A wait that ends with an error, and the timer of a waiting thread.
LEMMA DqFailsOK ==
    ASSUME DqInductive, NEW t \in Task, DqFails(t)
    PROVE  DqInductive'
<1>1. dq' = dq /\ dqTask[t].err # "ok" /\ DqFinish(t) BY DEF DqFails
<1>2. /\ dqTask' \in [Task -> TaskState] /\ dqItem' \in [Task -> DqItem \cup {NoItem}]
      /\ dqTask'[t].at = "idle" /\ dqItem'[t] = NoItem
      /\ \A u \in Task \ {t} : dqTask'[u] = dqTask[u] /\ dqItem'[u] = dqItem[u]
  BY <1>1, DqFinishFacts
<1>3. t \notin ToSet(dq.push) /\ t \notin ToSet(dq.pop) BY <1>1, DqNow
<1>4. DqLists(dq', dqTask', dqItem') BY <1>1, <1>2, <1>3, DqNow DEF DqLists, ListOf
<1>5. DqSuspended' = DqSuspended BY <1>1 DEF DqSuspended
<1>6. DqWoken' = DqWoken /\ t \notin DqWoken BY <1>1, <1>2, <1>5 DEF DqWoken
<1>7. DqWoken \subseteq Task BY DEF DqWoken
<1>8. DqReaders' = DqReaders /\ DqWriters' = DqWriters
  BY <1>2, <1>6, <1>7 DEF DqReaders, DqWriters
<1> QED BY <1>1, <1>2, <1>4, <1>8, DqNow, DqParts

LEMMA DqFailFacts ==
    ASSUME DqInductive, NEW t \in Task, NEW e \in {"timeout", "error"}, DqFail(t, e)
    PROVE  /\ dqTask' \in [Task -> TaskState] /\ dqItem' \in [Task -> DqItem \cup {NoItem}]
           /\ dqTask'[t].err = e
           /\ \A u \in Task \ {t} : dqTask'[u] = dqTask[u] /\ dqItem'[u] = dqItem[u]
<1>1. dqTask \in [Task -> TaskState] /\ dqItem \in [Task -> DqItem \cup {NoItem}] BY DqNow
<1>2. /\ dqTask' = [dqTask EXCEPT ![t] = [dqTask[t] EXCEPT !.err = e]]
      /\ dqItem' = [dqItem EXCEPT ![t] = NoItem]
  BY DEF DqFail
<1>3. [dqTask[t] EXCEPT !.err = e] \in TaskState /\ [dqTask[t] EXCEPT !.err = e].err = e
  BY <1>1 DEF TaskState
<1> QED BY <1>1, <1>2, <1>3

LEMMA DqTimeoutOK ==
    ASSUME DqInductive, NEW t \in Task, DqTimeout(t)
    PROVE  DqInductive'
<1>1. /\ dq' = [dq EXCEPT !.push = RemoveFirst(@, t), !.pop = RemoveFirst(@, t)]
      /\ DqFail(t, "timeout") /\ t \in DqSuspended
  BY DEF DqTimeout
<1>2. /\ dqTask' \in [Task -> TaskState] /\ dqItem' \in [Task -> DqItem \cup {NoItem}]
      /\ dqTask'[t].err = "timeout"
      /\ \A u \in Task \ {t} : dqTask'[u] = dqTask[u] /\ dqItem'[u] = dqItem[u]
  BY <1>1, DqFailFacts
<1>3. /\ RemoveFirst(dq.push, t) \in Seq(Task) /\ IsInjective(RemoveFirst(dq.push, t))
      /\ ToSet(RemoveFirst(dq.push, t)) = ToSet(dq.push) \ {t}
  BY DqNow, RemoveFirstFacts
<1>4. /\ RemoveFirst(dq.pop, t) \in Seq(Task) /\ IsInjective(RemoveFirst(dq.pop, t))
      /\ ToSet(RemoveFirst(dq.pop, t)) = ToSet(dq.pop) \ {t}
  BY DqNow, RemoveFirstFacts
<1>5. /\ dq' \in DqState /\ dq'.push = RemoveFirst(dq.push, t) /\ dq'.pop = RemoveFirst(dq.pop, t)
      /\ dq'.get = dq.get /\ dq'.put = dq.put /\ dq'.empty = dq.empty /\ dq'.full = dq.full
      /\ dq'.waking = dq.waking /\ dq'.begun = dq.begun
  BY <1>1, <1>3, <1>4, DqNow DEF DqState
<1>6. DqLen(dq') = DqLen(dq) /\ DqFlags(dq') BY <1>5, DqNow DEF DqLen, DqFlags
<1>7. DqLists(dq', dqTask', dqItem')
  BY <1>1, <1>2, <1>3, <1>4, <1>5, DqNow DEF DqLists, ListOf
<1>8. DqSuspended' = DqSuspended \ {t} BY <1>3, <1>4, <1>5 DEF DqSuspended
<1>9. DqWoken' = DqWoken /\ t \notin DqWoken BY <1>1, <1>2, <1>8 DEF DqWoken
<1>10. DqReaders' = DqReaders /\ DqWriters' = DqWriters
  <2>1. DqWoken \subseteq Task BY DEF DqWoken
  <2> QED BY <1>2, <1>9, <2>1 DEF DqReaders, DqWriters
<1>11. /\ dq'.pop # << >> => dq.pop # << >>
       /\ dq'.push # << >> => dq.push # << >>
  <2>1. RemoveFirst(<< >>, t) = << >> BY DEF RemoveFirst
  <2> QED BY <1>5, <2>1
<1> QED BY <1>1, <1>2, <1>5, <1>6, <1>7, <1>10, <1>11, DqNow, DqParts

\* rt_data_queue_reset: the ring, the lock of the scheduler, then one thread per
\* turn.
LEMMA DqResetOK ==
    ASSUME DqInductive, DqReset
    PROVE  DqInductive'
<1>1. /\ dqTask' = dqTask /\ dqItem' = dqItem
      /\ dq' = [dq EXCEPT !.ring = DqFresh.ring, !.get = 0, !.put = 0,
                          !.empty = TRUE, !.full = FALSE, !.begun = TRUE]
  BY DEF DqReset
<1>2. /\ DqFresh.ring \in [0..(DqSize - 1) -> DqItem \cup {NoItem}] /\ 0 \in 0..(DqSize - 1)
  BY DqConstants DEF DqFresh
<1>3. /\ dq' \in DqState /\ dq'.push = dq.push /\ dq'.pop = dq.pop /\ dq'.begun
      /\ dq'.get = 0 /\ dq'.put = 0 /\ dq'.empty = TRUE /\ dq'.full = FALSE
  BY <1>1, <1>2, DqNow DEF DqState
<1>4. DqFlags(dq') BY <1>3 DEF DqFlags
<1>5. DqLists(dq', dqTask', dqItem') BY <1>1, <1>3, DqNow DEF DqLists, ListOf
<1>6. DqReaders' \in SUBSET Task BY DEF DqReaders, DqWoken
<1>7. Cardinality(DqReaders') \in Nat BY <1>6, Counted
<1>8. DqLen(dq') = 0 BY <1>3 DEF DqLen
<1> QED BY <1>1, <1>3, <1>4, <1>5, <1>7, <1>8, DqNow, DqParts

LEMMA DqResetLocksOK ==
    ASSUME DqInductive, DqResetLocks
    PROVE  DqInductive'
<1>1. /\ dqTask' = dqTask /\ dqItem' = dqItem
      /\ dq' = [dq EXCEPT !.begun = FALSE, !.waking = TRUE]
  BY DEF DqResetLocks
<1>2. /\ dq' \in DqState /\ dq'.push = dq.push /\ dq'.pop = dq.pop /\ dq'.waking
      /\ dq'.get = dq.get /\ dq'.put = dq.put /\ dq'.empty = dq.empty /\ dq'.full = dq.full
  BY <1>1, DqNow DEF DqState
<1>3. DqFlags(dq') BY <1>2, DqNow DEF DqFlags
<1>4. DqLists(dq', dqTask', dqItem') BY <1>1, <1>2, DqNow DEF DqLists, ListOf
<1> QED BY <1>1, <1>2, <1>3, <1>4, DqNow, DqParts

LEMMA DqResetTurnOK ==
    ASSUME DqInductive, DqResetTurn
    PROVE  DqInductive'
<1>1. dq.waking BY DEF DqResetTurn
<1>2. CASE dq.pop # << >>
  <2> DEFINE h == Head(dq.pop)
  <2>1. /\ h \in Task /\ h \in ToSet(dq.pop) /\ Tail(dq.pop) \in Seq(Task)
        /\ IsInjective(Tail(dq.pop)) /\ ToSet(Tail(dq.pop)) = ToSet(dq.pop) \ {h}
    BY <1>2, DqNow, TailFacts
  <2>2. dq' = [dq EXCEPT !.pop = Tail(dq.pop)] /\ DqFail(h, "error")
    BY <1>2 DEF DqResetTurn
  <2> HIDE DEF h
  <2>3. /\ dqTask' \in [Task -> TaskState] /\ dqItem' \in [Task -> DqItem \cup {NoItem}]
        /\ \A u \in Task \ {h} : dqTask'[u] = dqTask[u] /\ dqItem'[u] = dqItem[u]
    BY <2>1, <2>2, DqFailFacts
  <2>4. /\ dq' \in DqState /\ dq'.pop = Tail(dq.pop) /\ dq'.push = dq.push
        /\ dq'.get = dq.get /\ dq'.put = dq.put /\ dq'.empty = dq.empty /\ dq'.full = dq.full
        /\ dq'.waking = dq.waking /\ dq'.begun = dq.begun
    BY <2>1, <2>2, DqNow DEF DqState
  <2>5. DqFlags(dq') BY <2>4, DqNow DEF DqFlags
  <2>6. h \notin ToSet(dq.push) BY <2>1, DqNow
  <2>7. DqLists(dq', dqTask', dqItem')
    <3>1. ListOf(dq'.push, dqTask') /\ \A u \in ToSet(dq'.push) : dqItem'[u] # NoItem
      BY <1>1, <2>3, <2>4, <2>6, DqNow DEF ListOf
    <3>2. ListOf(dq'.pop, dqTask') /\ \A u \in ToSet(dq'.pop) : dqItem'[u] = NoItem
      BY <1>1, <2>1, <2>3, <2>4, DqNow DEF ListOf
    <3> QED BY <3>1, <3>2 DEF DqLists
  <2> QED BY <1>1, <2>3, <2>4, <2>5, <2>7, DqNow, DqParts
<1>3. CASE dq.pop = << >> /\ dq.push # << >>
  <2> DEFINE h == Head(dq.push)
  <2>1. /\ h \in Task /\ h \in ToSet(dq.push) /\ Tail(dq.push) \in Seq(Task)
        /\ IsInjective(Tail(dq.push)) /\ ToSet(Tail(dq.push)) = ToSet(dq.push) \ {h}
    BY <1>3, DqNow, TailFacts
  <2>2. dq' = [dq EXCEPT !.push = Tail(dq.push)] /\ DqFail(h, "error")
    BY <1>3 DEF DqResetTurn
  <2> HIDE DEF h
  <2>3. /\ dqTask' \in [Task -> TaskState] /\ dqItem' \in [Task -> DqItem \cup {NoItem}]
        /\ \A u \in Task \ {h} : dqTask'[u] = dqTask[u] /\ dqItem'[u] = dqItem[u]
    BY <2>1, <2>2, DqFailFacts
  <2>4. /\ dq' \in DqState /\ dq'.push = Tail(dq.push) /\ dq'.pop = dq.pop
        /\ dq'.get = dq.get /\ dq'.put = dq.put /\ dq'.empty = dq.empty /\ dq'.full = dq.full
        /\ dq'.waking = dq.waking /\ dq'.begun = dq.begun
    BY <2>1, <2>2, DqNow DEF DqState
  <2>5. DqFlags(dq') BY <2>4, DqNow DEF DqFlags
  <2>6. DqLists(dq', dqTask', dqItem')
    BY <1>1, <1>3, <2>1, <2>3, <2>4, DqNow DEF DqLists, ListOf
  <2> QED BY <1>1, <2>3, <2>4, <2>5, <2>6, DqNow, DqParts
<1>4. CASE dq.pop = << >> /\ dq.push = << >>
  <2>1. dq' = [dq EXCEPT !.waking = FALSE] /\ dqTask' = dqTask /\ dqItem' = dqItem
    BY <1>4 DEF DqResetTurn
  <2>2. /\ dq' \in DqState /\ dq'.push = dq.push /\ dq'.pop = dq.pop
        /\ dq'.get = dq.get /\ dq'.put = dq.put /\ dq'.empty = dq.empty /\ dq'.full = dq.full
    BY <2>1, DqNow DEF DqState
  <2>3. DqFlags(dq') BY <2>2, DqNow DEF DqFlags
  <2>4. DqLists(dq', dqTask', dqItem') BY <1>1, <2>1, <2>2, DqNow DEF DqLists, ListOf
  <2> QED BY <1>1, <1>4, <2>1, <2>2, <2>3, <2>4, DqNow, DqParts
<1> QED BY <1>2, <1>3, <1>4

\* A queue as rt_data_queue_init leaves it.
LEMMA DqFreshFacts == DqFresh \in DqState /\ DqFlags(DqFresh)
<1>1. DqSize \in Nat /\ 0 \in 0..(DqSize - 1) BY DqConstants
<1>2. [i \in 0..(DqSize - 1) |-> NoItem] \in [0..(DqSize - 1) -> DqItem \cup {NoItem}] OBVIOUS
<1>3. << >> \in Seq(Task) OBVIOUS
<1> QED BY <1>1, <1>2, <1>3 DEF DqFresh, DqState, DqFlags

LEMMA DqFreshOK ==
    ASSUME dq' = DqFresh, dqTask' \in [Task -> TaskState],
           dqItem' \in [Task -> DqItem \cup {NoItem}]
    PROVE  DqInductive'
<1>1. IsInjective(<< >>) /\ ToSet(<< >>) = {} BY DEF IsInjective, ToSet
<1>2. dq'.push = << >> /\ dq'.pop = << >> BY DEF DqFresh
<1>3. DqLists(dq', dqTask', dqItem') BY <1>1, <1>2 DEF DqLists, ListOf
<1>4. dq' \in DqState /\ DqFlags(dq') BY DqFreshFacts
<1> QED BY <1>2, <1>3, <1>4, DqParts

LEMMA DqStepOK == ASSUME DqInductive, [DqNext]_dqVars PROVE DqInductive'
<1>0. \A t \in DqSuspended : t \in Task /\ dqTask[t].at = "wait" /\ dqTask[t].err = "ok"
  BY DqNow DEF DqSuspended
<1>1. ASSUME NEW t \in Task, NEW time \in TaskTimes, NEW m \in DqItem, DqPush(t, m, time)
      PROVE  DqInductive'
  <2>1. dqTask[t].at = "idle" /\ rt_data_queue_push(t, m, time) BY <1>1 DEF DqPush
  <2>2. t \notin DqSuspended BY <1>0, <2>1
  <2>3. t \notin DqReaders BY <2>1 DEF DqReaders, DqWoken
  <2>4. time \in {"none", "limited", "forever"} BY TaskConstants
  <2> QED BY <2>1, <2>2, <2>3, <2>4, DqPushOK
<1>2. ASSUME NEW t \in Task, NEW time \in TaskTimes, DqPop(t, time) PROVE DqInductive'
  <2>1. dqTask[t].at = "idle" /\ rt_data_queue_pop(t, time) BY <1>2 DEF DqPop
  <2>2. t \notin DqSuspended BY <1>0, <2>1
  <2>3. t \notin DqWriters BY <2>1 DEF DqWriters, DqWoken
  <2>4. time \in {"none", "limited", "forever"} BY TaskConstants
  <2> QED BY <2>1, <2>2, <2>3, <2>4, DqPopOK
<1>3. ASSUME NEW t \in Task, DqRetry(t) PROVE DqInductive'
  <2>1. t \notin DqSuspended BY <1>3 DEF DqRetry, DqWoken
  <2>2. dqTask[t].time \in {"none", "limited", "forever"} BY DqNow, TaskFields
  <2>3. CASE dqItem[t] = NoItem
    <3>1. t \notin DqWriters BY <2>3 DEF DqWriters
    <3>2. rt_data_queue_pop(t, dqTask[t].time) BY <1>3, <2>3 DEF DqRetry
    <3> QED BY <2>1, <2>2, <3>1, <3>2, DqPopOK
  <2>4. CASE dqItem[t] # NoItem
    <3>1. t \notin DqReaders BY <2>4 DEF DqReaders
    <3>2. rt_data_queue_push(t, dqItem[t], dqTask[t].time) BY <1>3, <2>4 DEF DqRetry
    <3>3. dqItem[t] \in DqItem BY <2>4, DqNow
    <3> QED BY <2>1, <2>2, <3>1, <3>2, <3>3, DqPushOK
  <2> QED BY <2>3, <2>4
<1>4. CASE DqCreate
  BY <1>4, DqNow, DqFreshOK DEF DqCreate
<1>5. CASE DqDeinit
  <2>1. dq' = [dq EXCEPT !.alive = FALSE] /\ dqTask' = dqTask /\ dqItem' = dqItem
        /\ DqSuspended = {}
    BY <1>5 DEF DqDeinit
  <2>2. dq.push = << >> /\ dq.pop = << >> BY <2>1, DqNow DEF DqSuspended
  <2>3. /\ dq' \in DqState /\ dq'.push = dq.push /\ dq'.pop = dq.pop
        /\ dq'.get = dq.get /\ dq'.put = dq.put /\ dq'.empty = dq.empty /\ dq'.full = dq.full
    BY <2>1, DqNow DEF DqState
  <2>4. DqFlags(dq') BY <2>3, DqNow DEF DqFlags
  <2>5. DqLists(dq', dqTask', dqItem') BY <2>1, <2>3, DqNow DEF DqLists, ListOf
  <2> QED BY <2>1, <2>2, <2>3, <2>4, <2>5, DqNow, DqParts
<1>6. CASE UNCHANGED dqVars
  <2>1. dq' = dq /\ dqTask' = dqTask /\ dqItem' = dqItem BY <1>6 DEF dqVars
  <2>2. DqSuspended' = DqSuspended BY <2>1 DEF DqSuspended
  <2>3. DqWoken' = DqWoken BY <2>1, <2>2 DEF DqWoken
  <2>4. DqReaders' = DqReaders /\ DqWriters' = DqWriters BY <2>1, <2>3 DEF DqReaders, DqWriters
  <2>5. DqLists(dq', dqTask', dqItem') BY <2>1, DqNow DEF DqLists, ListOf
  <2> QED BY <2>1, <2>4, <2>5, DqNow, DqParts
<1> QED BY <1>1, <1>2, <1>3, <1>4, <1>5, <1>6, DqFailsOK, DqTimeoutOK, DqResetOK,
           DqResetLocksOK, DqResetTurnOK DEF DqNext

LEMMA DqInitOK == ASSUME DqInit PROVE DqInductive
<1>1. dqTask \in [Task -> TaskState] /\ dqItem \in [Task -> DqItem \cup {NoItem}]
  BY AtRestType DEF DqInit
<1>2. IsInjective(<< >>) /\ ToSet(<< >>) = {} BY DEF IsInjective, ToSet
<1>3. dq.push = << >> /\ dq.pop = << >> BY DEF DqInit, DqFresh
<1>4. dq \in DqState /\ DqFlags(dq) BY DqFreshFacts DEF DqInit
<1> QED BY <1>1, <1>2, <1>3, <1>4 DEF DqInductive, DqNoLostWakeup, ListOf

\* While threads wait to pop, as many woken ones come for the items that are
\* left; a thread that waits to push is not left alone with an empty queue,
\* whatever the low-water mark.
THEOREM NoItemIsLeftBehind == DqSpec => []DqNoLostWakeup
<1>1. DqInit => DqInductive BY DqInitOK
<1>2. DqInductive /\ [DqNext]_dqVars => DqInductive' BY DqStepOK
<1>3. DqInductive => DqNoLostWakeup BY DEF DqInductive
<1> QED BY <1>1, <1>2, <1>3, PTL DEF DqSpec

\* The items of a queue.
LEMMA DqItemsFacts ==
    ASSUME NEW x \in DqState, DqFlags(x)
    PROVE  /\ DqItems(x) \in Seq(DqItem \cup {NoItem}) /\ Len(DqItems(x)) = DqLen(x)
           /\ DqLen(x) \in 0..DqSize /\ (~x.full => DqLen(x) < DqSize)
           /\ \A i \in 1..DqLen(x) : DqItems(x)[i] = x.ring[DqPlace(x, i)]
           /\ ~x.full => x.put = DqPlace(x, DqLen(x) + 1)
<1>1. DqSize \in Nat /\ DqSize > 0 BY DqConstants
<1>2. /\ x.ring \in [0..(DqSize - 1) -> DqItem \cup {NoItem}]
      /\ x.get \in 0..(DqSize - 1) /\ x.put \in 0..(DqSize - 1)
      /\ x.empty \in BOOLEAN /\ x.full \in BOOLEAN
  BY DEF DqState
<1>3. PICK g, p, n : g = x.get /\ p = x.put /\ n = DqLen(x) OBVIOUS
<1>4. /\ g \in 0..(DqSize - 1) /\ p \in 0..(DqSize - 1)
      /\ (x.empty => n = 0 /\ p = g)
      /\ (~x.empty => n = IF p > g THEN p - g ELSE DqSize + p - g)
      /\ (p = g => (x.empty \/ x.full))
  BY <1>2, <1>3 DEF DqLen, DqFlags
<1>5. n \in 0..DqSize /\ (~x.full => n < DqSize)
  <2>1. CASE x.empty BY <1>1, <1>4, <2>1
  <2>2. CASE ~x.empty BY <1>1, <1>4, <2>2
  <2> QED BY <2>1, <2>2
<1>6. ASSUME ~x.full
      PROVE  p = IF g + (n + 1) - 1 < DqSize THEN g + (n + 1) - 1 ELSE g + (n + 1) - 1 - DqSize
  <2>1. CASE x.empty BY <1>1, <1>4, <2>1
  <2>2. CASE ~x.empty BY <1>1, <1>4, <1>6, <2>2
  <2> QED BY <2>1, <2>2
<1>7. ASSUME NEW i \in 1..n PROVE DqPlace(x, i) \in 0..(DqSize - 1)
  BY <1>1, <1>3, <1>4, <1>5 DEF DqPlace
<1>8. DqItems(x) = [i \in 1..n |-> x.ring[DqPlace(x, i)]] BY <1>3 DEF DqItems
<1>9. DqItems(x) \in [1..n -> DqItem \cup {NoItem}] /\ n \in Nat
  BY <1>1, <1>2, <1>5, <1>7, <1>8
<1>10. DqItems(x) \in Seq(DqItem \cup {NoItem}) /\ Len(DqItems(x)) = n BY <1>9
<1> QED BY <1>3, <1>5, <1>6, <1>8, <1>10 DEF DqPlace

LEMMA DqStorePuts ==
    ASSUME NEW x \in DqState, DqFlags(x), ~x.full, NEW m \in DqItem
    PROVE  DqItems(DqStore(x, m)) = Append(DqItems(x), m) /\ Len(DqItems(x)) < DqSize
<1>1. PICK y : y = DqStore(x, m) OBVIOUS
<1>2. /\ y \in DqState /\ DqFlags(y) /\ DqLen(y) = DqLen(x) + 1 /\ y.get = x.get
      /\ y.ring = [x.ring EXCEPT ![x.put] = m]
  BY <1>1, DqStoreFacts
<1>3. PICK n \in Nat : n = DqLen(x) /\ n < DqSize /\ DqSize \in Nat
  BY DqItemsFacts, DqConstants
<1>4. /\ DqItems(x) \in Seq(DqItem \cup {NoItem}) /\ Len(DqItems(x)) = n
      /\ DqItems(y) \in Seq(DqItem \cup {NoItem}) /\ Len(DqItems(y)) = n + 1
      /\ \A i \in 1..n : DqItems(x)[i] = x.ring[DqPlace(x, i)]
      /\ \A i \in 1..(n + 1) : DqItems(y)[i] = y.ring[DqPlace(y, i)]
      /\ x.put = DqPlace(x, n + 1)
  BY <1>2, <1>3, DqItemsFacts
<1>5. \A i : DqPlace(y, i) = DqPlace(x, i) BY <1>2 DEF DqPlace
<1>6. /\ x.ring \in [0..(DqSize - 1) -> DqItem \cup {NoItem}]
      /\ x.get \in 0..(DqSize - 1) /\ x.put \in 0..(DqSize - 1)
  BY DEF DqState
<1>7. DqItems(y)[n + 1] = m
  <2>1. n + 1 \in 1..(n + 1) OBVIOUS
  <2>2. DqItems(y)[n + 1] = y.ring[x.put] BY <1>4, <1>5, <2>1
  <2> QED BY <1>2, <1>6, <2>2
<1>8. ASSUME NEW i \in 1..n PROVE DqItems(y)[i] = DqItems(x)[i]
  <2>1. PICK g : g = x.get OBVIOUS
  <2>2. PICK a : a = IF g + i - 1 < DqSize THEN g + i - 1 ELSE g + i - 1 - DqSize OBVIOUS
  <2>3. PICK b : b = IF g + (n + 1) - 1 < DqSize THEN g + (n + 1) - 1 ELSE g + (n + 1) - 1 - DqSize
    OBVIOUS
  <2>4. a \in 0..(DqSize - 1) /\ a # b
    <3>1. DqSize \in Nat /\ g \in 0..(DqSize - 1) /\ n < DqSize BY <1>3, <1>6, <2>1
    <3> QED BY <2>2, <2>3, <3>1
  <2>5. DqPlace(x, i) = a /\ x.put = b BY <1>4, <2>1, <2>2, <2>3 DEF DqPlace
  <2>6. y.ring[a] = x.ring[a] BY <1>2, <1>6, <2>4, <2>5
  <2>7. i \in 1..(n + 1) OBVIOUS
  <2> QED BY <1>4, <1>5, <2>5, <2>6, <2>7
<1>9. DqItems(y) = Append(DqItems(x), m) BY <1>4, <1>7, <1>8, PutLast
<1> QED BY <1>1, <1>3, <1>4, <1>9

LEMMA DqFetchGets ==
    ASSUME NEW x \in DqState, DqFlags(x), ~x.empty
    PROVE  /\ DqItems(x) # << >> /\ DqItems(DqFetch(x)) = Tail(DqItems(x))
           /\ Head(DqItems(x)) = x.ring[x.get]
<1>1. PICK y : y = DqFetch(x) OBVIOUS
<1>2. /\ y \in DqState /\ DqFlags(y) /\ DqLen(y) = DqLen(x) - 1 /\ DqLen(y) \in Nat
      /\ y.get = DqStep(x.get) /\ y.ring = [x.ring EXCEPT ![x.get] = NoItem]
  BY <1>1, DqFetchFacts
<1>3. DqLen(x) \in 0..DqSize /\ DqSize \in Nat BY DqItemsFacts, DqConstants
<1>4. PICK n \in Nat : n = DqLen(y) /\ n + 1 = DqLen(x) /\ n < DqSize BY <1>2, <1>3
<1>5. /\ DqItems(x) \in Seq(DqItem \cup {NoItem}) /\ Len(DqItems(x)) = n + 1
      /\ DqItems(y) \in Seq(DqItem \cup {NoItem}) /\ Len(DqItems(y)) = n
      /\ \A i \in 1..(n + 1) : DqItems(x)[i] = x.ring[DqPlace(x, i)]
      /\ \A i \in 1..n : DqItems(y)[i] = y.ring[DqPlace(y, i)]
  BY <1>2, <1>4, DqItemsFacts
<1>6. /\ x.ring \in [0..(DqSize - 1) -> DqItem \cup {NoItem}] /\ x.get \in 0..(DqSize - 1)
  BY DEF DqState
<1>7. ASSUME NEW i \in 1..n PROVE DqItems(y)[i] = DqItems(x)[i + 1]
  <2>1. PICK g, p : g = x.get /\ p = y.get OBVIOUS
  <2>2. p = IF g + 1 = DqSize THEN 0 ELSE g + 1 BY <1>2, <2>1 DEF DqStep
  <2>3. PICK a : a = IF g + (i + 1) - 1 < DqSize THEN g + (i + 1) - 1 ELSE g + (i + 1) - 1 - DqSize
    OBVIOUS
  <2>4. PICK b : b = IF p + i - 1 < DqSize THEN p + i - 1 ELSE p + i - 1 - DqSize OBVIOUS
  <2>5. a \in 0..(DqSize - 1) /\ a = b /\ a # g
    <3>1. DqSize \in Nat /\ g \in 0..(DqSize - 1) /\ n < DqSize BY <1>3, <1>4, <1>6, <2>1
    <3> QED BY <2>2, <2>3, <2>4, <3>1
  <2>6. DqPlace(x, i + 1) = a /\ DqPlace(y, i) = a BY <2>1, <2>3, <2>4, <2>5 DEF DqPlace
  <2>7. y.ring[a] = x.ring[a] BY <1>2, <1>6, <2>1, <2>5
  <2>8. i + 1 \in 1..(n + 1) OBVIOUS
  <2> QED BY <1>5, <2>6, <2>7, <2>8
<1>8. DqItems(x) # << >> /\ DqItems(y) = Tail(DqItems(x)) BY <1>5, <1>7, TakeFirst
<1>9. DqPlace(x, 1) = x.get
  <2>1. PICK g : g = x.get OBVIOUS
  <2>2. g \in 0..(DqSize - 1) /\ DqSize \in Nat BY <1>3, <1>6, <2>1
  <2>3. g + 1 - 1 = g /\ g < DqSize BY <2>2
  <2> QED BY <2>1, <2>3 DEF DqPlace
<1>10. Head(DqItems(x)) = DqItems(x)[1] /\ 1 \in 1..(n + 1) BY <1>5, <1>8
<1>11. Head(DqItems(x)) = x.ring[x.get] BY <1>5, <1>9, <1>10
<1> QED BY <1>1, <1>8, <1>11

\* A step that leaves the ring alone, and one that empties it.
LEMMA DqSameItems ==
    ASSUME NEW x, NEW y, y.ring = x.ring, y.get = x.get, y.put = x.put, y.empty = x.empty
    PROVE  DqItems(y) = DqItems(x)
  BY DEF DqItems, DqLen, DqPlace

LEMMA DqNoItems ==
    ASSUME NEW x, x.empty
    PROVE  DqItems(x) = << >>
<1>1. DqLen(x) = 0 /\ 1..0 = {} BY DEF DqLen
<1> QED BY <1>1 DEF DqItems

\* A step that leaves the items alone.
LEMMA DqPausing ==
    ASSUME dq'.ring = dq.ring, dq'.get = dq.get, dq'.put = dq.put, dq'.empty = dq.empty,
           DqPauses
    PROVE  DqPromise!AbsNext
<1>1. DqItems(dq)' = DqItems(dq) BY DqSameItems
<1>2. DqPromise!Happens("none", NoItem) BY DEF DqPromise!Happens, DqPauses, DqHappens
<1>3. DqPromise!Pause BY <1>1, <1>2 DEF DqPromise!Pause
<1> QED BY <1>3 DEF DqPromise!AbsNext

LEMMA DqPushRefines ==
    ASSUME DqInductive, NEW t \in Task, NEW time, NEW m \in DqItem,
           rt_data_queue_push(t, m, time)
    PROVE  DqPromise!AbsNext
<1>1. dq \in DqState /\ DqFlags(dq) BY DqNow
<1>2. CASE dq.full
  <2>1. dq' = [dq EXCEPT !.push = Append(@, t)] /\ DqPauses BY <1>2 DEF rt_data_queue_push
  <2>2. dq'.ring = dq.ring /\ dq'.get = dq.get /\ dq'.put = dq.put /\ dq'.empty = dq.empty
    BY <1>1, <2>1 DEF DqState
  <2> QED BY <2>1, <2>2, DqPausing
<1>3. CASE ~dq.full
  <2>0. dq' = DqStore(dq, m) /\ DqHappens("send", m) BY <1>3 DEF rt_data_queue_push
  <2>1. DqItems(dq)' = Append(DqItems(dq), m) /\ Len(DqItems(dq)) < DqSize
    <3>1. DqItems(dq)' = DqItems(dq') BY DEF DqItems, DqLen, DqPlace
    <3>2. DqItems(DqStore(dq, m)) = Append(DqItems(dq), m) /\ Len(DqItems(dq)) < DqSize
      BY <1>1, <1>3, DqStorePuts
    <3> QED BY <2>0, <3>1, <3>2
  <2>2. DqPromise!Happens("send", m) BY <2>0 DEF DqPromise!Happens, DqHappens
  <2>3. DqPromise!Send(m) BY <2>1, <2>2 DEF DqPromise!Send
  <2> QED BY <2>3 DEF DqPromise!AbsNext
<1> QED BY <1>2, <1>3

LEMMA DqPopRefines ==
    ASSUME DqInductive, NEW t \in Task, NEW time, rt_data_queue_pop(t, time)
    PROVE  DqPromise!AbsNext
<1>1. dq \in DqState /\ DqFlags(dq) BY DqNow
<1>2. CASE dq.empty
  <2>1. dq' = [dq EXCEPT !.pop = Append(@, t)] /\ DqPauses BY <1>2 DEF rt_data_queue_pop
  <2>2. dq'.ring = dq.ring /\ dq'.get = dq.get /\ dq'.put = dq.put /\ dq'.empty = dq.empty
    BY <1>1, <2>1 DEF DqState
  <2> QED BY <2>1, <2>2, DqPausing
<1>3. CASE ~dq.empty
  <2>0. dq' = DqFetch(dq) /\ DqHappens("recv", dq.ring[dq.get])
    BY <1>3 DEF rt_data_queue_pop
  <2>1. /\ DqItems(dq) # << >> /\ DqItems(dq)' = Tail(DqItems(dq))
        /\ Head(DqItems(dq)) = dq.ring[dq.get]
    <3>1. DqItems(dq)' = DqItems(dq') BY DEF DqItems, DqLen, DqPlace
    <3>2. /\ DqItems(dq) # << >> /\ DqItems(DqFetch(dq)) = Tail(DqItems(dq))
          /\ Head(DqItems(dq)) = dq.ring[dq.get]
      BY <1>1, <1>3, DqFetchGets
    <3> QED BY <2>0, <3>1, <3>2
  <2>2. DqPromise!Happens("recv", Head(DqItems(dq)))
    BY <2>0, <2>1 DEF DqPromise!Happens, DqHappens
  <2>3. DqPromise!Recv BY <2>1, <2>2 DEF DqPromise!Recv
  <2> QED BY <2>3 DEF DqPromise!AbsNext
<1> QED BY <1>2, <1>3

LEMMA DqClears ==
    ASSUME dq'.empty, DqHappens("clear", NoItem)
    PROVE  DqPromise!AbsNext
<1>1. DqItems(dq)' = << >> BY DqNoItems
<1>2. DqPromise!Happens("clear", NoItem) BY DEF DqPromise!Happens, DqHappens
<1> QED BY <1>1, <1>2 DEF DqPromise!AbsNext, DqPromise!Clear

LEMMA DqStepRefines ==
    ASSUME DqInductive, DqNext
    PROVE  DqPromise!AbsNext
<1>0. dq \in DqState BY DqNow
<1>1. ASSUME NEW t \in Task, NEW time, NEW m \in DqItem, DqPush(t, m, time)
      PROVE  DqPromise!AbsNext
  BY <1>1, DqPushRefines DEF DqPush
<1>2. ASSUME NEW t \in Task, NEW time, rt_data_queue_pop(t, time)
      PROVE  DqPromise!AbsNext
  BY <1>2, DqPopRefines
<1>3. ASSUME NEW t \in Task, DqRetry(t) PROVE DqPromise!AbsNext
  <2>1. CASE dqItem[t] = NoItem BY <1>2, <1>3, <2>1 DEF DqRetry
  <2>2. CASE dqItem[t] # NoItem
    <3>1. dqItem[t] \in DqItem BY <2>2, DqNow
    <3>2. rt_data_queue_push(t, dqItem[t], dqTask[t].time) BY <1>3, <2>2 DEF DqRetry
    <3> QED BY <3>1, <3>2, DqPushRefines
  <2> QED BY <2>1, <2>2
<1>4. CASE \/ \E t \in Task : DqFails(t) \/ DqTimeout(t)
           \/ DqResetLocks \/ DqResetTurn \/ DqDeinit
  <2>1. dq'.ring = dq.ring /\ dq'.get = dq.get /\ dq'.put = dq.put /\ dq'.empty = dq.empty
    BY <1>0, <1>4 DEF DqFails, DqTimeout, DqResetLocks, DqResetTurn, DqDeinit, DqState
  <2>2. DqPauses BY <1>4 DEF DqFails, DqTimeout, DqResetLocks, DqResetTurn, DqDeinit
  <2> QED BY <2>1, <2>2, DqPausing
<1>5. CASE DqReset
  <2>1. dq'.empty /\ DqHappens("clear", NoItem) BY <1>0, <1>5 DEF DqReset, DqState
  <2> QED BY <2>1, DqClears
<1>6. CASE DqCreate
  <2>1. dq'.empty /\ DqHappens("clear", NoItem) BY <1>6 DEF DqCreate, DqFresh
  <2> QED BY <2>1, DqClears
<1> QED BY <1>1, <1>2, <1>3, <1>4, <1>5, <1>6 DEF DqNext, DqPop

\* A data queue implements the bounded sequence of items: a push adds its item at
\* the end, a pop returns the first one, and only a reset or rt_data_queue_init
\* loses any, whichever thread or interrupt is faster; the two flags tell a full
\* ring from an empty one.
THEOREM DataQueueRefinement == DqSpec => DqImplementsChannel
<1>1. DqInit => DqInductive BY DqInitOK
<1>2. DqInductive /\ [DqNext]_dqVars => DqInductive' BY DqStepOK
<1>3. DqInit => DqPromise!AbsInit
  <2>1. DqInit => dq.empty BY DEF DqInit, DqFresh
  <2> QED BY <2>1, DqNoItems DEF DqPromise!AbsInit, DqInit
<1>4. ASSUME DqInductive, [DqNext]_dqVars
      PROVE  [DqPromise!AbsNext]_DqPromise!chanAbsVars
  <2>1. CASE DqNext BY <1>4, <2>1, DqStepRefines
  <2>2. CASE UNCHANGED dqVars
    <3>1. dq' = dq /\ dqEvent' = dqEvent BY <2>2 DEF dqVars
    <3>2. DqItems(dq)' = DqItems(dq) BY <3>1, DqSameItems
    <3> QED BY <3>1, <3>2 DEF DqPromise!chanAbsVars
  <2> QED BY <1>4, <2>1, <2>2
<1> QED BY <1>1, <1>2, <1>3, <1>4, PTL
     DEF DqSpec, DqImplementsChannel, DqPromise!AbsSpec

-----------------------------------------------------------------------------
(* Work queues.  WorkInductive in parts. *)

WqState == [list : Seq(Work), delayed : Seq(Work), current : Work \cup {NoWork},
            stat : {"ready", "suspend"}]
ItemState == [pending : BOOLEAN, submitting : BOOLEAN, owned : BOOLEAN, timer : BOOLEAN]
HandlerState == [at : {"idle", "read", "region"}, work : Work \cup {NoWork},
                 queue : BOOLEAN]
ClientState == [at : {"idle", "start", "take", "waits", "cancel"},
                work : Work \cup {NoWork}]

\* The two lists.
WLists(x) ==
    /\ x \in WqState /\ IsInjective(x.list) /\ IsInjective(x.delayed)
    /\ ToSet(x.list) \cap ToSet(x.delayed) = {}

WStarts(w) == \E c \in WorkClient : clientAt[c].at = "start" /\ clientAt[c].work = w

\* The items.
WItems ==
    /\ workItem \in [Work -> ItemState]
    /\ \A w \in Work :
        /\ workItem[w].submitting <=> w \in DelayedItems
        /\ workItem[w].submitting <=> (workItem[w].timer \/ handler.work = w \/ WStarts(w))
        /\ workItem[w].pending => w \in ToSet(wq.list)
        /\ w \in DelayedItems => workItem[w].owned

\* The work thread.
WThread ==
    /\ workerAt \in {"loop", "func", "return", "ack"}
    /\ wq.stat = "suspend" /\ workerAt = "loop" => wq.list = << >>
    /\ workerAt \in {"loop", "ack"} <=> wq.current = NoWork

\* The clients.
WClients ==
    /\ clientAt \in [WorkClient -> ClientState]
    /\ \A c \in WorkClient : clientAt[c].at # "idle" => clientAt[c].work \in Work
    /\ \A c, d \in WorkClient :
        /\ clientAt[c].at \notin {"idle", "waits"} /\ clientAt[d].at \notin {"idle", "waits"}
        /\ clientAt[c].work = clientAt[d].work
        => c = d

\* The timers.
WTimers ==
    /\ handler \in HandlerState
    /\ handler.at # "idle" <=> handler.work \in Work
    /\ \A c \in WorkClient :
        clientAt[c].at = "start" => /\ ~workItem[clientAt[c].work].timer
                                   /\ handler.work # clientAt[c].work
    /\ handler.at # "idle" => ~workItem[handler.work].timer

WCancelled == cancelled \subseteq Work /\ CancelledStays

WParts == WLists(wq) /\ WItems /\ WThread /\ WClients /\ WTimers /\ WCancelled

\* A record of ClientState is known by its two fields.
LEMMA ClientRecord ==
    ASSUME NEW x \in ClientState, NEW w
    PROVE  (x = [at |-> "start", work |-> w]) <=> (x.at = "start" /\ x.work = w)
<1>1. x = [at |-> x.at, work |-> x.work] BY DEF ClientState
<1> QED BY <1>1

LEMMA WorkNow == ASSUME WorkInductive PROVE WParts
<1>1. /\ wq \in WqState /\ workItem \in [Work -> ItemState] /\ handler \in HandlerState
      /\ clientAt \in [WorkClient -> ClientState] /\ cancelled \subseteq Work
      /\ workerAt \in {"loop", "func", "return", "ack"}
  BY DEF WorkInductive, WorkConsistent, WorkTypeOK, WqState, ItemState, HandlerState,
         ClientState
<1>2. WLists(wq) BY <1>1 DEF WorkInductive, WorkConsistent, WLists, DelayedItems
<1>3. \A w \in Work : WStarts(w) <=>
         \E c \in WorkClient : clientAt[c] = [at |-> "start", work |-> w]
  BY <1>1, ClientRecord DEF WStarts
<1>4. WItems BY <1>1, <1>3 DEF WorkInductive, WorkConsistent, WItems
<1>5. WThread BY <1>1 DEF WorkInductive, WorkConsistent, WThread
<1>6. WClients BY <1>1 DEF WorkInductive, WClients
<1>7. WTimers BY <1>1 DEF WorkInductive, WTimers
<1>8. WCancelled BY <1>1 DEF WorkInductive, WCancelled
<1> QED BY <1>2, <1>4, <1>5, <1>6, <1>7, <1>8 DEF WParts

LEMMA WorkBackNow == WParts => WorkInductive
<1> SUFFICES ASSUME WParts PROVE WorkInductive OBVIOUS
<1>1. /\ wq \in WqState /\ workItem \in [Work -> ItemState] /\ handler \in HandlerState
      /\ clientAt \in [WorkClient -> ClientState] /\ cancelled \subseteq Work
      /\ workerAt \in {"loop", "func", "return", "ack"}
  BY DEF WParts, WLists, WItems, WTimers, WClients, WCancelled, WThread
<1>2. WorkTypeOK BY <1>1 DEF WorkTypeOK, WqState, ItemState, HandlerState, ClientState
<1>3. \A w \in Work : WStarts(w) <=>
         \E c \in WorkClient : clientAt[c] = [at |-> "start", work |-> w]
  BY <1>1, ClientRecord DEF WStarts
<1>4. WorkConsistent BY <1>2, <1>3 DEF WorkConsistent, WParts, WLists, WItems, WThread, DelayedItems
<1> QED BY <1>4 DEF WorkInductive, WParts, WTimers, WClients, WThread, WCancelled

\* Who may run finds the more urgent ones outside their calls.
LEMMA ClientMayRun ==
    ASSUME WorkRules, MayRun("client")
    PROVE  handler.at = "idle"
  BY WorkConstants DEF WorkRules, MayRun, InsideCall

LEMMA WorkerMayRun ==
    ASSUME WorkRules, MayRun("worker")
    PROVE  handler.at = "idle" /\ \A c \in WorkClient : clientAt[c].at \in {"idle", "waits"}
<1>1. WorkUrgency["handler"] \in Nat /\ WorkUrgency["client"] \in Nat
      /\ WorkUrgency["worker"] \in Nat /\ DOMAIN WorkUrgency = {"handler", "client", "worker"}
  BY WorkConstants
<1>2. ~InsideCall("handler") /\ ~InsideCall("client") BY <1>1 DEF WorkRules, MayRun
<1> QED BY <1>2 DEF InsideCall

\* rt_list_remove of an item, on whichever list it is.
LEMMA UnlistFacts ==
    ASSUME NEW x, WLists(x), NEW w \in Work
    PROVE  /\ WLists(Unlist(x, w))
           /\ ToSet(Unlist(x, w).list) = ToSet(x.list) \ {w}
           /\ ToSet(Unlist(x, w).delayed) = ToSet(x.delayed) \ {w}
           /\ Unlist(x, w).current = x.current /\ Unlist(x, w).stat = x.stat
<1>1. x \in WqState /\ x.list \in Seq(Work) /\ x.delayed \in Seq(Work)
      /\ IsInjective(x.list) /\ IsInjective(x.delayed)
  BY DEF WLists, WqState
<1> DEFINE a == RemoveFirst(x.list, w)
           b == RemoveFirst(x.delayed, w)
           y == Unlist(x, w)
<1>2. /\ a \in Seq(Work) /\ IsInjective(a) /\ ToSet(a) = ToSet(x.list) \ {w}
      /\ b \in Seq(Work) /\ IsInjective(b) /\ ToSet(b) = ToSet(x.delayed) \ {w}
  BY <1>1, RemoveFirstFacts
<1>3. y = [x EXCEPT !.list = a, !.delayed = b] BY DEF Unlist
<1> HIDE DEF a, b, y
<1>4. /\ y \in WqState /\ y.list = a /\ y.delayed = b
      /\ y.current = x.current /\ y.stat = x.stat
  BY <1>1, <1>2, <1>3 DEF WqState
<1>5. WLists(y) BY <1>2, <1>4 DEF WLists
<1> QED BY <1>2, <1>4, <1>5 DEF y

\* rt_thread_resume.
LEMMA WakeFacts ==
    ASSUME NEW x, WLists(x)
    PROVE  /\ WLists(WakeWorker(x))
           /\ WakeWorker(x).list = x.list /\ WakeWorker(x).delayed = x.delayed
           /\ WakeWorker(x).current = x.current
           /\ x.current = NoWork => WakeWorker(x).stat = "ready"
<1>1. x \in WqState /\ x.stat \in {"ready", "suspend"} BY DEF WLists, WqState
<1>2. CASE x.current = NoWork /\ x.stat = "suspend"
  <2>1. WakeWorker(x) = [x EXCEPT !.stat = "ready"] BY <1>2 DEF WakeWorker
  <2> QED BY <1>1, <2>1 DEF WLists, WqState
<1>3. CASE ~(x.current = NoWork /\ x.stat = "suspend")
  <2>1. WakeWorker(x) = x BY <1>3 DEF WakeWorker
  <2> QED BY <1>1, <1>3, <2>1
<1> QED BY <1>2, <1>3

\* An item at the end, or at the front, of a list it was not on.
LEMMA EnqueueFacts ==
    ASSUME NEW x, WLists(x), NEW w \in Work, w \notin ToSet(x.list),
           w \notin ToSet(x.delayed)
    PROVE  /\ LET y == [x EXCEPT !.list = Append(@, w)]
              IN /\ WLists(y) /\ ToSet(y.list) = ToSet(x.list) \cup {w}
                 /\ y.delayed = x.delayed /\ y.current = x.current /\ y.stat = x.stat
           /\ LET y == [x EXCEPT !.list = <<w>> \o @]
              IN /\ WLists(y) /\ ToSet(y.list) = ToSet(x.list) \cup {w}
                 /\ y.delayed = x.delayed /\ y.current = x.current /\ y.stat = x.stat
           /\ LET y == [x EXCEPT !.delayed = Append(@, w)]
              IN /\ WLists(y) /\ ToSet(y.delayed) = ToSet(x.delayed) \cup {w}
                 /\ y.list = x.list /\ y.current = x.current /\ y.stat = x.stat
<1>1. x \in WqState /\ x.list \in Seq(Work) /\ x.delayed \in Seq(Work)
      /\ IsInjective(x.list) /\ IsInjective(x.delayed)
      /\ ToSet(x.list) \cap ToSet(x.delayed) = {}
  BY DEF WLists, WqState
<1> DEFINE a == Append(x.list, w)
           b == <<w>> \o x.list
           d == Append(x.delayed, w)
<1>2. a \in Seq(Work) /\ IsInjective(a) /\ ToSet(a) = ToSet(x.list) \cup {w}
  BY <1>1, AppendFacts
<1>3. b \in Seq(Work) /\ IsInjective(b) /\ ToSet(b) = ToSet(x.list) \cup {w}
  BY <1>1, PrependFacts
<1>4. d \in Seq(Work) /\ IsInjective(d) /\ ToSet(d) = ToSet(x.delayed) \cup {w}
  BY <1>1, AppendFacts
<1> HIDE DEF a, b, d
<1>5. ASSUME NEW l \in Seq(Work), IsInjective(l), ToSet(l) = ToSet(x.list) \cup {w},
             NEW y, y = [x EXCEPT !.list = l]
      PROVE  /\ WLists(y) /\ ToSet(y.list) = ToSet(x.list) \cup {w}
             /\ y.delayed = x.delayed /\ y.current = x.current /\ y.stat = x.stat
  <2>1. /\ y \in WqState /\ y.list = l /\ y.delayed = x.delayed
        /\ y.current = x.current /\ y.stat = x.stat
    BY <1>1, <1>5 DEF WqState
  <2> QED BY <1>1, <1>5, <2>1 DEF WLists
<1>6. ASSUME NEW y, y = [x EXCEPT !.delayed = d]
      PROVE  /\ WLists(y) /\ ToSet(y.delayed) = ToSet(x.delayed) \cup {w}
             /\ y.list = x.list /\ y.current = x.current /\ y.stat = x.stat
  <2>1. /\ y \in WqState /\ y.delayed = d /\ y.list = x.list
        /\ y.current = x.current /\ y.stat = x.stat
    BY <1>1, <1>4, <1>6 DEF WqState
  <2> QED BY <1>1, <1>4, <2>1 DEF WLists
<1>7. LET y == [x EXCEPT !.list = Append(@, w)]
      IN /\ WLists(y) /\ ToSet(y.list) = ToSet(x.list) \cup {w}
         /\ y.delayed = x.delayed /\ y.current = x.current /\ y.stat = x.stat
  <2>1. PICK y : y = [x EXCEPT !.list = a] OBVIOUS
  <2>2. /\ WLists(y) /\ ToSet(y.list) = ToSet(x.list) \cup {w}
        /\ y.delayed = x.delayed /\ y.current = x.current /\ y.stat = x.stat
    BY <1>2, <1>5, <2>1
  <2> QED BY <2>1, <2>2 DEF a
<1>8. LET y == [x EXCEPT !.list = <<w>> \o @]
      IN /\ WLists(y) /\ ToSet(y.list) = ToSet(x.list) \cup {w}
         /\ y.delayed = x.delayed /\ y.current = x.current /\ y.stat = x.stat
  <2>1. PICK y : y = [x EXCEPT !.list = b] OBVIOUS
  <2>2. /\ WLists(y) /\ ToSet(y.list) = ToSet(x.list) \cup {w}
        /\ y.delayed = x.delayed /\ y.current = x.current /\ y.stat = x.stat
    BY <1>3, <1>5, <2>1
  <2> QED BY <2>1, <2>2 DEF b
<1>9. LET y == [x EXCEPT !.delayed = Append(@, w)]
      IN /\ WLists(y) /\ ToSet(y.delayed) = ToSet(x.delayed) \cup {w}
         /\ y.list = x.list /\ y.current = x.current /\ y.stat = x.stat
  <2>1. PICK y : y = [x EXCEPT !.delayed = d] OBVIOUS
  <2>2. /\ WLists(y) /\ ToSet(y.delayed) = ToSet(x.delayed) \cup {w}
        /\ y.list = x.list /\ y.current = x.current /\ y.stat = x.stat
    BY <1>6, <2>1
  <2> QED BY <2>1, <2>2 DEF d
<1> QED BY <1>7, <1>8, <1>9

\* What the regions of a submission do to the queue: the item is on no list, or
\* at the end of the work list if its function is not running.
Submitted(x, w) ==
    WakeWorker(IF x.current # w THEN [Unlist(x, w) EXCEPT !.list = Append(@, w)]
               ELSE Unlist(x, w))

LEMMA SubmitFacts ==
    ASSUME NEW x, WLists(x), NEW w \in Work, NEW y, y = Submitted(x, w)
    PROVE  /\ WLists(y) /\ y.current = x.current
           /\ ToSet(y.delayed) = ToSet(x.delayed) \ {w}
           /\ ToSet(y.list) \subseteq ToSet(x.list) \cup {w}
           /\ ToSet(x.list) \ {w} \subseteq ToSet(y.list)
           /\ w \in ToSet(y.list) <=> x.current # w
           /\ x.current = NoWork => y.stat = "ready"
<1> DEFINE off == Unlist(x, w)
           on == [off EXCEPT !.list = Append(@, w)]
<1>1. /\ WLists(off) /\ ToSet(off.list) = ToSet(x.list) \ {w}
      /\ ToSet(off.delayed) = ToSet(x.delayed) \ {w} /\ off.current = x.current
  BY UnlistFacts
<1>2. y = WakeWorker(IF x.current # w THEN on ELSE off) BY DEF Submitted
<1> HIDE DEF off
<1>3. /\ WLists(on) /\ ToSet(on.list) = ToSet(off.list) \cup {w}
      /\ on.delayed = off.delayed /\ on.current = off.current
  BY ZenonT(40), <1>1, EnqueueFacts
<1> HIDE DEF on
<1>4. CASE x.current # w
  <2>1. y = WakeWorker(on) BY <1>2, <1>4
  <2>2. y.list = on.list /\ y.delayed = on.delayed /\ WLists(y) /\ y.current = on.current
        /\ (on.current = NoWork => y.stat = "ready")
    BY <1>3, <2>1, WakeFacts
  <2> QED BY <1>1, <1>3, <1>4, <2>2
<1>5. CASE x.current = w
  <2>1. y = WakeWorker(off) BY <1>2, <1>5
  <2>2. y.list = off.list /\ y.delayed = off.delayed /\ WLists(y) /\ y.current = off.current
        /\ (off.current = NoWork => y.stat = "ready")
    BY <1>1, <2>1, WakeFacts
  <2> QED BY <1>1, <1>5, <2>2
<1> QED BY <1>4, <1>5

\* One item changes, in fields that are given.
LEMMA ItemChanged ==
    ASSUME workItem \in [Work -> ItemState], NEW w \in Work, NEW v \in ItemState,
           workItem' = [workItem EXCEPT ![w] = v]
    PROVE  /\ workItem' \in [Work -> ItemState] /\ workItem'[w] = v
           /\ \A u \in Work \ {w} : workItem'[u] = workItem[u]
  OBVIOUS

\* rt_workqueue_dowork.
LEMMA DoWorkOK ==
    ASSUME WorkRules, WParts, NEW c \in WorkClient, NEW w \in Work, DoWork(c, w)
    PROVE  WParts'
<1>1. /\ MayRun("client") /\ clientAt' = clientAt /\ workerAt' = workerAt
      /\ handler' = handler /\ ~workItem[w].submitting
      /\ cancelled' = IF wq.current # w THEN cancelled \ {w} ELSE cancelled
      /\ wq' = Submitted(wq, w)
      /\ workItem' = [workItem EXCEPT ![w].pending = wq.current # w,
                                      ![w].owned = @ \/ wq.current # w]
  BY DEF DoWork, WorkBegins, SubmitNow, WorkRules, Submitted
<1>2. /\ WLists(wq') /\ wq'.current = wq.current
      /\ ToSet(wq'.delayed) = ToSet(wq.delayed) \ {w}
      /\ ToSet(wq'.list) \subseteq ToSet(wq.list) \cup {w}
      /\ ToSet(wq.list) \ {w} \subseteq ToSet(wq'.list)
      /\ w \in ToSet(wq'.list) <=> wq.current # w
      /\ wq.current = NoWork => wq'.stat = "ready"
  <2>1. WLists(wq) BY DEF WParts
  <2> QED BY <1>1, <2>1, SubmitFacts
<1>3. workItem \in [Work -> ItemState] BY DEF WParts, WItems
<1>4. /\ workItem' \in [Work -> ItemState]
      /\ workItem'[w].pending = (wq.current # w)
      /\ workItem'[w].submitting = workItem[w].submitting
      /\ workItem'[w].timer = workItem[w].timer
      /\ \A u \in Work \ {w} : workItem'[u] = workItem[u]
  BY ZenonT(40), <1>1, <1>3 DEF ItemState
<1>5. \A u : WStarts(u)' <=> WStarts(u) BY <1>1 DEF WStarts
<1>6. w \notin ToSet(wq.delayed) BY <1>1 DEF WParts, WItems, DelayedItems
<1>7. WItems'
  BY <1>1, <1>2, <1>4, <1>5, <1>6 DEF WParts, WItems, DelayedItems
<1>8. WThread' BY <1>1, <1>2, WorkConstants DEF WParts, WThread
<1>9. WClients' BY <1>1 DEF WParts, WClients
<1>10. WTimers' BY <1>1, <1>4 DEF WParts, WTimers, WClients
<1>11. WCancelled' BY <1>1, <1>2 DEF WParts, WCancelled, CancelledStays, QueuedItems, DelayedItems
<1> QED BY <1>2, <1>7, <1>8, <1>9, <1>10, <1>11 DEF WParts

\* A client that begins, or goes on with, a call.
LEMMA ClientMoves ==
    ASSUME WClients, NEW c \in WorkClient, NEW l \in {"idle", "start", "take", "waits", "cancel"},
           NEW w \in Work \cup {NoWork}, WorkGoes(c, l, w),
           l # "idle" => w \in Work,
           l \notin {"idle", "waits"} =>
               \A d \in WorkClient \ {c} :
                   clientAt[d].work = w => clientAt[d].at \in {"idle", "waits"}
    PROVE  /\ WClients' /\ clientAt'[c].at = l /\ clientAt'[c].work = w
           /\ \A d \in WorkClient \ {c} : clientAt'[d] = clientAt[d]
<1>1. clientAt \in [WorkClient -> ClientState] BY DEF WClients
<1>2. [at |-> l, work |-> w] \in ClientState BY DEF ClientState
<1>3. /\ clientAt' \in [WorkClient -> ClientState]
      /\ clientAt'[c].at = l /\ clientAt'[c].work = w
      /\ \A d \in WorkClient \ {c} : clientAt'[d] = clientAt[d]
  BY <1>1, <1>2 DEF WorkGoes
<1>4. \A d \in WorkClient : clientAt'[d].at # "idle" => clientAt'[d].work \in Work
  BY <1>3 DEF WClients
<1>5. ASSUME NEW d \in WorkClient, NEW e \in WorkClient,
             clientAt'[d].at \notin {"idle", "waits"}, clientAt'[e].at \notin {"idle", "waits"},
             clientAt'[d].work = clientAt'[e].work
      PROVE  d = e
  <2>1. CASE d # c /\ e # c BY <1>3, <1>5, <2>1 DEF WClients
  <2>2. CASE d = c /\ e # c BY <1>3, <1>5, <2>2
  <2>3. CASE d # c /\ e = c BY <1>3, <1>5, <2>3
  <2> QED BY <2>1, <2>2, <2>3
<1> QED BY <1>3, <1>4, <1>5 DEF WClients

\* The region of a delayed submission.
LEMMA SubmitWorkOK ==
    ASSUME WorkRules, WParts, NEW c \in WorkClient, NEW w \in Work, SubmitWork(c, w)
    PROVE  WParts'
<1>1. /\ MayRun("client") /\ workerAt' = workerAt /\ handler' = handler
      /\ clientAt[c].at = "idle" /\ WorkGoes(c, "start", w)
      /\ \A d \in WorkClient : clientAt[d].work = w => clientAt[d].at \in {"idle", "waits"}
      /\ cancelled' = cancelled \ {w}
      /\ wq' = [Unlist(wq, w) EXCEPT !.delayed = Append(@, w)]
      /\ workItem' = [workItem EXCEPT ![w] = [pending |-> FALSE, submitting |-> TRUE,
                                              owned |-> TRUE, timer |-> FALSE]]
  BY DEF SubmitWork, WorkBegins, SubmitDelayed
<1>2. /\ WLists(wq') /\ wq'.current = wq.current /\ wq'.stat = wq.stat
      /\ ToSet(wq'.list) = ToSet(wq.list) \ {w}
      /\ ToSet(wq'.delayed) = (ToSet(wq.delayed) \ {w}) \cup {w}
  <2> DEFINE off == Unlist(wq, w)
  <2>1. WLists(wq) BY DEF WParts
  <2>2. /\ WLists(off) /\ ToSet(off.list) = ToSet(wq.list) \ {w}
        /\ ToSet(off.delayed) = ToSet(wq.delayed) \ {w} /\ off.current = wq.current
        /\ off.stat = wq.stat
    BY <2>1, UnlistFacts
  <2>3. wq' = [off EXCEPT !.delayed = Append(@, w)] BY <1>1
  <2> HIDE DEF off
  <2>4. /\ w \notin ToSet(off.list) /\ w \notin ToSet(off.delayed) BY <2>2
  <2>5. LET y == [off EXCEPT !.delayed = Append(@, w)]
        IN /\ WLists(y) /\ ToSet(y.delayed) = ToSet(off.delayed) \cup {w}
           /\ y.list = off.list /\ y.current = off.current /\ y.stat = off.stat
    BY <2>2, <2>4, EnqueueFacts
  <2> QED BY <2>2, <2>3, <2>5
<1>3. [pending |-> FALSE, submitting |-> TRUE, owned |-> TRUE, timer |-> FALSE] \in ItemState
  BY DEF ItemState
<1>4. workItem \in [Work -> ItemState] BY DEF WParts, WItems
<1>5. /\ workItem' \in [Work -> ItemState]
      /\ ~workItem'[w].pending /\ workItem'[w].submitting
      /\ workItem'[w].owned /\ ~workItem'[w].timer
      /\ \A u \in Work \ {w} : workItem'[u] = workItem[u]
  BY <1>1, <1>3, <1>4
<1>6. /\ WClients' /\ clientAt'[c].at = "start" /\ clientAt'[c].work = w
      /\ \A d \in WorkClient \ {c} : clientAt'[d] = clientAt[d]
  BY <1>1, ClientMoves DEF WParts
<1>7. handler.at = "idle" /\ handler.work \notin Work
  BY <1>1, ClientMayRun DEF WParts, WTimers
<1>8. WStarts(w)' /\ \A u \in Work \ {w} : WStarts(u)' <=> WStarts(u)
  BY <1>1, <1>6 DEF WStarts
<1>9. WItems'
  BY <1>1, <1>2, <1>5, <1>8 DEF WParts, WItems, DelayedItems
<1>10. WThread'
  <2>1. wq.list = << >> => wq'.list = << >>
    <3>1. wq.list \in Seq(Work) /\ wq'.list \in Seq(Work) BY <1>2 DEF WParts, WLists, WqState
    <3> QED BY <1>2, <3>1, EmptyFacts
  <2> QED BY <1>1, <1>2, <2>1 DEF WParts, WThread
<1>11. WTimers'
  <2>1. ASSUME NEW d \in WorkClient, clientAt'[d].at = "start"
        PROVE  ~workItem'[clientAt'[d].work].timer /\ handler'.work # clientAt'[d].work
    <3>1. CASE d = c BY <1>1, <1>5, <1>6, <1>7, <3>1
    <3>2. CASE d # c
      <4>1. clientAt'[d] = clientAt[d] /\ clientAt[d].at = "start" /\ clientAt[d].work \in Work
            /\ clientAt[d].work # w
        BY <1>1, <1>6, <2>1, <3>2 DEF WParts, WClients
      <4> QED BY <1>1, <1>5, <4>1 DEF WParts, WTimers
    <3> QED BY <3>1, <3>2
  <2> QED BY <1>1, <1>7, <2>1 DEF WParts, WTimers
<1>12. WCancelled'
  BY <1>1, <1>2 DEF WParts, WCancelled, CancelledStays, QueuedItems, DelayedItems
<1> QED BY <1>2, <1>6, <1>9, <1>10, <1>11, <1>12 DEF WParts

\* rt_timer_start after it.
LEMMA SubmitStartOK ==
    ASSUME WorkRules, WParts, NEW c \in WorkClient, SubmitStart(c)
    PROVE  WParts'
<1> DEFINE w == clientAt[c].work
<1>1. /\ MayRun("client") /\ workerAt' = workerAt /\ handler' = handler
      /\ clientAt[c].at = "start" /\ WorkGoes(c, "idle", NoWork)
      /\ cancelled' = cancelled /\ wq' = wq
      /\ workItem' = [workItem EXCEPT ![w].timer = TRUE]
  BY DEF SubmitStart, WorkAt, WorkBack
<1>2. w \in Work BY <1>1 DEF WParts, WClients
<1> HIDE DEF w
<1>3. workItem \in [Work -> ItemState] BY DEF WParts, WItems
<1>4. /\ workItem' \in [Work -> ItemState]
      /\ workItem'[w].pending = workItem[w].pending
      /\ workItem'[w].submitting = workItem[w].submitting
      /\ workItem'[w].owned = workItem[w].owned /\ workItem'[w].timer
      /\ \A u \in Work \ {w} : workItem'[u] = workItem[u]
  BY <1>1, <1>2, <1>3 DEF ItemState
<1>5. /\ WClients' /\ clientAt'[c].at = "idle"
      /\ \A d \in WorkClient \ {c} : clientAt'[d] = clientAt[d]
  BY <1>1, ClientMoves DEF WParts
<1>6. handler.at = "idle" /\ handler.work \notin Work
  BY <1>1, ClientMayRun DEF WParts, WTimers
<1>7. \A d \in WorkClient \ {c} : clientAt[d].at = "start" => clientAt[d].work # w
  BY <1>1 DEF WParts, WClients, w
<1>8. WStarts(w) /\ \A u \in Work \ {w} : WStarts(u)' <=> WStarts(u)
  BY <1>1, <1>5 DEF WStarts, w
<1>9. WItems'
  <2>1. workItem[w].submitting BY <1>2, <1>8 DEF WParts, WItems
  <2> QED BY <1>1, <1>2, <1>4, <1>8, <2>1 DEF WParts, WItems, DelayedItems
<1>10. WThread' BY <1>1 DEF WParts, WThread
<1>11. WTimers'
  <2>1. ASSUME NEW d \in WorkClient, clientAt'[d].at = "start"
        PROVE  ~workItem'[clientAt'[d].work].timer /\ handler'.work # clientAt'[d].work
    <3>1. clientAt'[d] = clientAt[d] /\ clientAt[d].at = "start" /\ clientAt[d].work \in Work
          /\ clientAt[d].work # w
      BY <1>5, <1>7, <2>1 DEF WParts, WClients
    <3> QED BY <1>1, <1>4, <3>1 DEF WParts, WTimers
  <2> QED BY <1>1, <1>6, <2>1 DEF WParts, WTimers
<1>12. WCancelled'
  BY <1>1 DEF WParts, WCancelled, CancelledStays, QueuedItems, DelayedItems
<1> QED BY <1>1, <1>5, <1>9, <1>10, <1>11, <1>12 DEF WParts

\* rt_workqueue_urgent_work.
LEMMA UrgentWorkOK ==
    ASSUME WorkRules, WParts, NEW c \in WorkClient, NEW w \in Work, UrgentWork(c, w)
    PROVE  WParts'
<1>1. /\ workerAt' = workerAt /\ handler' = handler /\ clientAt' = clientAt
      /\ workItem' = workItem /\ cancelled' = cancelled \ {w} /\ ~workItem[w].submitting
      /\ wq' = WakeWorker([Unlist(wq, w) EXCEPT !.list = <<w>> \o @])
  BY DEF UrgentWork, WorkBegins, WorkRules
<1>2. /\ WLists(wq') /\ wq'.current = wq.current
      /\ wq.current = NoWork => wq'.stat = "ready"
      /\ ToSet(wq'.list) = ToSet(wq.list) \cup {w}
      /\ ToSet(wq'.delayed) = ToSet(wq.delayed) \ {w}
  <2> DEFINE off == Unlist(wq, w)
             on == [off EXCEPT !.list = <<w>> \o @]
  <2>1. WLists(wq) BY DEF WParts
  <2>2. /\ WLists(off) /\ ToSet(off.list) = ToSet(wq.list) \ {w}
        /\ ToSet(off.delayed) = ToSet(wq.delayed) \ {w} /\ off.current = wq.current
    BY <2>1, UnlistFacts
  <2>3. wq' = WakeWorker(on) BY <1>1
  <2> HIDE DEF off
  <2>4. w \notin ToSet(off.list) /\ w \notin ToSet(off.delayed) BY <2>2
  <2>5. /\ WLists(on) /\ ToSet(on.list) = ToSet(off.list) \cup {w}
        /\ on.delayed = off.delayed /\ on.current = off.current
    BY <2>2, <2>4, EnqueueFacts
  <2> HIDE DEF on
  <2>6. wq'.list = on.list /\ wq'.delayed = on.delayed /\ WLists(wq')
        /\ wq'.current = on.current /\ (on.current = NoWork => wq'.stat = "ready")
    BY <2>3, <2>5, WakeFacts
  <2> QED BY <2>2, <2>5, <2>6
<1>3. w \notin ToSet(wq.delayed) BY <1>1 DEF WParts, WItems, DelayedItems
<1>4. \A u : WStarts(u)' <=> WStarts(u) BY <1>1 DEF WStarts
<1>5. WItems' BY <1>1, <1>2, <1>3, <1>4 DEF WParts, WItems, DelayedItems
<1>6. WThread' BY <1>1, <1>2 DEF WParts, WThread
<1>7. WClients' /\ WTimers' BY <1>1 DEF WParts, WClients, WTimers
<1>8. WCancelled'
  BY <1>1, <1>2 DEF WParts, WCancelled, CancelledStays, QueuedItems, DelayedItems
<1> QED BY <1>2, <1>5, <1>6, <1>7, <1>8 DEF WParts

\* _workqueue_cancel_work, while neither the handler nor another client is at
\* the item: WorkBegins and the items of the clients see to that.
LEMMA CancelRegionOK ==
    ASSUME WParts, NEW w \in Work, CancelRegion(w),
           handler.at = "idle", ~WStarts(w), handler' = handler, workerAt' = workerAt,
           WClients', \A d \in WorkClient : clientAt'[d].at = "start" <=> clientAt[d].at = "start",
           \A d \in WorkClient : clientAt[d].at = "start" => clientAt'[d].work = clientAt[d].work
    PROVE  WParts'
<1>1. /\ cancelled' = IF wq.current # w THEN cancelled \cup {w} ELSE cancelled
      /\ wq' = Unlist(wq, w)
      /\ workItem' = [workItem EXCEPT ![w] = CancelItem(@)]
  BY DEF CancelRegion
<1>2. /\ WLists(wq') /\ wq'.current = wq.current /\ wq'.stat = wq.stat
      /\ ToSet(wq'.list) = ToSet(wq.list) \ {w}
      /\ ToSet(wq'.delayed) = ToSet(wq.delayed) \ {w}
  <2>1. WLists(wq) BY DEF WParts
  <2> QED BY <1>1, <2>1, UnlistFacts
<1>3. workItem \in [Work -> ItemState] BY DEF WParts, WItems
<1>4. handler.work \notin Work BY DEF WParts, WTimers
<1>5. workItem[w].timer => workItem[w].submitting BY DEF WParts, WItems
<1>6. /\ workItem' \in [Work -> ItemState]
      /\ ~workItem'[w].pending /\ ~workItem'[w].submitting /\ ~workItem'[w].timer
      /\ \A u \in Work \ {w} : workItem'[u] = workItem[u]
  <2>1. CancelItem(workItem[w]) \in ItemState BY <1>3 DEF CancelItem, ItemState
  <2>2. workItem'[w] = CancelItem(workItem[w]) BY <1>1, <1>3
  <2> QED BY <1>1, <1>3, <1>5, <2>1, <2>2 DEF CancelItem
<1>7. \A u : WStarts(u)' <=> WStarts(u) BY DEF WStarts
<1>8. WItems'
  BY <1>2, <1>4, <1>6, <1>7 DEF WParts, WItems, DelayedItems
<1>9. WThread'
  <2>1. wq.list = << >> => wq'.list = << >>
    <3>1. wq.list \in Seq(Work) /\ wq'.list \in Seq(Work) BY <1>2 DEF WParts, WLists, WqState
    <3> QED BY ZenonT(40), <1>2, <3>1, EmptyFacts
  <2> QED BY <1>2, <2>1 DEF WParts, WThread
<1>10. WTimers'
  <2>1. ASSUME NEW d \in WorkClient, clientAt'[d].at = "start"
        PROVE  ~workItem'[clientAt'[d].work].timer /\ handler'.work # clientAt'[d].work
    <3>1. clientAt[d].at = "start" /\ clientAt'[d].work = clientAt[d].work
          /\ clientAt[d].work \in Work /\ clientAt[d].work # w
      BY <2>1 DEF WParts, WClients, WStarts
    <3> QED BY <1>6, <3>1 DEF WParts, WTimers
  <2> QED BY <1>4, <2>1 DEF WParts, WTimers
<1>11. WCancelled'
  BY <1>1, <1>2 DEF WParts, WCancelled, CancelledStays, QueuedItems, DelayedItems
<1> QED BY <1>2, <1>8, <1>9, <1>10, <1>11 DEF WParts

LEMMA CancelWorkOK ==
    ASSUME WorkRules, WParts, NEW c \in WorkClient, NEW w \in Work, CancelWork(c, w)
    PROVE  WParts'
<1>1. /\ MayRun("client") /\ workerAt' = workerAt /\ handler' = handler
      /\ clientAt' = clientAt /\ CancelRegion(w)
      /\ \A d \in WorkClient : clientAt[d].work = w => clientAt[d].at \in {"idle", "waits"}
  BY DEF CancelWork, WorkBegins
<1>2. handler.at = "idle" BY <1>1, ClientMayRun
<1>3. ~WStarts(w) BY <1>1 DEF WStarts
<1>4. WClients' BY <1>1 DEF WParts, WClients
<1> QED BY <1>1, <1>2, <1>3, <1>4, CancelRegionOK

\* The second part of rt_workqueue_cancel_work_sync.
LEMMA SyncCancelOK ==
    ASSUME WorkRules, WParts, NEW c \in WorkClient, SyncCancel(c)
    PROVE  WParts'
<1> DEFINE w == clientAt[c].work
<1>1. /\ MayRun("client") /\ workerAt' = workerAt /\ handler' = handler
      /\ clientAt[c].at = "cancel" /\ WorkGoes(c, "idle", NoWork) /\ CancelRegion(w)
  BY DEF SyncCancel, WorkAt, WorkBack
<1>2. w \in Work BY <1>1 DEF WParts, WClients
<1>3. ~WStarts(w) BY <1>1 DEF WParts, WClients, WStarts
<1> HIDE DEF w
<1>4. handler.at = "idle" BY <1>1, ClientMayRun
<1>5. /\ WClients' /\ clientAt'[c].at = "idle"
      /\ \A d \in WorkClient \ {c} : clientAt'[d] = clientAt[d]
  BY <1>1, ClientMoves DEF WParts
<1>6. /\ \A d \in WorkClient : clientAt'[d].at = "start" <=> clientAt[d].at = "start"
      /\ \A d \in WorkClient : clientAt[d].at = "start" => clientAt'[d].work = clientAt[d].work
  BY <1>1, <1>5
<1> QED BY <1>1, <1>2, <1>3, <1>4, <1>5, <1>6, CancelRegionOK

\* Only the place of a client changes, and not to or from rt_timer_start.
LEMMA PlaceOnly ==
    ASSUME WParts, WClients',
           UNCHANGED <<wq, workItem, workerAt, handler, cancelled>>,
           \A d \in WorkClient : clientAt'[d].at = "start" <=> clientAt[d].at = "start",
           \A d \in WorkClient : clientAt[d].at = "start" => clientAt'[d].work = clientAt[d].work
    PROVE  WParts'
<1>1. \A u : WStarts(u)' <=> WStarts(u) BY DEF WStarts
<1>2. WItems' BY <1>1 DEF WParts, WItems, DelayedItems
<1>3. WThread' BY DEF WParts, WThread
<1>4. WTimers' BY DEF WParts, WTimers
<1>5. WCancelled' BY DEF WParts, WCancelled, CancelledStays, QueuedItems, DelayedItems
<1> QED BY <1>2, <1>3, <1>4, <1>5 DEF WParts

LEMMA SyncTestOK ==
    ASSUME WorkRules, WParts, NEW c \in WorkClient, NEW w \in Work, SyncTest(c, w)
    PROVE  WParts'
<1> DEFINE l == IF wq.current = w THEN "take" ELSE "cancel"
<1>1. /\ clientAt[c].at = "idle" /\ WorkGoes(c, l, w)
      /\ \A d \in WorkClient : clientAt[d].work = w => clientAt[d].at \in {"idle", "waits"}
      /\ UNCHANGED <<wq, workItem, workerAt, handler, cancelled>>
  BY DEF SyncTest, WorkBegins
<1>2. l \in {"take", "cancel"} OBVIOUS
<1> HIDE DEF l
<1>3. /\ WClients' /\ clientAt'[c].at = l
      /\ \A d \in WorkClient \ {c} : clientAt'[d] = clientAt[d]
  BY <1>1, <1>2, ClientMoves DEF WParts
<1>4. /\ \A d \in WorkClient : clientAt'[d].at = "start" <=> clientAt[d].at = "start"
      /\ \A d \in WorkClient : clientAt[d].at = "start" => clientAt'[d].work = clientAt[d].work
  BY <1>1, <1>2, <1>3
<1> QED BY <1>1, <1>3, <1>4, PlaceOnly

LEMMA SyncTakeOK ==
    ASSUME WorkRules, WParts, NEW c \in WorkClient, SyncTake(c)
    PROVE  WParts'
<1>1. /\ clientAt[c].at = "take" /\ WorkGoes(c, "waits", clientAt[c].work)
      /\ UNCHANGED <<wq, workItem, workerAt, handler, cancelled>>
  BY DEF SyncTake, WorkAt
<1>2. clientAt[c].work \in Work BY <1>1 DEF WParts, WClients
<1>3. /\ WClients' /\ clientAt'[c].at = "waits"
      /\ \A d \in WorkClient \ {c} : clientAt'[d] = clientAt[d]
  BY <1>1, <1>2, ClientMoves DEF WParts
<1>4. /\ \A d \in WorkClient : clientAt'[d].at = "start" <=> clientAt[d].at = "start"
      /\ \A d \in WorkClient : clientAt[d].at = "start" => clientAt'[d].work = clientAt[d].work
  BY <1>1, <1>3
<1> QED BY <1>1, <1>3, <1>4, PlaceOnly

\* rt_workqueue_cancel_all_work.
LEMMA CancelAllOK ==
    ASSUME WorkRules, WParts, NEW c \in WorkClient, CancelAll(c)
    PROVE  WParts'
<1>1. /\ MayRun("client") /\ workerAt' = workerAt /\ handler' = handler
      /\ clientAt' = clientAt
      /\ \A d \in WorkClient : clientAt[d].at \in {"idle", "waits"}
      /\ wq' = [wq EXCEPT !.list = << >>, !.delayed = << >>]
      /\ workItem' = [w \in Work |-> IF w \in QueuedItems THEN CancelItem(workItem[w])
                                     ELSE workItem[w]]
      /\ cancelled' = cancelled \cup (QueuedItems \ {wq.current})
  BY DEF CancelAll
<1>2. IsInjective(<< >>) /\ ToSet(<< >>) = {} /\ << >> \in Seq(Work) BY DEF IsInjective, ToSet
<1>3. /\ wq' \in WqState /\ wq'.list = << >> /\ wq'.delayed = << >>
      /\ wq'.current = wq.current /\ wq'.stat = wq.stat
  BY <1>1, <1>2 DEF WParts, WLists, WqState
<1>4. WLists(wq') BY <1>2, <1>3 DEF WLists
<1>5. handler.at = "idle" /\ handler.work \notin Work
  BY <1>1, ClientMayRun DEF WParts, WTimers
<1>6. \A u : ~WStarts(u) /\ ~WStarts(u)' BY <1>1 DEF WStarts
<1>7. workItem \in [Work -> ItemState] BY DEF WParts, WItems
<1>8. workItem' \in [Work -> ItemState]
  <2>1. \A w \in Work : CancelItem(workItem[w]) \in ItemState BY <1>7 DEF CancelItem, ItemState
  <2> QED BY <1>1, <1>7, <2>1
<1>9. ASSUME NEW w \in Work
      PROVE  ~workItem'[w].pending /\ ~workItem'[w].submitting /\ ~workItem'[w].timer
  <2>1. workItem[w].timer => workItem[w].submitting BY DEF WParts, WItems
  <2>2. CASE w \in QueuedItems
    <3>1. workItem'[w] = CancelItem(workItem[w]) BY <1>1, <2>2
    <3>2. /\ workItem'[w].pending = FALSE /\ workItem'[w].submitting = FALSE
          /\ workItem'[w].timer = (workItem[w].timer /\ ~workItem[w].submitting)
      BY <3>1 DEF CancelItem
    <3> QED BY <2>1, <3>2
  <2>3. CASE w \notin QueuedItems
    <3>1. workItem'[w] = workItem[w] BY <1>1, <2>3
    <3> QED BY <2>1, <2>3, <3>1 DEF WParts, WItems, QueuedItems
  <2> QED BY <2>2, <2>3
<1>10. WItems' BY <1>1, <1>2, <1>3, <1>5, <1>6, <1>8, <1>9 DEF WItems, DelayedItems
<1>11. WThread' BY <1>1, <1>3 DEF WParts, WThread
<1>12. WClients' BY <1>1 DEF WParts, WClients
<1>13. WTimers' BY <1>1, <1>5 DEF WParts, WTimers
<1>14. QueuedItems \subseteq Work
  <2>1. wq.list \in Seq(Work) /\ wq.delayed \in Seq(Work) BY DEF WParts, WLists, WqState
  <2> QED BY <2>1, EmptyFacts DEF QueuedItems, DelayedItems
<1>15. WCancelled'
  BY <1>1, <1>2, <1>3, <1>14 DEF WParts, WCancelled, CancelledStays, QueuedItems, DelayedItems
<1> QED BY <1>4, <1>10, <1>11, <1>12, <1>13, <1>15 DEF WParts

\* The timer of a delayed item runs out.
LEMMA TimerExpiresOK ==
    ASSUME WParts, NEW w \in Work, TimerExpires(w)
    PROVE  WParts'
<1>1. /\ handler.at = "idle" /\ workItem[w].timer
      /\ workItem' = [workItem EXCEPT ![w].timer = FALSE]
      /\ handler' = [at |-> "read", work |-> w, queue |-> FALSE]
      /\ UNCHANGED <<wq, workerAt, clientAt, cancelled>>
  BY DEF TimerExpires
<1>2. workItem \in [Work -> ItemState] BY DEF WParts, WItems
<1>3. /\ workItem' \in [Work -> ItemState]
      /\ workItem'[w].pending = workItem[w].pending
      /\ workItem'[w].submitting = workItem[w].submitting
      /\ workItem'[w].owned = workItem[w].owned /\ ~workItem'[w].timer
      /\ \A u \in Work \ {w} : workItem'[u] = workItem[u]
  BY <1>1, <1>2 DEF ItemState
<1>4. handler' \in HandlerState /\ handler'.at = "read" /\ handler'.work = w
  BY <1>1 DEF HandlerState
<1>5. \A u : WStarts(u)' <=> WStarts(u) BY <1>1 DEF WStarts
<1>6. handler.work \notin Work BY <1>1 DEF WParts, WTimers
<1>7. WItems' BY <1>1, <1>3, <1>4, <1>5, <1>6 DEF WParts, WItems, DelayedItems
<1>8. WThread' /\ WClients' BY <1>1 DEF WParts, WThread, WClients
<1>9. WTimers'
  <2>1. ASSUME NEW d \in WorkClient, clientAt'[d].at = "start"
        PROVE  ~workItem'[clientAt'[d].work].timer /\ handler'.work # clientAt'[d].work
    <3>1. clientAt'[d] = clientAt[d] /\ clientAt[d].work \in Work
          /\ ~workItem[clientAt[d].work].timer
      BY <1>1, <2>1 DEF WParts, WTimers, WClients
    <3> QED BY <1>1, <1>3, <1>4, <3>1
  <2> QED BY <1>3, <1>4, <2>1 DEF WTimers
<1>10. WCancelled'
  BY <1>1 DEF WParts, WCancelled, CancelledStays, QueuedItems, DelayedItems
<1> QED BY <1>1, <1>7, <1>8, <1>9, <1>10 DEF WParts

\* The two parts of _delayed_work_timeout_handler.
LEMMA HandlerReadOK ==
    ASSUME WParts, HandlerRead
    PROVE  WParts'
<1>1. /\ handler.at = "read"
      /\ handler' = [handler EXCEPT !.at = "region", !.queue = workItem[handler.work].owned]
      /\ UNCHANGED <<wq, workItem, workerAt, clientAt, cancelled>>
  BY DEF HandlerRead
<1>2. handler.work \in Work /\ workItem[handler.work].owned \in BOOLEAN
  BY <1>1 DEF WParts, WTimers, WItems, ItemState
<1>3. handler' \in HandlerState /\ handler'.at = "region" /\ handler'.work = handler.work
  BY <1>1, <1>2 DEF WParts, WTimers, HandlerState
<1>4. \A u : WStarts(u)' <=> WStarts(u) BY <1>1 DEF WStarts
<1>5. WItems' BY <1>1, <1>3, <1>4 DEF WParts, WItems, DelayedItems
<1>6. WThread' /\ WClients' BY <1>1 DEF WParts, WThread, WClients
<1>7. WTimers' BY <1>1, <1>2, <1>3 DEF WParts, WTimers
<1>8. WCancelled'
  BY <1>1 DEF WParts, WCancelled, CancelledStays, QueuedItems, DelayedItems
<1> QED BY <1>1, <1>5, <1>6, <1>7, <1>8 DEF WParts

LEMMA HandlerRegionOK ==
    ASSUME WParts, HandlerRegion
    PROVE  WParts'
<1>0. PICK w : w = handler.work OBVIOUS
<1>1. /\ handler.at = "region"
      /\ wq' = Submitted(wq, w)
      /\ workItem' = [workItem EXCEPT ![w].submitting = FALSE, ![w].timer = FALSE,
                                      ![w].pending = @ \/ wq.current # w]
      /\ handler' = [at |-> "idle", work |-> NoWork, queue |-> FALSE]
      /\ UNCHANGED <<workerAt, clientAt, cancelled>>
  BY <1>0 DEF HandlerRegion, Submitted
<1>2. w \in Work /\ workItem[w].submitting /\ w \in ToSet(wq.delayed) /\ w \notin ToSet(wq.list)
  BY <1>0, <1>1 DEF WParts, WTimers, WItems, WLists, DelayedItems
<1>3. \A d \in WorkClient : clientAt[d].at = "start" => clientAt[d].work # w
  BY <1>0 DEF WParts, WTimers
<1>4. /\ WLists(wq') /\ wq'.current = wq.current
      /\ ToSet(wq'.delayed) = ToSet(wq.delayed) \ {w}
      /\ ToSet(wq'.list) \subseteq ToSet(wq.list) \cup {w}
      /\ ToSet(wq.list) \ {w} \subseteq ToSet(wq'.list)
      /\ w \in ToSet(wq'.list) <=> wq.current # w
      /\ wq.current = NoWork => wq'.stat = "ready"
  <2>1. WLists(wq) BY DEF WParts
  <2>2. wq' = Submitted(wq, w) /\ w \in Work BY <1>1, <1>2
  <2> QED BY <2>1, <2>2, SubmitFacts
<1>5. workItem \in [Work -> ItemState] BY DEF WParts, WItems
<1>6. ~workItem[w].pending BY <1>2 DEF WParts, WItems
<1>7. /\ workItem' \in [Work -> ItemState]
      /\ workItem'[w].pending = (workItem[w].pending \/ wq.current # w)
      /\ ~workItem'[w].submitting /\ ~workItem'[w].timer
      /\ \A u \in Work \ {w} : workItem'[u] = workItem[u]
  BY ZenonT(40), <1>1, <1>2, <1>5 DEF ItemState
<1>8. handler' \in HandlerState /\ handler'.at = "idle" /\ handler'.work = NoWork
      /\ NoWork \notin Work
  BY <1>1, WorkConstants DEF HandlerState
<1>9. ~WStarts(w)' /\ \A u : WStarts(u)' <=> WStarts(u) BY <1>1, <1>3 DEF WStarts
<1>10. WItems'
  <2>1. ASSUME NEW u \in Work
        PROVE  /\ workItem'[u].submitting <=> u \in ToSet(wq'.delayed)
               /\ workItem'[u].submitting <=>
                    (workItem'[u].timer \/ handler'.work = u \/ WStarts(u)')
               /\ workItem'[u].pending => u \in ToSet(wq'.list)
               /\ u \in ToSet(wq'.delayed) => workItem'[u].owned
    <3>1. CASE u = w BY <1>4, <1>6, <1>7, <1>8, <1>9, <3>1
    <3>2. CASE u # w
      <4>1. u # handler.work BY <1>0, <3>2
      <4> QED BY <1>4, <1>7, <1>8, <1>9, <3>2, <4>1 DEF WParts, WItems, DelayedItems
    <3> QED BY <3>1, <3>2
  <2> QED BY <1>7, <2>1 DEF WItems, DelayedItems
<1>11. WThread' BY <1>1, <1>4 DEF WParts, WThread
<1>12. WClients' BY <1>1 DEF WParts, WClients
<1>13. WTimers'
  <2>1. ASSUME NEW d \in WorkClient, clientAt'[d].at = "start"
        PROVE  ~workItem'[clientAt'[d].work].timer /\ handler'.work # clientAt'[d].work
    <3>1. clientAt'[d] = clientAt[d] /\ clientAt[d].work \in Work
          /\ clientAt[d].work # w /\ ~workItem[clientAt[d].work].timer
      BY <1>1, <1>3, <2>1 DEF WParts, WTimers, WClients
    <3> QED BY <1>1, <1>7, <1>8, <3>1
  <2> QED BY <1>8, <2>1 DEF WTimers
<1>14. WCancelled'
  <2>1. w \notin cancelled
    BY <1>2 DEF WParts, WCancelled, CancelledStays, QueuedItems, DelayedItems
  <2> QED BY <1>1, <1>4, <2>1 DEF WParts, WCancelled, CancelledStays, QueuedItems, DelayedItems
<1> QED BY <1>4, <1>10, <1>11, <1>12, <1>13, <1>14 DEF WParts

\* What a step of the work thread leaves alone; its list only loses items.
LEMMA WorkerSteps ==
    ASSUME WParts, WLists(wq'), UNCHANGED <<handler, clientAt, cancelled>>,
           wq'.delayed = wq.delayed, ToSet(wq'.list) \subseteq ToSet(wq.list),
           wq'.current \in cancelled => wq'.current = wq.current,
           workItem' \in [Work -> ItemState],
           \A u \in Work : /\ workItem'[u].submitting = workItem[u].submitting
                           /\ workItem'[u].timer = workItem[u].timer
                           /\ workItem'[u].pending =>
                                  workItem[u].pending /\ u \in ToSet(wq'.list)
                           /\ workItem'[u].owned = workItem[u].owned \/ u \in ToSet(wq.list),
           WThread'
    PROVE  WParts'
<1>1. \A u : WStarts(u)' <=> WStarts(u) BY DEF WStarts
<1>2. WItems' BY <1>1 DEF WParts, WItems, WLists, DelayedItems
<1>3. WClients' BY DEF WParts, WClients
<1>4. WTimers' BY DEF WParts, WTimers, WClients
<1>5. WCancelled' BY DEF WParts, WCancelled, CancelledStays, QueuedItems, DelayedItems
<1> QED BY <1>2, <1>3, <1>4, <1>5 DEF WParts

\* Steps that change its stat, or the place of the work thread alone.
LEMMA WorkStatOK ==
    ASSUME WParts, NEW s \in {"ready", "suspend"}, wq' = [wq EXCEPT !.stat = s],
           UNCHANGED <<workItem, handler, clientAt, cancelled>>,
           workerAt' \in {"loop", "func", "return", "ack"},
           workerAt' \in {"loop", "ack"} <=> workerAt \in {"loop", "ack"},
           s = "suspend" /\ workerAt' = "loop" => wq.list = << >>
    PROVE  WParts'
<1>1. /\ wq' \in WqState /\ wq'.list = wq.list /\ wq'.delayed = wq.delayed
      /\ wq'.current = wq.current /\ wq'.stat = s
  BY DEF WParts, WLists, WqState
<1>2. WLists(wq') BY <1>1 DEF WParts, WLists
<1>3. WThread' BY <1>1 DEF WParts, WThread
<1> QED BY <1>1, <1>2, <1>3, WorkerSteps DEF WParts, WItems

\* The next item is taken.
LEMMA WorkTakeOK ==
    ASSUME WParts, WorkTake
    PROVE  WParts'
<1>0. PICK h : h = Head(wq.list) OBVIOUS
<1>1. /\ wq.stat = "ready" /\ workerAt = "loop" /\ wq.list # << >>
      /\ wq' = [wq EXCEPT !.list = Tail(wq.list), !.current = h]
      /\ workItem' = [workItem EXCEPT ![h].pending = FALSE, ![h].owned = FALSE]
      /\ workerAt' = "func" /\ UNCHANGED <<handler, clientAt, cancelled>>
  BY <1>0 DEF WorkTake, WorkerIs
<1>2. /\ wq.list \in Seq(Work) /\ IsInjective(wq.list) BY DEF WParts, WLists, WqState
<1>3. /\ h \in Work /\ h \in ToSet(wq.list) /\ Tail(wq.list) \in Seq(Work)
      /\ IsInjective(Tail(wq.list)) /\ ToSet(Tail(wq.list)) = ToSet(wq.list) \ {h}
  BY <1>0, <1>1, <1>2, TailFacts
<1>4. /\ wq' \in WqState /\ wq'.list = Tail(wq.list) /\ wq'.delayed = wq.delayed
      /\ wq'.current = h /\ wq'.stat = wq.stat
  BY <1>1, <1>3 DEF WParts, WLists, WqState
<1>5. WLists(wq') BY <1>3, <1>4 DEF WParts, WLists
<1>6. workItem \in [Work -> ItemState] BY DEF WParts, WItems
<1>7. /\ workItem' \in [Work -> ItemState]
      /\ workItem'[h].submitting = workItem[h].submitting
      /\ workItem'[h].timer = workItem[h].timer
      /\ workItem'[h].pending = FALSE
      /\ \A u \in Work \ {h} : workItem'[u] = workItem[u]
  BY <1>1, <1>3, <1>6 DEF ItemState
<1>8. h \notin cancelled
  BY <1>3 DEF WParts, WCancelled, CancelledStays, QueuedItems
<1>9. WThread' BY <1>1, <1>3, <1>4, WorkConstants DEF WParts, WThread
<1>10. \A u \in Work : /\ workItem'[u].submitting = workItem[u].submitting
                       /\ workItem'[u].timer = workItem[u].timer
                       /\ workItem'[u].pending => workItem[u].pending /\ u \in ToSet(wq'.list)
                       /\ workItem'[u].owned = workItem[u].owned \/ u \in ToSet(wq.list)
  BY <1>3, <1>4, <1>7 DEF WParts, WItems
<1> QED BY <1>1, <1>3, <1>4, <1>5, <1>7, <1>8, <1>9, <1>10, WorkerSteps

\* The function returns.
LEMMA WorkDoneOK ==
    ASSUME WParts, WorkDone
    PROVE  WParts'
<1>1. /\ wq' = [wq EXCEPT !.current = NoWork] /\ workerAt' = "ack"
      /\ UNCHANGED <<workItem, handler, clientAt, cancelled>>
  BY DEF WorkDone, WorkerIs
<1>2. /\ wq' \in WqState /\ wq'.list = wq.list /\ wq'.delayed = wq.delayed
      /\ wq'.current = NoWork /\ wq'.stat = wq.stat
  BY <1>1 DEF WParts, WLists, WqState
<1>3. WLists(wq') BY <1>2 DEF WParts, WLists
<1>4. WThread' BY <1>1, <1>2 DEF WThread
<1>5. NoWork \notin cancelled BY WorkConstants DEF WParts, WCancelled
<1> QED BY <1>1, <1>2, <1>3, <1>4, <1>5, WorkerSteps DEF WParts, WItems

\* Those who wait for the function are told.
LEMMA WorkAckOK ==
    ASSUME WParts, WorkAck
    PROVE  WParts'
<1>1. /\ workerAt = "ack" /\ wq.stat = "ready" /\ workerAt' = "loop"
      /\ clientAt' = [c \in WorkClient |-> IF clientAt[c].at = "waits"
                                           THEN [at |-> "idle", work |-> NoWork]
                                           ELSE clientAt[c]]
      /\ UNCHANGED <<wq, workItem, handler, cancelled>>
  BY DEF WorkAck, WorkerIs
<1>2. clientAt \in [WorkClient -> ClientState] BY DEF WParts, WClients
<1>3. [at |-> "idle", work |-> NoWork] \in ClientState BY DEF ClientState
<1>4. /\ clientAt' \in [WorkClient -> ClientState]
      /\ \A c \in WorkClient : \/ clientAt'[c] = clientAt[c]
                               \/ clientAt[c].at = "waits" /\ clientAt'[c].at = "idle"
  BY <1>1, <1>2, <1>3
<1>5. WClients' BY <1>4 DEF WParts, WClients
<1>6. \A u : WStarts(u)' <=> WStarts(u) BY <1>4 DEF WStarts
<1>7. WItems' BY <1>1, <1>6 DEF WParts, WItems, DelayedItems
<1>8. WThread' BY <1>1 DEF WParts, WThread
<1>9. WTimers' BY <1>1, <1>4 DEF WParts, WTimers
<1>10. WCancelled'
  BY <1>1 DEF WParts, WCancelled, CancelledStays, QueuedItems, DelayedItems
<1> QED BY <1>1, <1>5, <1>7, <1>8, <1>9, <1>10 DEF WParts

LEMMA WorkStepOK ==
    ASSUME WorkRules, WorkInductive, [WorkNext]_workVars
    PROVE  WorkInductive'
<1>1. WParts BY WorkNow
<1>2. SUFFICES WParts'
  BY WorkBackNow, PTL
<1>3. ASSUME NEW c \in WorkClient, WorkCall(c) PROVE WParts'
  BY <1>1, <1>3, DoWorkOK, SubmitWorkOK, UrgentWorkOK, CancelWorkOK, SyncTestOK,
     CancelAllOK DEF WorkCall
<1>4. ASSUME NEW c \in WorkClient, WorkContinues(c) PROVE WParts'
  BY <1>1, <1>4, SubmitStartOK, SyncTakeOK, SyncCancelOK DEF WorkContinues
<1>5. CASE WorkWait
  BY <1>1, <1>5, WorkStatOK DEF WorkWait, WorkerIs, WParts, WThread
<1>6. CASE WorkBlocks
  BY <1>1, <1>6, WorkStatOK DEF WorkBlocks, WorkerIs, WParts, WThread
<1>7. CASE WorkUnblocks
  BY <1>1, <1>7, WorkStatOK DEF WorkUnblocks, WParts, WThread
<1>8. CASE UNCHANGED workVars
  <2>1. UNCHANGED <<wq, workItem, workerAt, handler, clientAt, cancelled>>
    BY <1>8 DEF workVars
  <2>2. WClients' BY <1>1, <2>1 DEF WParts, WClients
  <2> QED BY <1>1, <2>1, <2>2, PlaceOnly
<1> QED
  BY <1>1, <1>3, <1>4, <1>5, <1>6, <1>7, <1>8, TimerExpiresOK, HandlerReadOK,
     HandlerRegionOK, WorkTakeOK, WorkDoneOK, WorkAckOK
  DEF WorkNext, TimeoutHandler, WorkThread

LEMMA WorkInitOK == ASSUME WorkInit PROVE WorkInductive
<1>1. IsInjective(<< >>) /\ ToSet(<< >>) = {} /\ << >> \in Seq(Work) BY DEF IsInjective, ToSet
<1>2. wq \in WqState /\ wq.list = << >> /\ wq.delayed = << >> /\ wq.current = NoWork
      /\ wq.stat = "ready"
  BY <1>1 DEF WorkInit, WqState
<1>3. WLists(wq) BY <1>1, <1>2 DEF WLists
<1>4. clientAt \in [WorkClient -> ClientState] /\ \A c \in WorkClient : clientAt[c].at = "idle"
  BY DEF WorkInit, ClientState
<1>5. handler \in HandlerState /\ handler.at = "idle" /\ handler.work = NoWork
      /\ NoWork \notin Work
  BY WorkConstants DEF WorkInit, HandlerState
<1>6. /\ workItem \in [Work -> ItemState]
      /\ \A w \in Work : ~workItem[w].pending /\ ~workItem[w].submitting /\ ~workItem[w].timer
  BY DEF WorkInit, CancelledItem, ItemState
<1>7. WItems BY <1>1, <1>2, <1>4, <1>5, <1>6 DEF WItems, WStarts, DelayedItems
<1>8. WThread BY <1>2 DEF WThread, WorkInit
<1>9. WClients /\ WTimers BY <1>4, <1>5 DEF WClients, WTimers
<1>10. WCancelled BY DEF WCancelled, CancelledStays, WorkInit
<1> QED BY <1>3, <1>7, <1>8, <1>9, <1>10, WorkBackNow DEF WParts

\* With the priorities of the configuration, and delayed items not submitted
\* again at once, an item is in one list at a time and its flags, its timer and
\* the list agree, in every interleaving of clients, timer and work thread.
THEOREM WorkIsConsistent == WorkRules => (WorkSpec => []WorkConsistent)
<1> SUFFICES ASSUME WorkRules PROVE WorkSpec => []WorkConsistent OBVIOUS
<1>1. WorkInit => WorkInductive BY WorkInitOK
<1>2. WorkInductive /\ [WorkNext]_workVars => WorkInductive' BY WorkStepOK
<1>3. WorkInductive => WorkConsistent BY DEF WorkInductive
<1> QED BY <1>1, <1>2, <1>3, PTL DEF WorkSpec

\* Under the same rules an item that was cancelled with RT_EOK is neither queued
\* nor run until it is submitted again, wherever the timer callback was.
THEOREM CancelledIsNotRun == WorkRules => (WorkSpec => []CancelledStays)
<1> SUFFICES ASSUME WorkRules PROVE WorkSpec => []CancelledStays OBVIOUS
<1>1. WorkInit => WorkInductive BY WorkInitOK
<1>2. WorkInductive /\ [WorkNext]_workVars => WorkInductive' BY WorkStepOK
<1>3. WorkInductive => CancelledStays BY DEF WorkInductive
<1> QED BY <1>1, <1>2, <1>3, PTL DEF WorkSpec
-----------------------------------------------------------------------------
(* Pipes with one reader and one writer *)

LEMMA UserSides ==
    ASSUME PipePair, NEW t \in User
    PROVE  /\ Own(t) \in PipeSides /\ Other(t) \in PipeSides /\ Own(t) # Other(t) /\ t # NoThread
           /\ \A u \in User \ {t} : Own(u) = Other(t)
           /\ t \in PipeReader <=> Own(t) = "reader"
           /\ t \in PipeWriter <=> Own(t) = "writer"
           /\ \A u \in PipeReader : Own(u) = "reader" /\ Other(u) = "writer" /\ u \in User
           /\ \A u \in PipeWriter : Own(u) = "writer" /\ Other(u) = "reader" /\ u \in User
  BY PipeConstants DEF PipePair, User, Own, Other, PipeSides

\* What the ring buffer is asked to move, for every range of the length.
LEMMA AsLengthFacts ==
    ASSUME NEW n \in Nat
    PROVE  AsLength(n) \in Nat /\ AsLength(n) <= n /\ AsLength(n - AsLength(n)) = 0
<1>1. PICK r : r = LengthRange OBVIOUS
<1>2. r \in Nat \ {0} BY <1>1, PipeConstants
<1>3. n % r \in Nat /\ n % r <= n BY <1>2
<1>4. PICK q : q = n \div r OBVIOUS
<1>5. q \in Nat /\ n = r * q + (n % r) BY <1>2, <1>4
<1>6. (r * q) % r = 0
  <2>1. \A a \in Nat \ {0}, b \in Nat : (a * b) % a = 0 OBVIOUS
  <2> QED BY <1>2, <1>5, <2>1
<1>7. n - (n % r) = r * q BY <1>2, <1>3, <1>5
<1> QED BY <1>1, <1>3, <1>6, <1>7 DEF AsLength

\* A step of one thread that wakes nobody.  It may take or put bytes if it then
\* owes the other side a wakeup, and may find nothing to do if that is so.
LEMMA PipeMoves ==
    ASSUME PipePair, PipeInductive, NEW t \in User, NEW v \in PipeUserState,
           pipeTask' = [pipeTask EXCEPT ![t] = v], pipeQueue' = pipeQueue,
           pipe' \in PipeState, pipe'.open = pipe.open,
           pipeTask[t].at # "asleep", v.at # "asleep", v.at # "idle" => t \in pipe.open,
           pipe'.lock = t <=> v.at \in PipeLocked,
           \A u \in User \ {t} : pipe'.lock = u <=> pipe.lock = u,
           t \in PipeReader =>
               /\ v.at \in PipeWaits =>
                      \/ /\ pipeTask[t].at \in PipeWaits /\ v.left = pipeTask[t].left
                         /\ pipe'.bytes = pipe.bytes
                      \/ /\ pipe'.bytes = 0 \/ AsLength(v.left) = 0
                         /\ OpenEnds("writer") # {}
               /\ v.at = "got" \/ (pipeTask[t].at # "got" /\ pipe'.bytes = pipe.bytes),
           t \in PipeWriter =>
               /\ v.at \in PipeWaits =>
                      \/ /\ pipeTask[t].at \in PipeWaits /\ v.left = pipeTask[t].left
                         /\ pipe'.bytes = pipe.bytes
                      \/ /\ pipe'.bytes = PipeSize \/ AsLength(v.left) = 0
                         /\ OpenEnds("reader") # {}
               /\ v.at \in PipeWakes \/ (pipeTask[t].at \notin PipeWakes /\ pipe'.bytes = pipe.bytes)
    PROVE  PipeInductive'
<1>1. PipeTypeOK BY DEF PipeInductive
<1>2. /\ pipeTask' \in [User -> PipeUserState] /\ pipeTask'[t] = v
      /\ \A u \in User \ {t} : pipeTask'[u] = pipeTask[u]
  BY <1>1 DEF PipeTypeOK
<1>3. PipeTypeOK' BY <1>1, <1>2 DEF PipeTypeOK
<1>4. OpenEnds("writer")' = OpenEnds("writer") /\ OpenEnds("reader")' = OpenEnds("reader")
  BY DEF OpenEnds
<1>5. ASSUME NEW u \in User PROVE PipeUserOK(u)'
  <2>1. PipeUserOK(u) BY DEF PipeInductive
  <2>2. CASE u = t BY <1>2, <2>1, <2>2 DEF PipeUserOK
  <2>3. CASE u # t BY <1>2, <2>1, <2>3 DEF PipeUserOK
  <2> QED BY <2>2, <2>3
<1>6. ReaderTold'
  <2>1. CASE t \in PipeReader
    <3>1. \A u \in PipeWriter : pipeTask'[u] = pipeTask[u] BY <1>2, <2>1, UserSides
    <3>2. \A u \in PipeReader : u = t BY <2>1 DEF PipePair
    <3>3. pipe'.bytes = 0 => ~(pipe'.bytes > 0) OBVIOUS
    <3> QED BY <1>2, <1>4, <2>1, <3>1, <3>2, <3>3 DEF PipeInductive, ReaderTold, Moves
  <2>2. CASE t \in PipeWriter
    <3>1. \A u \in PipeReader : pipeTask'[u] = pipeTask[u] BY <1>2, <2>2, UserSides
    <3>2. \A u \in PipeWriter : u = t BY <2>2 DEF PipePair
    <3> QED BY <1>2, <1>4, <2>2, <3>1, <3>2 DEF PipeInductive, ReaderTold, Moves
  <2> QED BY <2>1, <2>2 DEF User
<1>7. WriterTold'
  <2>1. CASE t \in PipeWriter
    <3>1. \A u \in PipeReader : pipeTask'[u] = pipeTask[u] BY <1>2, <2>1, UserSides
    <3>2. \A u \in PipeWriter : u = t BY <2>1 DEF PipePair
    <3>3. pipe'.bytes = PipeSize => ~(pipe'.bytes < PipeSize) BY PipeConstants
    <3> QED BY <1>2, <1>4, <2>1, <3>1, <3>2, <3>3 DEF PipeInductive, WriterTold, Moves
  <2>2. CASE t \in PipeReader
    <3>1. \A u \in PipeWriter : pipeTask'[u] = pipeTask[u] BY <1>2, <2>2, UserSides
    <3>2. \A u \in PipeReader : u = t BY <2>2 DEF PipePair
    <3> QED BY <1>2, <1>4, <2>2, <3>1, <3>2 DEF PipeInductive, WriterTold, Moves
  <2> QED BY <2>1, <2>2 DEF User
<1> QED BY <1>3, <1>5, <1>6, <1>7 DEF PipeInductive

\* A step of one thread that wakes the other side.
LEMMA PipeWakesOther ==
    ASSUME PipePair, PipeInductive, NEW t \in User, NEW v \in PipeUserState,
           pipeTask' = [pipeTask EXCEPT ![t] = v], Wakeup(Other(t)),
           pipe' \in PipeState, pipe'.open = pipe.open, pipe'.bytes = pipe.bytes,
           pipeTask[t].at # "asleep", v.at # "asleep", v.at # "idle" => t \in pipe.open,
           pipe'.lock = t <=> v.at \in PipeLocked,
           \A u \in User \ {t} : pipe'.lock = u <=> pipe.lock = u,
           v.at \in PipeWaits => pipeTask[t].at \in PipeWaits /\ v.left = pipeTask[t].left
    PROVE  PipeInductive'
<1>1. PipeTypeOK BY DEF PipeInductive
<1>2. /\ pipeTask' \in [User -> PipeUserState] /\ pipeTask'[t] = v
      /\ \A u \in User \ {t} : pipeTask'[u] = pipeTask[u]
  BY <1>1 DEF PipeTypeOK
<1>3. PICK o : o = Other(t) OBVIOUS
<1>4. /\ o \in PipeSides /\ Own(t) \in PipeSides /\ Own(t) # o
      /\ \A u \in User \ {t} : Own(u) = o
  BY <1>3, UserSides
<1>5. pipeQueue' = [pipeQueue EXCEPT ![o] = rt_wqueue_wakeup(pipeQueue[o])]
  BY <1>3 DEF Wakeup
<1>6. /\ pipeQueue[o] \in PipeQueueState /\ pipeQueue[o].nodes \in Seq(User) BY <1>1, <1>4 DEF PipeTypeOK, PipeQueueState
<1>7. /\ rt_wqueue_wakeup(pipeQueue[o]) \in PipeQueueState
      /\ rt_wqueue_wakeup(pipeQueue[o]).woken = TRUE
      /\ pipeQueue[o].nodes = << >> => rt_wqueue_wakeup(pipeQueue[o]).nodes = << >>
      /\ \A u : pipeQueue[o].nodes = <<u>> => rt_wqueue_wakeup(pipeQueue[o]).nodes = << >>
  <2>1. CASE pipeQueue[o].nodes = << >>
    <3>1. rt_wqueue_wakeup(pipeQueue[o]) = [woken |-> TRUE, nodes |-> << >>]
      BY <2>1 DEF rt_wqueue_wakeup
    <3> QED BY <2>1, <3>1 DEF PipeQueueState
  <2>2. CASE pipeQueue[o].nodes # << >>
    <3>1. rt_wqueue_wakeup(pipeQueue[o]) = [woken |-> TRUE, nodes |-> Tail(pipeQueue[o].nodes)]
      BY <2>2 DEF rt_wqueue_wakeup
    <3>2. Tail(pipeQueue[o].nodes) \in Seq(User) BY <1>6, <2>2
    <3>3. \A u : Tail(<<u>>) = << >> OBVIOUS
    <3> QED BY <2>2, <3>1, <3>2, <3>3 DEF PipeQueueState
  <2> QED BY <2>1, <2>2
<1>8. /\ pipeQueue' \in [PipeSides -> PipeQueueState] /\ pipeQueue'[o].woken = TRUE
      /\ pipeQueue[o].nodes = << >> => pipeQueue'[o].nodes = << >>
      /\ \A u : pipeQueue[o].nodes = <<u>> => pipeQueue'[o].nodes = << >>
      /\ pipeQueue'[Own(t)] = pipeQueue[Own(t)]
  BY <1>1, <1>4, <1>5, <1>7 DEF PipeTypeOK
<1>9. PipeTypeOK' BY <1>2, <1>8 DEF PipeTypeOK
<1>10. OpenEnds("writer")' = OpenEnds("writer") /\ OpenEnds("reader")' = OpenEnds("reader")
  BY DEF OpenEnds
<1>11. ASSUME NEW u \in User PROVE PipeUserOK(u)'
  <2>1. PipeUserOK(u) BY DEF PipeInductive
  <2>2. CASE u = t BY <1>2, <1>8, <2>1, <2>2 DEF PipeUserOK
  <2>3. CASE u # t
    <3>1. Own(u) = o BY <1>4, <2>3
    <3> QED BY <1>2, <1>8, <2>1, <2>3, <3>1 DEF PipeUserOK
  <2> QED BY <2>2, <2>3
<1>12. ReaderTold'
  <2>1. CASE t \in PipeReader
    <3>1. \A u \in PipeWriter : pipeTask'[u] = pipeTask[u] BY <1>2, <2>1, UserSides
    <3>2. \A u \in PipeReader : u = t BY <2>1 DEF PipePair
    <3>3. pipeQueue'["reader"] = pipeQueue["reader"] BY <1>8, <2>1, UserSides
    <3> QED BY <1>2, <1>10, <2>1, <3>1, <3>2, <3>3 DEF PipeInductive, ReaderTold, Moves
  <2>2. CASE t \in PipeWriter
    <3>1. o = "reader" BY <1>3, <2>2, UserSides
    <3> QED BY <1>8, <3>1 DEF ReaderTold
  <2> QED BY <2>1, <2>2 DEF User
<1>13. WriterTold'
  <2>1. CASE t \in PipeWriter
    <3>1. \A u \in PipeReader : pipeTask'[u] = pipeTask[u] BY <1>2, <2>1, UserSides
    <3>2. \A u \in PipeWriter : u = t BY <2>1 DEF PipePair
    <3>3. pipeQueue'["writer"] = pipeQueue["writer"] BY <1>8, <2>1, UserSides
    <3> QED BY <1>2, <1>10, <2>1, <3>1, <3>2, <3>3 DEF PipeInductive, WriterTold, Moves
  <2>2. CASE t \in PipeReader
    <3>1. o = "writer" BY <1>3, <2>2, UserSides
    <3> QED BY <1>8, <3>1 DEF WriterTold
  <2> QED BY <2>1, <2>2 DEF User
<1> QED BY <1>9, <1>11, <1>12, <1>13 DEF PipeInductive

\* A step of one thread in its own queue, to sleep or back to the lock.
LEMMA PipeOwnQueue ==
    ASSUME PipePair, PipeInductive, NEW t \in User, NEW l \in {"lock", "asleep"}, NEW q \in PipeQueueState,
           Place(t, l), pipeQueue' = [pipeQueue EXCEPT ![Own(t)] = q], pipe' = pipe,
           pipeTask[t].at \in {"wait", "asleep"},
           l = "lock" => q.nodes = << >>,
           l = "asleep" => q.nodes = <<t>> /\ ~q.woken /\ ~pipeQueue[Own(t)].woken
    PROVE  PipeInductive'
<1>1. PipeTypeOK BY DEF PipeInductive
<1>2. /\ pipeTask' \in [User -> PipeUserState] /\ pipeTask'[t].at = l
      /\ pipeTask'[t].left = pipeTask[t].left
      /\ \A u \in User \ {t} : pipeTask'[u] = pipeTask[u]
  BY <1>1 DEF PipeTypeOK, PipeUserState, Place
<1>3. /\ Own(t) \in PipeSides /\ Own(t) # Other(t) /\ \A u \in User \ {t} : Own(u) = Other(t)
  BY UserSides
<1>4. /\ pipeQueue' \in [PipeSides -> PipeQueueState] /\ pipeQueue'[Own(t)] = q
      /\ \A s \in PipeSides \ {Own(t)} : pipeQueue'[s] = pipeQueue[s]
  BY <1>1, <1>3 DEF PipeTypeOK
<1>5. PipeTypeOK' BY <1>1, <1>2, <1>4 DEF PipeTypeOK
<1>6. OpenEnds("writer")' = OpenEnds("writer") /\ OpenEnds("reader")' = OpenEnds("reader")
  BY DEF OpenEnds
<1>7. ASSUME NEW u \in User PROVE PipeUserOK(u)'
  <2>1. PipeUserOK(u) BY DEF PipeInductive
  <2>2. CASE u = t
    <3>1. pipe'.lock # t /\ pipeTask'[t].at \notin PipeLocked /\ t \in pipe'.open
      BY <1>2, <2>1, <2>2 DEF PipeUserOK, PipeLocked
    <3>2. pipeQueue'[Own(t)].nodes =
            IF pipeTask'[t].at = "asleep" /\ ~pipeQueue'[Own(t)].woken THEN <<t>> ELSE << >>
      BY <1>2, <1>4
    <3> QED BY <1>2, <2>2, <3>1, <3>2 DEF PipeUserOK
  <2>3. CASE u # t
    <3>1. pipeQueue'[Own(u)] = pipeQueue[Own(u)] BY <1>3, <1>4, <2>3, UserSides
    <3> QED BY <1>2, <2>1, <2>3, <3>1 DEF PipeUserOK
  <2> QED BY <2>2, <2>3
<1>8. ReaderTold'
  <2>1. CASE t \in PipeReader
    <3>1. \A u \in PipeWriter : pipeTask'[u] = pipeTask[u] BY <1>2, <2>1, UserSides
    <3>2. \A u \in PipeReader : u = t BY <2>1 DEF PipePair
    <3>3. Own(t) = "reader" BY <2>1, UserSides
    <3> QED BY <1>2, <1>4, <1>6, <2>1, <3>1, <3>2, <3>3 DEF PipeInductive, ReaderTold, PipeWaits, Moves
  <2>2. CASE t \in PipeWriter
    <3>1. pipeQueue'["reader"] = pipeQueue["reader"] BY <1>4, <2>2, UserSides DEF PipeSides
    <3>2. \A u \in PipeReader : pipeTask'[u] = pipeTask[u] BY <1>2, <2>2, UserSides
    <3>3. \A u \in PipeWriter : pipeTask[u].at \notin PipeWakes BY <2>2 DEF PipePair, PipeWakes
    <3> QED BY <1>6, <3>1, <3>2, <3>3 DEF PipeInductive, ReaderTold, Moves
  <2> QED BY <2>1, <2>2 DEF User
<1>9. WriterTold'
  <2>1. CASE t \in PipeWriter
    <3>1. \A u \in PipeReader : pipeTask'[u] = pipeTask[u] BY <1>2, <2>1, UserSides
    <3>2. \A u \in PipeWriter : u = t BY <2>1 DEF PipePair
    <3>3. Own(t) = "writer" BY <2>1, UserSides
    <3> QED BY <1>2, <1>4, <1>6, <2>1, <3>1, <3>2, <3>3 DEF PipeInductive, WriterTold, PipeWaits, Moves
  <2>2. CASE t \in PipeReader
    <3>1. pipeQueue'["writer"] = pipeQueue["writer"] BY <1>4, <2>2, UserSides DEF PipeSides
    <3>2. \A u \in PipeWriter : pipeTask'[u] = pipeTask[u] BY <1>2, <2>2, UserSides
    <3>3. \A u \in PipeReader : pipeTask[u].at # "got" BY <2>2 DEF PipePair
    <3> QED BY <1>6, <3>1, <3>2, <3>3 DEF PipeInductive, WriterTold, Moves
  <2> QED BY <2>1, <2>2 DEF User
<1> QED BY <1>5, <1>7, <1>8, <1>9 DEF PipeInductive

\* The state a thread and the lock are in, and the next one, field by field.
LEMMA UserFields ==
    ASSUME PipeInductive, NEW t \in User
    PROVE  /\ pipeTask[t] \in PipeUserState /\ pipeTask[t].left \in Nat
           /\ pipeTask[t].put \in BOOLEAN /\ pipe.bytes \in 0..PipeSize
           /\ pipe.lock = t <=> pipeTask[t].at \in PipeLocked
           /\ pipeTask[t].at # "idle" => t \in pipe.open
           /\ t # NoThread
           /\ \A u \in User \ {t} : pipe.lock = t => pipe.lock # u
  BY PipeConstants DEF PipeInductive, PipeTypeOK, PipeUserOK, PipeState, PipeUserState, User

LEMMA UnlockedFacts ==
    ASSUME PipeInductive
    PROVE  /\ Unlocked \in PipeState /\ Unlocked.lock = NoThread
           /\ Unlocked.open = pipe.open /\ Unlocked.bytes = pipe.bytes
           /\ \A u \in User : Unlocked.lock # u
<1>1. pipe \in PipeState BY DEF PipeInductive, PipeTypeOK
<1>2. NoThread \notin User BY PipeConstants DEF User
<1> QED BY <1>1, <1>2 DEF Unlocked, PipeState

\* The place of a thread changes, and nothing else of it.
LEMMA PlaceFacts ==
    ASSUME PipeInductive, NEW t \in User,
           NEW l \in {"idle", "loop", "release", "wake", "wait", "got", "ending"}, Place(t, l)
    PROVE  \E v \in PipeUserState : /\ pipeTask' = [pipeTask EXCEPT ![t] = v] /\ v.at = l
                                     /\ v.left = pipeTask[t].left
<1>1. pipeTask \in [User -> PipeUserState] BY DEF PipeInductive, PipeTypeOK
<1>2. pipeTask' = [pipeTask EXCEPT ![t] = pipeTask'[t]] BY <1>1 DEF Place
<1>3. pipeTask'[t] = [pipeTask[t] EXCEPT !.at = l] BY <1>1 DEF Place
<1>4. pipeTask'[t].at = l /\ pipeTask'[t].left = pipeTask[t].left
  BY <1>1, <1>3 DEF PipeUserState
<1>5. pipeTask'[t] \in PipeUserState BY <1>1 DEF Place, PipeUserState
<1> QED BY <1>2, <1>4, <1>5

LEMMA PipeBeginOK ==
    ASSUME PipePair, PipeInductive, NEW t \in User, NEW n \in Nat, PipeBegin(t, n)
    PROVE  PipeInductive'
<1> DEFINE v == [at |-> "lock", left |-> n, put |-> FALSE]
<1>1. /\ t \in pipe.open /\ pipeTask[t].at = "idle" /\ pipeTask' = [pipeTask EXCEPT ![t] = v]
      /\ pipe' = pipe /\ pipeQueue' = pipeQueue
  BY DEF PipeBegin, In
<1>2. v \in PipeUserState /\ v.at = "lock" BY DEF PipeUserState
<1> HIDE DEF v
<1>3. pipe' \in PipeState BY <1>1 DEF PipeInductive, PipeTypeOK
<1>4. pipe.lock # t BY <1>1, UserFields DEF PipeLocked
<1> QED BY <1>1, <1>2, <1>3, <1>4, PipeMoves DEF PipeLocked, PipeWaits, PipeWakes

LEMMA PipeLockOK ==
    ASSUME PipePair, PipeInductive, NEW t \in User, PipeLock(t)
    PROVE  PipeInductive'
<1>1. /\ pipeTask[t].at = "lock" /\ pipe.lock = NoThread /\ Place(t, "loop")
      /\ pipe' = [pipe EXCEPT !.lock = t] /\ pipeQueue' = pipeQueue
  BY DEF PipeLock, In, Holds
<1>2. pipe \in PipeState BY DEF PipeInductive, PipeTypeOK
<1>3. /\ pipe' \in PipeState /\ pipe'.open = pipe.open /\ pipe'.bytes = pipe.bytes
      /\ pipe'.lock = t
  BY <1>1, <1>2 DEF PipeState
<1>4. PICK v \in PipeUserState : pipeTask' = [pipeTask EXCEPT ![t] = v] /\ v.at = "loop"
  BY <1>1, PlaceFacts
<1>5. \A u \in User : u # NoThread BY PipeConstants DEF User
<1>6. t \in pipe.open BY <1>1, UserFields
<1> QED BY <1>1, <1>3, <1>4, <1>5, <1>6, PipeMoves DEF PipeLocked, PipeWaits, PipeWakes

LEMMA PipeReleaseOK ==
    ASSUME PipePair, PipeInductive, NEW t \in User, PipeRelease(t)
    PROVE  PipeInductive'
<1>1. /\ pipeTask[t].at = "release" /\ Place(t, "wake")
      /\ pipe' = Unlocked /\ pipeQueue' = pipeQueue
  BY DEF PipeRelease, In
<1>2. PICK v \in PipeUserState : /\ pipeTask' = [pipeTask EXCEPT ![t] = v] /\ v.at = "wake"
                                  /\ v.left = pipeTask[t].left
  BY <1>1, PlaceFacts
<1>3. pipe.lock = t /\ t \in pipe.open BY <1>1, UserFields DEF PipeLocked
<1> QED BY <1>1, <1>2, <1>3, UnlockedFacts, PipeMoves DEF PipeLocked, PipeWaits, PipeWakes

LEMMA PipeGivesUpOK ==
    ASSUME PipePair, PipeInductive, NEW t \in User, PipeGivesUp(t)
    PROVE  PipeInductive'
<1> DEFINE v == IF t \in PipeReader THEN Outside ELSE [pipeTask[t] EXCEPT !.at = "ending"]
<1>1. /\ pipeTask[t].at = "release" /\ pipeTask' = [pipeTask EXCEPT ![t] = v]
      /\ pipe' = Unlocked /\ pipeQueue' = pipeQueue
  BY DEF PipeGivesUp, In
<1>2. /\ v \in PipeUserState /\ v.at \in {"idle", "ending"}
      /\ (t \in PipeReader => v.at = "idle") /\ (t \in PipeWriter => v.at = "ending")
  BY UserFields, PipeConstants DEF PipeUserState, Outside
<1> HIDE DEF v
<1>3. pipe.lock = t /\ t \in pipe.open BY <1>1, UserFields DEF PipeLocked
<1> QED BY <1>1, <1>2, <1>3, UnlockedFacts, PipeMoves DEF PipeLocked, PipeWaits, PipeWakes

LEMMA PipeBrokenOK ==
    ASSUME PipePair, PipeInductive, NEW t \in User, PipeBroken(t)
    PROVE  PipeInductive'
<1> DEFINE v == IF pipeTask[t].put THEN [pipeTask[t] EXCEPT !.at = "ending"] ELSE Outside
<1>1. /\ pipeTask[t].at = "loop" /\ pipeTask' = [pipeTask EXCEPT ![t] = v]
      /\ pipe' = Unlocked /\ pipeQueue' = pipeQueue
  BY DEF PipeBroken, In
<1>2. v \in PipeUserState /\ v.at \in {"idle", "ending"}
  BY UserFields DEF PipeUserState, Outside
<1> HIDE DEF v
<1>3. pipe.lock = t /\ t \in pipe.open BY <1>1, UserFields DEF PipeLocked
<1> QED BY <1>1, <1>2, <1>3, UnlockedFacts, PipeMoves DEF PipeLocked, PipeWaits, PipeWakes

LEMMA PipeWakeOK ==
    ASSUME PipePair, PipeInductive, NEW t \in User, PipeWake(t)
    PROVE  PipeInductive'
<1>1. /\ pipeTask[t].at = "wake" /\ Place(t, "wait") /\ pipe' = pipe /\ Wakeup(Other(t))
  BY DEF PipeWake, In
<1>2. PICK v \in PipeUserState : /\ pipeTask' = [pipeTask EXCEPT ![t] = v] /\ v.at = "wait"
                                  /\ v.left = pipeTask[t].left
  BY <1>1, PlaceFacts
<1>3. pipe' \in PipeState /\ pipe.lock # t /\ t \in pipe.open
  BY <1>1, UserFields DEF PipeInductive, PipeTypeOK, PipeLocked
<1> QED BY <1>1, <1>2, <1>3, PipeWakesOther DEF PipeLocked, PipeWaits

LEMMA ReadEndOK ==
    ASSUME PipePair, PipeInductive, NEW t \in User, ReadEnd(t)
    PROVE  PipeInductive'
<1>1. /\ t \in PipeReader /\ pipeTask[t].at = "got" /\ pipe' = Unlocked
      /\ pipeTask' = [pipeTask EXCEPT ![t] = Outside] /\ Wakeup("writer")
  BY DEF ReadEnd, In
<1>2. Outside \in PipeUserState /\ Outside.at = "idle" BY DEF Outside, PipeUserState
<1>3. pipe.lock = t /\ Other(t) = "writer" BY <1>1, UserFields DEF PipeLocked, Other
<1> QED BY <1>1, <1>2, <1>3, UnlockedFacts, PipeWakesOther DEF PipeLocked, PipeWaits

LEMMA WriteEndOK ==
    ASSUME PipePair, PipeInductive, NEW t \in User, WriteEnd(t)
    PROVE  PipeInductive'
<1>1. /\ t \in PipeWriter /\ pipeTask[t].at = "ending" /\ pipe' = pipe
      /\ pipeTask' = [pipeTask EXCEPT ![t] = Outside] /\ Wakeup("reader")
  BY DEF WriteEnd, In
<1>2. Outside \in PipeUserState /\ Outside.at = "idle" BY DEF Outside, PipeUserState
<1>3. pipe' \in PipeState /\ pipe.lock # t /\ Other(t) = "reader"
  BY <1>1, UserFields, PipeConstants DEF PipeInductive, PipeTypeOK, PipeLocked, Other
<1> QED BY <1>1, <1>2, <1>3, PipeWakesOther DEF PipeLocked, PipeWaits

LEMMA ReadGetOK ==
    ASSUME PipePair, PipeInductive, NEW t \in User, ReadGet(t)
    PROVE  PipeInductive'
<1>1. /\ t \in PipeReader /\ pipeTask[t].at = "loop" /\ OpenEnds("writer") # {}
      /\ pipeQueue' = pipeQueue
  BY DEF ReadGet, In
<1>2. pipe.lock = t /\ t \in pipe.open /\ pipe \in PipeState /\ t \notin PipeWriter
  BY <1>1, UserFields, PipeConstants DEF PipeLocked, PipeInductive, PipeTypeOK
<1>3. PICK len : len = AsLength(pipeTask[t].left) OBVIOUS
<1>4. len \in Nat /\ pipe.bytes \in 0..PipeSize /\ PipeSize \in Nat
  BY <1>3, UserFields, AsLengthFacts, PipeConstants
<1>5. PICK n : n = Fewer(pipe.bytes, len) OBVIOUS
<1>6. n \in Nat /\ pipe.bytes - n \in 0..PipeSize /\ (n = 0 => pipe.bytes = 0 \/ len = 0)
  BY <1>4, <1>5 DEF Fewer
<1>7. /\ pipe' = [pipe EXCEPT !.bytes = @ - n]
      /\ Place(t, IF n = 0 THEN "release" ELSE "got")
  BY <1>3, <1>5 DEF ReadGet
<1>8. /\ pipe' \in PipeState /\ pipe'.open = pipe.open /\ pipe'.lock = pipe.lock
      /\ pipe'.bytes = pipe.bytes - n
  BY <1>2, <1>6, <1>7 DEF PipeState
<1>9. CASE n = 0
  <2>1. Place(t, "release") BY <1>7, <1>9
  <2>2. PICK v \in PipeUserState : /\ pipeTask' = [pipeTask EXCEPT ![t] = v] /\ v.at = "release"
                                    /\ v.left = pipeTask[t].left
    BY <2>1, PlaceFacts
  <2>3. pipe'.bytes = pipe.bytes /\ (pipe'.bytes = 0 \/ AsLength(v.left) = 0)
    BY <1>3, <1>4, <1>6, <1>8, <1>9, <2>2
  <2> QED BY <1>1, <1>2, <1>8, <2>2, <2>3, PipeMoves DEF PipeLocked, PipeWaits, PipeWakes
<1>10. CASE n # 0
  <2>1. Place(t, "got") BY <1>7, <1>10
  <2>2. PICK v \in PipeUserState : pipeTask' = [pipeTask EXCEPT ![t] = v] /\ v.at = "got"
    BY <2>1, PlaceFacts
  <2> QED BY <1>1, <1>2, <1>8, <2>2, PipeMoves DEF PipeLocked, PipeWaits, PipeWakes
<1> QED BY <1>9, <1>10

LEMMA WritePutOK ==
    ASSUME PipePair, PipeInductive, NEW t \in User, WritePut(t)
    PROVE  PipeInductive'
<1> DEFINE room == PipeSize - pipe.bytes
           left == pipeTask[t].left
           len == AsLength(left)
           n == Fewer(room, len)
           l == IF n = left THEN "ending" ELSE "release"
           v == [at |-> l, left |-> left - n, put |-> TRUE]
<1>1. /\ t \in PipeWriter /\ pipeTask[t].at = "loop" /\ OpenEnds("reader") # {}
      /\ pipe' = [pipe EXCEPT !.bytes = @ + n, !.lock = IF n = left THEN NoThread ELSE @]
      /\ pipeTask' = [pipeTask EXCEPT ![t] = v] /\ pipeQueue' = pipeQueue
  BY DEF WritePut, In
<1>2. /\ pipe.lock = t /\ t \in pipe.open /\ pipe \in PipeState /\ t \notin PipeReader
      /\ t # NoThread
  BY <1>1, UserFields, PipeConstants DEF PipeLocked, PipeInductive, PipeTypeOK
<1>3. /\ pipe.bytes + n \in 0..PipeSize /\ left - n \in Nat
      /\ pipe.bytes + n = PipeSize \/ AsLength(left - n) = 0
  <2>1. pipe.bytes \in 0..PipeSize /\ left \in Nat /\ PipeSize \in Nat
    BY UserFields, PipeConstants
  <2> HIDE DEF left
  <2>2. len \in Nat /\ len <= left /\ AsLength(left - len) = 0 BY <2>1, AsLengthFacts
  <2> HIDE DEF len
  <2>3. CASE room < len BY <2>1, <2>2, <2>3 DEF Fewer
  <2>4. CASE ~(room < len) BY <2>1, <2>2, <2>4 DEF Fewer
  <2> QED BY <2>3, <2>4
<1>4. l \in {"ending", "release"} /\ (l = "release" <=> n # left) OBVIOUS
<1> HIDE DEF n, left, room, len
<1>5. /\ pipe' \in PipeState /\ pipe'.open = pipe.open /\ pipe'.bytes = pipe.bytes + n
      /\ pipe'.lock = IF n = left THEN NoThread ELSE t
  BY <1>1, <1>2, <1>3 DEF PipeState
<1> HIDE DEF l
<1>6. v \in PipeUserState /\ v.at = l /\ v.left = left - n BY <1>3, <1>4 DEF PipeUserState
<1> HIDE DEF v
<1>7. \A u \in User : u # NoThread BY PipeConstants DEF User
<1>8. CASE n = left
  BY ZenonT(40), <1>1, <1>2, <1>4, <1>5, <1>6, <1>7, <1>8, PipeMoves DEF PipeLocked, PipeWaits, PipeWakes
<1>9. CASE n # left
  BY <1>1, <1>2, <1>3, <1>4, <1>5, <1>6, <1>7, <1>9, PipeMoves DEF PipeLocked, PipeWaits, PipeWakes
<1> QED BY <1>8, <1>9

\* rt_wqueue_wait: at once, or to sleep; and its end.
LEMMA PipeWaitOK ==
    ASSUME PipePair, PipeInductive, NEW t \in User, PipeWait(t)
    PROVE  PipeInductive'
<1> DEFINE x == pipeQueue[Own(t)]
<1>1. pipeTask[t].at = "wait" /\ pipe' = pipe BY DEF PipeWait, In
<1>2. x \in PipeQueueState BY UserSides DEF PipeInductive, PipeTypeOK
<1>3. x.nodes = << >> BY <1>1 DEF PipeInductive, PipeUserOK
<1>4. CASE x.woken
  <2>1. /\ pipeQueue' = [pipeQueue EXCEPT ![Own(t)] = WaitEnds(x)] /\ Place(t, "lock")
    BY <1>4 DEF PipeWait, WaitEndsAtOnce
  <2> HIDE DEF x
  <2>2. WaitEnds(x) \in PipeQueueState /\ WaitEnds(x).nodes = << >>
    BY <1>2, <1>3 DEF WaitEnds, PipeQueueState
  <2> QED BY <1>1, <2>1, <2>2, PipeOwnQueue
<1>5. CASE ~x.woken
  <2>1. /\ pipeQueue' = [pipeQueue EXCEPT ![Own(t)] = WaitSuspends(x, t)]
        /\ Place(t, "asleep")
    BY <1>5 DEF PipeWait, WaitEndsAtOnce
  <2>2. ~pipeQueue[Own(t)].woken BY <1>5
  <2> HIDE DEF x
  <2>3. Append(<< >>, t) = <<t>> /\ <<t>> \in Seq(User) OBVIOUS
  <2>4. /\ WaitSuspends(x, t) \in PipeQueueState /\ WaitSuspends(x, t).nodes = <<t>>
        /\ ~WaitSuspends(x, t).woken
    BY <1>2, <1>3, <1>5, <2>3 DEF WaitSuspends, PipeQueueState
  <2> QED BY <1>1, <2>1, <2>2, <2>4, PipeOwnQueue
<1> QED BY <1>4, <1>5

LEMMA PipeWaitedOK ==
    ASSUME PipePair, PipeInductive, NEW t \in User, PipeWaited(t)
    PROVE  PipeInductive'
<1> DEFINE x == pipeQueue[Own(t)]
<1>1. /\ pipeTask[t].at = "asleep" /\ pipe' = pipe /\ ~Suspended(x, t) /\ Place(t, "lock")
      /\ pipeQueue' = [pipeQueue EXCEPT ![Own(t)] = WaitEnds(x)]
  BY DEF PipeWaited, In
<1>2. x \in PipeQueueState BY UserSides DEF PipeInductive, PipeTypeOK
<1>3. x.nodes # <<t>> BY <1>1 DEF Suspended
<1>4. x.nodes = << >> BY <1>1, <1>3 DEF PipeInductive, PipeUserOK
<1> HIDE DEF x
<1>5. WaitEnds(x) \in PipeQueueState /\ WaitEnds(x).nodes = << >>
  BY <1>2, <1>4 DEF WaitEnds, PipeQueueState
<1> QED BY <1>1, <1>5, PipeOwnQueue

\* pipe_fops_close.
LEMMA PipeCloseOK ==
    ASSUME PipePair, PipeInductive, NEW t \in User, PipeClose(t)
    PROVE  PipeInductive'
<1> DEFINE open == pipe.open \ {t}
           Gone(s) == (IF s = "reader" THEN PipeWriter ELSE PipeReader) \cap open = {}
<1>1. /\ t \in pipe.open /\ pipeTask[t].at = "idle" /\ pipe.lock = NoThread
      /\ pipe' = [pipe EXCEPT !.open = open, !.bytes = IF open = {} THEN 0 ELSE @]
      /\ pipeQueue' = [s \in PipeSides |-> IF Gone(s) THEN rt_wqueue_wakeup(pipeQueue[s])
                                       ELSE pipeQueue[s]]
      /\ pipeTask' = pipeTask
  BY DEF PipeClose, In, Holds, PipeSides
<1>2. PipeTypeOK BY DEF PipeInductive
<1>3. /\ pipe' \in PipeState /\ pipe'.open = open /\ pipe'.lock = pipe.lock
      /\ pipe'.bytes = 0 \/ pipe'.bytes = pipe.bytes
      /\ open # {} => pipe'.bytes = pipe.bytes
  <2>1. pipe \in PipeState /\ 0 \in 0..PipeSize BY <1>2, PipeConstants DEF PipeTypeOK
  <2> QED BY <1>1, <2>1 DEF PipeState
<1>4. ASSUME NEW q \in PipeQueueState
      PROVE  /\ rt_wqueue_wakeup(q) \in PipeQueueState /\ rt_wqueue_wakeup(q).woken = TRUE
             /\ q.nodes = << >> => rt_wqueue_wakeup(q).nodes = << >>
             /\ \A u : q.nodes = <<u>> => rt_wqueue_wakeup(q).nodes = << >>
  <2>1. CASE q.nodes = << >>
    <3>1. rt_wqueue_wakeup(q) = [woken |-> TRUE, nodes |-> << >>] BY <2>1 DEF rt_wqueue_wakeup
    <3> QED BY <2>1, <3>1 DEF PipeQueueState
  <2>2. CASE q.nodes # << >>
    <3>1. rt_wqueue_wakeup(q) = [woken |-> TRUE, nodes |-> Tail(q.nodes)]
      BY <2>2 DEF rt_wqueue_wakeup
    <3>2. Tail(q.nodes) \in Seq(User) BY <2>2 DEF PipeQueueState
    <3>3. \A u : Tail(<<u>>) = << >> OBVIOUS
    <3> QED BY <2>2, <3>1, <3>2, <3>3 DEF PipeQueueState
  <2> QED BY <2>1, <2>2
<1>5. ASSUME NEW s \in PipeSides
      PROVE  /\ pipeQueue'[s] \in PipeQueueState
             /\ Gone(s) => /\ pipeQueue'[s].woken = TRUE
                           /\ pipeQueue[s].nodes = << >> => pipeQueue'[s].nodes = << >>
                           /\ \A u : pipeQueue[s].nodes = <<u>> => pipeQueue'[s].nodes = << >>
             /\ ~Gone(s) => pipeQueue'[s] = pipeQueue[s]
  <2>1. pipeQueue[s] \in PipeQueueState BY <1>2 DEF PipeTypeOK
  <2> HIDE DEF Gone
  <2>2. CASE Gone(s)
    <3>1. pipeQueue'[s] = rt_wqueue_wakeup(pipeQueue[s]) BY <1>1, <2>2
    <3> QED BY <1>4, <2>1, <2>2, <3>1
  <2>3. CASE ~Gone(s)
    <3>1. pipeQueue'[s] = pipeQueue[s] BY <1>1, <2>3
    <3> QED BY <2>1, <2>3, <3>1
  <2> QED BY <2>2, <2>3
<1>6. PipeTypeOK'
  <2>1. pipeQueue' = [s \in PipeSides |-> pipeQueue'[s]] BY <1>1
  <2>2. pipeQueue' \in [PipeSides -> PipeQueueState] BY <1>5, <2>1
  <2> QED BY <1>1, <1>2, <1>3, <2>2 DEF PipeTypeOK
<1>7. OpenEnds("writer")' = {} <=> Gone("reader") BY <1>3 DEF OpenEnds
<1>8. OpenEnds("reader")' = {} <=> Gone("writer") BY <1>3 DEF OpenEnds
<1>9. /\ OpenEnds("writer") = {} => Gone("reader")
      /\ OpenEnds("reader") = {} => Gone("writer")
  BY DEF OpenEnds
<1>10. "reader" \in PipeSides /\ "writer" \in PipeSides BY DEF PipeSides
<1> HIDE DEF Gone
<1>11. ASSUME NEW u \in User PROVE PipeUserOK(u)'
  <2>1. PipeUserOK(u) BY DEF PipeInductive
  <2>2. Own(u) \in PipeSides BY UserSides
  <2>3. pipeTask'[u].at # "idle" => u \in pipe'.open BY <1>1, <1>3, <2>1 DEF PipeUserOK
  <2>4. pipe'.lock = u <=> pipeTask'[u].at \in PipeLocked BY <1>1, <1>3, <2>1 DEF PipeUserOK
  <2>5. CASE Gone(Own(u)) BY <1>1, <1>5, <2>1, <2>2, <2>3, <2>4, <2>5 DEF PipeUserOK
  <2>6. CASE ~Gone(Own(u))
    <3>1. pipeQueue'[Own(u)] = pipeQueue[Own(u)] BY <1>5, <2>2, <2>6
    <3> QED BY <1>1, <2>1, <2>3, <2>4, <3>1 DEF PipeUserOK
  <2> QED BY <2>5, <2>6
<1>12. ReaderTold'
  <2>1. CASE Gone("reader")
    <3>1. pipeQueue'["reader"].woken BY <1>5, <1>10, <2>1
    <3> QED BY <3>1 DEF ReaderTold
  <2>2. CASE ~Gone("reader")
    <3>1. pipeQueue'["reader"] = pipeQueue["reader"] BY <1>5, <1>10, <2>2
    <3>2. OpenEnds("writer")' # {} BY <1>7, <2>2
    <3>3. pipe'.bytes > 0 => pipe.bytes > 0 BY <1>3
    <3> QED BY <1>1, <3>1, <3>2, <3>3 DEF ReaderTold, PipeInductive, Moves
  <2> QED BY <2>1, <2>2
<1>13. WriterTold'
  <2>1. CASE Gone("writer")
    <3>1. pipeQueue'["writer"].woken BY <1>5, <1>10, <2>1
    <3> QED BY <3>1 DEF WriterTold
  <2>2. CASE ~Gone("writer")
    <3>1. pipeQueue'["writer"] = pipeQueue["writer"] BY <1>5, <1>10, <2>2
    <3>2. OpenEnds("reader")' # {} BY <1>8, <2>2
    <3>3. pipe'.bytes = pipe.bytes
      <4>1. open # {} BY <2>2 DEF Gone
      <4> QED BY <1>3, <4>1
    <3> QED BY <1>1, <3>1, <3>2, <3>3 DEF WriterTold, PipeInductive, Moves
  <2> QED BY <2>1, <2>2
<1> QED BY <1>6, <1>11, <1>12, <1>13 DEF PipeInductive

LEMMA PipeOpenOK ==
    ASSUME PipePair, PipeInductive, NEW t \in User, PipeOpen(t)
    PROVE  PipeInductive'
<1>1. /\ pipe' = [pipe EXCEPT !.open = @ \cup {t}] /\ pipeTask' = pipeTask
      /\ pipeQueue' = pipeQueue
  BY DEF PipeOpen
<1>2. /\ pipe' \in PipeState /\ pipe'.open = pipe.open \cup {t} /\ pipe'.lock = pipe.lock
      /\ pipe'.bytes = pipe.bytes
  BY <1>1 DEF PipeInductive, PipeTypeOK, PipeState
<1>3. PipeTypeOK' BY <1>1, <1>2 DEF PipeInductive, PipeTypeOK
<1>4. \A u \in User : PipeUserOK(u)' BY <1>1, <1>2 DEF PipeInductive, PipeUserOK
<1>5. /\ OpenEnds("writer")' = {} => OpenEnds("writer") = {}
      /\ OpenEnds("reader")' = {} => OpenEnds("reader") = {}
  BY <1>2 DEF OpenEnds
<1>6. ReaderTold' BY <1>1, <1>2, <1>5 DEF PipeInductive, ReaderTold, Moves
<1>7. WriterTold' BY <1>1, <1>2, <1>5 DEF PipeInductive, WriterTold, Moves
<1> QED BY <1>3, <1>4, <1>6, <1>7 DEF PipeInductive

LEMMA PipeStepOK ==
    ASSUME PipePair, PipeInductive, [PipeNext]_pipeVars
    PROVE  PipeInductive'
<1>1. ASSUME NEW t \in User, PipeCall(t) PROVE PipeInductive'
  <2>1. PICK n \in PipeCounts : PipeBegin(t, n) BY <1>1 DEF PipeCall
  <2>2. n \in Nat BY PipeConstants
  <2> QED BY <2>1, <2>2, PipeBeginOK
<1>2. ASSUME NEW t \in User, PipeGoesOn(t) PROVE PipeInductive'
  BY <1>2, PipeLockOK, PipeReleaseOK, PipeWakeOK, PipeWaitOK, PipeWaitedOK, PipeBrokenOK,
     ReadGetOK, ReadEndOK, WritePutOK, WriteEndOK DEF PipeGoesOn
<1>3. CASE UNCHANGED pipeVars
  <2>1. UNCHANGED <<pipe, pipeQueue, pipeTask>> BY <1>3 DEF pipeVars
  <2> QED BY <2>1 DEF PipeInductive, PipeTypeOK, PipeUserOK, ReaderTold, WriterTold, OpenEnds, Moves
<1> QED BY <1>1, <1>2, <1>3, PipeGivesUpOK, PipeCloseOK, PipeOpenOK DEF PipeNext

LEMMA PipeInitOK ==
    ASSUME PipePair, PipeInit
    PROVE  PipeInductive
<1>1. 0 \in 0..PipeSize /\ << >> \in Seq(User) /\ NoThread \notin User
  BY PipeConstants DEF User
<1>2. /\ pipe \in PipeState /\ pipe.lock = NoThread BY <1>1 DEF PipeInit, PipeState
<1>3. /\ pipeQueue \in [PipeSides -> PipeQueueState]
      /\ \A s \in PipeSides : pipeQueue[s].nodes = << >> /\ pipeQueue[s].woken = FALSE
  <2>1. EmptyWaitQueue \in PipeQueueState /\ EmptyWaitQueue.nodes = << >>
        /\ EmptyWaitQueue.woken = FALSE
    BY <1>1 DEF EmptyWaitQueue, PipeQueueState
  <2> QED BY <2>1 DEF PipeInit, PipeSides
<1>4. pipeTask \in [User -> PipeUserState] /\ \A t \in User : pipeTask[t].at = "idle"
  BY DEF PipeInit, PipeUserState, Outside
<1>5. PipeTypeOK BY <1>2, <1>3, <1>4 DEF PipeTypeOK
<1>6. \A t \in User : PipeUserOK(t) BY <1>1, <1>2, <1>3, <1>4, UserSides DEF PipeUserOK, PipeLocked
<1>7. ReaderTold /\ WriterTold BY <1>4 DEF ReaderTold, WriterTold, User, PipeWaits
<1> QED BY <1>5, <1>6, <1>7 DEF PipeInductive

\* With one reader and one writer, nobody whose count is not cut to the length 0
\* sleeps beside bytes or room, and nobody beside a closed other side, unless a
\* thread is on its way to wake it, although the lock is given up before the wait
\* begins; for every size of the buffer, every range of the length and all counts.
THEOREM PipeWakeupIsNotLost == PipePair => (PipeSpec => []PipeNoLostWakeup)
<1> SUFFICES ASSUME PipePair PROVE PipeSpec => []PipeNoLostWakeup OBVIOUS
<1>1. PipeInit => PipeInductive BY PipeInitOK
<1>2. PipeInductive /\ [PipeNext]_pipeVars => PipeInductive' BY PipeStepOK
<1>3. ASSUME PipeInductive PROVE PipeNoLostWakeup
  <2>1. \A t \in User : Suspended(pipeQueue[Own(t)], t) =>
                           pipeTask[t].at = "asleep" /\ ~pipeQueue[Own(t)].woken
    <3>1. \A t \in User : Suspended(pipeQueue[Own(t)], t) => pipeQueue[Own(t)].nodes # << >>
      BY DEF Suspended
    <3> QED BY <1>3, <3>1 DEF PipeInductive, PipeUserOK
  <2>2. /\ \A t \in PipeReader : Own(t) = "reader" /\ t \in User
        /\ \A t \in PipeWriter : Own(t) = "writer" /\ t \in User
    BY PipeConstants DEF Own, User
  <2> QED BY <1>3, <2>1, <2>2 DEF PipeInductive, ReaderTold, WriterTold, PipeNoLostWakeup, In, PipeWaits, PipeWakes
<1> QED BY <1>1, <1>2, <1>3, PTL DEF PipeSpec
-----------------------------------------------------------------------------
(* Ring buffers *)

RbState == [buf : [0..(RbSize - 1) -> RbByte], ri : 0..(RbSize - 1),
            wi : 0..(RbSize - 1), rm : BOOLEAN, wm : BOOLEAN]
RbOK(x) == x \in RbState /\ IF x.rm = x.wm THEN x.ri <= x.wi ELSE x.wi <= x.ri

\* Where the j-th byte behind r is, r included; j may go round once more.
RbPos(r, j) ==
    IF r + j - 1 < RbSize THEN r + j - 1
    ELSE IF r + j - 1 < 2 * RbSize THEN r + j - 1 - RbSize ELSE r + j - 1 - 2 * RbSize

\* The mirrors tell the length without a case for the full buffer.
LEMMA RbLenFacts ==
    ASSUME NEW x, RbOK(x)
    PROVE  /\ rt_ringbuffer_data_len(x) \in Nat /\ rt_ringbuffer_data_len(x) <= RbSize
           /\ rt_ringbuffer_data_len(x) =
                IF x.rm = x.wm THEN x.wi - x.ri ELSE x.wi + RbSize - x.ri
           /\ rt_ringbuffer_status(x) = "full" <=> rt_ringbuffer_data_len(x) = RbSize
<1>1. /\ x.ri \in 0..(RbSize - 1) /\ x.wi \in 0..(RbSize - 1) /\ RbSize \in Nat \ {0}
      /\ IF x.rm = x.wm THEN x.ri <= x.wi ELSE x.wi <= x.ri
  BY RbConstants DEF RbOK, RbState
<1>2. CASE x.ri # x.wi
  <2>1. rt_ringbuffer_status(x) = "halffull" BY <1>2 DEF rt_ringbuffer_status
  <2>2. rt_ringbuffer_data_len(x) = IF x.wi > x.ri THEN x.wi - x.ri ELSE RbSize - (x.ri - x.wi)
    BY <2>1 DEF rt_ringbuffer_data_len
  <2> QED BY <1>1, <1>2, <2>1, <2>2
<1>3. CASE x.ri = x.wi /\ x.rm = x.wm
  <2>1. rt_ringbuffer_status(x) = "empty" BY <1>3 DEF rt_ringbuffer_status
  <2>2. rt_ringbuffer_data_len(x) = 0 BY <2>1 DEF rt_ringbuffer_data_len
  <2> QED BY <1>1, <1>3, <2>1, <2>2
<1>4. CASE x.ri = x.wi /\ x.rm # x.wm
  <2>1. rt_ringbuffer_status(x) = "full" BY <1>4 DEF rt_ringbuffer_status
  <2>2. rt_ringbuffer_data_len(x) = RbSize BY <2>1 DEF rt_ringbuffer_data_len
  <2> QED BY <1>1, <1>4, <2>1, <2>2
<1> QED BY <1>2, <1>3, <1>4

\* What a get copies.
LEMMA CopyOutFacts ==
    ASSUME NEW x, RbOK(x), NEW n \in 0..RbSize
    PROVE  /\ CopyOut(x, n) \in Seq(RbByte) /\ Len(CopyOut(x, n)) = n
           /\ \A j \in 1..n : CopyOut(x, n)[j] = x.buf[RbPos(x.ri, j)]
           /\ \A j \in 1..RbSize : RbPos(x.ri, j) \in 0..(RbSize - 1)
<1>1. /\ x.ri \in 0..(RbSize - 1) /\ RbSize \in Nat \ {0}
      /\ x.buf \in [0..(RbSize - 1) -> RbByte]
  BY RbConstants DEF RbOK, RbState
<1>2. PICK r : r = x.ri OBVIOUS
<1>3. \A j \in 1..RbSize : RbPos(r, j) \in 0..(RbSize - 1) BY <1>1, <1>2 DEF RbPos
<1>4. CopyOut(x, n) = [j \in 1..n |-> x.buf[RbPos(r, j)]]
  <2>1. ASSUME NEW j \in 1..n
        PROVE  /\ j <= RbSize - r => RbPos(r, j) = r + j - 1
               /\ ~(j <= RbSize - r) => RbPos(r, j) = j - 1 - (RbSize - r)
    BY <1>1, <1>2 DEF RbPos
  <2>2. \A j \in 1..n : x.buf[RbPos(r, j)] =
            IF j <= RbSize - r THEN x.buf[r + j - 1] ELSE x.buf[j - 1 - (RbSize - r)]
    BY <2>1
  <2> QED BY <1>2, <2>2 DEF CopyOut
<1>5. \A j \in 1..n : x.buf[RbPos(r, j)] \in RbByte BY <1>1, <1>3
<1>6. [j \in 1..n |-> x.buf[RbPos(r, j)]] \in Seq(RbByte)
  BY <1>5, n \in Nat
<1>7. Len([j \in 1..n |-> x.buf[RbPos(r, j)]]) = n BY n \in Nat
<1> QED BY <1>2, <1>3, <1>4, <1>6, <1>7

\* The bytes and the index after a put of a piece no longer than the buffer.
LEMMA StoreFacts ==
    ASSUME NEW x, RbOK(x), NEW p \in Seq(RbByte), Len(p) <= RbSize
    PROVE  LET y == Store(x, p)
           IN /\ y \in RbState /\ y.ri = x.ri /\ y.rm = x.rm
              /\ RbSize - x.wi > Len(p) => y.wi = x.wi + Len(p) /\ y.wm = x.wm
              /\ ~(RbSize - x.wi > Len(p)) =>
                     y.wi = Len(p) - (RbSize - x.wi) /\ y.wm = ~x.wm
              /\ \A i \in 0..(RbSize - 1) : y.buf[i] =
                    IF i >= x.wi /\ i - x.wi < Len(p) THEN p[i - x.wi + 1]
                    ELSE IF i < Len(p) - (RbSize - x.wi) THEN p[RbSize - x.wi + i + 1]
                    ELSE x.buf[i]
<1> DEFINE b == CopyIn(x, p)
           z == [x EXCEPT !.buf = b]
           y == Store(x, p)
<1>1. /\ x \in RbState /\ x.wi \in 0..(RbSize - 1) /\ RbSize \in Nat \ {0}
      /\ x.buf \in [0..(RbSize - 1) -> RbByte] /\ x.wm \in BOOLEAN
  BY RbConstants DEF RbOK, RbState
<1>2. Len(p) \in Nat /\ \A i \in 1..Len(p) : p[i] \in RbByte OBVIOUS
<1>3. \A i \in 0..(RbSize - 1) : b[i] =
         IF i >= x.wi /\ i - x.wi < Len(p) THEN p[i - x.wi + 1]
         ELSE IF i < Len(p) - (RbSize - x.wi) THEN p[RbSize - x.wi + i + 1]
         ELSE x.buf[i]
  BY DEF CopyIn
<1>4. b \in [0..(RbSize - 1) -> RbByte]
  <2>1. ASSUME NEW i \in 0..(RbSize - 1)
        PROVE  (IF i >= x.wi /\ i - x.wi < Len(p) THEN p[i - x.wi + 1]
                ELSE IF i < Len(p) - (RbSize - x.wi) THEN p[RbSize - x.wi + i + 1]
                ELSE x.buf[i]) \in RbByte
    <3>1. CASE i >= x.wi /\ i - x.wi < Len(p)
      <4>1. i - x.wi + 1 \in 1..Len(p) BY <1>1, <1>2, <3>1
      <4> QED BY <1>2, <3>1, <4>1
    <3>2. CASE ~(i >= x.wi /\ i - x.wi < Len(p)) /\ i < Len(p) - (RbSize - x.wi)
      <4>1. RbSize - x.wi + i + 1 \in 1..Len(p) BY <1>1, <1>2, <3>2
      <4> QED BY <1>2, <3>2, <4>1
    <3>3. CASE ~(i >= x.wi /\ i - x.wi < Len(p)) /\ ~(i < Len(p) - (RbSize - x.wi))
      BY <1>1, <3>3
    <3> QED BY <3>1, <3>2, <3>3
  <2> QED BY <2>1 DEF CopyIn
<1>5. y = MoveWrite(z, Len(p)) BY DEF Store
<1> HIDE DEF b, y
<1>6. /\ z \in RbState /\ z.buf = b /\ z.ri = x.ri /\ z.wi = x.wi /\ z.rm = x.rm
      /\ z.wm = x.wm
  BY <1>1, <1>4 DEF RbState
<1> HIDE DEF z
<1>7. CASE RbSize - x.wi > Len(p)
  <2>1. y = [z EXCEPT !.wi = x.wi + Len(p)] BY <1>5, <1>6, <1>7 DEF MoveWrite
  <2>2. x.wi + Len(p) \in 0..(RbSize - 1) BY <1>1, <1>2, <1>7
  <2>3. /\ y \in RbState /\ y.ri = x.ri /\ y.rm = x.rm /\ y.buf = b
        /\ y.wi = x.wi + Len(p) /\ y.wm = x.wm
    BY <1>6, <2>1, <2>2 DEF RbState
  <2> QED BY <1>3, <1>7, <2>3 DEF y
<1>8. CASE ~(RbSize - x.wi > Len(p))
  <2>1. y = [z EXCEPT !.wi = Len(p) - (RbSize - x.wi), !.wm = ~x.wm]
    BY <1>5, <1>6, <1>8 DEF MoveWrite
  <2>2. Len(p) - (RbSize - x.wi) \in 0..(RbSize - 1) BY <1>1, <1>2, <1>8
  <2>3. /\ y \in RbState /\ y.ri = x.ri /\ y.rm = x.rm /\ y.buf = b
        /\ y.wi = Len(p) - (RbSize - x.wi) /\ y.wm = ~x.wm
    BY <1>1, <1>6, <2>1, <2>2 DEF RbState
  <2> QED BY <1>3, <1>8, <2>3 DEF y
<1> QED BY <1>7, <1>8

\* A put leaves what it does not overwrite, and comes behind it.
LEMMA StoreKeeps ==
    ASSUME NEW x, RbOK(x), NEW p \in Seq(RbByte), Len(p) <= RbSize,
           NEW j \in Nat \ {0},
           j <= rt_ringbuffer_data_len(x) + Len(p),
           j > rt_ringbuffer_data_len(x) + Len(p) - RbSize
    PROVE  /\ RbPos(x.ri, j) \in 0..(RbSize - 1)
           /\ Store(x, p).buf[RbPos(x.ri, j)] =
                 IF j <= rt_ringbuffer_data_len(x) THEN x.buf[RbPos(x.ri, j)]
                 ELSE p[j - rt_ringbuffer_data_len(x)]
<1>1. PICK r : r = x.ri OBVIOUS
<1>2. PICK w : w = x.wi OBVIOUS
<1>3. PICK n : n = Len(p) OBVIOUS
<1>4. PICK len : len = rt_ringbuffer_data_len(x) OBVIOUS
<1>5. PICK i : i = RbPos(r, j) OBVIOUS
<1>6. PICK S : S = RbSize OBVIOUS
<1>7. r \in 0..(S - 1) /\ w \in 0..(S - 1) /\ S \in Nat \ {0}
  BY RbConstants, <1>1, <1>2, <1>6 DEF RbOK, RbState
<1>8. len \in Nat /\ len <= S /\ (r + len = w \/ r + len = w + S)
  BY SMTT(30), RbLenFacts, <1>1, <1>2, <1>4, <1>6, <1>7
<1>9. n \in Nat /\ n <= S /\ j <= len + n /\ j > len + n - S
  BY <1>3, <1>4, <1>6
<1>10. \/ i = r + j - 1 /\ r + j - 1 < S
       \/ i = r + j - 1 - S /\ ~(r + j - 1 < S) /\ r + j - 1 < 2 * S
       \/ i = r + j - 1 - 2 * S /\ ~(r + j - 1 < 2 * S)
  BY <1>5, <1>6, <1>7 DEF RbPos
<1>11. i \in 0..(S - 1) BY <1>7, <1>8, <1>9, <1>10
<1>12. Store(x, p).buf[i] = IF i >= w /\ i - w < n THEN p[i - w + 1]
                            ELSE IF i < n - (S - w) THEN p[S - w + i + 1]
                            ELSE x.buf[i]
  BY StoreFacts, <1>2, <1>3, <1>6, <1>9, <1>11
<1>13. CASE j <= len
  <2>1. ~(i >= w /\ i - w < n) BY <1>7, <1>8, <1>9, <1>10, <1>13
  <2>2. ~(i < n - (S - w)) BY <1>7, <1>8, <1>9, <1>10, <1>13
  <2> QED BY <1>1, <1>4, <1>5, <1>6, <1>11, <1>12, <1>13, <2>1, <2>2
<1>14. CASE ~(j <= len)
  <2>1. \/ i >= w /\ i - w < n /\ i - w + 1 = j - len
        \/ ~(i >= w) /\ i < n - (S - w) /\ S - w + i + 1 = j - len
    BY <1>7, <1>8, <1>9, <1>10, <1>11, <1>14
  <2> QED BY <1>1, <1>4, <1>5, <1>6, <1>11, <1>12, <1>14, <2>1
<1> QED BY <1>13, <1>14

RbContent(x) == CopyOut(x, rt_ringbuffer_data_len(x))

\* A queue of bytes is known by its length and its bytes.
LEMMA ContentIs ==
    ASSUME NEW x, RbOK(x), NEW s \in Seq(RbByte), Len(s) = rt_ringbuffer_data_len(x),
           \A j \in 1..Len(s) : s[j] = x.buf[RbPos(x.ri, j)]
    PROVE  RbContent(x) = s
<1>1. rt_ringbuffer_data_len(x) \in 0..RbSize BY RbLenFacts, RbConstants
<1>2. /\ RbContent(x) \in Seq(RbByte) /\ Len(RbContent(x)) = Len(s)
      /\ \A j \in 1..Len(s) : RbContent(x)[j] = x.buf[RbPos(x.ri, j)]
  BY <1>1, CopyOutFacts DEF RbContent
<1>3. \A j \in 1..Len(RbContent(x)) : RbContent(x)[j] = s[j] BY <1>2
<1> HIDE DEF RbContent
<1> QED BY <1>2, <1>3, SeqEqual

LEMMA ContentFacts ==
    ASSUME NEW x, RbOK(x)
    PROVE  /\ RbContent(x) \in Seq(RbByte)
           /\ Len(RbContent(x)) = rt_ringbuffer_data_len(x)
           /\ \A j \in 1..rt_ringbuffer_data_len(x) : RbContent(x)[j] = x.buf[RbPos(x.ri, j)]
<1>1. rt_ringbuffer_data_len(x) \in 0..RbSize BY RbLenFacts, RbConstants
<1> QED BY <1>1, CopyOutFacts DEF RbContent

\* A piece that fits comes behind what was there.
LEMMA StoreFits ==
    ASSUME NEW x, RbOK(x), NEW p \in Seq(RbByte),
           Len(p) <= RbSize - rt_ringbuffer_data_len(x)
    PROVE  /\ RbOK(Store(x, p))
           /\ RbContent(Store(x, p)) = RbContent(x) \o p
<1>1. PICK y : y = Store(x, p) OBVIOUS
<1>2. PICK n : n = Len(p) OBVIOUS
<1>3. PICK len : len = rt_ringbuffer_data_len(x) OBVIOUS
<1>4. /\ x.ri \in 0..(RbSize - 1) /\ x.wi \in 0..(RbSize - 1) /\ RbSize \in Nat \ {0}
      /\ x.rm \in BOOLEAN /\ x.wm \in BOOLEAN
      /\ IF x.rm = x.wm THEN x.ri <= x.wi ELSE x.wi <= x.ri
  BY RbConstants DEF RbOK, RbState
<1>5. /\ len \in Nat /\ len <= RbSize
      /\ len = IF x.rm = x.wm THEN x.wi - x.ri ELSE x.wi + RbSize - x.ri
  BY <1>3, RbLenFacts
<1>6. n \in Nat /\ n <= RbSize - len /\ n <= RbSize BY <1>2, <1>3, <1>4, <1>5
<1>7. /\ y \in RbState /\ y.ri = x.ri /\ y.rm = x.rm
      /\ RbSize - x.wi > n => y.wi = x.wi + n /\ y.wm = x.wm
      /\ ~(RbSize - x.wi > n) => y.wi = n - (RbSize - x.wi) /\ y.wm = ~x.wm
  BY <1>1, <1>2, <1>6, StoreFacts
<1>8. RbOK(y) /\ rt_ringbuffer_data_len(y) = len + n
  <2>1. CASE RbSize - x.wi > n
    <3>1. RbOK(y) BY SMTT(30), <1>4, <1>5, <1>6, <1>7, <2>1 DEF RbOK
    <3>2. rt_ringbuffer_data_len(y) = IF y.rm = y.wm THEN y.wi - y.ri ELSE y.wi + RbSize - y.ri
      BY <3>1, RbLenFacts
    <3> QED BY SMTT(30), <1>4, <1>5, <1>6, <1>7, <2>1, <3>1, <3>2
  <2>2. CASE ~(RbSize - x.wi > n)
    <3>1. x.rm = x.wm BY SMTT(30), <1>4, <1>5, <1>6, <2>2
    <3>2. y.rm # y.wm BY <1>4, <1>7, <2>2, <3>1
    <3>3. y.wi <= y.ri BY <1>4, <1>5, <1>6, <1>7, <2>2, <3>1
    <3>4. RbOK(y) BY <1>7, <3>2, <3>3 DEF RbOK
    <3>5. rt_ringbuffer_data_len(y) = IF y.rm = y.wm THEN y.wi - y.ri ELSE y.wi + RbSize - y.ri
      BY <3>4, RbLenFacts
    <3> QED BY SMTT(30), <1>4, <1>5, <1>6, <1>7, <2>2, <3>1, <3>2, <3>4, <3>5
  <2> QED BY <2>1, <2>2
<1>9. PICK s : s = RbContent(x) OBVIOUS
<1>10. /\ s \in Seq(RbByte) /\ Len(s) = len
       /\ \A j \in 1..len : s[j] = x.buf[RbPos(x.ri, j)]
  BY <1>3, <1>9, ContentFacts
<1>11. /\ s \o p \in Seq(RbByte) /\ Len(s \o p) = len + n
       /\ \A j \in 1..(len + n) : (s \o p)[j] = IF j <= len THEN s[j] ELSE p[j - len]
  BY <1>2, <1>10, ConcatProperties
<1>12. ASSUME NEW j \in 1..(len + n)
       PROVE  (s \o p)[j] = y.buf[RbPos(y.ri, j)]
  <2>0. len \in Nat /\ n \in Nat /\ RbSize \in Nat /\ len + n <= RbSize BY <1>4, <1>5, <1>6
  <2>1. j \in Nat \ {0} /\ j <= len + n /\ j > len + n - RbSize BY <2>0
  <2>2. y.buf[RbPos(x.ri, j)] = IF j <= len THEN x.buf[RbPos(x.ri, j)] ELSE p[j - len]
    BY <1>1, <1>2, <1>3, <1>6, <2>1, StoreKeeps
  <2>3. j <= len => j \in 1..len BY <1>5, <2>1
  <2> QED BY <1>7, <1>10, <1>11, <2>2, <2>3
<1>13. RbContent(y) = s \o p BY <1>8, <1>11, <1>12, ContentIs
<1> QED BY <1>1, <1>8, <1>9, <1>13

\* A piece that does not fit: the read index has followed the write index, and
\* the buffer holds the last bytes.
LEMMA StoreOverwrites ==
    ASSUME NEW x, RbOK(x), NEW p \in Seq(RbByte), Len(p) <= RbSize,
           Len(p) > RbSize - rt_ringbuffer_data_len(x),
           NEW z \in RbState, z.buf = Store(x, p).buf, z.wi = Store(x, p).wi,
           z.ri = z.wi, z.rm # z.wm
    PROVE  /\ RbOK(z)
           /\ RbContent(z) = SubSeq(RbContent(x) \o p,
                                    rt_ringbuffer_data_len(x) + Len(p) - RbSize + 1,
                                    rt_ringbuffer_data_len(x) + Len(p))
<1>2. PICK n : n = Len(p) OBVIOUS
<1>3. PICK len : len = rt_ringbuffer_data_len(x) OBVIOUS
<1>4. /\ x.ri \in 0..(RbSize - 1) /\ x.wi \in 0..(RbSize - 1) /\ RbSize \in Nat \ {0}
      /\ z.wi \in 0..(RbSize - 1)
  BY RbConstants DEF RbOK, RbState
<1>5. /\ len \in Nat /\ len <= RbSize
      /\ x.ri + len = x.wi \/ x.ri + len = x.wi + RbSize
  BY SMTT(30), <1>3, <1>4, RbLenFacts
<1>6. n \in Nat /\ n <= RbSize /\ n > RbSize - len BY <1>2, <1>3
<1>7. z.wi = x.wi + n \/ z.wi = x.wi + n - RbSize
  <2>1. /\ RbSize - x.wi > n => z.wi = x.wi + n
        /\ ~(RbSize - x.wi > n) => z.wi = n - (RbSize - x.wi)
    BY <1>2, <1>6, StoreFacts
  <2> QED BY <1>4, <1>6, <2>1
<1>8. RbOK(z) BY <1>4 DEF RbOK
<1>9. rt_ringbuffer_data_len(z) = RbSize BY <1>4, <1>8, RbLenFacts
<1>10. PICK s : s = RbContent(x) OBVIOUS
<1>11. /\ s \in Seq(RbByte) /\ Len(s) = len
       /\ \A j \in 1..len : s[j] = x.buf[RbPos(x.ri, j)]
  BY <1>3, <1>10, ContentFacts
<1>12. PICK q : q = s \o p OBVIOUS
<1>13. /\ q \in Seq(RbByte) /\ Len(q) = len + n
       /\ \A j \in 1..(len + n) : q[j] = IF j <= len THEN s[j] ELSE p[j - len]
  BY <1>2, <1>11, <1>12, ConcatProperties
<1>14. PICK d : d = len + n - RbSize OBVIOUS
<1>15. d \in Nat /\ d + RbSize = len + n BY <1>4, <1>5, <1>6, <1>14
<1>16. PICK t : t = SubSeq(q, d + 1, len + n) OBVIOUS
<1>17. /\ t \in Seq(RbByte) /\ Len(t) = RbSize
       /\ \A j \in 1..RbSize : t[j] = q[d + j]
  <2>1. \A i \in (d + 1)..(len + n) : q[i] \in RbByte BY <1>5, <1>6, <1>13, <1>15
  <2>2. /\ t \in Seq(RbByte)
        /\ Len(t) = IF d + 1 <= len + n THEN len + n - (d + 1) + 1 ELSE 0
        /\ \A j \in 1..(len + n - (d + 1) + 1) : t[j] = q[(d + 1) + j - 1]
    BY SMTT(30), <1>5, <1>6, <1>15, <1>16, <2>1, SubSeqProperties
  <2>0. /\ len \in Nat /\ n \in Nat /\ RbSize \in Nat \ {0} /\ d \in Nat
        /\ d + RbSize = len + n
    BY <1>4, <1>5, <1>6, <1>15
  <2>3. d + 1 <= len + n /\ len + n - (d + 1) + 1 = RbSize BY SMTT(30), <2>0
  <2>4. \A j \in 1..RbSize : (d + 1) + j - 1 = d + j BY <1>15
  <2> QED BY <2>2, <2>3, <2>4
<1>18. ASSUME NEW j \in 1..RbSize
       PROVE  t[j] = z.buf[RbPos(z.ri, j)]
  <2>1. /\ d + j \in Nat \ {0} /\ d + j <= len + n /\ d + j > len + n - RbSize
        /\ d + j \in 1..(len + n) /\ (d + j <= len => d + j \in 1..len)
    BY <1>4, <1>5, <1>6, <1>15
  <2>2. z.buf[RbPos(x.ri, d + j)] = IF d + j <= len THEN x.buf[RbPos(x.ri, d + j)]
                                    ELSE p[(d + j) - len]
    BY <1>2, <1>3, <1>6, <2>1, StoreKeeps
  <2>3. RbPos(z.wi, j) = RbPos(x.ri, d + j)
    <3>1. PICK r : r = x.ri OBVIOUS
    <3>2. PICK w : w = x.wi OBVIOUS
    <3>3. PICK v : v = z.wi OBVIOUS
    <3>4. r \in Nat /\ w \in Nat /\ v \in Nat /\ r < RbSize /\ w < RbSize /\ v < RbSize
      BY <1>4, <3>1, <3>2, <3>3
    <3>5. v + RbSize = r + d + RbSize \/ v + RbSize = r + d \/ v + RbSize = r + d + 2 * RbSize
      <4>1. RbSize \in Nat /\ len \in Nat /\ n \in Nat /\ d \in Nat /\ d + RbSize = len + n
        BY <1>4, <1>5, <1>6, <1>15
      <4>2. r + len = w \/ r + len = w + RbSize BY <1>5, <3>1, <3>2
      <4>3. v = w + n \/ v = w + n - RbSize BY <1>7, <3>2, <3>3
      <4> QED BY <3>4, <4>1, <4>2, <4>3
    <3>6. RbSize \in Nat \ {0} /\ j \in 1..RbSize /\ d \in Nat BY <1>4, <1>15
    <3>7. RbPos(v, j) = RbPos(r, d + j) BY <3>4, <3>5, <3>6 DEF RbPos
    <3> QED BY <3>1, <3>3, <3>7
  <2> QED BY <1>11, <1>13, <1>17, <2>1, <2>2, <2>3
<1>19. RbContent(z) = t BY <1>8, <1>9, <1>17, <1>18, ContentIs
<1>20. t = SubSeq(q, len + n - RbSize + 1, len + n) BY <1>14, <1>16
<1> QED BY <1>2, <1>3, <1>8, <1>10, <1>12, <1>19, <1>20

\* A get takes the oldest bytes.
LEMMA ReadTakes ==
    ASSUME NEW x, RbOK(x), NEW m \in Nat, m <= rt_ringbuffer_data_len(x)
    PROVE  /\ RbOK(MoveRead(x, m))
           /\ CopyOut(x, m) = SubSeq(RbContent(x), 1, m)
           /\ Len(CopyOut(x, m)) = m
           /\ RbContent(MoveRead(x, m)) =
                 SubSeq(RbContent(x), m + 1, rt_ringbuffer_data_len(x))
<1>1. PICK y : y = MoveRead(x, m) OBVIOUS
<1>2. PICK len : len = rt_ringbuffer_data_len(x) OBVIOUS
<1>3. /\ x.ri \in 0..(RbSize - 1) /\ x.wi \in 0..(RbSize - 1) /\ RbSize \in Nat \ {0}
      /\ x.rm \in BOOLEAN /\ x.wm \in BOOLEAN /\ x \in RbState
      /\ IF x.rm = x.wm THEN x.ri <= x.wi ELSE x.wi <= x.ri
  BY RbConstants DEF RbOK, RbState
<1>4. /\ len \in Nat /\ len <= RbSize
      /\ len = IF x.rm = x.wm THEN x.wi - x.ri ELSE x.wi + RbSize - x.ri
  BY <1>2, RbLenFacts
<1>5. m <= len BY <1>2
<1>6. /\ RbOK(y) /\ y.buf = x.buf /\ rt_ringbuffer_data_len(y) = len - m
      /\ y.ri = x.ri + m \/ y.ri = x.ri + m - RbSize
      /\ y.ri \in 0..(RbSize - 1)
  <2>1. CASE RbSize - x.ri > m
    <3>1. y = [x EXCEPT !.ri = x.ri + m] BY <1>1, <2>1 DEF MoveRead
    <3>2. x.ri + m \in 0..(RbSize - 1) BY <1>3, <2>1
    <3>3. /\ y \in RbState /\ y.buf = x.buf /\ y.rm = x.rm /\ y.wm = x.wm
          /\ y.wi = x.wi /\ y.ri = x.ri + m
      BY <1>3, <3>1, <3>2 DEF RbState
    <3>4. RbOK(y) BY <1>3, <1>4, <1>5, <2>1, <3>3 DEF RbOK
    <3>5. rt_ringbuffer_data_len(y) = IF y.rm = y.wm THEN y.wi - y.ri ELSE y.wi + RbSize - y.ri
      BY <3>4, RbLenFacts
    <3> QED BY <1>3, <1>4, <1>5, <3>2, <3>3, <3>4, <3>5
  <2>2. CASE ~(RbSize - x.ri > m)
    <3>1. y = [x EXCEPT !.ri = m - (RbSize - x.ri), !.rm = ~x.rm]
      BY <1>1, <2>2 DEF MoveRead
    <3>2. m - (RbSize - x.ri) \in 0..(RbSize - 1) BY <1>3, <1>4, <1>5, <2>2
    <3>3. /\ y \in RbState /\ y.buf = x.buf /\ y.rm = ~x.rm /\ y.wm = x.wm
          /\ y.wi = x.wi /\ y.ri = m - (RbSize - x.ri)
      BY <1>3, <3>1, <3>2 DEF RbState
    <3>4. x.rm # x.wm BY <1>3, <1>4, <1>5, <2>2
    <3>5. y.rm = y.wm BY <1>3, <3>3, <3>4
    <3>6. RbOK(y) BY <1>3, <1>4, <1>5, <2>2, <3>3, <3>4, <3>5 DEF RbOK
    <3>7. rt_ringbuffer_data_len(y) = IF y.rm = y.wm THEN y.wi - y.ri ELSE y.wi + RbSize - y.ri
      BY <3>6, RbLenFacts
    <3> QED BY <1>3, <1>4, <1>5, <3>2, <3>3, <3>4, <3>5, <3>6, <3>7
  <2> QED BY <2>1, <2>2
<1>7. PICK s : s = RbContent(x) OBVIOUS
<1>8. /\ s \in Seq(RbByte) /\ Len(s) = len
      /\ \A j \in 1..len : s[j] = x.buf[RbPos(x.ri, j)]
  BY <1>2, <1>7, ContentFacts
<1>9. PICK t : t = SubSeq(s, m + 1, len) OBVIOUS
<1>10. /\ t \in Seq(RbByte) /\ Len(t) = len - m
       /\ \A j \in 1..(len - m) : t[j] = s[m + j]
  <2>1. \A i \in (m + 1)..len : s[i] \in RbByte BY <1>4, <1>8
  <2>2. /\ t \in Seq(RbByte)
        /\ Len(t) = IF m + 1 <= len THEN len - (m + 1) + 1 ELSE 0
        /\ \A j \in 1..(len - (m + 1) + 1) : t[j] = s[(m + 1) + j - 1]
    BY <1>4, <1>9, <2>1, SubSeqProperties
  <2>3. \A j \in 1..(len - m) : (m + 1) + j - 1 = m + j OBVIOUS
  <2>4. len - (m + 1) + 1 = len - m BY <1>4
  <2>5. Len(t) = len - m BY <1>4, <1>5, <2>2
  <2> QED BY <2>2, <2>3, <2>4, <2>5
<1>11. ASSUME NEW j \in 1..(len - m)
       PROVE  t[j] = y.buf[RbPos(y.ri, j)]
  <2>1. m + j \in 1..len BY <1>4, <1>5
  <2>2. RbPos(y.ri, j) = RbPos(x.ri, m + j)
    BY <1>3, <1>4, <1>5, <1>6 DEF RbPos
  <2> QED BY <1>6, <1>8, <1>10, <2>1, <2>2
<1>12. RbContent(y) = t BY <1>6, <1>10, <1>11, ContentIs
<1>13. PICK u : u = SubSeq(s, 1, m) OBVIOUS
<1>14. u \in Seq(RbByte) /\ Len(u) = m /\ \A j \in 1..m : u[j] = s[j]
  <2>1. \A i \in 1..m : s[i] \in RbByte BY <1>4, <1>5, <1>8
  <2>2. /\ u \in Seq(RbByte) /\ Len(u) = IF 1 <= m THEN m - 1 + 1 ELSE 0
        /\ \A j \in 1..(m - 1 + 1) : u[j] = s[1 + j - 1]
    BY <1>13, <2>1, SubSeqProperties
  <2>3. \A j \in 1..m : 1 + j - 1 = j OBVIOUS
  <2>4. m - 1 + 1 = m /\ (~(1 <= m) => m = 0) OBVIOUS
  <2> QED BY <2>2, <2>3, <2>4
<1>15. PICK v : v = CopyOut(x, m) OBVIOUS
<1>16. m \in 0..RbSize BY <1>3, <1>4, <1>5
<1>17. v \in Seq(RbByte) /\ Len(v) = m /\ \A j \in 1..m : v[j] = x.buf[RbPos(x.ri, j)]
  BY <1>15, <1>16, CopyOutFacts
<1>18. \A j \in 1..Len(v) : v[j] = u[j]
  <2>1. \A j \in 1..m : j \in 1..len BY <1>4, <1>5
  <2> QED BY <1>8, <1>14, <1>17, <2>1
<1>19. v = u BY <1>14, <1>17, <1>18, SeqEqual
<1> QED BY <1>1, <1>2, <1>6, <1>7, <1>9, <1>12, <1>13, <1>15, <1>17, <1>19

\* A piece is a sequence of at least one byte.
LEMMA PieceFacts ==
    ASSUME NEW p \in RbPiece
    PROVE  p \in Seq(RbByte) /\ Len(p) \in Nat \ {0} /\ Len(p) <= RbLongest
<1>1. PICK n \in 1..RbLongest : p \in [1..n -> RbByte] BY DEF RbPiece
<1>2. n \in Nat \ {0} /\ n <= RbLongest BY RbConstants
<1>3. p \in Seq(RbByte) /\ Len(p) = n BY <1>1, <1>2
<1> QED BY <1>2, <1>3

\* The first and the last bytes of a piece or a content.
LEMMA FrontBack ==
    ASSUME NEW s \in Seq(RbByte), NEW n \in Nat
    PROVE  /\ RbPromise!Front(s, n) = IF n < Len(s) THEN SubSeq(s, 1, n) ELSE s
           /\ RbPromise!Back(s, n) =
                 IF n < Len(s) THEN SubSeq(s, Len(s) - n + 1, Len(s)) ELSE s
           /\ n < Len(s) => RbPromise!Front(s, n) \in Seq(RbByte)
                            /\ Len(RbPromise!Front(s, n)) = n
           /\ n < Len(s) => RbPromise!Back(s, n) \in Seq(RbByte)
                            /\ Len(RbPromise!Back(s, n)) = n
<1>1. Len(s) \in Nat /\ \A i \in 1..Len(s) : s[i] \in RbByte OBVIOUS
<1>2. CASE n < Len(s)
  <2>1. RbPromise!Least(n, Len(s)) = n BY <1>2 DEF RbPromise!Least
  <2>2. /\ RbPromise!Front(s, n) = SubSeq(s, 1, n)
        /\ RbPromise!Back(s, n) = SubSeq(s, Len(s) - n + 1, Len(s))
    BY <2>1 DEF RbPromise!Front, RbPromise!Back
  <2>3. SubSeq(s, 1, n) \in Seq(RbByte) /\ Len(SubSeq(s, 1, n)) = n
    <3>1. \A i \in 1..n : s[i] \in RbByte BY <1>1, <1>2
    <3>2. /\ SubSeq(s, 1, n) \in Seq(RbByte)
          /\ Len(SubSeq(s, 1, n)) = IF 1 <= n THEN n - 1 + 1 ELSE 0
      BY <3>1, SubSeqProperties
    <3> QED BY <3>2
  <2>4. PICK k : k = Len(s) OBVIOUS
  <2>5. SubSeq(s, k - n + 1, k) \in Seq(RbByte) /\ Len(SubSeq(s, k - n + 1, k)) = n
    <3>0. k \in Nat /\ k - n + 1 \in Int /\ n < k BY <1>1, <1>2, <2>4
    <3>1. \A i \in (k - n + 1)..k : s[i] \in RbByte BY <1>1, <1>2, <2>4
    <3>2. /\ SubSeq(s, k - n + 1, k) \in Seq(RbByte)
          /\ Len(SubSeq(s, k - n + 1, k)) =
                IF k - n + 1 <= k THEN k - (k - n + 1) + 1 ELSE 0
      BY <3>0, <3>1, SubSeqProperties
    <3>3. (IF k - n + 1 <= k THEN k - (k - n + 1) + 1 ELSE 0) = n BY <3>0
    <3> QED BY <3>2, <3>3
  <2> QED BY <1>2, <2>2, <2>3, <2>4, <2>5
<1>3. CASE ~(n < Len(s))
  <2>1. RbPromise!Least(n, Len(s)) = Len(s) BY <1>3 DEF RbPromise!Least
  <2>2. Len(s) - Len(s) + 1 = 1 BY <1>1
  <2>3. SubSeq(s, 1, Len(s)) = s BY SubSeqFull
  <2> QED BY <1>3, <2>1, <2>2, <2>3 DEF RbPromise!Front, RbPromise!Back
<1> QED BY <1>2, <1>3

\* The last bytes, one by one.
LEMMA BackFacts ==
    ASSUME NEW s \in Seq(RbByte), NEW n \in Nat, n <= Len(s)
    PROVE  /\ RbPromise!Back(s, n) \in Seq(RbByte) /\ Len(RbPromise!Back(s, n)) = n
           /\ \A i \in 1..n : RbPromise!Back(s, n)[i] = s[Len(s) - n + i]
<1>0. PICK k : k = Len(s) OBVIOUS
<1>1. k \in Nat /\ n <= k /\ \A i \in 1..k : s[i] \in RbByte BY <1>0
<1>2. RbPromise!Least(n, k) = n BY <1>1 DEF RbPromise!Least
<1>3. PICK b : b = SubSeq(s, k - n + 1, k) OBVIOUS
<1>4. RbPromise!Back(s, n) = b BY <1>0, <1>2, <1>3 DEF RbPromise!Back
<1>5. PICK m : m = k - n + 1 OBVIOUS
<1>6. m \in Int /\ \A i \in m..k : s[i] \in RbByte BY <1>1, <1>5
<1>7. /\ b \in Seq(RbByte) /\ Len(b) = IF m <= k THEN k - m + 1 ELSE 0
      /\ \A i \in 1..(k - m + 1) : b[i] = s[m + i - 1]
  BY <1>1, <1>3, <1>5, <1>6, SubSeqProperties
<1>8. k - m + 1 = n /\ (~(m <= k) => n = 0) BY <1>1, <1>5
<1>9. \A i \in 1..n : m + i - 1 = k - n + i BY <1>1, <1>5
<1>10. Len(b) = n /\ \A i \in 1..n : b[i] = s[k - n + i] BY <1>7, <1>8, <1>9
<1> QED BY <1>0, <1>4, <1>7, <1>10

\* What is in front of a long enough piece does not count.
LEMMA BackOfConcat ==
    ASSUME NEW s \in Seq(RbByte), NEW p \in Seq(RbByte), NEW n \in Nat, n <= Len(p)
    PROVE  RbPromise!Back(s \o p, n) = RbPromise!Back(p, n)
<1>1. PICK k : k = Len(p) OBVIOUS
<1>2. PICK len : len = Len(s) OBVIOUS
<1>3. PICK q : q = s \o p OBVIOUS
<1>4. k \in Nat /\ len \in Nat /\ n <= k BY <1>1, <1>2
<1>5. /\ q \in Seq(RbByte) /\ Len(q) = len + k
      /\ \A i \in 1..(len + k) : q[i] = IF i <= len THEN s[i] ELSE p[i - len]
  BY <1>1, <1>2, <1>3, ConcatProperties
<1>6. PICK a : a = RbPromise!Back(q, n) OBVIOUS
<1>7. PICK b : b = RbPromise!Back(p, n) OBVIOUS
<1>8. b \in Seq(RbByte) /\ Len(b) = n /\ \A i \in 1..n : b[i] = p[k - n + i]
  <2>1. n <= Len(p) BY <1>1, <1>4
  <2>2. /\ RbPromise!Back(p, n) \in Seq(RbByte) /\ Len(RbPromise!Back(p, n)) = n
        /\ \A i \in 1..n : RbPromise!Back(p, n)[i] = p[Len(p) - n + i]
    BY <2>1, BackFacts
  <2> QED BY <1>1, <1>7, <2>2
<1>9. PICK t : t = len + k OBVIOUS
<1>10. t = Len(q) /\ n <= t BY <1>4, <1>5, <1>9
<1>11. a \in Seq(RbByte) /\ Len(a) = n /\ \A i \in 1..n : a[i] = q[t - n + i]
  <2>2. /\ RbPromise!Back(q, n) \in Seq(RbByte) /\ Len(RbPromise!Back(q, n)) = n
        /\ \A i \in 1..n : RbPromise!Back(q, n)[i] = q[Len(q) - n + i]
    BY <1>5, <1>10, BackFacts
  <2> QED BY <1>6, <1>10, <2>2
<1>12. ASSUME NEW i \in 1..n PROVE a[i] = b[i]
  <2>1. PICK j : j = t - n + i OBVIOUS
  <2>2. j \in 1..(len + k) /\ ~(j <= len) /\ j - len = k - n + i BY <1>4, <1>9, <2>1
  <2>3. q[j] = p[k - n + i] BY <1>5, <2>2
  <2> QED BY <1>8, <1>11, <2>1, <2>3
<1>13. a = b BY <1>8, <1>11, <1>12, SeqEqual
<1> QED BY <1>3, <1>6, <1>7, <1>13

\* rt_ringbuffer_put keeps what fits.
LEMMA PutKeeps ==
    ASSUME RbOK(rb), NEW p \in RbPiece, RbPut(p)
    PROVE  RbOK(rb') /\ RbPromise!Keep(p)
<1>1. PICK space : space = RbSize - rt_ringbuffer_data_len(rb) OBVIOUS
<1>2. PICK fits : fits = IF space < Len(p) THEN SubSeq(p, 1, space) ELSE p OBVIOUS
<1>3. /\ rb' = IF space = 0 THEN rb ELSE Store(rb, fits)
      /\ rbBack' = [call |-> "put", size |-> Len(fits), bytes |-> p]
  BY <1>1, <1>2 DEF RbPut, rt_ringbuffer_space_len, Returns
<1>4. p \in Seq(RbByte) /\ Len(p) \in Nat \ {0} BY PieceFacts
<1>5. space \in Nat /\ rt_ringbuffer_data_len(rb) = Len(RbContent(rb))
  BY <1>1, RbLenFacts, ContentFacts, RbConstants
<1>6. fits = RbPromise!Front(p, space) BY <1>2, <1>4, <1>5, FrontBack
<1>7. fits \in Seq(RbByte) /\ Len(fits) <= space
  <2>1. CASE space < Len(p) BY <1>4, <1>5, <1>6, <2>1, FrontBack
  <2>2. CASE ~(space < Len(p)) BY <1>2, <1>4, <1>5, <2>2
  <2> QED BY <2>1, <2>2
<1>8. RbContent(rb) \in Seq(RbByte) BY ContentFacts
<1>9. RbOK(rb') /\ RbContent(rb') = RbContent(rb) \o fits
  <2>1. CASE space = 0
    <3>1. fits = << >> BY <1>7, <2>1, EmptySeq
    <3>2. RbContent(rb) \o << >> = RbContent(rb) BY <1>8, ConcatEmptySeq
    <3> QED BY <1>3, <2>1, <3>1, <3>2
  <2>2. CASE space # 0 BY <1>1, <1>3, <1>7, <2>2, StoreFits
  <2> QED BY <2>1, <2>2
<1>10. RbPromise!Keep(p) <=>
          LET kept == RbPromise!Front(p, RbSize - Len(RbContent(rb)))
          IN /\ RbContent(rb') = RbContent(rb) \o kept
             /\ rbBack' = [call |-> "put", size |-> Len(kept), bytes |-> p]
  BY DEF RbPromise!Keep, RbPromise!Returned, RbContent
<1> QED BY <1>1, <1>3, <1>5, <1>6, <1>9, <1>10

\* What a forced put of the last bytes l of a piece does: Store, and when l did
\* not fit the read index and its mirror follow.
RbForced(x, l, z) ==
    IF Len(l) <= RbSize - rt_ringbuffer_data_len(x) THEN z = Store(x, l)
    ELSE /\ z \in RbState /\ z.buf = Store(x, l).buf /\ z.wi = Store(x, l).wi
         /\ z.ri = z.wi /\ z.rm # z.wm

\* The queue promises the last bytes of content and piece together.
LEMMA ForcedIsForce ==
    ASSUME RbOK(rb), NEW p \in RbPiece, NEW l,
           l = IF Len(p) > RbSize THEN SubSeq(p, Len(p) - RbSize + 1, Len(p)) ELSE p,
           RbForced(rb, l, rb'),
           rbBack' = [call |-> "force", size |-> Len(l), bytes |-> p]
    PROVE  RbOK(rb') /\ RbPromise!Force(p)
<1>1. p \in Seq(RbByte) /\ Len(p) \in Nat \ {0} BY PieceFacts
<1>2. PICK S : S = RbSize OBVIOUS
<1>3. PICK s : s = RbContent(rb) OBVIOUS
<1>4. S \in Nat \ {0} /\ s \in Seq(RbByte) /\ Len(s) \in Nat /\ Len(s) <= S
      /\ rt_ringbuffer_data_len(rb) = Len(s)
  BY <1>2, <1>3, RbLenFacts, ContentFacts, RbConstants
<1>5. l = RbPromise!Back(p, S) BY <1>1, <1>2, <1>4, FrontBack
<1>6. /\ l \in Seq(RbByte) /\ Len(l) \in Nat /\ Len(l) <= S
      /\ Len(l) = RbPromise!Least(Len(p), S)
  <2>1. CASE S < Len(p)
    <3>0. S \in Nat /\ S <= Len(p) BY <1>1, <1>4, <2>1
    <3>1. l \in Seq(RbByte) /\ Len(l) = S BY <1>1, <1>5, <3>0, BackFacts
    <3> QED BY <1>1, <1>4, <2>1, <3>1 DEF RbPromise!Least
  <2>2. CASE ~(S < Len(p))
    <3>1. l = p BY <1>1, <1>2, <1>4, <2>2
    <3>2. Len(p) <= S BY <1>1, <1>4, <2>2
    <3>3. RbPromise!Least(Len(p), S) = Len(p) BY <1>1, <1>4, <3>2 DEF RbPromise!Least
    <3> QED BY <1>1, <3>1, <3>2, <3>3
  <2> QED BY <2>1, <2>2
<1>7. s \o p \in Seq(RbByte) /\ Len(s \o p) = Len(s) + Len(p)
      /\ \A i \in 1..(Len(s) + Len(p)) : (s \o p)[i] =
             IF i <= Len(s) THEN s[i] ELSE p[i - Len(s)]
  BY <1>1, <1>4, ConcatProperties
<1>8. s \o l \in Seq(RbByte) /\ Len(s \o l) = Len(s) + Len(l)
      /\ \A i \in 1..(Len(s) + Len(l)) : (s \o l)[i] =
             IF i <= Len(s) THEN s[i] ELSE l[i - Len(s)]
  BY <1>4, <1>6, ConcatProperties
<1>9. RbOK(rb') /\ RbContent(rb') = RbPromise!Back(s \o l, S)
  <2>1. RbPromise!Back(s \o l, S) =
            IF S < Len(s) + Len(l) THEN SubSeq(s \o l, Len(s) + Len(l) - S + 1, Len(s) + Len(l))
            ELSE s \o l
    <3>1. PICK q : q = s \o l OBVIOUS
    <3>2. q \in Seq(RbByte) /\ Len(q) = Len(s) + Len(l) /\ S \in Nat BY <1>4, <1>8, <3>1
    <3>3. RbPromise!Back(q, S) =
              IF S < Len(q) THEN SubSeq(q, Len(q) - S + 1, Len(q)) ELSE q
      BY <3>2, FrontBack
    <3> QED BY <3>1, <3>2, <3>3
  <2>2. CASE Len(l) <= S - Len(s)
    <3>1. rb' = Store(rb, l) BY <1>2, <1>4, <2>2 DEF RbForced
    <3>2. RbOK(rb') /\ RbContent(rb') = s \o l
      BY <1>2, <1>3, <1>4, <1>6, <2>2, <3>1, StoreFits
    <3>3. ~(S < Len(s) + Len(l)) BY <1>4, <1>6, <2>2
    <3> QED BY <2>1, <3>2, <3>3
  <2>3. CASE ~(Len(l) <= S - Len(s))
    <3>1. /\ rb' \in RbState /\ rb'.buf = Store(rb, l).buf /\ rb'.wi = Store(rb, l).wi
          /\ rb'.ri = rb'.wi /\ rb'.rm # rb'.wm
      BY <1>2, <1>4, <2>3 DEF RbForced
    <3>2. Len(l) <= RbSize /\ Len(l) > RbSize - rt_ringbuffer_data_len(rb)
      BY <1>2, <1>4, <1>6, <2>3
    <3>3. /\ RbOK(rb')
          /\ RbContent(rb') = SubSeq(RbContent(rb) \o l,
                                     rt_ringbuffer_data_len(rb) + Len(l) - RbSize + 1,
                                     rt_ringbuffer_data_len(rb) + Len(l))
      BY <1>6, <3>1, <3>2, StoreOverwrites
    <3>4. S < Len(s) + Len(l) BY <1>4, <1>6, <2>3
    <3> QED BY <1>2, <1>3, <1>4, <2>1, <3>3, <3>4
  <2> QED BY <2>2, <2>3
<1>10. RbPromise!Back(s \o l, S) = RbPromise!Back(s \o p, S)
  <2>1. CASE ~(S < Len(p)) BY <1>1, <1>2, <1>4, <2>1
  <2>2. CASE S < Len(p)
    <3>1. S \in Nat /\ S <= Len(p) BY <1>1, <1>4, <2>2
    <3>2. Len(l) = S /\ l \in Seq(RbByte) BY <1>1, <1>5, <3>1, BackFacts
    <3>3. RbPromise!Back(s \o p, S) = l BY <1>1, <1>4, <1>5, <3>1, BackOfConcat
    <3>4. S <= Len(l) /\ ~(S < Len(l)) BY <3>1, <3>2
    <3>5. RbPromise!Back(s \o l, S) = RbPromise!Back(l, S)
      BY <1>4, <1>6, <3>1, <3>4, BackOfConcat
    <3>6. RbPromise!Back(l, S) = l
      <4>1. RbPromise!Least(S, Len(l)) = S /\ S - S + 1 = 1
        BY <3>1, <3>2 DEF RbPromise!Least
      <4>2. SubSeq(l, 1, Len(l)) = l BY <3>2, SubSeqFull
      <4> QED BY <3>2, <4>1, <4>2 DEF RbPromise!Back
    <3> QED BY <3>3, <3>5, <3>6
  <2> QED BY <2>1, <2>2
<1>11. RbPromise!Force(p) <=>
          /\ RbContent(rb') = RbPromise!Back(RbContent(rb) \o p, RbSize)
          /\ rbBack' = [call |-> "force", size |-> RbPromise!Least(Len(p), RbSize),
                        bytes |-> p]
  BY DEF RbPromise!Force, RbPromise!Returned, RbContent
<1> QED BY <1>2, <1>3, <1>6, <1>9, <1>10, <1>11

\* rt_ringbuffer_put_force: the mirrors differ in the end, wherever the indices
\* were.
LEMMA PutForceForces ==
    ASSUME RbOK(rb), NEW p \in RbPiece, RbPutForce(p)
    PROVE  RbOK(rb') /\ RbPromise!Force(p)
<1>1. PICK l : l = IF Len(p) > RbSize THEN SubSeq(p, Len(p) - RbSize + 1, Len(p)) ELSE p
  OBVIOUS
<1>2. PICK x : x = Store(rb, l) OBVIOUS
<1>3. /\ rb' = IF Len(l) <= RbSize - rt_ringbuffer_data_len(rb) THEN x
               ELSE [x EXCEPT !.ri = x.wi,
                              !.rm = IF RbSize - rb.wi <= Len(l) /\ x.wi <= rb.ri
                                     THEN ~x.rm ELSE x.rm]
      /\ rbBack' = [call |-> "force", size |-> Len(l), bytes |-> p]
  BY <1>1, <1>2 DEF RbPutForce, rt_ringbuffer_space_len, Returns
<1>4. p \in Seq(RbByte) /\ Len(p) \in Nat \ {0} /\ RbSize \in Nat \ {0}
  BY PieceFacts, RbConstants
<1>5. l \in Seq(RbByte) /\ Len(l) \in Nat /\ Len(l) <= RbSize
  <2>1. CASE RbSize < Len(p)
    <3>1. RbSize \in Nat /\ RbSize <= Len(p) BY <1>4, <2>1
    <3>2. l = RbPromise!Back(p, RbSize) BY <1>1, <1>4, <2>1, FrontBack
    <3>3. l \in Seq(RbByte) /\ Len(l) = RbSize BY <1>4, <3>1, <3>2, BackFacts
    <3> QED BY <1>4, <3>3
  <2>2. CASE ~(RbSize < Len(p)) BY <1>1, <1>4, <2>2
  <2> QED BY <2>1, <2>2
<1>6. RbForced(rb, l, rb')
  <2>1. CASE Len(l) <= RbSize - rt_ringbuffer_data_len(rb)
    BY <1>2, <1>3, <2>1 DEF RbForced
  <2>2. CASE ~(Len(l) <= RbSize - rt_ringbuffer_data_len(rb))
    <3>1. PICK n : n = Len(l) OBVIOUS
    <3>2. /\ x \in RbState /\ x.ri = rb.ri /\ x.rm = rb.rm
          /\ RbSize - rb.wi > n => x.wi = rb.wi + n /\ x.wm = rb.wm
          /\ ~(RbSize - rb.wi > n) => x.wi = n - (RbSize - rb.wi) /\ x.wm = ~rb.wm
      BY <1>2, <1>5, <3>1, StoreFacts
    <3>3. /\ rb.ri \in 0..(RbSize - 1) /\ rb.wi \in 0..(RbSize - 1)
          /\ rb.rm \in BOOLEAN /\ rb.wm \in BOOLEAN
          /\ IF rb.rm = rb.wm THEN rb.ri <= rb.wi ELSE rb.wi <= rb.ri
          /\ x.wi \in 0..(RbSize - 1) /\ x.rm \in BOOLEAN /\ x.wm \in BOOLEAN
      BY <3>2 DEF RbOK, RbState
    <3>4. PICK len : len = rt_ringbuffer_data_len(rb) OBVIOUS
    <3>5. len \in Nat /\ len = IF rb.rm = rb.wm THEN rb.wi - rb.ri ELSE rb.wi + RbSize - rb.ri
      BY <3>4, RbLenFacts
    <3>6. n \in Nat /\ n <= RbSize /\ n > RbSize - len BY <1>4, <1>5, <2>2, <3>1, <3>4, <3>5
    <3>7. PICK m : m = (IF RbSize - rb.wi <= n /\ x.wi <= rb.ri THEN ~x.rm ELSE x.rm) OBVIOUS
    <3>8. m \in BOOLEAN BY <3>3, <3>7
    <3>9. rb' = [x EXCEPT !.ri = x.wi, !.rm = m] BY <1>3, <2>2, <3>1, <3>7
    <3>10. /\ rb' \in RbState /\ rb'.buf = x.buf /\ rb'.wi = x.wi /\ rb'.ri = x.wi
           /\ rb'.rm = m /\ rb'.wm = x.wm
      BY <3>2, <3>3, <3>8, <3>9 DEF RbState
    <3>11. m # x.wm
      <4>1. CASE RbSize - rb.wi > n
        <5>1. rb.rm # rb.wm BY <1>4, <3>3, <3>5, <3>6, <4>1
        <5>2. m = x.rm BY <1>4, <3>3, <3>6, <3>7, <4>1
        <5> QED BY <3>2, <4>1, <5>1, <5>2
      <4>2. CASE ~(RbSize - rb.wi > n)
        <5>0. x.wi = n - (RbSize - rb.wi) /\ x.wm = ~rb.wm /\ RbSize - rb.wi <= n
          BY <1>4, <3>2, <3>3, <3>6, <4>2
        <5>1. CASE rb.rm = rb.wm
          <6>1. ~(x.wi <= rb.ri) BY <1>4, <3>3, <3>5, <3>6, <5>0, <5>1
          <6>2. m = x.rm BY <3>7, <6>1
          <6> QED BY <3>2, <3>3, <5>0, <5>1, <6>2
        <5>2. CASE rb.rm # rb.wm
          <6>1. x.wi <= rb.ri BY <1>4, <3>3, <3>6, <5>0, <5>2
          <6>2. m = ~x.rm BY <3>7, <5>0, <6>1
          <6> QED BY <3>2, <3>3, <5>0, <5>2, <6>2
        <5> QED BY <5>1, <5>2
      <4> QED BY <4>1, <4>2
    <3> QED BY <1>2, <2>2, <3>10, <3>11 DEF RbForced
  <2> QED BY <2>1, <2>2
<1> QED BY <1>1, <1>3, <1>6, ForcedIsForce

\* rt_ringbuffer_putchar_force is the forced put of one byte.
LEMMA PutCharForces ==
    ASSUME RbOK(rb), NEW b \in RbByte, RbPutCharForce(b)
    PROVE  RbOK(rb') /\ <<b>> \in RbPiece /\ RbPromise!Force(<<b>>)
<1>1. PICK l : l = <<b>> OBVIOUS
<1>2. PICK x : x = Store(rb, l) OBVIOUS
<1>3. /\ rb' = IF rt_ringbuffer_status(rb) # "full" THEN x
               ELSE [x EXCEPT !.ri = x.wi, !.rm = IF x.wi = 0 THEN ~x.rm ELSE x.rm]
      /\ rbBack' = [call |-> "force", size |-> 1, bytes |-> l]
  BY <1>1, <1>2 DEF RbPutCharForce, Returns
<1>4. l \in Seq(RbByte) /\ Len(l) = 1 /\ l \in [1..1 -> RbByte] BY <1>1
<1>5. RbSize \in Nat \ {0} /\ RbLongest \in Nat \ {0} BY RbConstants
<1>6. l \in RbPiece
  <2>1. 1 \in 1..RbLongest BY <1>5
  <2> QED BY <1>4, <2>1 DEF RbPiece
<1>7. PICK len : len = rt_ringbuffer_data_len(rb) OBVIOUS
<1>8. /\ len \in Nat /\ len <= RbSize
      /\ len = IF rb.rm = rb.wm THEN rb.wi - rb.ri ELSE rb.wi + RbSize - rb.ri
      /\ rt_ringbuffer_status(rb) = "full" <=> len = RbSize
  BY <1>7, RbLenFacts
<1>9. RbForced(rb, l, rb')
  <2>1. CASE rt_ringbuffer_status(rb) # "full"
    <3>1. Len(l) <= RbSize - rt_ringbuffer_data_len(rb) BY <1>4, <1>5, <1>7, <1>8, <2>1
    <3> QED BY <1>2, <1>3, <2>1, <3>1 DEF RbForced
  <2>2. CASE rt_ringbuffer_status(rb) = "full"
    <3>1. ~(Len(l) <= RbSize - rt_ringbuffer_data_len(rb)) BY <1>4, <1>5, <1>7, <1>8, <2>2
    <3>2. /\ x \in RbState /\ x.ri = rb.ri /\ x.rm = rb.rm
          /\ RbSize - rb.wi > 1 => x.wi = rb.wi + 1 /\ x.wm = rb.wm
          /\ ~(RbSize - rb.wi > 1) => x.wi = 1 - (RbSize - rb.wi) /\ x.wm = ~rb.wm
      <4>1. Len(l) <= RbSize BY <1>4, <1>5
      <4>2. /\ x \in RbState /\ x.ri = rb.ri /\ x.rm = rb.rm
            /\ RbSize - rb.wi > Len(l) => x.wi = rb.wi + Len(l) /\ x.wm = rb.wm
            /\ ~(RbSize - rb.wi > Len(l)) =>
                   x.wi = Len(l) - (RbSize - rb.wi) /\ x.wm = ~rb.wm
        BY <1>2, <1>4, <4>1, StoreFacts
      <4> QED BY <1>4, <4>2
    <3>3. /\ rb.ri \in 0..(RbSize - 1) /\ rb.wi \in 0..(RbSize - 1)
          /\ rb.rm \in BOOLEAN /\ rb.wm \in BOOLEAN
          /\ x.wi \in 0..(RbSize - 1) /\ x.rm \in BOOLEAN /\ x.wm \in BOOLEAN
      BY <3>2 DEF RbOK, RbState
    <3>4. rb.rm # rb.wm BY <1>5, <1>8, <2>2, <3>3
    <3>5. PICK m : m = (IF x.wi = 0 THEN ~x.rm ELSE x.rm) OBVIOUS
    <3>6. m \in BOOLEAN BY <3>3, <3>5
    <3>7. rb' = [x EXCEPT !.ri = x.wi, !.rm = m] BY <1>3, <2>2, <3>5
    <3>8. /\ rb' \in RbState /\ rb'.buf = x.buf /\ rb'.wi = x.wi /\ rb'.ri = x.wi
          /\ rb'.rm = m /\ rb'.wm = x.wm
      BY <3>2, <3>3, <3>6, <3>7 DEF RbState
    <3>9. m # x.wm
      <4>1. CASE RbSize - rb.wi > 1
        <5>1. x.wi # 0 BY <3>2, <3>3, <4>1
        <5> QED BY <3>2, <3>4, <3>5, <4>1, <5>1
      <4>2. CASE ~(RbSize - rb.wi > 1)
        <5>1. x.wi = 0 BY <1>5, <3>2, <3>3, <4>2
        <5> QED BY <3>2, <3>3, <3>4, <3>5, <4>2, <5>1
      <4> QED BY <4>1, <4>2
    <3> QED BY <1>2, <3>1, <3>8, <3>9 DEF RbForced
  <2> QED BY <2>1, <2>2
<1>10. l = IF Len(l) > RbSize THEN SubSeq(l, Len(l) - RbSize + 1, Len(l)) ELSE l
  BY <1>4, <1>5
<1>11. rbBack' = [call |-> "force", size |-> Len(l), bytes |-> l] BY <1>3, <1>4
<1> QED BY <1>1, <1>6, <1>9, <1>10, <1>11, ForcedIsForce

\* rt_ringbuffer_get and rt_ringbuffer_peak take the oldest bytes.
LEMMA ReadFetches ==
    ASSUME RbOK(rb), NEW m \in Nat, m <= rt_ringbuffer_data_len(rb),
           rbBack' = [call |-> "get", size |-> m, bytes |-> CopyOut(rb, m)],
           \/ rb' = MoveRead(rb, m)
           \/ rb' = rb /\ rt_ringbuffer_data_len(rb) = 0
    PROVE  RbOK(rb') /\ RbPromise!Fetch(m) /\ m \in 0..RbSize
<1>1. PICK s : s = RbContent(rb) OBVIOUS
<1>2. PICK len : len = rt_ringbuffer_data_len(rb) OBVIOUS
<1>3. len \in Nat /\ len <= RbSize /\ RbSize \in Nat \ {0} BY <1>2, RbLenFacts, RbConstants
<1>4. s \in Seq(RbByte) /\ Len(s) = len BY <1>1, <1>2, ContentFacts
<1>5. /\ RbOK(MoveRead(rb, m)) /\ CopyOut(rb, m) = SubSeq(s, 1, m)
      /\ Len(CopyOut(rb, m)) = m
      /\ RbContent(MoveRead(rb, m)) = SubSeq(s, m + 1, len)
  BY <1>1, <1>2, ReadTakes
<1>6. RbOK(rb') /\ RbContent(rb') = SubSeq(s, m + 1, len)
  <2>1. CASE rb' = MoveRead(rb, m) BY <1>5, <2>1
  <2>2. CASE rb' = rb /\ rt_ringbuffer_data_len(rb) = 0
    <3>1. m = 0 /\ len = 0 BY <1>2, <2>2
    <3>2. SubSeq(s, m + 1, len) = << >> BY <3>1, SubSeqEmpty
    <3>3. s = << >> BY <1>4, <3>1, EmptySeq
    <3> QED BY <1>1, <2>2, <3>2, <3>3
  <2> QED BY <2>1, <2>2
<1>7. RbPromise!Front(s, m) = CopyOut(rb, m)
  <2>1. RbPromise!Least(m, Len(s)) = m BY <1>2, <1>3, <1>4 DEF RbPromise!Least
  <2> QED BY <1>5, <2>1 DEF RbPromise!Front
<1>8. RbPromise!Fetch(m) <=>
         LET bytes == RbPromise!Front(RbContent(rb), m)
         IN /\ RbContent(rb') = SubSeq(RbContent(rb), Len(bytes) + 1, Len(RbContent(rb)))
            /\ rbBack' = [call |-> "get", size |-> Len(bytes), bytes |-> bytes]
  BY DEF RbPromise!Fetch, RbPromise!Returned, RbContent
<1>9. m \in 0..RbSize BY <1>2, <1>3
<1> QED BY <1>1, <1>4, <1>5, <1>6, <1>7, <1>8, <1>9

\* An empty buffer holds no bytes.
LEMMA EmptyContent ==
    ASSUME NEW x \in RbState, x.ri = x.wi, x.rm = x.wm
    PROVE  RbOK(x) /\ RbContent(x) = << >>
<1>1. x.ri \in 0..(RbSize - 1) /\ x.wi \in 0..(RbSize - 1) /\ RbSize \in Nat
  BY RbConstants DEF RbState
<1>2. RbOK(x) BY <1>1 DEF RbOK
<1>3. rt_ringbuffer_data_len(x) = 0 BY <1>1, <1>2, RbLenFacts
<1>4. RbContent(x) \in Seq(RbByte) /\ Len(RbContent(x)) = 0 BY <1>2, <1>3, ContentFacts
<1> QED BY <1>2, <1>4, EmptySeq

\* A ring buffer is a queue of bytes: no byte is lost, repeated or reordered when
\* an index wraps, when the buffer is full, when it is filled to the last byte or
\* when bytes are overwritten, for every size of buffer and every length of piece.
THEOREM RingIsByteQueue == RbSpec => ImplementsByteQueue
<1>1. RbInductive <=> RbOK(rb) BY DEF RbInductive, RbOK, RbState
<1>2. RbInit => RbOK(rb) /\ RbPromise!ByteInit
  <2>1. SUFFICES ASSUME RbInit PROVE RbOK(rb) /\ RbPromise!ByteInit OBVIOUS
  <2>2. PICK b \in RbByte : rb = [buf |-> [i \in 0..(RbSize - 1) |-> b],
                                  ri |-> 0, wi |-> 0, rm |-> FALSE, wm |-> FALSE]
    BY <2>1 DEF RbInit
  <2>3. 0 \in 0..(RbSize - 1) BY RbConstants
  <2>4. rb \in RbState /\ rb.ri = rb.wi /\ rb.rm = rb.wm BY <2>2, <2>3 DEF RbState
  <2>5. RbOK(rb) /\ RbContent(rb) = << >> BY <2>4, EmptyContent
  <2> QED BY <2>1, <2>5 DEF RbInit, RbPromise!ByteInit, RbContent
<1>3. ASSUME RbOK(rb), [RbNext]_rbVars
      PROVE  RbOK(rb') /\ [RbPromise!ByteNext]_<<RbContent(rb), rbBack>>
  <2>1. CASE RbNext
    <3>1. ASSUME NEW p \in RbPiece, RbPut(p) PROVE RbOK(rb') /\ RbPromise!ByteNext
      BY <1>3, <3>1, PutKeeps, p \in RbPromise!Piece DEF RbPromise!ByteNext, RbPromise!Piece, RbPiece
    <3>2. ASSUME NEW p \in RbPiece, RbPutForce(p) PROVE RbOK(rb') /\ RbPromise!ByteNext
      <4>1. RbOK(rb') /\ RbPromise!Force(p) BY <1>3, <3>2, PutForceForces
      <4>2. p \in RbPromise!Piece BY DEF RbPromise!Piece, RbPiece
      <4> QED BY <4>1, <4>2 DEF RbPromise!ByteNext
    <3>3. ASSUME NEW b \in RbByte, RbPutCharForce(b) PROVE RbOK(rb') /\ RbPromise!ByteNext
      <4>1. RbOK(rb') /\ <<b>> \in RbPiece /\ RbPromise!Force(<<b>>)
        BY <1>3, <3>3, PutCharForces
      <4>2. <<b>> \in RbPromise!Piece BY <4>1 DEF RbPromise!Piece, RbPiece
      <4> QED BY <4>1, <4>2 DEF RbPromise!ByteNext
    <3>4. rt_ringbuffer_data_len(rb) \in Nat BY <1>3, RbLenFacts
    <3>5. ASSUME NEW n \in 1..RbLongest, RbGet(n) PROVE RbOK(rb') /\ RbPromise!ByteNext
      <4>1. PICK m : m = (IF rt_ringbuffer_data_len(rb) < n THEN rt_ringbuffer_data_len(rb) ELSE n)
        OBVIOUS
      <4>2. m \in Nat /\ m <= rt_ringbuffer_data_len(rb) BY <3>4, <4>1
      <4>3. /\ rbBack' = [call |-> "get", size |-> m, bytes |-> CopyOut(rb, m)]
            /\ rb' = IF rt_ringbuffer_data_len(rb) = 0 THEN rb ELSE MoveRead(rb, m)
        BY <3>5, <4>1 DEF RbGet, Returns
      <4>4. RbOK(rb') /\ RbPromise!Fetch(m) /\ m \in 0..RbSize
        BY <1>3, <4>2, <4>3, ReadFetches
      <4> QED BY <4>4 DEF RbPromise!ByteNext
    <3>6. ASSUME RbPeak PROVE RbOK(rb') /\ RbPromise!ByteNext
      <4>1. PICK m : m = (IF RbSize - rb.ri > rt_ringbuffer_data_len(rb)
                          THEN rt_ringbuffer_data_len(rb) ELSE RbSize - rb.ri)
        OBVIOUS
      <4>2. rb.ri \in 0..(RbSize - 1) /\ RbSize \in Nat BY <1>3, RbConstants DEF RbOK, RbState
      <4>3. m \in Nat /\ m <= rt_ringbuffer_data_len(rb) BY <3>4, <4>1, <4>2
      <4>4. /\ rbBack' = [call |-> "get", size |-> m, bytes |-> CopyOut(rb, m)]
            /\ rb' = MoveRead(rb, m)
        BY <3>6, <4>1 DEF RbPeak, Returns
      <4>5. RbOK(rb') /\ RbPromise!Fetch(m) /\ m \in 0..RbSize
        BY <1>3, <4>3, <4>4, ReadFetches
      <4> QED BY <4>5 DEF RbPromise!ByteNext
    <3>7. ASSUME RbReset PROVE RbOK(rb') /\ RbPromise!ByteNext
      <4>1. 0 \in 0..(RbSize - 1) BY RbConstants
      <4>2. rb \in RbState BY <1>3 DEF RbOK
      <4>3. rb' \in RbState /\ rb'.ri = rb'.wi /\ rb'.rm = rb'.wm
        BY <3>7, <4>1, <4>2 DEF RbReset, RbState
      <4>4. RbOK(rb') /\ RbContent(rb') = << >> BY <4>3, EmptyContent
      <4>5. RbPromise!Wipe
        BY <3>7, <4>4 DEF RbReset, Returns, RbPromise!Wipe, RbPromise!Returned, RbContent
      <4> QED BY <4>4, <4>5 DEF RbPromise!ByteNext
    <3> QED BY <2>1, <3>1, <3>2, <3>3, <3>5, <3>6, <3>7 DEF RbNext
  <2>2. CASE UNCHANGED rbVars BY <1>3, <2>2 DEF rbVars, RbContent
  <2> QED BY <1>3, <2>1, <2>2
<1>4. [RbPromise!ByteNext]_<<RbContent(rb), rbBack>> <=> [RbPromise!ByteNext]_RbPromise!byteVars
  BY DEF RbPromise!byteVars, RbContent
<1>5. ASSUME RbInductive, [RbNext]_rbVars
      PROVE  RbInductive' /\ [RbPromise!ByteNext]_RbPromise!byteVars
  <2>1. RbOK(rb') BY <1>1, <1>3, <1>5
  <2>2. RbInductive' BY <2>1 DEF RbInductive, RbOK, RbState
  <2> QED BY <1>1, <1>3, <1>4, <1>5, <2>2
<1>6. RbInit => RbInductive /\ RbPromise!ByteInit BY <1>1, <1>2
<1> QED BY <1>5, <1>6, PTL DEF RbSpec, ImplementsByteQueue, RbPromise!ByteSpec

-----------------------------------------------------------------------------
(* The heap *)

LEMMA HeapNumbers ==
    /\ HeapSize \in Nat /\ Header \in Nat /\ MinSize \in Nat /\ Header > 0 /\ MinSize > 0
    /\ End \in Nat /\ End = HeapSize + Header /\ End > 0 /\ 0 \in 0..End /\ End \in 0..End
<1>1. /\ HeapSize \in Nat /\ Header \in Nat /\ MinSize \in Nat /\ Header # 0 /\ MinSize # 0
  BY HeapConstants
<1> QED BY <1>1 DEF End

\* What the type says of one item.
LEMMA ItemFacts ==
    ASSUME NEW x, HeapTyped(x), NEW p \in DOMAIN x.item
    PROVE  /\ p \in 0..End /\ p \in Nat
           /\ x.item[p].used \in BOOLEAN /\ x.item[p].next \in 0..End /\ x.item[p].next \in Nat
           /\ x.item[p].prev \in 0..End
           /\ x.item[p] = [used |-> x.item[p].used, next |-> x.item[p].next, prev |-> x.item[p].prev]
<1>1. x.item[p] \in [used : BOOLEAN, next : 0..End, prev : 0..End] BY DEF HeapTyped
<1>2. p \in 0..End BY DEF HeapTyped
<1>3. End \in Nat BY HeapNumbers
<1> QED BY <1>1, <1>2, <1>3

\* What the chain says of one item.
LEMMA ChainFacts ==
    ASSUME NEW x, HeapTyped(x), Chained(x), NEW p \in DOMAIN x.item, p # End
    PROVE  /\ x.item[p].next \in DOMAIN x.item /\ x.item[p].next >= p + Header
           /\ x.item[p].next > p /\ p < End
           /\ \A q \in DOMAIN x.item : q <= p \/ q >= x.item[p].next
           /\ x.item[p].next # End => x.item[x.item[p].next].prev = p
<1>1. /\ x.item[p].next \in DOMAIN x.item /\ x.item[p].next >= p + Header
      /\ \A q \in DOMAIN x.item : q <= p \/ q >= x.item[p].next
      /\ x.item[p].next # End => x.item[x.item[p].next].prev = p
  BY DEF Chained
<1>2. p \in 0..End /\ x.item[p].next \in Nat /\ p \in Nat BY ItemFacts
<1>3. x.item[p].next > p /\ p < End
  <2>1. PICK n \in Nat : n = x.item[p].next /\ n >= p + Header BY <1>1, <1>2
  <2> QED BY <1>2, <2>1, HeapNumbers
<1> QED BY <1>1, <1>3

\* Every item but the first is behind another.
LEMMA ItemBefore ==
    ASSUME NEW x, HeapTyped(x), Chained(x), NEW p \in DOMAIN x.item, p # 0
    PROVE  \E b \in DOMAIN x.item \ {End} :
               /\ b < p /\ x.item[b].next = p
               /\ p # End => x.item[p].prev = b
<1>1. p \in Nat /\ p \in 0..End BY ItemFacts
<1> DEFINE S == {n \in Nat : p - n \in DOMAIN x.item /\ p - n < p}
<1>2. p \in S
  <2>1. p - p = 0 /\ 0 < p BY <1>1
  <2>2. 0 \in DOMAIN x.item BY DEF Chained
  <2> QED BY <1>1, <2>1, <2>2
<1>3. S \in SUBSET Nat /\ S # {} BY <1>2
<1> HIDE DEF S
<1>4. PICK m \in S : \A n \in S : m <= n BY <1>3, MinNat
<1> USE DEF S
<1>5. PICK b \in DOMAIN x.item : b = p - m /\ b < p BY <1>4
<1>6. b \in Nat /\ m \in Nat /\ b < p /\ b # End
  <2>1. b \in Nat /\ m \in Nat BY <1>4, ItemFacts
  <2>2. End \in Nat BY HeapNumbers
  <2> QED BY <1>1, <1>5, <2>1, <2>2
<1>7. PICK n \in Nat : n = x.item[b].next BY ItemFacts
<1>8. /\ n \in DOMAIN x.item /\ n > b /\ \A q \in DOMAIN x.item : q <= b \/ q >= n
      /\ n # End => x.item[n].prev = b
  BY <1>6, <1>7, ChainFacts
<1>9. n <= p BY <1>1, <1>6, <1>8
<1>10. n = p
  <2> SUFFICES ASSUME n < p PROVE FALSE BY <1>1, <1>9
  <2>1. p - n \in Nat /\ p - (p - n) = n /\ p - n < m BY <1>1, <1>5, <1>6, <1>8
  <2>2. p - n \in S BY <1>8, <2>1
  <2>3. m <= p - n BY <1>4, <2>2
  <2> QED BY <1>1, <1>6, <2>1, <2>3
<1> QED BY <1>5, <1>6, <1>7, <1>8, <1>10

\* lfree in terms of the items.
LEMMA LowestFree ==
    ASSUME NEW x, HeapTyped(x), NEW m
    PROVE  m = Min({End} \cup Free(x)) <=>
               m \in {End} \cup Free(x) /\ \A p \in {End} \cup Free(x) : m <= p
<1> DEFINE S == {End} \cup Free(x)
<1>1. S \in SUBSET Nat /\ S # {} BY HeapNumbers, ItemFacts DEF Free
<1> HIDE DEF S
<1>2. Min(S) \in S /\ \A p \in S : Min(S) <= p BY <1>1, MinNat
<1>3. ASSUME m \in S, \A p \in S : m <= p PROVE m = Min(S)
  <2>1. m <= Min(S) /\ Min(S) <= m /\ m \in Nat /\ Min(S) \in Nat BY <1>1, <1>2, <1>3
  <2> QED BY <2>1
<1>4. m = Min(S) <=> m \in S /\ \A p \in S : m <= p BY <1>2, <1>3
<1> QED BY <1>4 DEF S

\* Joining an item with the one behind it, field by field.
Joined(x, p, q, y) ==
    /\ HeapTyped(y) /\ q \in DOMAIN x.item /\ DOMAIN y.item = DOMAIN x.item \ {q}
    /\ \A r \in DOMAIN y.item :
           /\ y.item[r].used = x.item[r].used
           /\ y.item[r].next = IF r = p THEN x.item[q].next ELSE x.item[r].next
           /\ y.item[r].prev = IF r # p /\ r = x.item[q].next THEN p ELSE x.item[r].prev
    /\ y.lfree = (IF x.lfree = q THEN p ELSE x.lfree) /\ y.used = x.used /\ y.max = x.max

LEMMA JoinItems ==
    ASSUME NEW x, HeapTyped(x), Chained(x), NEW p \in DOMAIN x.item, p # End,
           NEW q, q = x.item[p].next, q # End, NEW y, y = Join(x, p, q)
    PROVE  Joined(x, p, q, y)
<1>1. PICK a : a = x.item[q].next OBVIOUS
<1>2. q \in DOMAIN x.item BY ChainFacts
<1>3. a \in 0..End /\ p \in 0..End BY <1>1, <1>2, ItemFacts
<1>4. PICK I : I = [r \in DOMAIN x.item \ {q} |->
                       IF r = p THEN [x.item[p] EXCEPT !.next = a]
                       ELSE IF r = a THEN [x.item[r] EXCEPT !.prev = p]
                       ELSE x.item[r]]
  OBVIOUS
<1>5. y = [x EXCEPT !.item = I, !.lfree = IF x.lfree = q THEN p ELSE x.lfree]
  BY <1>1, <1>4 DEF Join
<1>6. x \in [item : {x.item}, lfree : 0..End, used : 0..End, max : 0..End] BY DEF HeapTyped
<1>7. /\ y.item = I /\ y.lfree = (IF x.lfree = q THEN p ELSE x.lfree)
      /\ y.used = x.used /\ y.max = x.max
      /\ y \in [item : {y.item}, lfree : 0..End, used : 0..End, max : 0..End]
  BY <1>3, <1>5, <1>6
<1>8. ASSUME NEW r \in DOMAIN x.item \ {q}
      PROVE  /\ I[r] \in [used : BOOLEAN, next : 0..End, prev : 0..End]
             /\ I[r].used = x.item[r].used
             /\ I[r].next = IF r = p THEN a ELSE x.item[r].next
             /\ I[r].prev = IF r # p /\ r = a THEN p ELSE x.item[r].prev
  <2>1. x.item[r] \in [used : BOOLEAN, next : 0..End, prev : 0..End] BY DEF HeapTyped
  <2>2. CASE r = p BY <1>3, <1>4, <2>1, <2>2
  <2>3. CASE r # p /\ r = a BY <1>3, <1>4, <2>1, <2>3
  <2>4. CASE r # p /\ r # a BY <1>4, <2>1, <2>4
  <2> QED BY <2>2, <2>3, <2>4
<1>9. DOMAIN I = DOMAIN x.item \ {q} /\ I \in [DOMAIN I -> [used : BOOLEAN, next : 0..End, prev : 0..End]]
  BY <1>4, <1>8
<1>10. HeapTyped(y)
  <2>1. DOMAIN I \subseteq 0..End BY <1>9 DEF HeapTyped
  <2> QED BY <1>7, <1>9, <2>1 DEF HeapTyped
<1> QED BY <1>1, <1>2, <1>7, <1>8, <1>9, <1>10 DEF Joined

LEMMA JoinChained ==
    ASSUME NEW x, HeapTyped(x), Chained(x), NEW p \in DOMAIN x.item, p # End,
           NEW q, q = x.item[p].next, q # End, NEW y, y = Join(x, p, q)
    PROVE  Chained(y)
<1>1. /\ HeapTyped(y) /\ q \in DOMAIN x.item /\ DOMAIN y.item = DOMAIN x.item \ {q}
      /\ \A r \in DOMAIN y.item :
             /\ y.item[r].used = x.item[r].used
             /\ y.item[r].next = IF r = p THEN x.item[q].next ELSE x.item[r].next
             /\ y.item[r].prev = IF r # p /\ r = x.item[q].next THEN p ELSE x.item[r].prev
  <2>1. Joined(x, p, q, y) BY JoinItems
  <2> QED BY <2>1 DEF Joined
<1>2. PICK a \in Nat : a = x.item[q].next BY <1>1, ItemFacts
<1>3. p \in Nat /\ q \in Nat /\ q > p /\ a > q /\ a \in DOMAIN x.item /\ q >= p + Header /\ a >= q + Header
  BY <1>1, <1>2, ChainFacts, ItemFacts
<1>4. /\ \A r \in DOMAIN x.item : r <= p \/ r >= q
      /\ \A r \in DOMAIN x.item : r <= q \/ r >= a
      /\ a # End => x.item[a].prev = q
  BY <1>1, <1>2, ChainFacts
<1>5. /\ {0, End} \subseteq DOMAIN y.item /\ IsUsed(y, End) /\ y.item[0].prev = 0
  <2>1. {0, End} \subseteq DOMAIN x.item /\ IsUsed(x, End) /\ x.item[0].prev = 0 BY DEF Chained
  <2>2. 0 # q /\ 0 # a BY <1>3
  <2>3. 0 \in DOMAIN y.item /\ End \in DOMAIN y.item BY <1>1, <2>1, <2>2
  <2> QED BY <1>1, <1>2, <2>1, <2>2, <2>3 DEF IsUsed
<1>6. ASSUME NEW r \in DOMAIN y.item \ {End}
      PROVE  LET n == y.item[r].next
             IN /\ n \in DOMAIN y.item /\ n >= r + Header
                /\ \A s \in DOMAIN y.item : s <= r \/ s >= n
                /\ n # End => y.item[n].prev = r
  <2>0. r \in DOMAIN x.item /\ r # q /\ r # End /\ r \in Nat BY <1>1, ItemFacts
  <2>1. PICK n \in Nat : n = y.item[r].next BY <1>1, ItemFacts
  <2>2. CASE r = p
    <3>1. n = a BY <1>1, <1>2, <2>1, <2>2
    <3>2. n \in DOMAIN y.item /\ n >= r + Header
      <4>1. a # q /\ a >= p + Header BY <1>3, HeapNumbers
      <4> QED BY <1>1, <1>3, <2>2, <3>1, <4>1
    <3>3. ASSUME NEW s \in DOMAIN y.item PROVE s <= r \/ s >= n
      <4>1. s \in DOMAIN x.item /\ s # q /\ s \in Nat BY <1>1, ItemFacts
      <4>2. (s <= p \/ s >= q) /\ (s <= q \/ s >= a) BY <1>4, <4>1
      <4> QED BY <1>3, <2>2, <3>1, <4>1, <4>2
    <3>4. y.item[n].prev = r
      <4>1. a # p /\ a \in DOMAIN y.item BY <1>3, <3>1, <3>2
      <4> QED BY <1>1, <1>2, <2>2, <3>1, <4>1
    <3> QED BY <2>1, <3>2, <3>3, <3>4
  <2>3. CASE r # p
    <3>1. n = x.item[r].next BY <1>1, <2>1, <2>3
    <3>2. /\ n \in DOMAIN x.item /\ n >= r + Header
          /\ \A s \in DOMAIN x.item : s <= r \/ s >= n
          /\ n # End => x.item[n].prev = r
      BY <2>0, <3>1, ChainFacts
    <3>3. x.item[q].prev = p BY ChainFacts
    <3>4. n # q BY <2>3, <3>2, <3>3
    <3>5. n # End => n # a BY <1>4, <2>0, <3>2
    <3>6. n # End => y.item[n].prev = x.item[n].prev
      <4>1. n \in DOMAIN y.item BY <1>1, <3>2, <3>4
      <4> QED BY <1>1, <1>2, <3>5, <4>1
    <3> QED BY <1>1, <2>1, <3>2, <3>4, <3>6
  <2> QED BY <2>2, <2>3
<1> QED BY <1>5, <1>6 DEF Chained

\* Splitting an item, field by field.
LEMMA SplitItems ==
    ASSUME NEW x, HeapTyped(x), Chained(x), NEW p \in DOMAIN x.item, p # End,
           NEW size \in Nat, p + Header + size + Header <= x.item[p].next,
           NEW q, q = p + Header + size, NEW y, y = Split(x, p, size)
    PROVE  /\ HeapTyped(y) /\ q \in Nat /\ q > p /\ q < End /\ q \notin DOMAIN x.item
           /\ DOMAIN y.item = DOMAIN x.item \cup {q}
           /\ ~y.item[q].used /\ y.item[q].next = x.item[p].next /\ y.item[q].prev = p
           /\ \A r \in DOMAIN x.item :
                  /\ y.item[r].used = x.item[r].used
                  /\ y.item[r].next = IF r = p THEN q ELSE x.item[r].next
                  /\ y.item[r].prev = IF r = x.item[p].next /\ r # End THEN q ELSE x.item[r].prev
           /\ y.lfree = x.lfree /\ y.used = x.used /\ y.max = x.max
<1>0. x.item[p].next \in Nat /\ x.item[p].next \in 0..End BY ItemFacts
<1>1. PICK n \in Nat : n = x.item[p].next /\ n \in 0..End BY <1>0
<1>2. p \in Nat /\ p \in 0..End /\ n > p /\ n \in DOMAIN x.item BY <1>1, ItemFacts, ChainFacts
<1>3. q \in Nat /\ q > p /\ q < n /\ q \in 0..End /\ q < End
  <2>1. p + Header + size + Header <= n /\ Header \in Nat /\ Header > 0 /\ End \in Nat
    BY <1>1, HeapNumbers
  <2> QED BY <1>1, <1>2, <2>1
<1>4. q \notin DOMAIN x.item
  <2>1. \A r \in DOMAIN x.item : r <= p \/ r >= n BY <1>1, ChainFacts
  <2> QED BY <1>1, <1>2, <1>3, <2>1
<1>5. PICK I : I = [r \in DOMAIN x.item \cup {q} |->
                       IF r = q THEN [used |-> FALSE, next |-> n, prev |-> p]
                       ELSE IF r = p THEN [x.item[p] EXCEPT !.next = q]
                       ELSE IF r = n /\ n # End THEN [x.item[n] EXCEPT !.prev = q]
                       ELSE x.item[r]]
  OBVIOUS
<1>6. y = [x EXCEPT !.item = I] BY <1>1, <1>5 DEF Split
<1>7. x \in [item : {x.item}, lfree : 0..End, used : 0..End, max : 0..End] BY DEF HeapTyped
<1>8. /\ y.item = I /\ y.lfree = x.lfree /\ y.used = x.used /\ y.max = x.max
      /\ y \in [item : {y.item}, lfree : 0..End, used : 0..End, max : 0..End]
  BY <1>6, <1>7
<1>9. ASSUME NEW r \in DOMAIN x.item
      PROVE  /\ I[r] \in [used : BOOLEAN, next : 0..End, prev : 0..End]
             /\ I[r].used = x.item[r].used
             /\ I[r].next = IF r = p THEN q ELSE x.item[r].next
             /\ I[r].prev = IF r = n /\ r # End THEN q ELSE x.item[r].prev
  <2>1. x.item[r] \in [used : BOOLEAN, next : 0..End, prev : 0..End] BY DEF HeapTyped
  <2>0. r # q BY <1>4
  <2>2. CASE r = p
    <3>1. r # n BY <1>1, <1>2, <2>2
    <3>2. I[r] = [x.item[r] EXCEPT !.next = q] BY <1>5, <2>0, <2>2
    <3> QED BY <1>3, <2>1, <2>2, <3>1, <3>2
  <2>3. CASE r # p /\ r = n /\ n # End
    <3>1. I[r] = [x.item[r] EXCEPT !.prev = q] BY <1>5, <2>0, <2>3
    <3> QED BY <1>3, <2>1, <2>3, <3>1
  <2>4. CASE r # p /\ ~(r = n /\ n # End)
    <3>1. I[r] = x.item[r] BY <1>5, <2>0, <2>4
    <3> QED BY <2>1, <2>4, <3>1
  <2> QED BY <2>2, <2>3, <2>4
<1>10. I[q] = [used |-> FALSE, next |-> n, prev |-> p] BY <1>5
<1>11. I[q] \in [used : BOOLEAN, next : 0..End, prev : 0..End]
  <2>1. n \in 0..End /\ p \in 0..End BY <1>1, <1>2
  <2> QED BY <1>10, <2>1
<1>12. DOMAIN I = DOMAIN x.item \cup {q} /\ I \in [DOMAIN I -> [used : BOOLEAN, next : 0..End, prev : 0..End]]
  <2>1. \A r \in DOMAIN x.item \cup {q} : I[r] \in [used : BOOLEAN, next : 0..End, prev : 0..End]
    BY <1>9, <1>11
  <2> QED BY <1>5, <2>1
<1>13. HeapTyped(y)
  <2>1. DOMAIN I \subseteq 0..End BY <1>3, <1>12 DEF HeapTyped
  <2> QED BY <1>8, <1>12, <2>1 DEF HeapTyped
<1> QED BY <1>1, <1>3, <1>4, <1>8, <1>9, <1>10, <1>12, <1>13

LEMMA SplitChained ==
    ASSUME NEW x, HeapTyped(x), Chained(x), NEW p \in DOMAIN x.item, p # End,
           NEW size \in Nat, p + Header + size + Header <= x.item[p].next,
           NEW y, y = Split(x, p, size)
    PROVE  Chained(y)
<1>0. PICK q : q = p + Header + size OBVIOUS
<1>1. /\ HeapTyped(y) /\ q \in Nat /\ q > p /\ q < End /\ q \notin DOMAIN x.item
      /\ DOMAIN y.item = DOMAIN x.item \cup {q}
      /\ ~y.item[q].used /\ y.item[q].next = x.item[p].next /\ y.item[q].prev = p
      /\ \A r \in DOMAIN x.item :
             /\ y.item[r].used = x.item[r].used
             /\ y.item[r].next = IF r = p THEN q ELSE x.item[r].next
             /\ y.item[r].prev = IF r = x.item[p].next /\ r # End THEN q ELSE x.item[r].prev
  BY <1>0, SplitItems
<1>2. PICK n \in Nat : n = x.item[p].next BY ItemFacts
<1>3. /\ p \in Nat /\ n > p /\ n \in DOMAIN x.item /\ q >= p + Header /\ n >= q + Header
      /\ Header \in Nat /\ Header > 0
  <2>1. p \in Nat /\ Header \in Nat /\ Header > 0 /\ p + Header + size + Header <= n
    BY <1>2, ItemFacts, HeapNumbers
  <2>2. n \in DOMAIN x.item /\ n > p BY <1>2, ChainFacts
  <2> QED BY <1>0, <1>2, <2>1, <2>2
<1>4. \A r \in DOMAIN x.item : r <= p \/ r >= n BY <1>2, ChainFacts
<1>5. /\ {0, End} \subseteq DOMAIN y.item /\ IsUsed(y, End) /\ y.item[0].prev = 0
  <2>1. {0, End} \subseteq DOMAIN x.item /\ IsUsed(x, End) /\ x.item[0].prev = 0 BY DEF Chained
  <2>2. 0 # n BY <1>2, <1>3
  <2> QED BY <1>1, <1>2, <2>1, <2>2 DEF IsUsed
<1>6. ASSUME NEW r \in DOMAIN y.item \ {End}
      PROVE  LET m == y.item[r].next
             IN /\ m \in DOMAIN y.item /\ m >= r + Header
                /\ \A s \in DOMAIN y.item : s <= r \/ s >= m
                /\ m # End => y.item[m].prev = r
  <2>1. CASE r = q
    <3>1. y.item[r].next = n BY <1>1, <1>2, <2>1
    <3>2. n \in DOMAIN y.item /\ n >= r + Header BY <1>1, <1>3, <2>1
    <3>3. ASSUME NEW s \in DOMAIN y.item PROVE s <= r \/ s >= n
      <4>1. CASE s = q BY <1>1, <2>1, <4>1
      <4>2. CASE s \in DOMAIN x.item
        <5>1. s \in Nat /\ (s <= p \/ s >= n) BY <1>4, <4>2, ItemFacts
        <5> QED BY <1>1, <1>3, <2>1, <5>1
      <4> QED BY <1>1, <4>1, <4>2
    <3>4. n # End => y.item[n].prev = r BY <1>1, <1>2, <1>3, <2>1
    <3> QED BY <3>1, <3>2, <3>3, <3>4
  <2>2. CASE r = p
    <3>1. y.item[r].next = q BY <1>1, <2>2
    <3>2. q \in DOMAIN y.item /\ q >= r + Header BY <1>1, <1>3, <2>2
    <3>3. ASSUME NEW s \in DOMAIN y.item PROVE s <= r \/ s >= q
      <4>1. CASE s = q BY <1>1, <4>1
      <4>2. CASE s \in DOMAIN x.item
        <5>1. s \in Nat /\ (s <= p \/ s >= n) BY <1>4, <4>2, ItemFacts
        <5> QED BY <1>1, <1>3, <2>2, <5>1
      <4> QED BY <1>1, <4>1, <4>2
    <3>4. y.item[q].prev = r BY <1>1, <2>2
    <3> QED BY <3>1, <3>2, <3>3, <3>4
  <2>3. CASE r # q /\ r # p
    <3>0. r \in DOMAIN x.item /\ r # End /\ r \in Nat BY <1>1, <2>3, ItemFacts
    <3>1. PICK m \in Nat : m = x.item[r].next BY <3>0, ItemFacts
    <3>2. y.item[r].next = m BY <1>1, <2>3, <3>0, <3>1
    <3>3. /\ m \in DOMAIN x.item /\ m >= r + Header
          /\ \A s \in DOMAIN x.item : s <= r \/ s >= m
          /\ m # End => x.item[m].prev = r
      BY <3>0, <3>1, ChainFacts
    <3>4. x.item[p].next # End => x.item[n].prev = p BY <1>2, ChainFacts
    <3>5. m # End => m # n BY <1>2, <2>3, <3>3, <3>4
    <3>6. m # End => y.item[m].prev = r BY <1>1, <1>2, <3>3, <3>5
    <3>7. q <= r \/ q >= m
      <4>1. r <= p \/ r >= n BY <1>4, <3>0
      <4>2. p <= r \/ p >= m BY <3>3
      <4> QED BY <1>1, <1>3, <2>3, <3>0, <3>1, <4>1, <4>2
    <3> QED BY <1>1, <3>2, <3>3, <3>6, <3>7
  <2> QED BY <2>1, <2>2, <2>3
<1> QED BY <1>5, <1>6 DEF Chained

\* The blocks and the counters are the same.
SameBlocks(x, y) ==
    /\ Blocks(y) = Blocks(x) /\ \A b \in Blocks(x) : y.item[b].next = x.item[b].next
    /\ y.used = x.used /\ y.max = x.max

\* A heap with its lowest free item; free neighbours are not excluded.
Heaped(x) == HeapTyped(x) /\ Chained(x) /\ x.lfree = Min({End} \cup Free(x))

\* Free items are not the end of the heap.
LEMMA FreeFacts ==
    ASSUME NEW x, Chained(x), NEW p \in Free(x)
    PROVE  p \in DOMAIN x.item /\ p # End /\ ~x.item[p].used /\ p \notin Blocks(x)
BY DEF Free, Blocks, Chained, IsUsed

\* Two free items become one.
LEMMA JoinFree ==
    ASSUME NEW x, Heaped(x), NEW p \in Free(x), NEW q \in Free(x), q = x.item[p].next,
           NEW y, y = Join(x, p, q)
    PROVE  /\ Heaped(y) /\ SameBlocks(x, y) /\ Free(y) = Free(x) \ {q} /\ p \in Free(y)
           /\ \A r \in Free(y) : y.item[r].next = IF r = p THEN x.item[q].next ELSE x.item[r].next
           /\ y.item[p].prev = x.item[p].prev
<1>1. /\ HeapTyped(x) /\ Chained(x) /\ p \in DOMAIN x.item /\ p # End
      /\ q \in DOMAIN x.item /\ q # End
  BY FreeFacts DEF Heaped
<1>2. /\ HeapTyped(y) /\ DOMAIN y.item = DOMAIN x.item \ {q}
      /\ \A r \in DOMAIN y.item :
             /\ y.item[r].used = x.item[r].used
             /\ y.item[r].next = IF r = p THEN x.item[q].next ELSE x.item[r].next
             /\ y.item[r].prev = IF r # p /\ r = x.item[q].next THEN p ELSE x.item[r].prev
      /\ y.lfree = (IF x.lfree = q THEN p ELSE x.lfree) /\ y.used = x.used /\ y.max = x.max
  <2>1. Joined(x, p, q, y) BY <1>1, JoinItems
  <2> QED BY <2>1 DEF Joined
<1>3. Chained(y) BY <1>1, JoinChained
<1>4. p < q /\ p # q /\ p \in Nat /\ q \in Nat
  <2>1. p \in Nat /\ q \in Nat /\ q > p BY <1>1, ChainFacts, ItemFacts
  <2> QED BY <2>1
<1>5. Free(y) = Free(x) \ {q} BY <1>2 DEF Free, IsUsed
<1>6. Blocks(y) = Blocks(x)
  <2>1. q \notin Blocks(x) BY <1>1, FreeFacts
  <2>2. Blocks(y) = Blocks(x) \ {q} BY <1>2 DEF Blocks, IsUsed
  <2> QED BY <2>1, <2>2
<1>7. \A b \in Blocks(x) : y.item[b].next = x.item[b].next
  <2>1. p \notin Blocks(x) /\ q \notin Blocks(x) BY <1>1, FreeFacts
  <2>2. \A b \in Blocks(x) : b \in DOMAIN y.item /\ b # p BY <1>2, <2>1 DEF Blocks
  <2> QED BY <1>2, <2>2
<1>8. y.lfree = Min({End} \cup Free(y))
  <2>1. x.lfree \in {End} \cup Free(x) /\ \A r \in {End} \cup Free(x) : x.lfree <= r
    BY <1>1, LowestFree DEF Heaped
  <2>2. x.lfree <= p BY <2>1
  <2>3. x.lfree \in Nat BY <1>1, <2>1, HeapNumbers, ItemFacts, FreeFacts
  <2>4. x.lfree # q BY <1>4, <2>2, <2>3
  <2>5. y.lfree = x.lfree BY <1>2, <2>4
  <2>6. y.lfree \in {End} \cup Free(y) /\ \A r \in {End} \cup Free(y) : y.lfree <= r
    BY <1>5, <2>1, <2>4, <2>5
  <2> QED BY <1>2, <2>6, LowestFree
<1>9. p \in Free(y) BY <1>4, <1>5
<1>10. \A r \in Free(y) : r \in DOMAIN y.item BY DEF Free
<1>11. Heaped(y) /\ SameBlocks(x, y) BY <1>2, <1>3, <1>6, <1>7, <1>8 DEF Heaped, SameBlocks
<1>12. y.item[p].prev = x.item[p].prev BY <1>2, <1>9, <1>10
<1> QED BY <1>2, <1>5, <1>9, <1>10, <1>11, <1>12

\* plug_holes: a free item is joined with its free neighbours.
LEMMA PlugOK ==
    ASSUME NEW x, Heaped(x), NEW p \in Free(x),
           \A r \in Free(x) : x.item[r].next \in Free(x) => r = p \/ x.item[r].next = p
    PROVE  Heaped(plug_holes(x, p)) /\ FreeApart(plug_holes(x, p)) /\ SameBlocks(x, plug_holes(x, p))
<1>0. HeapTyped(x) /\ Chained(x) BY DEF Heaped
<1>1. PICK n : n = x.item[p].next OBVIOUS
<1>2. PICK y : y = IF ~IsUsed(x, n) /\ n # End THEN Join(x, p, n) ELSE x OBVIOUS
<1>3. PICK b : b = y.item[p].prev OBVIOUS
<1>4. PICK z : z = IF b # p /\ ~IsUsed(y, b) THEN Join(y, b, p) ELSE y OBVIOUS
<1>5. plug_holes(x, p) = z BY <1>1, <1>2, <1>3, <1>4 DEF plug_holes
<1>6. n \in DOMAIN x.item /\ p \in DOMAIN x.item /\ p # End /\ n \in Nat /\ p \in Nat /\ n > p
  BY <1>0, <1>1, FreeFacts, ChainFacts, ItemFacts
<1>7. /\ Heaped(y) /\ SameBlocks(x, y) /\ p \in Free(y)
      /\ \A r \in Free(y) : y.item[r].next \in Free(y) => y.item[r].next = p
  <2>1. CASE n \in Free(x)
    <3>0. ~IsUsed(x, n) /\ n # End BY <1>0, <2>1, FreeFacts DEF Free
    <3>1. y = Join(x, p, n) BY <1>2, <3>0
    <3>2. /\ Heaped(y) /\ SameBlocks(x, y) /\ Free(y) = Free(x) \ {n} /\ p \in Free(y)
          /\ \A r \in Free(y) : y.item[r].next = IF r = p THEN x.item[n].next ELSE x.item[r].next
      BY <1>1, <2>1, <3>1, JoinFree
    <3>3. x.item[n].next \notin Free(x)
      <4>1. x.item[n].next \in Nat /\ x.item[n].next > n BY <1>0, <1>6, <3>0, ChainFacts, ItemFacts
      <4>2. n # p /\ x.item[n].next # p BY <1>6, <4>1
      <4> QED BY <2>1, <4>2
    <3>4. ASSUME NEW r \in Free(y), y.item[r].next \in Free(y) PROVE y.item[r].next = p
      <4>1. r # p BY <3>2, <3>3, <3>4
      <4>2. y.item[r].next = x.item[r].next /\ r \in Free(x) /\ x.item[r].next \in Free(x)
        BY <3>2, <3>4, <4>1
      <4> QED BY <4>1, <4>2
    <3> QED BY <3>2, <3>4
  <2>2. CASE n \notin Free(x)
    <3>1. y = x BY <1>2, <1>6, <2>2 DEF Free
    <3>2. SameBlocks(x, x) BY DEF SameBlocks
    <3> QED BY <1>1, <2>2, <3>1, <3>2
  <2> QED BY <2>1, <2>2
<1>8. HeapTyped(y) /\ Chained(y) BY <1>7 DEF Heaped
<1>9. p \in DOMAIN y.item BY <1>7 DEF Free
<1>10. ASSUME p # 0
       PROVE  b \in DOMAIN y.item /\ b # End /\ b # p /\ y.item[b].next = p
  <2>1. PICK c \in DOMAIN y.item \ {End} :
            c < p /\ y.item[c].next = p /\ (p # End => y.item[p].prev = c)
    BY <1>8, <1>9, <1>10, ItemBefore
  <2>2. c = b BY <1>3, <1>6, <2>1
  <2>3. c \in Nat BY <1>8, <2>1, ItemFacts
  <2>4. c # p BY <1>6, <2>1, <2>3
  <2> QED BY <2>1, <2>2, <2>4
<1>11. ASSUME NEW r \in Free(y), y.item[r].next = p PROVE p # 0 /\ r = b
  <2>1. r \in DOMAIN y.item /\ r # End BY <1>8, FreeFacts
  <2>2. y.item[r].next > r /\ r \in Nat /\ (p # End => y.item[p].prev = r)
    BY <1>8, <1>11, <2>1, ChainFacts, ItemFacts
  <2>3. p > r BY <1>11, <2>2
  <2> QED BY <1>3, <1>6, <2>2, <2>3
<1>12. CASE b # p /\ ~IsUsed(y, b)
  <2>0. y.item[0].prev = 0 BY <1>8 DEF Chained
  <2>1. p # 0 BY <1>3, <1>12, <2>0
  <2>2. b \in Free(y) /\ p = y.item[b].next BY <1>10, <1>12, <2>1 DEF Free
  <2>3. z = Join(y, b, p) BY <1>4, <1>12
  <2>4. /\ Heaped(z) /\ SameBlocks(y, z) /\ Free(z) = Free(y) \ {p}
        /\ \A r \in Free(z) : z.item[r].next = IF r = b THEN y.item[p].next ELSE y.item[r].next
    BY <1>7, <2>2, <2>3, JoinFree
  <2>5. FreeApart(z)
    <3> SUFFICES ASSUME NEW r \in Free(z), z.item[r].next \in Free(z) PROVE FALSE BY DEF FreeApart
    <3>1. z.item[r].next \in Free(y) /\ z.item[r].next # p /\ r \in Free(y) BY <2>4
    <3>2. r = b BY <1>7, <2>4, <3>1
    <3>3. y.item[p].next = p BY <1>7, <2>4, <3>1, <3>2
    <3>4. y.item[p].next > p /\ y.item[p].next \in Nat BY <1>6, <1>8, <1>9, ChainFacts, ItemFacts
    <3> QED BY <1>6, <3>3, <3>4
  <2>6. SameBlocks(x, z) BY <1>7, <2>4 DEF SameBlocks
  <2> QED BY <1>5, <2>4, <2>5, <2>6
<1>13. CASE ~(b # p /\ ~IsUsed(y, b))
  <2>1. z = y BY <1>4, <1>13
  <2>2. FreeApart(y)
    <3> SUFFICES ASSUME NEW r \in Free(y), y.item[r].next \in Free(y) PROVE FALSE BY DEF FreeApart
    <3>1. y.item[r].next = p BY <1>7
    <3>2. p # 0 /\ r = b BY <1>11, <3>1
    <3>3. b # p BY <1>10, <3>2
    <3>4. ~IsUsed(y, b) BY <3>2 DEF Free
    <3> QED BY <1>13, <3>3, <3>4
  <2> QED BY <1>5, <1>7, <2>1, <2>2
<1> QED BY <1>12, <1>13

\* The units of all blocks but one.
OtherUnits(x, p) ==
    {u \in 0..(End - 1) : \E b \in Blocks(x) \ {p} : u \in b..(x.item[b].next - 1)}

\* A block adds as many units as it is long.
LEMMA CountUnits ==
    ASSUME NEW x, HeapTyped(x), Chained(x), NEW p \in Blocks(x)
    PROVE  /\ Cardinality(OtherUnits(x, p)) \in Nat /\ Cardinality(UsedUnits(x)) \in 0..End
           /\ Cardinality(UsedUnits(x)) = Cardinality(OtherUnits(x, p)) + (x.item[p].next - p)
<1>1. p \in DOMAIN x.item /\ p # End BY DEF Blocks
<1>2. PICK n \in Nat : n = x.item[p].next BY <1>1, ItemFacts
<1>3. p \in Nat /\ n > p /\ n <= End /\ End \in Nat
  <2>1. p \in Nat /\ x.item[p].next \in 0..End /\ End \in Nat BY <1>1, ItemFacts, HeapNumbers
  <2>2. x.item[p].next > p BY <1>1, ChainFacts
  <2> QED BY <1>2, <2>1, <2>2
<1> DEFINE S == OtherUnits(x, p)
           T == p..(n - 1)
<1>4. IsFiniteSet(0..(End - 1)) /\ Cardinality(0..(End - 1)) = End
  <2>1. 0 \in Int /\ End - 1 \in Int /\ ~(0 > End - 1) /\ (End - 1) - 0 + 1 = End BY <1>3, HeapNumbers
  <2> QED BY <2>1, FS_Interval
<1>5. S \in SUBSET (0..(End - 1)) /\ UsedUnits(x) \in SUBSET (0..(End - 1)) BY DEF OtherUnits, UsedUnits
<1>6. IsFiniteSet(S) /\ IsFiniteSet(UsedUnits(x)) /\ Cardinality(UsedUnits(x)) <= End
  BY <1>4, <1>5, FS_Subset
<1>7. Cardinality(S) \in Nat /\ Cardinality(UsedUnits(x)) \in Nat BY <1>6, FS_CardinalityType
<1>8. IsFiniteSet(T) /\ Cardinality(T) = n - p
  <2>1. p \in Int /\ n - 1 \in Int /\ ~(p > n - 1) /\ (n - 1) - p + 1 = n - p BY <1>3
  <2> QED BY <2>1, FS_Interval
<1>9. UsedUnits(x) = S \cup T
  <2>1. T \subseteq 0..(End - 1) BY <1>3
  <2> QED BY <1>2, <2>1 DEF UsedUnits, OtherUnits
<1>10. S \cap T = {}
  <2> SUFFICES ASSUME NEW u \in S, u \in T PROVE FALSE OBVIOUS
  <2>1. PICK b \in Blocks(x) \ {p} : u \in b..(x.item[b].next - 1) BY DEF OtherUnits
  <2>2. b \in DOMAIN x.item /\ b # End /\ b # p BY <2>1 DEF Blocks
  <2>3. PICK m \in Nat : m = x.item[b].next BY <2>2, ItemFacts
  <2>4. b \in Nat /\ (b <= p \/ b >= n) /\ (p <= b \/ p >= m) /\ u \in b..(m - 1) /\ u \in p..(n - 1)
    BY <1>1, <1>2, <2>1, <2>2, <2>3, ChainFacts, ItemFacts
  <2> QED BY <1>3, <2>2, <2>3, <2>4
<1>11. Cardinality(UsedUnits(x)) = Cardinality(S) + Cardinality(T)
  <2> HIDE DEF S, T
  <2>1. Cardinality({}) = 0 BY FS_EmptySet
  <2>2. Cardinality(S \cup T) = Cardinality(S) + Cardinality(T) - Cardinality(S \cap T)
    BY <1>6, <1>8, FS_Union
  <2>3. Cardinality(T) \in Nat BY <1>8, FS_CardinalityType
  <2> QED BY <1>7, <1>9, <1>10, <2>1, <2>2, <2>3
<1> QED BY <1>2, <1>3, <1>6, <1>7, <1>8, <1>11

LEMMA SameUnits ==
    ASSUME NEW x, NEW y, Blocks(y) = Blocks(x), \A b \in Blocks(x) : y.item[b].next = x.item[b].next
    PROVE  UsedUnits(y) = UsedUnits(x)
BY DEF UsedUnits

\* What only reads the headers.
LEMMA SameItems ==
    ASSUME NEW x, HeapTyped(x), NEW y, y.item = x.item,
           y \in [item : {y.item}, lfree : 0..End, used : 0..End, max : 0..End]
    PROVE  /\ HeapTyped(y) /\ (Chained(x) => Chained(y)) /\ (FreeApart(x) => FreeApart(y))
           /\ Free(y) = Free(x) /\ Blocks(y) = Blocks(x) /\ UsedUnits(y) = UsedUnits(x)
<1>1. HeapTyped(y) BY DEF HeapTyped
<1>2. Chained(x) => Chained(y) BY DEF Chained, IsUsed
<1>3. Free(y) = Free(x) /\ Blocks(y) = Blocks(x) BY DEF Free, Blocks, IsUsed
<1>4. UsedUnits(y) = UsedUnits(x) BY <1>3 DEF UsedUnits
<1>5. FreeApart(x) => FreeApart(y) BY <1>3 DEF FreeApart
<1> QED BY <1>1, <1>2, <1>3, <1>4, <1>5

\* y is x with the used bit of the item at p set or cleared.
Marked(x, y, p, v) ==
    /\ HeapTyped(y) /\ Chained(y) /\ DOMAIN y.item = DOMAIN x.item
    /\ \A r \in DOMAIN x.item : y.item[r].next = x.item[r].next
    /\ Free(y) = (IF v THEN Free(x) \ {p} ELSE Free(x) \cup {p})
    /\ Blocks(y) = (IF v THEN Blocks(x) \cup {p} ELSE Blocks(x) \ {p})
    /\ y.lfree = x.lfree /\ y.used = x.used /\ y.max = x.max

LEMMA MarkItem ==
    ASSUME NEW x, HeapTyped(x), Chained(x), NEW p \in DOMAIN x.item, p # End, NEW v \in BOOLEAN,
           NEW y, y = [x EXCEPT !.item[p].used = v]
    PROVE  Marked(x, y, p, v)
<1>1. x \in [item : {x.item}, lfree : 0..End, used : 0..End, max : 0..End] BY DEF HeapTyped
<1>2. PICK I : I = [x.item EXCEPT ![p].used = v] OBVIOUS
<1>3. y = [x EXCEPT !.item = I] BY <1>1, <1>2
<1>4. /\ y.item = I /\ y.lfree = x.lfree /\ y.used = x.used /\ y.max = x.max
      /\ y \in [item : {y.item}, lfree : 0..End, used : 0..End, max : 0..End]
  BY <1>1, <1>3
<1>5. ASSUME NEW r \in DOMAIN x.item
      PROVE  /\ I[r] \in [used : BOOLEAN, next : 0..End, prev : 0..End]
             /\ I[r].next = x.item[r].next /\ I[r].prev = x.item[r].prev
             /\ I[r].used = IF r = p THEN v ELSE x.item[r].used
  <2>1. x.item[r] \in [used : BOOLEAN, next : 0..End, prev : 0..End] BY DEF HeapTyped
  <2>2. x.item \in [DOMAIN x.item -> [used : BOOLEAN, next : 0..End, prev : 0..End]] BY DEF HeapTyped
  <2>3. CASE r = p
    <3>1. I[r] = [x.item[r] EXCEPT !.used = v] BY <1>2, <2>2, <2>3
    <3> QED BY <2>1, <2>3, <3>1
  <2>4. CASE r # p
    <3>1. I[r] = x.item[r] BY <1>2, <2>2, <2>4
    <3> QED BY <2>1, <2>4, <3>1
  <2> QED BY <2>3, <2>4
<1>6. DOMAIN I = DOMAIN x.item BY <1>2 DEF HeapTyped
<1>7. I \in [DOMAIN I -> [used : BOOLEAN, next : 0..End, prev : 0..End]]
  <2>1. I = [r \in DOMAIN x.item |-> I[r]] BY <1>2 DEF HeapTyped
  <2> QED BY <1>5, <1>6, <2>1
<1>8. HeapTyped(y)
  <2>1. DOMAIN I \subseteq 0..End BY <1>6 DEF HeapTyped
  <2> QED BY <1>4, <1>7, <2>1 DEF HeapTyped
<1>9. Chained(y)
  <2>1. {0, End} \subseteq DOMAIN x.item /\ IsUsed(x, End) /\ x.item[0].prev = 0 BY DEF Chained
  <2>2. {0, End} \subseteq DOMAIN y.item /\ IsUsed(y, End) /\ y.item[0].prev = 0
    BY <1>4, <1>5, <1>6, <2>1 DEF IsUsed
  <2>3. ASSUME NEW r \in DOMAIN y.item \ {End}
        PROVE  LET n == y.item[r].next
               IN /\ n \in DOMAIN y.item /\ n >= r + Header
                  /\ \A s \in DOMAIN y.item : s <= r \/ s >= n
                  /\ n # End => y.item[n].prev = r
    <3>0. r \in DOMAIN x.item /\ r # End BY <1>4, <1>6
    <3>1. PICK n : n = x.item[r].next OBVIOUS
    <3>2. /\ n \in DOMAIN x.item /\ n >= r + Header
          /\ \A s \in DOMAIN x.item : s <= r \/ s >= n
          /\ n # End => x.item[n].prev = r
      BY <3>0, <3>1, ChainFacts
    <3>3. y.item[r].next = n /\ y.item[n].prev = x.item[n].prev BY <1>4, <1>5, <3>0, <3>1, <3>2
    <3> QED BY <1>4, <1>6, <3>2, <3>3
  <2> QED BY <2>2, <2>3 DEF Chained
<1>10. /\ Free(y) = (IF v THEN Free(x) \ {p} ELSE Free(x) \cup {p})
       /\ Blocks(y) = (IF v THEN Blocks(x) \cup {p} ELSE Blocks(x) \ {p})
  <2>1. \A r \in DOMAIN x.item : IsUsed(y, r) <=> IF r = p THEN v ELSE IsUsed(x, r)
    BY <1>4, <1>5 DEF IsUsed
  <2>2. CASE v BY <1>4, <1>6, <2>1, <2>2 DEF Free, Blocks
  <2>3. CASE ~v BY <1>4, <1>6, <2>1, <2>3 DEF Free, Blocks
  <2> QED BY <2>2, <2>3
<1> QED BY <1>4, <1>5, <1>6, <1>8, <1>9, <1>10 DEF Marked

LEMMA TiledFacts ==
    ASSUME NEW x, Tiled(x)
    PROVE  /\ Heaped(x) /\ HeapTyped(x) /\ Chained(x) /\ FreeApart(x)
           /\ x.used = Cardinality(UsedUnits(x)) /\ x.used <= x.max
           /\ x.lfree \in Nat /\ x.used \in Nat /\ x.max \in Nat /\ x.max <= End
           /\ x \in [item : {x.item}, lfree : 0..End, used : 0..End, max : 0..End]
           /\ x.lfree \in {End} \cup Free(x) /\ \A r \in {End} \cup Free(x) : x.lfree <= r
<1>1. HeapTyped(x) /\ Chained(x) /\ Heaped(x) BY DEF Tiled, Heaped
<1>2. x \in [item : {x.item}, lfree : 0..End, used : 0..End, max : 0..End] BY <1>1 DEF HeapTyped
<1>3. x.lfree \in Nat /\ x.used \in Nat /\ x.max \in Nat /\ x.max <= End
  <2>1. End \in Nat BY HeapNumbers
  <2> QED BY <1>2, <2>1
<1>4. x.lfree \in {End} \cup Free(x) /\ \A r \in {End} \cup Free(x) : x.lfree <= r
  BY <1>1, LowestFree DEF Heaped
<1> QED BY <1>1, <1>2, <1>3, <1>4 DEF Tiled

\* The item that was found, cut to the size that was asked for.
CutTo(x, p, size) == IF Room(x, p) >= size + Header + MinSize THEN Split(x, p, size) ELSE x

LEMMA CutOK ==
    ASSUME NEW x, Tiled(x), NEW size \in Nat, NEW p \in Fitting(x, size), NEW y, y = CutTo(x, p, size)
    PROVE  /\ HeapTyped(y) /\ Chained(y) /\ p \in DOMAIN y.item /\ p \in Free(x) /\ p \in Free(y)
           /\ p # End /\ p \in Nat /\ y.item[p].next \in Nat /\ y.item[p].next - (p + Header) >= size
           /\ Blocks(y) = Blocks(x) /\ \A b \in Blocks(x) : y.item[b].next = x.item[b].next
           /\ Free(x) \subseteq Free(y) /\ \A r \in Free(y) \ Free(x) : r > p
           /\ \A r \in Free(y) \ {p} : y.item[r].next \notin Free(y) \ {p}
           /\ y.lfree = x.lfree /\ y.used = x.used /\ y.max = x.max
<1>1. HeapTyped(x) /\ Chained(x) /\ FreeApart(x) BY TiledFacts
<1>2. p \in Free(x) /\ Room(x, p) >= size BY DEF Fitting, Free
<1>3. p \in DOMAIN x.item /\ p # End /\ p \notin Blocks(x) BY <1>1, <1>2, FreeFacts
<1>4. PICK n \in Nat : n = x.item[p].next BY <1>1, <1>3, ItemFacts
<1>5. p \in Nat /\ n - (p + Header) >= size /\ n \in DOMAIN x.item /\ Room(x, p) = n - (p + Header)
  BY <1>1, <1>2, <1>3, <1>4, ItemFacts, ChainFacts DEF Room
<1>6. n \notin Free(x) /\ \A r \in Free(x) : x.item[r].next \notin Free(x)
  BY <1>1, <1>2, <1>4 DEF FreeApart
<1>7. CASE Room(x, p) >= size + Header + MinSize
  <2>0. y = Split(x, p, size) BY <1>7 DEF CutTo
  <2>1. PICK q : q = p + Header + size OBVIOUS
  <2>2. p + Header + size + Header <= x.item[p].next
    <3>1. n - (p + Header) >= size + Header + MinSize BY <1>5, <1>7
    <3> QED BY <1>4, <1>5, <3>1, HeapNumbers
  <2>3. /\ HeapTyped(y) /\ q \in Nat /\ q > p /\ q < End /\ q \notin DOMAIN x.item
        /\ DOMAIN y.item = DOMAIN x.item \cup {q}
        /\ ~y.item[q].used /\ y.item[q].next = x.item[p].next /\ y.item[q].prev = p
        /\ \A r \in DOMAIN x.item :
               /\ y.item[r].used = x.item[r].used
               /\ y.item[r].next = IF r = p THEN q ELSE x.item[r].next
               /\ y.item[r].prev = IF r = x.item[p].next /\ r # End THEN q ELSE x.item[r].prev
        /\ y.lfree = x.lfree /\ y.used = x.used /\ y.max = x.max
    BY <1>1, <1>3, <2>0, <2>1, <2>2, SplitItems
  <2>4. Chained(y) BY <1>1, <1>3, <2>0, <2>2, SplitChained
  <2>5. q # End /\ q # p
    <3>1. End \in Nat BY HeapNumbers
    <3> QED BY <1>5, <2>3, <3>1
  <2>6. Free(y) = Free(x) \cup {q} BY <2>3 DEF Free, IsUsed
  <2>7. Blocks(y) = Blocks(x) BY <2>3, <2>5 DEF Blocks, IsUsed
  <2>8. \A b \in Blocks(x) : y.item[b].next = x.item[b].next
    <3>1. \A b \in Blocks(x) : b \in DOMAIN x.item /\ b # p BY <1>3 DEF Blocks
    <3> QED BY <2>3, <3>1
  <2>9. ASSUME NEW r \in Free(y) \ {p} PROVE y.item[r].next \notin Free(y) \ {p}
    <3>1. CASE r = q
      <4>1. y.item[r].next = n /\ n # q BY <1>4, <1>5, <2>3, <3>1
      <4> QED BY <1>6, <2>6, <4>1
    <3>2. CASE r # q
      <4>1. r \in Free(x) /\ r \in DOMAIN x.item /\ r # p /\ r # End
        BY <1>1, <2>6, <3>2, FreeFacts
      <4>2. y.item[r].next = x.item[r].next BY <2>3, <4>1
      <4>3. x.item[r].next \in DOMAIN x.item BY <1>1, <4>1, ChainFacts
      <4>4. x.item[r].next # q /\ x.item[r].next \notin Free(x) BY <1>6, <2>3, <4>1, <4>3
      <4> QED BY <2>6, <4>2, <4>4
    <3> QED BY <3>1, <3>2
  <2>10. y.item[p].next = q /\ q - (p + Header) >= size
    <3>1. q - (p + Header) = size
      <4>1. Header \in Nat BY HeapNumbers
      <4> QED BY <1>5, <2>1, <4>1
    <3> QED BY <1>3, <2>3, <3>1
  <2> QED BY <1>2, <1>3, <1>5, <2>3, <2>4, <2>6, <2>7, <2>8, <2>9, <2>10
<1>8. CASE ~(Room(x, p) >= size + Header + MinSize)
  <2>1. y = x BY <1>8 DEF CutTo
  <2> QED BY <1>1, <1>2, <1>3, <1>4, <1>5, <1>6, <2>1
<1> QED BY <1>7, <1>8

\* rt_smem_alloc: the heap stays tiled, and the item at p is one block more.
LEMMA AllocOK ==
    ASSUME NEW x, Tiled(x), NEW size \in Nat, NEW p \in Fitting(x, size)
    PROVE  LET z == AllocAt(x, p, size)
           IN  /\ Tiled(z) /\ p \notin Blocks(x) /\ Blocks(z) = Blocks(x) \cup {p}
               /\ \A b \in Blocks(x) : z.item[b].next = x.item[b].next
               /\ Room(z, p) >= size
<1>1. PICK y : y = CutTo(x, p, size) OBVIOUS
<1>2. /\ HeapTyped(y) /\ Chained(y) /\ p \in DOMAIN y.item /\ p \in Free(x) /\ p \in Free(y)
      /\ p # End /\ p \in Nat /\ y.item[p].next \in Nat /\ y.item[p].next - (p + Header) >= size
      /\ Blocks(y) = Blocks(x) /\ \A b \in Blocks(x) : y.item[b].next = x.item[b].next
      /\ Free(x) \subseteq Free(y) /\ \A r \in Free(y) \ Free(x) : r > p
      /\ \A r \in Free(y) \ {p} : y.item[r].next \notin Free(y) \ {p}
      /\ y.lfree = x.lfree /\ y.used = x.used /\ y.max = x.max
  BY <1>1, CutOK
<1>3. PICK m : m = [y EXCEPT !.item[p].used = TRUE] OBVIOUS
<1>4. /\ HeapTyped(m) /\ Chained(m) /\ DOMAIN m.item = DOMAIN y.item
      /\ \A r \in DOMAIN y.item : m.item[r].next = y.item[r].next
      /\ Free(m) = Free(y) \ {p} /\ Blocks(m) = Blocks(y) \cup {p}
      /\ m.lfree = x.lfree /\ m.used = x.used /\ m.max = x.max
  <2>1. TRUE \in BOOLEAN OBVIOUS
  <2>2. Marked(y, m, p, TRUE) BY Zenon, <1>2, <1>3, <2>1, MarkItem
  <2> QED BY <1>2, <2>2 DEF Marked
<1>5. FreeApart(m)
  <2>1. \A r \in Free(m) : r \in DOMAIN y.item BY <1>4 DEF Free
  <2> QED BY <1>2, <1>4, <2>1 DEF FreeApart
<1>6. p \notin Blocks(x) BY <1>2, TiledFacts, FreeFacts
<1>7. PICK e \in Nat : e = m.item[p].next /\ e = y.item[p].next BY <1>2, <1>4
<1>8. \A b \in Blocks(x) : m.item[b].next = x.item[b].next
  <2>1. \A b \in Blocks(x) : b \in DOMAIN y.item BY <1>2 DEF Blocks
  <2> QED BY <1>2, <1>4, <2>1
<1>9. OtherUnits(m, p) = UsedUnits(x)
  <2>1. Blocks(m) \ {p} = Blocks(x) BY <1>2, <1>4, <1>6
  <2> QED BY <1>8, <2>1 DEF OtherUnits, UsedUnits
<1>10. PICK used : used = x.used + (e - p) OBVIOUS
<1>11. used = Cardinality(UsedUnits(m)) /\ used \in 0..End
  <2>1. p \in Blocks(m) BY <1>4
  <2>2. /\ Cardinality(UsedUnits(m)) \in 0..End
        /\ Cardinality(UsedUnits(m)) = Cardinality(OtherUnits(m, p)) + (e - p)
    BY <1>4, <1>7, <2>1, CountUnits
  <2>3. x.used = Cardinality(UsedUnits(x)) BY TiledFacts
  <2> QED BY <1>9, <1>10, <2>2, <2>3
<1>12. PICK max : max = IF x.max < used THEN used ELSE x.max OBVIOUS
<1>13. max \in 0..End /\ used <= max
  <2>1. x.max \in Nat /\ x.max <= End /\ End \in Nat BY TiledFacts, HeapNumbers
  <2> QED BY <1>11, <1>12, <2>1
<1>14. PICK z : z = [y EXCEPT !.item[p].used = TRUE, !.used = used,
                             !.max = IF @ < used THEN used ELSE @]
  OBVIOUS
<1>15. y \in [item : {y.item}, lfree : 0..End, used : 0..End, max : 0..End] BY <1>2 DEF HeapTyped
<1>16. /\ z.item = m.item /\ z.lfree = x.lfree /\ z.used = used /\ z.max = max
       /\ z \in [item : {z.item}, lfree : 0..End, used : 0..End, max : 0..End]
  <2>1. z = [m EXCEPT !.used = used, !.max = max] BY <1>2, <1>3, <1>12, <1>14, <1>15
  <2>2. m \in [item : {m.item}, lfree : 0..End, used : 0..End, max : 0..End] BY <1>4 DEF HeapTyped
  <2> QED BY <1>4, <1>11, <1>13, <2>1, <2>2
<1>17. PICK w : w = IF p = z.lfree THEN [z EXCEPT !.lfree = NextFree(z)] ELSE z OBVIOUS
<1>18. AllocAt(x, p, size) = w
  BY <1>1, <1>2, <1>7, <1>10, <1>14, <1>17 DEF AllocAt, CutTo
<1>19. x.lfree \in {End} \cup Free(x) /\ (\A r \in {End} \cup Free(x) : x.lfree <= r) /\ x.lfree \in Nat
  BY TiledFacts
<1>20. \A r \in Free(m) : r \in Nat /\ r >= x.lfree
  <2> SUFFICES ASSUME NEW r \in Free(m) PROVE r \in Nat /\ r >= x.lfree OBVIOUS
  <2>1. r \in Nat BY <1>4, ItemFacts DEF Free
  <2>2. CASE r \in Free(x) BY <1>19, <2>1, <2>2
  <2>3. CASE r \notin Free(x)
    <3>1. r > p /\ x.lfree <= p BY <1>2, <1>4, <1>19, <2>3
    <3> QED BY <1>2, <1>19, <2>1, <3>1
  <2> QED BY <2>2, <2>3
<1>21. Min({End} \cup Free(m)) \in 0..End
  <2>1. Min({End} \cup Free(m)) \in {End} \cup Free(m) BY <1>4, LowestFree
  <2>2. \A r \in Free(m) : r \in 0..End BY <1>4, ItemFacts DEF Free
  <2> QED BY <2>1, <2>2, HeapNumbers
<1>22. /\ w.item = m.item /\ w.used = used /\ w.max = max /\ w.lfree = Min({End} \cup Free(m))
       /\ w \in [item : {w.item}, lfree : 0..End, used : 0..End, max : 0..End]
  <2>1. CASE p = z.lfree
    <3>1. NextFree(z) = Min({End} \cup Free(m))
      <4>1. {r \in DOMAIN m.item : r >= x.lfree /\ (r = End \/ ~IsUsed(m, r))} = {End} \cup Free(m)
        <5>1. End \in DOMAIN m.item /\ End >= x.lfree BY <1>4, <1>19, HeapNumbers DEF Chained
        <5> QED BY <1>20, <5>1 DEF Free
      <4>2. \A r : IsUsed(z, r) = IsUsed(m, r) BY <1>16 DEF IsUsed
      <4> QED BY <1>16, <4>1, <4>2 DEF NextFree
    <3>2. w = [z EXCEPT !.lfree = Min({End} \cup Free(m))] BY <1>17, <2>1, <3>1
    <3> QED BY <1>16, <1>21, <3>2
  <2>2. CASE p # z.lfree
    <3>1. w = z BY <1>17, <2>2
    <3>2. x.lfree \in {End} \cup Free(m) BY <1>2, <1>4, <1>16, <1>19, <2>2
    <3>3. \A r \in {End} \cup Free(m) : x.lfree <= r
      <4>1. x.lfree <= End BY <1>19
      <4>2. \A r \in Free(m) : x.lfree <= r BY <1>19, <1>20
      <4> QED BY <4>1, <4>2
    <3>4. x.lfree = Min({End} \cup Free(m)) BY <1>4, <3>2, <3>3, LowestFree
    <3> QED BY <1>16, <3>1, <3>4
  <2> QED BY <2>1, <2>2
<1>23. /\ HeapTyped(w) /\ Chained(w) /\ FreeApart(w) /\ Free(w) = Free(m) /\ Blocks(w) = Blocks(m)
       /\ UsedUnits(w) = UsedUnits(m)
  BY <1>4, <1>5, <1>22, SameItems
<1>24. Tiled(w) BY <1>11, <1>13, <1>22, <1>23 DEF Tiled
<1>25. Room(w, p) >= size BY <1>2, <1>7, <1>22 DEF Room
<1>26. \A b \in Blocks(x) : w.item[b].next = x.item[b].next BY <1>8, <1>22
<1>27. Blocks(w) = Blocks(x) \cup {p} BY <1>2, <1>4, <1>23
<1> QED BY <1>6, <1>18, <1>24, <1>25, <1>26, <1>27

\* rt_smem_free: the heap stays tiled, and the item at p is no block any more.
LEMMA FreeOK ==
    ASSUME NEW x, Tiled(x), NEW p \in Blocks(x)
    PROVE  LET z == rt_smem_free(x, p)
           IN  /\ Tiled(z) /\ Blocks(z) = Blocks(x) \ {p}
               /\ \A b \in Blocks(x) \ {p} : z.item[b].next = x.item[b].next
<1>1. /\ HeapTyped(x) /\ Chained(x) /\ FreeApart(x) /\ x.used = Cardinality(UsedUnits(x))
      /\ x.used <= x.max /\ x.used \in Nat /\ x.max \in Nat /\ x.max <= End /\ x.lfree \in Nat
      /\ x \in [item : {x.item}, lfree : 0..End, used : 0..End, max : 0..End]
      /\ x.lfree \in {End} \cup Free(x) /\ \A r \in {End} \cup Free(x) : x.lfree <= r
  BY TiledFacts
<1>2. p \in DOMAIN x.item /\ p # End /\ p \notin Free(x) BY DEF Blocks, Free
<1>3. PICK e \in Nat : e = x.item[p].next BY <1>1, <1>2, ItemFacts
<1>4. p \in Nat /\ p \in 0..End /\ e > p BY <1>1, <1>2, <1>3, ItemFacts, ChainFacts
<1>5. PICK m : m = [x EXCEPT !.item[p].used = FALSE] OBVIOUS
<1>6. /\ HeapTyped(m) /\ Chained(m) /\ DOMAIN m.item = DOMAIN x.item
      /\ \A r \in DOMAIN x.item : m.item[r].next = x.item[r].next
      /\ Free(m) = Free(x) \cup {p} /\ Blocks(m) = Blocks(x) \ {p}
      /\ m.lfree = x.lfree /\ m.used = x.used /\ m.max = x.max
  <2>1. FALSE \in BOOLEAN OBVIOUS
  <2>2. Marked(x, m, p, FALSE) BY Zenon, <1>1, <1>2, <1>5, <2>1, MarkItem
  <2> QED BY <2>2 DEF Marked
<1>7. UsedUnits(m) = OtherUnits(x, p)
  <2>1. \A b \in Blocks(m) : m.item[b].next = x.item[b].next BY <1>6 DEF Blocks
  <2> QED BY <1>6, <2>1 DEF UsedUnits, OtherUnits
<1>8. PICK used : used = x.used - (e - p) OBVIOUS
<1>9. used = Cardinality(UsedUnits(m)) /\ used \in 0..End /\ used <= x.max
  <2>1. /\ Cardinality(OtherUnits(x, p)) \in Nat
        /\ Cardinality(UsedUnits(x)) = Cardinality(OtherUnits(x, p)) + (e - p)
    BY <1>1, <1>3, CountUnits
  <2>2. PICK c \in Nat : c = Cardinality(OtherUnits(x, p)) BY <2>1
  <2>3. x.used = c + (e - p) /\ End \in Nat BY <1>1, <2>1, <2>2, HeapNumbers
  <2>4. used = c BY <1>4, <1>8, <2>3
  <2> QED BY <1>1, <1>4, <1>7, <2>2, <2>3, <2>4
<1>10. PICK l : l = IF p < x.lfree THEN p ELSE x.lfree OBVIOUS
<1>11. PICK w : w = [x EXCEPT !.item[p].used = FALSE, !.lfree = IF p < @ THEN p ELSE @,
                             !.used = @ - (x.item[p].next - p)]
  OBVIOUS
<1>12. /\ w.item = m.item /\ w.lfree = l /\ w.used = used /\ w.max = x.max
       /\ w \in [item : {w.item}, lfree : 0..End, used : 0..End, max : 0..End]
  <2>1. w = [m EXCEPT !.lfree = l, !.used = used] BY <1>1, <1>3, <1>5, <1>8, <1>10, <1>11
  <2>2. m \in [item : {m.item}, lfree : 0..End, used : 0..End, max : 0..End] BY <1>6 DEF HeapTyped
  <2>3. l \in 0..End BY <1>1, <1>4, <1>10
  <2> QED BY <1>6, <1>9, <2>1, <2>2, <2>3
<1>13. /\ HeapTyped(w) /\ Chained(w) /\ Free(w) = Free(m) /\ Blocks(w) = Blocks(m)
       /\ UsedUnits(w) = UsedUnits(m)
  BY <1>6, <1>12, SameItems
<1>14. w.lfree = Min({End} \cup Free(w))
  <2>1. l \in {End} \cup Free(w) BY <1>1, <1>6, <1>10, <1>13
  <2>2. ASSUME NEW r \in {End} \cup Free(w) PROVE l <= r
    <3>1. l <= p /\ l <= x.lfree /\ l \in Nat BY <1>1, <1>4, <1>10
    <3>2. CASE r = p BY <3>1, <3>2
    <3>3. CASE r # p
      <4>1. r \in {End} \cup Free(x) BY <1>6, <1>13, <3>3
      <4>2. x.lfree <= r /\ r \in Nat BY <1>1, <4>1, HeapNumbers, ItemFacts DEF Free
      <4> QED BY <1>1, <3>1, <4>2
    <3> QED BY <3>2, <3>3
  <2> QED BY <1>12, <1>13, <2>1, <2>2, LowestFree
<1>15. Heaped(w) BY <1>13, <1>14 DEF Heaped
<1>16. p \in Free(w) BY <1>6, <1>13
<1>17. ASSUME NEW r \in Free(w), w.item[r].next \in Free(w) PROVE r = p \/ w.item[r].next = p
  <2>1. r \in DOMAIN x.item /\ w.item[r].next = x.item[r].next BY <1>6, <1>12, <1>13 DEF Free
  <2> QED BY <1>1, <1>6, <1>13, <1>17, <2>1 DEF FreeApart
<1>18. PICK z : z = plug_holes(w, p) OBVIOUS
<1>19. Heaped(z) /\ FreeApart(z) /\ SameBlocks(w, z) BY <1>15, <1>16, <1>17, <1>18, PlugOK
<1>20. UsedUnits(z) = UsedUnits(w) BY <1>19, SameUnits DEF SameBlocks
<1>21. Tiled(z)
  BY <1>9, <1>12, <1>13, <1>19, <1>20 DEF Tiled, Heaped, SameBlocks
<1>22. rt_smem_free(x, p) = z BY <1>11, <1>18 DEF rt_smem_free
<1>23. Blocks(z) = Blocks(x) \ {p} BY <1>6, <1>13, <1>19 DEF SameBlocks
<1>24. \A b \in Blocks(x) \ {p} : z.item[b].next = x.item[b].next
  <2>1. \A b \in Blocks(x) \ {p} : b \in Blocks(w) /\ b \in DOMAIN x.item BY <1>6, <1>13 DEF Blocks
  <2> QED BY <1>6, <1>12, <1>19, <2>1 DEF SameBlocks
<1> QED BY <1>21, <1>22, <1>23, <1>24

\* rt_smem_realloc when the block shrinks where it is.
Shrunk(x, p, n) ==
    LET p2 == p + Header + n
        y == Split(x, p, n)
    IN plug_holes([y EXCEPT !.used = @ - (Room(x, p) - n), !.lfree = IF p2 < @ THEN p2 ELSE @], p2)

LEMMA ShrinkOK ==
    ASSUME NEW x, Tiled(x), NEW p \in Blocks(x), NEW n \in Nat, n + Header + MinSize < Room(x, p)
    PROVE  /\ Tiled(Shrunk(x, p, n)) /\ Blocks(Shrunk(x, p, n)) = Blocks(x)
           /\ Room(Shrunk(x, p, n), p) = n
           /\ \A b \in Blocks(x) \ {p} : Shrunk(x, p, n).item[b].next = x.item[b].next
<1>1. /\ HeapTyped(x) /\ Chained(x) /\ FreeApart(x) /\ x.used = Cardinality(UsedUnits(x))
      /\ x.used <= x.max /\ x.used \in Nat /\ x.max \in Nat /\ x.max <= End /\ x.lfree \in Nat
      /\ x.lfree \in {End} \cup Free(x) /\ \A r \in {End} \cup Free(x) : x.lfree <= r
  BY TiledFacts
<1>2. p \in DOMAIN x.item /\ p # End /\ p \notin Free(x) BY DEF Blocks, Free
<1>3. PICK e \in Nat : e = x.item[p].next BY <1>1, <1>2, ItemFacts
<1>4. p \in Nat /\ Room(x, p) = e - (p + Header) BY <1>1, <1>2, <1>3, ItemFacts DEF Room
<1>5. PICK q : q = p + Header + n OBVIOUS
<1>6. PICK y : y = Split(x, p, n) OBVIOUS
<1>7. p + Header + n + Header <= x.item[p].next
  <2>1. n + Header + MinSize < e - (p + Header) BY <1>4
  <2> QED BY <1>3, <1>4, <2>1, HeapNumbers
<1>8. /\ HeapTyped(y) /\ q \in Nat /\ q > p /\ q < End /\ q \notin DOMAIN x.item
      /\ DOMAIN y.item = DOMAIN x.item \cup {q}
      /\ ~y.item[q].used /\ y.item[q].next = x.item[p].next /\ y.item[q].prev = p
      /\ \A r \in DOMAIN x.item :
             /\ y.item[r].used = x.item[r].used
             /\ y.item[r].next = IF r = p THEN q ELSE x.item[r].next
             /\ y.item[r].prev = IF r = x.item[p].next /\ r # End THEN q ELSE x.item[r].prev
      /\ y.lfree = x.lfree /\ y.used = x.used /\ y.max = x.max
  BY <1>1, <1>2, <1>5, <1>6, <1>7, SplitItems
<1>9. Chained(y) BY <1>1, <1>2, <1>6, <1>7, SplitChained
<1>10. q # End /\ q # p /\ q \in 0..End /\ e - q \in Nat /\ Room(x, p) - n = e - q
  <2>1. End \in Nat /\ Header \in Nat BY HeapNumbers
  <2> QED BY <1>3, <1>4, <1>5, <1>7, <1>8, <2>1
<1>11. Free(y) = Free(x) \cup {q} BY <1>8 DEF Free, IsUsed
<1>12. Blocks(y) = Blocks(x) BY <1>8, <1>10 DEF Blocks, IsUsed
<1>13. \A b \in Blocks(x) \ {p} : y.item[b].next = x.item[b].next
  <2>1. \A b \in Blocks(x) : b \in DOMAIN x.item BY DEF Blocks
  <2> QED BY <1>8, <2>1
<1>14. y.item[p].next = q BY <1>2, <1>8
<1>15. OtherUnits(y, p) = OtherUnits(x, p) BY <1>12, <1>13 DEF OtherUnits
<1>16. PICK used : used = x.used - (e - q) OBVIOUS
<1>17. used = Cardinality(UsedUnits(y)) /\ used \in 0..End /\ used <= x.max
  <2>1. /\ Cardinality(OtherUnits(x, p)) \in Nat
        /\ Cardinality(UsedUnits(x)) = Cardinality(OtherUnits(x, p)) + (e - p)
    BY <1>1, <1>3, CountUnits
  <2>2. /\ Cardinality(UsedUnits(y)) \in 0..End
        /\ Cardinality(UsedUnits(y)) = Cardinality(OtherUnits(x, p)) + (q - p)
    BY <1>8, <1>9, <1>12, <1>14, <1>15, CountUnits
  <2>3. PICK c \in Nat : c = Cardinality(OtherUnits(x, p)) BY <2>1
  <2>4. x.used = c + (e - p) /\ Cardinality(UsedUnits(y)) = c + (q - p) BY <1>1, <2>1, <2>2, <2>3
  <2>5. used = Cardinality(UsedUnits(y)) BY <1>3, <1>4, <1>8, <1>16, <2>3, <2>4
  <2>6. used <= x.used BY <1>1, <1>10, <1>16
  <2>7. used \in Nat BY <2>2, <2>5, HeapNumbers
  <2> QED BY <1>1, <2>2, <2>5, <2>6, <2>7
<1>18. PICK l : l = IF q < x.lfree THEN q ELSE x.lfree OBVIOUS
<1>19. PICK w : w = [y EXCEPT !.used = @ - (Room(x, p) - n), !.lfree = IF q < @ THEN q ELSE @]
  OBVIOUS
<1>20. /\ w.item = y.item /\ w.lfree = l /\ w.used = used /\ w.max = x.max
       /\ w \in [item : {w.item}, lfree : 0..End, used : 0..End, max : 0..End]
  <2>1. y \in [item : {y.item}, lfree : 0..End, used : 0..End, max : 0..End] BY <1>8 DEF HeapTyped
  <2>2. w = [y EXCEPT !.used = used, !.lfree = l] BY <1>8, <1>10, <1>16, <1>18, <1>19, <2>1
  <2>3. l \in 0..End BY <1>8, <1>10, <1>18, <2>1
  <2> QED BY <1>8, <1>17, <2>1, <2>2, <2>3
<1>21. /\ HeapTyped(w) /\ Chained(w) /\ Free(w) = Free(y) /\ Blocks(w) = Blocks(y)
       /\ UsedUnits(w) = UsedUnits(y)
  BY <1>8, <1>9, <1>20, SameItems
<1>22. w.lfree = Min({End} \cup Free(w))
  <2>1. l \in {End} \cup Free(w) BY <1>1, <1>11, <1>18, <1>21
  <2>2. ASSUME NEW r \in {End} \cup Free(w) PROVE l <= r
    <3>1. l <= q /\ l <= x.lfree /\ l \in Nat BY <1>1, <1>8, <1>18
    <3>2. CASE r = q BY <3>1, <3>2
    <3>3. CASE r # q
      <4>1. r \in {End} \cup Free(x) BY <1>11, <1>21, <3>3
      <4>2. x.lfree <= r /\ r \in Nat BY <1>1, <4>1, HeapNumbers, ItemFacts DEF Free
      <4> QED BY <1>1, <3>1, <4>2
    <3> QED BY <3>2, <3>3
  <2> QED BY <1>20, <1>21, <2>1, <2>2, LowestFree
<1>23. Heaped(w) BY <1>21, <1>22 DEF Heaped
<1>24. q \in Free(w) BY <1>11, <1>21
<1>25. ASSUME NEW r \in Free(w), w.item[r].next \in Free(w) PROVE r = q \/ w.item[r].next = q
  <2> SUFFICES ASSUME r # q, w.item[r].next # q PROVE FALSE OBVIOUS
  <2>1. r \in Free(x) /\ r # p /\ w.item[r].next \in Free(x) BY <1>2, <1>11, <1>21, <1>25
  <2>2. r \in DOMAIN x.item BY <2>1 DEF Free
  <2>3. w.item[r].next = x.item[r].next BY <1>8, <1>20, <2>1, <2>2
  <2> QED BY <1>1, <2>1, <2>3 DEF FreeApart
<1>26. PICK z : z = plug_holes(w, q) OBVIOUS
<1>27. Heaped(z) /\ FreeApart(z) /\ SameBlocks(w, z) BY <1>23, <1>24, <1>25, <1>26, PlugOK
<1>28. UsedUnits(z) = UsedUnits(w) BY <1>27, SameUnits DEF SameBlocks
<1>29. Tiled(z)
  BY <1>17, <1>20, <1>21, <1>27, <1>28 DEF Tiled, Heaped, SameBlocks
<1>30. Shrunk(x, p, n) = z BY <1>5, <1>6, <1>19, <1>26 DEF Shrunk
<1>31. Blocks(z) = Blocks(x) BY <1>12, <1>21, <1>27 DEF SameBlocks
<1>32. \A b \in Blocks(x) : z.item[b].next = y.item[b].next
  BY <1>12, <1>20, <1>21, <1>27 DEF SameBlocks
<1>33. Room(z, p) = n
  <2>1. z.item[p].next = q BY <1>14, <1>32
  <2>2. Header \in Nat BY HeapNumbers
  <2> QED BY <1>4, <1>5, <2>1, <2>2 DEF Room
<1> QED BY <1>13, <1>29, <1>30, <1>31, <1>32, <1>33

\* The first item that is large enough, and the sizes asked for.
LEMMA FirstFitFacts ==
    ASSUME Tiled(heap), NEW n \in Requests, Fitting(heap, AtLeastMin(n)) # {}
    PROVE  /\ AtLeastMin(n) \in Nat /\ n \in Nat /\ AtLeastMin(n) >= n
           /\ FirstFit(AtLeastMin(n)) \in Fitting(heap, AtLeastMin(n))
<1>1. n \in Nat /\ MinSize \in Nat BY HeapConstants, HeapNumbers
<1>2. AtLeastMin(n) \in Nat /\ AtLeastMin(n) >= n BY <1>1 DEF AtLeastMin
<1>3. HeapTyped(heap) BY TiledFacts
<1>4. Fitting(heap, AtLeastMin(n)) \in SUBSET Nat BY <1>3, ItemFacts DEF Fitting
<1> QED BY <1>1, <1>2, <1>4, MinNat DEF FirstFit

\* Blocks that stay where they are keep their room.
LEMMA RoomKept ==
    ASSUME HeapConsistent, NEW y, NEW b \in Blocks(heap), y.item[b].next = heap.item[b].next
    PROVE  Room(y, b) >= live[b]
<1>1. Room(heap, b) >= live[b] BY DEF HeapConsistent
<1> QED BY <1>1 DEF Room

LEMMA ConsistentNext ==
    ASSUME Tiled(heap'), Blocks(heap') = DOMAIN live',
           \A b \in DOMAIN live' : Room(heap', b) >= live'[b]
    PROVE  HeapConsistent'
<1>1. Tiled(heap)' /\ Blocks(heap)' = Blocks(heap') /\ \A b : Room(heap, b)' = Room(heap', b)
  BY DEF Tiled, HeapTyped, Chained, FreeApart, UsedUnits, Free, Blocks, IsUsed, Room
<1> QED BY <1>1 DEF HeapConsistent

LEMMA HeapAllocOK ==
    ASSUME HeapConsistent, NEW n \in Requests, HeapAlloc(n)
    PROVE  HeapConsistent'
<1>1. PICK size : size = AtLeastMin(n) OBVIOUS
<1>2. PICK p : p = FirstFit(size) OBVIOUS
<1>3. /\ Fitting(heap, size) # {} /\ heap' = AllocAt(heap, p, size)
      /\ live' = [q \in DOMAIN live \cup {p} |-> IF q = p THEN n ELSE live[q]]
  BY <1>1, <1>2 DEF HeapAlloc
<1>4. Tiled(heap) /\ Blocks(heap) = DOMAIN live BY DEF HeapConsistent
<1>5. size \in Nat /\ n \in Nat /\ size >= n /\ p \in Fitting(heap, size)
  BY <1>1, <1>2, <1>3, <1>4, FirstFitFacts
<1>6. /\ Tiled(heap') /\ p \notin Blocks(heap) /\ Blocks(heap') = Blocks(heap) \cup {p}
      /\ \A b \in Blocks(heap) : heap'.item[b].next = heap.item[b].next
      /\ Room(heap', p) >= size
  BY <1>3, <1>4, <1>5, AllocOK
<1>7. DOMAIN live' = Blocks(heap') BY <1>3, <1>4, <1>6
<1>8. ASSUME NEW b \in DOMAIN live' PROVE Room(heap', b) >= live'[b]
  <2>1. CASE b = p
    <3>1. live'[b] = n BY <1>3, <2>1
    <3>2. HeapTyped(heap') /\ p \in DOMAIN heap'.item BY <1>6, TiledFacts DEF Blocks
    <3>3. heap'.item[p].next \in Nat /\ p \in Nat BY <3>2, ItemFacts
    <3>4. Room(heap', p) \in Int BY <3>3, HeapNumbers DEF Room
    <3> QED BY <1>5, <1>6, <2>1, <3>1, <3>4
  <2>2. CASE b # p
    <3>1. b \in Blocks(heap) /\ live'[b] = live[b] BY <1>3, <1>4, <2>2
    <3>2. heap'.item[b].next = heap.item[b].next BY <1>6, <3>1
    <3>3. Room(heap', b) >= live[b] BY <3>1, <3>2, RoomKept
    <3> QED BY <3>1, <3>3
  <2> QED BY <2>1, <2>2
<1> QED BY <1>6, <1>7, <1>8, ConsistentNext

LEMMA HeapFreeOK ==
    ASSUME HeapConsistent, NEW p \in DOMAIN live, HeapFree(p)
    PROVE  HeapConsistent'
<1>1. heap' = rt_smem_free(heap, p) /\ live' = [q \in DOMAIN live \ {p} |-> live[q]] BY DEF HeapFree
<1>2. Tiled(heap) /\ Blocks(heap) = DOMAIN live BY DEF HeapConsistent
<1>3. /\ Tiled(heap') /\ Blocks(heap') = Blocks(heap) \ {p}
      /\ \A b \in Blocks(heap) \ {p} : heap'.item[b].next = heap.item[b].next
  BY <1>1, <1>2, FreeOK
<1>4. DOMAIN live' = Blocks(heap') BY <1>1, <1>2, <1>3
<1>5. ASSUME NEW b \in DOMAIN live' PROVE Room(heap', b) >= live'[b]
  <2>1. b \in Blocks(heap) /\ live'[b] = live[b] /\ heap'.item[b].next = heap.item[b].next
    BY <1>1, <1>2, <1>3
  <2>2. Room(heap', b) >= live[b] BY <2>1, RoomKept
  <2> QED BY <2>1, <2>2
<1> QED BY <1>3, <1>4, <1>5, ConsistentNext

LEMMA HeapShrinkOK ==
    ASSUME HeapConsistent, NEW p \in DOMAIN live, NEW n \in Requests, HeapShrink(p, n)
    PROVE  HeapConsistent'
<1>1. /\ n + Header + MinSize < Room(heap, p) /\ heap' = Shrunk(heap, p, n)
      /\ live' = [live EXCEPT ![p] = n]
  BY DEF HeapShrink, Shrunk
<1>2. Tiled(heap) /\ Blocks(heap) = DOMAIN live /\ n \in Nat BY HeapConstants DEF HeapConsistent
<1>3. /\ Tiled(heap') /\ Blocks(heap') = Blocks(heap) /\ Room(heap', p) = n
      /\ \A b \in Blocks(heap) \ {p} : heap'.item[b].next = heap.item[b].next
  BY <1>1, <1>2, ShrinkOK
<1>4. DOMAIN live' = Blocks(heap') BY <1>1, <1>2, <1>3
<1>5. ASSUME NEW b \in DOMAIN live' PROVE Room(heap', b) >= live'[b]
  <2>1. CASE b = p BY <1>1, <1>2, <1>3, <2>1
  <2>2. CASE b # p
    <3>1. b \in Blocks(heap) /\ live'[b] = live[b] /\ heap'.item[b].next = heap.item[b].next
      BY <1>1, <1>2, <1>3, <2>2
    <3>2. Room(heap', b) >= live[b] BY <3>1, RoomKept
    <3> QED BY <3>1, <3>2
  <2> QED BY <2>1, <2>2
<1> QED BY <1>3, <1>4, <1>5, ConsistentNext

LEMMA HeapMoveOK ==
    ASSUME HeapConsistent, NEW p \in DOMAIN live, NEW n \in Requests, HeapMove(p, n)
    PROVE  HeapConsistent'
<1>1. PICK size : size = AtLeastMin(n) OBVIOUS
<1>2. PICK q : q = FirstFit(size) OBVIOUS
<1>3. PICK y : y = AllocAt(heap, q, size) OBVIOUS
<1>4. /\ Fitting(heap, size) # {} /\ heap' = rt_smem_free(y, p)
      /\ live' = [r \in (DOMAIN live \ {p}) \cup {q} |-> IF r = q THEN n ELSE live[r]]
  BY <1>1, <1>2, <1>3 DEF HeapMove
<1>5. Tiled(heap) /\ Blocks(heap) = DOMAIN live BY DEF HeapConsistent
<1>6. size \in Nat /\ n \in Nat /\ size >= n /\ q \in Fitting(heap, size)
  BY <1>1, <1>2, <1>4, <1>5, FirstFitFacts
<1>7. /\ Tiled(y) /\ q \notin Blocks(heap) /\ Blocks(y) = Blocks(heap) \cup {q}
      /\ \A b \in Blocks(heap) : y.item[b].next = heap.item[b].next
      /\ Room(y, q) >= size
  BY <1>3, <1>5, <1>6, AllocOK
<1>8. p \in Blocks(y) /\ p # q BY <1>5, <1>7
<1>9. /\ Tiled(heap') /\ Blocks(heap') = Blocks(y) \ {p}
      /\ \A b \in Blocks(y) \ {p} : heap'.item[b].next = y.item[b].next
  BY <1>4, <1>7, <1>8, FreeOK
<1>10. DOMAIN live' = Blocks(heap') BY <1>4, <1>5, <1>7, <1>8, <1>9
<1>11. ASSUME NEW b \in DOMAIN live' PROVE Room(heap', b) >= live'[b]
  <2>1. CASE b = q
    <3>1. live'[b] = n BY <1>4, <2>1
    <3>2. HeapTyped(y) /\ q \in DOMAIN y.item BY <1>7, TiledFacts DEF Blocks
    <3>3. y.item[q].next \in Nat /\ q \in Nat BY <3>2, ItemFacts
    <3>4. Room(y, q) \in Int BY <3>3, HeapNumbers DEF Room
    <3>5. heap'.item[q].next = y.item[q].next BY <1>7, <1>8, <1>9
    <3>6. Room(heap', q) = Room(y, q) BY <3>5 DEF Room
    <3> QED BY <1>6, <1>7, <2>1, <3>1, <3>4, <3>6
  <2>2. CASE b # q
    <3>1. b \in Blocks(heap) /\ b # p /\ live'[b] = live[b] BY <1>4, <1>5, <2>2
    <3>2. heap'.item[b].next = heap.item[b].next BY <1>7, <1>9, <3>1
    <3>3. Room(heap', b) >= live[b] BY <3>1, <3>2, RoomKept
    <3> QED BY <3>1, <3>3
  <2> QED BY <2>1, <2>2
<1> QED BY <1>9, <1>10, <1>11, ConsistentNext

LEMMA HeapStepOK == ASSUME HeapConsistent, [HeapNext]_heapVars PROVE HeapConsistent'
<1>1. ASSUME NEW n \in Requests, HeapAlloc(n) PROVE HeapConsistent' BY <1>1, HeapAllocOK
<1>2. ASSUME NEW p \in DOMAIN live, HeapFree(p) PROVE HeapConsistent' BY <1>2, HeapFreeOK
<1>3. ASSUME NEW p \in DOMAIN live, NEW n \in Requests, HeapShrink(p, n) PROVE HeapConsistent'
  BY <1>3, HeapShrinkOK
<1>4. ASSUME NEW p \in DOMAIN live, NEW n \in Requests, HeapMove(p, n) PROVE HeapConsistent'
  BY <1>4, HeapMoveOK
<1>5. CASE UNCHANGED heapVars
  <2>1. heap' = heap /\ live' = live BY <1>5 DEF heapVars
  <2>2. Tiled(heap') /\ Blocks(heap') = DOMAIN live' /\ \A b \in DOMAIN live' : Room(heap', b) >= live'[b]
    BY <2>1 DEF HeapConsistent
  <2> QED BY <2>2, ConsistentNext
<1> QED BY <1>1, <1>2, <1>3, <1>4, <1>5 DEF HeapNext

LEMMA HeapInitOK == ASSUME HeapInit PROVE HeapConsistent
<1>1. PICK I : I = [p \in {0, End} |-> [used |-> p = End, next |-> End, prev |-> p]] OBVIOUS
<1>2. /\ heap = [item |-> I, lfree |-> 0, used |-> 0, max |-> 0] /\ live = [p \in {} |-> 0]
  BY <1>1 DEF HeapInit
<1>3. End \in Nat /\ End > 0 /\ 0 \in 0..End /\ End \in 0..End /\ End = HeapSize + Header
      /\ HeapSize \in Nat /\ Header \in Nat
  BY HeapNumbers
<1>4. /\ DOMAIN I = {0, End} /\ I[0] = [used |-> FALSE, next |-> End, prev |-> 0]
      /\ I[End] = [used |-> TRUE, next |-> End, prev |-> End]
  <2>1. (0 = End) = FALSE /\ (End = End) = TRUE BY <1>3
  <2> QED BY <1>1, <2>1
<1>5. heap.item = I /\ heap.lfree = 0 /\ heap.used = 0 /\ heap.max = 0 BY <1>2
<1>6. HeapTyped(heap)
  <2>1. heap \in [item : {heap.item}, lfree : 0..End, used : 0..End, max : 0..End] BY <1>2, <1>3
  <2>2. I \in [{0, End} -> [used : BOOLEAN, next : 0..End, prev : 0..End]]
    <3>1. \A p \in {0, End} : I[p] \in [used : BOOLEAN, next : 0..End, prev : 0..End]
      <4>1. I[0] \in [used : BOOLEAN, next : 0..End, prev : 0..End] BY <1>3, <1>4
      <4>2. I[End] \in [used : BOOLEAN, next : 0..End, prev : 0..End] BY <1>3, <1>4
      <4> QED BY <4>1, <4>2
    <3> QED BY <1>1, <3>1
  <2> QED BY <1>3, <1>4, <1>5, <2>1, <2>2 DEF HeapTyped
<1>7. Chained(heap)
  <2>1. {0, End} \subseteq DOMAIN heap.item /\ IsUsed(heap, End) /\ heap.item[0].prev = 0
    BY <1>4, <1>5 DEF IsUsed
  <2>2. ASSUME NEW p \in DOMAIN heap.item \ {End}
        PROVE  LET n == heap.item[p].next
               IN /\ n \in DOMAIN heap.item /\ n >= p + Header
                  /\ \A q \in DOMAIN heap.item : q <= p \/ q >= n
                  /\ n # End => heap.item[n].prev = p
    <3>1. p = 0 /\ heap.item[p].next = End BY <1>4, <1>5
    <3>2. End >= 0 + Header /\ 0 <= 0 /\ End >= End BY <1>3
    <3> QED BY <1>4, <1>5, <3>1, <3>2
  <2> QED BY <2>1, <2>2 DEF Chained
<1>8. Free(heap) = {0} /\ Blocks(heap) = {} BY <1>3, <1>4, <1>5 DEF Free, Blocks, IsUsed
<1>9. FreeApart(heap) BY <1>3, <1>4, <1>5, <1>8 DEF FreeApart
<1>10. 0 = Min({End} \cup Free(heap))
  <2>1. 0 \in {End} \cup Free(heap) /\ \A p \in {End} \cup Free(heap) : 0 <= p BY <1>3, <1>8
  <2> QED BY <1>6, <2>1, LowestFree
<1>11. Cardinality(UsedUnits(heap)) = 0
  <2>1. UsedUnits(heap) = {} BY <1>8 DEF UsedUnits
  <2> QED BY <2>1, FS_EmptySet
<1>12. Tiled(heap) BY <1>5, <1>6, <1>7, <1>9, <1>10, <1>11 DEF Tiled
<1>13. DOMAIN live = {} BY <1>2
<1> QED BY <1>8, <1>12, <1>13 DEF HeapConsistent

\* For any size of heap, header and least item and any sizes asked for: after every
\* rt_smem_alloc, rt_smem_free and rt_smem_realloc the items tile the heap, no two
\* free items are neighbours, lfree is the lowest free item, the blocks are the used
\* items, each large enough, and the counter of used memory is exact.
THEOREM HeapStaysTiled == HeapSpec => []HeapConsistent
<1>1. HeapInit => HeapConsistent BY HeapInitOK
<1>2. HeapConsistent /\ [HeapNext]_heapVars => HeapConsistent' BY HeapStepOK
<1> QED BY <1>1, <1>2, PTL DEF HeapSpec

=============================================================================
