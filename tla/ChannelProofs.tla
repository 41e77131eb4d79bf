--------------------------- MODULE ChannelProofs ---------------------------
(***************************************************************************)
(* Theorems about mailboxes and message queues, for every size, any number *)
(* of senders and receivers, and every interleaving of their calls with    *)
(* each other, with the tick interrupt and with handlers that send.        *)
(***************************************************************************)
EXTENDS Channel, IpcProofs, FiniteSetTheorems

-----------------------------------------------------------------------------
(* Lists of blocks, and counting *)

\* Two lists, one behind the other.
LEMMA ConcatFacts ==
    ASSUME NEW T, NEW s \in Seq(T), NEW r \in Seq(T)
    PROVE  /\ s \o r \in Seq(T) /\ ToSet(s \o r) = ToSet(s) \cup ToSet(r)
           /\ IsInjective(s \o r) <=>
                (IsInjective(s) /\ IsInjective(r) /\ ToSet(s) \cap ToSet(r) = {})
<1> DEFINE c == s \o r
           m == Len(s)
           n == Len(r)
<1>1. /\ c \in Seq(T) /\ m \in Nat /\ n \in Nat /\ Len(c) = m + n
      /\ \A i \in 1 .. m + n : c[i] = IF i <= m THEN s[i] ELSE r[i - m]
  OBVIOUS
<1> HIDE DEF c, m, n
<1>2. /\ \A i \in 1 .. m : i \in 1 .. m + n /\ c[i] = s[i]
      /\ \A i \in 1 .. n : m + i \in 1 .. m + n /\ c[m + i] = r[i]
      /\ \A i \in 1 .. m + n : i \in 1 .. m \/ \E j \in 1 .. n : i = m + j
  <2>1. ASSUME NEW i \in 1 .. m PROVE i \in 1 .. m + n /\ c[i] = s[i] BY <1>1
  <2>2. ASSUME NEW i \in 1 .. n PROVE m + i \in 1 .. m + n /\ c[m + i] = r[i]
    <3>1. m + i \in 1 .. m + n /\ ~(m + i <= m) /\ m + i - m = i BY <1>1
    <3> QED BY <1>1, <3>1
  <2>3. ASSUME NEW i \in 1 .. m + n PROVE i \in 1 .. m \/ \E j \in 1 .. n : i = m + j
    <3>1. CASE i > m
      <4>1. i - m \in 1 .. n /\ i = m + (i - m) BY <1>1, <3>1
      <4> QED BY <4>1
    <3> QED BY <1>1, <3>1
  <2> QED BY <2>1, <2>2, <2>3
<1>3. /\ \A x : x \in ToSet(c) <=> \E i \in 1 .. m + n : c[i] = x
      /\ \A x : x \in ToSet(s) <=> \E i \in 1 .. m : s[i] = x
      /\ \A x : x \in ToSet(r) <=> \E i \in 1 .. n : r[i] = x
  BY <1>1, InToSet DEF m, n
<1>4. ToSet(c) = ToSet(s) \cup ToSet(r)
  <2>1. ASSUME NEW x \in ToSet(c) PROVE x \in ToSet(s) \cup ToSet(r) BY <1>2, <1>3
  <2>2. ASSUME NEW x \in ToSet(s) PROVE x \in ToSet(c) BY <1>2, <1>3
  <2>3. ASSUME NEW x \in ToSet(r) PROVE x \in ToSet(c) BY <1>2, <1>3
  <2> QED BY <2>1, <2>2, <2>3
<1>5. /\ IsInjective(c) <=> \A i, j \in 1 .. m + n : c[i] = c[j] => i = j
      /\ IsInjective(s) <=> \A i, j \in 1 .. m : s[i] = s[j] => i = j
      /\ IsInjective(r) <=> \A i, j \in 1 .. n : r[i] = r[j] => i = j
  <2>1. IsInjective(c) <=> \A i, j \in 1 .. Len(c) : c[i] = c[j] => i = j BY <1>1, Injective
  <2>2. IsInjective(s) <=> \A i, j \in 1 .. Len(s) : s[i] = s[j] => i = j BY Injective
  <2>3. IsInjective(r) <=> \A i, j \in 1 .. Len(r) : r[i] = r[j] => i = j BY Injective
  <2> QED BY <1>1, <2>1, <2>2, <2>3 DEF m, n
<1>6. ASSUME IsInjective(c)
      PROVE  IsInjective(s) /\ IsInjective(r) /\ ToSet(s) \cap ToSet(r) = {}
  <2>1. IsInjective(s) BY <1>2, <1>5, <1>6
  <2>2. ASSUME NEW i \in 1 .. n, NEW j \in 1 .. n, r[i] = r[j] PROVE i = j
    <3>1. m + i = m + j BY <1>2, <1>5, <1>6, <2>2
    <3> QED BY <1>1, <3>1
  <2>3. ASSUME NEW x \in ToSet(s), x \in ToSet(r) PROVE FALSE
    <3>1. PICK i \in 1 .. m : s[i] = x BY <1>3
    <3>2. PICK j \in 1 .. n : r[j] = x BY <1>3, <2>3
    <3>3. i = m + j BY <1>2, <1>5, <1>6, <3>1, <3>2
    <3> QED BY <1>1, <3>3
  <2> QED BY <1>5, <2>1, <2>2, <2>3
<1>7. ASSUME IsInjective(s), IsInjective(r), ToSet(s) \cap ToSet(r) = {}
      PROVE  IsInjective(c)
  <2> SUFFICES ASSUME NEW i \in 1 .. m + n, NEW j \in 1 .. m + n, c[i] = c[j] PROVE i = j
    BY <1>5
  <2>1. \A a \in 1 .. m, b \in 1 .. n : c[a] # c[m + b]
    <3> SUFFICES ASSUME NEW a \in 1 .. m, NEW b \in 1 .. n PROVE c[a] # c[m + b] OBVIOUS
    <3>1. c[a] \in ToSet(s) /\ c[m + b] \in ToSet(r) BY <1>2, <1>3
    <3> QED BY <1>7, <3>1
  <2>2. CASE i \in 1 .. m /\ j \in 1 .. m BY <1>2, <1>5, <1>7, <2>2
  <2>3. ASSUME NEW a \in 1 .. n, NEW b \in 1 .. n, i = m + a, j = m + b PROVE i = j
    BY <1>2, <1>5, <1>7, <2>3
  <2> QED BY <1>2, <2>1, <2>2, <2>3
<1> QED BY <1>1, <1>4, <1>6, <1>7 DEF c

\* A list of blocks is not longer than there are blocks.
LEMMA BlockListLen ==
    ASSUME NEW s \in Seq(Block), IsInjective(s)
    PROVE  Len(s) \in 0 .. Size
<1>0. Size \in Nat BY ChannelAssumption
<1> DEFINE n == Len(s)
<1>1. n \in Nat /\ DOMAIN s = 1 .. n /\ s \in [1 .. n -> Block] OBVIOUS
<1> HIDE DEF n
<1>2. s \in Injection(1 .. n, Block) BY <1>1 DEF Injection, IsInjective
<1>3. /\ Cardinality(1 .. n) = IF 1 > n THEN 0 ELSE n - 1 + 1
      /\ IsFiniteSet(Block) /\ Cardinality(Block) = IF 1 > Size THEN 0 ELSE Size - 1 + 1
  BY <1>0, <1>1, FS_Interval DEF Block
<1>4. Cardinality(1 .. n) <= Cardinality(Block) BY <1>2, <1>3, FS_Injection
<1> QED BY <1>0, <1>1, <1>3, <1>4 DEF n

\* The accounts of the threads on their way: what is there for them may fall,
\* rise by one when one more is woken, and one may come when something is taken.
LEMMA Account ==
    ASSUME NEW A, NEW B, IsFiniteSet(A), IsFiniteSet(B), NEW n \in Nat, NEW m \in Nat,
           n <= Cardinality(A),
           \/ m <= n /\ A \subseteq B
           \/ m + 1 <= n /\ \E t : A \ {t} \subseteq B
           \/ m <= n + 1 /\ A \subseteq B /\ \E h : h \in B /\ h \notin A
    PROVE  m <= Cardinality(B)
<1>1. Cardinality(A) \in Nat /\ Cardinality(B) \in Nat BY FS_CardinalityType
<1>2. CASE A \subseteq B /\ m <= n
  <2>1. Cardinality(A) <= Cardinality(B) BY <1>2, FS_Subset
  <2> QED BY <1>1, <1>2, <2>1
<1>3. CASE m + 1 <= n /\ \E t : A \ {t} \subseteq B
  <2>1. PICK t : A \ {t} \subseteq B BY <1>3
  <2>2. Cardinality(A \ {t}) <= Cardinality(B) BY <2>1, FS_Subset
  <2>3. Cardinality(A \ {t}) = IF t \in A THEN Cardinality(A) - 1 ELSE Cardinality(A)
    BY FS_RemoveElement
  <2> QED BY <1>1, <1>3, <2>2, <2>3
<1>4. CASE m <= n + 1 /\ A \subseteq B /\ \E h : h \in B /\ h \notin A
  <2>1. PICK h : h \in B /\ h \notin A BY <1>4
  <2>2. Cardinality(A \cup {h}) <= Cardinality(B) BY <1>4, <2>1, FS_Subset
  <2>3. Cardinality(A \cup {h}) = IF h \in A THEN Cardinality(A) ELSE Cardinality(A) + 1
    BY FS_AddElement
  <2> QED BY <1>1, <1>4, <2>1, <2>2, <2>3
<1> QED BY <1>2, <1>3, <1>4

-----------------------------------------------------------------------------
(* The inductive invariant in parts *)

Jobs == [op : {"none", "send", "recv"}, limit : {"no", "limited", "forever"}]
Rings == [pool : [0 .. Size - 1 -> Msg \cup {None}], in : 0 .. Size - 1, out : 0 .. Size - 1]

\* The threads and where they are in their calls.
CallsOK ==
    /\ k \in KState /\ pc \in [Thread -> ChanPC] /\ isr \in {"none", "timers"}
    /\ job \in [Thread -> Jobs] /\ alive \in BOOLEAN
    /\ ThreadsOK /\ Queued

\* The ring and the lists of blocks.
StoreTyped ==
    /\ kind \in {"mb", "mq"} /\ entry \in 0 .. Size /\ ring \in Rings
    /\ lists \in [free : Seq(Block), queue : Seq(Block)]
    /\ text \in [Block -> Msg \cup {None}] /\ block \in [Thread -> Block \cup {None}]

BlocksOK ==
    /\ IsInjective(lists.free) /\ IsInjective(lists.queue)
    /\ ToSet(lists.free) \cap ToSet(lists.queue) = {}
    /\ \A t, u \in Thread : block[t] # None /\ t # u => block[t] # block[u]
    /\ \A b \in Block :
          b \in ToSet(lists.free) \cup ToSet(lists.queue) <=> \A t \in Thread : block[t] # b
    /\ kind = "mq" => entry = Len(lists.queue)

StoreOK == StoreTyped /\ BlocksOK /\ InHand /\ RingMeets

\* What the threads' steps keep, without what the senders' blocks hold.
Sound == CallsOK /\ StoreOK /\ NoLostWakeup /\ Abandoned

\* What the last step did.
EventTyped == event \in [call : {"none", "send", "urgent", "recv", "take", "clear"},
                         msg : Msg \cup {None}]

LEMMA InductiveIs == Inductive <=> Sound /\ Sending /\ EventTyped
<1>1. TypeOK <=> /\ k \in KState /\ pc \in [Thread -> ChanPC] /\ isr \in {"none", "timers"}
                 /\ job \in [Thread -> Jobs] /\ alive \in BOOLEAN /\ StoreTyped /\ EventTyped
  BY DEF TypeOK, StoreTyped, EventTyped, Jobs, Rings
<1>2. ASSUME StoreTyped
      PROVE  /\ ToSet(lists.free \o lists.queue) = ToSet(lists.free) \cup ToSet(lists.queue)
             /\ IsInjective(lists.free \o lists.queue) <=>
                  (/\ IsInjective(lists.free) /\ IsInjective(lists.queue)
                   /\ ToSet(lists.free) \cap ToSet(lists.queue) = {})
  <2>1. lists.free \in Seq(Block) /\ lists.queue \in Seq(Block) BY <1>2 DEF StoreTyped
  <2> QED BY <2>1, ConcatFacts
<1>3. ASSUME StoreTyped PROVE BlocksConserved <=> TypeOK /\ BlocksOK
  BY <1>2, <1>3 DEF BlocksConserved, BlocksOK
<1>4. BlocksConserved => StoreTyped BY <1>1 DEF BlocksConserved
<1> QED BY <1>1, <1>3, <1>4 DEF Inductive, Sound, CallsOK, StoreOK

LEMMA Parts == Sound <=> CallsOK /\ StoreOK /\ NoLostWakeup /\ Abandoned
  BY DEF Sound

LEMMA PartsNext == Sound' <=> CallsOK' /\ StoreOK' /\ NoLostWakeup' /\ Abandoned'
  BY DEF Sound

\* What is known of the threads.
LEMMA Now ==
    ASSUME CallsOK
    PROVE  /\ k \in KState /\ ThreadsOK /\ KernelOK(k, {}) /\ pc \in [Thread -> ChanPC]
           /\ isr \in {"none", "timers"} /\ job \in [Thread -> Jobs] /\ alive \in BOOLEAN
           /\ Rx \in Obj /\ Tx \in Obj /\ Rx # Tx
           /\ k.wait \in [Obj -> Seq(Thread)] /\ k.err \in [Thread -> Err]
           /\ k.cur \in Thread
           /\ \A o \in Obj : ToSet(k.wait[o]) \subseteq Thread
           /\ ToSet(k.wait[Rx]) \cap ToSet(k.wait[Tx]) = {}
           /\ \A o \in Obj \ {Rx, Tx} : k.wait[o] = << >>
           /\ \A t \in ToSet(k.wait[Rx]) : job[t].op = "recv" /\ k.err[t] = "EOK"
           /\ \A t \in ToSet(k.wait[Tx]) : job[t].op = "send" /\ k.err[t] = "EOK"
<1>1. Rx \in Obj /\ Tx \in Obj /\ Rx # Tx BY ChannelAssumption
<1>2. k \in KState /\ ThreadsOK /\ KernelOK(k, {}) BY DEF CallsOK, ThreadsOK
<1>3. k.wait \in [Obj -> Seq(Thread)] /\ k.err \in [Thread -> Err] /\ k.cur \in Thread
  BY <1>2 DEF KState
<1>4. \A o \in Obj : ToSet(k.wait[o]) \subseteq Thread
  <2> SUFFICES ASSUME NEW o \in Obj PROVE ToSet(k.wait[o]) \subseteq Thread OBVIOUS
  <2>1. k.wait[o] \in Seq(Thread) BY <1>3
  <2> QED BY <2>1, EmptyFacts
<1>5. ToSet(k.wait[Rx]) \cap ToSet(k.wait[Tx]) = {} BY <1>1, <1>2 DEF KernelOK, WaitListsOK
<1>6. /\ \A o \in Obj \ {Rx, Tx} : k.wait[o] = << >>
      /\ \A t \in ToSet(k.wait[Rx]) : job[t].op = "recv" /\ k.err[t] = "EOK"
      /\ \A t \in ToSet(k.wait[Tx]) : job[t].op = "send" /\ k.err[t] = "EOK"
  BY DEF CallsOK, Queued
<1>7. /\ pc \in [Thread -> ChanPC]
      /\ isr \in {"none", "timers"} /\ job \in [Thread -> Jobs] /\ alive \in BOOLEAN
  BY DEF CallsOK
<1> QED BY <1>1, <1>2, <1>3, <1>4, <1>5, <1>6, <1>7

\* The channel's suspend lists.
Listed == ToSet(k.wait[Rx]) \cup ToSet(k.wait[Tx])

LEMMA ListedFacts ==
    ASSUME CallsOK, NEW t
    PROVE  /\ t \in Listed <=> \E o \in Obj : t \in ToSet(k.wait[o])
           /\ t \in Listed => t \in Worker /\ Blocked(t) /\ k.err[t] = "EOK"
<1>1. ASSUME NEW o \in Obj, t \in ToSet(k.wait[o]) PROVE t \in Listed
  <2>1. << >> \in Seq(Thread) OBVIOUS
  <2>2. ToSet(<< >>) = {} BY <2>1, EmptyFacts
  <2> QED BY <1>1, <2>2, Now DEF Listed
<1>2. ASSUME t \in Listed PROVE t \in Thread /\ Blocked(t) /\ k.err[t] = "EOK"
  BY <1>2, Now DEF Listed, ThreadsOK
<1>3. Blocked(Idle) => FALSE BY Now DEF ThreadsOK, Blocked
<1> QED BY <1>1, <1>2, <1>3, Now DEF Listed, Worker

\* The running thread, outside the window of a wait.
LEMMA RunningFacts ==
    ASSUME CallsOK, NEW t \in Thread, Executing(t), pc[t] \notin {"wait"}
    PROVE  t = k.cur /\ pc[t] \notin {"sleep", "wait"} /\ t \notin Listed
<1>1. t = k.cur /\ pc[t] \notin {"sleep", "wait"} BY Now DEF Executing, ChanPC, Deleting
<1>2. \A o \in Obj : t \notin ToSet(k.wait[o]) BY <1>1, Now, CurrentRuns
<1> QED BY <1>1, <1>2, ListedFacts

\* Where the test of a loop finds its thread, and the channel.
LEMMA TestingFacts ==
    ASSUME Sound, NEW t \in Thread, NEW op \in {"send", "recv"}, NEW w, Testing(t, op, w)
    PROVE  /\ t = k.cur /\ t # Idle /\ t \in Worker /\ pc[t] \in {"run", "waited"}
           /\ t \notin Listed /\ Usable /\ isr = "none"
           /\ \A q : t \in Woken(q) => q = op
<1>0. CallsOK /\ Abandoned BY Parts
<1>1. Executing(t) /\ pc[t] \in {"run", "waited"} BY DEF Testing, Call, Calling
<1>2. t = k.cur /\ t \notin Listed /\ isr = "none" BY <1>0, <1>1, RunningFacts DEF Executing
<1>3. CASE Call(t) BY <1>1, <1>2, <1>3 DEF Call, Calling, Worker, Woken, Blocked
<1>4. CASE pc[t] = "waited" /\ k.err[t] = "EOK" /\ job[t].op = op
  <2>1. t \in Worker BY <1>0, <1>4, Now DEF ThreadsOK, Worker
  <2>2. t \in Woken(op) BY <1>2, <1>4, <2>1 DEF Woken, Blocked, Listed
  <2>3. Usable BY <1>0, <2>2 DEF Abandoned
  <2> QED BY <1>1, <1>2, <1>4, <2>1, <2>3 DEF Worker, Woken
<1> QED BY <1>3, <1>4 DEF Testing

-----------------------------------------------------------------------------
(* Wakeups *)

LEMMA WokenFinite ==
    ASSUME NEW op
    PROVE  IsFiniteSet(Woken(op)) /\ IsFiniteSet(Woken(op)') /\ Woken(op) \subseteq Thread
<1>1. Woken(op) \in SUBSET Thread /\ Woken(op)' \in SUBSET Thread BY DEF Woken, Worker
<1>2. IsFiniteSet(Thread) BY ChannelAssumption
<1> QED BY <1>1, <1>2, FS_Subset

\* One side of a step keeps NoLostWakeup: w is the list before and v after it, n
\* and m what there is for the threads of the list, A and B who is on the way.
Accounted(w, v, n, m, A, B) ==
    \/ v = << >>
    \/ m = 0
    \/ /\ w # << >>
       /\ \/ m <= n /\ A \subseteq B
          \/ m + 1 <= n /\ \E t : A \ {t} \subseteq B
          \/ m <= n + 1 /\ A \subseteq B /\ \E h : h \in B /\ h \notin A

Counts == Room \in Nat /\ entry \in Nat

LEMMA RoomFacts == StoreOK => Counts
<1> SUFFICES ASSUME StoreOK PROVE Counts OBVIOUS
<1>1. Size \in Nat /\ entry \in 0 .. Size /\ lists.free \in Seq(Block)
  BY ChannelAssumption DEF StoreOK, StoreTyped
<1>2. Len(lists.free) \in Nat BY <1>1
<1> QED BY <1>1, <1>2 DEF Room, Counts

LEMMA RoomFactsNext == StoreOK' => Counts'
  BY RoomFacts, PTL

LEMMA WakesOK ==
    ASSUME Sound, StoreOK',
           Accounted(k.wait[Rx], k'.wait[Rx], entry, entry', Woken("recv"), Woken("recv")'),
           Accounted(k.wait[Tx], k'.wait[Tx], Room, Room', Woken("send"), Woken("send")')
    PROVE  NoLostWakeup'
<1>1. StoreOK /\ NoLostWakeup BY Parts
<1>2. Room \in Nat /\ entry \in Nat /\ Room' \in Nat /\ entry' \in Nat
  BY <1>1, RoomFacts, RoomFactsNext DEF Counts
<1>3. \A op : /\ IsFiniteSet(Woken(op)) /\ IsFiniteSet(Woken(op)')
              /\ Cardinality(Woken(op)') \in Nat
  BY WokenFinite, FS_CardinalityType
<1>4. ASSUME k'.wait[Rx] # << >> PROVE entry' <= Cardinality(Woken("recv")')
  <2>1. CASE entry' = 0
    <3>1. Cardinality(Woken("recv")') \in Nat BY <1>3
    <3> QED BY <2>1, <3>1
  <2>2. CASE entry' # 0
    <3>1. entry <= Cardinality(Woken("recv")) BY <1>1, <1>4, <2>2 DEF Accounted, NoLostWakeup
    <3> QED BY <1>2, <1>3, <1>4, <2>2, <3>1, Account DEF Accounted
  <2> QED BY <2>1, <2>2
<1>5. ASSUME k'.wait[Tx] # << >> PROVE Room' <= Cardinality(Woken("send")')
  <2>1. CASE Room' = 0
    <3>1. Cardinality(Woken("send")') \in Nat BY <1>3
    <3> QED BY <2>1, <3>1
  <2>2. CASE Room' # 0
    <3>1. Room <= Cardinality(Woken("send")) BY <1>1, <1>5, <2>2 DEF Accounted, NoLostWakeup
    <3> QED BY <1>2, <1>3, <1>5, <2>2, <3>1, Account DEF Accounted
  <2> QED BY <2>1, <2>2
<1> QED BY <1>4, <1>5 DEF NoLostWakeup

\* Steps that leave a usable channel, or bring nobody back to another one.
LEMMA AbandonedOK ==
    ASSUME Sound,
           \/ Usable'
           \/ /\ ~Usable /\ Woken("send")' \subseteq Woken("send")
              /\ Woken("recv")' \subseteq Woken("recv")
              /\ \A t \in Thread : pc'[t] \in Copying => pc[t] \in Copying
    PROVE  Abandoned'
  BY Parts DEF Abandoned

\* Nothing changes for u.
Same(u) ==
    /\ Blocked(u)' <=> Blocked(u)
    /\ job'[u] = job[u] /\ k'.err[u] = k.err[u]
    /\ u \in Listed' <=> u \in Listed

LEMMA SameWoken ==
    ASSUME NEW S, \A u \in Worker \ S : Same(u), NEW op
    PROVE  /\ Woken(op) \ S \subseteq Woken(op)'
           /\ Woken(op)' \ S \subseteq Woken(op)
<1>1. ASSUME NEW u \in Worker \ S PROVE u \in Woken(op) <=> u \in Woken(op)'
  <2>1. Same(u) OBVIOUS
  <2> QED BY <2>1 DEF Same, Woken, Listed
<1>2. Woken(op) \subseteq Worker /\ Woken(op)' \subseteq Worker BY DEF Woken
<1> QED BY <1>1, <1>2

\* A step around which nothing changes but for the threads of S.
Around(S) == CallsOK' /\ \A u \in Worker \ S : Same(u)

\* The running thread goes on in its call or leaves it.
LEMMA GoOK ==
    ASSUME CallsOK, NEW t \in Worker, Executing(t), pc[t] # "wait",
           NEW l \in ChanPC \ {"wait", "waited"}, pc' = [pc EXCEPT ![t] = l],
           k' = k \/ \E x \in Err : k' = [k EXCEPT !.err[t] = x],
           job' = job \/ job' = [job EXCEPT ![t] = NoJob],
           isr' = isr, alive' \in BOOLEAN
    PROVE  /\ Around({t}) /\ k'.wait = k.wait
           /\ \A op : Woken(op) \ {t} \subseteq Woken(op)' /\ Woken(op)' \subseteq Woken(op)
           /\ pc'[t] = l /\ \A u \in Thread \ {t} : pc'[u] = pc[u]
<1>0. t \in Thread /\ t # Idle BY DEF Worker
<1>1. t = k.cur /\ pc[t] \notin {"sleep", "wait"} /\ t \notin Listed BY <1>0, RunningFacts
<1>2. Effect(k, k', {}) /\ k'.wait = k.wait /\ \A u \in Thread \ {t} : k'.err[u] = k.err[u]
  <2>1. CASE k' = k
    <3>1. k.timer \ {} = k.timer OBVIOUS
    <3> QED BY <2>1, <3>1, Now DEF Effect, Woke
  <2>2. ASSUME NEW x \in Err, k' = [k EXCEPT !.err[t] = x]
        PROVE  /\ Effect(k, k', {}) /\ k'.wait = k.wait
               /\ \A u \in Thread \ {t} : k'.err[u] = k.err[u]
    <3>1. Effect(k, k', {}) /\ k'.wait = k.wait /\ k'.err = [k.err EXCEPT ![t] = x]
      BY <1>0, <2>2, Now, ErrorOnly
    <3> QED BY <3>1, Now
  <2> QED BY <2>1, <2>2
<1>3. k' \in KState /\ ThreadsOK'
  <2>1. {} \in SUBSET Thread /\ Woke(k, k', {}) BY <1>2 DEF Effect
  <2> QED BY <1>0, <1>1, <1>2, <2>1, Now, MoveStep
<1>4. /\ pc' \in [Thread -> ChanPC] /\ pc'[t] = l /\ \A u \in Thread \ {t} : pc'[u] = pc[u]
  BY <1>0, Now
<1>5. job' \in [Thread -> Jobs] /\ \A u \in Thread \ {t} : job'[u] = job[u]
  <2>1. NoJob \in Jobs BY DEF Jobs, NoJob
  <2> QED BY SMTT(30), <1>0, <2>1, Now
<1>6. Listed' = Listed BY <1>2 DEF Listed
<1>7. Queued'
  <2>1. \A o \in Obj \ {Rx, Tx} : k'.wait[o] = << >> BY <1>2, Now
  <2>2. \A u \in Listed : u \in Thread \ {t} BY <1>1, Now DEF Listed
  <2>3. \A u \in ToSet(k'.wait[Rx]) : job'[u].op = "recv" /\ k'.err[u] = "EOK"
    BY <1>2, <1>5, <2>2, Now DEF Listed
  <2>4. \A u \in ToSet(k'.wait[Tx]) : job'[u].op = "send" /\ k'.err[u] = "EOK"
    BY <1>2, <1>5, <2>2, Now DEF Listed
  <2> QED BY <2>1, <2>3, <2>4 DEF Queued
<1>8. CallsOK' BY <1>3, <1>4, <1>5, <1>7, Now DEF CallsOK
<1>9. \A u \in Worker \ {t} : Same(u) BY <1>2, <1>4, <1>5, <1>6 DEF Same, Worker, Blocked
<1>10. \A op : t \notin Woken(op)' BY <1>4 DEF Woken, Blocked
<1>11. ASSUME NEW op PROVE Woken(op) \ {t} \subseteq Woken(op)' /\ Woken(op)' \subseteq Woken(op)
  <2>1. Woken(op) \ {t} \subseteq Woken(op)' /\ Woken(op)' \ {t} \subseteq Woken(op)
    BY <1>9, SameWoken
  <2> QED BY <1>10, <2>1
<1> QED BY <1>2, <1>4, <1>8, <1>9, <1>11 DEF Around

\* The types of a step of the threads.
CallsTyped ==
    /\ k' \in KState /\ pc' \in [Thread -> ChanPC] /\ isr' \in {"none", "timers"}
    /\ job' \in [Thread -> Jobs] /\ alive' \in BOOLEAN

\* What the threads of a list wait for.
Role(o) == IF o = Rx THEN "recv" ELSE "send"

\* A thread leaves its suspend list.
LEMMA UnlinkOK ==
    ASSUME CallsOK, CallsTyped, ThreadsOK', NEW S \in SUBSET Thread, S \cap Listed = {},
           NEW h \in Listed, k'.wait = WaitWithout(k, h),
           \A u \in Thread \ {h} : k'.err[u] = k.err[u],
           \A u \in Thread \ S : (Blocked(u)' <=> Blocked(u)) /\ job'[u] = job[u]
    PROVE  /\ Around(S \cup {h}) /\ h \notin Listed' /\ h \in Worker
           /\ Blocked(h) /\ Blocked(h)' /\ job'[h] = job[h]
           /\ \A q \in Obj : ToSet(k'.wait[q]) = ToSet(k.wait[q]) \ {h}
           /\ \A q \in Obj : k'.wait[q] # << >> => k.wait[q] # << >>
<1>1. \A q \in Obj : ToSet(k'.wait[q]) = ToSet(k.wait[q]) \ {h}
                     /\ k'.wait[q] = RemoveFirst(k.wait[q], h)
  <2>1. \A q \in Obj : /\ WaitWithout(k, h)[q] = RemoveFirst(k.wait[q], h)
                       /\ ToSet(WaitWithout(k, h)[q]) = ToSet(k.wait[q]) \ {h}
    BY Now, InWaitWithout
  <2> QED BY <2>1
<1>2. h \in Worker /\ h \in Thread /\ h \notin S /\ Blocked(h) BY ListedFacts DEF Worker
<1>3. Listed' = Listed \ {h} BY ZenonT(40), <1>1, Now DEF Listed
<1>4. \A u \in Listed' : u \in Thread \ S /\ u # h BY <1>3, Now DEF Listed
<1>5. ASSUME NEW q \in Obj, k'.wait[q] # << >> PROVE k.wait[q] # << >>
  <2>1. k.wait[q] \in Seq(Thread) /\ k'.wait[q] \in Seq(Thread) BY Now DEF CallsTyped, KState
  <2>2. (k.wait[q] = << >> <=> ToSet(k.wait[q]) = {})
        /\ (k'.wait[q] = << >> <=> ToSet(k'.wait[q]) = {})
    BY SMTT(30), <2>1, EmptyFacts
  <2> QED BY <1>1, <1>5, <2>2
<1>6. Queued'
  <2>1. ASSUME NEW o \in Obj \ {Rx, Tx} PROVE k'.wait[o] = << >> BY <1>5, Now
  <2>0. /\ \A u \in Listed' : job'[u] = job[u] /\ k'.err[u] = k.err[u]
        /\ ToSet(k'.wait[Rx]) \subseteq ToSet(k.wait[Rx])
        /\ ToSet(k'.wait[Tx]) \subseteq ToSet(k.wait[Tx])
    BY <1>1, <1>4, Now
  <2>2. \A u \in ToSet(k'.wait[Rx]) : job'[u].op = "recv" /\ k'.err[u] = "EOK"
    BY <2>0, Now DEF Listed
  <2>3. \A u \in ToSet(k'.wait[Tx]) : job'[u].op = "send" /\ k'.err[u] = "EOK"
    BY <2>0, Now DEF Listed
  <2> QED BY <2>1, <2>2, <2>3 DEF Queued
<1>7. CallsOK' BY <1>6 DEF CallsOK, CallsTyped
<1>8. \A u \in Worker \ (S \cup {h}) : Same(u) BY <1>3 DEF Same, Worker
<1> QED BY <1>1, <1>2, <1>3, <1>5, <1>7, <1>8 DEF Around

\* The first thread of a list is woken.
Served(S, o) ==
    /\ CallsOK'
    /\ \A q \in {Rx, Tx} \ {o} : k'.wait[q] = k.wait[q]
    /\ \A op : Woken(op) \ S \subseteq Woken(op)'
    /\ \/ k'.wait[o] = << >>
       \/ k.wait[o] # << >> /\ \E h : h \in Woken(Role(o))' /\ h \notin Woken(Role(o))

LEMMA ServedOK ==
    ASSUME CallsOK, CallsTyped, ThreadsOK', NEW S \in SUBSET Thread, S \cap Listed = {},
           NEW o \in {Rx, Tx}, k.wait[o] # << >>, NEW h \in ToSet(k.wait[o]),
           k'.wait = WaitWithout(k, h), k'.wait = [k.wait EXCEPT ![o] = Tail(@)],
           k'.err = k.err,
           \A u \in Thread \ S : (Blocked(u)' <=> Blocked(u)) /\ job'[u] = job[u]
    PROVE  Served(S, o)
<1>1. h \in Listed BY DEF Listed
<1>2. /\ Around(S \cup {h}) /\ h \notin Listed' /\ h \in Worker
      /\ Blocked(h) /\ Blocked(h)' /\ job'[h] = job[h]
  <2>1. \A u \in Thread \ {h} : k'.err[u] = k.err[u] OBVIOUS
  <2> QED BY <1>1, <2>1, UnlinkOK
<1>3. \A q \in {Rx, Tx} \ {o} : k'.wait[q] = k.wait[q] BY Now
<1>4. \A op : h \notin Woken(op) BY <1>1 DEF Woken, Listed
<1>5. \A op : Woken(op) \ S \subseteq Woken(op)'
  <2> SUFFICES ASSUME NEW op PROVE Woken(op) \ S \subseteq Woken(op)' OBVIOUS
  <2>1. Woken(op) \ (S \cup {h}) \subseteq Woken(op)' BY <1>2, SameWoken DEF Around
  <2> QED BY <1>4, <2>1
<1>6. job[h].op = Role(o) /\ k.err[h] = "EOK" BY Now DEF Role
<1>7. h \in Woken(Role(o))' BY <1>2, <1>6 DEF Woken, Listed
<1> QED BY <1>2, <1>3, <1>4, <1>5, <1>7 DEF Served, Around

\* The end of a call.
LEMMA FinishOK ==
    ASSUME CallsOK, NEW t \in Worker, Executing(t), pc[t] # "wait",
           NEW o \in {Rx, Tx}, Finish(t, o), isr' = isr, alive' = alive
    PROVE  /\ Served({t}, o) /\ pc'[t] \in {"run", "sched"}
           /\ \A u \in Thread \ {t} : pc'[u] = pc[u]
<1>0. t \in Thread /\ t # Idle /\ o \in Obj BY Now DEF Worker
<1>1. t = k.cur /\ pc[t] \notin {"sleep", "wait"} /\ t \notin Listed BY <1>0, RunningFacts
<1>2. PICK l \in {"run", "sched"} : pc' = [pc EXCEPT ![t] = l] BY DEF Finish, Goto
<1>3. job' = [job EXCEPT ![t] = NoJob] BY DEF Finish
<1>4. /\ pc' \in [Thread -> ChanPC] /\ pc'[t] \in {"run", "sched"}
      /\ \A u \in Thread \ {t} : pc'[u] = pc[u]
  BY <1>0, <1>2, Now DEF ChanPC
<1>5. job' \in [Thread -> Jobs] /\ \A u \in Thread \ {t} : job'[u] = job[u]
  <2>1. NoJob \in Jobs BY DEF Jobs, NoJob
  <2> QED BY <1>0, <1>3, <2>1, Now
<1>6. CASE k.wait[o] # << >>
  <2>1. k' = _ipc_list_resume(k, o) BY <1>6 DEF Finish, Wake
  <2> DEFINE h == Head(k.wait[o])
  <2>2. /\ k' \in KState /\ ThreadsOK' /\ h \in Thread /\ h \in ToSet(k.wait[o])
        /\ k'.wait = [k.wait EXCEPT ![o] = Tail(@)] /\ k'.err = k.err
        /\ k'.wait = WaitWithout(k, h)
    BY <1>0, <1>1, <1>2, <1>6, <2>1, Now, ResumeStep
  <2> HIDE DEF h
  <2>3. CallsTyped BY <1>4, <1>5, <2>2, Now DEF CallsTyped
  <2>4. \A u \in Thread \ {t} : (Blocked(u)' <=> Blocked(u)) /\ job'[u] = job[u]
    BY <1>4, <1>5 DEF Blocked
  <2>5. {t} \in SUBSET Thread /\ {t} \cap Listed = {} BY <1>0, <1>1
  <2>6. Served({t}, o) BY <1>6, <2>2, <2>3, <2>4, <2>5, ServedOK
  <2> QED BY <1>4, <2>6
<1>7. CASE k.wait[o] = << >>
  <2>1. k' = k BY <1>7 DEF Finish, Wake
  <2>2. l \in ChanPC \ {"wait", "waited"} BY DEF ChanPC
  <2>3. Around({t}) BY <1>2, <1>3, <2>1, <2>2, Now, GoOK
  <2>4. \A op : Woken(op) \ {t} \subseteq Woken(op)' BY <2>3, SameWoken DEF Around
  <2> QED BY <1>4, <1>7, <2>1, <2>3, <2>4 DEF Served, Around
<1> QED BY <1>6, <1>7

\* The same in an interrupt handler.
LEMMA IsrWakeOK ==
    ASSUME CallsOK, k' = IF k.wait[Rx] # << >> THEN rt_schedule(Wake(k, Rx)) ELSE k,
           pc' = pc, isr' = isr, job' = job, alive' = alive
    PROVE  Served({}, Rx)
<1>1. CASE k.wait[Rx] # << >>
  <2>1. k' = rt_schedule(_ipc_list_resume(k, Rx)) BY <1>1 DEF Wake
  <2> DEFINE h == Head(k.wait[Rx])
  <2>2. /\ k' \in KState /\ ThreadsOK' /\ h \in Thread /\ h \in ToSet(k.wait[Rx])
        /\ k'.wait = [k.wait EXCEPT ![Rx] = Tail(@)] /\ k'.err = k.err
        /\ k'.wait = WaitWithout(k, h)
    BY <1>1, <2>1, Now, IsrResumeStep
  <2> HIDE DEF h
  <2>3. CallsTyped BY <2>2, Now DEF CallsTyped
  <2>4. \A u \in Thread \ {} : (Blocked(u)' <=> Blocked(u)) /\ job'[u] = job[u] BY DEF Blocked
  <2>5. {} \in SUBSET Thread /\ {} \cap Listed = {} /\ Rx \in {Rx, Tx} OBVIOUS
  <2> QED BY <1>1, <2>2, <2>3, <2>4, <2>5, ServedOK
<1>2. CASE k.wait[Rx] = << >>
  <2>1. k' = k BY <1>2
  <2>2. CallsOK' BY <2>1 DEF CallsOK, ThreadsOK, Queued, Blocked
  <2>3. \A op : Woken(op)' = Woken(op) BY <2>1 DEF Woken, Blocked
  <2> QED BY <1>2, <2>1, <2>2, <2>3 DEF Served
<1> QED BY <1>1, <1>2

\* A thread starts to wait.
LEMMA WaitOK ==
    ASSUME CallsOK, NEW t \in Worker, Executing(t), pc[t] # "wait",
           NEW o \in {Rx, Tx}, NEW w \in {"no", "limited", "forever"},
           k' = Blocking(k, o, t, Flag, w), pc' = [pc EXCEPT ![t] = "wait"],
           job' = [job EXCEPT ![t] = [op |-> Role(o), limit |-> w]],
           isr' = isr, alive' = alive
    PROVE  /\ CallsOK' /\ \A q \in {Rx, Tx} \ {o} : k'.wait[q] = k.wait[q]
           /\ \A op : Woken(op) \ {t} \subseteq Woken(op)'
           /\ pc'[t] = "wait" /\ \A u \in Thread \ {t} : pc'[u] = pc[u]
<1>0. t \in Thread /\ t # Idle /\ o \in Obj BY Now DEF Worker
<1>1. t = k.cur /\ pc[t] \notin {"sleep", "wait"} /\ t \notin Listed BY <1>0, RunningFacts
<1>2. ThreadsOK' /\ BlockedOn(k, k', o, t, Flag, w) BY <1>0, <1>1, Now, WaitStep
<1>3. /\ k' \in KState /\ ToSet(k'.wait[o]) = ToSet(k.wait[o]) \cup {t}
      /\ k'.err = [k.err EXCEPT ![t] = "EOK"]
      /\ \A q \in Obj \ {o} : k'.wait[q] = k.wait[q]
  BY <1>0, <1>2, Now DEF BlockedOn, Linked
<1>4. k'.err[t] = "EOK" /\ \A u \in Thread \ {t} : k'.err[u] = k.err[u] BY <1>0, <1>3, Now
<1>5. /\ pc' \in [Thread -> ChanPC] /\ pc'[t] = "wait"
      /\ \A u \in Thread \ {t} : pc'[u] = pc[u]
  BY <1>0, Now DEF ChanPC
<1>6. /\ job' \in [Thread -> Jobs] /\ job'[t].op = Role(o)
      /\ \A u \in Thread \ {t} : job'[u] = job[u]
  <2>1. [op |-> Role(o), limit |-> w] \in Jobs BY DEF Jobs, Role
  <2> QED BY <1>0, <2>1, Now
<1>7. Listed' = Listed \cup {t} BY <1>0, <1>3, Now DEF Listed
<1>8. \A u \in Listed : u \in Thread \ {t} BY <1>1, Now DEF Listed
<1>9. Queued'
  <2>1. ASSUME NEW q \in Obj \ {Rx, Tx} PROVE k'.wait[q] = << >> BY <1>3, Now
  <2>2. \A u \in ToSet(k'.wait[Rx]) : job'[u].op = "recv" /\ k'.err[u] = "EOK"
    <3>1. CASE o = Rx BY <1>3, <1>4, <1>6, <1>8, <3>1, Now DEF Listed, Role
    <3>2. CASE o # Rx BY <1>3, <1>4, <1>6, <1>8, <3>2, Now DEF Listed
    <3> QED BY <3>1, <3>2
  <2>3. \A u \in ToSet(k'.wait[Tx]) : job'[u].op = "send" /\ k'.err[u] = "EOK"
    <3>1. CASE o = Tx BY <1>3, <1>4, <1>6, <1>8, <3>1, Now DEF Listed, Role
    <3>2. CASE o # Tx BY <1>3, <1>4, <1>6, <1>8, <3>2, Now DEF Listed
    <3> QED BY <3>1, <3>2
  <2> QED BY <2>1, <2>2, <2>3 DEF Queued
<1>10. CallsOK' BY <1>2, <1>3, <1>5, <1>6, <1>9, Now DEF CallsOK
<1>11. \A u \in Worker \ {t} : Same(u) BY <1>4, <1>5, <1>6, <1>7 DEF Same, Worker, Blocked
<1>12. \A op : Woken(op) \ {t} \subseteq Woken(op)' BY <1>11, SameWoken
<1> QED BY <1>0, <1>3, <1>5, <1>10, <1>12, Now

-----------------------------------------------------------------------------
(* The ring and the blocks *)

LEMMA StoreNow ==
    ASSUME StoreOK
    PROVE  /\ StoreTyped /\ BlocksOK /\ InHand /\ RingMeets
           /\ lists.free \in Seq(Block) /\ lists.queue \in Seq(Block)
           /\ ToSet(lists.free) \subseteq Block /\ ToSet(lists.queue) \subseteq Block
           /\ None \notin Block /\ None \notin Msg /\ Size \in Nat /\ Size > 0
           /\ \A b \in ToSet(lists.queue) : text[b] \in Msg
<1>1. StoreTyped /\ BlocksOK /\ InHand /\ RingMeets BY DEF StoreOK
<1>2. lists.free \in Seq(Block) /\ lists.queue \in Seq(Block) BY <1>1 DEF StoreTyped
<1>3. ToSet(lists.free) \subseteq Block /\ ToSet(lists.queue) \subseteq Block
  BY <1>2, EmptyFacts
<1>4. Size \in Nat \ {0} /\ None \notin Msg \cup Nat BY ChannelAssumption
<1>5. Block \subseteq Nat BY <1>4 DEF Block
<1>6. ASSUME NEW b \in ToSet(lists.queue) PROVE text[b] \in Msg
  <2>1. PICK i \in 1 .. Len(lists.queue) : lists.queue[i] = b BY <1>2, InToSet
  <2> QED BY <1>1, <2>1 DEF InHand
<1>7. Size \in Nat /\ Size > 0 BY <1>4
<1>8. None \notin Block /\ None \notin Msg BY <1>4, <1>5
<1> QED BY <1>1, <1>2, <1>3, <1>6, <1>7, <1>8

\* A step that leaves the store alone.
LEMMA SameStoreOK ==
    ASSUME StoreOK, kind' = kind, UNCHANGED store,
           \A u \in Thread : pc'[u] \in Copying <=> pc[u] \in Copying
    PROVE  StoreOK' /\ Room' = Room /\ entry' = entry
<1>1. /\ entry' = entry /\ ring' = ring /\ lists' = lists /\ text' = text /\ block' = block
  BY DEF store
<1>2. StoreTyped' /\ BlocksOK' BY <1>1 DEF StoreOK, StoreTyped, BlocksOK
<1>3. InHand' BY <1>1 DEF StoreOK, InHand
<1>4. RingMeets' BY <1>1 DEF StoreOK, RingMeets, RingPlace
<1> QED BY <1>1, <1>2, <1>3, <1>4 DEF StoreOK, Room

\* A step of a mailbox.
LEMMA RingStepOK ==
    ASSUME StoreOK, kind = "mb", kind' = kind, ring' \in Rings, entry' \in 0 .. Size,
           RingMeets', lists' = lists, text' = text, block' = block,
           \A u \in Thread : pc'[u] \in Copying => pc[u] \in Copying
    PROVE  StoreOK' /\ Room' = Size - entry'
<1>1. StoreTyped' /\ BlocksOK' BY DEF StoreOK, StoreTyped, BlocksOK
<1>2. \A u \in Thread : pc[u] \notin Copying /\ block[u] = None BY DEF StoreOK, InHand
<1>3. InHand' BY <1>2, StoreNow DEF InHand
<1> QED BY <1>1, <1>3 DEF StoreOK, Room

\* The offsets as the words come and go.
LEMMA PlaceFacts ==
    ASSUME StoreOK, kind = "mb"
    PROVE  /\ entry < Size => Onward(ring.in) = RingPlace(entry + 2)
           /\ Onward(ring.in) \in 0 .. Size - 1 /\ Onward(ring.out) \in 0 .. Size - 1
<1>1. Size \in Nat /\ Size > 0 BY StoreNow
<1>2. PICK i, o, e : i = ring.in /\ o = ring.out /\ e = entry OBVIOUS
<1>3. i \in 0 .. Size - 1 /\ o \in 0 .. Size - 1 /\ e \in 0 .. Size
  BY <1>2 DEF StoreOK, StoreTyped, Rings
<1>4. i = IF o + (e + 1) - 1 < Size THEN o + (e + 1) - 1 ELSE o + (e + 1) - 1 - Size
  BY <1>2 DEF StoreOK, RingMeets, RingPlace
<1>5. e < Size => (IF i + 1 >= Size THEN 0 ELSE i + 1) =
                  IF o + (e + 2) - 1 < Size THEN o + (e + 2) - 1 ELSE o + (e + 2) - 1 - Size
  BY <1>1, <1>3, <1>4
<1>6. /\ (IF i + 1 >= Size THEN 0 ELSE i + 1) \in 0 .. Size - 1
      /\ (IF o + 1 >= Size THEN 0 ELSE o + 1) \in 0 .. Size - 1
  BY <1>1, <1>3
<1> QED BY <1>2, <1>5, <1>6 DEF Onward, RingPlace

LEMMA RingSendOK ==
    ASSUME StoreOK, kind = "mb", entry < Size, NEW m \in Msg, ring' = RingSend(m),
           entry' = entry + 1, kind' = kind, lists' = lists, text' = text, block' = block,
           \A u \in Thread : pc'[u] \in Copying => pc[u] \in Copying
    PROVE  StoreOK' /\ Room' = Size - entry'
<1>1. Size \in Nat /\ entry \in 0 .. Size /\ ring \in Rings
  BY StoreNow DEF StoreOK, StoreTyped
<1>2. /\ Onward(ring.in) = RingPlace(entry + 2) /\ Onward(ring.in) \in 0 .. Size - 1
  BY PlaceFacts
<1>3. ring' \in Rings /\ ring'.in = Onward(ring.in) /\ ring'.out = ring.out
  BY <1>1, <1>2 DEF RingSend, Rings
<1>4. entry' \in 0 .. Size /\ entry' + 1 = entry + 2 BY <1>1
<1>5. RingMeets' BY <1>2, <1>3, <1>4 DEF RingMeets, RingPlace
<1> QED BY <1>3, <1>4, <1>5, RingStepOK

LEMMA RingUrgentOK ==
    ASSUME StoreOK, kind = "mb", entry < Size, NEW m \in Msg, ring' = RingUrgent(m),
           entry' = entry + 1, kind' = kind, lists' = lists, text' = text, block' = block,
           \A u \in Thread : pc'[u] \in Copying => pc[u] \in Copying
    PROVE  StoreOK' /\ Room' = Size - entry'
<1>1. Size \in Nat /\ Size > 0 /\ entry \in 0 .. Size /\ ring \in Rings
  BY StoreNow DEF StoreOK, StoreTyped
<1>2. PICK p : p = IF ring.out > 0 THEN ring.out - 1 ELSE Size - 1 OBVIOUS
<1>3. ring.out \in 0 .. Size - 1 /\ p \in 0 .. Size - 1 BY <1>1, <1>2 DEF Rings
<1>4. ring' \in Rings /\ ring'.in = ring.in /\ ring'.out = p
  BY <1>1, <1>2, <1>3 DEF RingUrgent, Rings
<1>5. PICK i, o, e : i = ring.in /\ o = ring.out /\ e = entry OBVIOUS
<1>6. i = IF o + (e + 1) - 1 < Size THEN o + (e + 1) - 1 ELSE o + (e + 1) - 1 - Size
  BY <1>5 DEF StoreOK, RingMeets, RingPlace
<1>7. i = IF p + (e + 1 + 1) - 1 < Size THEN p + (e + 1 + 1) - 1
          ELSE p + (e + 1 + 1) - 1 - Size
  BY <1>1, <1>2, <1>3, <1>5, <1>6
<1>8. RingMeets' BY <1>4, <1>5, <1>7 DEF RingMeets, RingPlace
<1>9. entry' \in 0 .. Size BY <1>1
<1> QED BY <1>4, <1>8, <1>9, RingStepOK

LEMMA RingRecvOK ==
    ASSUME StoreOK, kind = "mb", entry > 0,
           ring' = [ring EXCEPT !.pool[ring.out] = None, !.out = Onward(@)],
           entry' = entry - 1, kind' = kind, lists' = lists, text' = text, block' = block,
           \A u \in Thread : pc'[u] \in Copying => pc[u] \in Copying
    PROVE  StoreOK' /\ Room' = Size - entry'
<1>1. Size \in Nat /\ Size > 0 /\ entry \in 0 .. Size /\ ring \in Rings
  BY StoreNow DEF StoreOK, StoreTyped
<1>2. PICK p : p = Onward(ring.out) OBVIOUS
<1>3. ring.out \in 0 .. Size - 1 /\ p \in 0 .. Size - 1 BY <1>1, <1>2, PlaceFacts DEF Rings
<1>4. ring' \in Rings /\ ring'.in = ring.in /\ ring'.out = p
  BY <1>1, <1>2, <1>3 DEF Rings
<1>5. PICK i, o, e : i = ring.in /\ o = ring.out /\ e = entry OBVIOUS
<1>6. i = IF o + (e + 1) - 1 < Size THEN o + (e + 1) - 1 ELSE o + (e + 1) - 1 - Size
  BY <1>5 DEF StoreOK, RingMeets, RingPlace
<1>7. p = IF o + 1 >= Size THEN 0 ELSE o + 1 BY <1>2, <1>5 DEF Onward
<1>8. i = IF p + (e - 1 + 1) - 1 < Size THEN p + (e - 1 + 1) - 1
          ELSE p + (e - 1 + 1) - 1 - Size
  BY <1>1, <1>3, <1>5, <1>6, <1>7
<1>9. RingMeets' BY <1>4, <1>5, <1>8 DEF RingMeets, RingPlace
<1>10. entry' \in 0 .. Size BY <1>1
<1> QED BY <1>4, <1>9, <1>10, RingStepOK

LEMMA EmptyRingFacts ==
    ASSUME ring' = EmptyRing, entry' = 0
    PROVE  ring' \in Rings /\ RingMeets' /\ entry' \in 0 .. Size
<1>1. Size \in Nat /\ Size > 0 BY ChannelAssumption
<1>2. 0 \in 0 .. Size - 1 /\ 0 \in 0 .. Size /\ 0 + (0 + 1) - 1 = 0 /\ 0 < Size BY <1>1
<1>3. ring' \in Rings /\ ring'.in = 0 /\ ring'.out = 0 BY <1>2 DEF EmptyRing, Rings
<1> QED BY <1>2, <1>3 DEF RingMeets, RingPlace

\* A step of a message queue, and the lists of a new channel.
LEMMA ListStepOK ==
    ASSUME StoreOK, kind' = kind, ring' \in Rings, RingMeets',
           NEW f \in Seq(Block), NEW q \in Seq(Block), lists' = [free |-> f, queue |-> q],
           IsInjective(f), IsInjective(q), ToSet(f) \cap ToSet(q) = {}, entry' = Len(q),
           text' \in [Block -> Msg \cup {None}], block' \in [Thread -> Block \cup {None}],
           \A t, u \in Thread : block'[t] # None /\ t # u => block'[t] # block'[u],
           \A b \in Block : b \in ToSet(f) \cup ToSet(q) <=> \A t \in Thread : block'[t] # b,
           \A t \in Thread :
              /\ block'[t] # None <=> pc'[t] \in Copying
              /\ pc'[t] \in Copying => kind = "mq" /\ text'[block'[t]] \in Msg,
           \A b \in ToSet(q) : text'[b] \in Msg
    PROVE  StoreOK' /\ (kind = "mq" => Room' = Len(f))
<1>1. lists'.free = f /\ lists'.queue = q /\ lists' \in [free : Seq(Block), queue : Seq(Block)]
  OBVIOUS
<1>2. entry' \in 0 .. Size BY BlockListLen
<1>3. StoreTyped' BY <1>1, <1>2 DEF StoreOK, StoreTyped
<1>4. BlocksOK' BY <1>1 DEF BlocksOK
<1>5. \A i \in 1 .. Len(q) : text'[q[i]] \in Msg BY InToSet
<1>6. InHand' BY <1>1, <1>5 DEF InHand
<1> QED BY <1>1, <1>3, <1>4, <1>6 DEF StoreOK, Room

\* The first blocks of the lists.
LEMMA FreeTail ==
    ASSUME StoreOK, lists.free # << >>
    PROVE  LET b == Head(lists.free)
               f == Tail(lists.free)
           IN  /\ b \in Block /\ b \in ToSet(lists.free) /\ b \notin ToSet(lists.queue)
               /\ f \in Seq(Block) /\ IsInjective(f) /\ ToSet(f) = ToSet(lists.free) \ {b}
               /\ Len(f) = Len(lists.free) - 1
<1>1. /\ lists.free \in Seq(Block) /\ IsInjective(lists.free)
      /\ ToSet(lists.free) \cap ToSet(lists.queue) = {}
  BY StoreNow DEF BlocksOK
<1> QED BY <1>1, TailFacts

LEMMA QueueTail ==
    ASSUME StoreOK, lists.queue # << >>
    PROVE  LET b == Head(lists.queue)
               q == Tail(lists.queue)
           IN  /\ b \in Block /\ b \in ToSet(lists.queue) /\ b \notin ToSet(lists.free)
               /\ q \in Seq(Block) /\ IsInjective(q) /\ ToSet(q) = ToSet(lists.queue) \ {b}
               /\ Len(q) = Len(lists.queue) - 1
<1>1. /\ lists.queue \in Seq(Block) /\ IsInjective(lists.queue)
      /\ ToSet(lists.free) \cap ToSet(lists.queue) = {}
  BY StoreNow DEF BlocksOK
<1> QED BY <1>1, TailFacts

\* A thread takes a block in its hands, and gives it back.
Stored == ToSet(lists.free) \cup ToSet(lists.queue)

LEMMA HandTake ==
    ASSUME StoreOK, NEW t \in Thread, block[t] = None, NEW b \in Block, b \in Stored,
           block' = [block EXCEPT ![t] = b]
    PROVE  /\ block' \in [Thread -> Block \cup {None}] /\ block'[t] = b
           /\ \A u \in Thread \ {t} : block'[u] = block[u]
           /\ \A u, v \in Thread : block'[u] # None /\ u # v => block'[u] # block'[v]
           /\ \A x \in Block : (\A u \in Thread : block'[u] # x) <=> (x \in Stored /\ x # b)
<1>0. block \in [Thread -> Block \cup {None}] /\ None \notin Block BY StoreNow DEF StoreTyped
<1>1. /\ block' \in [Thread -> Block \cup {None}] /\ block'[t] = b
      /\ \A u \in Thread \ {t} : block'[u] = block[u]
  BY <1>0
<1>2. \A u \in Thread : block[u] # b BY StoreNow DEF BlocksOK, Stored
<1>3. \A u, v \in Thread : block'[u] # None /\ u # v => block'[u] # block'[v]
  BY <1>1, <1>2, StoreNow DEF BlocksOK
<1>4. \A x \in Block : x \in Stored <=> \A u \in Thread : block[u] # x
  BY StoreNow DEF BlocksOK, Stored
<1>5. ASSUME NEW x \in Block
      PROVE  (\A u \in Thread : block'[u] # x) <=> (x \in Stored /\ x # b)
  <2>1. CASE x = b BY <1>1, <2>1
  <2>2. CASE x # b
    <3>1. \A u \in Thread : block'[u] # x <=> block[u] # x BY <1>0, <1>1, <2>2
    <3> QED BY <1>4, <2>2, <3>1
  <2> QED BY <2>1, <2>2
<1> QED BY <1>1, <1>3, <1>5

LEMMA HandDrop ==
    ASSUME StoreOK, NEW t \in Thread, block[t] \in Block,
           block' = [block EXCEPT ![t] = None]
    PROVE  /\ block' \in [Thread -> Block \cup {None}] /\ block'[t] = None
           /\ block[t] \notin Stored
           /\ \A u \in Thread \ {t} : block'[u] = block[u] /\ block[u] # block[t]
           /\ \A u, v \in Thread : block'[u] # None /\ u # v => block'[u] # block'[v]
           /\ \A x \in Block : (\A u \in Thread : block'[u] # x) <=> (x \in Stored \/ x = block[t])
<1>0. block \in [Thread -> Block \cup {None}] /\ None \notin Block BY StoreNow DEF StoreTyped
<1> DEFINE b == block[t]
<1>1. /\ block' \in [Thread -> Block \cup {None}] /\ block'[t] = None
      /\ \A u \in Thread \ {t} : block'[u] = block[u]
  BY <1>0
<1>2. \A u \in Thread \ {t} : block[u] # b BY <1>0, StoreNow DEF BlocksOK
<1>3. \A u, v \in Thread : block'[u] # None /\ u # v => block'[u] # block'[v]
  BY <1>1, StoreNow DEF BlocksOK
<1>4. \A x \in Block : x \in Stored <=> \A u \in Thread : block[u] # x
  BY StoreNow DEF BlocksOK, Stored
<1>5. ASSUME NEW x \in Block
      PROVE  (\A u \in Thread : block'[u] # x) <=> (x \in Stored \/ x = b)
  <2>1. CASE x = b BY <1>0, <1>1, <1>2, <2>1
  <2>2. CASE x # b
    <3>1. \A u \in Thread : block'[u] # x <=> block[u] # x BY <1>0, <1>1, <2>2
    <3> QED BY <1>4, <2>2, <3>1
  <2> QED BY <2>1, <2>2
<1> QED BY <1>1, <1>2, <1>3, <1>4, <1>5

\* The first region of a send.
LEMMA TakeFreeOK ==
    ASSUME StoreOK, kind = "mq", lists.free # << >>, NEW t \in Thread, pc[t] \notin Copying,
           lists' = [lists EXCEPT !.free = Tail(@)],
           block' = [block EXCEPT ![t] = Head(lists.free)], NEW m \in Msg,
           text' = [text EXCEPT ![Head(lists.free)] = m],
           pc'[t] \in Copying, \A u \in Thread \ {t} : pc'[u] = pc[u],
           kind' = kind, entry' = entry, ring' = ring
    PROVE  StoreOK' /\ Room' = Room - 1
<1> DEFINE b == Head(lists.free)
           f == Tail(lists.free)
           q == lists.queue
<1>1. /\ b \in Block /\ b \in ToSet(lists.free) /\ b \notin ToSet(q)
      /\ f \in Seq(Block) /\ IsInjective(f) /\ ToSet(f) = ToSet(lists.free) \ {b}
      /\ Len(f) = Len(lists.free) - 1
  BY FreeTail
<1>2. lists' = [free |-> f, queue |-> q] BY DEF StoreOK, StoreTyped
<1>3. /\ text' = [text EXCEPT ![b] = m] /\ block' = [block EXCEPT ![t] = b] OBVIOUS
<1>4. /\ q \in Seq(Block) /\ IsInjective(q) /\ ToSet(lists.free) \cap ToSet(q) = {}
      /\ entry = Len(q) /\ \A x \in ToSet(q) : text[x] \in Msg
      /\ ToSet(q) \subseteq Block
  BY StoreNow DEF BlocksOK
<1>5. block[t] = None BY DEF StoreOK, InHand
<1> HIDE DEF b, f, q
<1>6. b \in Stored /\ \A x \in Block : (x \in Stored /\ x # b) <=> x \in ToSet(f) \cup ToSet(q)
  BY <1>1 DEF Stored, q
<1>7. /\ block' \in [Thread -> Block \cup {None}] /\ block'[t] = b
      /\ \A u \in Thread \ {t} : block'[u] = block[u]
      /\ \A u, v \in Thread : block'[u] # None /\ u # v => block'[u] # block'[v]
      /\ \A x \in Block : (\A u \in Thread : block'[u] # x) <=> (x \in Stored /\ x # b)
  BY <1>1, <1>3, <1>5, <1>6, HandTake
<1>8. /\ text' \in [Block -> Msg \cup {None}] /\ text'[b] = m
      /\ \A x \in Block \ {b} : text'[x] = text[x]
  BY <1>1, <1>3 DEF StoreOK, StoreTyped
<1>9. \A u \in Thread : /\ block'[u] # None <=> pc'[u] \in Copying
                        /\ pc'[u] \in Copying => kind = "mq" /\ text'[block'[u]] \in Msg
  <2> SUFFICES ASSUME NEW u \in Thread
               PROVE  /\ block'[u] # None <=> pc'[u] \in Copying
                      /\ pc'[u] \in Copying => kind = "mq" /\ text'[block'[u]] \in Msg
    OBVIOUS
  <2>1. CASE u = t BY <1>1, <1>7, <1>8, <2>1, StoreNow
  <2>2. CASE u # t
    <3>1. /\ block'[u] = block[u] /\ pc'[u] = pc[u] /\ block'[u] # b
          /\ block[u] \in Block \cup {None}
      BY <1>1, <1>7, <2>2, StoreNow DEF StoreTyped
    <3>2. block[u] # None <=> pc[u] \in Copying BY DEF StoreOK, InHand
    <3>3. pc[u] \in Copying => text[block[u]] \in Msg BY DEF StoreOK, InHand
    <3> QED BY <1>8, <3>1, <3>2, <3>3
  <2> QED BY <2>1, <2>2
<1>10. \A x \in ToSet(q) : text'[x] \in Msg BY <1>1, <1>4, <1>8
<1>11. ring' \in Rings /\ RingMeets'
  BY DEF StoreOK, StoreTyped, RingMeets, RingPlace
<1>12. \A x \in Block : x \in ToSet(f) \cup ToSet(q) <=> \A u \in Thread : block'[u] # x
  BY <1>6, <1>7
<1>13. ToSet(f) \cap ToSet(q) = {} /\ entry' = Len(q) BY <1>1, <1>4
<1>14. StoreOK' /\ Room' = Len(f)
  BY <1>1, <1>2, <1>4, <1>7, <1>8, <1>9, <1>10, <1>11, <1>12, <1>13, ListStepOK
<1>15. Room = Len(lists.free) BY DEF Room
<1> QED BY <1>1, <1>14, <1>15

\* The first region of a receive.
LEMMA TakeQueueOK ==
    ASSUME StoreOK, kind = "mq", entry > 0, NEW t \in Thread, pc[t] \notin Copying,
           lists' = [lists EXCEPT !.queue = Tail(@)],
           block' = [block EXCEPT ![t] = Head(lists.queue)], text' = text,
           pc'[t] \in Copying, \A u \in Thread \ {t} : pc'[u] = pc[u],
           kind' = kind, entry' = entry - 1, ring' = ring
    PROVE  StoreOK' /\ Room' = Room
<1> DEFINE b == Head(lists.queue)
           f == lists.free
           q == Tail(lists.queue)
<1>0. lists.queue # << >> /\ entry = Len(lists.queue) BY StoreNow DEF BlocksOK
<1>1. /\ b \in Block /\ b \in ToSet(lists.queue) /\ b \notin ToSet(f)
      /\ q \in Seq(Block) /\ IsInjective(q) /\ ToSet(q) = ToSet(lists.queue) \ {b}
      /\ Len(q) = Len(lists.queue) - 1
  BY <1>0, QueueTail
<1>2. lists' = [free |-> f, queue |-> q] BY DEF StoreOK, StoreTyped
<1>3. block' = [block EXCEPT ![t] = b] OBVIOUS
<1>4. /\ f \in Seq(Block) /\ IsInjective(f) /\ ToSet(f) \cap ToSet(lists.queue) = {}
      /\ \A x \in ToSet(lists.queue) : text[x] \in Msg
  BY StoreNow DEF BlocksOK
<1>5. block[t] = None BY DEF StoreOK, InHand
<1> HIDE DEF b, f, q
<1>6. b \in Stored /\ \A x \in Block : (x \in Stored /\ x # b) <=> x \in ToSet(f) \cup ToSet(q)
  BY <1>1 DEF Stored, f
<1>7. /\ block' \in [Thread -> Block \cup {None}] /\ block'[t] = b
      /\ \A u \in Thread \ {t} : block'[u] = block[u]
      /\ \A u, v \in Thread : block'[u] # None /\ u # v => block'[u] # block'[v]
      /\ \A x \in Block : (\A u \in Thread : block'[u] # x) <=> (x \in Stored /\ x # b)
  BY <1>1, <1>3, <1>5, <1>6, HandTake
<1>8. text' \in [Block -> Msg \cup {None}] BY DEF StoreOK, StoreTyped
<1>9. \A u \in Thread : /\ block'[u] # None <=> pc'[u] \in Copying
                        /\ pc'[u] \in Copying => kind = "mq" /\ text'[block'[u]] \in Msg
  <2> SUFFICES ASSUME NEW u \in Thread
               PROVE  /\ block'[u] # None <=> pc'[u] \in Copying
                      /\ pc'[u] \in Copying => kind = "mq" /\ text'[block'[u]] \in Msg
    OBVIOUS
  <2>1. CASE u = t BY <1>1, <1>4, <1>7, <2>1, StoreNow
  <2>2. CASE u # t BY <1>7, <2>2 DEF StoreOK, InHand
  <2> QED BY <2>1, <2>2
<1>10. \A x \in ToSet(q) : text'[x] \in Msg BY <1>1, <1>4
<1>11. ring' \in Rings /\ RingMeets'
  BY DEF StoreOK, StoreTyped, RingMeets, RingPlace
<1>12. \A x \in Block : x \in ToSet(f) \cup ToSet(q) <=> \A u \in Thread : block'[u] # x
  BY <1>6, <1>7
<1>13. ToSet(f) \cap ToSet(q) = {} /\ entry' = Len(q) BY <1>0, <1>1, <1>4
<1>14. StoreOK' /\ Room' = Len(f)
  BY <1>1, <1>2, <1>4, <1>7, <1>8, <1>9, <1>10, <1>11, <1>12, <1>13, ListStepOK
<1>15. Room = Len(f) BY DEF Room, f
<1> QED BY <1>14, <1>15

\* A thread between the two regions of a call.
LEMMA HolderFacts ==
    ASSUME StoreOK, NEW t \in Thread, pc[t] \in Copying
    PROVE  kind = "mq" /\ block[t] \in Block /\ text[block[t]] \in Msg
<1>1. block \in [Thread -> Block \cup {None}] BY StoreNow DEF StoreTyped
<1>2. kind = "mq" /\ block[t] # None /\ text[block[t]] \in Msg BY DEF StoreOK, InHand
<1> QED BY <1>1, <1>2

\* The second region of a send.
LEMMA LinkOK ==
    ASSUME StoreOK, NEW t \in Thread, pc[t] \in Copying,
           \/ lists' = [lists EXCEPT !.queue = Append(@, block[t])]
           \/ lists' = [lists EXCEPT !.queue = <<block[t]>> \o @],
           block' = [block EXCEPT ![t] = None], text' = text,
           pc'[t] \notin Copying, \A u \in Thread \ {t} : pc'[u] = pc[u],
           kind' = kind, entry' = entry + 1, ring' = ring
    PROVE  StoreOK' /\ Room' = Room
<1> DEFINE f == lists.free
<1>0. kind = "mq" /\ block[t] \in Block /\ text[block[t]] \in Msg BY HolderFacts
<1>1. PICK b \in Block : b = block[t] /\ text[b] \in Msg BY <1>0
<1>2. PICK q \in {Append(lists.queue, b), <<b>> \o lists.queue} :
         lists' = [free |-> f, queue |-> q]
  BY <1>1 DEF StoreOK, StoreTyped
<1>3. /\ f \in Seq(Block) /\ IsInjective(f) /\ ToSet(f) \cap ToSet(lists.queue) = {}
      /\ \A x \in ToSet(lists.queue) : text[x] \in Msg
      /\ lists.queue \in Seq(Block) /\ IsInjective(lists.queue) /\ entry = Len(lists.queue)
  BY <1>0, StoreNow DEF BlocksOK
<1> HIDE DEF f
<1>4. /\ block' \in [Thread -> Block \cup {None}] /\ block'[t] = None
      /\ b \notin Stored
      /\ \A u \in Thread \ {t} : block'[u] = block[u] /\ block[u] # b
      /\ \A u, v \in Thread : block'[u] # None /\ u # v => block'[u] # block'[v]
      /\ \A x \in Block : (\A u \in Thread : block'[u] # x) <=> (x \in Stored \/ x = b)
  BY <1>1, HandDrop
<1>5. b \notin ToSet(f) /\ b \notin ToSet(lists.queue) BY <1>4 DEF Stored, f
<1>6. /\ q \in Seq(Block) /\ IsInjective(q) /\ ToSet(q) = ToSet(lists.queue) \cup {b}
      /\ Len(q) = Len(lists.queue) + 1
  <2>1. CASE q = Append(lists.queue, b)
    <3>1. q \in Seq(Block) /\ IsInjective(q) /\ ToSet(q) = ToSet(lists.queue) \cup {b}
      BY <1>3, <1>5, <2>1, AppendFacts
    <3> QED BY <1>3, <2>1, <3>1
  <2>2. CASE q = <<b>> \o lists.queue
    <3>1. q \in Seq(Block) /\ IsInjective(q) /\ ToSet(q) = ToSet(lists.queue) \cup {b}
      BY <1>3, <1>5, <2>2, PrependFacts
    <3>2. Len(q) = 1 + Len(lists.queue) BY <1>3, <2>2
    <3>3. Len(lists.queue) \in Nat BY <1>3
    <3> QED BY <3>1, <3>2, <3>3
  <2> QED BY <2>1, <2>2
<1>7. text' \in [Block -> Msg \cup {None}] BY DEF StoreOK, StoreTyped
<1>8. \A u \in Thread : /\ block'[u] # None <=> pc'[u] \in Copying
                        /\ pc'[u] \in Copying => kind = "mq" /\ text'[block'[u]] \in Msg
  BY <1>4 DEF StoreOK, InHand
<1>9. \A x \in ToSet(q) : text'[x] \in Msg BY <1>1, <1>3, <1>6
<1>10. ring' \in Rings /\ RingMeets'
  BY <1>0 DEF StoreOK, StoreTyped, RingMeets, RingPlace
<1>11. \A x \in Block : x \in ToSet(f) \cup ToSet(q) <=> \A u \in Thread : block'[u] # x
  BY <1>4, <1>6 DEF Stored, f
<1>12. ToSet(f) \cap ToSet(q) = {} /\ entry' = Len(q) BY <1>3, <1>5, <1>6
<1>13. StoreOK' /\ Room' = Len(f)
  BY <1>0, <1>2, <1>3, <1>4, <1>6, <1>7, <1>8, <1>9, <1>10, <1>11, <1>12, ListStepOK
<1>14. Room = Len(f) BY <1>0 DEF Room, f
<1> QED BY <1>13, <1>14

\* The second region of a receive.
LEMMA FreeOK ==
    ASSUME StoreOK, NEW t \in Thread, pc[t] \in Copying,
           lists' = [lists EXCEPT !.free = <<block[t]>> \o @],
           text' = [text EXCEPT ![block[t]] = None],
           block' = [block EXCEPT ![t] = None],
           pc'[t] \notin Copying, \A u \in Thread \ {t} : pc'[u] = pc[u],
           kind' = kind, entry' = entry, ring' = ring
    PROVE  StoreOK' /\ Room' = Room + 1
<1> DEFINE q == lists.queue
<1>0. kind = "mq" /\ block[t] \in Block BY HolderFacts
<1>1. PICK b \in Block : b = block[t] BY <1>0
<1>2. PICK f : f = <<b>> \o lists.free OBVIOUS
<1>3. lists' = [free |-> f, queue |-> q] BY <1>1, <1>2 DEF StoreOK, StoreTyped
<1>4. /\ q \in Seq(Block) /\ IsInjective(q) /\ ToSet(lists.free) \cap ToSet(q) = {}
      /\ \A x \in ToSet(q) : text[x] \in Msg
      /\ lists.free \in Seq(Block) /\ IsInjective(lists.free) /\ entry = Len(q)
      /\ ToSet(q) \subseteq Block
  BY <1>0, StoreNow DEF BlocksOK
<1> HIDE DEF q
<1>5. /\ block' \in [Thread -> Block \cup {None}] /\ block'[t] = None
      /\ b \notin Stored
      /\ \A u \in Thread \ {t} : block'[u] = block[u] /\ block[u] # b
      /\ \A u, v \in Thread : block'[u] # None /\ u # v => block'[u] # block'[v]
      /\ \A x \in Block : (\A u \in Thread : block'[u] # x) <=> (x \in Stored \/ x = b)
  BY <1>1, HandDrop
<1>6. b \notin ToSet(lists.free) /\ b \notin ToSet(q) BY <1>5 DEF Stored, q
<1>7. /\ f \in Seq(Block) /\ IsInjective(f) /\ ToSet(f) = ToSet(lists.free) \cup {b}
  BY <1>2, <1>4, <1>6, PrependFacts
<1>8. /\ text' \in [Block -> Msg \cup {None}] /\ \A x \in Block \ {b} : text'[x] = text[x]
  BY <1>1 DEF StoreOK, StoreTyped
<1>9. \A u \in Thread : /\ block'[u] # None <=> pc'[u] \in Copying
                        /\ pc'[u] \in Copying => kind = "mq" /\ text'[block'[u]] \in Msg
  <2> SUFFICES ASSUME NEW u \in Thread
               PROVE  /\ block'[u] # None <=> pc'[u] \in Copying
                      /\ pc'[u] \in Copying => kind = "mq" /\ text'[block'[u]] \in Msg
    OBVIOUS
  <2>1. CASE u = t BY <1>5, <2>1
  <2>2. CASE u # t
    <3>1. block'[u] = block[u] /\ block[u] # b /\ pc'[u] = pc[u] BY <1>5, <2>2
    <3>2. block[u] # None <=> pc[u] \in Copying BY DEF StoreOK, InHand
    <3>3. pc[u] \in Copying => block[u] \in Block /\ text[block[u]] \in Msg BY HolderFacts
    <3> QED BY <1>0, <1>8, <3>1, <3>2, <3>3
  <2> QED BY <2>1, <2>2
<1>10. \A x \in ToSet(q) : text'[x] \in Msg BY <1>4, <1>6, <1>8
<1>11. ring' \in Rings /\ RingMeets'
  BY DEF StoreOK, StoreTyped, RingMeets, RingPlace
<1>12. \A x \in Block : x \in ToSet(f) \cup ToSet(q) <=> \A u \in Thread : block'[u] # x
  BY <1>5, <1>7 DEF Stored, q
<1>13. ToSet(f) \cap ToSet(q) = {} /\ entry' = Len(q) BY <1>4, <1>6, <1>7
<1>14. StoreOK' /\ Room' = Len(f)
  BY <1>0, <1>3, <1>4, <1>5, <1>7, <1>8, <1>9, <1>10, <1>11, <1>12, <1>13, ListStepOK
<1>15. Room = Len(lists.free) BY <1>0 DEF Room
<1>16. Len(f) = 1 + Len(lists.free) /\ Len(lists.free) \in Nat BY <1>2, <1>4
<1> QED BY <1>14, <1>15, <1>16

\* A handler sends in one region.
LEMMA IsrStoreOK ==
    ASSUME StoreOK, kind = "mq", lists.free # << >>, NEW m \in Msg,
           lists' = [free |-> Tail(lists.free), queue |-> Append(lists.queue, Head(lists.free))],
           text' = [text EXCEPT ![Head(lists.free)] = m], block' = block, pc' = pc,
           kind' = kind, entry' = entry + 1, ring' = ring
    PROVE  StoreOK' /\ Room' = Room - 1
<1> DEFINE b == Head(lists.free)
           f == Tail(lists.free)
           q == Append(lists.queue, b)
<1>1. /\ b \in Block /\ b \in ToSet(lists.free) /\ b \notin ToSet(lists.queue)
      /\ f \in Seq(Block) /\ IsInjective(f) /\ ToSet(f) = ToSet(lists.free) \ {b}
      /\ Len(f) = Len(lists.free) - 1
  BY FreeTail
<1>2. lists' = [free |-> f, queue |-> q] /\ text' = [text EXCEPT ![b] = m] OBVIOUS
<1>4. /\ lists.queue \in Seq(Block) /\ IsInjective(lists.queue)
      /\ ToSet(lists.free) \cap ToSet(lists.queue) = {}
      /\ entry = Len(lists.queue) /\ \A x \in ToSet(lists.queue) : text[x] \in Msg
      /\ ToSet(lists.queue) \subseteq Block
  BY StoreNow DEF BlocksOK
<1>5. Len(q) = Len(lists.queue) + 1 BY <1>4
<1> HIDE DEF b, f
<1>6. q \in Seq(Block) /\ IsInjective(q) /\ ToSet(q) = ToSet(lists.queue) \cup {b}
  BY <1>1, <1>4, AppendFacts
<1> HIDE DEF q
<1>7. /\ text' \in [Block -> Msg \cup {None}] /\ text'[b] = m
      /\ \A x \in Block \ {b} : text'[x] = text[x]
  BY <1>1, <1>2 DEF StoreOK, StoreTyped
<1>8. \A u \in Thread : block[u] # b BY <1>1, StoreNow DEF BlocksOK
<1>9. \A u \in Thread : /\ block'[u] # None <=> pc'[u] \in Copying
                        /\ pc'[u] \in Copying => kind = "mq" /\ text'[block'[u]] \in Msg
  <2> SUFFICES ASSUME NEW u \in Thread
               PROVE  /\ block[u] # None <=> pc[u] \in Copying
                      /\ pc[u] \in Copying => text'[block[u]] \in Msg
    OBVIOUS
  <2>1. block[u] # None <=> pc[u] \in Copying BY DEF StoreOK, InHand
  <2>2. pc[u] \in Copying => block[u] \in Block /\ text[block[u]] \in Msg BY HolderFacts
  <2> QED BY <1>7, <1>8, <2>1, <2>2
<1>10. \A x \in ToSet(q) : text'[x] \in Msg BY <1>1, <1>4, <1>6, <1>7
<1>11. ring' \in Rings /\ RingMeets'
  BY DEF StoreOK, StoreTyped, RingMeets, RingPlace
<1>12. \A x \in Block : x \in ToSet(f) \cup ToSet(q) <=> \A u \in Thread : block'[u] # x
  BY <1>1, <1>6, StoreNow DEF BlocksOK
<1>13. ToSet(f) \cap ToSet(q) = {} /\ entry' = Len(q) BY <1>1, <1>4, <1>5, <1>6
<1>14. /\ block' \in [Thread -> Block \cup {None}]
       /\ \A u, v \in Thread : block'[u] # None /\ u # v => block'[u] # block'[v]
  BY StoreNow DEF StoreTyped, BlocksOK
<1>15. StoreOK' /\ Room' = Len(f)
  BY <1>1, <1>2, <1>6, <1>7, <1>9, <1>10, <1>11, <1>12, <1>13, <1>14, ListStepOK
<1>16. Room = Len(lists.free) BY DEF Room
<1> QED BY <1>1, <1>15, <1>16

\* A list turned round, as the blocks of the queue go to the head of the free list
\* one by one.
LEMMA ReverseFacts ==
    ASSUME NEW T, NEW s \in Seq(T), IsInjective(s)
    PROVE  Reverse(s) \in Seq(T) /\ IsInjective(Reverse(s)) /\ ToSet(Reverse(s)) = ToSet(s)
<1> DEFINE r == Reverse(s)
           n == Len(s)
<1>1. n \in Nat /\ \A i \in 1 .. n : s[i] \in T OBVIOUS
<1>2. r = [i \in 1 .. n |-> s[(n - i) + 1]] BY DEF Reverse
<1> HIDE DEF r, n
<1>3. \A i \in 1 .. n : (n - i) + 1 \in 1 .. n BY <1>1
<1>4. r \in [1 .. n -> T] BY <1>1, <1>2, <1>3
<1>5. r \in Seq(T) /\ Len(r) = n BY <1>1, <1>4
<1>6. \A i \in 1 .. n : r[i] = s[(n - i) + 1] BY <1>2
<1>7. \A i, j \in 1 .. n : s[i] = s[j] => i = j BY Injective DEF n
<1>8. IsInjective(r)
  <2>1. ASSUME NEW i \in 1 .. n, NEW j \in 1 .. n, r[i] = r[j] PROVE i = j
    <3>1. (n - i) + 1 = (n - j) + 1 BY <1>3, <1>6, <1>7, <2>1
    <3> QED BY <1>1, <3>1
  <2> QED BY <1>5, <2>1, Injective
<1>9. ASSUME NEW x \in ToSet(r) PROVE x \in ToSet(s)
  <2>1. PICK i \in 1 .. n : r[i] = x BY <1>5, InToSet
  <2>2. (n - i) + 1 \in 1 .. n /\ s[(n - i) + 1] = x BY <1>3, <1>6, <2>1
  <2> QED BY <2>2, InToSet DEF n
<1>10. ASSUME NEW x \in ToSet(s) PROVE x \in ToSet(r)
  <2>1. PICK i \in 1 .. n : s[i] = x BY InToSet DEF n
  <2>2. PICK j \in 1 .. n : j = (n - i) + 1 BY <1>3
  <2>3. (n - j) + 1 = i BY <1>1, <2>2
  <2>4. r[j] = x BY <1>6, <2>1, <2>3
  <2> QED BY <1>5, <2>4, InToSet
<1> QED BY <1>5, <1>8, <1>9, <1>10 DEF r

LEMMA EmptyList == << >> \in Seq(Block) /\ IsInjective(<< >>) /\ ToSet(<< >>) = {} /\ Len(<< >>) = 0
<1>1. << >> \in Seq(Block) /\ Len(<< >>) = 0 OBVIOUS
<1>2. ToSet(<< >>) = {} BY <1>1, EmptyFacts
<1>3. \A i, j \in 1 .. Len(<< >>) : << >>[i] = << >>[j] => i = j OBVIOUS
<1> QED BY <1>1, <1>2, <1>3, Injective

\* The reset of a message queue.
LEMMA ResetStoreOK ==
    ASSUME StoreOK, kind = "mq",
           lists' = [free |-> Reverse(lists.queue) \o lists.free, queue |-> << >>],
           text' = [b \in Block |-> IF b \in ToSet(lists.queue) THEN None ELSE text[b]],
           entry' = 0, kind' = kind, ring' = ring, block' = block,
           \A u \in Thread : pc'[u] \in Copying <=> pc[u] \in Copying
    PROVE  StoreOK'
<1>1. /\ lists.free \in Seq(Block) /\ IsInjective(lists.free)
      /\ lists.queue \in Seq(Block) /\ IsInjective(lists.queue)
      /\ ToSet(lists.free) \cap ToSet(lists.queue) = {}
  BY StoreNow DEF BlocksOK
<1>2. PICK r : r = Reverse(lists.queue) OBVIOUS
<1>3. r \in Seq(Block) /\ IsInjective(r) /\ ToSet(r) = ToSet(lists.queue)
  BY <1>1, <1>2, ReverseFacts
<1>4. PICK f : f = r \o lists.free OBVIOUS
<1>5. f \in Seq(Block) /\ ToSet(f) = ToSet(r) \cup ToSet(lists.free) /\ IsInjective(f)
  <2>1. ToSet(r) \cap ToSet(lists.free) = {} BY <1>1, <1>3
  <2> QED BY <1>1, <1>3, <1>4, <2>1, ConcatFacts
<1>6. lists' = [free |-> f, queue |-> << >>] BY <1>2, <1>4
<1>7. text' \in [Block -> Msg \cup {None}] BY DEF StoreOK, StoreTyped
<1>8. /\ block' \in [Thread -> Block \cup {None}]
      /\ \A u, v \in Thread : block'[u] # None /\ u # v => block'[u] # block'[v]
      /\ \A x \in Block : x \in ToSet(lists.free) \cup ToSet(lists.queue) <=>
                          \A u \in Thread : block'[u] # x
  BY StoreNow DEF StoreTyped, BlocksOK
<1>9. \A x \in Block : x \in ToSet(f) \cup ToSet(<< >>) <=> \A u \in Thread : block'[u] # x
  BY <1>3, <1>5, <1>8, EmptyList
<1>10. \A u \in Thread : /\ block'[u] # None <=> pc'[u] \in Copying
                         /\ pc'[u] \in Copying => kind = "mq" /\ text'[block'[u]] \in Msg
  <2> SUFFICES ASSUME NEW u \in Thread
               PROVE  /\ block[u] # None <=> pc[u] \in Copying
                      /\ pc[u] \in Copying => text'[block[u]] \in Msg
    OBVIOUS
  <2>1. block[u] # None <=> pc[u] \in Copying BY DEF StoreOK, InHand
  <2>2. pc[u] \in Copying => block[u] \in Block /\ text[block[u]] \in Msg BY HolderFacts
  <2>3. block[u] \in Block => block[u] \notin ToSet(lists.queue) BY <1>8
  <2> QED BY <2>1, <2>2, <2>3
<1>11. ring' \in Rings /\ RingMeets'
  BY DEF StoreOK, StoreTyped, RingMeets, RingPlace
<1>12. \A x \in ToSet(<< >>) : text'[x] \in Msg BY EmptyList
<1>13. ToSet(f) \cap ToSet(<< >>) = {} BY EmptyList
<1> QED BY <1>5, <1>6, <1>7, <1>8, <1>9, <1>10, <1>11, <1>12, <1>13, EmptyList, ListStepOK

\* The store of a new channel.
LEMMA NewStore ==
    ASSUME NEW f, f = EmptyLists.free
    PROVE  /\ f \in Seq(Block) /\ IsInjective(f) /\ ToSet(f) = Block
           /\ EmptyLists = [free |-> f, queue |-> << >>]
<1>0. Size \in Nat BY ChannelAssumption
<1>1. f = [i \in 1 .. Size |-> Size + 1 - i] BY DEF EmptyLists, Block
<1>2. \A i \in 1 .. Size : Size + 1 - i \in 1 .. Size BY <1>0
<1>3. f \in [1 .. Size -> Block] BY <1>1, <1>2 DEF Block
<1>4. f \in Seq(Block) /\ Len(f) = Size BY <1>0, <1>3
<1>5. IsInjective(f)
  <2>1. ASSUME NEW i \in 1 .. Size, NEW j \in 1 .. Size, f[i] = f[j] PROVE i = j
    <3>1. Size + 1 - i = Size + 1 - j BY <1>1, <2>1
    <3> QED BY <1>0, <3>1
  <2> QED BY <1>4, <2>1, Injective
<1>6. ASSUME NEW b \in Block PROVE b \in ToSet(f)
  <2>1. PICK i \in 1 .. Size : i = Size + 1 - b BY <1>2 DEF Block
  <2>2. Size + 1 - i = b BY <1>0, <2>1 DEF Block
  <2>3. f[i] = b BY <1>1, <2>2
  <2> QED BY <1>4, <2>3, InToSet
<1>7. ToSet(f) \subseteq Block BY <1>4, EmptyFacts
<1> QED BY <1>4, <1>5, <1>6, <1>7 DEF EmptyLists

LEMMA CreateStoreOK ==
    ASSUME StoreOK, kind' = kind, entry' = 0, ring' = EmptyRing, lists' = EmptyLists,
           text' = [b \in Block |-> None], block' = block,
           \A u \in Thread : pc'[u] \notin Copying /\ pc[u] \notin Copying
    PROVE  StoreOK'
<1>1. PICK f : f = EmptyLists.free OBVIOUS
<1>2. /\ f \in Seq(Block) /\ IsInjective(f) /\ ToSet(f) = Block
      /\ lists' = [free |-> f, queue |-> << >>]
  BY <1>1, NewStore
<1>3. \A u \in Thread : block'[u] = None BY DEF StoreOK, InHand
<1>4. block' \in [Thread -> Block \cup {None}] BY StoreNow DEF StoreTyped
<1>5. text' \in [Block -> Msg \cup {None}] OBVIOUS
<1>6. \A x \in Block : x \in ToSet(f) \cup ToSet(<< >>) <=> \A u \in Thread : block'[u] # x
  BY <1>2, <1>3, StoreNow
<1>7. \A u, v \in Thread : block'[u] # None /\ u # v => block'[u] # block'[v] BY <1>3
<1>8. \A u \in Thread : /\ block'[u] # None <=> pc'[u] \in Copying
                        /\ pc'[u] \in Copying => kind = "mq" /\ text'[block'[u]] \in Msg
  BY <1>3
<1>9. \A x \in ToSet(<< >>) : text'[x] \in Msg BY EmptyList
<1>10. ToSet(f) \cap ToSet(<< >>) = {} BY EmptyList
<1>11. ring' \in Rings /\ RingMeets' BY EmptyRingFacts
<1> QED BY <1>2, <1>4, <1>5, <1>6, <1>7, <1>8, <1>9, <1>10, <1>11, EmptyList, ListStepOK

-----------------------------------------------------------------------------
(* The steps *)

\* The channel stays usable while nobody begins to delete it.
LEMMA UsableKept ==
    ASSUME Usable, alive' = alive, \A u \in Thread : pc'[u] \in Deleting => pc[u] \in Deleting
    PROVE  Usable'
  BY DEF Usable

\* Nothing changes on one side of the channel.
LEMMA QuietSide ==
    ASSUME NEW w, NEW v, v # << >> => w # << >>, NEW n \in Nat, NEW A, NEW B, A \subseteq B
    PROVE  Accounted(w, v, n, n, A, B)
  BY DEF Accounted

\* The test of a loop fails and no time is left.
LEMMA RefusedOK ==
    ASSUME Sound, NEW t \in Thread, NEW op \in {"send", "recv"}, NEW w,
           Refused(t, op, w), IF op = "send" THEN Room = 0 ELSE entry = 0
    PROVE  Sound'
<1>0. CallsOK /\ StoreOK /\ Counts BY Parts, RoomFacts
<1>1. /\ Testing(t, op, w) /\ pc' = [pc EXCEPT ![t] = "run"]
      /\ job' = [job EXCEPT ![t] = NoJob] /\ isr' = isr /\ kind' = kind /\ UNCHANGED store
      /\ alive' = alive /\ (k' = k \/ k' = [k EXCEPT !.err[t] = "ETIMEOUT"])
  BY DEF Refused, Goto, store
<1>2. /\ t = k.cur /\ t \in Worker /\ pc[t] \in {"run", "waited"} /\ Usable /\ isr = "none"
      /\ \A q : t \in Woken(q) => q = op
  BY <1>1, TestingFacts
<1>3. Executing(t) /\ pc[t] # "wait" BY <1>2 DEF Executing
<1>4. "run" \in ChanPC \ {"wait", "waited"} BY DEF ChanPC
<1>5. k' = k \/ \E x \in Err : k' = [k EXCEPT !.err[t] = x] BY <1>1 DEF Err
<1>6. /\ Around({t}) /\ k'.wait = k.wait
      /\ \A q : Woken(q) \ {t} \subseteq Woken(q)'
      /\ pc'[t] = "run" /\ \A u \in Thread \ {t} : pc'[u] = pc[u]
  BY <1>0, <1>1, <1>2, <1>3, <1>4, <1>5, Now, GoOK
<1>7. \A u \in Thread : pc'[u] \in Copying <=> pc[u] \in Copying BY <1>2, <1>6 DEF Copying
<1>8. StoreOK' /\ Room' = Room /\ entry' = entry BY <1>0, <1>1, <1>7, SameStoreOK
<1>9. Usable'
  <2>1. \A u \in Thread : pc'[u] \in Deleting => pc[u] \in Deleting BY <1>6 DEF Deleting
  <2> QED BY <1>1, <1>2, <2>1, UsableKept
<1>10. Accounted(k.wait[Rx], k'.wait[Rx], entry, entry', Woken("recv"), Woken("recv")')
  <2>1. CASE op = "recv" BY <1>8, <2>1 DEF Accounted
  <2>2. CASE op = "send"
    <3>1. Woken("recv") \subseteq Woken("recv")' BY <1>2, <1>6, <2>2
    <3> QED BY <1>0, <1>6, <1>8, <3>1, QuietSide DEF Counts
  <2> QED BY <2>1, <2>2
<1>11. Accounted(k.wait[Tx], k'.wait[Tx], Room, Room', Woken("send"), Woken("send")')
  <2>1. CASE op = "send" BY <1>8, <2>1 DEF Accounted
  <2>2. CASE op = "recv"
    <3>1. Woken("send") \subseteq Woken("send")' BY <1>2, <1>6, <2>2
    <3> QED BY <1>0, <1>6, <1>8, <3>1, QuietSide DEF Counts
  <2> QED BY <2>1, <2>2
<1> QED BY <1>6, <1>8, <1>9, <1>10, <1>11, WakesOK, AbandonedOK, PartsNext DEF Around

\* The test fails and the thread waits.
LEMMA WaitingOK ==
    ASSUME Sound, NEW t \in Thread, NEW o \in {Rx, Tx},
           NEW w \in {"no", "limited", "forever"}, Waiting(t, Role(o), w, o),
           IF o = Tx THEN Room = 0 ELSE entry = 0
    PROVE  Sound'
<1>0. CallsOK /\ StoreOK /\ Counts /\ Rx # Tx BY Parts, RoomFacts, ChannelAssumption
<1>1. /\ Testing(t, Role(o), w) /\ pc' = [pc EXCEPT ![t] = "wait"]
      /\ job' = [job EXCEPT ![t] = [op |-> Role(o), limit |-> w]]
      /\ isr' = isr /\ kind' = kind /\ UNCHANGED store /\ alive' = alive
      /\ k' = Blocking(k, o, t, Flag, w)
  BY DEF Waiting, Goto, store, Blocking
<1>2. /\ t = k.cur /\ t \in Worker /\ pc[t] \in {"run", "waited"} /\ Usable /\ isr = "none"
      /\ \A q : t \in Woken(q) => q = Role(o)
  <2>1. Role(o) \in {"send", "recv"} BY DEF Role
  <2> QED BY <1>1, <2>1, TestingFacts
<1>3. Executing(t) /\ pc[t] # "wait" BY <1>2 DEF Executing
<1>4. /\ CallsOK' /\ \A q \in {Rx, Tx} \ {o} : k'.wait[q] = k.wait[q]
      /\ \A q : Woken(q) \ {t} \subseteq Woken(q)'
      /\ pc'[t] = "wait" /\ \A u \in Thread \ {t} : pc'[u] = pc[u]
  BY <1>0, <1>1, <1>2, <1>3, WaitOK
<1>5. \A u \in Thread : pc'[u] \in Copying <=> pc[u] \in Copying BY <1>2, <1>4 DEF Copying
<1>6. StoreOK' /\ Room' = Room /\ entry' = entry BY <1>0, <1>1, <1>5, SameStoreOK
<1>7. Usable'
  <2>1. \A u \in Thread : pc'[u] \in Deleting => pc[u] \in Deleting BY <1>4 DEF Deleting
  <2> QED BY <1>1, <1>2, <2>1, UsableKept
<1>8. Accounted(k.wait[Rx], k'.wait[Rx], entry, entry', Woken("recv"), Woken("recv")')
  <2>1. CASE o = Rx BY <1>0, <1>6, <2>1 DEF Accounted
  <2>2. CASE o = Tx
    <3>1. Woken("recv") \subseteq Woken("recv")' BY <1>0, <1>2, <1>4, <2>2 DEF Role
    <3>2. k'.wait[Rx] = k.wait[Rx] BY <1>0, <1>4, <2>2
    <3> QED BY <1>0, <1>6, <3>1, <3>2, QuietSide DEF Counts
  <2> QED BY <2>1, <2>2
<1>9. Accounted(k.wait[Tx], k'.wait[Tx], Room, Room', Woken("send"), Woken("send")')
  <2>1. CASE o = Tx BY <1>0, <1>6, <2>1 DEF Accounted
  <2>2. CASE o = Rx
    <3>1. Woken("send") \subseteq Woken("send")' BY <1>0, <1>2, <1>4, <2>2 DEF Role
    <3>2. k'.wait[Tx] = k.wait[Tx] BY <1>0, <1>4, <2>2
    <3> QED BY <1>0, <1>6, <3>1, <3>2, QuietSide DEF Counts
  <2> QED BY <2>1, <2>2
<1> QED BY <1>4, <1>6, <1>7, <1>8, <1>9, WakesOK, AbandonedOK, PartsNext

\* A call ends with more messages, or with more room, and wakes who waits for them.
LEMMA PutOK ==
    ASSUME Sound, StoreOK', NEW S, Served(S, Rx), S \cap Woken("recv") = {},
           entry' = entry + 1, Usable',
           \/ Room' = Room /\ S \cap Woken("send") = {}
           \/ Room' = Room - 1 /\ \E t : S \subseteq {t}
    PROVE  Sound'
<1>0. StoreOK /\ Counts /\ Counts' /\ Rx # Tx BY Parts, RoomFacts, RoomFactsNext, ChannelAssumption
<1>1. /\ CallsOK' /\ \A op : Woken(op) \ S \subseteq Woken(op)'
      /\ k'.wait[Tx] = k.wait[Tx]
      /\ \/ k'.wait[Rx] = << >>
         \/ k.wait[Rx] # << >> /\ \E h : h \in Woken("recv")' /\ h \notin Woken("recv")
  BY <1>0 DEF Served, Role
<1>2. Accounted(k.wait[Rx], k'.wait[Rx], entry, entry', Woken("recv"), Woken("recv")')
  <2>1. Woken("recv") \subseteq Woken("recv")' BY <1>1
  <2>2. entry' <= entry + 1 BY <1>0 DEF Counts
  <2> QED BY <1>1, <2>1, <2>2 DEF Accounted
<1>3. Accounted(k.wait[Tx], k'.wait[Tx], Room, Room', Woken("send"), Woken("send")')
  <2>1. CASE Room' = Room /\ S \cap Woken("send") = {}
    <3>1. Woken("send") \subseteq Woken("send")' BY <1>1, <2>1
    <3> QED BY <1>0, <1>1, <2>1, <3>1, QuietSide DEF Counts
  <2>2. CASE Room' = Room - 1 /\ \E t : S \subseteq {t}
    <3>1. PICK t : S \subseteq {t} BY <2>2
    <3>2. Woken("send") \ {t} \subseteq Woken("send")' BY <1>1, <3>1
    <3>3. Room' + 1 <= Room BY <1>0, <2>2 DEF Counts
    <3> QED BY <1>1, <3>2, <3>3 DEF Accounted
  <2> QED BY <2>1, <2>2
<1> QED BY <1>1, <1>2, <1>3, WakesOK, AbandonedOK, PartsNext

LEMMA GetOK ==
    ASSUME Sound, StoreOK', NEW S, Served(S, Tx), S \cap Woken("send") = {},
           Room' = Room + 1, Usable',
           \/ entry' = entry /\ S \cap Woken("recv") = {}
           \/ entry' = entry - 1 /\ \E t : S \subseteq {t}
    PROVE  Sound'
<1>0. StoreOK /\ Counts /\ Counts' /\ Rx # Tx BY Parts, RoomFacts, RoomFactsNext, ChannelAssumption
<1>1. /\ CallsOK' /\ \A op : Woken(op) \ S \subseteq Woken(op)'
      /\ k'.wait[Rx] = k.wait[Rx]
      /\ \/ k'.wait[Tx] = << >>
         \/ k.wait[Tx] # << >> /\ \E h : h \in Woken("send")' /\ h \notin Woken("send")
  BY <1>0 DEF Served, Role
<1>2. Accounted(k.wait[Tx], k'.wait[Tx], Room, Room', Woken("send"), Woken("send")')
  <2>1. Woken("send") \subseteq Woken("send")' BY <1>1
  <2>2. Room' <= Room + 1 BY <1>0 DEF Counts
  <2> QED BY <1>1, <2>1, <2>2 DEF Accounted
<1>3. Accounted(k.wait[Rx], k'.wait[Rx], entry, entry', Woken("recv"), Woken("recv")')
  <2>1. CASE entry' = entry /\ S \cap Woken("recv") = {}
    <3>1. Woken("recv") \subseteq Woken("recv")' BY <1>1, <2>1
    <3> QED BY <1>0, <1>1, <2>1, <3>1, QuietSide DEF Counts
  <2>2. CASE entry' = entry - 1 /\ \E t : S \subseteq {t}
    <3>1. PICK t : S \subseteq {t} BY <2>2
    <3>2. Woken("recv") \ {t} \subseteq Woken("recv")' BY <1>1, <3>1
    <3>3. entry' + 1 <= entry BY <1>0, <2>2 DEF Counts
    <3> QED BY <1>1, <3>2, <3>3 DEF Accounted
  <2> QED BY <2>1, <2>2
<1> QED BY <1>1, <1>2, <1>3, WakesOK, AbandonedOK, PartsNext

\* rt_mb_send_wait with a place, and rt_mb_urgent.
LEMMA MbPutOK ==
    ASSUME Sound, NEW t \in Thread, NEW w, MbSend(t, w) \/ MbUrgent(t)
    PROVE  Sound'
<1>0. CallsOK /\ StoreOK /\ Counts BY Parts, RoomFacts
<1>1. /\ kind = "mb" /\ entry < Size /\ entry' = entry + 1 /\ Finish(t, Rx) /\ isr' = isr
      /\ kind' = kind /\ lists' = lists /\ text' = text /\ block' = block /\ alive' = alive
      /\ Testing(t, "send", w) \/ Call(t)
      /\ ring' = RingSend(MsgOf[t]) \/ ring' = RingUrgent(MsgOf[t])
  BY DEF MbSend, MbUrgent
<1>2. /\ t \in Worker /\ Executing(t) /\ pc[t] \in {"run", "waited"} /\ Usable
      /\ \A q : t \in Woken(q) => q = "send"
  <2>1. CASE Testing(t, "send", w)
    <3>1. /\ t = k.cur /\ t \in Worker /\ pc[t] \in {"run", "waited"} /\ Usable
          /\ isr = "none" /\ \A q : t \in Woken(q) => q = "send"
      BY <2>1, TestingFacts
    <3> QED BY <3>1 DEF Executing
  <2>2. CASE Call(t) BY <2>2 DEF Call, Calling, Woken, Blocked
  <2> QED BY <1>1, <2>1, <2>2
<1>3. /\ Served({t}, Rx) /\ pc'[t] \in {"run", "sched"}
      /\ \A u \in Thread \ {t} : pc'[u] = pc[u]
  BY <1>0, <1>1, <1>2, FinishOK
<1>4. /\ \A u \in Thread : pc'[u] \in Copying => pc[u] \in Copying
      /\ \A u \in Thread : pc'[u] \in Deleting => pc[u] \in Deleting
  BY <1>3 DEF Copying, Deleting
<1>5. MsgOf[t] \in Msg BY ChannelAssumption
<1>6. StoreOK' /\ Room' = Size - entry' BY <1>0, <1>1, <1>4, <1>5, RingSendOK, RingUrgentOK
<1>7. Room' = Room - 1
  <2>1. Room = Size - entry /\ Size \in Nat BY <1>0, <1>1, StoreNow DEF Room
  <2> QED BY <1>0, <1>1, <1>6, <2>1 DEF Counts
<1>8. Usable' BY <1>1, <1>2, <1>4, UsableKept
<1>9. {t} \cap Woken("recv") = {} BY <1>2
<1> QED BY <1>1, <1>3, <1>6, <1>7, <1>8, <1>9, PutOK

\* rt_mb_recv with a word.
LEMMA MbRecvOK ==
    ASSUME Sound, NEW t \in Thread, NEW w, MbRecv(t, w)
    PROVE  Sound'
<1>0. CallsOK /\ StoreOK /\ Counts BY Parts, RoomFacts
<1>1. /\ kind = "mb" /\ entry > 0 /\ entry' = entry - 1 /\ Finish(t, Tx) /\ isr' = isr
      /\ kind' = kind /\ lists' = lists /\ text' = text /\ block' = block /\ alive' = alive
      /\ Testing(t, "recv", w)
      /\ ring' = [ring EXCEPT !.pool[ring.out] = None, !.out = Onward(@)]
  BY DEF MbRecv
<1>2. /\ t \in Worker /\ t = k.cur /\ isr = "none" /\ pc[t] \in {"run", "waited"} /\ Usable
      /\ \A q : t \in Woken(q) => q = "recv"
  BY <1>1, TestingFacts
<1>3. /\ Served({t}, Tx) /\ pc'[t] \in {"run", "sched"}
      /\ \A u \in Thread \ {t} : pc'[u] = pc[u]
  <2>1. Executing(t) BY <1>2 DEF Executing
  <2> QED BY <1>0, <1>1, <1>2, <2>1, FinishOK
<1>4. /\ \A u \in Thread : pc'[u] \in Copying => pc[u] \in Copying
      /\ \A u \in Thread : pc'[u] \in Deleting => pc[u] \in Deleting
  BY <1>3 DEF Copying, Deleting
<1>5. StoreOK' /\ Room' = Size - entry' BY <1>0, <1>1, <1>4, RingRecvOK
<1>6. Room' = Room + 1
  <2>1. Room = Size - entry /\ Size \in Nat BY <1>0, <1>1, StoreNow DEF Room
  <2> QED BY <1>0, <1>1, <1>5, <2>1 DEF Counts
<1>7. Usable' BY <1>1, <1>2, <1>4, UsableKept
<1>8. {t} \cap Woken("send") = {} BY <1>2
<1> QED BY <1>1, <1>3, <1>5, <1>6, <1>7, <1>8, GetOK

\* A thread between two regions is in nobody's way.
LEMMA CopierFacts ==
    ASSUME Sound, NEW t \in Thread, Executing(t), pc[t] \in Copying
    PROVE  t \in Worker /\ Usable /\ \A q : t \notin Woken(q)
<1>1. t # Idle BY Parts, Now DEF ThreadsOK, Copying
<1>2. Usable BY Parts DEF Abandoned
<1>3. ~Blocked(t) BY DEF Blocked, Copying
<1> QED BY <1>1, <1>2, <1>3 DEF Worker, Woken

\* The second regions of rt_mq_send_wait, rt_mq_urgent and rt_mq_recv.
LEMMA MqLinkOK ==
    ASSUME Sound, NEW t \in Thread, MqLink(t)
    PROVE  Sound'
<1>0. CallsOK /\ StoreOK /\ Counts BY Parts, RoomFacts
<1>1. /\ Executing(t) /\ pc[t] \in {"link", "push"} /\ entry' = entry + 1 /\ Finish(t, Rx)
      /\ isr' = isr /\ kind' = kind /\ ring' = ring /\ text' = text /\ alive' = alive
      /\ block' = [block EXCEPT ![t] = None]
      /\ \/ lists' = [lists EXCEPT !.queue = Append(@, block[t])]
         \/ lists' = [lists EXCEPT !.queue = <<block[t]>> \o @]
  BY DEF MqLink
<1>2. pc[t] \in Copying /\ pc[t] # "wait" BY <1>1 DEF Copying
<1>3. t \in Worker /\ Usable /\ \A q : t \notin Woken(q) BY <1>1, <1>2, CopierFacts
<1>4. /\ Served({t}, Rx) /\ pc'[t] \in {"run", "sched"}
      /\ \A u \in Thread \ {t} : pc'[u] = pc[u]
  BY <1>0, <1>1, <1>2, <1>3, FinishOK
<1>5. pc'[t] \notin Copying /\ \A u \in Thread : pc'[u] \in Deleting => pc[u] \in Deleting
  BY <1>4 DEF Copying, Deleting
<1>6. StoreOK' /\ Room' = Room BY <1>0, <1>1, <1>2, <1>4, <1>5, LinkOK
<1>7. Usable' BY <1>1, <1>3, <1>5, UsableKept
<1>8. {t} \cap Woken("recv") = {} /\ {t} \cap Woken("send") = {} BY <1>3
<1> QED BY <1>1, <1>4, <1>6, <1>7, <1>8, PutOK

LEMMA MqFreeOK ==
    ASSUME Sound, NEW t \in Thread, MqFree(t)
    PROVE  Sound'
<1>0. CallsOK /\ StoreOK /\ Counts BY Parts, RoomFacts
<1>1. /\ Executing(t) /\ pc[t] = "copy" /\ entry' = entry /\ Finish(t, Tx)
      /\ isr' = isr /\ kind' = kind /\ ring' = ring /\ alive' = alive
      /\ text' = [text EXCEPT ![block[t]] = None] /\ block' = [block EXCEPT ![t] = None]
      /\ lists' = [lists EXCEPT !.free = <<block[t]>> \o @]
  BY DEF MqFree
<1>2. pc[t] \in Copying /\ pc[t] # "wait" BY <1>1 DEF Copying
<1>3. t \in Worker /\ Usable /\ \A q : t \notin Woken(q) BY <1>1, <1>2, CopierFacts
<1>4. /\ Served({t}, Tx) /\ pc'[t] \in {"run", "sched"}
      /\ \A u \in Thread \ {t} : pc'[u] = pc[u]
  BY <1>0, <1>1, <1>2, <1>3, FinishOK
<1>5. pc'[t] \notin Copying /\ \A u \in Thread : pc'[u] \in Deleting => pc[u] \in Deleting
  BY <1>4 DEF Copying, Deleting
<1>6. StoreOK' /\ Room' = Room + 1 BY <1>0, <1>1, <1>2, <1>4, <1>5, FreeOK
<1>7. Usable' BY <1>1, <1>3, <1>5, UsableKept
<1>8. {t} \cap Woken("recv") = {} /\ {t} \cap Woken("send") = {} BY <1>3
<1> QED BY <1>1, <1>4, <1>6, <1>7, <1>8, GetOK

\* rt_mb_send and rt_mq_send by an interrupt handler.
LEMMA IsrSendOK ==
    ASSUME Sound, MbIsrSend \/ MqIsrSend
    PROVE  Sound'
<1>0. CallsOK /\ StoreOK /\ Counts BY Parts, RoomFacts
<1>1. /\ Usable /\ entry' = entry + 1 /\ pc' = pc /\ isr' = isr /\ kind' = kind
      /\ block' = block /\ job' = job /\ alive' = alive
      /\ k' = IF k.wait[Rx] # << >> THEN rt_schedule(Wake(k, Rx)) ELSE k
  BY DEF MbIsrSend, MqIsrSend
<1>2. Served({}, Rx) BY <1>0, <1>1, IsrWakeOK
<1>3. IsrMsg \in Msg BY ChannelAssumption
<1>4. StoreOK' /\ Room' = Room - 1
  <2>1. CASE MbIsrSend
    <3>1. kind = "mb" /\ entry < Size /\ ring' = RingSend(IsrMsg) /\ lists' = lists /\ text' = text
      BY <2>1 DEF MbIsrSend
    <3>2. \A u \in Thread : pc'[u] \in Copying => pc[u] \in Copying BY <1>1
    <3>3. StoreOK' /\ Room' = Size - entry' BY <1>0, <1>1, <1>3, <3>1, <3>2, RingSendOK
    <3>4. Room = Size - entry /\ Size \in Nat BY <1>0, <3>1, StoreNow DEF Room
    <3> QED BY <1>0, <1>1, <3>3, <3>4 DEF Counts
  <2>2. CASE MqIsrSend
    <3>1. /\ kind = "mq" /\ lists.free # << >> /\ ring' = ring
          /\ lists' = [free |-> Tail(lists.free), queue |-> Append(lists.queue, Head(lists.free))]
          /\ text' = [text EXCEPT ![Head(lists.free)] = IsrMsg]
      BY <2>2 DEF MqIsrSend
    <3> QED BY <1>0, <1>1, <1>3, <3>1, IsrStoreOK
  <2> QED BY <2>1, <2>2
<1>5. Usable' BY <1>1, UsableKept
<1>6. {} \cap Woken("recv") = {} /\ \E t : {} \subseteq {t} OBVIOUS
<1> QED BY <1>1, <1>2, <1>4, <1>5, <1>6, PutOK

\* The first regions of rt_mq_send_wait and rt_mq_urgent.
LEMMA MqTakeOK ==
    ASSUME Sound, NEW t \in Thread, NEW w, MqSend(t, w) \/ MqUrgent(t)
    PROVE  Sound'
<1>0. CallsOK /\ StoreOK /\ Counts BY Parts, RoomFacts
<1>1. PICK l \in {"link", "push"} : TakeBlock(t, l) BY DEF MqSend, MqUrgent
<1>2. /\ kind = "mq" /\ lists.free # << >> /\ lists' = [lists EXCEPT !.free = Tail(@)]
      /\ block' = [block EXCEPT ![t] = Head(lists.free)]
      /\ text' = [text EXCEPT ![Head(lists.free)] = MsgOf[t]]
      /\ pc' = [pc EXCEPT ![t] = l] /\ job' = [job EXCEPT ![t] = NoJob] /\ k' = k
      /\ isr' = isr /\ kind' = kind /\ entry' = entry /\ ring' = ring /\ alive' = alive
  BY <1>1 DEF TakeBlock, Goto
<1>3. /\ t \in Worker /\ Executing(t) /\ pc[t] \in {"run", "waited"} /\ Usable
      /\ \A q : t \in Woken(q) => q = "send"
  <2>1. CASE Testing(t, "send", w)
    <3>1. /\ t = k.cur /\ t \in Worker /\ pc[t] \in {"run", "waited"} /\ Usable
          /\ isr = "none" /\ \A q : t \in Woken(q) => q = "send"
      BY <2>1, TestingFacts
    <3> QED BY <3>1 DEF Executing
  <2>2. CASE Call(t) BY <2>2 DEF Call, Calling, Woken, Blocked
  <2> QED BY <2>1, <2>2 DEF MqSend, MqUrgent
<1>4. l \in ChanPC \ {"wait", "waited"} /\ l \in Copying /\ l \notin Deleting
      /\ pc[t] # "wait" /\ pc[t] \notin Copying
  BY <1>3 DEF ChanPC, Copying, Deleting
<1>5. /\ Around({t}) /\ k'.wait = k.wait
      /\ \A q : Woken(q) \ {t} \subseteq Woken(q)'
      /\ pc'[t] = l /\ \A u \in Thread \ {t} : pc'[u] = pc[u]
  BY <1>0, <1>2, <1>3, <1>4, Now, GoOK
<1>6. MsgOf[t] \in Msg BY ChannelAssumption
<1>7. StoreOK' /\ Room' = Room - 1 BY <1>0, <1>2, <1>4, <1>5, <1>6, TakeFreeOK
<1>8. Usable'
  <2>1. \A u \in Thread : pc'[u] \in Deleting => pc[u] \in Deleting BY <1>4, <1>5
  <2> QED BY <1>2, <1>3, <2>1, UsableKept
<1>9. Accounted(k.wait[Rx], k'.wait[Rx], entry, entry', Woken("recv"), Woken("recv")')
  <2>1. Woken("recv") \subseteq Woken("recv")' BY <1>3, <1>5
  <2> QED BY <1>0, <1>2, <1>5, <2>1, QuietSide DEF Counts
<1>10. Accounted(k.wait[Tx], k'.wait[Tx], Room, Room', Woken("send"), Woken("send")')
  <2>1. Woken("send") \ {t} \subseteq Woken("send")' BY <1>5
  <2>2. Room' + 1 <= Room BY <1>0, <1>7 DEF Counts
  <2> QED BY <1>5, <2>1, <2>2 DEF Accounted
<1> QED BY <1>5, <1>7, <1>8, <1>9, <1>10, WakesOK, AbandonedOK, PartsNext DEF Around

\* The first region of rt_mq_recv.
LEMMA MqRecvOK ==
    ASSUME Sound, NEW t \in Thread, NEW w, MqRecv(t, w)
    PROVE  Sound'
<1>0. CallsOK /\ StoreOK /\ Counts BY Parts, RoomFacts
<1>1. /\ kind = "mq" /\ Testing(t, "recv", w) /\ entry > 0
      /\ lists' = [lists EXCEPT !.queue = Tail(@)]
      /\ block' = [block EXCEPT ![t] = Head(lists.queue)] /\ text' = text
      /\ pc' = [pc EXCEPT ![t] = "copy"] /\ job' = [job EXCEPT ![t] = NoJob] /\ k' = k
      /\ isr' = isr /\ kind' = kind /\ entry' = entry - 1 /\ ring' = ring /\ alive' = alive
  BY DEF MqRecv, Goto
<1>2. /\ t \in Worker /\ t = k.cur /\ isr = "none" /\ pc[t] \in {"run", "waited"} /\ Usable
      /\ \A q : t \in Woken(q) => q = "recv"
  BY <1>1, TestingFacts
<1>3. /\ "copy" \in ChanPC \ {"wait", "waited"} /\ "copy" \in Copying /\ "copy" \notin Deleting
      /\ pc[t] # "wait" /\ pc[t] \notin Copying /\ Executing(t)
  BY <1>2 DEF ChanPC, Copying, Deleting, Executing
<1>4. /\ Around({t}) /\ k'.wait = k.wait
      /\ \A q : Woken(q) \ {t} \subseteq Woken(q)'
      /\ pc'[t] = "copy" /\ \A u \in Thread \ {t} : pc'[u] = pc[u]
  BY <1>0, <1>1, <1>2, <1>3, Now, GoOK
<1>5. StoreOK' /\ Room' = Room BY <1>0, <1>1, <1>3, <1>4, TakeQueueOK
<1>6. Usable'
  <2>1. \A u \in Thread : pc'[u] \in Deleting => pc[u] \in Deleting BY <1>3, <1>4
  <2> QED BY <1>1, <1>2, <2>1, UsableKept
<1>7. Accounted(k.wait[Tx], k'.wait[Tx], Room, Room', Woken("send"), Woken("send")')
  <2>1. Woken("send") \subseteq Woken("send")' BY <1>2, <1>4
  <2> QED BY <1>0, <1>4, <1>5, <2>1, QuietSide DEF Counts
<1>8. Accounted(k.wait[Rx], k'.wait[Rx], entry, entry', Woken("recv"), Woken("recv")')
  <2>1. Woken("recv") \ {t} \subseteq Woken("recv")' BY <1>4
  <2>2. entry' + 1 <= entry BY <1>0, <1>1 DEF Counts
  <2> QED BY <1>4, <2>1, <2>2 DEF Accounted
<1> QED BY <1>4, <1>5, <1>6, <1>7, <1>8, WakesOK, AbandonedOK, PartsNext DEF Around

\* Steps that change neither the store nor who is on the way.
LEMMA StillOK ==
    ASSUME Sound, CallsOK', kind' = kind, UNCHANGED store,
           k'.wait[Rx] # << >> => k.wait[Rx] # << >>,
           k'.wait[Tx] # << >> => k.wait[Tx] # << >>,
           Woken("send")' = Woken("send"), Woken("recv")' = Woken("recv"),
           \A u \in Thread : pc'[u] \in Copying <=> pc[u] \in Copying,
           \/ Usable' \/ ~Usable
           \/ /\ Woken("send") = {} /\ Woken("recv") = {}
              /\ \A u \in Thread : pc[u] \notin Copying
    PROVE  Sound'
<1>0. StoreOK /\ Counts BY Parts, RoomFacts
<1>1. StoreOK' /\ Room' = Room /\ entry' = entry BY <1>0, SameStoreOK
<1>2. /\ Accounted(k.wait[Rx], k'.wait[Rx], entry, entry', Woken("recv"), Woken("recv")')
      /\ Accounted(k.wait[Tx], k'.wait[Tx], Room, Room', Woken("send"), Woken("send")')
  BY <1>0, <1>1, QuietSide DEF Counts
<1>3. NoLostWakeup' BY <1>1, <1>2, WakesOK
<1>4. Abandoned'
  <2>1. CASE Usable' \/ ~Usable BY <2>1, AbandonedOK
  <2>2. CASE /\ Woken("send") = {} /\ Woken("recv") = {}
             /\ \A u \in Thread : pc[u] \notin Copying
    BY <2>2 DEF Abandoned
  <2> QED BY <2>1, <2>2
<1> QED BY <1>1, <1>3, <1>4, PartsNext

\* Such a step of the running thread.
LEMMA QuietOK ==
    ASSUME Sound, NEW t \in Worker, Executing(t), pc[t] # "wait", pc[t] \notin Copying,
           NEW l \in ChanPC \ {"wait", "waited"}, l \notin Copying,
           pc' = [pc EXCEPT ![t] = l], k' = k, isr' = isr, alive' \in BOOLEAN,
           job' = job \/ job' = [job EXCEPT ![t] = NoJob], kind' = kind, UNCHANGED store,
           \A q : t \notin Woken(q),
           \/ alive' = alive /\ l \notin Deleting
           \/ ~Usable
           \/ /\ Woken("send") = {} /\ Woken("recv") = {}
              /\ \A u \in Thread : pc[u] \notin Copying
    PROVE  Sound'
<1>0. CallsOK BY Parts
<1>1. /\ Around({t}) /\ k'.wait = k.wait
      /\ \A q : Woken(q) \ {t} \subseteq Woken(q)' /\ Woken(q)' \subseteq Woken(q)
      /\ pc'[t] = l /\ \A u \in Thread \ {t} : pc'[u] = pc[u]
  BY <1>0, GoOK
<1>2. Woken("send")' = Woken("send") /\ Woken("recv")' = Woken("recv") BY <1>1
<1>3. \A u \in Thread : pc'[u] \in Copying <=> pc[u] \in Copying BY <1>1
<1>4. \/ Usable' \/ ~Usable
      \/ /\ Woken("send") = {} /\ Woken("recv") = {}
         /\ \A u \in Thread : pc[u] \notin Copying
  <2>1. CASE alive' = alive /\ l \notin Deleting
    <3>1. \A u \in Thread : pc'[u] \in Deleting => pc[u] \in Deleting BY <1>1, <2>1
    <3> QED BY <2>1, <3>1, UsableKept
  <2> QED BY <2>1
<1> QED BY <1>1, <1>2, <1>3, <1>4, StillOK DEF Around

LEMMA WaitFailedOK ==
    ASSUME Sound, NEW t \in Thread, WaitFailed(t)
    PROVE  Sound'
<1>0. CallsOK BY Parts
<1>1. /\ Executing(t) /\ pc[t] = "waited" /\ k.err[t] # "EOK"
      /\ pc' = [pc EXCEPT ![t] = "run"] /\ job' = [job EXCEPT ![t] = NoJob]
      /\ k' = k /\ isr' = isr /\ kind' = kind /\ UNCHANGED store /\ alive' = alive
  BY DEF WaitFailed, Goto, store
<1>2. t \in Worker BY <1>0, <1>1, Now DEF ThreadsOK, Worker
<1>3. \A q : t \notin Woken(q) BY <1>1 DEF Woken
<1>4. /\ pc[t] # "wait" /\ pc[t] \notin Copying /\ "run" \in ChanPC \ {"wait", "waited"}
      /\ "run" \notin Copying /\ "run" \notin Deleting
  BY <1>1 DEF Copying, ChanPC, Deleting
<1>5. alive' \in BOOLEAN BY <1>0, <1>1, Now
<1> QED BY <1>1, <1>2, <1>3, <1>4, <1>5, QuietOK

\* rt_mb_delete, rt_mq_delete and the detach functions.
LEMMA DeleteBeginOK ==
    ASSUME Sound, NEW t \in Thread, DeleteBegin(t)
    PROVE  Sound'
<1>0. CallsOK BY Parts
<1>1. /\ t \in Worker /\ Executing(t) /\ pc[t] = "run"
      /\ Woken("send") \cup Woken("recv") = {}
      /\ \A u \in Worker : pc[u] \notin {"link", "push", "copy"}
      /\ pc' = [pc EXCEPT ![t] = "delall"] /\ job' = job
      /\ k' = k /\ isr' = isr /\ kind' = kind /\ UNCHANGED store /\ alive' = alive
  BY DEF DeleteBegin, Call, Calling, Goto, store
<1>2. \A u \in Thread : pc[u] \notin Copying
  BY <1>0, <1>1, Now DEF Copying, Worker, ThreadsOK
<1>3. \A q : t \notin Woken(q) BY <1>1 DEF Woken, Blocked
<1>4. /\ pc[t] # "wait" /\ pc[t] \notin Copying /\ "delall" \in ChanPC \ {"wait", "waited"}
      /\ "delall" \notin Copying
  BY <1>1 DEF Copying, ChanPC, Deleting
<1>5. alive' \in BOOLEAN BY <1>0, <1>1, Now
<1>6. Woken("send") = {} /\ Woken("recv") = {} BY <1>1
<1> QED BY <1>1, <1>2, <1>3, <1>4, <1>5, <1>6, QuietOK

LEMMA DeleteEndOK ==
    ASSUME Sound, NEW t \in Thread, DeleteEnd(t)
    PROVE  Sound'
<1>0. CallsOK BY Parts
<1>1. /\ Executing(t) /\ pc[t] = "delobj" /\ pc' = [pc EXCEPT ![t] = "run"] /\ job' = job
      /\ k' = k /\ isr' = isr /\ kind' = kind /\ UNCHANGED store /\ alive' = FALSE
  BY DEF DeleteEnd, Goto, store
<1>2. t \in Worker BY <1>0, <1>1, Now DEF ThreadsOK, Worker
<1>3. \A q : t \notin Woken(q) BY <1>1 DEF Woken, Blocked
<1>4. /\ pc[t] # "wait" /\ pc[t] \notin Copying /\ "run" \in ChanPC \ {"wait", "waited"}
      /\ "run" \notin Copying /\ pc[t] \in Deleting
  BY <1>1 DEF Copying, ChanPC, Deleting
<1>5. ~Usable BY <1>4 DEF Usable
<1>6. alive' \in BOOLEAN BY <1>1
<1> QED BY <1>1, <1>2, <1>3, <1>4, <1>5, <1>6, QuietOK

\* A thread leaves its suspend list with an error.
LEMMA LeaveOK ==
    ASSUME Sound, CallsTyped, ThreadsOK', NEW h \in Listed, k'.wait = WaitWithout(k, h),
           NEW x, x # "EOK", k'.err = [k.err EXCEPT ![h] = x], job' = job, kind' = kind,
           UNCHANGED store,
           \A u \in Thread : (Blocked(u)' <=> Blocked(u))
                             /\ (pc'[u] \in Copying <=> pc[u] \in Copying),
           Usable' \/ ~Usable
    PROVE  Sound'
<1>0. CallsOK BY Parts
<1>1. /\ Around({} \cup {h}) /\ h \in Worker
      /\ \A q \in Obj : k'.wait[q] # << >> => k.wait[q] # << >>
  <2>1. \A u \in Thread \ {h} : k'.err[u] = k.err[u] BY <1>0, Now
  <2>2. {} \in SUBSET Thread /\ {} \cap Listed = {} OBVIOUS
  <2>3. \A u \in Thread \ {} : (Blocked(u)' <=> Blocked(u)) /\ job'[u] = job[u] OBVIOUS
  <2> QED BY <1>0, <2>1, <2>2, <2>3, UnlinkOK
<1>2. \A q : h \notin Woken(q) BY DEF Woken, Listed
<1>3. \A q : h \notin Woken(q)'
  <2>1. k'.err[h] # "EOK" BY <1>0, <1>1, Now DEF Worker
  <2> QED BY <2>1 DEF Woken
<1>4. ASSUME NEW q PROVE Woken(q)' = Woken(q)
  <2>1. \A u \in Worker \ {h} : Same(u) BY <1>1 DEF Around
  <2>2. Woken(q) \ {h} \subseteq Woken(q)' /\ Woken(q)' \ {h} \subseteq Woken(q)
    BY <2>1, SameWoken
  <2> QED BY <1>2, <1>3, <2>2
<1>5. CallsOK' BY <1>1 DEF Around
<1>6. Rx \in Obj /\ Tx \in Obj BY <1>0, Now
<1> QED BY <1>1, <1>4, <1>5, <1>6, StillOK

\* The loop of _ipc_list_resume_all in a deletion.
LEMMA DeleteResumeOK ==
    ASSUME Sound, NEW t \in Thread, DeleteResume(t)
    PROVE  Sound'
<1>0. CallsOK BY Parts
<1>1. PICK o \in {Rx, Tx} : ResumeAllLook(t, o) \/ ResumeAllTurn(t, o) BY DEF DeleteResume
<1>2. kind' = kind /\ UNCHANGED store /\ job' = job /\ alive' = alive BY DEF DeleteResume, store
<1>3. o \in Obj BY <1>0, Now
<1>4. CASE ResumeAllLook(t, o)
  <2>1. PICK l \in {"delobj", "delone"} : pc' = [pc EXCEPT ![t] = l] BY <1>4 DEF ResumeAllLook, Goto
  <2>2. Executing(t) /\ pc[t] = "delall" /\ k' = k /\ isr' = isr BY <1>4 DEF ResumeAllLook
  <2>3. t \in Worker BY <1>0, <2>2, Now DEF ThreadsOK, Worker
  <2>4. \A q : t \notin Woken(q) BY <2>2 DEF Woken, Blocked
  <2>5. /\ pc[t] # "wait" /\ pc[t] \notin Copying /\ l \in ChanPC \ {"wait", "waited"}
        /\ l \notin Copying /\ pc[t] \in Deleting
    BY <2>2 DEF Copying, ChanPC, Deleting
  <2>6. ~Usable BY <2>5 DEF Usable
  <2>7. alive' \in BOOLEAN BY <1>0, <1>2, Now
  <2> QED BY <1>2, <2>1, <2>2, <2>3, <2>4, <2>5, <2>6, <2>7, QuietOK
<1>5. CASE ResumeAllTurn(t, o)
  <2> DEFINE h == Head(k.wait[o])
  <2>1. /\ k' \in KState /\ ThreadsOK' /\ pc[t] = "delone" /\ isr' = isr
        /\ pc' = [pc EXCEPT ![t] = "delall"] /\ h \in Thread /\ h \in ToSet(k.wait[o])
        /\ k'.err = [k.err EXCEPT ![h] = "ERROR"] /\ k'.wait = WaitWithout(k, h)
    BY <1>0, <1>3, <1>5, Now, TurnStep
  <2> HIDE DEF h
  <2>2. /\ pc' \in [Thread -> ChanPC] /\ pc'[t] = "delall"
        /\ \A u \in Thread \ {t} : pc'[u] = pc[u]
    BY <1>0, <2>1, Now DEF ChanPC, Deleting
  <2>3. CallsTyped BY <1>0, <1>2, <2>1, <2>2, Now DEF CallsTyped
  <2>4. \A u \in Thread : (Blocked(u)' <=> Blocked(u))
                          /\ (pc'[u] \in Copying <=> pc[u] \in Copying)
    BY <2>1, <2>2 DEF Blocked, Copying
  <2>5. ~Usable BY <2>1 DEF Usable, Deleting
  <2>6. h \in Listed BY <1>1, <2>1 DEF Listed
  <2>7. "ERROR" # "EOK" OBVIOUS
  <2> QED BY <1>2, <2>1, <2>3, <2>4, <2>5, <2>6, <2>7, LeaveOK
<1> QED BY <1>1, <1>4, <1>5

\* rt_mb_create and rt_mq_create.
LEMMA CreateOK ==
    ASSUME Sound, NEW t \in Thread, Create(t)
    PROVE  Sound'
<1>0. CallsOK /\ StoreOK /\ Abandoned BY Parts
<1>1. /\ ~alive /\ \A u \in Worker : ~Blocked(u)
      /\ alive' = TRUE /\ entry' = 0 /\ ring' = EmptyRing /\ lists' = EmptyLists
      /\ text' = [b \in Block |-> None]
      /\ k' = k /\ pc' = pc /\ isr' = isr /\ kind' = kind /\ block' = block /\ job' = job
  BY DEF Create
<1>2. ~Usable BY <1>1 DEF Usable
<1>3. \A u \in Thread : pc'[u] \notin Copying /\ pc[u] \notin Copying
  BY <1>0, <1>1, <1>2 DEF Abandoned
<1>4. StoreOK' BY <1>0, <1>1, <1>3, CreateStoreOK
<1>5. CallsOK' BY <1>0, <1>1 DEF CallsOK, ThreadsOK, Queued, Blocked
<1>6. k.wait[Rx] = << >> /\ k.wait[Tx] = << >>
  <2>1. Listed = {} BY <1>0, <1>1, ListedFacts
  <2>2. k.wait[Rx] \in Seq(Thread) /\ k.wait[Tx] \in Seq(Thread) BY <1>0, Now
  <2> QED BY <2>1, <2>2, EmptyFacts DEF Listed
<1>7. NoLostWakeup' BY <1>1, <1>6 DEF NoLostWakeup
<1>8. Woken("send")' = Woken("send") /\ Woken("recv")' = Woken("recv")
  BY <1>1 DEF Woken, Blocked
<1>9. Abandoned' BY <1>2, <1>3, <1>8, AbandonedOK
<1> QED BY <1>4, <1>5, <1>7, <1>9, PartsNext

\* RT_IPC_CMD_RESET.
LEMMA ResetOK ==
    ASSUME Sound, NEW t \in Thread, MbReset(t) \/ MqReset(t)
    PROVE  Sound'
<1>0. CallsOK /\ StoreOK BY Parts
<1>1. /\ Call(t) /\ k' = ResumeAll(ResumeAll(k, Rx), Tx) /\ entry' = 0
      /\ pc' = [pc EXCEPT ![t] = "sched"] /\ isr' = isr /\ kind' = kind /\ block' = block
      /\ job' = job /\ alive' = alive
  BY DEF MbReset, MqReset, Goto
<1>2. t \in Worker /\ t # Idle /\ Executing(t) /\ pc[t] = "run" /\ Usable
  BY <1>1 DEF Call, Calling, Worker
<1>3. t = k.cur /\ pc[t] \notin {"sleep", "wait"} BY <1>0, <1>2, RunningFacts
<1>4. PICK a : a = ResumeAll(k, Rx) OBVIOUS
<1>5. Effect(k, a, ToSet(k.wait[Rx])) /\ a.wait = [k.wait EXCEPT ![Rx] = << >>]
  BY <1>0, <1>4, Now, ResumeAllEffect
<1>6. a \in KState /\ KernelOK(a, {}) BY <1>5 DEF Effect, Woke
<1>7. Effect(a, k', ToSet(a.wait[Tx])) /\ k'.wait = [a.wait EXCEPT ![Tx] = << >>]
  BY <1>0, <1>1, <1>4, <1>6, Now, ResumeAllEffect
<1>8. /\ a.wait[Tx] = k.wait[Tx] /\ k'.wait[Rx] = << >> /\ k'.wait[Tx] = << >>
      /\ \A o \in Obj : k'.wait[o] = << >>
  BY ZenonT(40), <1>0, <1>5, <1>7, Now
<1>9. Woke(k, k', Listed)
  <2>1. Effect(k, k', ToSet(k.wait[Rx]) \cup ToSet(a.wait[Tx])) BY <1>5, <1>7, EffectTrans
  <2> QED BY <1>8, <2>1 DEF Effect, Listed
<1>10. ToSet(<< >>) = {} BY EmptyList
<1>11. k' \in KState /\ ThreadsOK'
  <2>1. Listed \in SUBSET Thread BY <1>0, Now DEF Listed
  <2>2. \A u \in Thread, o \in Obj : u \in ToSet(k'.wait[o]) => u \in ToSet(k.wait[o])
    BY <1>8, <1>10
  <2>3. \A u \in Thread \ Listed, o \in Obj : u \in ToSet(k.wait[o]) => u \in ToSet(k'.wait[o])
    BY <1>0, ListedFacts
  <2> QED BY <1>0, <1>1, <1>2, <1>3, <1>9, <2>1, <2>2, <2>3, Now, MoveStep
<1>12. /\ pc' \in [Thread -> ChanPC] /\ pc'[t] = "sched"
       /\ \A u \in Thread \ {t} : pc'[u] = pc[u]
  BY <1>0, <1>1, Now DEF ChanPC
<1>13. Queued' BY <1>0, <1>8, <1>10, Now DEF Queued
<1>14. CallsOK' BY <1>0, <1>1, <1>11, <1>12, <1>13, Now DEF CallsOK
<1>15. \A u \in Thread : /\ pc'[u] \in Copying <=> pc[u] \in Copying
                         /\ pc'[u] \in Deleting => pc[u] \in Deleting
  BY <1>2, <1>12 DEF Copying, Deleting
<1>16. StoreOK'
  <2>1. CASE MbReset(t)
    <3>1. kind = "mb" /\ ring' = EmptyRing /\ lists' = lists /\ text' = text
      BY <2>1 DEF MbReset
    <3> QED BY <1>0, <1>1, <1>15, <3>1, EmptyRingFacts, RingStepOK
  <2>2. CASE MqReset(t)
    <3>1. /\ kind = "mq" /\ ring' = ring
          /\ lists' = [free |-> Reverse(lists.queue) \o lists.free, queue |-> << >>]
          /\ text' = [b \in Block |-> IF b \in ToSet(lists.queue) THEN None ELSE text[b]]
      BY <2>2 DEF MqReset
    <3> QED BY <1>0, <1>1, <1>15, <3>1, ResetStoreOK
  <2> QED BY <2>1, <2>2
<1>17. NoLostWakeup' BY <1>8 DEF NoLostWakeup
<1>18. Usable' BY <1>1, <1>2, <1>15, UsableKept
<1> QED BY <1>14, <1>16, <1>17, <1>18, AbandonedOK, PartsNext

\* The rt_schedule that ends a call, and the tick interrupt.
LEMMA SteadyOK ==
    ASSUME Sound, CallsTyped, ThreadsOK', k'.wait = k.wait, k'.err = k.err,
           job' = job, kind' = kind, UNCHANGED store, alive' = alive,
           \A u \in Thread : /\ Blocked(u)' <=> Blocked(u)
                             /\ pc'[u] \in Copying <=> pc[u] \in Copying
                             /\ pc'[u] \in Deleting <=> pc[u] \in Deleting
    PROVE  Sound'
<1>0. CallsOK BY Parts
<1>1. CallsOK'
  <2>1. Queued' BY <1>0, Now DEF Queued
  <2> QED BY <2>1 DEF CallsOK, CallsTyped
<1>2. \A u \in Worker \ {} : Same(u) BY DEF Same, Listed, Worker
<1>3. ASSUME NEW q PROVE Woken(q)' = Woken(q)
  <2>1. Woken(q) \ {} \subseteq Woken(q)' /\ Woken(q)' \ {} \subseteq Woken(q)
    BY <1>2, SameWoken
  <2> QED BY <2>1
<1>4. Usable' \/ ~Usable BY DEF Usable
<1> QED BY <1>1, <1>3, <1>4, StillOK

LEMMA ProcessorOK ==
    ASSUME Sound, ProcessorStep, UNCHANGED <<kind, store, job, alive>>
    PROVE  Sound'
<1>0. CallsOK /\ kind' = kind /\ UNCHANGED store /\ job' = job /\ alive' = alive BY Parts DEF store
<1>1. ASSUME NEW t \in Thread, Schedule(t) PROVE Sound'
  <2>1. /\ k' \in KState /\ ThreadsOK' /\ k'.wait = k.wait /\ k'.err = k.err
        /\ pc' = [pc EXCEPT ![t] = After[pc[t]]] /\ pc[t] \in {"sched", "sleep", "wait"}
    BY <1>0, <1>1, Now, ScheduleStep
  <2>2. isr' = isr BY <1>1 DEF Schedule
  <2>3. After["sched"] = "run" /\ After["wait"] = "waited" BY DEF After
  <2>4. pc[t] \in {"sched", "wait"} BY <1>0, <2>1, Now DEF ChanPC, Deleting
  <2>5. After[pc[t]] \in ChanPC BY <2>3, <2>4 DEF ChanPC
  <2>6. /\ pc' \in [Thread -> ChanPC] /\ pc'[t] = After[pc[t]]
        /\ \A u \in Thread \ {t} : pc'[u] = pc[u]
    BY <1>0, <2>1, <2>5, Now
  <2>7. \A u \in Thread : /\ Blocked(u)' <=> Blocked(u)
                          /\ pc'[u] \in Copying <=> pc[u] \in Copying
                          /\ pc'[u] \in Deleting <=> pc[u] \in Deleting
    BY <2>3, <2>4, <2>6 DEF Blocked, Copying, Deleting
  <2>8. CallsTyped BY <1>0, <2>1, <2>2, <2>6, Now DEF CallsTyped
  <2> QED BY <1>0, <2>1, <2>7, <2>8, SteadyOK
<1>2. CASE TickEnter \/ TickLeave
  <2>1. /\ k' \in KState /\ ThreadsOK' /\ k'.wait = k.wait /\ k'.err = k.err
        /\ pc' = pc /\ isr' \in {"none", "timers"}
    BY <1>0, <1>2, Now, TickStep
  <2>2. CallsTyped BY <1>0, <2>1, Now DEF CallsTyped
  <2>3. \A u \in Thread : /\ Blocked(u)' <=> Blocked(u)
                          /\ pc'[u] \in Copying <=> pc[u] \in Copying
                          /\ pc'[u] \in Deleting <=> pc[u] \in Deleting
    BY <2>1 DEF Blocked
  <2> QED BY <1>0, <2>1, <2>2, <2>3, SteadyOK
<1>3. ASSUME NEW t \in Thread, TimerFire(t) PROVE Sound'
  <2>1. /\ k' \in KState /\ ThreadsOK' /\ k.stat[t] = "SUSPEND"
        /\ k'.wait = WaitWithout(k, t) /\ k'.err = [k.err EXCEPT ![t] = "ETIMEOUT"]
        /\ pc' = pc /\ isr' = isr
    BY <1>0, <1>3, Now, TimerStep
  <2>2. t \in Listed
    <3>1. pc[t] \notin {"sleep", "slept"} BY <1>0, Now DEF ChanPC, Deleting
    <3>2. PICK o \in Obj : t \in ToSet(k.wait[o]) BY <1>0, <2>1, <3>1, Now DEF ThreadsOK
    <3> QED BY <1>0, <3>2, ListedFacts
  <2>3. CallsTyped BY <1>0, <2>1, Now DEF CallsTyped
  <2>4. "ETIMEOUT" # "EOK" OBVIOUS
  <2>5. \A u \in Thread : (Blocked(u)' <=> Blocked(u))
                          /\ (pc'[u] \in Copying <=> pc[u] \in Copying)
    BY <2>1 DEF Blocked
  <2>6. Usable' \/ ~Usable BY <1>0, <2>1 DEF Usable
  <2> QED BY <1>0, <2>1, <2>2, <2>3, <2>4, <2>5, <2>6, LeaveOK
<1> QED BY <1>1, <1>2, <1>3 DEF ProcessorStep, Interrupt

-----------------------------------------------------------------------------
(* The theorems *)

LEMMA InitOK == Init => Sound
<1> SUFFICES ASSUME Init PROVE Sound OBVIOUS
<1>1. /\ k = KBoot /\ pc = [t \in Thread |-> "run"] /\ isr = "none" /\ kind \in {"mb", "mq"}
      /\ entry = 0 /\ ring = EmptyRing /\ lists = EmptyLists
      /\ text = [b \in Block |-> None] /\ block = [t \in Thread |-> None]
      /\ job = [t \in Thread |-> NoJob] /\ alive = TRUE
  BY DEF Init
<1>2. k \in KState /\ ThreadsOK /\ \A o \in Obj : k.wait[o] = << >> BY <1>1, BootThreads
<1>3. Rx \in Obj /\ Tx \in Obj /\ Size \in Nat /\ Size > 0 /\ None \notin Nat
  <2>1. Size \in Nat \ {0} BY ChannelAssumption
  <2> QED BY <2>1, ChannelAssumption
<1>4. CallsOK
  <2>1. pc \in [Thread -> ChanPC] BY <1>1 DEF ChanPC
  <2>2. job \in [Thread -> Jobs]
    <3>1. NoJob \in Jobs BY DEF Jobs, NoJob
    <3> QED BY <1>1, <3>1
  <2>3. Queued BY <1>2, <1>3, EmptyList DEF Queued
  <2> QED BY <1>1, <1>2, <2>1, <2>2, <2>3 DEF CallsOK
<1>5. PICK f : f = EmptyLists.free OBVIOUS
<1>6. /\ f \in Seq(Block) /\ IsInjective(f) /\ ToSet(f) = Block
      /\ lists = [free |-> f, queue |-> << >>]
  BY <1>1, <1>5, NewStore
<1>7. lists.free = f /\ lists.queue = << >> BY <1>6
<1>8. StoreTyped
  <2>1. 0 \in 0 .. Size - 1 /\ 0 \in 0 .. Size BY <1>3
  <2>2. ring \in Rings BY <1>1, <2>1 DEF EmptyRing, Rings
  <2>3. lists \in [free : Seq(Block), queue : Seq(Block)] BY <1>6, EmptyList
  <2>4. text \in [Block -> Msg \cup {None}] /\ block \in [Thread -> Block \cup {None}] BY <1>1
  <2> QED BY <1>1, <2>1, <2>2, <2>3, <2>4 DEF StoreTyped
<1>9. BlocksOK
  <2>1. \A b \in Block, t \in Thread : block[t] # b BY <1>1, <1>3 DEF Block
  <2>2. \A t \in Thread : block[t] = None BY <1>1
  <2>3. \A b \in Block : b \in ToSet(lists.free) \cup ToSet(lists.queue) <=>
                         \A t \in Thread : block[t] # b
    BY <1>6, <1>7, <2>1
  <2>4. ToSet(lists.free) \cap ToSet(lists.queue) = {} BY <1>7, EmptyList
  <2>5. IsInjective(lists.free) /\ IsInjective(lists.queue) /\ entry = Len(lists.queue)
    BY <1>1, <1>6, <1>7, EmptyList
  <2> QED BY <2>2, <2>3, <2>4, <2>5 DEF BlocksOK
<1>10. InHand
  <2>1. \A t \in Thread : block[t] = None /\ pc[t] \notin Copying BY <1>1 DEF Copying
  <2>2. \A i \in 1 .. Len(lists.queue) : text[lists.queue[i]] \in Msg BY <1>7, EmptyList
  <2> QED BY <2>1, <2>2 DEF InHand
<1>11. RingMeets
  <2>1. 0 + (0 + 1) - 1 = 0 /\ 0 < Size BY <1>3
  <2>2. ring.in = 0 /\ ring.out = 0 BY <1>1 DEF EmptyRing
  <2> QED BY <1>1, <2>1, <2>2 DEF RingMeets, RingPlace
<1>12. NoLostWakeup BY <1>2, <1>3 DEF NoLostWakeup
<1>13. Abandoned BY <1>1 DEF Abandoned, Usable, Deleting
<1> QED BY <1>4, <1>8, <1>9, <1>10, <1>11, <1>12, <1>13, Parts DEF StoreOK

LEMMA StutterOK == ASSUME Sound, UNCHANGED chanVars PROVE Sound'
<1>1. /\ k' = k /\ pc' = pc /\ isr' = isr /\ kind' = kind /\ UNCHANGED store /\ job' = job
      /\ alive' = alive
  BY DEF chanVars, store
<1>2. CallsOK BY Parts
<1>3. ThreadsOK' BY <1>1, <1>2, Now DEF ThreadsOK, Blocked
<1>4. CallsTyped BY <1>1, <1>2, Now DEF CallsTyped
<1>5. \A u \in Thread : /\ Blocked(u)' <=> Blocked(u)
                        /\ pc'[u] \in Copying <=> pc[u] \in Copying
                        /\ pc'[u] \in Deleting <=> pc[u] \in Deleting
  BY <1>1 DEF Blocked
<1> QED BY <1>1, <1>3, <1>4, <1>5, SteadyOK

\* The steps of the two kinds of channel.
LEMMA MbStepOK ==
    ASSUME Sound, NEW t \in Thread, NEW w \in {"no", "limited", "forever"}, MbStep(t, w)
    PROVE  Sound'
<1>0. StoreOK /\ Rx # Tx BY Parts, ChannelAssumption
<1>1. Size \in Nat BY <1>0, StoreNow
<1>2. Role(Rx) = "recv" /\ Role(Tx) = "send" BY <1>0 DEF Role
<1>3. CASE MbSendRefused(t, w)
  <2>1. Refused(t, "send", w) /\ Room = 0 BY <1>1, <1>3 DEF MbSendRefused, Room
  <2> QED BY <2>1, RefusedOK
<1>4. CASE MbSendWait(t, w)
  <2>1. Waiting(t, Role(Tx), w, Tx) /\ Room = 0 BY <1>1, <1>2, <1>4 DEF MbSendWait, Room
  <2> QED BY <2>1, WaitingOK
<1>5. CASE MbRecvRefused(t, w)
  <2>1. Refused(t, "recv", w) /\ entry = 0 BY <1>5 DEF MbRecvRefused
  <2> QED BY <2>1, RefusedOK
<1>6. CASE MbRecvWait(t, w)
  <2>1. Waiting(t, Role(Rx), w, Rx) /\ entry = 0 BY <1>2, <1>6 DEF MbRecvWait
  <2> QED BY <1>0, <2>1, WaitingOK
<1> QED BY <1>3, <1>4, <1>5, <1>6, MbPutOK, MbRecvOK DEF MbStep

LEMMA MqStepOK ==
    ASSUME Sound, NEW t \in Thread, NEW w \in {"no", "limited", "forever"}, MqStep(t, w)
    PROVE  Sound'
<1>0. StoreOK /\ Rx # Tx BY Parts, ChannelAssumption
<1>1. Len(<< >>) = 0 BY EmptyList
<1>2. Role(Rx) = "recv" /\ Role(Tx) = "send" BY <1>0 DEF Role
<1>3. CASE MqSendRefused(t, w)
  <2>1. Refused(t, "send", w) /\ Room = 0 BY <1>1, <1>3 DEF MqSendRefused, Room
  <2> QED BY <2>1, RefusedOK
<1>4. CASE MqSendWait(t, w)
  <2>1. Waiting(t, Role(Tx), w, Tx) /\ Room = 0 BY <1>1, <1>2, <1>4 DEF MqSendWait, Room
  <2> QED BY <2>1, WaitingOK
<1>5. CASE MqRecvRefused(t, w)
  <2>1. Refused(t, "recv", w) /\ entry = 0 BY <1>5 DEF MqRecvRefused
  <2> QED BY <2>1, RefusedOK
<1>6. CASE MqRecvWait(t, w)
  <2>1. Waiting(t, Role(Rx), w, Rx) /\ entry = 0 BY <1>2, <1>6 DEF MqRecvWait
  <2> QED BY <1>0, <2>1, WaitingOK
<1> QED BY <1>3, <1>4, <1>5, <1>6, MqTakeOK, MqRecvOK DEF MqStep

LEMMA NextOK == ASSUME Sound, [Next]_chanVars PROVE Sound'
<1>1. ASSUME NEW t \in Thread, NEW w \in {"no", "limited", "forever"}, MbStep(t, w) \/ MqStep(t, w)
      PROVE  Sound'
  BY <1>1, MbStepOK, MqStepOK
<1>2. ASSUME NEW t \in Thread, MbUrgent(t) \/ MqUrgent(t) PROVE Sound'
  BY <1>2, MbPutOK, MqTakeOK
<1>3. ASSUME NEW t \in Thread,
             \/ MqLink(t) \/ MqFree(t) \/ WaitFailed(t) \/ MbReset(t) \/ MqReset(t)
             \/ DeleteBegin(t) \/ DeleteResume(t) \/ DeleteEnd(t) \/ Create(t)
      PROVE  Sound'
  BY <1>3, MqLinkOK, MqFreeOK, WaitFailedOK, ResetOK, DeleteBeginOK, DeleteResumeOK,
     DeleteEndOK, CreateOK
<1> QED BY <1>1, <1>2, <1>3, IsrSendOK, ProcessorOK, StutterOK DEF Next

-----------------------------------------------------------------------------
(* What senders send, and what steps report *)

\* A step that leaves the blocks of senders alone, except for the thread t.
LEMMA SendersKeep ==
    ASSUME Sending, NEW t,
           \A u \in Thread \ {t} : /\ pc'[u] = pc[u] /\ block'[u] = block[u]
                                   /\ pc[u] \in Copying => text'[block[u]] = text[block[u]],
           t \in Thread => \/ pc'[t] \notin {"link", "push"}
                           \/ text'[block'[t]] = MsgOf[t]
    PROVE  Sending'
<1> SUFFICES ASSUME NEW u \in Thread, pc'[u] \in {"link", "push"}
             PROVE  text'[block'[u]] = MsgOf[u]
  BY DEF Sending
<1>1. CASE u = t BY <1>1
<1>2. CASE u # t
  <2>1. pc'[u] = pc[u] /\ block'[u] = block[u] BY <1>2
  <2>2. text'[block[u]] = text[block[u]] BY <1>2, <2>1 DEF Copying
  <2> QED BY <2>1, <2>2 DEF Sending
<1> QED BY <1>1, <1>2

\* Steps of one thread that write no block.
LEMMA MoveSends ==
    ASSUME Sound, Sending, NEW t \in Thread, NEW l, l \notin {"link", "push"},
           pc' = [pc EXCEPT ![t] = l], text' = text,
           block' = block \/ \E b : block' = [block EXCEPT ![t] = b]
    PROVE  Sending'
<1>1. pc \in [Thread -> ChanPC] BY Parts, Now
<1>2. block \in [Thread -> Block \cup {None}] BY Parts DEF StoreOK, StoreTyped
<1>3. pc'[t] = l /\ \A u \in Thread \ {t} : pc'[u] = pc[u] BY <1>1
<1>4. \A u \in Thread \ {t} : block'[u] = block[u] BY <1>2
<1> QED BY <1>3, <1>4, SendersKeep

\* A mailbox has no blocks.
LEMMA MailboxSends ==
    ASSUME StoreOK', kind' = "mb"
    PROVE  Sending'
  BY DEF StoreOK, InHand, Copying, Sending

\* The first region of a send, and a send by a handler, write a free block.
LEMMA TakeSends ==
    ASSUME Sound, Sending, NEW t \in Thread, NEW l, TakeBlock(t, l)
    PROVE  Sending'
<1>0. StoreOK /\ CallsOK BY Parts
<1>1. PICK b : b = Head(lists.free) OBVIOUS
<1>2. /\ lists.free # << >> /\ block' = [block EXCEPT ![t] = b]
      /\ text' = [text EXCEPT ![b] = MsgOf[t]] /\ pc' = [pc EXCEPT ![t] = l]
  BY <1>1 DEF TakeBlock, Goto
<1>3. b \in Block /\ b \in ToSet(lists.free) BY <1>0, <1>1, <1>2, FreeTail
<1>4. /\ pc \in [Thread -> ChanPC] /\ block \in [Thread -> Block \cup {None}]
      /\ text \in [Block -> Msg \cup {None}]
  BY <1>0, Now, StoreNow DEF StoreTyped
<1>5. \A u \in Thread \ {t} : pc'[u] = pc[u] /\ block'[u] = block[u] BY <1>2, <1>4
<1>6. block'[t] = b /\ text'[b] = MsgOf[t] BY <1>2, <1>3, <1>4
<1>7. ASSUME NEW u \in Thread, pc[u] \in Copying PROVE text'[block[u]] = text[block[u]]
  <2>1. block[u] \in Block BY <1>0, <1>7, HolderFacts
  <2>2. block[u] # b BY <1>0, <1>3, StoreNow DEF BlocksOK
  <2> QED BY <1>2, <1>4, <2>1, <2>2
<1> QED BY <1>5, <1>6, <1>7, SendersKeep

LEMMA IsrSends ==
    ASSUME Sound, Sending, MqIsrSend
    PROVE  Sending'
<1>0. StoreOK /\ CallsOK BY Parts
<1>1. PICK b : b = Head(lists.free) OBVIOUS
<1>2. /\ lists.free # << >> /\ block' = block /\ pc' = pc
      /\ text' = [text EXCEPT ![b] = IsrMsg]
  BY <1>1 DEF MqIsrSend
<1>3. b \in Block /\ b \in ToSet(lists.free) BY <1>0, <1>1, <1>2, FreeTail
<1>4. text \in [Block -> Msg \cup {None}] BY <1>0, StoreNow DEF StoreTyped
<1>5. ASSUME NEW u \in Thread, pc[u] \in Copying PROVE text'[block[u]] = text[block[u]]
  <2>1. block[u] \in Block BY <1>0, <1>5, HolderFacts
  <2>2. block[u] # b BY <1>0, <1>3, StoreNow DEF BlocksOK
  <2> QED BY <1>2, <1>4, <2>1, <2>2
<1>6. ASSUME NEW u \in Thread, pc'[u] \in {"link", "push"} PROVE text'[block'[u]] = MsgOf[u]
  BY <1>2, <1>5, <1>6 DEF Sending, Copying
<1> QED BY <1>6 DEF Sending

\* A receiver's block is nobody else's, and those of a reset are in the queue.
LEMMA FreeSends ==
    ASSUME Sound, Sending, NEW t \in Thread, MqFree(t)
    PROVE  Sending'
<1>0. CallsOK /\ StoreOK BY Parts
<1>1. /\ pc[t] = "copy" /\ text' = [text EXCEPT ![block[t]] = None]
      /\ block' = [block EXCEPT ![t] = None]
  BY DEF MqFree
<1>2. PICK l \in {"run", "sched"} : pc' = [pc EXCEPT ![t] = l] BY DEF MqFree, Finish, Goto
<1>3. block[t] \in Block BY <1>0, <1>1, HolderFacts DEF Copying
<1>4. text \in [Block -> Msg \cup {None}] /\ pc \in [Thread -> ChanPC]
  BY <1>0, Now, StoreNow DEF StoreTyped
<1>5. \A u \in Thread \ {t} : block'[u] = block[u] /\ block[u] # block[t]
  BY <1>0, <1>1, <1>3, HandDrop
<1>6. pc'[t] \notin {"link", "push"} /\ \A u \in Thread \ {t} : pc'[u] = pc[u] BY <1>2, <1>4
<1>7. ASSUME NEW u \in Thread \ {t}, pc[u] \in Copying PROVE text'[block[u]] = text[block[u]]
  <2>1. block[u] \in Block BY <1>0, <1>7, HolderFacts
  <2> QED BY <1>1, <1>4, <1>5, <2>1
<1> QED BY <1>5, <1>6, <1>7, SendersKeep

LEMMA ResetSends ==
    ASSUME Sound, Sending, NEW t \in Thread, MqReset(t)
    PROVE  Sending'
<1>0. CallsOK /\ StoreOK BY Parts
<1>1. /\ pc' = [pc EXCEPT ![t] = "sched"] /\ block' = block
      /\ text' = [b \in Block |-> IF b \in ToSet(lists.queue) THEN None ELSE text[b]]
  BY DEF MqReset, Goto
<1>2. pc \in [Thread -> ChanPC] BY <1>0, Now
<1>3. pc'[t] = "sched" /\ \A u \in Thread \ {t} : pc'[u] = pc[u] BY <1>1, <1>2
<1>4. ASSUME NEW u \in Thread, pc[u] \in Copying PROVE text'[block[u]] = text[block[u]]
  <2>1. block[u] \in Block BY <1>0, <1>4, HolderFacts
  <2>2. block[u] \notin ToSet(lists.queue) BY <1>0, <2>1, StoreNow DEF BlocksOK
  <2> QED BY <1>1, <2>1, <2>2
<1> QED BY <1>1, <1>3, <1>4, SendersKeep

LEMMA StepSends ==
    ASSUME Sound, Sound', Sending, [Next]_chanVars
    PROVE  Sending'
<1>0. CallsOK /\ StoreOK /\ StoreOK' /\ Abandoned BY Parts, PartsNext
<1>1. ASSUME NEW t \in Thread, NEW op, NEW w, NEW o, Refused(t, op, w) \/ Waiting(t, op, w, o)
      PROVE  Sending'
  <2>1. PICK l \in {"run", "wait"} : pc' = [pc EXCEPT ![t] = l]
    BY <1>1 DEF Refused, Waiting, Goto
  <2>2. text' = text /\ block' = block BY <1>1 DEF Refused, Waiting, store
  <2>3. l \notin {"link", "push"} OBVIOUS
  <2> QED BY <2>1, <2>2, <2>3, MoveSends
<1>2. ASSUME NEW t \in Thread, NEW w, MbStep(t, w) PROVE Sending'
  <2>1. kind' = "mb"
    BY <1>2 DEF MbStep, MbSendRefused, MbSendWait, MbSend, MbRecvRefused, MbRecvWait, MbRecv,
                Refused, Waiting
  <2> QED BY <1>0, <2>1, MailboxSends
<1>3. ASSUME NEW t \in Thread, NEW w, MqStep(t, w) PROVE Sending'
  <2>1. CASE MqSendRefused(t, w) \/ MqSendWait(t, w) \/ MqRecvRefused(t, w) \/ MqRecvWait(t, w)
    BY <1>1, <2>1 DEF MqSendRefused, MqSendWait, MqRecvRefused, MqRecvWait
  <2>2. CASE MqSend(t, w) BY <2>2, TakeSends DEF MqSend
  <2>3. CASE MqRecv(t, w)
    <3>1. /\ pc' = [pc EXCEPT ![t] = "copy"] /\ text' = text
          /\ \E b : block' = [block EXCEPT ![t] = b]
      BY <2>3 DEF MqRecv, Goto
    <3>2. "copy" \notin {"link", "push"} OBVIOUS
    <3> QED BY <3>1, <3>2, MoveSends
  <2> QED BY <1>3, <2>1, <2>2, <2>3 DEF MqStep
<1>4. ASSUME NEW t \in Thread, MbUrgent(t) \/ MbReset(t) PROVE Sending'
  <2>1. kind' = "mb" BY <1>4 DEF MbUrgent, MbReset
  <2> QED BY <1>0, <2>1, MailboxSends
<1>5. ASSUME NEW t \in Thread, MqLink(t) PROVE Sending'
  <2>1. PICK l \in {"run", "sched"} : pc' = [pc EXCEPT ![t] = l]
    BY <1>5 DEF MqLink, Finish, Goto
  <2>2. text' = text /\ block' = [block EXCEPT ![t] = None] BY <1>5 DEF MqLink
  <2>3. l \notin {"link", "push"} OBVIOUS
  <2> QED BY <2>1, <2>2, <2>3, MoveSends
<1>6. ASSUME NEW t \in Thread, WaitFailed(t) \/ DeleteBegin(t) \/ DeleteEnd(t) PROVE Sending'
  <2>1. PICK l \in {"run", "delall"} : pc' = [pc EXCEPT ![t] = l]
    BY <1>6 DEF WaitFailed, DeleteBegin, DeleteEnd, Goto
  <2>2. text' = text /\ block' = block BY <1>6 DEF WaitFailed, DeleteBegin, DeleteEnd, store
  <2>3. l \notin {"link", "push"} OBVIOUS
  <2> QED BY <2>1, <2>2, <2>3, MoveSends
<1>7. ASSUME NEW t \in Thread, DeleteResume(t) PROVE Sending'
  <2>1. PICK o : ResumeAllLook(t, o) \/ ResumeAllTurn(t, o) BY <1>7 DEF DeleteResume
  <2>2. PICK l \in {"delobj", "delone", "delall"} : pc' = [pc EXCEPT ![t] = l]
    BY <2>1 DEF ResumeAllLook, ResumeAllTurn, Goto
  <2>3. text' = text /\ block' = block BY <1>7 DEF DeleteResume, store
  <2>4. l \notin {"link", "push"} OBVIOUS
  <2> QED BY <2>2, <2>3, <2>4, MoveSends
<1>8. ASSUME NEW t \in Thread, Create(t) PROVE Sending'
  <2>1. \A u \in Thread : pc'[u] \notin Copying
    BY <1>0, <1>8 DEF Create, Abandoned, Usable
  <2> QED BY <2>1 DEF Sending, Copying
<1>9. ASSUME NEW t \in Thread, MqUrgent(t) \/ MqFree(t) \/ MqReset(t) PROVE Sending'
  BY <1>9, TakeSends, FreeSends, ResetSends DEF MqUrgent
<1>10. CASE MbIsrSend \/ MqIsrSend
  <2>1. CASE MbIsrSend
    <3>1. kind' = "mb" BY <2>1 DEF MbIsrSend
    <3> QED BY <1>0, <3>1, MailboxSends
  <2> QED BY <1>10, <2>1, IsrSends
<1>11. CASE ProcessorStep /\ Pauses /\ UNCHANGED <<kind, store, job, alive>>
  <2>0. text' = text /\ block' = block BY <1>11 DEF store
  <2>1. ASSUME NEW t \in Thread, Schedule(t) PROVE Sending'
    <3>1. pc' = [pc EXCEPT ![t] = After[pc[t]]] /\ pc[t] \in {"sched", "sleep", "wait"}
      BY <1>0, <2>1, Now, ScheduleStep
    <3>2. After[pc[t]] \in {"run", "slept", "waited"} BY <3>1 DEF After
    <3>3. After[pc[t]] \notin {"link", "push"} BY <3>2
    <3> QED BY <2>0, <3>1, <3>3, MoveSends
  <2>2. CASE Interrupt
    <3>1. pc' = pc BY <2>2 DEF Interrupt, TickEnter, TimerFire, TickLeave
    <3> QED BY <2>0, <3>1 DEF Sending
  <2> QED BY <1>11, <2>1, <2>2 DEF ProcessorStep
<1>12. CASE UNCHANGED chanVars BY <1>12 DEF chanVars, Sending
<1> QED BY <1>2, <1>3, <1>4, <1>5, <1>6, <1>7, <1>8, <1>9, <1>10, <1>11, <1>12 DEF Next

\* A step reports a message, or none.
LEMMA Reports ==
    ASSUME NEW c \in {"none", "send", "urgent", "recv", "take", "clear"},
           NEW m \in Msg \cup {None}, Happens(c, m)
    PROVE  EventTyped'
  BY DEF Happens, EventTyped

LEMMA StepReports ==
    ASSUME Sound, EventTyped, [Next]_chanVars
    PROVE  EventTyped'
<1>0. CallsOK /\ StoreOK BY Parts
<1>1. /\ MsgOf \in [Thread -> Msg] /\ IsrMsg \in Msg BY ChannelAssumption
<1>2. ASSUME Pauses PROVE EventTyped' BY <1>2, Reports DEF Pauses
<1>3. ASSUME NEW t \in Thread, NEW w, MbStep(t, w) PROVE EventTyped'
  <2>1. CASE MbSend(t, w)
    <3>1. Happens("send", MsgOf[t]) /\ MsgOf[t] \in Msg BY <1>1, <2>1 DEF MbSend
    <3> QED BY <3>1, Reports
  <2>2. CASE MbRecv(t, w)
    <3>1. ring \in Rings /\ Happens("recv", ring.pool[ring.out])
      BY <1>0, <2>2 DEF MbRecv, StoreOK, StoreTyped
    <3>2. ring.pool[ring.out] \in Msg \cup {None} BY <3>1 DEF Rings
    <3> QED BY <3>1, <3>2, Reports
  <2> QED BY <1>2, <1>3, <2>1, <2>2
       DEF MbStep, MbSendRefused, MbSendWait, MbRecvRefused, MbRecvWait, Refused, Waiting
<1>4. ASSUME NEW t \in Thread, NEW w, MqStep(t, w) PROVE EventTyped'
  <2>1. CASE MqRecv(t, w)
    <3>1. kind = "mq" /\ entry > 0 /\ Happens("take", text[Head(lists.queue)])
      BY <2>1 DEF MqRecv
    <3>2. lists.queue \in Seq(Block) /\ Len(lists.queue) > 0
      BY <1>0, <3>1, StoreNow DEF BlocksOK
    <3>3. Head(lists.queue) \in Block BY <3>2
    <3>4. text \in [Block -> Msg \cup {None}] BY <1>0, StoreNow DEF StoreTyped
    <3>5. text[Head(lists.queue)] \in Msg \cup {None} BY <3>3, <3>4
    <3> QED BY <3>1, <3>5, Reports
  <2> QED BY <1>2, <1>4, <2>1
       DEF MqStep, MqSendRefused, MqSendWait, MqRecvRefused, MqRecvWait, Refused, Waiting,
           MqSend, TakeBlock
<1>5. ASSUME NEW t \in Thread, MbUrgent(t) \/ MqLink(t) PROVE EventTyped'
  <2>1. PICK c \in {"send", "urgent"} : Happens(c, MsgOf[t]) BY <1>5 DEF MbUrgent, MqLink
  <2>2. MsgOf[t] \in Msg \cup {None} BY <1>1
  <2>3. c \in {"none", "send", "urgent", "recv", "take", "clear"} OBVIOUS
  <2> QED BY <2>1, <2>2, <2>3, Reports
<1>6. ASSUME NEW t \in Thread, MqFree(t) PROVE EventTyped'
  <2>1. pc[t] = "copy" /\ Happens("recv", text[block[t]]) BY <1>6 DEF MqFree
  <2>2. text[block[t]] \in Msg \cup {None} BY <1>0, <2>1, HolderFacts DEF Copying
  <2> QED BY <2>1, <2>2, Reports
<1>7. ASSUME NEW t \in Thread, MbReset(t) \/ MqReset(t) \/ Create(t) PROVE EventTyped'
  <2>1. Happens("clear", None) BY <1>7 DEF MbReset, MqReset, Create
  <2> QED BY <2>1, Reports
<1>8. ASSUME NEW t \in Thread,
             \/ MqUrgent(t) \/ WaitFailed(t)
             \/ DeleteBegin(t) \/ DeleteResume(t) \/ DeleteEnd(t)
      PROVE  EventTyped'
  BY <1>2, <1>8 DEF MqUrgent, TakeBlock, WaitFailed, DeleteBegin, DeleteResume, DeleteEnd
<1>9. CASE MbIsrSend \/ MqIsrSend
  <2>1. Happens("send", IsrMsg) BY <1>9 DEF MbIsrSend, MqIsrSend
  <2> QED BY <1>1, <2>1, Reports
<1>10. CASE ProcessorStep /\ Pauses /\ UNCHANGED <<kind, store, job, alive>> BY <1>2, <1>10
<1>11. CASE UNCHANGED chanVars BY <1>11 DEF chanVars, EventTyped
<1> QED BY <1>3, <1>4, <1>5, <1>6, <1>7, <1>8, <1>9, <1>10, <1>11 DEF Next

\* The inductive invariant of mailboxes and message queues.
THEOREM InductiveInvariant == Spec => []Inductive
<1>1. Init => Inductive
  <2>1. Init => Sending /\ EventTyped BY DEF Init, Sending, EventTyped
  <2> QED BY <2>1, InitOK, InductiveIs
<1>2. Inductive /\ [Next]_chanVars => Inductive'
  <2> SUFFICES ASSUME Inductive, [Next]_chanVars PROVE Inductive' OBVIOUS
  <2>1. Sound /\ Sending /\ EventTyped BY InductiveIs
  <2>2. Sound' BY <2>1, NextOK
  <2>3. Sending' /\ EventTyped' BY <2>1, <2>2, StepSends, StepReports
  <2>4. Inductive' <=> Sound' /\ Sending' /\ EventTyped' BY InductiveIs, PTL
  <2> QED BY <2>2, <2>3, <2>4
<1> QED BY <1>1, <1>2, PTL DEF Spec

\* No wakeup of a mailbox or a message queue is lost: when threads wait although
\* there is something for them, as many are already on their way.
THEOREM NoWakeupLost == Spec => []NoLostWakeup
<1>1. Inductive => NoLostWakeup BY DEF Inductive
<1> QED BY <1>1, InductiveInvariant, PTL

\* Every message block is in the queue, free, or in the hands of one thread,
\* although the calls copy with interrupts enabled between two regions.
THEOREM NoBlockLost == Spec => []BlocksConserved
<1>1. Inductive => BlocksConserved BY DEF Inductive
<1> QED BY <1>1, InductiveInvariant, PTL

-----------------------------------------------------------------------------
(* The refinement of MessageChannel *)

Word == Msg \cup {None}

\* The messages of a mailbox and of a message queue.
InRing ==
    /\ Contents \in Seq(Word) /\ Len(Contents) = entry
    /\ \A i \in 1 .. entry : Contents[i] = ring.pool[RingPlace(i)]

Mailbox == StoreOK /\ kind = "mb"

LEMMA RingContents == Mailbox => InRing
<1> SUFFICES ASSUME StoreOK, kind = "mb" PROVE InRing BY DEF Mailbox
<1>1. /\ Size \in Nat /\ Size > 0 /\ entry \in 0 .. Size
      /\ ring.pool \in [0 .. Size - 1 -> Word] /\ ring.out \in 0 .. Size - 1
  BY StoreNow DEF StoreOK, StoreTyped, Rings, Word
<1>2. ASSUME NEW i \in 1 .. entry PROVE RingPlace(i) \in 0 .. Size - 1 BY <1>1 DEF RingPlace
<1>3. Contents = [i \in 1 .. entry |-> ring.pool[RingPlace(i)]] BY DEF Contents
<1>4. Contents \in [1 .. entry -> Word] /\ entry \in Nat BY <1>1, <1>2, <1>3
<1>5. Contents \in Seq(Word) /\ Len(Contents) = entry BY <1>4
<1> QED BY <1>3, <1>5 DEF InRing

LEMMA RingContentsNext == Mailbox' => InRing'
  BY RingContents, PTL

InQueue ==
    /\ Contents \in Seq(Word) /\ Len(Contents) = Len(lists.queue)
    /\ \A i \in 1 .. Len(lists.queue) : Contents[i] = text[lists.queue[i]]

Queue == StoreOK /\ kind = "mq"

LEMMA QueueContents == Queue => InQueue
<1> SUFFICES ASSUME StoreOK, kind = "mq" PROVE InQueue BY DEF Queue
<1>1. PICK q \in Seq(Block) : q = lists.queue BY StoreNow
<1>2. PICK n \in Nat : n = Len(q) OBVIOUS
<1>3. Contents = [i \in 1 .. n |-> text[q[i]]] BY <1>1, <1>2 DEF Contents
<1>4. text \in [Block -> Word] BY DEF StoreOK, StoreTyped, Word
<1>5. \A i \in 1 .. n : q[i] \in Block BY <1>2
<1>6. Contents \in [1 .. n -> Word] BY <1>3, <1>4, <1>5
<1>7. Contents \in Seq(Word) /\ Len(Contents) = n BY <1>6
<1> QED BY <1>1, <1>2, <1>3, <1>7 DEF InQueue

LEMMA QueueContentsNext == Queue' => InQueue'
  BY QueueContents, PTL

\* A place is the offset plus what is before it, modulo the size of the ring.
LEMMA PlaceIs ==
    ASSUME NEW i \in 1 .. Size, NEW j \in 1 .. Size, StoreOK
    PROVE  /\ RingPlace(i) \in 0 .. Size - 1 /\ RingPlace(1) = ring.out
           /\ i # j => RingPlace(i) # RingPlace(j)
<1>1. Size \in Nat /\ Size > 0 /\ ring.out \in 0 .. Size - 1
  BY StoreNow DEF StoreOK, StoreTyped, Rings
<1> QED BY <1>1 DEF RingPlace

\* What a step of the mailbox does to its messages.
LEMMA RingSendPuts ==
    ASSUME StoreOK, StoreOK', kind = "mb", entry < Size, NEW m \in Msg, ring' = RingSend(m),
           entry' = entry + 1, kind' = kind
    PROVE  Contents' = Append(Contents, m) /\ Len(Contents) < Size
<1>1. InRing /\ InRing' BY RingContents, RingContentsNext DEF Mailbox
<1>2. PICK e \in Nat : e = entry /\ e < Size /\ Size \in Nat
  BY StoreNow DEF StoreOK, StoreTyped
<1>3. ring.in = RingPlace(e + 1) BY <1>2 DEF StoreOK, RingMeets
<1>4. ring \in Rings BY DEF StoreOK, StoreTyped
<1>5. e + 1 \in 1 .. Size BY <1>2
<1>6. ring.in \in 0 .. Size - 1 BY <1>4 DEF Rings
<1>7. /\ ring'.pool = [ring.pool EXCEPT ![ring.in] = m] /\ ring'.out = ring.out
      /\ ring.pool \in [0 .. Size - 1 -> Word]
  BY <1>4 DEF RingSend, Rings, Word
<1>8. \A i : RingPlace(i)' = RingPlace(i) BY <1>7 DEF RingPlace
<1>9. ASSUME NEW i \in 1 .. e PROVE Contents'[i] = Contents[i]
  <2>1. i \in 1 .. Size /\ i # e + 1 /\ i \in 1 .. e + 1 BY <1>2
  <2>2. RingPlace(i) \in 0 .. Size - 1 /\ RingPlace(i) # ring.in BY <1>3, <1>5, <2>1, PlaceIs
  <2>3. ring'.pool[RingPlace(i)] = ring.pool[RingPlace(i)] BY <1>7, <2>2
  <2> QED BY <1>1, <1>2, <1>8, <2>1, <2>3 DEF InRing
<1>10. Contents'[e + 1] = m
  <2>1. e + 1 \in 1 .. e + 1 BY <1>2
  <2>2. Contents'[e + 1] = ring'.pool[RingPlace(e + 1)] BY <1>1, <1>2, <1>8, <2>1 DEF InRing
  <2> QED BY <1>3, <1>6, <1>7, <2>2
<1>11. /\ Contents \in Seq(Word) /\ Contents' \in Seq(Word) /\ Len(Contents) = e
       /\ Len(Contents') = e + 1
  BY <1>1, <1>2 DEF InRing
<1> QED BY <1>2, <1>9, <1>10, <1>11, PutLast

LEMMA RingUrgentPuts ==
    ASSUME StoreOK, StoreOK', kind = "mb", entry < Size, NEW m \in Msg, ring' = RingUrgent(m),
           entry' = entry + 1, kind' = kind
    PROVE  Contents' = <<m>> \o Contents /\ Len(Contents) < Size
<1>1. InRing /\ InRing' BY RingContents, RingContentsNext DEF Mailbox
<1>2. PICK e \in Nat : e = entry /\ e < Size /\ Size \in Nat
  BY StoreNow DEF StoreOK, StoreTyped
<1>3. ring \in Rings BY DEF StoreOK, StoreTyped
<1>4. PICK p : p = IF ring.out > 0 THEN ring.out - 1 ELSE Size - 1 OBVIOUS
<1>5. ring.out \in 0 .. Size - 1 /\ p \in 0 .. Size - 1 BY <1>2, <1>3, <1>4 DEF Rings
<1>6. /\ ring'.pool = [ring.pool EXCEPT ![p] = m] /\ ring'.out = p
      /\ ring.pool \in [0 .. Size - 1 -> Word]
  BY <1>3, <1>4 DEF RingUrgent, Rings, Word
<1>7. RingPlace(1)' = p BY <1>2, <1>5, <1>6 DEF RingPlace
<1>8. ASSUME NEW i \in 1 .. e
      PROVE  /\ RingPlace(i + 1)' = RingPlace(i) /\ RingPlace(i) \in 0 .. Size - 1
             /\ RingPlace(i) # p
  <2>1. PICK o \in 0 .. Size - 1 : o = ring.out BY <1>5
  <2>2. PICK a : a = IF o + i - 1 < Size THEN o + i - 1 ELSE o + i - 1 - Size OBVIOUS
  <2>3. PICK b : b = IF p + (i + 1) - 1 < Size THEN p + (i + 1) - 1 ELSE p + (i + 1) - 1 - Size
    OBVIOUS
  <2>4. a = b /\ a \in 0 .. Size - 1 /\ a # p BY <1>2, <1>4, <1>5, <2>1, <2>2, <2>3
  <2>5. RingPlace(i) = a BY <2>1, <2>2 DEF RingPlace
  <2>6. RingPlace(i + 1)' = b BY <1>6, <2>3 DEF RingPlace
  <2> QED BY <2>4, <2>5, <2>6
<1>9. ASSUME NEW i \in 1 .. e PROVE Contents'[i + 1] = Contents[i]
  <2>1. i + 1 \in 1 .. e + 1 /\ entry' = e + 1 BY <1>2
  <2>2. Contents'[i + 1] = ring'.pool[RingPlace(i)] BY <1>1, <1>8, <2>1 DEF InRing
  <2>3. ring'.pool[RingPlace(i)] = ring.pool[RingPlace(i)] BY <1>6, <1>8
  <2> QED BY <1>1, <1>2, <2>2, <2>3 DEF InRing
<1>10. Contents'[1] = m
  <2>1. 1 \in 1 .. entry' BY <1>2
  <2>2. Contents'[1] = ring'.pool[p] BY <1>1, <1>7, <2>1 DEF InRing
  <2> QED BY <1>5, <1>6, <2>2
<1>11. /\ Contents \in Seq(Word) /\ Contents' \in Seq(Word) /\ Len(Contents) = e
       /\ Len(Contents') = e + 1
  BY <1>1, <1>2 DEF InRing
<1> QED BY <1>2, <1>9, <1>10, <1>11, PutFirst

LEMMA RingRecvGets ==
    ASSUME StoreOK, StoreOK', kind = "mb", entry > 0, entry' = entry - 1, kind' = kind,
           ring' = [ring EXCEPT !.pool[ring.out] = None, !.out = Onward(@)]
    PROVE  /\ Contents # << >> /\ Contents' = Tail(Contents)
           /\ Head(Contents) = ring.pool[ring.out]
<1>1. InRing /\ InRing' BY RingContents, RingContentsNext DEF Mailbox
<1>2. /\ Size \in Nat /\ entry \in 0 .. Size /\ ring \in Rings
  BY StoreNow DEF StoreOK, StoreTyped
<1>3. PICK e \in Nat : e = entry' /\ e + 1 = entry /\ e < Size
  <2>1. entry - 1 \in Nat /\ entry - 1 + 1 = entry /\ entry - 1 < Size BY <1>2
  <2> QED BY <2>1
<1>4. PICK p : p = Onward(ring.out) OBVIOUS
<1>5. ring.out \in 0 .. Size - 1 /\ p \in 0 .. Size - 1 BY <1>2, <1>4, PlaceFacts DEF Rings
<1>6. /\ ring'.pool = [ring.pool EXCEPT ![ring.out] = None] /\ ring'.out = p
      /\ ring.pool \in [0 .. Size - 1 -> Word]
  BY <1>2, <1>4 DEF Rings, Word
<1>7. ASSUME NEW i \in 1 .. e
      PROVE  /\ RingPlace(i)' = RingPlace(i + 1) /\ RingPlace(i + 1) \in 0 .. Size - 1
             /\ RingPlace(i + 1) # ring.out
  <2>1. PICK o \in 0 .. Size - 1 : o = ring.out BY <1>5
  <2>2. PICK a : a = IF o + (i + 1) - 1 < Size THEN o + (i + 1) - 1 ELSE o + (i + 1) - 1 - Size
    OBVIOUS
  <2>3. PICK b : b = IF p + i - 1 < Size THEN p + i - 1 ELSE p + i - 1 - Size OBVIOUS
  <2>4. p = IF o + 1 >= Size THEN 0 ELSE o + 1 BY <1>4, <2>1 DEF Onward
  <2>5. a = b /\ a \in 0 .. Size - 1 /\ a # o BY <1>2, <1>3, <1>5, <2>1, <2>2, <2>3, <2>4
  <2>6. RingPlace(i + 1) = a BY <2>1, <2>2 DEF RingPlace
  <2>7. RingPlace(i)' = b BY <1>6, <2>3 DEF RingPlace
  <2> QED BY <2>1, <2>5, <2>6, <2>7
<1>8. ASSUME NEW i \in 1 .. e PROVE Contents'[i] = Contents[i + 1]
  <2>1. i + 1 \in 1 .. entry /\ i \in 1 .. entry' BY <1>3
  <2>2. Contents'[i] = ring'.pool[RingPlace(i + 1)] BY <1>1, <1>7, <2>1 DEF InRing
  <2>3. ring'.pool[RingPlace(i + 1)] = ring.pool[RingPlace(i + 1)] BY <1>6, <1>7
  <2> QED BY <1>1, <2>1, <2>2, <2>3 DEF InRing
<1>9. /\ Contents \in Seq(Word) /\ Contents' \in Seq(Word) /\ Len(Contents) = e + 1
      /\ Len(Contents') = e
  BY <1>1, <1>3 DEF InRing
<1>10. Contents # << >> /\ Contents' = Tail(Contents) /\ Head(Contents) = Contents[1]
  BY <1>8, <1>9, TakeFirst
<1>11. Contents[1] = ring.pool[ring.out]
  <2>1. 1 \in 1 .. entry /\ 1 \in 1 .. Size BY <1>2, <1>3
  <2> QED BY <1>1, <2>1, PlaceIs DEF InRing
<1> QED BY <1>10, <1>11

\* Steps that leave the messages alone, in the channel and in receivers' hands.
LEMMA SameContents ==
    ASSUME StoreOK, kind' = kind, entry' = entry, ring' = ring, lists'.queue = lists.queue,
           \A b \in ToSet(lists.queue) : text'[b] = text[b]
    PROVE  Contents' = Contents
<1>1. lists.queue \in Seq(Block) BY StoreNow
<1>2. \A i \in 1 .. Len(lists.queue) : text'[lists.queue[i]] = text[lists.queue[i]]
  BY <1>1, InToSet
<1> QED BY <1>2 DEF Contents, RingPlace

LEMMA SameHeld ==
    ASSUME \A u \in Thread : /\ pc'[u] = "copy" <=> pc[u] = "copy"
                             /\ pc[u] = "copy" => text'[block'[u]] = text[block[u]]
    PROVE  Held' = Held
  BY DEF Held

Stays == Contents' = Contents /\ Held' = Held

LEMMA StaysOK ==
    ASSUME StoreOK, kind' = kind, UNCHANGED store,
           \A u \in Thread : pc'[u] = "copy" <=> pc[u] = "copy"
    PROVE  Stays
<1>1. entry' = entry /\ ring' = ring /\ lists' = lists /\ text' = text /\ block' = block
  BY DEF store
<1> QED BY <1>1, SameContents, SameHeld DEF Stays

\* Such a step of one thread.
LEMMA MoveStays ==
    ASSUME Sound, NEW t \in Thread, pc[t] # "copy", NEW l, l # "copy",
           pc' = [pc EXCEPT ![t] = l], kind' = kind, UNCHANGED store
    PROVE  Stays
<1>1. StoreOK /\ CallsOK BY Parts
<1>2. pc \in [Thread -> ChanPC] BY <1>1, Now
<1>3. \A u \in Thread : pc'[u] = "copy" <=> pc[u] = "copy" BY <1>2
<1> QED BY <1>1, <1>3, StaysOK

LEMMA RefusedStays ==
    ASSUME Sound, NEW t \in Thread, NEW op, NEW w, NEW o,
           Refused(t, op, w) \/ Waiting(t, op, w, o)
    PROVE  Stays
<1>1. PICK l \in {"run", "wait"} : pc' = [pc EXCEPT ![t] = l] BY DEF Refused, Waiting, Goto
<1>2. kind' = kind /\ UNCHANGED store /\ Testing(t, op, w) BY DEF Refused, Waiting, store
<1>3. pc[t] # "copy" BY <1>2 DEF Testing, Call, Calling
<1>4. l # "copy" OBVIOUS
<1> QED BY <1>1, <1>2, <1>3, <1>4, MoveStays

LEMMA OthersStay ==
    ASSUME Sound, NEW t \in Thread, WaitFailed(t) \/ DeleteBegin(t) \/ DeleteEnd(t)
    PROVE  Stays
<1>1. PICK l \in {"run", "delall"} : pc' = [pc EXCEPT ![t] = l]
  BY DEF WaitFailed, DeleteBegin, DeleteEnd, Goto
<1>2. kind' = kind /\ UNCHANGED store BY DEF WaitFailed, DeleteBegin, DeleteEnd, store
<1>3. pc[t] # "copy" BY DEF WaitFailed, DeleteBegin, DeleteEnd, Call, Calling
<1>4. l # "copy" OBVIOUS
<1> QED BY <1>1, <1>2, <1>3, <1>4, MoveStays

LEMMA ResumeStays ==
    ASSUME Sound, NEW t \in Thread, DeleteResume(t)
    PROVE  Stays
<1>1. PICK o : ResumeAllLook(t, o) \/ ResumeAllTurn(t, o) BY DEF DeleteResume
<1>2. PICK l \in {"delobj", "delone", "delall"} : pc' = [pc EXCEPT ![t] = l]
  BY <1>1 DEF ResumeAllLook, ResumeAllTurn, Goto
<1>3. kind' = kind /\ UNCHANGED store BY DEF DeleteResume, store
<1>4. pc[t] # "copy" BY <1>1 DEF ResumeAllLook, ResumeAllTurn
<1>5. l # "copy" OBVIOUS
<1> QED BY <1>2, <1>3, <1>4, <1>5, MoveStays

LEMMA ProcessorStays ==
    ASSUME Sound, ProcessorStep, UNCHANGED <<kind, store, job, alive>>
    PROVE  Stays
<1>0. CallsOK /\ StoreOK /\ kind' = kind /\ UNCHANGED store BY Parts DEF store
<1>1. ASSUME NEW t \in Thread, Schedule(t) PROVE Stays
  <2>1. pc' = [pc EXCEPT ![t] = After[pc[t]]] /\ pc[t] \in {"sched", "sleep", "wait"}
    BY <1>0, <1>1, Now, ScheduleStep
  <2>2. After[pc[t]] \in {"run", "slept", "waited"} BY <2>1 DEF After
  <2>3. After[pc[t]] # "copy" /\ pc[t] # "copy" BY <2>1, <2>2
  <2> QED BY <1>0, <2>1, <2>3, MoveStays
<1>2. CASE Interrupt
  <2>1. pc' = pc BY <1>2 DEF Interrupt, TickEnter, TimerFire, TickLeave
  <2> QED BY <1>0, <2>1, StaysOK
<1> QED BY <1>1, <1>2 DEF ProcessorStep

\* The first region of a send prepares a block nobody looks at.
LEMMA TakeStays ==
    ASSUME Sound, NEW t \in Thread, NEW w, MqSend(t, w) \/ MqUrgent(t)
    PROVE  Stays
<1>0. StoreOK /\ CallsOK BY Parts
<1>1. PICK l \in {"link", "push"} : TakeBlock(t, l) BY DEF MqSend, MqUrgent
<1>2. pc[t] # "copy" BY DEF MqSend, MqUrgent, Testing, Call, Calling
<1>3. PICK b : b = Head(lists.free) OBVIOUS
<1>4. /\ lists.free # << >> /\ lists' = [lists EXCEPT !.free = Tail(@)]
      /\ block' = [block EXCEPT ![t] = b] /\ text' = [text EXCEPT ![b] = MsgOf[t]]
      /\ pc' = [pc EXCEPT ![t] = l] /\ kind' = kind /\ entry' = entry /\ ring' = ring
  BY <1>1, <1>3 DEF TakeBlock, Goto
<1>5. b \in Block /\ b \in ToSet(lists.free) /\ b \notin ToSet(lists.queue)
  BY <1>0, <1>3, <1>4, FreeTail
<1>6. /\ text \in [Block -> Word] /\ block \in [Thread -> Block \cup {None}]
      /\ lists \in [free : Seq(Block), queue : Seq(Block)] /\ ToSet(lists.queue) \subseteq Block
  BY <1>0, StoreNow DEF StoreTyped, Word
<1>7. Contents' = Contents
  <2>1. lists'.queue = lists.queue BY <1>4, <1>6
  <2>2. \A x \in ToSet(lists.queue) : text'[x] = text[x] BY <1>4, <1>5, <1>6
  <2> QED BY <1>0, <1>4, <2>1, <2>2, SameContents
<1>8. Held' = Held
  <2> SUFFICES ASSUME NEW u \in Thread
               PROVE  /\ pc'[u] = "copy" <=> pc[u] = "copy"
                      /\ pc[u] = "copy" => text'[block'[u]] = text[block[u]]
    BY SameHeld
  <2>1. pc'[u] = "copy" <=> pc[u] = "copy" BY <1>0, <1>2, <1>4, Now
  <2>2. ASSUME pc[u] = "copy" PROVE text'[block'[u]] = text[block[u]]
    <3>1. block[u] \in Block BY <1>0, <2>2, HolderFacts DEF Copying
    <3>2. block[u] # b BY <1>0, <1>5, StoreNow DEF BlocksOK
    <3>3. block'[u] = block[u] BY <1>2, <1>4, <1>6, <2>2
    <3> QED BY <1>4, <1>6, <3>1, <3>2, <3>3
  <2> QED BY <2>1, <2>2
<1> QED BY <1>7, <1>8 DEF Stays

\* The steps of the abstract channel.
LEMMA Sends ==
    ASSUME NEW m \in Msg, Len(Contents) < Size, Held' = Held,
           Contents' = Append(Contents, m), Happens("send", m)
    PROVE  Abs!AbsNext
<1>1. Abs!Send(m) BY DEF Abs!Send, Abs!Happens, Happens
<1> QED BY <1>1 DEF Abs!AbsNext

LEMMA Urges ==
    ASSUME NEW m \in Msg, Len(Contents) < Size, Held' = Held,
           Contents' = <<m>> \o Contents, Happens("urgent", m)
    PROVE  Abs!AbsNext
<1>1. Abs!Urgent(m) BY DEF Abs!Urgent, Abs!Happens, Happens
<1> QED BY <1>1 DEF Abs!AbsNext

LEMMA Receives ==
    ASSUME Contents # << >>, Contents' = Tail(Contents), Held' = Held,
           NEW m, Happens("recv", m), Head(Contents) = m
    PROVE  Abs!AbsNext
<1>1. Abs!Recv BY DEF Abs!Recv, Abs!Happens, Happens
<1> QED BY <1>1 DEF Abs!AbsNext

LEMMA Takes ==
    ASSUME NEW t \in Thread, Contents # << >>, Contents' = Tail(Contents),
           Held' = [Held EXCEPT ![t] = Head(Contents)],
           NEW m, Happens("take", m), Head(Contents) = m
    PROVE  Abs!AbsNext
<1>1. Abs!Take(t) BY DEF Abs!Take, Abs!Happens, Happens
<1> QED BY <1>1 DEF Abs!AbsNext

LEMMA Clears ==
    ASSUME Contents' = << >>, Held' = Held, Happens("clear", None)
    PROVE  Abs!AbsNext
  BY DEF Abs!AbsNext, Abs!Clear, Abs!Happens, Happens

LEMMA Rests ==
    ASSUME Stays, Pauses
    PROVE  Abs!AbsNext
  BY DEF Abs!AbsNext, Abs!Pause, Abs!Happens, Happens, Pauses, Stays

\* Nobody copies from a mailbox.
LEMMA MbHeld ==
    ASSUME StoreOK, StoreOK', kind = "mb", kind' = kind
    PROVE  Held' = Held
<1>1. \A u \in Thread : pc[u] # "copy" BY DEF StoreOK, InHand, Copying
<1>2. \A u \in Thread : pc'[u] # "copy" BY DEF StoreOK, InHand, Copying
<1> QED BY <1>1, <1>2 DEF Held

LEMMA MbSteps ==
    ASSUME Sound, Sound', NEW t \in Thread, NEW w,
           MbSend(t, w) \/ MbUrgent(t) \/ MbRecv(t, w) \/ MbReset(t) \/ MbIsrSend
    PROVE  Abs!AbsNext
<1>0. StoreOK /\ StoreOK' BY Parts, PartsNext
<1>1. kind = "mb" /\ kind' = kind BY DEF MbSend, MbUrgent, MbRecv, MbReset, MbIsrSend
<1>2. Held' = Held BY <1>0, <1>1, MbHeld
<1>3. MsgOf[t] \in Msg /\ IsrMsg \in Msg BY ChannelAssumption
<1>4. CASE MbSend(t, w)
  <2>1. /\ entry < Size /\ ring' = RingSend(MsgOf[t]) /\ entry' = entry + 1
        /\ Happens("send", MsgOf[t])
    BY <1>4 DEF MbSend
  <2>2. Contents' = Append(Contents, MsgOf[t]) /\ Len(Contents) < Size
    BY <1>0, <1>1, <1>3, <2>1, RingSendPuts
  <2> QED BY <1>2, <1>3, <2>1, <2>2, Sends
<1>5. CASE MbUrgent(t)
  <2>1. /\ entry < Size /\ ring' = RingUrgent(MsgOf[t]) /\ entry' = entry + 1
        /\ Happens("urgent", MsgOf[t])
    BY <1>5 DEF MbUrgent
  <2>2. Contents' = <<MsgOf[t]>> \o Contents /\ Len(Contents) < Size
    BY <1>0, <1>1, <1>3, <2>1, RingUrgentPuts
  <2> QED BY <1>2, <1>3, <2>1, <2>2, Urges
<1>6. CASE MbRecv(t, w)
  <2>1. /\ entry > 0 /\ entry' = entry - 1
        /\ ring' = [ring EXCEPT !.pool[ring.out] = None, !.out = Onward(@)]
        /\ Happens("recv", ring.pool[ring.out])
    BY <1>6 DEF MbRecv
  <2>2. /\ Contents # << >> /\ Contents' = Tail(Contents)
        /\ Head(Contents) = ring.pool[ring.out]
    BY <1>0, <1>1, <2>1, RingRecvGets
  <2> QED BY <1>2, <2>1, <2>2, Receives
<1>7. CASE MbReset(t)
  <2>1. InRing' /\ entry' = 0 /\ Happens("clear", None)
    BY <1>0, <1>1, <1>7, RingContentsNext DEF MbReset, Mailbox
  <2>2. Contents' \in Seq(Word) /\ Len(Contents') = 0 BY <2>1 DEF InRing
  <2>3. Contents' = << >> BY <2>2
  <2> QED BY <1>2, <2>1, <2>3, Clears
<1>8. CASE MbIsrSend
  <2>1. /\ entry < Size /\ ring' = RingSend(IsrMsg) /\ entry' = entry + 1
        /\ Happens("send", IsrMsg)
    BY <1>8 DEF MbIsrSend
  <2>2. Contents' = Append(Contents, IsrMsg) /\ Len(Contents) < Size
    BY <1>0, <1>1, <1>3, <2>1, RingSendPuts
  <2> QED BY <1>2, <1>3, <2>1, <2>2, Sends
<1> QED BY <1>4, <1>5, <1>6, <1>7, <1>8

\* A block joins the queue, at either end.
LEMMA QueuePuts ==
    ASSUME StoreOK, StoreOK', kind = "mq", kind' = kind, NEW b \in Block, text'[b] \in Msg,
           \/ lists'.queue = Append(lists.queue, b)
           \/ lists'.queue = <<b>> \o lists.queue,
           \A x \in ToSet(lists.queue) : text'[x] = text[x]
    PROVE  /\ Len(Contents) < Size
           /\ lists'.queue = Append(lists.queue, b) => Contents' = Append(Contents, text'[b])
           /\ lists'.queue = <<b>> \o lists.queue => Contents' = <<text'[b]>> \o Contents
<1>1. InQueue /\ InQueue' BY QueueContents, QueueContentsNext DEF Queue
<1>2. PICK q \in Seq(Block) : q = lists.queue BY StoreNow
<1>3. PICK n \in Nat : n = Len(q) OBVIOUS
<1>4. PICK r \in Seq(Block) : r = lists'.queue /\ (r = Append(q, b) \/ r = <<b>> \o q)
  BY <1>2 DEF StoreOK, StoreTyped
<1>5. Len(r) = n + 1 BY <1>3, <1>4
<1>6. n + 1 \in 0 .. Size
  <2>1. IsInjective(r) BY <1>4 DEF StoreOK, BlocksOK
  <2> QED BY <1>5, <2>1, BlockListLen
<1>7. \A i \in 1 .. n : text'[q[i]] = text[q[i]] BY <1>2, <1>3, InToSet
<1>8. /\ Contents \in Seq(Word) /\ Contents' \in Seq(Word) /\ Len(Contents) = n
      /\ Len(Contents') = n + 1 /\ \A i \in 1 .. n : Contents[i] = text[q[i]]
      /\ \A i \in 1 .. n + 1 : Contents'[i] = text'[r[i]]
  BY <1>1, <1>2, <1>3, <1>4, <1>5 DEF InQueue
<1>9. n < Size BY <1>6, ChannelAssumption
<1>10. ASSUME r = Append(q, b) PROVE Contents' = Append(Contents, text'[b])
  <2>1. r[n + 1] = b /\ \A i \in 1 .. n : r[i] = q[i] BY <1>3, <1>10
  <2>2. n + 1 \in 1 .. n + 1 /\ \A i \in 1 .. n : i \in 1 .. n + 1 OBVIOUS
  <2>3. Contents'[n + 1] = text'[b] BY <1>8, <2>1, <2>2
  <2>4. ASSUME NEW i \in 1 .. n PROVE Contents'[i] = Contents[i]
    <3>1. Contents'[i] = text'[r[i]] /\ r[i] = q[i] BY <1>8, <2>1, <2>2
    <3>2. Contents[i] = text[q[i]] /\ text'[q[i]] = text[q[i]] BY <1>7, <1>8
    <3> QED BY <3>1, <3>2
  <2> QED BY <1>8, <2>3, <2>4, PutLast
<1>11. ASSUME r = <<b>> \o q PROVE Contents' = <<text'[b]>> \o Contents
  <2>1. r[1] = b /\ \A i \in 1 .. n : r[i + 1] = q[i] BY <1>3, <1>11
  <2>2. 1 \in 1 .. n + 1 /\ \A i \in 1 .. n : i + 1 \in 1 .. n + 1 OBVIOUS
  <2>3. Contents'[1] = text'[b] BY <1>8, <2>1, <2>2
  <2>4. ASSUME NEW i \in 1 .. n PROVE Contents'[i + 1] = Contents[i]
    <3>1. Contents'[i + 1] = text'[r[i + 1]] /\ r[i + 1] = q[i] BY <1>8, <2>1, <2>2
    <3>2. Contents[i] = text[q[i]] /\ text'[q[i]] = text[q[i]] BY <1>7, <1>8
    <3> QED BY <3>1, <3>2
  <2> QED BY <1>8, <2>3, <2>4, PutFirst
<1> QED BY <1>2, <1>4, <1>8, <1>9, <1>10, <1>11

LEMMA LinkPuts ==
    ASSUME Sound, Sound', Sending, NEW t \in Thread, MqLink(t)
    PROVE  Abs!AbsNext
<1>0. CallsOK /\ StoreOK /\ StoreOK' BY Parts, PartsNext
<1>1. /\ pc[t] \in {"link", "push"} /\ kind' = kind /\ text' = text
      /\ block' = [block EXCEPT ![t] = None]
  BY DEF MqLink
<1>2. kind = "mq" /\ block[t] \in Block /\ text[block[t]] \in Msg /\ text[block[t]] = MsgOf[t]
  BY <1>0, <1>1, HolderFacts DEF Copying, Sending
<1>3. /\ pc[t] = "link" => /\ lists'.queue = Append(lists.queue, block[t])
                          /\ Happens("send", MsgOf[t])
      /\ pc[t] = "push" => /\ lists'.queue = <<block[t]>> \o lists.queue
                          /\ Happens("urgent", MsgOf[t])
  BY <1>0, <1>1 DEF MqLink, StoreOK, StoreTyped
<1>4. PICK b \in Block : b = block[t] BY <1>2
<1>5. /\ Len(Contents) < Size
      /\ lists'.queue = Append(lists.queue, b) => Contents' = Append(Contents, text'[b])
      /\ lists'.queue = <<b>> \o lists.queue => Contents' = <<text'[b]>> \o Contents
  BY <1>0, <1>1, <1>2, <1>3, <1>4, QueuePuts
<1>6. Held' = Held
  <2>1. PICK l \in {"run", "sched"} : pc' = [pc EXCEPT ![t] = l] BY DEF MqLink, Finish, Goto
  <2>2. \A u \in Thread : /\ pc'[u] = "copy" <=> pc[u] = "copy"
                          /\ pc[u] = "copy" => block'[u] = block[u]
    BY <1>0, <1>1, <2>1, Now, StoreNow DEF StoreTyped
  <2> QED BY <1>1, <2>2, SameHeld
<1>7. text'[b] = MsgOf[t] /\ MsgOf[t] \in Msg BY <1>1, <1>2, <1>4
<1>8. CASE pc[t] = "link"
  <2>1. Contents' = Append(Contents, MsgOf[t]) /\ Happens("send", MsgOf[t])
    BY <1>3, <1>4, <1>5, <1>7, <1>8
  <2> QED BY <1>5, <1>6, <1>7, <2>1, Sends
<1>9. CASE pc[t] = "push"
  <2>1. Contents' = <<MsgOf[t]>> \o Contents /\ Happens("urgent", MsgOf[t])
    BY <1>3, <1>4, <1>5, <1>7, <1>9
  <2> QED BY <1>5, <1>6, <1>7, <2>1, Urges
<1> QED BY <1>1, <1>8, <1>9

LEMMA IsrPuts ==
    ASSUME Sound, Sound', MqIsrSend
    PROVE  Abs!AbsNext
<1>0. CallsOK /\ StoreOK /\ StoreOK' BY Parts, PartsNext
<1>1. PICK b : b = Head(lists.free) OBVIOUS
<1>2. /\ kind = "mq" /\ kind' = kind /\ lists.free # << >> /\ pc' = pc /\ block' = block
      /\ lists' = [free |-> Tail(lists.free), queue |-> Append(lists.queue, b)]
      /\ text' = [text EXCEPT ![b] = IsrMsg] /\ Happens("send", IsrMsg)
  BY <1>1 DEF MqIsrSend
<1>3. b \in Block /\ b \in ToSet(lists.free) /\ b \notin ToSet(lists.queue)
  BY <1>0, <1>1, <1>2, FreeTail
<1>4. text \in [Block -> Word] /\ ToSet(lists.queue) \subseteq Block
  BY <1>0, StoreNow DEF StoreTyped, Word
<1>5. /\ text'[b] = IsrMsg /\ \A x \in Block \ {b} : text'[x] = text[x]
      /\ lists'.queue = Append(lists.queue, b) /\ IsrMsg \in Msg
  BY <1>2, <1>3, <1>4, ChannelAssumption
<1>6. \A x \in ToSet(lists.queue) : text'[x] = text[x] BY <1>3, <1>4, <1>5
<1>7. Len(Contents) < Size /\ Contents' = Append(Contents, text'[b])
  BY <1>0, <1>2, <1>3, <1>5, <1>6, QueuePuts
<1>8. Held' = Held
  <2>1. ASSUME NEW u \in Thread, pc[u] = "copy" PROVE text'[block[u]] = text[block[u]]
    <3>1. block[u] \in Block BY <1>0, <2>1, HolderFacts DEF Copying
    <3>2. block[u] # b BY <1>0, <1>3, StoreNow DEF BlocksOK
    <3> QED BY <1>5, <3>1, <3>2
  <2> QED BY <1>2, <2>1, SameHeld
<1> QED BY <1>2, <1>5, <1>7, <1>8, Sends

\* The first region of rt_mq_recv.
LEMMA RecvGets ==
    ASSUME Sound, Sound', NEW t \in Thread, NEW w, MqRecv(t, w)
    PROVE  Abs!AbsNext
<1>0. CallsOK /\ StoreOK /\ StoreOK' BY Parts, PartsNext
<1>1. /\ kind = "mq" /\ kind' = kind /\ entry > 0 /\ lists' = [lists EXCEPT !.queue = Tail(@)]
      /\ block' = [block EXCEPT ![t] = Head(lists.queue)] /\ text' = text
      /\ pc' = [pc EXCEPT ![t] = "copy"] /\ Happens("take", text[Head(lists.queue)])
  BY DEF MqRecv, Goto
<1>2. InQueue /\ InQueue' BY <1>0, <1>1, QueueContents, QueueContentsNext DEF Queue
<1>3. PICK q \in Seq(Block) : q = lists.queue BY <1>0, StoreNow
<1>4. Len(q) \in Nat /\ Len(q) > 0
  <2>1. entry = Len(q) BY <1>0, <1>1, <1>3 DEF StoreOK, BlocksOK
  <2> QED BY <1>1, <1>3, <2>1
<1>5. PICK n \in Nat : Len(q) = n + 1
  <2>1. Len(q) - 1 \in Nat /\ Len(q) = (Len(q) - 1) + 1 BY <1>4
  <2> QED BY <2>1
<1>6. PICK r \in Seq(Block) : r = lists'.queue /\ r = Tail(q)
  BY <1>0, <1>1, <1>3 DEF StoreOK, StoreTyped
<1>7. Len(r) = n /\ Head(q) = q[1] /\ \A i \in 1 .. n : r[i] = q[i + 1]
  BY <1>4, <1>5, <1>6
<1>8. /\ Contents \in Seq(Word) /\ Contents' \in Seq(Word) /\ Len(Contents) = n + 1
      /\ Len(Contents') = n /\ \A i \in 1 .. n + 1 : Contents[i] = text[q[i]]
      /\ \A i \in 1 .. n : Contents'[i] = text[r[i]]
  BY <1>1, <1>2, <1>3, <1>5, <1>6, <1>7 DEF InQueue
<1>9. ASSUME NEW i \in 1 .. n PROVE Contents'[i] = Contents[i + 1]
  <2>1. i + 1 \in 1 .. n + 1 OBVIOUS
  <2>2. Contents'[i] = text[r[i]] /\ Contents[i + 1] = text[q[i + 1]] BY <1>8, <2>1
  <2> QED BY <1>7, <2>2
<1>10. Contents # << >> /\ Contents' = Tail(Contents) /\ Head(Contents) = Contents[1]
  BY <1>8, <1>9, TakeFirst
<1>11. Head(Contents) = text[Head(q)]
  <2>1. 1 \in 1 .. n + 1 OBVIOUS
  <2> QED BY <1>7, <1>8, <1>10, <2>1
<1>12. Held' = [Held EXCEPT ![t] = Head(Contents)]
  <2>1. pc \in [Thread -> ChanPC] /\ block \in [Thread -> Block \cup {None}]
    BY <1>0, Now, StoreNow DEF StoreTyped
  <2>2. pc'[t] = "copy" /\ block'[t] = Head(q) BY <1>1, <1>3, <2>1
  <2>3. \A u \in Thread \ {t} : pc'[u] = pc[u] /\ block'[u] = block[u] BY <1>1, <2>1
  <2>4. \A u \in Thread \ {t} : Held'[u] = Held[u] BY <1>1, <2>3 DEF Held
  <2>5. Held'[t] = Head(Contents) BY <1>1, <1>11, <2>2 DEF Held
  <2>6. Held' = [u \in Thread |-> Held'[u]] /\ Held = [u \in Thread |-> Held[u]] BY DEF Held
  <2> QED BY <2>4, <2>5, <2>6
<1> QED BY <1>1, <1>3, <1>10, <1>11, <1>12, Takes

\* The second one: the message has been copied.
LEMMA FreeCopied ==
    ASSUME Sound, NEW t \in Thread, MqFree(t)
    PROVE  Abs!AbsNext
<1>0. CallsOK /\ StoreOK BY Parts
<1>1. /\ pc[t] = "copy" /\ entry' = entry /\ kind' = kind /\ ring' = ring
      /\ text' = [text EXCEPT ![block[t]] = None] /\ block' = [block EXCEPT ![t] = None]
      /\ lists' = [lists EXCEPT !.free = <<block[t]>> \o @] /\ Happens("recv", text[block[t]])
  BY DEF MqFree
<1>2. PICK l \in {"run", "sched"} : pc' = [pc EXCEPT ![t] = l] BY DEF MqFree, Finish, Goto
<1>3. block[t] \in Block /\ text[block[t]] \in Msg /\ None \notin Msg
  BY <1>0, <1>1, HolderFacts, StoreNow DEF Copying
<1>4. /\ text \in [Block -> Word] /\ pc \in [Thread -> ChanPC]
      /\ ToSet(lists.queue) \subseteq Block
  BY <1>0, Now, StoreNow DEF StoreTyped, Word
<1>5. /\ block[t] \notin Stored /\ block'[t] = None
      /\ \A u \in Thread \ {t} : block'[u] = block[u] /\ block[u] # block[t]
  BY <1>0, <1>1, <1>3, HandDrop
<1>6. Contents' = Contents
  <2>1. lists'.queue = lists.queue BY <1>0, <1>1 DEF StoreOK, StoreTyped
  <2>2. \A x \in ToSet(lists.queue) : text'[x] = text[x] BY <1>1, <1>4, <1>5 DEF Stored
  <2> QED BY <1>0, <1>1, <2>1, <2>2, SameContents
<1>7. Held[t] # None /\ Held[t] = text[block[t]] BY <1>1, <1>3 DEF Held
<1>8. Held' = [Held EXCEPT ![t] = None]
  <2>1. pc'[t] # "copy" /\ \A u \in Thread \ {t} : pc'[u] = pc[u] BY <1>2, <1>4
  <2>2. ASSUME NEW u \in Thread \ {t}, pc[u] = "copy" PROVE text'[block'[u]] = text[block[u]]
    <3>1. block[u] \in Block BY <1>0, <2>2, HolderFacts DEF Copying
    <3> QED BY <1>1, <1>4, <1>5, <3>1
  <2>3. \A u \in Thread \ {t} : Held'[u] = Held[u] BY <2>1, <2>2 DEF Held
  <2>4. Held'[t] = None BY <2>1 DEF Held
  <2>5. Held' = [u \in Thread |-> Held'[u]] /\ Held = [u \in Thread |-> Held[u]] BY DEF Held
  <2> QED BY <2>3, <2>4, <2>5
<1>9. Abs!Copied(t) BY <1>1, <1>6, <1>7, <1>8 DEF Abs!Copied, Abs!Happens, Happens
<1> QED BY <1>9 DEF Abs!AbsNext

LEMMA ResetClears ==
    ASSUME Sound, Sound', NEW t \in Thread, MqReset(t)
    PROVE  Abs!AbsNext
<1>0. CallsOK /\ StoreOK /\ StoreOK' BY Parts, PartsNext
<1>1. /\ kind = "mq" /\ kind' = kind /\ pc[t] = "run" /\ pc' = [pc EXCEPT ![t] = "sched"]
      /\ block' = block /\ lists'.queue = << >>
      /\ text' = [b \in Block |-> IF b \in ToSet(lists.queue) THEN None ELSE text[b]]
      /\ Happens("clear", None)
  BY DEF MqReset, Call, Calling, Goto
<1>2. InQueue' BY <1>0, <1>1, QueueContentsNext DEF Queue
<1>3. Contents' \in Seq(Word) /\ Len(Contents') = 0 BY <1>1, <1>2, EmptyList DEF InQueue
<1>4. Contents' = << >> BY <1>3
<1>5. Held' = Held
  <2>1. \A u \in Thread : pc'[u] = "copy" <=> pc[u] = "copy" BY <1>0, <1>1, Now
  <2>2. ASSUME NEW u \in Thread, pc[u] = "copy" PROVE text'[block[u]] = text[block[u]]
    <3>1. block[u] \in Block BY <1>0, <2>2, HolderFacts DEF Copying
    <3>2. block[u] \notin ToSet(lists.queue) BY <1>0, <3>1, StoreNow DEF BlocksOK
    <3> QED BY <1>1, <3>1, <3>2
  <2> QED BY <1>1, <2>1, <2>2, SameHeld
<1> QED BY <1>1, <1>4, <1>5, Clears

LEMMA CreateClears ==
    ASSUME Sound, Sound', NEW t \in Thread, Create(t)
    PROVE  Abs!AbsNext
<1>0. CallsOK /\ StoreOK /\ StoreOK' /\ Abandoned BY Parts, PartsNext
<1>1. /\ ~alive /\ kind' = kind /\ pc' = pc /\ entry' = 0 /\ lists' = EmptyLists
      /\ Happens("clear", None)
  BY DEF Create
<1>2. \A u \in Thread : pc[u] # "copy" BY <1>0, <1>1 DEF Abandoned, Usable, Copying
<1>3. Held' = Held BY <1>1, <1>2, SameHeld
<1>4. Contents' \in Seq(Word) /\ Len(Contents') = 0
  <2>1. CASE kind = "mb"
    <3>1. InRing' BY <1>0, <1>1, <2>1, RingContentsNext DEF Mailbox
    <3> QED BY <1>1, <3>1 DEF InRing
  <2>2. CASE kind = "mq"
    <3>1. InQueue' BY <1>0, <1>1, <2>2, QueueContentsNext DEF Queue
    <3>2. lists'.queue = << >> BY <1>1 DEF EmptyLists
    <3> QED BY <3>1, <3>2, EmptyList DEF InQueue
  <2> QED BY <1>0, <2>1, <2>2 DEF StoreOK, StoreTyped
<1>5. Contents' = << >> BY <1>4
<1> QED BY <1>1, <1>3, <1>5, Clears

LEMMA StepRefines ==
    ASSUME Inductive, Inductive', [Next]_chanVars
    PROVE  [Abs!AbsNext]_<<Contents, Held, event>>
<1>0. Sound /\ Sound' /\ Sending
  <2>1. Inductive' <=> Sound' /\ Sending' /\ EventTyped' BY InductiveIs, PTL
  <2> QED BY <2>1, InductiveIs
<1>1. SUFFICES (Stays /\ event' = event) \/ Abs!AbsNext BY DEF Stays
<1>2. ASSUME NEW t \in Thread, NEW w \in {"no", "limited", "forever"}, MbStep(t, w)
      PROVE  Abs!AbsNext
  <2>1. CASE MbSendRefused(t, w) \/ MbSendWait(t, w) \/ MbRecvRefused(t, w) \/ MbRecvWait(t, w)
    <3>1. PICK op, o : Refused(t, op, w) \/ Waiting(t, op, w, o)
      BY <2>1 DEF MbSendRefused, MbSendWait, MbRecvRefused, MbRecvWait
    <3>2. Pauses BY <3>1 DEF Refused, Waiting
    <3> QED BY <1>0, <3>1, <3>2, RefusedStays, Rests
  <2>2. CASE MbSend(t, w) \/ MbRecv(t, w) BY <1>0, <2>2, MbSteps
  <2> QED BY <1>2, <2>1, <2>2 DEF MbStep
<1>3. ASSUME NEW t \in Thread, NEW w \in {"no", "limited", "forever"}, MqStep(t, w)
      PROVE  Abs!AbsNext
  <2>1. CASE MqSendRefused(t, w) \/ MqSendWait(t, w) \/ MqRecvRefused(t, w) \/ MqRecvWait(t, w)
    <3>1. PICK op, o : Refused(t, op, w) \/ Waiting(t, op, w, o)
      BY <2>1 DEF MqSendRefused, MqSendWait, MqRecvRefused, MqRecvWait
    <3>2. Pauses BY <3>1 DEF Refused, Waiting
    <3> QED BY <1>0, <3>1, <3>2, RefusedStays, Rests
  <2>2. CASE MqSend(t, w)
    <3>1. Pauses BY <2>2 DEF MqSend, TakeBlock
    <3> QED BY <1>0, <2>2, <3>1, TakeStays, Rests
  <2>3. CASE MqRecv(t, w) BY <1>0, <2>3, RecvGets
  <2> QED BY <1>3, <2>1, <2>2, <2>3 DEF MqStep
<1>4. ASSUME NEW t \in Thread,
             \/ MbUrgent(t) \/ MqLink(t) \/ MqFree(t) \/ MbReset(t) \/ MqReset(t) \/ Create(t)
      PROVE  Abs!AbsNext
  BY <1>0, <1>4, MbSteps, LinkPuts, FreeCopied, ResetClears, CreateClears
<1>5. ASSUME NEW t \in Thread, MqUrgent(t) PROVE Abs!AbsNext
  <2>1. Pauses BY <1>5 DEF MqUrgent, TakeBlock
  <2> QED BY <1>0, <1>5, <2>1, TakeStays, Rests
<1>6. ASSUME NEW t \in Thread,
             WaitFailed(t) \/ DeleteBegin(t) \/ DeleteResume(t) \/ DeleteEnd(t)
      PROVE  Abs!AbsNext
  <2>1. Pauses BY <1>6 DEF WaitFailed, DeleteBegin, DeleteResume, DeleteEnd
  <2>2. Stays BY <1>0, <1>6, OthersStay, ResumeStays
  <2> QED BY <2>1, <2>2, Rests
<1>7. CASE MbIsrSend \/ MqIsrSend BY <1>0, <1>7, MbSteps, IsrPuts, IdleAssumption
<1>8. CASE ProcessorStep /\ Pauses /\ UNCHANGED <<kind, store, job, alive>>
  BY <1>0, <1>8, ProcessorStays, Rests
<1>9. CASE UNCHANGED chanVars
  <2>1. StoreOK /\ kind' = kind /\ UNCHANGED store /\ pc' = pc /\ event' = event
    BY <1>0, <1>9, Parts DEF chanVars, store
  <2> QED BY <2>1, StaysOK
<1> QED BY <1>2, <1>3, <1>4, <1>5, <1>6, <1>7, <1>8, <1>9 DEF Next

\* Mailbox and message queue implement the bounded sequence of messages: a send
\* puts the sender's message at the end and an urgent one in front, a receiver
\* returns with the first one, which does not change while it is copied with
\* interrupts enabled, and only a reset or a new channel loses any.
THEOREM ChannelRefinement == Spec => ImplementsChannel
<1>1. Init => Abs!AbsInit
  <2> SUFFICES ASSUME Init PROVE Abs!AbsInit OBVIOUS
  <2>1. Len(<< >>) = 0 /\ 1 .. 0 = {} BY EmptyList
  <2>2. /\ entry = 0 /\ lists.queue = << >> /\ pc = [t \in Thread |-> "run"]
        /\ event = [call |-> "none", msg |-> None]
    BY DEF Init, EmptyLists
  <2>3. Contents = << >> BY <2>1, <2>2 DEF Contents
  <2>4. Held = [t \in Thread |-> None] BY <2>2 DEF Held
  <2> QED BY <2>2, <2>3, <2>4 DEF Abs!AbsInit
<1>2. Inductive /\ Inductive' /\ [Next]_chanVars => [Abs!AbsNext]_<<Contents, Held, event>>
  BY StepRefines
<1> QED BY <1>1, <1>2, InductiveInvariant, PTL
     DEF Spec, ImplementsChannel, Abs!AbsSpec, Abs!chanAbsVars

=============================================================================
