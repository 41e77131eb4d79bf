---------------------------- MODULE KernelProofs ----------------------------
(***************************************************************************)
(* Facts about the operators of Kernel: what each leaves true of the       *)
(* kernel state.  The proofs about the modules of the services cite them.  *)
(***************************************************************************)
EXTENDS Kernel, TLAPS, WellFoundedInduction, SequenceTheorems

-----------------------------------------------------------------------------
(* Sequences without repetition *)

\* The bitmap has a lowest bit (__rt_ffs of a non-zero word).
LEMMA MinNat ==
    ASSUME NEW S \in SUBSET Nat, S # {}
    PROVE  /\ Min(S) \in S
           /\ \A n \in S : Min(S) <= n
<1>1. IsWellFoundedOn(OpToRel(<, Nat), Nat)
  BY NatLessThanWellFounded
<1>2. PICK m \in S : \A n \in S : ~(<<n, m>> \in OpToRel(<, Nat))
  BY <1>1, WFMin
<1>3. \A n \in S : m <= n
  <2> SUFFICES ASSUME NEW n \in S PROVE m <= n
    OBVIOUS
  <2>1. <<n, m>> \in Nat \X Nat
    OBVIOUS
  <2>2. ~(n < m)
    BY <1>2, <2>1 DEF OpToRel
  <2> QED BY <2>2
<1> QED
  BY <1>3 DEF Min

\* ToSet in terms of the positions of a sequence.
LEMMA InToSet ==
    ASSUME NEW T, NEW s \in Seq(T), NEW x
    PROVE  x \in ToSet(s) <=> \E i \in 1 .. Len(s) : s[i] = x
<1>1. DOMAIN s = 1 .. Len(s)
  OBVIOUS
<1> QED BY <1>1 DEF ToSet

\* IsInjective in terms of the positions of a sequence.
LEMMA Injective ==
    ASSUME NEW T, NEW s \in Seq(T)
    PROVE  IsInjective(s) <=>
             \A i, j \in 1 .. Len(s) : s[i] = s[j] => i = j
<1>1. DOMAIN s = 1 .. Len(s)
  OBVIOUS
<1> QED BY <1>1 DEF IsInjective

\* The element at position j leaves.
LEMMA RemoveAtFacts ==
    ASSUME NEW T, NEW s \in Seq(T), NEW j \in 1..Len(s)
    PROVE  LET r == RemoveAt(s, j)
           IN  /\ r \in Seq(T)
               /\ Len(r) = Len(s) - 1
               /\ \A i \in 1 .. Len(s) - 1 : r[i] = IF i < j THEN s[i] ELSE s[i + 1]
<1> DEFINE a == SubSeq(s, 1, j - 1)
           b == SubSeq(s, j + 1, Len(s))
           r == a \o b
<1>0. j \in 1..Len(s)
  OBVIOUS
<1>5. Len(s) \in Nat /\ \A i \in 1..Len(s) : s[i] \in T
  OBVIOUS
<1>6. /\ a \in Seq(T)
      /\ Len(a) = j - 1
      /\ \A i \in 1 .. j - 1 : a[i] = s[i]
  <2>1. \A i \in 1 .. j - 1 : s[i] \in T
    BY <1>0, <1>5
  <2> QED BY <1>0, <1>5, <2>1, SubSeqProperties
<1>7. /\ b \in Seq(T)
      /\ Len(b) = Len(s) - j
      /\ \A i \in 1 .. Len(s) - j : b[i] = s[j + i]
  <2>1. \A i \in j + 1 .. Len(s) : s[i] \in T
    BY <1>0, <1>5
  <2>2. /\ SubSeq(s, j + 1, Len(s)) \in Seq(T)
        /\ Len(SubSeq(s, j + 1, Len(s))) = IF j + 1 <= Len(s) THEN Len(s) - (j + 1) + 1 ELSE 0
        /\ \A i \in 1 .. Len(s) - (j + 1) + 1 : SubSeq(s, j + 1, Len(s))[i] = s[(j + 1) + i - 1]
    BY <1>0, <1>5, <2>1, SubSeqProperties
  <2> QED BY <1>0, <1>5, <2>2
<1> HIDE DEF a, b
<1>8. /\ r \in Seq(T)
      /\ Len(r) = Len(s) - 1
      /\ \A i \in 1 .. Len(s) - 1 : r[i] = IF i < j THEN s[i] ELSE s[i + 1]
  <2>1. /\ r \in Seq(T)
        /\ Len(r) = Len(a) + Len(b)
        /\ \A i \in 1 .. Len(a) + Len(b) : r[i] = IF i <= Len(a) THEN a[i] ELSE b[i - Len(a)]
    BY <1>6, <1>7, ConcatProperties
  <2>2. Len(r) = Len(s) - 1
    BY <1>0, <1>5, <1>6, <1>7, <2>1
  <2>3. ASSUME NEW i \in 1 .. Len(s) - 1
        PROVE  r[i] = IF i < j THEN s[i] ELSE s[i + 1]
    <3>1. CASE i < j
      BY <1>0, <1>5, <1>6, <1>7, <2>1, <3>1
    <3>2. CASE ~(i < j)
      <4>1. i - Len(a) \in 1 .. Len(s) - j /\ ~(i <= Len(a)) /\ i \in 1 .. Len(a) + Len(b)
        BY <1>0, <1>5, <1>6, <1>7, <3>2
      <4>2. r[i] = b[i - Len(a)] /\ b[i - Len(a)] = s[j + (i - Len(a))]
        BY <4>1, <2>1, <1>7
      <4>3. j + (i - Len(a)) = i + 1
        BY <1>0, <1>5, <1>6
      <4> QED BY <3>2, <4>2, <4>3
    <3> QED BY <3>1, <3>2
  <2> QED BY <2>1, <2>2, <2>3
<1> QED BY <1>8 DEF RemoveAt, a, b

\* r is s with e at position n.
PutIn(r, s, n, e) ==
    /\ Len(r) = Len(s) + 1
    /\ \A x \in 1 .. Len(s) + 1 : r[x] = IF x < n THEN s[x] ELSE IF x = n THEN e ELSE s[x - 1]

LEMMA InsertAtFacts ==
    ASSUME NEW T, NEW s \in Seq(T), NEW e \in T, NEW n \in Int, 1 <= n, n <= Len(s) + 1
    PROVE  InsertAt(s, n, e) \in Seq(T) /\ PutIn(InsertAt(s, n, e), s, n, e)
<1> DEFINE a == SubSeq(s, 1, n - 1)
           b == SubSeq(s, n, Len(s))
           c == a \o <<e>>
           r == InsertAt(s, n, e)
<1>1. /\ a \in Seq(T) /\ Len(a) = n - 1 /\ \A x \in 1 .. n - 1 : a[x] = s[x]
      /\ b \in Seq(T) /\ Len(b) = Len(s) - n + 1
      /\ \A x \in 1 .. Len(s) - n + 1 : b[x] = s[n + x - 1]
  OBVIOUS
<1> HIDE DEF a, b
<1>2. /\ c \in Seq(T) /\ Len(c) = n
      /\ \A x \in 1 .. n : c[x] = IF x < n THEN s[x] ELSE e
  BY <1>1
<1> HIDE DEF c
<1>3. r = c \o b BY DEF r, c, a, b, InsertAt
<1> HIDE DEF r
<1>c. /\ r \in Seq(T) /\ Len(r) = Len(c) + Len(b)
      /\ \A x \in 1 .. Len(c) + Len(b) : r[x] = IF x <= Len(c) THEN c[x] ELSE b[x - Len(c)]
  BY <1>1, <1>2, <1>3, ConcatProperties
<1>4. r \in Seq(T) /\ Len(r) = Len(s) + 1 BY <1>1, <1>2, <1>c
<1>5. ASSUME NEW x \in 1 .. Len(s) + 1
      PROVE  r[x] = IF x < n THEN s[x] ELSE IF x = n THEN e ELSE s[x - 1]
  <2>1. CASE x <= n BY <1>1, <1>2, <1>c, <2>1
  <2>2. CASE ~(x <= n)
    <3>1. /\ x - Len(c) \in 1 .. Len(s) - n + 1 /\ ~(x <= Len(c)) /\ x \in 1 .. Len(c) + Len(b)
          /\ n + (x - Len(c)) - 1 = x - 1
      BY <1>1, <1>2, <2>2
    <3>2. r[x] = b[x - Len(c)] /\ b[x - Len(c)] = s[n + (x - Len(c)) - 1]
      BY <1>1, <1>c, <3>1
    <3> QED BY <2>2, <3>1, <3>2
  <2> QED BY <2>1, <2>2
<1>6. PutIn(r, s, n, e) BY <1>4, <1>5 DEF PutIn
<1> QED BY <1>4, <1>6 DEF r

\* rt_list_remove on one list: the node leaves, the others stay.
LEMMA RemoveFirstFacts ==
    ASSUME NEW T, NEW s \in Seq(T), NEW e, IsInjective(s)
    PROVE  /\ RemoveFirst(s, e) \in Seq(T)
           /\ IsInjective(RemoveFirst(s, e))
           /\ ToSet(RemoveFirst(s, e)) = ToSet(s) \ {e}
<1>1. CASE ~ \E i \in 1..Len(s) : s[i] = e
  BY <1>1 DEF RemoveFirst, ToSet
<1>2. CASE \E i \in 1..Len(s) : s[i] = e
  <2> DEFINE I == {i \in 1..Len(s) : s[i] = e}
             j == Min(I)
             r == RemoveAt(s, j)
  <2>1. I # {} /\ I \in SUBSET Nat
    BY <1>2
  <2>2. Min(I) \in I
    <3> HIDE DEF I
    <3> QED BY <2>1, MinNat
  <2>3. j \in 1..Len(s) /\ s[j] = e
    BY <2>2
  <2>4. RemoveFirst(s, e) = r
    BY <1>2, <2>1 DEF RemoveFirst, SelectInSeq
  <2> HIDE DEF I, j
  <2>5. Len(s) \in Nat /\ \A i \in 1..Len(s) : s[i] \in T
    OBVIOUS
  <2>8. /\ r \in Seq(T)
        /\ Len(r) = Len(s) - 1
        /\ \A i \in 1 .. Len(s) - 1 : r[i] = IF i < j THEN s[i] ELSE s[i + 1]
    BY <2>3, RemoveAtFacts
  <2> HIDE DEF r
  <2>9. IsInjective(r)
    <3>1. \A i, l \in 1 .. Len(s) : s[i] = s[l] => i = l
      BY Injective
    <3>2. ASSUME NEW i \in 1 .. Len(r), NEW l \in 1 .. Len(r), r[i] = r[l]
          PROVE  i = l
      BY <2>3, <2>5, <2>8, <3>1, <3>2
    <3> QED BY <2>8, <3>2, Injective
  <2>10. ASSUME NEW x \in ToSet(s) \ {e} PROVE x \in ToSet(r)
    <3>1. PICK i \in 1 .. Len(s) : s[i] = x
      BY InToSet
    <3>2. i # j
      BY <2>3, <3>1
    <3>3. CASE i < j
      <4>1. i \in 1 .. Len(r) /\ r[i] = x
        BY <2>3, <2>5, <2>8, <3>1, <3>3
      <4> QED BY <2>8, <4>1, InToSet
    <3>4. CASE i > j
      <4>1. i - 1 \in 1 .. Len(s) - 1 /\ ~(i - 1 < j)
        BY <2>3, <2>5, <3>4
      <4>2. r[i - 1] = x
        BY <4>1, <2>8, <3>1
      <4> QED BY <2>8, <4>1, <4>2, InToSet
    <3> QED BY <2>3, <3>2, <3>3, <3>4
  <2>11. ASSUME NEW x \in ToSet(r) PROVE x \in ToSet(s) \ {e}
    <3>1. PICK i \in 1 .. Len(s) - 1 : r[i] = x
      BY <2>8, InToSet
    <3>2. PICK l \in 1 .. Len(s) : l # j /\ s[l] = x
      BY <2>3, <2>5, <2>8, <3>1
    <3>3. x # e
      BY <2>3, <3>2, Injective
    <3> QED BY <3>2, <3>3, InToSet
  <2> QED BY <2>4, <2>8, <2>9, <2>10, <2>11
<1> QED BY <1>1, <1>2

\* A list that does not hold the node stays as it is.
LEMMA RemoveAbsent ==
    ASSUME NEW T, NEW s \in Seq(T), NEW e, e \notin ToSet(s)
    PROVE  RemoveFirst(s, e) = s
<1>1. ~ \E i \in 1 .. Len(s) : s[i] = e BY InToSet
<1> QED BY <1>1 DEF RemoveFirst

\* Removing the node at position j of a list without repetition.
LEMMA RemoveAtPosition ==
    ASSUME NEW T, NEW s \in Seq(T), IsInjective(s), NEW j \in 1 .. Len(s)
    PROVE  RemoveFirst(s, s[j]) = SubSeq(s, 1, j - 1) \o SubSeq(s, j + 1, Len(s))
<1>1. \A i \in 1 .. Len(s) : s[i] = s[j] => i = j BY Injective
<1> DEFINE I == {i \in 1 .. Len(s) : s[i] = s[j]}
<1>2. I = {j} BY <1>1
<1>3. \A x \in Int : Min({x}) = x BY DEF Min
<1>4. Min(I) = j BY <1>2, <1>3
<1>5. SelectInSeq(s, LAMBDA v : v = s[j]) = j
  BY <1>2, <1>4 DEF SelectInSeq
<1> QED BY <1>5 DEF RemoveFirst, RemoveAt

\* rt_list_remove of the first node.
LEMMA RemoveHead ==
    ASSUME NEW T, NEW s \in Seq(T), IsInjective(s), s # << >>
    PROVE  RemoveFirst(s, Head(s)) = Tail(s)
<1>1. 1 \in 1 .. Len(s) /\ s[1] = Head(s) OBVIOUS
<1>2. RemoveFirst(s, Head(s)) = SubSeq(s, 1, 0) \o SubSeq(s, 2, Len(s))
  <2>1. RemoveFirst(s, s[1]) = SubSeq(s, 1, 1 - 1) \o SubSeq(s, 1 + 1, Len(s))
    BY <1>1, RemoveAtPosition
  <2> QED BY <1>1, <2>1
<1>3. SubSeq(s, 1, 0) = << >> OBVIOUS
<1>4. SubSeq(s, 2, Len(s)) \in Seq(T) /\ SubSeq(s, 2, Len(s)) = Tail(s) OBVIOUS
<1> QED BY <1>2, <1>3, <1>4

\* The positions after the node at position n has left.
LEMMA RemovePositions ==
    ASSUME NEW T, NEW s \in Seq(T), IsInjective(s), NEW n \in 1 .. Len(s)
    PROVE  LET r == RemoveFirst(s, s[n])
           IN  /\ Len(r) = Len(s) - 1
               /\ \A x \in 1 .. Len(s) - 1 : r[x] = IF x < n THEN s[x] ELSE s[x + 1]
<1> DEFINE a == SubSeq(s, 1, n - 1)
           b == SubSeq(s, n + 1, Len(s))
           r == RemoveFirst(s, s[n])
<1>1. r = a \o b BY RemoveAtPosition
<1>2. /\ a \in Seq(T) /\ Len(a) = n - 1 /\ \A x \in 1 .. n - 1 : a[x] = s[x]
      /\ b \in Seq(T) /\ Len(b) = Len(s) - n
      /\ \A x \in 1 .. Len(s) - n : b[x] = s[n + x]
  OBVIOUS
<1> HIDE DEF a, b, r
<1>3. /\ Len(r) = Len(a) + Len(b)
      /\ \A x \in 1 .. Len(a) + Len(b) : r[x] = IF x <= Len(a) THEN a[x] ELSE b[x - Len(a)]
  BY <1>1, <1>2, ConcatProperties
<1>4. Len(r) = Len(s) - 1 BY <1>2, <1>3
<1>5. ASSUME NEW x \in 1 .. Len(s) - 1 PROVE r[x] = IF x < n THEN s[x] ELSE s[x + 1]
  <2>1. CASE x < n
    <3>1. x \in 1 .. n - 1 /\ x <= Len(a) /\ x \in 1 .. Len(a) + Len(b) BY <1>2, <2>1
    <3> QED BY <1>2, <1>3, <2>1, <3>1
  <2>2. CASE ~(x < n)
    <3>1. /\ x - Len(a) \in 1 .. Len(s) - n /\ ~(x <= Len(a)) /\ x \in 1 .. Len(a) + Len(b)
          /\ n + (x - Len(a)) = x + 1
      BY <1>2, <2>2
    <3>2. r[x] = b[x - Len(a)] /\ b[x - Len(a)] = s[n + (x - Len(a))]
      BY <1>2, <1>3, <3>1
    <3> QED BY <2>2, <3>1, <3>2
  <2> QED BY <2>1, <2>2
<1> QED BY <1>4, <1>5 DEF r

\* The order of the nodes that stay is kept.
InTurn(s, x, y) == \E p, q \in 1 .. Len(s) : p < q /\ s[p] = x /\ s[q] = y

LEMMA RemoveKeepsTurn ==
    ASSUME NEW T, NEW s \in Seq(T), IsInjective(s), NEW e, NEW r, r = RemoveFirst(s, e),
           NEW i \in 1 .. Len(r), NEW j \in 1 .. Len(r), i < j
    PROVE  InTurn(s, r[i], r[j])
<1>1. CASE e \notin ToSet(s)
  <2>1. r = s BY <1>1, RemoveAbsent
  <2> QED BY <2>1 DEF InTurn
<1>2. CASE e \in ToSet(s)
  <2>1. PICK n \in 1 .. Len(s) : s[n] = e BY <1>2, InToSet
  <2>2. /\ Len(r) = Len(s) - 1
        /\ \A x \in 1 .. Len(s) - 1 : r[x] = IF x < n THEN s[x] ELSE s[x + 1]
    BY <2>1, RemovePositions
  <2> DEFINE p == IF i < n THEN i ELSE i + 1
             q == IF j < n THEN j ELSE j + 1
  <2>3. p \in 1 .. Len(s) /\ q \in 1 .. Len(s) /\ p < q
    BY <2>2
  <2>4. s[p] = r[i] /\ s[q] = r[j]
    BY <2>2
  <2> HIDE DEF p, q
  <2> QED BY <2>3, <2>4 DEF InTurn
<1> QED BY <1>1, <1>2

LEMMA RemoveOrder ==
    ASSUME NEW T, NEW s \in Seq(T), IsInjective(s), NEW e,
           NEW i \in 1 .. Len(RemoveFirst(s, e)), NEW j \in 1 .. Len(RemoveFirst(s, e)), i < j
    PROVE  \E p, q \in 1 .. Len(s) :
               p < q /\ s[p] = RemoveFirst(s, e)[i] /\ s[q] = RemoveFirst(s, e)[j]
<1>1. PICK r : r = RemoveFirst(s, e) OBVIOUS
<1>2. i \in 1 .. Len(r) /\ j \in 1 .. Len(r) BY <1>1
<1>3. InTurn(s, r[i], r[j]) BY <1>1, <1>2, RemoveKeepsTurn
<1> QED BY <1>1, <1>3 DEF InTurn

\* rt_list_insert_before on the head node: the thread goes to the end.
LEMMA AppendFacts ==
    ASSUME NEW T, NEW s \in Seq(T), NEW e \in T, IsInjective(s), e \notin ToSet(s)
    PROVE  /\ Append(s, e) \in Seq(T)
           /\ Append(s, e) # << >>
           /\ IsInjective(Append(s, e))
           /\ ToSet(Append(s, e)) = ToSet(s) \cup {e}
<1> DEFINE r == Append(s, e)
<1>1. /\ r \in Seq(T)
      /\ r # << >>
      /\ Len(r) = Len(s) + 1
      /\ \A i \in 1 .. Len(s) : r[i] = s[i]
      /\ r[Len(s) + 1] = e
  BY AppendProperties
<1> HIDE DEF r
<1>2. Len(s) \in Nat /\ \A i \in 1 .. Len(s) : s[i] # e
  BY InToSet
<1>3. IsInjective(r)
  BY <1>1, <1>2, Injective
<1>4. \A x : x \in ToSet(r) <=> x \in ToSet(s) \cup {e}
  BY <1>1, <1>2, InToSet
<1> QED BY <1>1, <1>3, <1>4 DEF r

\* rt_list_insert_after on the head node: the thread goes to the front.
LEMMA PrependFacts ==
    ASSUME NEW T, NEW s \in Seq(T), NEW e \in T, IsInjective(s), e \notin ToSet(s)
    PROVE  /\ <<e>> \o s \in Seq(T)
           /\ IsInjective(<<e>> \o s)
           /\ ToSet(<<e>> \o s) = ToSet(s) \cup {e}
<1> DEFINE r == <<e>> \o s
<1>1. /\ r \in Seq(T)
      /\ Len(r) = Len(s) + 1
      /\ \A i \in 1 .. Len(s) + 1 : r[i] = IF i <= 1 THEN e ELSE s[i - 1]
  OBVIOUS
<1> HIDE DEF r
<1>2. Len(s) \in Nat /\ \A i \in 1 .. Len(s) : s[i] # e
  BY InToSet
<1>3. IsInjective(r)
  <2>1. \A i, j \in 1 .. Len(s) : s[i] = s[j] => i = j
    BY Injective
  <2>2. ASSUME NEW i \in 1 .. Len(r), NEW j \in 1 .. Len(r), r[i] = r[j]
        PROVE  i = j
    <3>1. CASE i = 1
      BY <1>1, <1>2, <2>2, <3>1
    <3>2. CASE j = 1
      BY <1>1, <1>2, <2>2, <3>2
    <3>3. CASE i # 1 /\ j # 1
      <4>1. i - 1 \in 1 .. Len(s) /\ j - 1 \in 1 .. Len(s)
        BY <1>1, <1>2, <3>3
      <4>2. s[i - 1] = s[j - 1]
        BY <1>1, <1>2, <2>2, <3>3
      <4> QED BY <2>1, <4>1, <4>2
    <3> QED BY <3>1, <3>2, <3>3
  <2> QED BY <1>1, <2>2, Injective
<1>4. ASSUME NEW x PROVE x \in ToSet(r) <=> x \in ToSet(s) \cup {e}
  <2>1. ASSUME NEW i \in 1 .. Len(s), s[i] = x PROVE x \in ToSet(r)
    <3>1. i + 1 \in 1 .. Len(r) /\ r[i + 1] = x
      BY <1>1, <1>2, <2>1
    <3> QED BY <1>1, <3>1, InToSet
  <2>2. e \in ToSet(r)
    BY <1>1, <1>2, InToSet
  <2>3. ASSUME x \in ToSet(r) PROVE x \in ToSet(s) \cup {e}
    <3>1. PICK i \in 1 .. Len(r) : r[i] = x
      BY <1>1, <2>3, InToSet
    <3>2. CASE i = 1
      BY <1>1, <3>1, <3>2
    <3>3. CASE i # 1
      <4>1. i - 1 \in 1 .. Len(s) /\ s[i - 1] = x
        BY <1>1, <1>2, <3>1, <3>3
      <4> QED BY <4>1, InToSet
    <3> QED BY <3>2, <3>3
  <2> QED BY <2>1, <2>2, <2>3, InToSet
<1> QED BY <1>1, <1>3, <1>4 DEF r

\* rt_list_isempty, and the first thread of a list that is not empty.
LEMMA EmptyFacts ==
    ASSUME NEW T, NEW s \in Seq(T)
    PROVE  /\ (s = << >>) <=> (ToSet(s) = {})
           /\ (s # << >>) => Head(s) \in ToSet(s)
           /\ ToSet(s) \subseteq T
<1>1. ASSUME s # << >> PROVE Head(s) \in ToSet(s)
  <2>1. 1 \in 1 .. Len(s) /\ s[1] = Head(s)
    BY <1>1
  <2> QED BY <2>1, InToSet
<1>2. ASSUME s = << >>, NEW x \in ToSet(s) PROVE FALSE
  <2>1. PICK i \in 1 .. Len(s) : s[i] = x
    BY InToSet
  <2>2. Len(s) = 0
    BY <1>2
  <2> QED BY <2>1, <2>2
<1>3. ToSet(s) \subseteq T
  BY InToSet
<1> QED BY <1>1, <1>2, <1>3

\* A sequence that differs from another one at one end.
LEMMA PutLast ==
    ASSUME NEW T, NEW s \in Seq(T), NEW r \in Seq(T), NEW m, Len(r) = Len(s) + 1,
           r[Len(s) + 1] = m, \A i \in 1 .. Len(s) : r[i] = s[i]
    PROVE  r = Append(s, m)
<1>1. PICK n \in Nat : n = Len(s) OBVIOUS
<1>2. Len(r) = n + 1 /\ n + 1 \in 1 .. n + 1 BY <1>1
<1>3. m \in T BY <1>1, <1>2
<1>4. PICK q : q = Append(s, m) OBVIOUS
<1>5. q \in Seq(T) /\ Len(q) = n + 1 /\ q[n + 1] = m /\ \A i \in 1 .. n : q[i] = s[i]
  BY <1>1, <1>3, <1>4
<1>6. \A i \in 1 .. n + 1 : r[i] = q[i] BY <1>1, <1>5
<1>7. r = q BY <1>2, <1>5, <1>6
<1> QED BY <1>4, <1>7

LEMMA PutFirst ==
    ASSUME NEW T, NEW s \in Seq(T), NEW r \in Seq(T), NEW m, Len(r) = Len(s) + 1,
           r[1] = m, \A i \in 1 .. Len(s) : r[i + 1] = s[i]
    PROVE  r = <<m>> \o s
<1>1. PICK n \in Nat : n = Len(s) OBVIOUS
<1>2. Len(r) = n + 1 /\ 1 \in 1 .. n + 1 BY <1>1
<1>3. m \in T BY <1>1, <1>2
<1>4. PICK q : q = <<m>> \o s OBVIOUS
<1>5. q \in Seq(T) /\ Len(q) = n + 1 /\ q[1] = m /\ \A i \in 1 .. n : q[i + 1] = s[i]
  BY <1>1, <1>3, <1>4
<1>6. ASSUME NEW i \in 1 .. n + 1 PROVE r[i] = q[i]
  <2>1. CASE i = 1 BY <1>5, <2>1
  <2>2. CASE i # 1
    <3>1. PICK j \in 1 .. n : j + 1 = i
      <4>1. i - 1 \in 1 .. n /\ (i - 1) + 1 = i BY <2>2
      <4> QED BY <4>1
    <3> QED BY <1>1, <1>5, <3>1
  <2> QED BY <2>1, <2>2
<1>7. r = q BY <1>2, <1>5, <1>6
<1> QED BY <1>4, <1>7

LEMMA TakeFirst ==
    ASSUME NEW T, NEW s \in Seq(T), NEW r \in Seq(T), Len(s) = Len(r) + 1,
           \A i \in 1 .. Len(r) : r[i] = s[i + 1]
    PROVE  s # << >> /\ r = Tail(s) /\ Head(s) = s[1]
<1>1. PICK n \in Nat : n = Len(r) OBVIOUS
<1>2. Len(s) = n + 1 /\ s # << >> BY <1>1
<1>3. PICK q : q = Tail(s) OBVIOUS
<1>4. q \in Seq(T) /\ Len(q) = n /\ \A i \in 1 .. n : q[i] = s[i + 1] BY <1>1, <1>2, <1>3
<1>5. r = q BY <1>1, <1>4
<1> QED BY <1>2, <1>3, <1>5

\* A list without its first thread.
LEMMA TailFacts ==
    ASSUME NEW T, NEW s \in Seq(T), IsInjective(s), s # << >>
    PROVE  /\ Head(s) \in T /\ Head(s) \in ToSet(s)
           /\ Tail(s) \in Seq(T)
           /\ Len(Tail(s)) = Len(s) - 1
           /\ IsInjective(Tail(s))
           /\ ToSet(Tail(s)) = ToSet(s) \ {Head(s)}
<1> DEFINE r == Tail(s)
<1>1. /\ Head(s) = s[1] /\ Len(s) \in Nat /\ Len(s) > 0
      /\ r \in Seq(T) /\ Len(r) = Len(s) - 1
      /\ \A i \in 1 .. Len(s) - 1 : r[i] = s[i + 1]
  OBVIOUS
<1> HIDE DEF r
<1>2. \A i, j \in 1 .. Len(s) : s[i] = s[j] => i = j BY Injective
<1>3. IsInjective(r)
  <2>1. ASSUME NEW i \in 1 .. Len(r), NEW j \in 1 .. Len(r), r[i] = r[j] PROVE i = j
    <3>1. i + 1 \in 1 .. Len(s) /\ j + 1 \in 1 .. Len(s) /\ s[i + 1] = s[j + 1]
      BY <1>1, <2>1
    <3>2. i + 1 = j + 1 BY <1>2, <3>1
    <3> QED BY <1>1, <3>2
  <2> QED BY <1>1, <2>1, Injective
<1>4. ASSUME NEW x \in ToSet(r) PROVE x \in ToSet(s) /\ x # Head(s)
  <2>1. PICK i \in 1 .. Len(r) : r[i] = x BY <1>1, InToSet
  <2>2. i + 1 \in 1 .. Len(s) /\ s[i + 1] = x /\ i + 1 # 1 BY <1>1, <2>1
  <2>3. 1 \in 1 .. Len(s) BY <1>1
  <2>4. x # s[1] BY <1>2, <2>2, <2>3
  <2> QED BY <1>1, <2>2, <2>4, InToSet
<1>5. ASSUME NEW x \in ToSet(s), x # Head(s) PROVE x \in ToSet(r)
  <2>1. PICK i \in 1 .. Len(s) : s[i] = x BY InToSet
  <2>2. i - 1 \in 1 .. Len(r) /\ r[i - 1] = x BY <1>1, <1>5, <2>1
  <2> QED BY <1>1, <2>2, InToSet
<1>6. Head(s) \in T /\ Head(s) \in ToSet(s) BY EmptyFacts
<1> QED BY <1>1, <1>3, <1>4, <1>5, <1>6 DEF r

-----------------------------------------------------------------------------
(* The scheduler's operators *)

ListsInjective(k) ==
    /\ \A p \in Prio : IsInjective(k.ready[p])
    /\ \A o \in Obj : IsInjective(k.wait[o])
    /\ IsInjective(k.defunct)

\* Types of the fields and of the elements of the lists.
KTyped(k) ==
    /\ k.cur \in Thread /\ k.stat \in [Thread -> Stat]
    /\ k.prio \in [Thread -> Prio]
    /\ k.timer \subseteq Thread /\ k.group \subseteq Prio
    /\ \A p \in Prio :
          /\ k.ready[p] \in Seq(Thread)
          /\ ToSet(k.ready[p]) \subseteq Thread
          /\ (k.ready[p] = << >>) <=> (ToSet(k.ready[p]) = {})
          /\ (k.ready[p] # << >>) => Head(k.ready[p]) \in ToSet(k.ready[p])
    /\ \A o \in Obj :
          /\ k.wait[o] \in Seq(Thread)
          /\ ToSet(k.wait[o]) \subseteq Thread
          /\ (k.wait[o] = << >>) <=> (ToSet(k.wait[o]) = {})
          /\ (k.wait[o] # << >>) => Head(k.wait[o]) \in ToSet(k.wait[o])
    /\ k.defunct \in Seq(Thread)
    /\ ToSet(k.defunct) \subseteq Thread
    /\ (k.defunct # << >>) => Head(k.defunct) \in ToSet(k.defunct)
    /\ k.lock \in Nat

\* What the type of the kernel state gives the provers, field by field.
LEMMA KTypes == ASSUME NEW k \in KState PROVE KTyped(k)
<1>1. /\ k.cur \in Thread /\ k.stat \in [Thread -> Stat]
      /\ k.prio \in [Thread -> Prio]
      /\ k.timer \subseteq Thread /\ k.group \subseteq Prio
      /\ k.ready \in [Prio -> Seq(Thread)]
      /\ k.wait \in [Obj -> Seq(Thread)]
      /\ k.defunct \in Seq(Thread)
      /\ k.lock \in Nat
  BY DEF KState
<1>2. \A s \in Seq(Thread) : /\ (s = << >>) <=> (ToSet(s) = {})
                             /\ (s # << >>) => Head(s) \in ToSet(s)
                             /\ ToSet(s) \subseteq Thread
  BY EmptyFacts
<1> QED BY <1>1, <1>2 DEF KTyped

\* rt_list_remove takes t off every list and changes nothing else.
LEMMA ListRemove ==
    ASSUME NEW k \in KState, ListsInjective(k), NEW t \in Thread
    PROVE  LET r == rt_list_remove(k, t)
           IN  /\ r \in KState
               /\ r = [k EXCEPT !.ready = r.ready, !.wait = r.wait,
                                !.defunct = r.defunct]
               /\ ListsInjective(r)
               /\ \A p \in Prio : ToSet(r.ready[p]) = ToSet(k.ready[p]) \ {t}
               /\ \A o \in Obj : ToSet(r.wait[o]) = ToSet(k.wait[o]) \ {t}
               /\ ToSet(r.defunct) = ToSet(k.defunct) \ {t}
<1> DEFINE r == rt_list_remove(k, t)
<1>1. \A p \in Prio : /\ RemoveFirst(k.ready[p], t) \in Seq(Thread)
                      /\ IsInjective(RemoveFirst(k.ready[p], t))
                      /\ ToSet(RemoveFirst(k.ready[p], t)) = ToSet(k.ready[p]) \ {t}
  <2> SUFFICES ASSUME NEW p \in Prio
               PROVE  /\ RemoveFirst(k.ready[p], t) \in Seq(Thread)
                      /\ IsInjective(RemoveFirst(k.ready[p], t))
                      /\ ToSet(RemoveFirst(k.ready[p], t)) = ToSet(k.ready[p]) \ {t}
    OBVIOUS
  <2>1. k.ready[p] \in Seq(Thread) /\ IsInjective(k.ready[p])
    BY DEF KState, ListsInjective
  <2> QED BY <2>1, RemoveFirstFacts
<1>2. \A o \in Obj : /\ RemoveFirst(k.wait[o], t) \in Seq(Thread)
                     /\ IsInjective(RemoveFirst(k.wait[o], t))
                     /\ ToSet(RemoveFirst(k.wait[o], t)) = ToSet(k.wait[o]) \ {t}
  <2> SUFFICES ASSUME NEW o \in Obj
               PROVE  /\ RemoveFirst(k.wait[o], t) \in Seq(Thread)
                      /\ IsInjective(RemoveFirst(k.wait[o], t))
                      /\ ToSet(RemoveFirst(k.wait[o], t)) = ToSet(k.wait[o]) \ {t}
    OBVIOUS
  <2>1. k.wait[o] \in Seq(Thread) /\ IsInjective(k.wait[o])
    BY DEF KState, ListsInjective
  <2> QED BY <2>1, RemoveFirstFacts
<1>3. /\ RemoveFirst(k.defunct, t) \in Seq(Thread)
      /\ IsInjective(RemoveFirst(k.defunct, t))
      /\ ToSet(RemoveFirst(k.defunct, t)) = ToSet(k.defunct) \ {t}
  <2>1. k.defunct \in Seq(Thread) /\ IsInjective(k.defunct)
    BY DEF KState, ListsInjective
  <2> QED BY <2>1, RemoveFirstFacts
<1>4. /\ r.ready = [p \in Prio |-> RemoveFirst(k.ready[p], t)]
      /\ r.wait = [o \in Obj |-> RemoveFirst(k.wait[o], t)]
      /\ r.defunct = RemoveFirst(k.defunct, t)
      /\ r = [k EXCEPT !.ready = r.ready, !.wait = r.wait, !.defunct = r.defunct]
  BY DEF rt_list_remove, KState
<1> HIDE DEF r
<1>5. r \in KState
  <2>1. r.ready \in [Prio -> Seq(Thread)] /\ r.wait \in [Obj -> Seq(Thread)]
    BY <1>1, <1>2, <1>4
  <2>2. r.defunct \in Seq(Thread)
    BY <1>3, <1>4
  <2> QED BY <2>1, <2>2, <1>4 DEF KState
<1> QED
  BY <1>1, <1>2, <1>3, <1>4, <1>5 DEF r, ListsInjective

\* rt_schedule_remove_thread keeps the lists and the bitmap consistent, with t
\* on no list.
LEMMA RemoveThread ==
    ASSUME NEW k \in KState, NEW out \in SUBSET Thread, KernelOK(k, out),
           NEW t \in Thread, k.stat[t] # "CLOSE"
    PROVE  LET r == rt_schedule_remove_thread(k, t)
           IN  /\ r \in KState
               /\ r = [k EXCEPT !.ready = r.ready, !.wait = r.wait,
                                !.defunct = r.defunct, !.group = r.group]
               /\ KernelOK(r, out \cup {t})
<1> DEFINE l == rt_list_remove(k, t)
           r == rt_schedule_remove_thread(k, t)
<1>0. ListsInjective(k)
  BY DEF KernelOK, ReadyListsOK, WaitListsOK, DefunctOK, ListsInjective
<1>1. /\ l \in KState
      /\ l = [k EXCEPT !.ready = l.ready, !.wait = l.wait, !.defunct = l.defunct]
      /\ ListsInjective(l)
      /\ \A p \in Prio : ToSet(l.ready[p]) = ToSet(k.ready[p]) \ {t}
      /\ \A o \in Obj : ToSet(l.wait[o]) = ToSet(k.wait[o]) \ {t}
      /\ ToSet(l.defunct) = ToSet(k.defunct) \ {t}
  BY <1>0, ListRemove
<1> HIDE DEF l
<1>2. /\ l.stat = k.stat /\ l.prio = k.prio /\ l.cur = k.cur /\ l.group = k.group
      /\ l.timer = k.timer
  BY <1>1 DEF KState
<1>3. r = IF l.ready[k.prio[t]] = << >> THEN [l EXCEPT !.group = k.group \ {k.prio[t]}] ELSE l
  BY <1>2 DEF rt_schedule_remove_thread, l
<1> HIDE DEF r
<1>4. /\ r \in KState
      /\ r = [k EXCEPT !.ready = r.ready, !.wait = r.wait,
                       !.defunct = r.defunct, !.group = r.group]
      /\ r.stat = k.stat /\ r.prio = k.prio /\ r.cur = k.cur /\ r.timer = k.timer
      /\ r.ready = l.ready /\ r.wait = l.wait /\ r.defunct = l.defunct
      /\ r.group = IF l.ready[k.prio[t]] = << >> THEN k.group \ {k.prio[t]} ELSE k.group
  BY <1>1, <1>2, <1>3 DEF KState
<1>5. \A p \in Prio : /\ k.ready[p] \in Seq(Thread) /\ l.ready[p] \in Seq(Thread)
                      /\ k.ready[p] = << >> <=> ToSet(k.ready[p]) = {}
                      /\ l.ready[p] = << >> <=> ToSet(l.ready[p]) = {}
  BY <1>1, EmptyFacts DEF KState
<1>6. ReadyListsOK(r, out \cup {t})
  <2>1. ASSUME NEW p \in Prio \ {k.prio[t]}
        PROVE  ToSet(l.ready[p]) = ToSet(k.ready[p])
    <3>1. t \notin ToSet(k.ready[p])
      BY DEF KernelOK, ReadyListsOK
    <3> QED BY <1>1, <3>1
  <2>2. r.group = {p \in Prio : r.ready[p] # << >>}
    <3>1. k.group = {p \in Prio : k.ready[p] # << >>}
      BY DEF KernelOK, ReadyListsOK
    <3>2. k.prio[t] \in Prio
      BY DEF KState
    <3>3. ToSet(l.ready[k.prio[t]]) # {} => ToSet(k.ready[k.prio[t]]) # {}
      BY <1>1, <3>2
    <3>4. \A p \in Prio : p # k.prio[t] => (l.ready[p] = << >> <=> k.ready[p] = << >>)
      BY <1>5, <2>1
    <3>5. l.ready[k.prio[t]] # << >> => k.ready[k.prio[t]] # << >>
      BY <1>5, <3>2, <3>3
    <3>6. r.group = {p \in Prio : l.ready[p] # << >>}
      BY <1>4, <3>1, <3>2, <3>4, <3>5
    <3> QED BY <1>4, <3>6
  <2>3. \A p \in Prio : /\ IsInjective(r.ready[p])
                        /\ \A u \in ToSet(r.ready[p]) : r.stat[u] = "READY" /\ r.prio[u] = p
    BY <1>1, <1>4 DEF KernelOK, ReadyListsOK, ListsInjective
  <2>4. \A u \in Thread \ (out \cup {t}) :
           r.stat[u] = "READY" => u \in ToSet(r.ready[r.prio[u]])
    <3> SUFFICES ASSUME NEW u \in Thread \ (out \cup {t}), k.stat[u] = "READY"
                 PROVE  u \in ToSet(l.ready[k.prio[u]])
      BY <1>4
    <3>1. u \in ToSet(k.ready[k.prio[u]])
      BY DEF KernelOK, ReadyListsOK
    <3>2. k.prio[u] \in Prio
      BY DEF KState
    <3> QED BY <1>1, <3>1, <3>2
  <2> QED BY <2>2, <2>3, <2>4 DEF ReadyListsOK
<1>7. WaitListsOK(r)
  <2>1. WaitListsOK(k)
    BY DEF KernelOK
  <2>2. \A o \in Obj : IsInjective(l.wait[o]) /\ ToSet(l.wait[o]) \subseteq ToSet(k.wait[o])
    BY <1>1 DEF ListsInjective
  <2>3. \A o \in Obj : \A u \in ToSet(k.wait[o]) :
           k.stat[u] = "SUSPEND" /\ \A q \in Obj \ {o} : u \notin ToSet(k.wait[q])
    BY <2>1 DEF WaitListsOK
  <2>4. \A o \in Obj : \A u \in ToSet(l.wait[o]) :
           k.stat[u] = "SUSPEND" /\ \A q \in Obj \ {o} : u \notin ToSet(l.wait[q])
    BY <2>2, <2>3
  <2> QED BY <1>4, <2>2, <2>4 DEF WaitListsOK
<1>8. DefunctOK(r)
  BY <1>1, <1>4 DEF KernelOK, DefunctOK, ListsInjective
<1>9. CurrentOK(r) /\ TimersOK(r) /\ IdleOK(r)
  BY <1>4 DEF KernelOK, CurrentOK, TimersOK, IdleOK
<1>10. ASSUME NEW u \in out \cup {t} PROVE InNoList(r, u)
  <2>1. u = t \/ InNoList(k, u)
    BY DEF KernelOK
  <2>2. InNoList(l, u)
    BY <1>1, <2>1 DEF InNoList
  <2> QED BY <1>4, <2>2 DEF InNoList
<1> QED BY <1>4, <1>6, <1>7, <1>8, <1>9, <1>10 DEF r, KernelOK

\* rt_schedule_insert_thread queues a thread that is on no list.
LEMMA InsertThread ==
    ASSUME NEW k \in KState, NEW out \in SUBSET Thread, KernelOK(k, out),
           NEW t \in Thread, InNoList(k, t), t \notin k.timer
    PROVE  LET r == rt_schedule_insert_thread(k, t)
           IN  /\ r \in KState
               /\ r = [k EXCEPT !.stat = r.stat, !.ready = r.ready, !.group = r.group]
               /\ \A u \in Thread \ {t} : r.stat[u] = k.stat[u]
               /\ r.stat[t] = IF t = k.cur THEN "RUNNING" ELSE "READY"
               /\ KernelOK(r, out \ {t})
<1> DEFINE r == rt_schedule_insert_thread(k, t)
           p0 == k.prio[t]
<1>0. p0 \in Prio /\ k.ready[p0] \in Seq(Thread) /\ IsInjective(k.ready[p0])
  BY DEF KState, KernelOK, ReadyListsOK
<1>K. KTyped(k)
  BY KTypes
<1>T. /\ k.cur \in Thread /\ k.prio \in [Thread -> Prio] /\ k.timer \subseteq Thread
      /\ \A p \in Prio : ToSet(k.ready[p]) \subseteq Thread
      /\ \A o \in Obj : ToSet(k.wait[o]) \subseteq Thread
      /\ ToSet(k.defunct) \subseteq Thread
  BY <1>K DEF KTyped
<1>1. CASE t = k.cur
  <2>1. /\ r = [k EXCEPT !.stat[t] = "RUNNING"]
        /\ r \in KState
        /\ r.stat = [k.stat EXCEPT ![t] = "RUNNING"]
        /\ r.prio = k.prio /\ r.cur = k.cur /\ r.timer = k.timer /\ r.group = k.group
        /\ r.ready = k.ready /\ r.wait = k.wait /\ r.defunct = k.defunct
    BY <1>1 DEF rt_schedule_insert_thread, KState, Stat
  <2> HIDE DEF r
  <2>2. r = [k EXCEPT !.stat = r.stat, !.ready = r.ready, !.group = r.group]
    BY <2>1 DEF KState
  <2>3. /\ \A u \in Thread \ {t} : r.stat[u] = k.stat[u]
        /\ r.stat[t] = "RUNNING"
    BY <2>1 DEF KState
  <2>4. ReadyListsOK(r, out \ {t})
    BY <1>T, <1>1, <2>1, <2>3 DEF KernelOK, ReadyListsOK, InNoList
  <2>5. WaitListsOK(r)
    BY <1>T, <2>1, <2>3 DEF KernelOK, WaitListsOK, InNoList
  <2>6. DefunctOK(r)
    BY <1>T, <2>1, <2>3 DEF KernelOK, DefunctOK, InNoList
  <2>7. CurrentOK(r) /\ TimersOK(r) /\ IdleOK(r)
    BY <1>T, <1>1, <2>1, <2>3, IdleAssumption DEF KernelOK, CurrentOK, TimersOK, IdleOK
  <2>8. \A u \in out \ {t} : InNoList(r, u)
    BY <2>1 DEF KernelOK, InNoList
  <2> QED BY <1>1, <2>1, <2>2, <2>3, <2>4, <2>5, <2>6, <2>7, <2>8 DEF r, KernelOK
<1>2. CASE t # k.cur
  <2>0. /\ Append(k.ready[p0], t) \in Seq(Thread)
        /\ Append(k.ready[p0], t) # << >>
        /\ IsInjective(Append(k.ready[p0], t))
        /\ ToSet(Append(k.ready[p0], t)) = ToSet(k.ready[p0]) \cup {t}
    BY <1>0, AppendFacts DEF InNoList
  <2>1. /\ r \in KState
        /\ r.stat = [k.stat EXCEPT ![t] = "READY"]
        /\ r.prio = k.prio /\ r.cur = k.cur /\ r.timer = k.timer
        /\ r.group = k.group \cup {p0}
        /\ r.ready = [k.ready EXCEPT ![p0] = Append(k.ready[p0], t)]
        /\ r.wait = k.wait /\ r.defunct = k.defunct
        /\ r = [k EXCEPT !.stat = r.stat, !.ready = r.ready, !.group = r.group]
    BY <1>0, <1>2, <2>0 DEF rt_schedule_insert_thread, KState, Stat
  <2> HIDE DEF r
  <2>3. /\ \A u \in Thread \ {t} : r.stat[u] = k.stat[u]
        /\ r.stat[t] = "READY"
        /\ \A p \in Prio \ {p0} : r.ready[p] = k.ready[p]
        /\ r.ready[p0] = Append(k.ready[p0], t)
    BY ZenonT(40), <1>0, <2>1 DEF KState
  <2> HIDE DEF p0
  <2>4. ReadyListsOK(r, out \ {t})
    <3>1. r.group = {p \in Prio : r.ready[p] # << >>}
      BY <1>0, <2>0, <2>1, <2>3 DEF KernelOK, ReadyListsOK
    <3>2. ASSUME NEW p \in Prio
          PROVE  /\ IsInjective(r.ready[p])
                 /\ \A u \in ToSet(r.ready[p]) : r.stat[u] = "READY" /\ r.prio[u] = p
      <4>1. /\ IsInjective(k.ready[p])
            /\ \A u \in ToSet(k.ready[p]) : k.stat[u] = "READY" /\ k.prio[u] = p
        BY DEF KernelOK, ReadyListsOK
      <4>2. t \notin ToSet(k.ready[p])
        BY DEF InNoList
      <4>3. CASE p = p0
        <5>1. IsInjective(r.ready[p]) /\ ToSet(r.ready[p]) = ToSet(k.ready[p]) \cup {t}
          BY <2>0, <2>3, <4>3
        <5>2. k.prio[t] = p /\ r.prio = k.prio
          BY <2>1, <4>3 DEF p0
        <5>3. ToSet(k.ready[p]) \subseteq Thread
          BY <1>T
        <5>4. \A u \in ToSet(k.ready[p]) : u \in Thread \ {t}
          BY <4>2, <5>3
        <5> QED BY <2>3, <4>1, <5>1, <5>2, <5>4
      <4>4. CASE p # p0
        BY <2>1, <2>3, <4>1, <4>2, <4>4
      <4> QED BY <4>3, <4>4
    <3>3. \A u \in Thread \ (out \ {t}) :
             r.stat[u] = "READY" => u \in ToSet(r.ready[r.prio[u]])
      <4> SUFFICES ASSUME NEW u \in Thread \ (out \ {t}), r.stat[u] = "READY"
                   PROVE  u \in ToSet(r.ready[k.prio[u]])
        BY <2>1
      <4>1. CASE u = t
        BY <2>0, <2>3, <4>1 DEF p0
      <4>2. CASE u # t
        <5>1. u \in ToSet(k.ready[k.prio[u]]) /\ k.prio[u] \in Prio
          BY <1>T, <2>3, <4>2 DEF KernelOK, ReadyListsOK
        <5> QED BY <2>0, <2>3, <5>1
      <4> QED BY <4>1, <4>2
    <3> QED BY <3>1, <3>2, <3>3 DEF ReadyListsOK
  <2>5. WaitListsOK(r)
    BY <1>T, <2>1, <2>3 DEF KernelOK, WaitListsOK, InNoList
  <2>6. DefunctOK(r)
    BY <1>T, <2>1, <2>3 DEF KernelOK, DefunctOK, InNoList
  <2>7. CurrentOK(r) /\ TimersOK(r) /\ IdleOK(r)
    BY <1>T, <1>2, <2>1, <2>3, IdleAssumption DEF KernelOK, CurrentOK, TimersOK, IdleOK
  <2>8. \A u \in out \ {t} : InNoList(r, u)
    BY <1>0, <2>0, <2>1, <2>3 DEF KernelOK, InNoList
  <2> QED BY <1>2, <2>1, <2>3, <2>4, <2>5, <2>6, <2>7, <2>8 DEF r, KernelOK
<1> QED BY <1>1, <1>2

\* Fields that KernelOK does not look at: error code, time slice, lock count.
LEMMA Irrelevant ==
    ASSUME NEW k \in KState, NEW out \in SUBSET Thread, KernelOK(k, out),
           NEW l \in KState, l.cur = k.cur, l.stat = k.stat, l.prio = k.prio,
           l.ready = k.ready, l.group = k.group, l.wait = k.wait,
           l.defunct = k.defunct, l.timer \subseteq k.timer
    PROVE  KernelOK(l, out)
  BY DEF KernelOK, ReadyListsOK, WaitListsOK, DefunctOK, CurrentOK, TimersOK,
         IdleOK, InNoList

\* rt_thread_resume readies a thread that is suspended, or ready already.
LEMMA ResumeThread ==
    ASSUME NEW k \in KState, NEW out \in SUBSET Thread, KernelOK(k, out),
           NEW t \in Thread \ out, k.stat[t] \in {"SUSPEND", "READY"}
    PROVE  LET r == rt_thread_resume(k, t)
           IN  /\ r \in KState
               /\ KernelOK(r, out)
               /\ r.cur = k.cur /\ r.lock = k.lock /\ r.prio = k.prio
               /\ r.timer = k.timer \ {t}
               /\ \A u \in Thread \ {t} : r.stat[u] = k.stat[u]
               /\ r.stat[t] = IF t = k.cur THEN "RUNNING" ELSE "READY"
<1> DEFINE m == [rt_list_remove(k, t) EXCEPT !.timer = k.timer \ {t}]
           d == rt_schedule_remove_thread(k, t)
           e == [d EXCEPT !.timer = k.timer \ {t}]
           r == rt_thread_resume(k, t)
<1>1. /\ d \in KState
      /\ d = [k EXCEPT !.ready = d.ready, !.wait = d.wait,
                       !.defunct = d.defunct, !.group = d.group]
      /\ KernelOK(d, out \cup {t})
  BY RemoveThread
<1>2. /\ e \in KState
      /\ e.cur = k.cur /\ e.stat = k.stat /\ e.prio = k.prio /\ e.lock = k.lock
      /\ e.timer = k.timer \ {t}
  <2> HIDE DEF d
  <2> QED BY <1>1 DEF KState
<1>3. KernelOK(e, out \cup {t})
  <2> HIDE DEF d
  <2>1. /\ e.ready = d.ready /\ e.group = d.group /\ e.wait = d.wait
        /\ e.defunct = d.defunct /\ e.timer \subseteq d.timer
        /\ e.cur = d.cur /\ e.stat = d.stat /\ e.prio = d.prio
    BY <1>1 DEF KState
  <2> HIDE DEF e
  <2>2. out \cup {t} \in SUBSET Thread
    OBVIOUS
  <2> QED BY <1>1, <1>2, <2>1, <2>2, Irrelevant
<1>4. InNoList(e, t) /\ t \notin e.timer
  <2> HIDE DEF e
  <2> QED BY <1>2, <1>3 DEF KernelOK
\* Whatever rt_schedule_remove_thread does to the bit of t's priority, the bit
\* is set in the end if and only if t is queued.
<1>5. r = rt_schedule_insert_thread(e, t)
  <2> DEFINE q == rt_list_remove(k, t)
  <2>0. ListsInjective(k)
    BY DEF KernelOK, ReadyListsOK, WaitListsOK, DefunctOK, ListsInjective
  <2>1. /\ q \in KState
        /\ q = [k EXCEPT !.ready = q.ready, !.wait = q.wait, !.defunct = q.defunct]
        /\ \A p \in Prio : ToSet(q.ready[p]) = ToSet(k.ready[p]) \ {t}
    BY <2>0, ListRemove
  <2>2. /\ q.stat = k.stat /\ q.prio = k.prio /\ q.cur = k.cur
        /\ q.timer = k.timer /\ q.group = k.group
    <3> HIDE DEF q
    <3> QED BY <2>1 DEF KState
  <2>3. r = rt_schedule_insert_thread([q EXCEPT !.timer = k.timer \ {t}], t)
    BY <2>2 DEF rt_thread_resume
  <2>4. d = IF q.ready[k.prio[t]] = << >> THEN [q EXCEPT !.group = k.group \ {k.prio[t]}] ELSE q
    BY <2>2 DEF rt_schedule_remove_thread
  <2>5. CASE k.stat[t] = "READY"
    <3>1. t # k.cur
      BY <2>5 DEF KernelOK, CurrentOK
    <3>2. CASE q.ready[k.prio[t]] = << >>
      <4>1. e = [q EXCEPT !.group = k.group \ {k.prio[t]}, !.timer = k.timer \ {t}]
        BY <2>1, <2>2, <2>4, <3>2 DEF KState
      <4>2. (k.group \ {k.prio[t]}) \cup {k.prio[t]} = k.group \cup {k.prio[t]}
        OBVIOUS
      <4> HIDE DEF q, e, r
      <4> QED BY <2>1, <2>2, <2>3, <3>1, <4>1, <4>2 DEF rt_schedule_insert_thread, KState
    <3>3. CASE q.ready[k.prio[t]] # << >>
      BY <2>3, <2>4, <3>3
    <3> QED BY <3>2, <3>3
  <2>6. CASE k.stat[t] = "SUSPEND"
    <3>1. k.prio[t] \in Prio
      BY DEF KState
    <3>2. t \notin ToSet(k.ready[k.prio[t]])
      BY <2>6, <3>1 DEF KernelOK, ReadyListsOK
    <3>3. ToSet(q.ready[k.prio[t]]) = ToSet(k.ready[k.prio[t]])
      BY <2>1, <3>1, <3>2
    <3>4. q.ready[k.prio[t]] = << >> => k.ready[k.prio[t]] = << >>
      <4>1. k.ready[k.prio[t]] \in Seq(Thread) /\ q.ready[k.prio[t]] \in Seq(Thread)
        BY <2>1, <3>1 DEF KState
      <4>2. (k.ready[k.prio[t]] = << >>) <=> (ToSet(k.ready[k.prio[t]]) = {})
        BY <4>1, EmptyFacts
      <4>3. (q.ready[k.prio[t]] = << >>) <=> (ToSet(q.ready[k.prio[t]]) = {})
        <5> HIDE DEF q
        <5> QED BY <4>1, EmptyFacts
      <4> HIDE DEF q
      <4> QED BY <3>3, <4>2, <4>3
    <3>5. q.ready[k.prio[t]] = << >> => k.prio[t] \notin k.group
      BY <3>4 DEF KernelOK, ReadyListsOK
    <3>6. q.ready[k.prio[t]] = << >> => d = q
      <4> HIDE DEF q, d
      <4>1. k.prio[t] \notin k.group => k.group \ {k.prio[t]} = k.group
        OBVIOUS
      <4>2. q = [q EXCEPT !.group = k.group]
        BY <2>1, <2>2 DEF KState
      <4> QED BY <2>4, <3>5, <4>1, <4>2
    <3>7. d = q
      BY <2>4, <3>6
    <3> QED BY <2>3, <3>7
  <2> QED BY <2>5, <2>6
<1>6. /\ r \in KState
      /\ r = [e EXCEPT !.stat = r.stat, !.ready = r.ready, !.group = r.group]
      /\ \A u \in Thread \ {t} : r.stat[u] = e.stat[u]
      /\ r.stat[t] = IF t = e.cur THEN "RUNNING" ELSE "READY"
      /\ KernelOK(r, (out \cup {t}) \ {t})
  <2> HIDE DEF e, r
  <2>1. out \cup {t} \in SUBSET Thread
    OBVIOUS
  <2> DEFINE i == rt_schedule_insert_thread(e, t)
  <2>2. /\ i \in KState
        /\ i = [e EXCEPT !.stat = i.stat, !.ready = i.ready, !.group = i.group]
        /\ \A u \in Thread \ {t} : i.stat[u] = e.stat[u]
        /\ i.stat[t] = IF t = e.cur THEN "RUNNING" ELSE "READY"
        /\ KernelOK(i, (out \cup {t}) \ {t})
    BY <1>2, <1>3, <1>4, <2>1, InsertThread
  <2> HIDE DEF i
  <2> QED BY <1>5, <2>2 DEF i
<1>7. (out \cup {t}) \ {t} = out
  OBVIOUS
<1> HIDE DEF e, r
<1>8. r.cur = e.cur /\ r.lock = e.lock /\ r.prio = e.prio /\ r.timer = e.timer
  BY <1>2, <1>6 DEF KState
<1> QED BY <1>2, <1>6, <1>7, <1>8 DEF r

\* A thread that is not READY need not be in a ready list.
LEMMA NotQueued ==
    ASSUME NEW k \in KState, NEW out \in SUBSET Thread, NEW t \in Thread,
           KernelOK(k, out \cup {t}), k.stat[t] # "READY"
    PROVE  KernelOK(k, out)
  BY DEF KernelOK, ReadyListsOK

\* The bitmap leads rt_schedule to the first thread of the best ready list.
LEMMA HighestReady ==
    ASSUME NEW k \in KState, NEW out \in SUBSET Thread, KernelOK(k, out), k.group # {}
    PROVE  LET hp == HighestPriority(k)
               to == HighestThread(k)
           IN  /\ hp \in Prio
               /\ \A p \in k.group : hp <= p
               /\ to \in Thread /\ to \in ToSet(k.ready[hp])
               /\ k.stat[to] = "READY" /\ k.prio[to] = hp
<1> DEFINE hp == HighestPriority(k)
           to == HighestThread(k)
<1>1. k.group \in SUBSET Nat /\ k.group \subseteq Prio
  BY PrioMaxAssumption DEF KState, Prio
<1>2. hp \in k.group /\ \A p \in k.group : hp <= p
  BY <1>1, MinNat DEF HighestPriority
<1>3. hp \in Prio /\ k.ready[hp] # << >>
  BY <1>1, <1>2 DEF KernelOK, ReadyListsOK
<1>4. to \in ToSet(k.ready[hp]) /\ to \in Thread
  <2>1. KTyped(k)
    BY KTypes
  <2> QED BY <1>3, <2>1 DEF HighestThread, KTyped
<1>5. k.stat[to] = "READY" /\ k.prio[to] = hp
  BY <1>3, <1>4 DEF KernelOK, ReadyListsOK
<1> QED BY <1>2, <1>3, <1>4, <1>5

\* What rt_schedule leaves when it changes the current thread.
LEMMA Switch ==
    ASSUME NEW k \in KState, KernelOK(k, {}), k.group # {}, ~KeepsRunning(k)
    PROVE  LET r == SwitchTo(k, HighestThread(k))
           IN  /\ r \in KState
               /\ r.cur = HighestThread(k)
               /\ r.lock = k.lock /\ r.prio = k.prio /\ r.timer = k.timer
               /\ r.stat = [u \in Thread |-> IF u = HighestThread(k) THEN "RUNNING"
                                             ELSE IF k.stat[u] = "RUNNING" THEN "READY"
                                             ELSE k.stat[u]]
               /\ KernelOK(r, {})
<1> DEFINE from == k.cur
           to == HighestThread(k)
           running == k.stat[from] = "RUNNING"
           c == [k EXCEPT !.cur = to]
           y == [c EXCEPT !.yield = k.yield \ {from}]
           q == IF running THEN rt_schedule_insert_thread(y, from) ELSE c
           g == rt_schedule_remove_thread(q, to)
           r == SwitchTo(k, to)
           p0 == k.prio[from]
<1>0. KTyped(k)
  BY KTypes
<1>1. /\ from \in Thread /\ to \in Thread /\ to # from /\ p0 \in Prio
      /\ k.stat[to] = "READY" /\ to \in ToSet(k.ready[k.prio[to]]) /\ k.prio[to] \in Prio
      /\ running \/ k.stat[from] \in {"SUSPEND", "CLOSE"}
      /\ \A u \in Thread : k.stat[u] = "RUNNING" => u = from
  <2>1. /\ to \in Thread /\ k.stat[to] = "READY"
        /\ to \in ToSet(k.ready[k.prio[to]]) /\ k.prio[to] \in Prio
    BY HighestReady
  <2> HIDE DEF to
  <2> QED BY <1>0, <2>1 DEF KTyped, KernelOK, CurrentOK
<1> HIDE DEF to
<1>2. r = [g EXCEPT !.stat[to] = "RUNNING"]
  BY DEF SwitchTo
\* from, when it was RUNNING, is appended to its list.
<1>3. /\ q \in KState /\ ListsInjective(q)
      /\ q.cur = to /\ q.lock = k.lock /\ q.prio = k.prio /\ q.timer = k.timer
      /\ q.stat = [k.stat EXCEPT ![from] = IF running THEN "READY" ELSE @]
      /\ q.wait = k.wait /\ q.defunct = k.defunct
      /\ q.group = IF running THEN k.group \cup {p0} ELSE k.group
      /\ \A p \in Prio : ToSet(q.ready[p]) = IF running /\ p = p0
                                             THEN ToSet(k.ready[p]) \cup {from}
                                             ELSE ToSet(k.ready[p])
  <2>1. /\ IsInjective(k.ready[p0]) /\ k.ready[p0] \in Seq(Thread)
        /\ ListsInjective(k)
    BY <1>0, <1>1 DEF KTyped, KernelOK, ReadyListsOK, WaitListsOK, DefunctOK, ListsInjective
  <2>2. CASE running
    <3>1. from \notin ToSet(k.ready[p0])
      BY <1>1, <2>2 DEF KernelOK, ReadyListsOK
    <3>2. /\ Append(k.ready[p0], from) \in Seq(Thread)
          /\ IsInjective(Append(k.ready[p0], from))
          /\ ToSet(Append(k.ready[p0], from)) = ToSet(k.ready[p0]) \cup {from}
      BY <1>1, <2>1, <3>1, AppendFacts
    <3>3. q = [y EXCEPT !.stat[from] = "READY",
                        !.ready[p0] = Append(k.ready[p0], from),
                        !.group = k.group \cup {p0}]
      BY <1>1, <2>2 DEF rt_schedule_insert_thread, KState
    <3> HIDE DEF q
    <3>4. /\ q \in KState
          /\ q.cur = to /\ q.lock = k.lock /\ q.prio = k.prio /\ q.timer = k.timer
          /\ q.stat = [k.stat EXCEPT ![from] = "READY"]
          /\ q.wait = k.wait /\ q.defunct = k.defunct
          /\ q.group = k.group \cup {p0}
          /\ q.ready = [k.ready EXCEPT ![p0] = Append(k.ready[p0], from)]
      BY <1>1, <3>2, <3>3 DEF KState, Stat
    <3>5. \A p \in Prio : q.ready[p] = IF p = p0 THEN Append(k.ready[p0], from) ELSE k.ready[p]
      BY <1>1, <3>4 DEF KState
    <3> QED BY <2>1, <2>2, <3>2, <3>4, <3>5 DEF ListsInjective
  <2>3. CASE ~running
    BY <1>1, <2>1, <2>3 DEF KState, ListsInjective
  <2> QED BY <2>2, <2>3
<1> DEFINE l == rt_list_remove(q, to)
<1>4. /\ l \in KState
      /\ l = [q EXCEPT !.ready = l.ready, !.wait = l.wait, !.defunct = l.defunct]
      /\ ListsInjective(l)
      /\ \A p \in Prio : ToSet(l.ready[p]) = ToSet(q.ready[p]) \ {to}
      /\ \A o \in Obj : ToSet(l.wait[o]) = ToSet(q.wait[o]) \ {to}
      /\ ToSet(l.defunct) = ToSet(q.defunct) \ {to}
  <2> HIDE DEF q
  <2> QED BY <1>1, <1>3, ListRemove
<1> HIDE DEF q
<1>5. g = IF l.ready[l.prio[to]] = << >> THEN [l EXCEPT !.group = l.group \ {l.prio[to]}] ELSE l
  BY DEF rt_schedule_remove_thread
<1> HIDE DEF l, g, r
<1>6. /\ l.cur = to /\ l.lock = k.lock /\ l.prio = k.prio /\ l.timer = k.timer
      /\ l.stat = q.stat /\ l.group = q.group
  BY <1>3, <1>4 DEF KState
<1>7. /\ r \in KState
      /\ r.cur = to /\ r.lock = k.lock /\ r.prio = k.prio /\ r.timer = k.timer
      /\ r.stat = [q.stat EXCEPT ![to] = "RUNNING"]
      /\ r.ready = l.ready /\ r.wait = l.wait /\ r.defunct = l.defunct
      /\ r.group = IF l.ready[k.prio[to]] = << >> THEN q.group \ {k.prio[to]} ELSE q.group
  BY ZenonT(40), <1>1, <1>2, <1>4, <1>5, <1>6 DEF KState, Stat
<1>8. \A u \in Thread : r.stat[u] = IF u = to THEN "RUNNING"
                                    ELSE IF k.stat[u] = "RUNNING" THEN "READY"
                                    ELSE k.stat[u]
  BY <1>0, <1>1, <1>3, <1>7 DEF KTyped
<1>9. r.stat = [u \in Thread |-> IF u = to THEN "RUNNING"
                                ELSE IF k.stat[u] = "RUNNING" THEN "READY"
                                ELSE k.stat[u]]
  BY <1>7, <1>8 DEF KState
<1>10. ReadyListsOK(r, {})
  <2>1. \A p \in Prio : /\ (k.ready[p] = << >>) <=> (ToSet(k.ready[p]) = {})
                        /\ (l.ready[p] = << >>) <=> (ToSet(l.ready[p]) = {})
    <3>1. KTyped(l)
      BY <1>4, KTypes
    <3> QED BY <1>0, <3>1 DEF KTyped
  <2>2. ASSUME NEW p \in Prio PROVE p \in r.group <=> l.ready[p] # << >>
    <3>1. p \in k.group <=> ToSet(k.ready[p]) # {}
      BY <2>1 DEF KernelOK, ReadyListsOK
    <3>2. p \in q.group <=> ToSet(q.ready[p]) # {}
      BY <1>3, <3>1
    <3>3. CASE p = k.prio[to]
      <4>1. to \in ToSet(q.ready[p])
        BY <1>1, <1>3, <3>3
      <4> QED BY <1>7, <3>2, <3>3, <4>1
    <3>4. CASE p # k.prio[to]
      <4>1. to \notin ToSet(k.ready[p])
        BY <3>4 DEF KernelOK, ReadyListsOK
      <4>2. to \notin ToSet(q.ready[p])
        BY <1>1, <1>3, <4>1
      <4>3. ToSet(l.ready[p]) = ToSet(q.ready[p])
        <5>1. ToSet(l.ready[p]) = ToSet(q.ready[p]) \ {to}
          BY <1>4
        <5> QED BY <4>2, <5>1
      <4> QED BY <1>7, <2>1, <3>2, <3>4, <4>3
    <3> QED BY <3>3, <3>4
  <2>3. r.group = {p \in Prio : r.ready[p] # << >>}
    <3>1. r.group \subseteq Prio
      BY <1>7 DEF KState
    <3> QED BY <1>7, <2>2, <3>1
  <2>4. ASSUME NEW p \in Prio, NEW u \in ToSet(r.ready[p])
        PROVE  r.stat[u] = "READY" /\ r.prio[u] = p
    <3>1. u # to /\ u \in ToSet(q.ready[p])
      BY <1>4, <1>7
    <3>2. CASE u \in ToSet(k.ready[p])
      <4>1. k.stat[u] = "READY" /\ k.prio[u] = p /\ u \in Thread
        BY <1>0, <3>2 DEF KernelOK, ReadyListsOK, KTyped
      <4> QED BY <1>7, <1>8, <3>1, <4>1
    <3>3. CASE u \notin ToSet(k.ready[p])
      <4>1. running /\ p = p0 /\ u = from
        BY <1>3, <3>1, <3>3
      <4> QED BY <1>1, <1>7, <1>8, <3>1, <4>1
    <3> QED BY <3>2, <3>3
  <2>5. ASSUME NEW u \in Thread, r.stat[u] = "READY"
        PROVE  u \in ToSet(r.ready[r.prio[u]])
    <3>1. u # to /\ k.stat[u] \in {"RUNNING", "READY"} /\ k.prio[u] \in Prio
      BY <1>0, <1>8, <2>5 DEF KTyped
    <3>2. u \in ToSet(q.ready[k.prio[u]])
      <4>1. CASE k.stat[u] = "READY"
        <5>1. u \in ToSet(k.ready[k.prio[u]])
          BY <4>1 DEF KernelOK, ReadyListsOK
        <5> QED BY <1>3, <3>1, <5>1
      <4>2. CASE k.stat[u] = "RUNNING"
        BY <1>1, <1>3, <4>2
      <4> QED BY <3>1, <4>1, <4>2
    <3> QED BY <1>4, <1>7, <3>1, <3>2
  <2>6. \A p \in Prio : IsInjective(r.ready[p])
    BY <1>4, <1>7 DEF ListsInjective
  <2> QED BY <2>3, <2>4, <2>5, <2>6 DEF ReadyListsOK
<1>11. WaitListsOK(r)
  <2>1. \A o \in Obj : IsInjective(r.wait[o]) /\ ToSet(r.wait[o]) \subseteq ToSet(k.wait[o])
    BY <1>3, <1>4, <1>7 DEF ListsInjective
  <2>2. ASSUME NEW o \in Obj, NEW u \in ToSet(r.wait[o])
        PROVE  r.stat[u] = "SUSPEND" /\ \A j \in Obj \ {o} : u \notin ToSet(r.wait[j])
    <3>1. u \in ToSet(k.wait[o]) /\ u \in Thread
      BY <1>0, <2>1 DEF KTyped
    <3>2. k.stat[u] = "SUSPEND" /\ \A j \in Obj \ {o} : u \notin ToSet(k.wait[j])
      BY <3>1 DEF KernelOK, WaitListsOK
    <3>3. r.stat[u] = "SUSPEND"
      BY <1>1, <1>8, <3>1, <3>2
    <3> QED BY <2>1, <3>2, <3>3
  <2> QED BY <2>1, <2>2 DEF WaitListsOK
<1>12. DefunctOK(r)
  <2>1. ToSet(k.defunct) = {u \in Thread : k.stat[u] = "CLOSE"}
    BY DEF KernelOK, DefunctOK
  <2>2. ToSet(r.defunct) = ToSet(k.defunct)
    BY <1>1, <1>3, <1>4, <1>7, <2>1
  <2>3. \A u \in Thread : r.stat[u] = "CLOSE" <=> k.stat[u] = "CLOSE"
    BY <1>1, <1>8
  <2>4. IsInjective(r.defunct)
    BY <1>4, <1>7 DEF ListsInjective
  <2> QED BY <2>1, <2>2, <2>3, <2>4 DEF DefunctOK
<1>13. CurrentOK(r)
  BY <1>1, <1>7, <1>8 DEF CurrentOK
<1>14. TimersOK(r)
  <2>1. \A u \in k.timer : u \in Thread /\ k.stat[u] = "SUSPEND"
    BY <1>0 DEF KTyped, KernelOK, TimersOK
  <2> QED BY <1>1, <1>7, <1>8, <2>1 DEF TimersOK
<1>15. IdleOK(r)
  BY <1>1, <1>7, <1>8, IdleAssumption DEF KernelOK, IdleOK
<1> QED BY <1>7, <1>9, <1>10, <1>11, <1>12, <1>13, <1>14, <1>15 DEF r, to, KernelOK

\* rt_schedule: consistency is kept, blocked threads stay blocked, and with the
\* scheduler unlocked the best thread runs afterwards.
LEMMA ScheduleOK ==
    ASSUME NEW k \in KState, NEW out \in SUBSET Thread, KernelOK(k, out),
           k.lock = 0 => out = {}
    PROVE  LET r == rt_schedule(k)
           IN  /\ r \in KState
               /\ KernelOK(r, out)
               /\ r.lock = k.lock /\ r.prio = k.prio /\ r.timer = k.timer
               /\ k.lock # 0 => r = k
               /\ k.lock = 0 => HighestPriorityRuns(r)
               /\ \A u \in Thread :
                     IF k.stat[u] \in {"READY", "RUNNING"}
                     THEN r.stat[u] \in {"READY", "RUNNING"}
                     ELSE r.stat[u] = k.stat[u]
<1> DEFINE r == rt_schedule(k)
<1>0. KTyped(k)
  BY KTypes
<1>1. CASE k.lock # 0
  BY <1>1 DEF rt_schedule
<1>2. CASE k.lock = 0 /\ k.group = {}
  <2>1. r = k
    BY <1>2 DEF rt_schedule
  <2>2. \A u \in Thread : k.stat[u] # "READY"
    <3> SUFFICES ASSUME NEW u \in Thread, k.stat[u] = "READY" PROVE FALSE
      OBVIOUS
    <3>1. u \in ToSet(k.ready[k.prio[u]]) /\ k.prio[u] \in Prio
      BY <1>0, <1>2 DEF KernelOK, ReadyListsOK, KTyped
    <3>2. k.ready[k.prio[u]] # << >>
      BY <1>0, <3>1 DEF KTyped
    <3> QED BY <1>2, <3>1, <3>2 DEF KernelOK, ReadyListsOK
  <2>3. k.stat[k.cur] = "RUNNING"
    BY <2>2, IdleAssumption DEF KernelOK, IdleOK, CurrentOK
  <2> QED BY <1>2, <2>1, <2>2, <2>3 DEF HighestPriorityRuns
<1>3. CASE k.lock = 0 /\ k.group # {}
  <2> DEFINE hp == HighestPriority(k)
  <2>0. KernelOK(k, {}) /\ out = {}
    BY <1>3
  <2>1. hp \in Prio /\ \A p \in k.group : hp <= p
    BY <1>3, HighestReady
  <2>2. \A u \in Thread : k.stat[u] = "READY" => k.prio[u] \in k.group
    <3> SUFFICES ASSUME NEW u \in Thread, k.stat[u] = "READY" PROVE k.prio[u] \in k.group
      OBVIOUS
    <3>1. u \in ToSet(k.ready[k.prio[u]]) /\ k.prio[u] \in Prio
      BY <1>0, <2>0 DEF KernelOK, ReadyListsOK, KTyped
    <3>2. k.ready[k.prio[u]] # << >>
      BY <1>0, <3>1 DEF KTyped
    <3> QED BY <3>1, <3>2 DEF KernelOK, ReadyListsOK
  <2>3. CASE KeepsRunning(k)
    <3> DEFINE y == [k EXCEPT !.yield = k.yield \ {k.cur}]
    <3>1. r = rt_schedule_remove_thread(y, k.cur)
      BY <1>3, <2>3 DEF rt_schedule
    <3>2. /\ y \in KState
          /\ y.cur = k.cur /\ y.stat = k.stat /\ y.prio = k.prio /\ y.lock = k.lock
          /\ y.ready = k.ready /\ y.group = k.group /\ y.wait = k.wait
          /\ y.defunct = k.defunct /\ y.timer = k.timer
      BY DEF KState
    <3> HIDE DEF y
    <3>3. KernelOK(y, {})
      BY <2>0, <3>2, Irrelevant
    <3>4. k.stat[k.cur] = "RUNNING" /\ k.cur \in Thread
      BY <1>0, <2>3 DEF KeepsRunning, KTyped
    <3> DEFINE d == rt_schedule_remove_thread(y, k.cur)
    <3>5. /\ d \in KState
          /\ d = [y EXCEPT !.ready = d.ready, !.wait = d.wait,
                           !.defunct = d.defunct, !.group = d.group]
          /\ KernelOK(d, {} \cup {k.cur})
      BY <3>2, <3>3, <3>4, RemoveThread
    <3> HIDE DEF d
    <3>6. /\ d.stat = k.stat /\ d.prio = k.prio /\ d.timer = k.timer
          /\ d.lock = k.lock /\ d.cur = k.cur
      BY ZenonT(40), <3>2, <3>5 DEF KState
    <3>7. KernelOK(d, {})
      BY <3>4, <3>5, <3>6, NotQueued
    <3>8. HighestPriorityRuns(d)
      <4> SUFFICES ASSUME NEW u \in Thread, k.stat[u] = "READY"
                   PROVE  k.prio[k.cur] <= k.prio[u]
        BY <3>4, <3>6 DEF HighestPriorityRuns
      <4>1. hp <= k.prio[u]
        BY <2>1, <2>2
      <4>2. k.prio[k.cur] <= hp
        BY <1>0, <2>1, <2>3, <3>4, PrioMaxAssumption DEF KeepsRunning, KTyped, Prio
      <4>3. k.prio[k.cur] \in Nat /\ hp \in Nat /\ k.prio[u] \in Nat
        BY <1>0, <2>1, <3>4, PrioMaxAssumption DEF KTyped, Prio
      <4> HIDE DEF hp
      <4> QED BY <4>1, <4>2, <4>3
    <3>9. r = d
      BY <3>1 DEF d
    <3> QED BY <1>3, <2>0, <3>5, <3>6, <3>7, <3>8, <3>9
  <2>4. CASE ~KeepsRunning(k)
    <3> DEFINE to == HighestThread(k)
               w == SwitchTo(k, to)
    <3>1. r = w
      BY <1>3, <2>4 DEF rt_schedule
    <3>2. /\ w \in KState
          /\ w.cur = to
          /\ w.lock = k.lock /\ w.prio = k.prio /\ w.timer = k.timer
          /\ w.stat = [u \in Thread |-> IF u = to THEN "RUNNING"
                                        ELSE IF k.stat[u] = "RUNNING" THEN "READY"
                                        ELSE k.stat[u]]
          /\ KernelOK(w, {})
      BY <1>3, <2>0, <2>4, Switch
    <3>3. to \in Thread /\ k.stat[to] = "READY" /\ k.prio[to] = hp
      BY <1>3, <2>0, HighestReady
    <3> HIDE DEF w, to
    <3>4. HighestPriorityRuns(w)
      <4>1. w.stat[to] = "RUNNING"
        BY <3>2, <3>3
      <4>2. ASSUME NEW u \in Thread, w.stat[u] = "READY" PROVE hp <= k.prio[u]
        <5>1. k.stat[u] \in {"RUNNING", "READY"}
          BY <3>2, <4>2
        <5>2. CASE k.stat[u] = "READY"
          BY <2>1, <2>2, <5>2
        <5>3. CASE k.stat[u] = "RUNNING"
          <6>1. u = k.cur
            BY <2>0, <5>3 DEF KernelOK, CurrentOK
          <6>2. ~(k.prio[u] < hp)
            BY <2>4, <5>3, <6>1 DEF KeepsRunning
          <6>3. k.prio[u] \in Nat /\ hp \in Nat
            BY <1>0, <2>1, PrioMaxAssumption DEF KTyped, Prio
          <6> HIDE DEF hp
          <6> QED BY <6>2, <6>3
        <5> QED BY <5>1, <5>2, <5>3
      <4> HIDE DEF hp
      <4> QED BY <3>2, <3>3, <4>1, <4>2 DEF HighestPriorityRuns
    <3>5. \A u \in Thread : IF k.stat[u] \in {"READY", "RUNNING"}
                            THEN w.stat[u] \in {"READY", "RUNNING"}
                            ELSE w.stat[u] = k.stat[u]
      BY <3>2, <3>3
    <3> HIDE DEF r
    <3> QED BY <1>3, <2>0, <3>1, <3>2, <3>4, <3>5 DEF r
  <2> QED BY <2>3, <2>4
<1> QED BY <1>0, <1>1, <1>2, <1>3 DEF KTyped

-----------------------------------------------------------------------------
(* The thread operators *)

\* A step that only changes the stat of a thread on no list.
LEMMA StatOnly ==
    ASSUME NEW k \in KState, NEW out \in SUBSET Thread, KernelOK(k, out),
           NEW t \in Thread \ {Idle}, InNoList(k, t), t \notin k.timer,
           NEW x \in Stat \ {"READY", "CLOSE"},
           IF t = k.cur THEN x \in {"RUNNING", "SUSPEND"} ELSE x # "RUNNING"
    PROVE  LET r == [k EXCEPT !.stat[t] = x]
           IN  r \in KState /\ KernelOK(r, out)
<1> DEFINE r == [k EXCEPT !.stat[t] = x]
<1>K. KTyped(k)
  BY KTypes
<1>T. /\ \A p \in Prio : ToSet(k.ready[p]) \subseteq Thread
      /\ \A o \in Obj : ToSet(k.wait[o]) \subseteq Thread
      /\ ToSet(k.defunct) \subseteq Thread /\ k.cur \in Thread /\ k.timer \subseteq Thread
  BY <1>K DEF KTyped
<1>1. /\ r \in KState
      /\ r.cur = k.cur /\ r.prio = k.prio /\ r.ready = k.ready /\ r.group = k.group
      /\ r.wait = k.wait /\ r.defunct = k.defunct /\ r.timer = k.timer
      /\ \A u \in Thread : r.stat[u] = IF u = t THEN x ELSE k.stat[u]
  BY DEF KState
<1> HIDE DEF r
<1>2. ReadyListsOK(r, out)
  BY <1>T, <1>1 DEF KernelOK, ReadyListsOK, InNoList
<1>3. WaitListsOK(r)
  BY <1>T, <1>1 DEF KernelOK, WaitListsOK, InNoList
<1>4. DefunctOK(r)
  BY <1>T, <1>1 DEF KernelOK, DefunctOK, InNoList
<1>5. CurrentOK(r) /\ TimersOK(r) /\ IdleOK(r)
  BY <1>T, <1>1, IdleAssumption DEF KernelOK, CurrentOK, TimersOK, IdleOK
<1>6. \A u \in out : InNoList(r, u)
  BY <1>1 DEF KernelOK, InNoList
<1> QED BY <1>1, <1>2, <1>3, <1>4, <1>5, <1>6 DEF r, KernelOK

\* rt_thread_suspend of the current thread.
LEMMA SuspendThread ==
    ASSUME NEW k \in KState, KernelOK(k, {}), k.cur # Idle, k.stat[k.cur] # "CLOSE"
    PROVE  LET r == rt_thread_suspend(k, k.cur)
           IN  /\ r \in KState
               /\ KernelOK(r, {})
               /\ r.cur = k.cur /\ r.lock = k.lock /\ r.prio = k.prio
               /\ \A u \in Thread \ {k.cur} : r.stat[u] = k.stat[u]
               /\ r.stat[k.cur] = "SUSPEND"
               /\ k.stat[k.cur] = "RUNNING" => InNoList(r, k.cur) /\ r.timer = k.timer \ {k.cur}
<1> DEFINE t == k.cur
           r == rt_thread_suspend(k, t)
<1>K. KTyped(k)
  BY KTypes
<1>0. t \in Thread \ {Idle} /\ k.stat[t] \in {"RUNNING", "SUSPEND"}
  BY <1>K DEF KTyped, KernelOK, CurrentOK
<1>1. CASE k.stat[t] = "SUSPEND"
  BY <1>1 DEF rt_thread_suspend
<1>2. CASE k.stat[t] = "RUNNING"
  <2> DEFINE d == rt_schedule_remove_thread(k, t)
             e == [d EXCEPT !.timer = k.timer \ {t}]
             f == [e EXCEPT !.stat[t] = "SUSPEND"]
  <2>1. /\ d \in KState
        /\ d = [k EXCEPT !.ready = d.ready, !.wait = d.wait,
                         !.defunct = d.defunct, !.group = d.group]
        /\ KernelOK(d, {} \cup {t})
    BY <1>0, <1>2, RemoveThread
  <2>2. r = [d EXCEPT !.stat[t] = "SUSPEND", !.timer = d.timer \ {t}]
    BY <1>2 DEF rt_thread_suspend
  <2> HIDE DEF d, r
  <2>3. /\ e \in KState
        /\ e.cur = d.cur /\ e.stat = d.stat /\ e.prio = d.prio /\ e.lock = d.lock
        /\ e.ready = d.ready /\ e.group = d.group /\ e.wait = d.wait
        /\ e.defunct = d.defunct /\ e.timer = k.timer \ {t} /\ e.timer \subseteq d.timer
        /\ d.cur = k.cur /\ d.stat = k.stat /\ d.prio = k.prio /\ d.lock = k.lock
        /\ r = f
    BY <2>1, <2>2 DEF KState
  <2> HIDE DEF e
  <2>4. KernelOK(e, {} \cup {t})
    <3>1. {} \cup {t} \in SUBSET Thread
      BY <1>0
    <3> QED BY <2>1, <2>3, <3>1, Irrelevant
  <2>5. InNoList(e, t)
    BY <2>4 DEF KernelOK
  <2>6. KernelOK(e, {})
    BY <1>0, <1>2, <2>3, <2>4, NotQueued
  <2>7. f \in KState /\ KernelOK(f, {})
    <3>1. "SUSPEND" \in Stat \ {"READY", "CLOSE"}
      BY DEF Stat
    <3> QED BY <1>0, <2>3, <2>5, <2>6, <3>1, StatOnly
  <2>8. /\ f.cur = k.cur /\ f.lock = k.lock /\ f.prio = k.prio /\ f.timer = k.timer \ {t}
        /\ f.stat = [k.stat EXCEPT ![t] = "SUSPEND"]
        /\ f.ready = e.ready /\ f.wait = e.wait /\ f.defunct = e.defunct
    BY <1>0, <2>3 DEF KState
  <2> HIDE DEF f
  <2>9. InNoList(f, t)
    BY <2>5, <2>8 DEF InNoList
  <2>10. f.stat[t] = "SUSPEND" /\ \A u \in Thread \ {t} : f.stat[u] = k.stat[u]
    BY <1>0, <1>K, <2>8 DEF KTyped
  <2> QED BY <2>3, <2>7, <2>8, <2>9, <2>10 DEF r
<1> QED BY <1>0, <1>1, <1>2

\* The closing region of _thread_exit, rt_thread_delete and rt_thread_detach.
LEMMA CloseThreadOK ==
    ASSUME NEW k \in KState, NEW t \in Thread \ {Idle}, KernelOK(k, {t})
    PROVE  LET r == CloseThread(k, t)
           IN  /\ r \in KState
               /\ KernelOK(r, {})
               /\ r.cur = k.cur /\ r.lock = k.lock
               /\ r.stat = [k.stat EXCEPT ![t] = "CLOSE"]
<1> DEFINE r == CloseThread(k, t)
           f == <<t>> \o k.defunct
<1>K. KTyped(k)
  BY KTypes
<1>T. /\ \A p \in Prio : ToSet(k.ready[p]) \subseteq Thread
      /\ \A o \in Obj : ToSet(k.wait[o]) \subseteq Thread
      /\ ToSet(k.defunct) \subseteq Thread /\ k.cur \in Thread /\ k.timer \subseteq Thread
  BY <1>K DEF KTyped
<1>0. InNoList(k, t)
  BY DEF KernelOK
<1>1. f \in Seq(Thread) /\ IsInjective(f) /\ ToSet(f) = ToSet(k.defunct) \cup {t}
  <2>1. k.defunct \in Seq(Thread) /\ IsInjective(k.defunct) /\ t \notin ToSet(k.defunct)
    BY <1>0, <1>K DEF KTyped, KernelOK, DefunctOK, InNoList
  <2> QED BY <2>1, PrependFacts
<1>2. r = [k EXCEPT !.timer = k.timer \ {t}, !.stat[t] = "CLOSE",
                    !.yield = k.yield \ {t}, !.defunct = f]
  BY DEF CloseThread
<1> HIDE DEF r, f
<1>3. /\ r \in KState
      /\ r.cur = k.cur /\ r.prio = k.prio /\ r.ready = k.ready /\ r.group = k.group
      /\ r.wait = k.wait /\ r.defunct = f /\ r.timer = k.timer \ {t} /\ r.lock = k.lock
      /\ r.stat = [k.stat EXCEPT ![t] = "CLOSE"]
  BY <1>1, <1>2 DEF KState, Stat
<1>4. \A u \in Thread : r.stat[u] = IF u = t THEN "CLOSE" ELSE k.stat[u]
  BY <1>3, <1>K DEF KTyped
<1>5. ReadyListsOK(r, {})
  BY <1>T, <1>0, <1>3, <1>4 DEF KernelOK, ReadyListsOK, InNoList
<1>6. WaitListsOK(r)
  BY <1>T, <1>0, <1>3, <1>4 DEF KernelOK, WaitListsOK, InNoList
<1>7. DefunctOK(r)
  <2>1. ToSet(k.defunct) = {u \in Thread : k.stat[u] = "CLOSE"}
    BY DEF KernelOK, DefunctOK
  <2> QED BY <1>1, <1>3, <1>4, <2>1 DEF DefunctOK
<1>8. CurrentOK(r) /\ TimersOK(r) /\ IdleOK(r)
  BY <1>T, <1>3, <1>4, IdleAssumption DEF KernelOK, CurrentOK, TimersOK, IdleOK
<1> QED BY <1>3, <1>5, <1>6, <1>7, <1>8 DEF r, KernelOK

\* rt_defunct_execute frees the first thread of the defunct list.
LEMMA FreeThread ==
    ASSUME NEW k \in KState, KernelOK(k, {}), k.cur = Idle, k.defunct # << >>
    PROVE  LET t == Head(k.defunct)
               r == [_thread_init(rt_list_remove(k, t), t, PrioMax - 1) EXCEPT !.stat[t] = "FREE"]
           IN  /\ t \in Thread /\ k.stat[t] = "CLOSE"
               /\ r \in KState
               /\ KernelOK(r, {})
               /\ r.cur = k.cur /\ r.lock = k.lock
               /\ r.stat = [k.stat EXCEPT ![t] = "FREE"]
<1> DEFINE t == Head(k.defunct)
           l == rt_list_remove(k, t)
           r == [_thread_init(l, t, PrioMax - 1) EXCEPT !.stat[t] = "FREE"]
<1>K. KTyped(k)
  BY KTypes
<1>T. /\ \A p \in Prio : ToSet(k.ready[p]) \subseteq Thread
      /\ \A o \in Obj : ToSet(k.wait[o]) \subseteq Thread
      /\ ToSet(k.defunct) \subseteq Thread /\ k.cur \in Thread /\ k.timer \subseteq Thread
  BY <1>K DEF KTyped
<1>0. t \in Thread /\ k.stat[t] = "CLOSE" /\ t # k.cur /\ t # Idle /\ t \notin k.timer
  <2>1. t \in ToSet(k.defunct)
    BY <1>K DEF KTyped
  <2> HIDE DEF t
  <2>2. t \in Thread /\ k.stat[t] = "CLOSE"
    BY <2>1 DEF KernelOK, DefunctOK
  <2> QED BY <2>2 DEF KernelOK, IdleOK, TimersOK
<1> HIDE DEF t
<1>1. ListsInjective(k)
  BY DEF KernelOK, ReadyListsOK, WaitListsOK, DefunctOK, ListsInjective
<1>2. /\ l \in KState
      /\ l = [k EXCEPT !.ready = l.ready, !.wait = l.wait, !.defunct = l.defunct]
      /\ ListsInjective(l)
      /\ \A p \in Prio : ToSet(l.ready[p]) = ToSet(k.ready[p]) \ {t}
      /\ \A o \in Obj : ToSet(l.wait[o]) = ToSet(k.wait[o]) \ {t}
      /\ ToSet(l.defunct) = ToSet(k.defunct) \ {t}
  BY <1>0, <1>1, ListRemove
<1> HIDE DEF l
<1>3. /\ r \in KState
      /\ r.cur = k.cur /\ r.lock = k.lock /\ r.timer = k.timer \ {t} /\ r.group = k.group
      /\ r.stat = [k.stat EXCEPT ![t] = "FREE"]
      /\ r.prio = [k.prio EXCEPT ![t] = PrioMax - 1]
      /\ r.ready = l.ready /\ r.wait = l.wait /\ r.defunct = l.defunct
  <2>1. InitTick \in 1 .. InitTick /\ PrioMax - 1 \in Prio
    BY InitTickAssumption, PrioMaxAssumption DEF Prio
  <2> QED BY <1>0, <1>2, <2>1 DEF _thread_init, KState, Stat, Err
<1> HIDE DEF r
<1>4. \A u \in Thread : /\ r.stat[u] = IF u = t THEN "FREE" ELSE k.stat[u]
                        /\ u # t => r.prio[u] = k.prio[u]
  BY <1>K, <1>3 DEF KTyped
<1>5. ReadyListsOK(r, {})
  <2>1. \A p \in Prio : t \notin ToSet(k.ready[p])
    BY <1>0 DEF KernelOK, ReadyListsOK
  <2>2. ASSUME NEW p \in Prio PROVE ToSet(l.ready[p]) = ToSet(k.ready[p])
    <3>1. ToSet(l.ready[p]) = ToSet(k.ready[p]) \ {t} /\ t \notin ToSet(k.ready[p])
      BY <1>2, <2>1
    <3> QED BY <3>1
  <2>3. \A p \in Prio : /\ (k.ready[p] = << >>) <=> (ToSet(k.ready[p]) = {})
                        /\ (l.ready[p] = << >>) <=> (ToSet(l.ready[p]) = {})
    <3>1. KTyped(l)
      BY <1>2, KTypes
    <3> QED BY <1>K, <3>1 DEF KTyped
  <2>4. r.group = {p \in Prio : r.ready[p] # << >>}
    <3>1. k.group = {p \in Prio : k.ready[p] # << >>}
      BY DEF KernelOK, ReadyListsOK
    <3>2. \A p \in Prio : k.ready[p] = << >> <=> r.ready[p] = << >>
      BY <1>3, <2>2, <2>3
    <3> QED BY <1>3, <3>1, <3>2
  <2>5. ASSUME NEW p \in Prio, NEW u \in ToSet(r.ready[p])
        PROVE  r.stat[u] = "READY" /\ r.prio[u] = p
    <3>1. u \in ToSet(k.ready[p]) /\ u # t /\ u \in Thread
      BY <1>T, <1>3, <2>1, <2>2
    <3> QED BY <1>4, <3>1 DEF KernelOK, ReadyListsOK
  <2>6. ASSUME NEW u \in Thread, r.stat[u] = "READY" PROVE u \in ToSet(r.ready[r.prio[u]])
    <3>1. k.stat[u] = "READY" /\ u # t /\ k.prio[u] \in Prio /\ r.prio[u] = k.prio[u]
      BY <1>4, <1>K, <2>6 DEF KTyped
    <3>2. u \in ToSet(k.ready[k.prio[u]])
      BY <3>1 DEF KernelOK, ReadyListsOK
    <3> QED BY <1>3, <2>2, <3>1, <3>2
  <2>7. \A p \in Prio : IsInjective(r.ready[p])
    BY <1>2, <1>3 DEF ListsInjective
  <2> QED BY <2>4, <2>5, <2>6, <2>7 DEF ReadyListsOK
<1>6. WaitListsOK(r)
  <2>1. \A o \in Obj : IsInjective(r.wait[o]) /\ ToSet(r.wait[o]) = ToSet(k.wait[o]) \ {t}
    BY <1>2, <1>3 DEF ListsInjective
  <2>2. ASSUME NEW o \in Obj, NEW u \in ToSet(r.wait[o])
        PROVE  r.stat[u] = "SUSPEND" /\ \A j \in Obj \ {o} : u \notin ToSet(r.wait[j])
    <3>1. u \in ToSet(k.wait[o]) /\ u # t /\ u \in Thread
      BY <1>T, <2>1
    <3>2. k.stat[u] = "SUSPEND" /\ \A j \in Obj \ {o} : u \notin ToSet(k.wait[j])
      BY <3>1 DEF KernelOK, WaitListsOK
    <3> QED BY <1>4, <2>1, <3>1, <3>2
  <2> QED BY <2>1, <2>2 DEF WaitListsOK
<1>7. DefunctOK(r)
  <2>1. ToSet(k.defunct) = {u \in Thread : k.stat[u] = "CLOSE"}
    BY DEF KernelOK, DefunctOK
  <2>2. IsInjective(r.defunct) /\ ToSet(r.defunct) = ToSet(k.defunct) \ {t}
    BY <1>2, <1>3 DEF ListsInjective
  <2> QED BY <1>4, <2>1, <2>2 DEF DefunctOK
<1>8. CurrentOK(r) /\ TimersOK(r) /\ IdleOK(r)
  BY <1>T, <1>0, <1>3, <1>4, IdleAssumption DEF KernelOK, CurrentOK, TimersOK, IdleOK
<1> QED BY <1>0, <1>3, <1>5, <1>6, <1>7, <1>8 DEF r, l, t, KernelOK

\* _thread_init of a control block that is in use by nobody.
LEMMA ThreadInit ==
    ASSUME NEW k \in KState, KernelOK(k, {}), NEW t \in Thread, NEW p \in Prio,
           k.stat[t] = "FREE"
    PROVE  LET r == _thread_init(k, t, p)
           IN  /\ r \in KState
               /\ KernelOK(r, {})
               /\ r.cur = k.cur /\ r.lock = k.lock
               /\ r.stat = [k.stat EXCEPT ![t] = "INIT"]
<1> DEFINE r == _thread_init(k, t, p)
<1>K. KTyped(k)
  BY KTypes
<1>T. /\ \A q \in Prio : ToSet(k.ready[q]) \subseteq Thread
      /\ \A o \in Obj : ToSet(k.wait[o]) \subseteq Thread
      /\ ToSet(k.defunct) \subseteq Thread /\ k.cur \in Thread /\ k.timer \subseteq Thread
  BY <1>K DEF KTyped
<1>0. t # k.cur /\ t # Idle /\ InNoList(k, t) /\ t \notin k.timer
  BY DEF KernelOK, CurrentOK, IdleOK, TimersOK, InNoList, ReadyListsOK, WaitListsOK, DefunctOK
<1>1. /\ r \in KState
      /\ r.cur = k.cur /\ r.lock = k.lock /\ r.timer = k.timer \ {t} /\ r.group = k.group
      /\ r.stat = [k.stat EXCEPT ![t] = "INIT"]
      /\ r.prio = [k.prio EXCEPT ![t] = p]
      /\ r.ready = k.ready /\ r.wait = k.wait /\ r.defunct = k.defunct
  <2>1. InitTick \in 1 .. InitTick
    BY InitTickAssumption
  <2> QED BY <2>1 DEF _thread_init, KState, Stat, Err
<1> HIDE DEF r
<1>2. \A u \in Thread : /\ r.stat[u] = IF u = t THEN "INIT" ELSE k.stat[u]
                        /\ u # t => r.prio[u] = k.prio[u]
  BY <1>K, <1>1 DEF KTyped
<1>3. ReadyListsOK(r, {})
  BY <1>T, <1>0, <1>1, <1>2 DEF KernelOK, ReadyListsOK, InNoList
<1>4. WaitListsOK(r)
  BY <1>T, <1>0, <1>1, <1>2 DEF KernelOK, WaitListsOK, InNoList
<1>5. DefunctOK(r)
  BY <1>T, <1>0, <1>1, <1>2 DEF KernelOK, DefunctOK, InNoList
<1>6. CurrentOK(r) /\ TimersOK(r) /\ IdleOK(r)
  BY <1>T, <1>0, <1>1, <1>2, IdleAssumption DEF KernelOK, CurrentOK, TimersOK, IdleOK
<1> QED BY <1>1, <1>3, <1>4, <1>5, <1>6 DEF r, KernelOK

\* RT_THREAD_CTRL_CHANGE_PRIORITY of any thread but the idle thread.
LEMMA ChangePriorityOK ==
    ASSUME NEW k \in KState, KernelOK(k, {}), NEW t \in Thread \ {Idle}, NEW p \in Prio
    PROVE  LET r == ChangePriority(k, t, p)
           IN  /\ r \in KState
               /\ KernelOK(r, {})
               /\ r.cur = k.cur /\ r.lock = k.lock /\ r.timer = k.timer
               /\ r.stat = k.stat
<1> DEFINE r == ChangePriority(k, t, p)
<1>K. KTyped(k)
  BY KTypes
<1>T. /\ \A q \in Prio : ToSet(k.ready[q]) \subseteq Thread
      /\ \A o \in Obj : ToSet(k.wait[o]) \subseteq Thread
      /\ ToSet(k.defunct) \subseteq Thread /\ k.cur \in Thread /\ k.timer \subseteq Thread
  BY <1>K DEF KTyped
<1>1. CASE k.stat[t] # "READY"
  <2>1. /\ r \in KState
        /\ r.cur = k.cur /\ r.lock = k.lock /\ r.timer = k.timer /\ r.group = k.group
        /\ r.stat = k.stat
        /\ r.ready = k.ready /\ r.wait = k.wait /\ r.defunct = k.defunct
        /\ \A u \in Thread \ {t} : r.prio[u] = k.prio[u]
    BY <1>1 DEF ChangePriority, KState
  <2> HIDE DEF r
  <2>2. ReadyListsOK(r, {})
    BY <1>T, <1>1, <2>1 DEF KernelOK, ReadyListsOK
  <2>3. WaitListsOK(r) /\ DefunctOK(r) /\ CurrentOK(r) /\ TimersOK(r) /\ IdleOK(r)
    BY <2>1, IdleAssumption DEF KernelOK, WaitListsOK, DefunctOK, CurrentOK, TimersOK, IdleOK
  <2> QED BY <2>1, <2>2, <2>3 DEF r, KernelOK
<1>2. CASE k.stat[t] = "READY"
  <2> DEFINE d == rt_schedule_remove_thread(k, t)
             e == [d EXCEPT !.prio[t] = p]
             i == rt_schedule_insert_thread(e, t)
  <2>0. t # k.cur /\ t \notin k.timer
    BY <1>2 DEF KernelOK, CurrentOK, TimersOK
  <2>1. /\ d \in KState
        /\ d = [k EXCEPT !.ready = d.ready, !.wait = d.wait,
                         !.defunct = d.defunct, !.group = d.group]
        /\ KernelOK(d, {} \cup {t})
    BY <1>2, RemoveThread
  <2>2. r = i
    BY <1>2 DEF ChangePriority
  <2> HIDE DEF d, r
  <2>3. /\ e \in KState
        /\ e.cur = k.cur /\ e.stat = k.stat /\ e.lock = k.lock /\ e.timer = k.timer
        /\ d.cur = k.cur /\ d.stat = k.stat /\ d.timer = k.timer
        /\ e.ready = d.ready /\ e.group = d.group /\ e.wait = d.wait
        /\ e.defunct = d.defunct
        /\ \A u \in Thread \ {t} : e.prio[u] = d.prio[u]
    BY <2>1 DEF KState
  <2> HIDE DEF e
  <2>4. KernelOK(e, {t})
    <3>1. KernelOK(d, {t}) /\ InNoList(d, t)
      BY <2>1 DEF KernelOK
    <3>2. KTyped(d)
      BY <2>1, KTypes
    <3>3. \A q \in Prio : ToSet(d.ready[q]) \subseteq Thread
      BY <3>2 DEF KTyped
    <3>4. ReadyListsOK(e, {t})
      BY <2>3, <3>1, <3>3 DEF KernelOK, ReadyListsOK, InNoList
    <3>5. WaitListsOK(e) /\ DefunctOK(e) /\ CurrentOK(e) /\ TimersOK(e) /\ IdleOK(e)
      BY <2>3, <3>1, IdleAssumption DEF KernelOK, WaitListsOK, DefunctOK, CurrentOK, TimersOK, IdleOK
    <3>6. InNoList(e, t)
      BY <2>3, <3>1 DEF InNoList
    <3> QED BY <3>4, <3>5, <3>6 DEF KernelOK
  <2>5. /\ i \in KState
        /\ i = [e EXCEPT !.stat = i.stat, !.ready = i.ready, !.group = i.group]
        /\ \A u \in Thread \ {t} : i.stat[u] = e.stat[u]
        /\ i.stat[t] = IF t = e.cur THEN "RUNNING" ELSE "READY"
        /\ KernelOK(i, {t} \ {t})
    <3>1. InNoList(e, t) /\ t \notin e.timer /\ {t} \in SUBSET Thread
      BY <2>0, <2>3, <2>4 DEF KernelOK
    <3> QED BY <2>3, <2>4, <3>1, InsertThread
  <2> HIDE DEF i
  <2>6. i.cur = k.cur /\ i.lock = k.lock /\ i.timer = k.timer
    BY <2>3, <2>5 DEF KState
  <2>7. i.stat = k.stat
    <3>1. i.stat \in [Thread -> Stat] /\ k.stat \in [Thread -> Stat]
      BY <2>5 DEF KState
    <3>2. \A u \in Thread : i.stat[u] = k.stat[u]
      BY <1>2, <2>0, <2>3, <2>5
    <3> QED BY <3>1, <3>2
  <2>8. KernelOK(i, {})
    <3>1. {t} \ {t} = {}
      OBVIOUS
    <3> QED BY <2>5, <3>1
  <2> QED BY <2>2, <2>5, <2>6, <2>7, <2>8 DEF r
<1> QED BY <1>1, <1>2

\* A thread timer expires in the tick interrupt.
LEMMA TimeoutOK ==
    ASSUME NEW k \in KState, NEW out \in SUBSET Thread, KernelOK(k, out),
           k.lock = 0 => out = {}, NEW t \in k.timer \ out
    PROVE  LET r == _thread_timeout(k, t)
           IN  /\ r \in KState
               /\ KernelOK(r, out)
               /\ r.lock = k.lock /\ r.timer = k.timer \ {t}
               /\ k.lock # 0 => r.cur = k.cur
               /\ k.lock = 0 => HighestPriorityRuns(r)
               /\ r.stat[t] \in {"READY", "RUNNING"}
               /\ \A u \in Thread \ {t} :
                     IF k.stat[u] \in {"READY", "RUNNING"}
                     THEN r.stat[u] \in {"READY", "RUNNING"}
                     ELSE r.stat[u] = k.stat[u]
<1> DEFINE e == [k EXCEPT !.err[t] = "ETIMEOUT"]
           s == rt_thread_resume(e, t)
           r == rt_schedule(s)
<1>0. t \in Thread /\ k.stat[t] = "SUSPEND"
  BY DEF KState, KernelOK, TimersOK
<1>1. /\ e \in KState
      /\ e.cur = k.cur /\ e.stat = k.stat /\ e.prio = k.prio /\ e.lock = k.lock
      /\ e.ready = k.ready /\ e.group = k.group /\ e.wait = k.wait
      /\ e.defunct = k.defunct /\ e.timer = k.timer
  BY <1>0 DEF KState, Err
<1> HIDE DEF e
<1>2. KernelOK(e, out)
  BY <1>1, Irrelevant
<1>3. /\ s \in KState /\ KernelOK(s, out)
      /\ s.cur = e.cur /\ s.lock = e.lock /\ s.timer = e.timer \ {t}
      /\ \A u \in Thread \ {t} : s.stat[u] = e.stat[u]
      /\ s.stat[t] = IF t = e.cur THEN "RUNNING" ELSE "READY"
  BY <1>0, <1>1, <1>2, ResumeThread
<1> HIDE DEF s
<1>4. s.lock = 0 => out = {}
  BY <1>1, <1>3
<1>5. /\ r \in KState /\ KernelOK(r, out)
      /\ r.lock = s.lock /\ r.timer = s.timer
      /\ s.lock # 0 => r = s
      /\ s.lock = 0 => HighestPriorityRuns(r)
      /\ \A u \in Thread : IF s.stat[u] \in {"READY", "RUNNING"}
                            THEN r.stat[u] \in {"READY", "RUNNING"}
                            ELSE r.stat[u] = s.stat[u]
  BY <1>3, <1>4, ScheduleOK
<1>6. r = _thread_timeout(k, t)
  BY DEF _thread_timeout, e, s
<1> HIDE DEF r
<1> QED BY <1>0, <1>1, <1>3, <1>5, <1>6

\* The time slice part of the tick interrupt.
LEMMA TimeSliceOK ==
    ASSUME NEW k \in KState, NEW out \in SUBSET Thread, KernelOK(k, out),
           k.lock = 0 => out = {}
    PROVE  LET r == TimeSlice(k)
           IN  /\ r \in KState
               /\ KernelOK(r, out)
               /\ r.lock = k.lock /\ r.timer = k.timer
               /\ k.lock # 0 => r.cur = k.cur
               /\ k.lock = 0 => HighestPriorityRuns(r) \/ (r.cur = k.cur /\ r.stat = k.stat /\ r.prio = k.prio)
               /\ \A u \in Thread :
                     IF k.stat[u] \in {"READY", "RUNNING"}
                     THEN r.stat[u] \in {"READY", "RUNNING"}
                     ELSE r.stat[u] = k.stat[u]
<1>K. k.cur \in Thread
  BY DEF KState
<1>1. CASE k.remaining[k.cur] = 1
  <2> DEFINE e == [k EXCEPT !.remaining[k.cur] = InitTick, !.yield = k.yield \cup {k.cur}]
             r == rt_schedule(e)
  <2>1. /\ e \in KState
        /\ e.cur = k.cur /\ e.stat = k.stat /\ e.prio = k.prio /\ e.lock = k.lock
        /\ e.ready = k.ready /\ e.group = k.group /\ e.wait = k.wait
        /\ e.defunct = k.defunct /\ e.timer = k.timer
    <3>1. InitTick \in 1 .. InitTick
      BY InitTickAssumption
    <3> QED BY <1>K, <3>1 DEF KState
  <2>2. TimeSlice(k) = r
    BY <1>1 DEF TimeSlice
  <2> HIDE DEF e
  <2>3. KernelOK(e, out)
    BY <2>1, Irrelevant
  <2>4. /\ r \in KState /\ KernelOK(r, out)
        /\ r.lock = e.lock /\ r.timer = e.timer
        /\ e.lock # 0 => r = e
        /\ e.lock = 0 => HighestPriorityRuns(r)
        /\ \A u \in Thread : IF e.stat[u] \in {"READY", "RUNNING"}
                              THEN r.stat[u] \in {"READY", "RUNNING"}
                              ELSE r.stat[u] = e.stat[u]
    <3>1. e.lock = 0 => out = {}
      BY <2>1
    <3> QED BY <2>1, <2>3, <3>1, ScheduleOK
  <2> HIDE DEF r
  <2> QED BY <2>1, <2>2, <2>4
<1>2. CASE k.remaining[k.cur] # 1
  <2> DEFINE e == [k EXCEPT !.remaining[k.cur] = @ - 1]
  <2>1. /\ e \in KState
        /\ e.cur = k.cur /\ e.stat = k.stat /\ e.prio = k.prio /\ e.lock = k.lock
        /\ e.ready = k.ready /\ e.group = k.group /\ e.wait = k.wait
        /\ e.defunct = k.defunct /\ e.timer = k.timer
    <3>1. k.remaining[k.cur] \in 1 .. InitTick
      BY <1>K DEF KState
    <3>2. k.remaining[k.cur] - 1 \in 1 .. InitTick
      BY <1>2, <3>1, InitTickAssumption
    <3> QED BY <1>K, <3>2 DEF KState
  <2>2. TimeSlice(k) = e
    BY <1>2 DEF TimeSlice
  <2> HIDE DEF e
  <2>3. KernelOK(e, out)
    BY <2>1, Irrelevant
  <2> QED BY <2>1, <2>2, <2>3
<1> QED BY <1>1, <1>2

=============================================================================
