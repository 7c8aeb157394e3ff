---------------------------- MODULE CommonLemmas -----------------------------
(***************************************************************************)
(* Lemmas the proofs of several components need: what the operations on    *)
(* lists do to the elements of a list, quotients and remainders, the least *)
(* element of a set of numbers, and what determines a fold.                *)
(***************************************************************************)
EXTENDS Integers, Sequences, SequencesExt, FiniteSets, SequenceTheorems,
  FiniteSetTheorems, WellFoundedInduction, TLAPS

-----------------------------------------------------------------------------
(***************************************************************************)
(* A set of natural numbers has a least element.                           *)
(***************************************************************************)
LEMMA Least ==
  ASSUME NEW T, T \subseteq Nat, T # {}
  PROVE  \E m \in T : \A k \in T : m <= k
<1> DEFINE R == OpToRel(<, Nat)
<1>1. IsWellFoundedOn(R, Nat)
  BY NatLessThanWellFounded
<1>2. \A x \in Nat, y \in Nat : x < y => <<x, y>> \in R
  BY DEF OpToRel
<1> HIDE DEF R
<1>3. PICK m \in T : \A k \in T : ~(<<k, m>> \in R)
  BY <1>1, WFMin
<1>4. ASSUME NEW k \in T
      PROVE  m <= k
  <2>1. ~(k < m)
    BY <1>2, <1>3
  <2> QED BY <2>1
<1> QED BY <1>4

-----------------------------------------------------------------------------
(***************************************************************************)
(* Lists as sets.                                                          *)
(***************************************************************************)

\* Pushing at the head adds one element, and keeps a list without repetition
\* so when the element is new.
LEMMA ConsList ==
  ASSUME NEW S, NEW s \in Seq(S), NEW p \in S
  PROVE  /\ Cons(p, s) \in Seq(S)
         /\ Len(Cons(p, s)) = Len(s) + 1
         /\ ToSet(Cons(p, s)) = {p} \cup ToSet(s)
         /\ IsInjective(s) /\ p \notin ToSet(s) => IsInjective(Cons(p, s))
<1> DEFINE t == Cons(p, s)
<1>1. <<p>> \in Seq(S) /\ Len(<<p>>) = 1 /\ <<p>>[1] = p
  OBVIOUS
<1>2. /\ t \in Seq(S)
      /\ Len(t) = 1 + Len(s)
      /\ \A i \in 1 .. 1 + Len(s) : t[i] = IF i <= 1 THEN <<p>>[i] ELSE s[i - 1]
  BY <1>1, ConcatProperties DEF Cons
<1>3. /\ DOMAIN t = 1 .. Len(s) + 1 /\ DOMAIN s = 1 .. Len(s) /\ Len(s) \in Nat
      /\ \A i \in 1 .. Len(s) + 1 : t[i] = IF i = 1 THEN p ELSE s[i - 1]
  BY <1>1, <1>2, LenProperties
<1> HIDE DEF t
<1>4. ToSet(t) = {p} \cup ToSet(s)
  <2>1. ASSUME NEW i \in 1 .. Len(s) + 1
        PROVE  t[i] \in {p} \cup ToSet(s)
    BY <1>3 DEF ToSet
  <2>2. ASSUME NEW x \in {p} \cup ToSet(s)
        PROVE  x \in ToSet(t)
    <3>1. CASE x = p
      BY <3>1, <1>3 DEF ToSet
    <3>2. CASE x \in ToSet(s)
      <4>1. PICK i \in 1 .. Len(s) : x = s[i]
        BY <3>2, <1>3 DEF ToSet
      <4>2. i + 1 \in 1 .. Len(s) + 1 /\ t[i + 1] = s[i]
        BY <1>3
      <4> QED BY <4>1, <4>2, <1>3 DEF ToSet
    <3> QED BY <2>2, <3>1, <3>2
  <2> QED BY <2>1, <2>2, <1>3 DEF ToSet
<1>5. ASSUME IsInjective(s), p \notin ToSet(s)
      PROVE  IsInjective(t)
  <2> SUFFICES ASSUME NEW i \in 1 .. Len(s) + 1, NEW j \in 1 .. Len(s) + 1, t[i] = t[j]
               PROVE  i = j
    BY <1>3 DEF IsInjective
  <2>1. \A k \in 1 .. Len(s) : s[k] # p
    BY <1>3, <1>5 DEF ToSet
  <2>2. CASE i = 1 \/ j = 1
    BY <2>1, <2>2, <1>3
  <2>3. CASE i # 1 /\ j # 1
    <3>1. i - 1 \in 1 .. Len(s) /\ j - 1 \in 1 .. Len(s) /\ s[i - 1] = s[j - 1]
      BY <2>3, <1>3
    <3>2. i - 1 = j - 1
      BY <3>1, <1>3, <1>5 DEF IsInjective
    <3> QED BY <3>2
  <2> QED BY <2>2, <2>3
<1> QED BY <1>2, <1>3, <1>4, <1>5 DEF t

\* Popping the head of a list without repetition removes that element.
LEMMA TailList ==
  ASSUME NEW S, NEW s \in Seq(S), s # <<>>, IsInjective(s)
  PROVE  /\ Head(s) \in S /\ Head(s) \in ToSet(s)
         /\ Tail(s) \in Seq(S)
         /\ Len(Tail(s)) = Len(s) - 1
         /\ ToSet(Tail(s)) = ToSet(s) \ {Head(s)}
         /\ IsInjective(Tail(s))
<1> DEFINE t == Tail(s)
<1>1. /\ Head(s) \in S /\ t \in Seq(S) /\ Len(t) = Len(s) - 1
      /\ \A i \in 1 .. Len(t) : t[i] = s[i + 1]
  BY HeadTailProperties
<1>2. Len(s) \in Nat \ {0} /\ DOMAIN s = 1 .. Len(s) /\ DOMAIN t = 1 .. Len(s) - 1
  BY <1>1, EmptySeq, LenProperties
<1>3. Head(s) = s[1]
  OBVIOUS
<1> HIDE DEF t
<1>4. ToSet(t) = ToSet(s) \ {s[1]}
  <2>1. ASSUME NEW i \in 1 .. Len(s) - 1
        PROVE  t[i] \in ToSet(s) \ {s[1]}
    BY <1>1, <1>2 DEF ToSet, IsInjective
  <2>2. ASSUME NEW x \in ToSet(s) \ {s[1]}
        PROVE  x \in ToSet(t)
    <3>1. PICK i \in 1 .. Len(s) : x = s[i]
      BY <1>2 DEF ToSet
    <3>2. i - 1 \in 1 .. Len(s) - 1 /\ t[i - 1] = s[i]
      BY <1>1, <1>2, <2>2, <3>1
    <3> QED BY <3>1, <3>2, <1>2 DEF ToSet
  <2> QED BY <2>1, <2>2, <1>2 DEF ToSet
<1>5. IsInjective(t)
  <2> SUFFICES ASSUME NEW i \in 1 .. Len(s) - 1, NEW j \in 1 .. Len(s) - 1, t[i] = t[j]
               PROVE  i = j
    BY <1>2 DEF IsInjective
  <2>1. i + 1 \in DOMAIN s /\ j + 1 \in DOMAIN s /\ s[i + 1] = s[j + 1]
    BY <1>1, <1>2
  <2>2. i + 1 = j + 1
    BY <2>1 DEF IsInjective
  <2> QED BY <2>2
<1> QED BY <1>1, <1>2, <1>3, <1>4, <1>5 DEF ToSet, t

\* Removing an element of a list without repetition removes that element.
LEMMA RemoveList ==
  ASSUME NEW S, NEW s \in Seq(S), NEW p \in ToSet(s), IsInjective(s)
  PROVE  /\ RemoveFirst(s, p) \in Seq(S)
         /\ ToSet(RemoveFirst(s, p)) = ToSet(s) \ {p}
         /\ IsInjective(RemoveFirst(s, p))
<1>1. Len(s) \in Nat /\ DOMAIN s = 1 .. Len(s) /\ \A i \in 1 .. Len(s) : s[i] \in S
  BY LenProperties
<1>2. PICK n \in 1 .. Len(s) : s[n] = p
  BY <1>1 DEF ToSet
<1>3. \A i \in 1 .. Len(s) : s[i] = p => i = n
  BY <1>1, <1>2 DEF IsInjective
<1>4. SelectInSeq(s, LAMBDA v : v = p) = n
  <2>1. {i \in 1 .. Len(s) : s[i] = p} = {n}
    BY <1>2, <1>3
  <2>2. Min({n}) = n
    BY DEF Min
  <2> QED BY <2>1, <2>2 DEF SelectInSeq
<1> DEFINE a == SubSeq(s, 1, n - 1)
           b == SubSeq(s, n + 1, Len(s))
           t == a \o b
<1>5. RemoveFirst(s, p) = t
  BY <1>2, <1>4 DEF RemoveFirst, RemoveAt
<1>6. a \in Seq(S) /\ Len(a) = n - 1 /\ \A i \in 1 .. n - 1 : a[i] = s[i]
  <2>1. 1 \in Int /\ n - 1 \in Int /\ \A i \in 1 .. n - 1 : s[i] \in S
    BY <1>1
  <2>2. /\ a \in Seq(S) /\ Len(a) = IF 1 <= n - 1 THEN (n - 1) - 1 + 1 ELSE 0
        /\ \A i \in 1 .. (n - 1) - 1 + 1 : a[i] = s[1 + i - 1]
    BY <2>1, SubSeqProperties
  <2> HIDE DEF a
  <2> QED BY <2>2, <1>1
<1>7. b \in Seq(S) /\ Len(b) = Len(s) - n /\ \A i \in 1 .. Len(s) - n : b[i] = s[n + i]
  <2>1. n + 1 \in Int /\ Len(s) \in Int /\ \A i \in n + 1 .. Len(s) : s[i] \in S
    BY <1>1
  <2>2. /\ b \in Seq(S) /\ Len(b) = IF n + 1 <= Len(s) THEN Len(s) - (n + 1) + 1 ELSE 0
        /\ \A i \in 1 .. Len(s) - (n + 1) + 1 : b[i] = s[n + 1 + i - 1]
    BY <2>1, SubSeqProperties
  <2> HIDE DEF b
  <2>3. n \in Int /\ n <= Len(s) /\ Len(s) - (n + 1) + 1 = Len(s) - n
    BY <1>1
  <2>4. Len(b) = Len(s) - n
    <3>1. CASE n + 1 <= Len(s)
      BY <3>1, <2>2, <2>3
    <3>2. CASE n = Len(s)
      <4>1. Len(b) = 0
        BY <3>2, <2>2, <2>3, <1>1
      <4> QED BY <4>1, <3>2, <1>1
    <3>3. n + 1 <= Len(s) \/ n = Len(s)
      <4>1. \A m \in Nat, i \in Int : i <= m => i + 1 <= m \/ i = m
        OBVIOUS
      <4>2. Len(s) \in Nat
        BY <1>1
      <4> HIDE DEF t, a
      <4> QED BY <4>1, <4>2, <2>3
    <3> QED BY <3>1, <3>2, <3>3
  <2>5. ASSUME NEW i \in 1 .. Len(s) - n
        PROVE  b[i] = s[n + i]
    <3>1. b[i] = s[n + 1 + i - 1]
      BY <2>2, <2>3
    <3>2. n + 1 + i - 1 = n + i
      BY <2>3
    <3> QED BY <3>1, <3>2
  <2> QED BY <2>2, <2>4, <2>5
<1> HIDE DEF a, b
<1>8. /\ t \in Seq(S)
      /\ Len(t) = Len(s) - 1
      /\ \A i \in 1 .. Len(s) - 1 : t[i] = IF i < n THEN s[i] ELSE s[i + 1]
  <2>1. /\ t \in Seq(S) /\ Len(t) = Len(a) + Len(b)
        /\ \A i \in 1 .. Len(a) + Len(b) : t[i] = IF i <= Len(a) THEN a[i] ELSE b[i - Len(a)]
    BY <1>6, <1>7, ConcatProperties
  <2> HIDE DEF t
  <2>2. ASSUME NEW i \in 1 .. Len(s) - 1
        PROVE  t[i] = IF i < n THEN s[i] ELSE s[i + 1]
    <3>1. CASE i < n
      <4>1. i \in 1 .. n - 1 /\ i <= Len(a) /\ i \in 1 .. Len(a) + Len(b)
        <5>1. Len(a) = n - 1 /\ Len(b) = Len(s) - n
          BY <1>6, <1>7
        <5> QED BY <5>1, <3>1, <1>1
      <4>2. t[i] = a[i]
        BY <4>1, <2>1
      <4>3. a[i] = s[i]
        BY <4>1, <1>6
      <4> QED BY <4>2, <4>3, <3>1
    <3>2. CASE i >= n
      <4>1. t[i] = b[i - (n - 1)] /\ i - (n - 1) \in 1 .. Len(s) - n
        <5>1. Len(a) = n - 1 /\ Len(b) = Len(s) - n
          BY <1>6, <1>7
        <5>2. i \in 1 .. Len(a) + Len(b) /\ ~(i <= Len(a)) /\ i - (n - 1) \in 1 .. Len(s) - n
          BY <5>1, <3>2, <1>1
        <5> QED BY <5>1, <5>2, <2>1
      <4> QED BY <4>1, <1>1, <1>7, <3>2
    <3> QED BY <3>1, <3>2, <1>1
  <2> QED BY <2>1, <2>2, <1>1, <1>6, <1>7
<1>9. DOMAIN t = 1 .. Len(s) - 1
  BY <1>8, LenProperties
<1> HIDE DEF t
<1>10. ToSet(t) = ToSet(s) \ {p}
  <2>1. ASSUME NEW i \in 1 .. Len(s) - 1
        PROVE  t[i] \in ToSet(s) \ {p}
    BY <1>1, <1>3, <1>8 DEF ToSet
  <2>2. ASSUME NEW x \in ToSet(s) \ {p}
        PROVE  x \in ToSet(t)
    <3>1. PICK i \in 1 .. Len(s) : x = s[i]
      BY <1>1 DEF ToSet
    <3>2. i # n
      BY <3>1, <1>2, <2>2
    <3>3. PICK j \in 1 .. Len(s) - 1 : t[j] = s[i]
      <4>1. CASE i < n
        BY <4>1, <1>8, <1>1
      <4>2. CASE i > n
        <5>1. i - 1 \in 1 .. Len(s) - 1 /\ t[i - 1] = s[i]
          BY <4>2, <1>8, <1>1
        <5> QED BY <5>1
      <4> QED BY <3>2, <4>1, <4>2
    <3> QED BY <3>1, <3>3, <1>9 DEF ToSet
  <2> QED BY <2>1, <2>2, <1>9 DEF ToSet
<1>11. IsInjective(t)
  <2> SUFFICES ASSUME NEW i \in 1 .. Len(s) - 1, NEW j \in 1 .. Len(s) - 1, t[i] = t[j]
               PROVE  i = j
    BY <1>9 DEF IsInjective
  <2> DEFINE up(x) == IF x < n THEN x ELSE x + 1
  <2>1. up(i) \in DOMAIN s /\ up(j) \in DOMAIN s /\ s[up(i)] = s[up(j)]
    BY <1>1, <1>8
  <2>2. up(i) = up(j)
    BY <2>1 DEF IsInjective
  <2> QED BY <2>2
<1> QED BY <1>5, <1>8, <1>10, <1>11

\* Popping the head of any list: the other elements stay.
LEMMA TailKeeps ==
  ASSUME NEW S, NEW s \in Seq(S), s # <<>>
  PROVE  /\ Head(s) \in S /\ Head(s) \in ToSet(s)
         /\ Tail(s) \in Seq(S)
         /\ ToSet(Tail(s)) \subseteq ToSet(s)
         /\ \A x \in ToSet(s) : x # Head(s) => x \in ToSet(Tail(s))
<1> DEFINE t == Tail(s)
<1>1. /\ Head(s) \in S /\ t \in Seq(S) /\ Len(t) = Len(s) - 1
      /\ \A i \in 1 .. Len(t) : t[i] = s[i + 1]
  BY HeadTailProperties
<1>2. Len(s) \in Nat \ {0} /\ DOMAIN s = 1 .. Len(s) /\ DOMAIN t = 1 .. Len(s) - 1
  BY <1>1, EmptySeq, LenProperties
<1>3. Head(s) = s[1]
  OBVIOUS
<1> HIDE DEF t
<1>4. \A i \in 1 .. Len(s) - 1 : t[i] \in ToSet(s)
  BY <1>1, <1>2 DEF ToSet
<1>5. ASSUME NEW i \in 1 .. Len(s), s[i] # s[1]
      PROVE  s[i] \in ToSet(t)
  <2>1. i - 1 \in 1 .. Len(s) - 1 /\ t[i - 1] = s[i]
    BY <1>1, <1>2, <1>5
  <2> QED BY <2>1, <1>2 DEF ToSet
<1> QED BY <1>1, <1>2, <1>3, <1>4, <1>5 DEF ToSet, t

\* Removing the first occurrence of p, if any, from any list: the other
\* elements stay.
LEMMA RemoveKeeps ==
  ASSUME NEW S, NEW s \in Seq(S), NEW p
  PROVE  /\ RemoveFirst(s, p) \in Seq(S)
         /\ ToSet(RemoveFirst(s, p)) \subseteq ToSet(s)
         /\ \A x \in ToSet(s) : x # p => x \in ToSet(RemoveFirst(s, p))
<1>1. Len(s) \in Nat /\ DOMAIN s = 1 .. Len(s) /\ \A i \in 1 .. Len(s) : s[i] \in S
  BY LenProperties
<1>2. CASE ~\E i \in 1 .. Len(s) : s[i] = p
  <2>1. RemoveFirst(s, p) = s
    BY <1>2 DEF RemoveFirst
  <2> QED BY <2>1
<1>3. CASE \E i \in 1 .. Len(s) : s[i] = p
  <2> DEFINE n == SelectInSeq(s, LAMBDA v : v = p)
  <2>1. n \in 1 .. Len(s) /\ s[n] = p
    <3> DEFINE I == {i \in 1 .. Len(s) : s[i] = p}
    <3>1. I # {} /\ I \subseteq Nat
      BY <1>1, <1>3
    <3>2. n = Min(I)
      BY <3>1 DEF SelectInSeq
    <3>3. \E m \in I : \A k \in I : m <= k
      BY <3>1, Least
    <3>4. Min(I) \in I
      BY <3>3 DEF Min
    <3> QED BY <3>2, <3>4
  <2> DEFINE a == SubSeq(s, 1, n - 1)
             b == SubSeq(s, n + 1, Len(s))
             t == a \o b
  <2>2. RemoveFirst(s, p) = t
    BY <1>3 DEF RemoveFirst, RemoveAt
  <2> HIDE DEF n
  <2>3. a \in Seq(S) /\ \A i \in 1 .. n - 1 : a[i] = s[i] /\ i <= Len(a)
    <3>1. 1 \in Int /\ n - 1 \in Int /\ \A i \in 1 .. n - 1 : s[i] \in S
      BY <1>1, <2>1
    <3>2. /\ a \in Seq(S) /\ Len(a) = IF 1 <= n - 1 THEN (n - 1) - 1 + 1 ELSE 0
          /\ \A i \in 1 .. (n - 1) - 1 + 1 : a[i] = s[1 + i - 1]
      BY <3>1, SubSeqProperties
    <3> HIDE DEF a
    <3> QED BY <3>2, <1>1, <2>1
  <2>4. Len(a) = n - 1
    <3>1. 1 \in Int /\ n - 1 \in Int /\ \A i \in 1 .. n - 1 : s[i] \in S
      BY <1>1, <2>1
    <3>2. Len(a) = IF 1 <= n - 1 THEN (n - 1) - 1 + 1 ELSE 0
      BY <3>1, SubSeqProperties
    <3> HIDE DEF a
    <3> QED BY <3>2, <1>1, <2>1
  <2>5. /\ b \in Seq(S)
        /\ Len(b) = IF n + 1 <= Len(s) THEN Len(s) - (n + 1) + 1 ELSE 0
        /\ \A i \in 1 .. Len(s) - (n + 1) + 1 : b[i] = s[n + 1 + i - 1]
    <3>1. n + 1 \in Int /\ Len(s) \in Int /\ \A i \in n + 1 .. Len(s) : s[i] \in S
      BY <1>1, <2>1
    <3> QED BY <3>1, SubSeqProperties
  <2> HIDE DEF a, b
  <2> DEFINE m == Len(s)
  <2>6. m \in Nat /\ n \in 1 .. m /\ Len(b) = m - n
        /\ \A i \in 1 .. m - n : b[i] = s[n + i]
    <3>1. m \in Nat /\ n \in 1 .. m
      BY <1>1, <2>1
    <3> DEFINE lb == Len(b)
    <3>2. lb = IF n + 1 <= m THEN m - (n + 1) + 1 ELSE 0
      BY <2>5
    <3> HIDE DEF m, lb
    <3>3. lb = m - n /\ m - (n + 1) + 1 = m - n /\ \A i \in 1 .. m - n : n + 1 + i - 1 = n + i
      BY <3>1, <3>2
    <3>4. \A i \in 1 .. m - (n + 1) + 1 : b[i] = s[n + 1 + i - 1]
      BY <2>5 DEF m
    <3> QED BY <3>1, <3>3, <3>4 DEF lb
  <2>7. /\ t \in Seq(S) /\ Len(t) = Len(a) + Len(b)
        /\ \A i \in 1 .. Len(a) + Len(b) : t[i] = IF i <= Len(a) THEN a[i] ELSE b[i - Len(a)]
    BY <2>3, <2>5, ConcatProperties
  <2>8. DOMAIN s = 1 .. m
    BY <1>1
  <2> HIDE DEF t, m
  <2>9. DOMAIN t = 1 .. m - 1
    <3>1. Len(t) = (n - 1) + (m - n)
      BY <2>4, <2>6, <2>7
    <3>2. DOMAIN t = 1 .. Len(t)
      BY <2>7, LenProperties
    <3>3. (n - 1) + (m - n) = m - 1
      BY <2>6
    <3> QED BY <3>1, <3>2, <3>3
  <2>10. \A i \in 1 .. m - 1 : t[i] = IF i <= n - 1 THEN a[i] ELSE b[i - (n - 1)]
    <3>1. (n - 1) + (m - n) = m - 1
      BY <2>6
    <3>2. Len(a) = n - 1 /\ Len(b) = m - n
      BY <2>4, <2>6
    <3> QED BY <3>1, <3>2, <2>7
  <2>11. ASSUME NEW i \in 1 .. m - 1
         PROVE  t[i] \in ToSet(s)
    <3>1. CASE i <= n - 1
      <4>1. i \in 1 .. n - 1 /\ i \in 1 .. m
        BY <3>1, <2>6
      <4>2. t[i] = s[i]
        BY <4>1, <3>1, <2>3, <2>10
      <4> QED BY <4>1, <4>2, <2>8 DEF ToSet
    <3>2. CASE ~(i <= n - 1)
      <4>1. i - (n - 1) \in 1 .. m - n /\ n + (i - (n - 1)) \in 1 .. m
        BY <3>2, <2>6
      <4>2. t[i] = s[n + (i - (n - 1))]
        BY <4>1, <3>2, <2>6, <2>10
      <4> QED BY <4>1, <4>2, <2>8 DEF ToSet
    <3> QED BY <3>1, <3>2
  <2>12. ASSUME NEW i \in 1 .. m, s[i] # p
         PROVE  s[i] \in ToSet(t)
    <3>1. i # n
      BY <2>1, <2>12
    <3>2. CASE i < n
      <4>1. i \in 1 .. n - 1 /\ i \in 1 .. m - 1 /\ i <= n - 1
        BY <3>2, <2>6
      <4>2. t[i] = s[i]
        BY <4>1, <2>3, <2>10
      <4> QED BY <4>1, <4>2, <2>9 DEF ToSet
    <3>3. CASE i > n
      <4>1. /\ i - 1 \in 1 .. m - 1 /\ ~(i - 1 <= n - 1) /\ (i - 1) - (n - 1) = i - n
            /\ i - n \in 1 .. m - n /\ n + (i - n) = i
        BY <3>3, <2>6
      <4>2. t[i - 1] = b[i - n]
        BY <4>1, <2>10
      <4>3. b[i - n] = s[n + (i - n)]
        BY <4>1, <2>6
      <4>4. t[i - 1] = s[i]
        BY <4>1, <4>2, <4>3
      <4> QED BY <4>1, <4>4, <2>9 DEF ToSet
    <3> QED BY <3>1, <3>2, <3>3, <2>6
  <2>13. ToSet(t) \subseteq ToSet(s)
    BY <2>9, <2>11 DEF ToSet
  <2>14. \A x \in ToSet(s) : x # p => x \in ToSet(t)
    BY <2>8, <2>12 DEF ToSet
  <2> QED BY <2>2, <2>7, <2>13, <2>14
<1> QED BY <1>2, <1>3

\* Inserting an entry adds it, and keeps the others and their order.
LEMMA InsertList ==
  ASSUME NEW S, NEW s \in Seq(S), NEW e \in S, NEW n \in 1 .. Len(s) + 1
  PROVE  /\ InsertAt(s, n, e) \in Seq(S)
         /\ DOMAIN InsertAt(s, n, e) = 1 .. Len(s) + 1
         /\ \A i \in 1 .. Len(s) + 1 :
              InsertAt(s, n, e)[i] = IF i < n THEN s[i] ELSE IF i = n THEN e ELSE s[i - 1]
         /\ ToSet(InsertAt(s, n, e)) = ToSet(s) \cup {e}
<1>1. Len(s) \in Nat /\ DOMAIN s = 1 .. Len(s) /\ \A i \in 1 .. Len(s) : s[i] \in S
  BY LenProperties
<1> DEFINE a == SubSeq(s, 1, n - 1)
           b == SubSeq(s, n, Len(s))
           c == a \o <<e>>
           t == c \o b
<1>2. InsertAt(s, n, e) = t
  BY DEF InsertAt
<1>3. a \in Seq(S) /\ Len(a) = n - 1 /\ \A i \in 1 .. n - 1 : a[i] = s[i]
  <2>1. 1 \in Int /\ n - 1 \in Int /\ \A i \in 1 .. n - 1 : s[i] \in S
    BY <1>1
  <2>2. /\ a \in Seq(S) /\ Len(a) = IF 1 <= n - 1 THEN (n - 1) - 1 + 1 ELSE 0
        /\ \A i \in 1 .. (n - 1) - 1 + 1 : a[i] = s[1 + i - 1]
    BY <2>1, SubSeqProperties
  <2> HIDE DEF a
  <2> QED BY <2>2, <1>1
<1>4. b \in Seq(S) /\ Len(b) = Len(s) - n + 1 /\ \A i \in 1 .. Len(s) - n + 1 : b[i] = s[n + i - 1]
  <2>1. n \in Int /\ Len(s) \in Int /\ \A i \in n .. Len(s) : s[i] \in S
    BY <1>1
  <2>2. /\ b \in Seq(S) /\ Len(b) = IF n <= Len(s) THEN Len(s) - n + 1 ELSE 0
        /\ \A i \in 1 .. Len(s) - n + 1 : b[i] = s[n + i - 1]
    BY <2>1, SubSeqProperties
  <2> HIDE DEF b
  <2> QED BY <2>2, <1>1
<1>5. <<e>> \in Seq(S) /\ Len(<<e>>) = 1 /\ <<e>>[1] = e
  OBVIOUS
<1> HIDE DEF a, b
<1>6. c \in Seq(S) /\ Len(c) = n /\ \A i \in 1 .. n : c[i] = IF i < n THEN s[i] ELSE e
  <2>1. /\ c \in Seq(S) /\ Len(c) = Len(a) + 1
        /\ \A i \in 1 .. Len(a) + 1 : c[i] = IF i <= Len(a) THEN a[i] ELSE <<e>>[i - Len(a)]
    BY <1>3, <1>5, ConcatProperties
  <2> QED BY <2>1, <1>1, <1>3, <1>5
<1> HIDE DEF c
<1>7. /\ t \in Seq(S) /\ Len(t) = Len(s) + 1
      /\ \A i \in 1 .. Len(s) + 1 :
           t[i] = IF i < n THEN s[i] ELSE IF i = n THEN e ELSE s[i - 1]
  <2>1. /\ t \in Seq(S) /\ Len(t) = Len(c) + Len(b)
        /\ \A i \in 1 .. Len(c) + Len(b) : t[i] = IF i <= Len(c) THEN c[i] ELSE b[i - Len(c)]
    BY <1>4, <1>6, ConcatProperties
  <2> HIDE DEF t
  <2>2. ASSUME NEW i \in 1 .. Len(s) + 1
        PROVE  t[i] = IF i < n THEN s[i] ELSE IF i = n THEN e ELSE s[i - 1]
    <3>1. CASE i <= n
      BY <3>1, <2>1, <1>1, <1>4, <1>6
    <3>2. CASE i > n
      <4>1. t[i] = b[i - n] /\ i - n \in 1 .. Len(s) - n + 1
        BY <3>2, <2>1, <1>1, <1>4, <1>6
      <4>2. n + (i - n) - 1 = i - 1 /\ ~(i < n) /\ i # n
        BY <3>2, <1>1
      <4>3. b[i - n] = s[n + (i - n) - 1]
        BY <4>1, <1>4
      <4> QED BY <4>1, <4>2, <4>3
    <3> QED BY <3>1, <3>2, <1>1
  <2> QED BY <2>1, <2>2, <1>1, <1>4, <1>6
<1>8. DOMAIN t = 1 .. Len(s) + 1
  BY <1>7, LenProperties
<1> HIDE DEF t
<1>9. \A x \in ToSet(t) : x \in ToSet(s) \cup {e}
  <2> SUFFICES ASSUME NEW i \in 1 .. Len(s) + 1
               PROVE  t[i] \in ToSet(s) \cup {e}
    BY <1>8 DEF ToSet
  <2>1. CASE i < n
    <3>1. t[i] = s[i] /\ i \in 1 .. Len(s)
      BY <2>1, <1>1, <1>7
    <3> QED BY <3>1, <1>1 DEF ToSet
  <2>2. CASE i = n
    BY <2>2, <1>1, <1>7
  <2>3. CASE i > n
    <3>1. t[i] = s[i - 1] /\ i - 1 \in 1 .. Len(s)
      BY <2>3, <1>1, <1>7
    <3> QED BY <3>1, <1>1 DEF ToSet
  <2> QED BY <2>1, <2>2, <2>3, <1>1
<1>10. \A x \in ToSet(s) \cup {e} : x \in ToSet(t)
  <2>1. e \in ToSet(t)
    BY <1>1, <1>7, <1>8 DEF ToSet
  <2>2. ASSUME NEW i \in 1 .. Len(s)
        PROVE  s[i] \in ToSet(t)
    <3>1. CASE i < n
      BY <3>1, <1>1, <1>7, <1>8 DEF ToSet
    <3>2. CASE i >= n
      <4>1. i + 1 \in 1 .. Len(s) + 1 /\ t[i + 1] = s[i]
        BY <3>2, <1>1, <1>7
      <4> QED BY <4>1, <1>8 DEF ToSet
    <3> QED BY <3>1, <3>2, <1>1
  <2> QED BY <2>1, <2>2, <1>1 DEF ToSet
<1> QED BY <1>2, <1>7, <1>8, <1>9, <1>10

\* Appending adds one element, and keeps a list without repetition so when
\* the element is new.
LEMMA AppendList ==
  ASSUME NEW S, NEW s \in Seq(S), NEW p \in S
  PROVE  /\ Append(s, p) \in Seq(S)
         /\ Len(Append(s, p)) = Len(s) + 1
         /\ ToSet(Append(s, p)) = {p} \cup ToSet(s)
         /\ IsInjective(s) /\ p \notin ToSet(s) => IsInjective(Append(s, p))
<1> DEFINE t == Append(s, p)
<1>1. /\ t \in Seq(S) /\ Len(t) = Len(s) + 1
      /\ \A i \in 1 .. Len(s) : t[i] = s[i]
      /\ t[Len(s) + 1] = p
  BY AppendProperties
<1>2. Len(s) \in Nat /\ DOMAIN s = 1 .. Len(s) /\ DOMAIN t = 1 .. Len(s) + 1
  BY <1>1, LenProperties
<1> HIDE DEF t
<1>3. ToSet(t) = {p} \cup ToSet(s)
  <2>1. ASSUME NEW i \in 1 .. Len(s) + 1
        PROVE  t[i] \in {p} \cup ToSet(s)
    BY <1>1, <1>2 DEF ToSet
  <2>2. ASSUME NEW i \in 1 .. Len(s)
        PROVE  s[i] \in ToSet(t)
    <3>1. i \in 1 .. Len(s) + 1 /\ t[i] = s[i]
      BY <1>1, <1>2
    <3> QED BY <3>1, <1>2 DEF ToSet
  <2>3. p \in ToSet(t)
    BY <1>1, <1>2 DEF ToSet
  <2> QED BY <2>1, <2>2, <2>3, <1>2 DEF ToSet
<1>4. ASSUME IsInjective(s), p \notin ToSet(s)
      PROVE  IsInjective(t)
  <2> SUFFICES ASSUME NEW i \in 1 .. Len(s) + 1, NEW j \in 1 .. Len(s) + 1, t[i] = t[j]
               PROVE  i = j
    BY <1>2 DEF IsInjective
  <2>1. \A k \in 1 .. Len(s) : s[k] # p
    BY <1>2, <1>4 DEF ToSet
  <2>2. \A k \in 1 .. Len(s), l \in 1 .. Len(s) : s[k] = s[l] => k = l
    BY <1>2, <1>4 DEF IsInjective
  <2> QED BY <2>1, <2>2, <1>1, <1>2
<1> QED BY <1>1, <1>3, <1>4 DEF t

\* A chain of two lists repeats nothing when neither does and they share
\* nothing.
LEMMA ConcatList ==
  ASSUME NEW S, NEW s \in Seq(S), NEW u \in Seq(S),
         IsInjective(s), IsInjective(u), ToSet(s) \cap ToSet(u) = {}
  PROVE  /\ s \o u \in Seq(S)
         /\ ToSet(s \o u) = ToSet(s) \cup ToSet(u)
         /\ IsInjective(s \o u)
<1> DEFINE t == s \o u
<1>1. /\ t \in Seq(S) /\ Len(t) = Len(s) + Len(u)
      /\ \A i \in 1 .. Len(s) + Len(u) : t[i] = IF i <= Len(s) THEN s[i] ELSE u[i - Len(s)]
  BY ConcatProperties
<1>2. /\ Len(s) \in Nat /\ DOMAIN s = 1 .. Len(s) /\ DOMAIN t = 1 .. Len(s) + Len(u)
      /\ Len(u) \in Nat /\ DOMAIN u = 1 .. Len(u)
  BY <1>1, LenProperties
<1> HIDE DEF t
<1> DEFINE m == Len(s)
           n == Len(u)
<1>3. /\ m \in Nat /\ n \in Nat /\ DOMAIN s = 1 .. m /\ DOMAIN u = 1 .. n
      /\ DOMAIN t = 1 .. m + n
      /\ \A i \in 1 .. m + n : \/ i \in 1 .. m /\ t[i] = s[i]
                               \/ i - m \in 1 .. n /\ i > m /\ t[i] = u[i - m]
  BY <1>1, <1>2
<1>4. \A i \in 1 .. m : i \in 1 .. m + n /\ t[i] = s[i]
  BY <1>1, <1>2
<1>5. ASSUME NEW i \in 1 .. n
      PROVE  m + i \in 1 .. m + n /\ t[m + i] = u[i]
  <2>1. m + i \in 1 .. m + n /\ ~(m + i <= m) /\ (m + i) - m = i
    BY <1>3
  <2> QED BY <2>1, <1>1
<1> HIDE DEF m, n
<1>6. ToSet(t) = ToSet(s) \cup ToSet(u)
  <2>1. \A x \in ToSet(t) : x \in ToSet(s) \cup ToSet(u)
    BY <1>3 DEF ToSet
  <2>2. \A x \in ToSet(s) : x \in ToSet(t)
    BY <1>3, <1>4 DEF ToSet
  <2>3. \A x \in ToSet(u) : x \in ToSet(t)
    BY <1>3, <1>5 DEF ToSet
  <2> QED BY <2>1, <2>2, <2>3
<1>7. IsInjective(t)
  <2> SUFFICES ASSUME NEW i \in 1 .. m + n, NEW j \in 1 .. m + n, t[i] = t[j]
               PROVE  i = j
    BY <1>3 DEF IsInjective
  <2>1. \A k \in 1 .. m, l \in 1 .. m : s[k] = s[l] => k = l
    BY <1>3 DEF IsInjective
  <2>2. \A k \in 1 .. n, l \in 1 .. n : u[k] = u[l] => k = l
    BY <1>3 DEF IsInjective
  <2>3. \A k \in 1 .. m, l \in 1 .. n : s[k] # u[l]
    BY <1>3 DEF ToSet
  <2>4. CASE i \in 1 .. m /\ j \in 1 .. m
    BY <2>4, <2>1, <1>4
  <2>5. CASE i \notin 1 .. m /\ j \notin 1 .. m
    <3>1. i - m \in 1 .. n /\ j - m \in 1 .. n /\ u[i - m] = u[j - m]
      BY <2>5, <1>3
    <3>2. i - m = j - m
      BY <3>1, <2>2
    <3> QED BY <3>2, <1>3
  <2>6. CASE i \in 1 .. m /\ j \notin 1 .. m
    BY <2>6, <2>3, <1>3
  <2>7. CASE i \notin 1 .. m /\ j \in 1 .. m
    BY <2>7, <2>3, <1>3
  <2> QED BY <2>4, <2>5, <2>6, <2>7
<1> QED BY <1>1, <1>6, <1>7 DEF t

\* A list is empty exactly when it has no elements.
LEMMA EmptyList ==
  ASSUME NEW S, NEW s \in Seq(S)
  PROVE  /\ s = <<>> <=> ToSet(s) = {}
         /\ s = <<>> <=> Len(s) = 0
<1>1. Len(s) \in Nat /\ DOMAIN s = 1 .. Len(s)
  BY LenProperties
<1>2. s # <<>> => Len(s) \in Nat \ {0}
  BY EmptySeq
<1>3. ASSUME s = <<>>
      PROVE  Len(s) = 0 /\ ToSet(s) = {}
  <2>1. Len(s) = 0
    BY <1>3, EmptySeq
  <2>2. DOMAIN s = {}
    BY <2>1, <1>1
  <2> QED BY <2>1, <2>2 DEF ToSet
<1>4. ASSUME s # <<>>
      PROVE  ToSet(s) # {}
  <2>1. 1 \in DOMAIN s
    BY <1>4, <1>1, <1>2
  <2> QED BY <2>1 DEF ToSet
<1> QED BY <1>2, <1>3, <1>4

\* A list without repetition has as many elements as it is long.
LEMMA ListSize ==
  ASSUME NEW S, NEW s \in Seq(S), IsInjective(s)
  PROVE  IsFiniteSet(ToSet(s)) /\ Cardinality(ToSet(s)) = Len(s)
<1> DEFINE n == Len(s)
<1>1. n \in Nat /\ s \in [1 .. n -> S] /\ DOMAIN s = 1 .. n
  BY LenProperties
<1> HIDE DEF n
<1>2. s \in [1 .. n -> ToSet(s)]
  BY <1>1 DEF ToSet
<1>3. s \in Injection(1 .. n, ToSet(s))
  BY <1>1, <1>2 DEF IsInjective, Injection
<1>4. s \in Surjection(1 .. n, ToSet(s))
  BY <1>1, <1>2 DEF ToSet, Surjection
<1>5. ExistsBijection(1 .. n, ToSet(s))
  BY <1>3, <1>4 DEF ExistsBijection, Bijection
<1>6. IsFiniteSet(1 .. n)
  BY <1>1, FS_Interval
<1> QED BY <1>1, <1>5, <1>6, FS_Bijection, FS_CountingElements DEF n

\* A list without repetition that misses an element of another is shorter.
LEMMA ShorterList ==
  ASSUME NEW S, NEW s \in Seq(S), NEW u \in Seq(S), IsInjective(s), IsInjective(u),
         ToSet(s) \subseteq ToSet(u), NEW x \in ToSet(u), x \notin ToSet(s)
  PROVE  Len(s) < Len(u)
<1>1. /\ IsFiniteSet(ToSet(s)) /\ Cardinality(ToSet(s)) = Len(s)
      /\ IsFiniteSet(ToSet(u)) /\ Cardinality(ToSet(u)) = Len(u)
  BY ListSize
<1>2. /\ Cardinality(ToSet(s)) <= Cardinality(ToSet(u))
      /\ Cardinality(ToSet(s)) # Cardinality(ToSet(u))
  BY <1>1, FS_Subset
<1>3. Len(s) \in Nat /\ Len(u) \in Nat
  BY LenProperties
<1> QED BY <1>1, <1>2, <1>3

-----------------------------------------------------------------------------
(***************************************************************************)
(* Quotients and remainders.                                               *)
(***************************************************************************)

\* Quotient and remainder.
LEMMA DivMod ==
  ASSUME NEW x \in Int, NEW w \in Nat \ {0}
  PROVE  x \div w \in Int /\ x % w \in 0 .. w - 1 /\ x = w * (x \div w) + (x % w)
OBVIOUS

\* A positive multiple of w is at least w.
LEMMA MulGe ==
  ASSUME NEW a \in Int, NEW w \in Nat \ {0}, a >= 1
  PROVE  a * w >= w
OBVIOUS

\* Quotient and remainder are unique.
LEMMA DivUnique ==
  ASSUME NEW x \in Int, NEW w \in Nat \ {0}, NEW q \in Int, NEW s \in 0 .. w - 1, x = w * q + s
  PROVE  x \div w = q /\ x % w = s
<1> DEFINE d == x \div w
<1>1. d \in Int /\ x % w \in 0 .. w - 1 /\ x = w * d + (x % w)
  BY DivMod
<1> HIDE DEF d
<1>2. (d - q) * w = s - (x % w)
  BY <1>1
<1>3. ~(d - q >= 1)
  BY <1>1, <1>2, MulGe
<1>4. ~(q - d >= 1)
  <2>1. (q - d) * w = (x % w) - s
    BY <1>1
  <2> QED BY <1>1, <2>1, MulGe
<1>5. d = q
  BY <1>1, <1>3, <1>4
<1> QED BY <1>1, <1>5 DEF d

\* A multiple of w leaves no remainder.
LEMMA MultipleMod ==
  ASSUME NEW w \in Nat \ {0}, NEW x \in Int
  PROVE  x % w = 0 <=> \E q \in Int : x = q * w
<1>1. ASSUME x % w = 0
      PROVE  \E q \in Int : x = q * w
  <2>1. x \div w \in Int /\ x = w * (x \div w) + (x % w)
    BY DivMod
  <2>2. x = (x \div w) * w
    BY <2>1, <1>1
  <2> QED BY <2>1, <2>2
<1>2. ASSUME NEW q \in Int, x = q * w
      PROVE  x % w = 0
  <2>1. x = w * q + 0 /\ 0 \in 0 .. w - 1
    BY <1>2
  <2> QED BY <2>1, DivUnique
<1> QED BY <1>1, <1>2

\* Multiples of w are closed under addition and subtraction.
LEMMA SumMod ==
  ASSUME NEW w \in Nat \ {0}, NEW x \in Int, NEW y \in Int, x % w = 0, y % w = 0
  PROVE  (x + y) % w = 0 /\ (x - y) % w = 0
<1>1. PICK q \in Int : x = q * w
  BY MultipleMod
<1>2. PICK h \in Int : y = h * w
  BY MultipleMod
<1>3. q + h \in Int /\ x + y = (q + h) * w /\ q - h \in Int /\ x - y = (q - h) * w
  BY <1>1, <1>2
<1>4. x + y \in Int /\ x - y \in Int
  OBVIOUS
<1>5. (\E z \in Int : x + y = z * w) /\ (\E z \in Int : x - y = z * w)
  BY <1>3
<1>6. \A z \in Int : (\E d \in Int : z = d * w) => z % w = 0
  BY MultipleMod
<1> QED BY <1>4, <1>5, <1>6

\* The quotients of q * w by w and by 2 * w, and its parity in units of w.
LEMMA Parity ==
  ASSUME NEW w \in Nat \ {0}, NEW q \in Int
  PROVE  /\ (q * w) \div w = q
         /\ (q * w) \div (2 * w) = q \div 2
         /\ (q % 2 = 0 <=> (q * w) % (2 * w) = 0)
<1>1. q * w = w * q + 0 /\ 0 \in 0 .. w - 1 /\ q * w \in Int
  OBVIOUS
<1>2. (q * w) \div w = q
  BY <1>1, DivUnique
<1> DEFINE h == q \div 2
           s == q % 2
<1>3. h \in Int /\ s \in {0, 1} /\ q = 2 * h + s
  OBVIOUS
<1> HIDE DEF h, s
<1>4. q * w = (2 * w) * h + s * w /\ 2 * w \in Nat \ {0}
  BY <1>3
<1>5. s * w \in 0 .. (2 * w) - 1 /\ (s * w = 0 <=> s = 0)
  BY <1>3
<1>6. (q * w) \div (2 * w) = h /\ (q * w) % (2 * w) = s * w
  <2> DEFINE ww == 2 * w
             sw == s * w
             x == q * w
  <2>1. x \in Int /\ ww \in Nat \ {0} /\ sw \in 0 .. ww - 1 /\ x = ww * h + sw
    BY <1>4, <1>5
  <2> HIDE DEF ww, sw, x
  <2>2. x \div ww = h /\ x % ww = sw
    BY <2>1, <1>3, DivUnique
  <2> QED BY <2>2 DEF ww, sw, x
<1> QED BY <1>2, <1>5, <1>6 DEF h, s

\* Dividing and multiplying again never exceeds the dividend.
LEMMA DivBelow ==
  ASSUME NEW x \in Nat, NEW w \in Nat \ {0}
  PROVE  x \div w \in Nat /\ (x \div w) * w <= x
<1> DEFINE d == x \div w
<1>1. d \in Int /\ x % w \in 0 .. w - 1 /\ x = w * d + (x % w)
  BY DivMod
<1> HIDE DEF d
<1>2. d * w = w * d
  BY <1>1
<1>3. d >= 0
  <2>1. CASE d >= 0
    BY <2>1
  <2>2. CASE d <= -1
    <3>1. -d \in Int /\ -d >= 1
      BY <2>2, <1>1
    <3>2. (-d) * w >= w
      BY <3>1, MulGe
    <3>3. (-d) * w = -(w * d)
      BY <1>1
    <3> QED BY <3>2, <3>3, <1>1
  <2> QED BY <2>1, <2>2, <1>1
<1> QED BY <1>1, <1>2, <1>3 DEF d

\* Multiplication by a natural number is monotonic.
LEMMA MulMono ==
  ASSUME NEW a \in Int, NEW b \in Int, NEW w \in Nat, a <= b
  PROVE  a * w <= b * w
<1>1. CASE w = 0
  BY <1>1
<1>2. CASE a = b
  BY <1>2
<1>3. CASE w # 0 /\ a # b
  <2>1. b - a \in Int /\ b - a >= 1 /\ w \in Nat \ {0}
    BY <1>3
  <2>2. (b - a) * w >= w
    BY <2>1, MulGe
  <2>3. (b - a) * w = b * w - a * w
    OBVIOUS
  <2> QED BY <2>2, <2>3
<1> QED BY <1>1, <1>2, <1>3

-----------------------------------------------------------------------------
(***************************************************************************)
(* Folds over 1 .. N, which add the largest element last.  What a fold     *)
(* computes is given in closed form for every set of indices done so far   *)
(* (`form' below): the form satisfies the recursion, so there is a         *)
(* function that does, and two that do agree.                              *)
(***************************************************************************)
\* A bounded set of integers has a largest element.
LEMMA MaxBetween ==
  ASSUME NEW lo \in Int, NEW hi \in Int, NEW s \in SUBSET (lo .. hi), s # {}
  PROVE  Max(s) \in s /\ \A y \in s : Max(s) >= y
<1> DEFINE T == {hi - y : y \in s}
<1>1. T \subseteq Nat /\ T # {}
  <2>1. \A y \in s : hi - y \in Nat
    OBVIOUS
  <2> QED BY <2>1
<1>2. PICK m \in T : \A k \in T : m <= k
  BY <1>1, Least
<1>3. PICK x \in s : m = hi - x
  BY <1>2
<1>4. \A y \in s : x >= y
  <2> SUFFICES ASSUME NEW y \in s PROVE x >= y
    OBVIOUS
  <2>1. hi - y \in T
    OBVIOUS
  <2>2. hi - x <= hi - y
    BY <1>2, <1>3, <2>1
  <2> QED BY <2>2
<1> QED BY <1>4 DEF Max

\* The largest element of a set of indices.
LEMMA MaxOf ==
  ASSUME NEW N \in Nat, NEW s \in SUBSET (1 .. N), s # {}
  PROVE  Max(s) \in s /\ \A y \in s : Max(s) >= y
<1>1. 1 \in Int /\ N \in Int
  OBVIOUS
<1> QED BY <1>1, MaxBetween, Zenon

\* Two functions on sets of indices agree if they agree on a set whenever
\* they do on what is left of it without its largest element.
LEMMA FoldsAgree ==
  ASSUME NEW N \in Nat, NEW f, NEW g, f[{}] = g[{}],
         \A s \in SUBSET (1 .. N) :
           s # {} /\ f[s \ {Max(s)}] = g[s \ {Max(s)}] => f[s] = g[s]
  PROVE  f[1 .. N] = g[1 .. N]
<1> DEFINE T == {k \in 0 .. N : \E s \in SUBSET (1 .. k) : f[s] # g[s]}
<1> SUFFICES ASSUME T # {} PROVE FALSE
  <2>1. N \notin T => f[1 .. N] = g[1 .. N]
    OBVIOUS
  <2> QED BY <2>1
<1>1. PICK m \in T : \A k \in T : m <= k
  <2>1. T \subseteq Nat
    OBVIOUS
  <2> QED BY <2>1, Least
<1>2. PICK s \in SUBSET (1 .. m) : f[s] # g[s]
  BY <1>1
<1>3. s # {} /\ m \in 1 .. N
  <2>1. s # {} /\ m \in 0 .. N
    BY <1>1, <1>2
  <2>2. PICK y \in s : TRUE
    BY <2>1
  <2>3. y \in 1 .. m
    BY <1>2
  <2> HIDE DEF T
  <2> QED BY <2>1, <2>3
<1>4. m - 1 \notin T /\ m - 1 \in 0 .. N
  <2>1. m - 1 \in 0 .. N /\ ~(m <= m - 1)
    BY <1>3
  <2> HIDE DEF T
  <2> QED BY <1>1, <2>1
<1>5. \A u \in SUBSET (1 .. m - 1) : f[u] = g[u]
  BY <1>4
<1>6. s \in SUBSET (1 .. N)
  BY <1>3
<1>7. Max(s) \in s /\ \A y \in s : Max(s) >= y
  BY <1>3, <1>6, MaxOf
<1>8. s \ {Max(s)} \in SUBSET (1 .. m - 1)
  <2> SUFFICES ASSUME NEW y \in s, y # Max(s) PROVE y \in 1 .. m - 1
    OBVIOUS
  <2>1. y \in 1 .. m /\ Max(s) \in 1 .. m /\ Max(s) >= y
    BY <1>7
  <2> HIDE DEF T
  <2> QED BY <2>1, <1>3
<1> QED BY <1>2, <1>3, <1>5, <1>6, <1>8

\* What every step of a fold keeps holds at its end.
LEMMA FoldStays ==
  ASSUME NEW N \in Nat, NEW D, NEW f, f[{}] \in D[{}],
         \A s \in SUBSET (1 .. N) :
           s # {} /\ f[s \ {Max(s)}] \in D[s \ {Max(s)}] => f[s] \in D[s]
  PROVE  f[1 .. N] \in D[1 .. N]
<1> DEFINE T == {k \in 0 .. N : \E s \in SUBSET (1 .. k) : f[s] \notin D[s]}
<1> SUFFICES ASSUME T # {} PROVE FALSE
  <2>1. N \notin T => f[1 .. N] \in D[1 .. N]
    OBVIOUS
  <2> QED BY <2>1
<1>1. PICK m \in T : \A k \in T : m <= k
  <2>1. T \subseteq Nat
    OBVIOUS
  <2> QED BY <2>1, Least
<1>2. PICK s \in SUBSET (1 .. m) : f[s] \notin D[s]
  BY <1>1
<1>3. s # {} /\ m \in 1 .. N
  <2>1. s # {} /\ m \in 0 .. N
    BY <1>1, <1>2
  <2>2. PICK y \in s : TRUE
    BY <2>1
  <2>3. y \in 1 .. m
    BY <1>2
  <2> HIDE DEF T
  <2> QED BY <2>1, <2>3
<1>4. m - 1 \notin T /\ m - 1 \in 0 .. N
  <2>1. m - 1 \in 0 .. N /\ ~(m <= m - 1)
    BY <1>3
  <2> HIDE DEF T
  <2> QED BY <1>1, <2>1
<1>5. \A u \in SUBSET (1 .. m - 1) : f[u] \in D[u]
  BY <1>4
<1>6. s \in SUBSET (1 .. N)
  BY <1>3
<1>7. Max(s) \in s /\ \A y \in s : Max(s) >= y
  BY <1>3, <1>6, MaxOf
<1>8. s \ {Max(s)} \in SUBSET (1 .. m - 1)
  <2> SUFFICES ASSUME NEW y \in s, y # Max(s) PROVE y \in 1 .. m - 1
    OBVIOUS
  <2>1. y \in 1 .. m /\ Max(s) \in 1 .. m /\ Max(s) >= y
    BY <1>7
  <2> HIDE DEF T
  <2> QED BY <2>1, <1>3
<1> QED BY <1>2, <1>3, <1>5, <1>6, <1>8

\* A step g that stays in D can be folded.
FoldsTo(f, D, b, g, N) ==
  /\ f = [s \in SUBSET (1 .. N) |-> IF s = {} THEN b ELSE g[f[s \ {Max(s)}]][Max(s)]]
  /\ \A s \in SUBSET (1 .. N) : f[s] \in D

LEMMA FoldExists ==
  ASSUME NEW N \in Nat, NEW D, NEW b \in D, NEW g, \A d \in D : \A i \in 1 .. N : g[d][i] \in D
  PROVE  \E f : FoldsTo(f, D, b, g, N)
<1> DEFINE Bad == {k \in 0 .. N : ~\E f : FoldsTo(f, D, b, g, k)}
<1> SUFFICES ASSUME Bad # {} PROVE FALSE
  <2>1. Bad = {} => N \notin Bad
    OBVIOUS
  <2>2. N \in 0 .. N
    OBVIOUS
  <2>3. N \notin Bad => \E f : FoldsTo(f, D, b, g, N)
    BY <2>2, Zenon
  <2> QED BY <2>1, <2>3, Zenon
<1>1. PICK k \in Bad : \A j \in Bad : k <= j
  <2>1. Bad \subseteq Nat
    OBVIOUS
  <2> QED BY <2>1, Least
<1>2. k # 0
  <2> DEFINE f0 == [s \in SUBSET (1 .. 0) |-> b]
  <2>1. SUBSET (1 .. 0) = {{}}
    OBVIOUS
  <2>2. f0 = [s \in SUBSET (1 .. 0) |-> IF s = {} THEN b ELSE g[f0[s \ {Max(s)}]][Max(s)]]
    BY <2>1
  <2>3. FoldsTo(f0, D, b, g, 0)
    BY <2>1, <2>2 DEF FoldsTo
  <2> HIDE DEF f0
  <2> QED BY <2>3
<1>3. k \in 1 .. N /\ k - 1 \in 0 .. N /\ k - 1 \notin Bad
  <2>1. k \in 1 .. N /\ k - 1 \in 0 .. N /\ ~(k <= k - 1)
    BY <1>1, <1>2
  <2> HIDE DEF Bad
  <2> QED BY <1>1, <2>1
<1>4. PICK f : FoldsTo(f, D, b, g, k - 1)
  BY <1>3
<1> DEFINE h == [s \in SUBSET (1 .. k) |->
                   IF s = {} THEN b ELSE g[f[s \ {Max(s)}]][Max(s)]]
<1>5. ASSUME NEW s \in SUBSET (1 .. k), s # {}
      PROVE  Max(s) \in 1 .. N /\ s \ {Max(s)} \in SUBSET (1 .. k - 1)
  <2>1. k \in Nat /\ k <= N
    BY <1>3
  <2> HIDE DEF Bad
  <2>2. Max(s) \in s /\ \A y \in s : Max(s) >= y
    BY <1>5, <2>1, MaxOf
  <2>3. ASSUME NEW y \in s, y # Max(s) PROVE y \in 1 .. k - 1
    <3>1. y \in 1 .. k /\ Max(s) \in 1 .. k /\ Max(s) >= y
      BY <2>2
    <3> QED BY <2>1, <2>3, <3>1
  <2>4. Max(s) \in 1 .. k
    BY <2>2
  <2>5. s \ {Max(s)} \subseteq 1 .. k - 1
    BY <2>3
  <2>6. Max(s) \in 1 .. N
    BY <2>1, <2>4
  <2> QED BY <2>5, <2>6
<1>6. \A s \in SUBSET (1 .. k - 1) : s \in SUBSET (1 .. k) /\ h[s] = f[s] /\ f[s] \in D
  <2>1. \A s \in SUBSET (1 .. k - 1) : s \in SUBSET (1 .. k)
    BY <1>3
  <2>2. \A s \in SUBSET (1 .. k - 1) :
          f[s] = (IF s = {} THEN b ELSE g[f[s \ {Max(s)}]][Max(s)]) /\ f[s] \in D
    BY <1>4, Zenon DEF FoldsTo
  <2> QED BY <2>1, <2>2
<1>7. \A s \in SUBSET (1 .. k) :
        /\ h[s] = IF s = {} THEN b ELSE g[h[s \ {Max(s)}]][Max(s)]
        /\ h[s] \in D
  BY <1>5, <1>6
<1>8. h = [s \in SUBSET (1 .. k) |-> h[s]]
  OBVIOUS
<1> HIDE DEF h
<1>9. FoldsTo(h, D, b, g, k)
  <2>1. h = [s \in SUBSET (1 .. k) |-> IF s = {} THEN b ELSE g[h[s \ {Max(s)}]][Max(s)]]
    BY <1>7, <1>8
  <2> QED BY <2>1, <1>7 DEF FoldsTo
<1> QED BY <1>1, <1>9

\* A function on 0 .. H - 1.
OnRows(px, H) == px = [r \in 0 .. H - 1 |-> px[r]]

\* Elements copied n places down in ascending order.
Shift(px, n, H) ==
  FoldLeft(LAMBDA m, i : [m EXCEPT ![i - 1] = m[i - 1 + n]], px, [i \in 1 .. H - n |-> i])

Shifted(px, n, H) == [r \in 0 .. H - 1 |-> IF r < H - n THEN px[r + n] ELSE px[r]]

\* None is overwritten before it is read.
LEMMA FoldShift ==
  ASSUME NEW H \in Nat, NEW n \in Nat \ {0}, n <= H, NEW px, OnRows(px, H)
  PROVE  Shift(px, n, H) = Shifted(px, n, H)
<1> DEFINE Rows == 0 .. H - 1
           N == H - n
           index == [i \in 1 .. N |-> i]
           Step(it) == [s \in SUBSET (DOMAIN index) |->
                          IF s = {} THEN px
                          ELSE LET x == Max(s)
                               IN  [it[s \ {x}] EXCEPT ![index[x] - 1] = it[s \ {x}][index[x] - 1 + n]]]
           fold == CHOOSE it : it = Step(it)
           form == [s \in SUBSET (1 .. N) |-> [r \in Rows |-> IF r + 1 \in s THEN px[r + n] ELSE px[r]]]
           Moved(p, s) == [p EXCEPT ![index[Max(s)] - 1] = p[index[Max(s)] - 1 + n]]
<1>1. Shift(px, n, H) = fold[DOMAIN index]
  BY Zenon DEF Shift, FoldLeft, MapThenFoldSet
<1>2. DOMAIN index = 1 .. N /\ N \in Nat /\ \A x \in 1 .. N : index[x] = x
  OBVIOUS
<1>3. ASSUME NEW s \in SUBSET (1 .. N), s # {}, NEW p, p = form[s \ {Max(s)}]
      PROVE  form[s] = Moved(p, s)
  <2> DEFINE x == Max(s)
  <2>1. x \in s /\ \A y \in s : x >= y
    BY <1>2, <1>3, MaxOf
  <2> HIDE DEF x
  <2>2. x \in 1 .. N /\ index[x] = x
    BY <2>1, <1>2
  <2>3. p = [r \in Rows |-> IF r + 1 \in s \ {x} THEN px[r + n] ELSE px[r]]
    BY <1>3 DEF x
  <2>4. x - 1 \in Rows /\ x - 1 + n \in Rows
    BY <2>2
  <2>5. p[x - 1 + n] = px[x - 1 + n]
    BY <2>1, <2>2, <2>3, <2>4
  <2>6. form[s] = [r \in Rows |-> IF r + 1 \in s THEN px[r + n] ELSE px[r]]
    BY <1>3
  <2>7. form[s] = [p EXCEPT ![x - 1] = px[x - 1 + n]]
    <3>1. \A r \in Rows : r + 1 \in s <=> (r = x - 1 \/ r + 1 \in s \ {x})
      BY <2>1, <2>2
    <3> HIDE DEF form
    <3> QED BY <2>2, <2>3, <2>4, <2>6, <3>1
  <2> QED BY <2>2, <2>5, <2>7 DEF x
<1>4. form[{}] = px
  BY <1>2 DEF OnRows
<1> HIDE DEF N, index, Moved
<1>5. form = Step(form)
  <2>1. \A s \in SUBSET (1 .. N) : form[s] = IF s = {} THEN px ELSE Moved(form[s \ {Max(s)}], s)
    BY <1>3, <1>4
  <2>2. form = [s \in SUBSET (1 .. N) |-> form[s]]
    OBVIOUS
  <2> HIDE DEF form
  <2>3. form = [s \in SUBSET (1 .. N) |-> IF s = {} THEN px ELSE Moved(form[s \ {Max(s)}], s)]
    BY <2>1, <2>2
  <2> QED BY <2>3, <1>2, Zenon DEF Moved
<1>6. fold = Step(fold)
  BY <1>5, Zenon DEF fold
<1> HIDE DEF fold, form
<1>7. /\ fold[{}] = px
      /\ \A s \in SUBSET (1 .. N) : s # {} => fold[s] = Moved(fold[s \ {Max(s)}], s)
  <2> DEFINE st == [s \in SUBSET (1 .. N) |-> IF s = {} THEN px ELSE Moved(fold[s \ {Max(s)}], s)]
  <2>1. st[{}] = px /\ \A s \in SUBSET (1 .. N) : s # {} => st[s] = Moved(fold[s \ {Max(s)}], s)
    OBVIOUS
  <2>2. st = fold
    BY <1>6, <1>2, Zenon DEF Moved
  <2> HIDE DEF st
  <2> QED BY <2>1, <2>2
<1>8. fold[1 .. N] = form[1 .. N]
  <2>1. \A s \in SUBSET (1 .. N) :
          s # {} /\ fold[s \ {Max(s)}] = form[s \ {Max(s)}] => fold[s] = form[s]
    BY <1>3, <1>7
  <2>2. N \in Nat /\ fold[{}] = form[{}]
    BY <1>2, <1>4, <1>7
  <2> QED BY <2>1, <2>2, FoldsAgree, Zenon
<1>9. form[1 .. N] = Shifted(px, n, H)
  BY <1>2 DEF form, N, Shifted
<1> QED BY <1>1, <1>2, <1>8, <1>9

\* The rows of a mark added to h consecutive elements, one each, if they are inside.
AddMarks(px, x, y, c, h, H, W) ==
  FoldLeft(LAMBDA p, i :
             [r \in 0 .. H - 1 |->
                IF r = y + i - 1 /\ [x |-> x, ch |-> c, row |-> i - 1].x \in 0 .. W - 1
                THEN p[r] \cup {[x |-> x, ch |-> c, row |-> i - 1]} ELSE p[r]],
           px, [i \in 1 .. h |-> i])

Marked(px, x, y, c, h, H, W) ==
  [r \in 0 .. H - 1 |-> IF r \in y .. y + h - 1 /\ x \in 0 .. W - 1
                        THEN px[r] \cup {[x |-> x, ch |-> c, row |-> r - y]} ELSE px[r]]

LEMMA FoldMarks ==
  ASSUME NEW H \in Nat, NEW W, NEW x0, NEW y0 \in Nat, NEW h \in Nat, NEW c,
         NEW px, OnRows(px, H)
  PROVE  AddMarks(px, x0, y0, c, h, H, W) = Marked(px, x0, y0, c, h, H, W)
<1> DEFINE Rows == 0 .. H - 1
           mark(i) == [x |-> x0, ch |-> c, row |-> i]
           Put(p, i) == [r \in 0 .. H - 1 |->
                           IF r = y0 + i - 1 /\ [x |-> x0, ch |-> c, row |-> i - 1].x \in 0 .. W - 1
                           THEN p[r] \cup {[x |-> x0, ch |-> c, row |-> i - 1]} ELSE p[r]]
           index == [i \in 1 .. h |-> i]
           Step(it) == [s \in SUBSET (DOMAIN index) |->
                          IF s = {} THEN px
                          ELSE LET x == Max(s) IN Put(it[s \ {x}], index[x])]
           fold == CHOOSE it : it = Step(it)
           inside == x0 \in 0 .. W - 1
           form == [s \in SUBSET (1 .. h) |->
                      [r \in Rows |-> IF (r - y0) + 1 \in s /\ inside
                                      THEN px[r] \cup {mark(r - y0)} ELSE px[r]]]
           Blitted(p, s) == Put(p, index[Max(s)])
<1>1. AddMarks(px, x0, y0, c, h, H, W) = fold[DOMAIN index]
  BY Zenon DEF AddMarks, FoldLeft, MapThenFoldSet
<1>2. DOMAIN index = 1 .. h /\ \A x \in 1 .. h : index[x] = x
  OBVIOUS
<1>3. ASSUME NEW s \in SUBSET (1 .. h), s # {}, NEW p, p = form[s \ {Max(s)}]
      PROVE  form[s] = Blitted(p, s)
  <2> DEFINE x == Max(s)
  <2>1. x \in s /\ \A y \in s : x >= y
    BY <1>3, MaxOf
  <2> HIDE DEF x
  <2>2. x \in 1 .. h /\ index[x] = x
    BY <2>1, <1>2
  <2>3. Blitted(p, s) = Put(p, x)
    BY <2>2 DEF x
  <2>4. Put(p, x) = [r \in Rows |-> IF r = y0 + x - 1 /\ inside THEN p[r] \cup {mark(x - 1)} ELSE p[r]]
    OBVIOUS
  <2> HIDE DEF mark, inside, Put, Blitted
  <2>5. p = [r \in Rows |-> IF (r - y0) + 1 \in s \ {x} /\ inside
                            THEN px[r] \cup {mark(r - y0)} ELSE px[r]]
    BY <1>3 DEF x
  <2>6. form[s] = [r \in Rows |-> IF (r - y0) + 1 \in s /\ inside
                                  THEN px[r] \cup {mark(r - y0)} ELSE px[r]]
    BY <1>3
  <2>7. ASSUME NEW r \in Rows
        PROVE  (IF (r - y0) + 1 \in s /\ inside THEN px[r] \cup {mark(r - y0)} ELSE px[r]) =
                 IF r = y0 + x - 1 /\ inside THEN p[r] \cup {mark(x - 1)} ELSE p[r]
    <3>1. r \in Int
      OBVIOUS
    <3>2. CASE r = y0 + x - 1
      <4>1. (r - y0) + 1 = x /\ r - y0 = x - 1
        BY <3>1, <3>2, <2>2
      <4> QED BY <4>1, <3>2, <2>1, <2>5
    <3>3. CASE r # y0 + x - 1
      <4>1. (r - y0) + 1 # x
        BY <3>1, <3>3, <2>2
      <4> QED BY <4>1, <3>3, <2>5
    <3> QED BY <3>2, <3>3
  <2> HIDE DEF form
  <2> QED BY <2>3, <2>4, <2>6, <2>7
<1>4. form[{}] = px
  BY DEF OnRows
<1> HIDE DEF index, Blitted
<1>5. form = Step(form)
  <2>1. \A s \in SUBSET (1 .. h) : form[s] = IF s = {} THEN px ELSE Blitted(form[s \ {Max(s)}], s)
    BY <1>3, <1>4
  <2>2. form = [s \in SUBSET (1 .. h) |-> form[s]]
    OBVIOUS
  <2> HIDE DEF form
  <2>3. form = [s \in SUBSET (1 .. h) |-> IF s = {} THEN px ELSE Blitted(form[s \ {Max(s)}], s)]
    BY <2>1, <2>2
  <2> QED BY <2>3, <1>2, Zenon DEF Blitted
<1>6. fold = Step(fold)
  BY <1>5, Zenon DEF fold
<1> HIDE DEF fold, form
<1>7. /\ fold[{}] = px
      /\ \A s \in SUBSET (1 .. h) : s # {} => fold[s] = Blitted(fold[s \ {Max(s)}], s)
  <2> DEFINE st == [s \in SUBSET (1 .. h) |-> IF s = {} THEN px ELSE Blitted(fold[s \ {Max(s)}], s)]
  <2>1. st[{}] = px /\ \A s \in SUBSET (1 .. h) : s # {} => st[s] = Blitted(fold[s \ {Max(s)}], s)
    OBVIOUS
  <2>2. st = fold
    BY <1>6, <1>2, Zenon DEF Blitted
  <2> HIDE DEF st
  <2> QED BY <2>1, <2>2
<1>8. fold[1 .. h] = form[1 .. h]
  <2>1. \A s \in SUBSET (1 .. h) :
          s # {} /\ fold[s \ {Max(s)}] = form[s \ {Max(s)}] => fold[s] = form[s]
    BY <1>3, <1>7
  <2>2. h \in Nat /\ fold[{}] = form[{}]
    BY <1>4, <1>7
  <2> QED BY <2>1, <2>2, FoldsAgree, Zenon
<1>9. form[1 .. h] = Marked(px, x0, y0, c, h, H, W)
  <2>1. \A r \in Rows : (r - y0) + 1 \in 1 .. h <=> r \in y0 .. y0 + h - 1
    OBVIOUS
  <2> HIDE DEF mark, inside
  <2>2. form[1 .. h] = [r \in Rows |-> IF (r - y0) + 1 \in 1 .. h /\ inside
                                       THEN px[r] \cup {mark(r - y0)} ELSE px[r]]
    BY DEF form
  <2>3. form[1 .. h] = [r \in Rows |-> IF r \in y0 .. y0 + h - 1 /\ inside
                                       THEN px[r] \cup {mark(r - y0)} ELSE px[r]]
    BY <2>1, <2>2
  <2> QED BY <2>3, Zenon DEF mark, inside, Marked
<1> QED BY <1>1, <1>2, <1>8, <1>9, Zenon

=============================================================================
