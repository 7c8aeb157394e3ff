------------------------------ MODULE VmaProofs ------------------------------
(***************************************************************************)
(* Proofs about the areas of the kernel's address space: what the walks of *)
(* vma.c find, what an insertion and a removal make of the tree, and, from *)
(* these and the repair loops, what holds of every execution in which only *)
(* harmless areas are freed.                                               *)
(***************************************************************************)
EXTENDS TreeProofs

-----------------------------------------------------------------------------
(***************************************************************************)
(* What the walks of vma.c find.                                           *)
(***************************************************************************)
IsSearch(f, addr) ==
  f = [n \in NN |-> IF n = NULL THEN NULL
                    ELSE IF addr < area[n].start THEN f[tree.kid["left"][n]]
                    ELSE IF addr >= area[n].end THEN f[tree.kid["right"][n]]
                    ELSE n]

Holds(n, addr) == area[n].start <= addr /\ addr < area[n].end

LEMMA SearchEq ==
  ASSUME NEW S, Shape(tree, S, placed, area), NEW addr
  PROVE  \E f : /\ vma_search(addr) = f[tree.root]
               /\ f[NULL] = NULL
               /\ \A n \in Nodes : f[n] = IF addr < area[n].start THEN f[tree.kid["left"][n]]
                                          ELSE IF addr >= area[n].end THEN f[tree.kid["right"][n]]
                                          ELSE n
<1> USE DEF Shape
<1> DEFINE t == tree
           go == [n \in NN |-> n # NULL /\ (addr < area[n].start \/ addr >= area[n].end)]
           step == [n \in NN |-> IF addr < area[n].start THEN t.kid["left"][n] ELSE t.kid["right"][n]]
           val == [n \in NN |-> n]
           rank == [n \in NN |-> IF n = NULL THEN 0 ELSE Size(S)[n] + 1]
           N == Cardinality(Nodes) + 2
<1>1. PICK g : Loops(g, NN, go, step, val)
  <2>1. \A n \in Nodes : Size(S)[n] \in Nat /\ Size(S)[n] + 1 < N
    <3>1. Cardinality(Nodes) \in Nat
      BY TreeAssumption, FS_CardinalityType
    <3> QED BY <3>1, Sizing
  <2>2. rank \in [NN -> Nat] /\ N \in Nat /\ \A n \in NN : rank[n] < N
    <3>1. N \in Nat /\ 0 < N
      BY TreeAssumption, FS_CardinalityType
    <3> HIDE DEF N
    <3> QED BY <2>1, <3>1 DEF NN
  <2>3. ASSUME NEW n \in NN, go[n]
        PROVE  step[n] \in NN /\ rank[step[n]] < rank[n]
    <3>1. n \in Nodes /\ n # NULL
      BY <2>3 DEF NN
    <3>2. PICK d \in Sides : step[n] = t.kid[d][n]
      BY <3>1 DEF NN, Sides
    <3>3. step[n] \in NN /\ rank[n] = Size(S)[n] + 1
      BY <3>1, <3>2 DEF TreeType, NN
    <3>4. step[n] # NULL => step[n] \in Nodes /\ Size(S)[step[n]] < Size(S)[n]
      BY <3>1, <3>2, Sizing
    <3>5. rank[step[n]] = IF step[n] = NULL THEN 0 ELSE Size(S)[step[n]] + 1
      BY <3>3
    <3> HIDE DEF step, rank
    <3> QED BY <2>1, <3>1, <3>3, <3>4, <3>5
  <2> HIDE DEF go, step, val, rank, N
  <2> QED BY <2>2, <2>3, TailRecursion
<1>2. IsSearch(g, addr)
  <2>1. g = [n \in NN |-> g[n]] /\ \A n \in NN : g[n] = IF go[n] THEN g[step[n]] ELSE val[n]
    BY <1>1 DEF Loops
  <2>2. \A n \in NN : g[n] = IF n = NULL THEN NULL
                             ELSE IF addr < area[n].start THEN g[t.kid["left"][n]]
                             ELSE IF addr >= area[n].end THEN g[t.kid["right"][n]]
                             ELSE n
    BY <2>1
  <2> QED BY <2>1, <2>2 DEF IsSearch
<1> DEFINE F == CHOOSE f : IsSearch(f, addr)
<1>3. IsSearch(F, addr)
  BY <1>2, Zenon
<1>4. vma_search(addr) = F[t.root]
  BY Zenon DEF vma_search, IsSearch, NN
<1> HIDE DEF F
<1>5. F[NULL] = NULL
  BY <1>3 DEF IsSearch, NN
<1>6. \A n \in Nodes : F[n] = IF addr < area[n].start THEN F[t.kid["left"][n]]
                              ELSE IF addr >= area[n].end THEN F[t.kid["right"][n]]
                              ELSE n
  BY <1>3, TreeAssumption DEF IsSearch, NN
<1> QED BY <1>4, <1>5, <1>6

LEMMA SearchIs ==
  ASSUME NEW S, Shape(tree, S, placed, area), AreasOK(area, placed), NEW addr \in Nat
  PROVE  {n \in placed : Holds(n, addr)} = {vma_search(addr)} \ {NULL}
<1> USE DEF Shape
<1>0. placed \subseteq Nodes
  BY DEF Linked
<1>1. PICK f : /\ vma_search(addr) = f[tree.root]
               /\ f[NULL] = NULL
               /\ \A n \in Nodes : f[n] = IF addr < area[n].start THEN f[tree.kid["left"][n]]
                                          ELSE IF addr >= area[n].end THEN f[tree.kid["right"][n]]
                                          ELSE n
  BY SearchEq
<1> DEFINE Found(n) == \A m : m \in S[n] /\ Holds(m, addr) <=> m = f[n] /\ m # NULL
           Q == {n \in Nodes : Found(n)}
<1>2. Found(NULL)
  BY <1>1 DEF Nested
<1>3. ASSUME NEW n \in Nodes, \A d \in Sides : tree.kid[d][n] # NULL => tree.kid[d][n] \in Q
      PROVE  n \in Q
  <2> DEFINE l == tree.kid["left"][n]
             r == tree.kid["right"][n]
  <2>1. S[n] = {n} \cup S[l] \cup S[r]
    BY DEF Nested
  <2>2. Found(l) /\ Found(r)
    <3>1. \A d \in Sides : Found(tree.kid[d][n])
      BY <1>2, <1>3
    <3> QED BY <3>1 DEF Sides
  <2>3. area[n].start \in Nat /\ area[n].end \in Nat
    BY DEF AreasOK
  <2>4. CASE n \notin placed
    <3>1. l = NULL /\ r = NULL
      BY <2>4 DEF Linked, Sides
    <3>2. area[n].start = 0 /\ area[n].end = 0
      BY <2>4 DEF AreasOK, NoArea
    <3>3. f[n] = NULL /\ ~Holds(n, addr)
      BY <1>1, <3>1, <3>2 DEF Holds
    <3>4. S[n] = {n}
      BY <2>1, <3>1 DEF Nested
    <3> QED BY <3>3, <3>4
  <2>5. CASE n \in placed
    <3>1. \A m \in S[l] : area[m].end <= area[n].start
      BY <2>5 DEF Ordered, On, Sides
    <3>2. \A m \in S[r] : area[n].end <= area[m].start
      BY <2>5 DEF Ordered, On, Sides
    <3>3. \A m \in S[n] : area[m].start \in Nat /\ area[m].end \in Nat
      <4>1. S[n] \subseteq Nodes
        BY DEF Nested, NN
      <4> QED BY <4>1 DEF AreasOK
    <3>4. area[n].start <= area[n].end
      BY <2>5 DEF AreasOK
    <3>5. CASE addr < area[n].start
      <4>1. f[n] = f[l]
        BY <1>1, <3>5
      <4>2. \A m \in S[r] : ~Holds(m, addr)
        BY <2>1, <2>3, <3>2, <3>3, <3>4, <3>5 DEF Holds
      <4>3. ~Holds(n, addr)
        BY <2>3, <3>5 DEF Holds
      <4>4. Found(n)
        BY <2>1, <2>2, <4>1, <4>2, <4>3
      <4> QED BY <4>4
    <3>6. CASE ~(addr < area[n].start) /\ addr >= area[n].end
      <4>1. f[n] = f[r]
        BY <1>1, <3>6
      <4>2. \A m \in S[l] : ~Holds(m, addr)
        BY <2>1, <2>3, <3>1, <3>3, <3>4, <3>6 DEF Holds
      <4>3. ~Holds(n, addr)
        BY <2>3, <3>6 DEF Holds
      <4>4. Found(n)
        BY <2>1, <2>2, <4>1, <4>2, <4>3
      <4> QED BY <4>4
    <3>7. CASE ~(addr < area[n].start) /\ ~(addr >= area[n].end)
      <4>1. f[n] = n /\ n # NULL
        BY <1>1, <3>7, TreeAssumption
      <4>2. \A m \in S[l] : ~Holds(m, addr)
        BY <2>1, <2>3, <3>1, <3>3, <3>7 DEF Holds
      <4>3. \A m \in S[r] : ~Holds(m, addr)
        BY <2>1, <2>3, <3>2, <3>3, <3>7 DEF Holds
      <4>4. Holds(n, addr)
        BY <2>3, <3>7 DEF Holds
      <4>5. Found(n)
        BY <2>1, <4>1, <4>2, <4>3, <4>4
      <4> QED BY <4>5
    <3> QED BY <3>5, <3>6, <3>7
  <2> QED BY <2>4, <2>5
<1>4. Nodes \subseteq Q
  <2> HIDE DEF Q
  <2> QED BY <1>3, TreeInduction
<1>5. Found(tree.root)
  BY <1>2, <1>4 DEF TreeType, NN
<1> QED BY <1>1, <1>5

IsDescent(f, a) ==
  f = [n \in Nodes |-> LET d == SideOf(a, n)
                       IN  IF d = "none" THEN NoLink
                           ELSE IF tree.kid[d][n] = NULL THEN [at |-> n, side |-> d]
                           ELSE f[tree.kid[d][n]]]

LEMMA DescentEq ==
  ASSUME NEW S, Shape(tree, S, placed, area), NEW a
  PROVE  \E f : /\ tree.root # NULL => Descend(a) = f[tree.root]
               /\ \A n \in Nodes : f[n] = LET d == SideOf(a, n)
                                          IN  IF d = "none" THEN NoLink
                                              ELSE IF tree.kid[d][n] = NULL
                                                   THEN [at |-> n, side |-> d]
                                              ELSE f[tree.kid[d][n]]
<1> USE DEF Shape
<1> DEFINE go == [n \in Nodes |-> SideOf(a, n) # "none" /\ tree.kid[SideOf(a, n)][n] # NULL]
           step == [n \in Nodes |-> tree.kid[SideOf(a, n)][n]]
           val == [n \in Nodes |-> IF SideOf(a, n) = "none" THEN NoLink
                                   ELSE [at |-> n, side |-> SideOf(a, n)]]
<1>0. \A n : SideOf(a, n) # "none" => SideOf(a, n) \in Sides
  BY DEF SideOf, Sides
<1>1. PICK g : Loops(g, Nodes, go, step, val)
  <2>1. \A n \in Nodes : go[n] => step[n] \in Nodes /\ Size(S)[step[n]] < Size(S)[n]
    BY <1>0, Sizing
  <2> HIDE DEF go, step, val
  <2> QED BY <2>1, Sizing, TailRecursion
<1>2. IsDescent(g, a)
  <2>1. g = [n \in Nodes |-> g[n]] /\ \A n \in Nodes : g[n] = IF go[n] THEN g[step[n]] ELSE val[n]
    BY <1>1 DEF Loops
  <2>2. \A n \in Nodes : g[n] = LET d == SideOf(a, n)
                                IN  IF d = "none" THEN NoLink
                                    ELSE IF tree.kid[d][n] = NULL THEN [at |-> n, side |-> d]
                                    ELSE g[tree.kid[d][n]]
    BY <2>1
  <2> QED BY <2>1, <2>2 DEF IsDescent
<1> DEFINE F == CHOOSE f : IsDescent(f, a)
<1>3. IsDescent(F, a)
  BY <1>2, Zenon
<1>4. tree.root # NULL => Descend(a) = F[tree.root]
  BY Zenon DEF Descend, IsDescent
<1> HIDE DEF F
<1>5. \A n \in Nodes : F[n] = LET d == SideOf(a, n)
                              IN  IF d = "none" THEN NoLink
                                  ELSE IF tree.kid[d][n] = NULL THEN [at |-> n, side |-> d]
                                  ELSE F[tree.kid[d][n]]
  BY <1>3 DEF IsDescent
<1> QED BY <1>4, <1>5

\* From n down to a free link, on whose side area a is at every node on the way.
FreeLink(S, n, a, link) ==
  \E p \in S[n] : \E d \in Sides :
    /\ link = [at |-> p, side |-> d]
    /\ tree.kid[d][p] = NULL
    /\ \A m \in S[n] : \A e \in Sides :
         p \in S[tree.kid[e][m]] \/ (m = p /\ e = d) => SideOf(a, m) = e

LEMMA DescentIs ==
  ASSUME NEW S, Shape(tree, S, placed, area), NEW a, tree.root # NULL
  PROVE  \/ Descend(a) = NoLink /\ \E m \in placed : SideOf(a, m) = "none"
         \/ FreeLink(S, tree.root, a, Descend(a))
<1> USE DEF Shape
<1>1. PICK f : /\ Descend(a) = f[tree.root]
               /\ \A n \in Nodes : f[n] = LET d == SideOf(a, n)
                                          IN  IF d = "none" THEN NoLink
                                              ELSE IF tree.kid[d][n] = NULL
                                                   THEN [at |-> n, side |-> d]
                                              ELSE f[tree.kid[d][n]]
  BY DescentEq
<1> DEFINE Q == {n \in Nodes : \/ f[n] = NoLink /\ \E m \in S[n] : SideOf(a, m) = "none"
                               \/ FreeLink(S, n, a, f[n])}
<1>2. ASSUME NEW n \in Nodes, \A d \in Sides : tree.kid[d][n] # NULL => tree.kid[d][n] \in Q
      PROVE  n \in Q
  <2> DEFINE d == SideOf(a, n)
             k == tree.kid[d][n]
  <2>0. n \in S[n]
    BY DEF Nested
  <2>1. CASE d = "none"
    BY <1>1, <2>0, <2>1
  <2>2. CASE d # "none"
    <3>0. d \in Sides
      BY <2>2 DEF SideOf, Sides
    <3>1. /\ S[n] = {n} \cup S[k] \cup S[tree.kid[Other(d)][n]]
          /\ n \notin S[k] /\ n \notin S[tree.kid[Other(d)][n]]
          /\ S[k] \cap S[tree.kid[Other(d)][n]] = {}
          /\ k \in NN /\ tree.kid[Other(d)][n] \in NN
      BY <3>0, NestedSides, SideFacts
    <3>2. ASSUME NEW m, NEW j \in Sides, m \in S[tree.kid[j][n]], NEW e \in Sides
          PROVE  S[tree.kid[e][m]] \subseteq S[tree.kid[j][n]]
      <4>1. tree.kid[j][n] \in NN
        BY NestedSides
      <4>2. m \in Nodes /\ S[m] \subseteq S[tree.kid[j][n]]
        BY <3>2, <4>1, Inside
      <4> QED BY <4>2, NestedSides
    <3>3. CASE k = NULL
      <4>1. f[n] = [at |-> n, side |-> d]
        BY <1>1, <2>2, <3>3
      <4>2. ASSUME NEW m \in S[n], NEW e \in Sides, n \in S[tree.kid[e][m]] \/ (m = n /\ e = d)
            PROVE  SideOf(a, m) = e
        <5>1. m = n
          <6>1. CASE m \in S[k]
            BY <3>0, <3>1, <3>2, <4>2, <6>1
          <6>2. CASE m \in S[tree.kid[Other(d)][n]]
            BY <3>0, <3>1, <3>2, <4>2, <6>2, SideFacts
          <6> QED BY <3>1, <6>1, <6>2
        <5>2. n \notin S[tree.kid[e][n]]
          BY NestedSides
        <5> QED BY <4>2, <5>1, <5>2
      <4> QED BY <2>0, <3>0, <3>3, <4>1, <4>2 DEF FreeLink
    <3>4. CASE k # NULL
      <4>1. f[n] = f[k] /\ k \in Nodes /\ k \in Q
        BY <1>1, <1>2, <2>2, <3>0, <3>4
      <4>2. CASE f[k] = NoLink /\ \E m \in S[k] : SideOf(a, m) = "none"
        BY <3>1, <4>1, <4>2
      <4>3. CASE FreeLink(S, k, a, f[k])
        <5>1. PICK p \in S[k], c \in Sides :
                /\ f[k] = [at |-> p, side |-> c]
                /\ tree.kid[c][p] = NULL
                /\ \A m \in S[k] : \A e \in Sides :
                     p \in S[tree.kid[e][m]] \/ (m = p /\ e = c) => SideOf(a, m) = e
          BY <4>3 DEF FreeLink
        <5>2. ASSUME NEW m \in S[n], NEW e \in Sides, p \in S[tree.kid[e][m]] \/ (m = p /\ e = c)
              PROVE  SideOf(a, m) = e
          <6>1. CASE m = n
            <7>1. p \in S[tree.kid[e][n]]
              BY <3>1, <5>2, <6>1
            <7>2. e = d
              BY <3>0, <3>1, <7>1, SideFacts
            <7> QED BY <6>1, <7>2
          <6>2. CASE m \in S[k]
            BY <5>1, <5>2, <6>2
          <6>3. CASE m \in S[tree.kid[Other(d)][n]]
            <7>1. p \notin S[tree.kid[Other(d)][n]]
              BY <3>1
            <7> QED BY <3>0, <3>2, <5>2, <6>3, <7>1, SideFacts
          <6> QED BY <3>1, <6>1, <6>2, <6>3
        <5> QED BY <3>1, <4>1, <5>1, <5>2 DEF FreeLink
      <4> QED BY <4>1, <4>2, <4>3
    <3> QED BY <3>3, <3>4
  <2> QED BY <2>1, <2>2
<1>3. Nodes \subseteq Q
  <2> HIDE DEF Q
  <2> QED BY <1>2, TreeInduction
<1>4. tree.root \in Nodes
  BY DEF TreeType, NN
<1> QED BY <1>1, <1>3, <1>4

\* The walk from a node to the next never comes back.
LEMMA NextIs ==
  ASSUME NEW t, NEW S, NEW P, NEW ar, Shape(t, S, P, ar), AreasOK(ar, P), NEW n \in P,
         n # rb_last(t)
  PROVE  Follows(t, S, P, ar, n, rb_next(t, n))
<1>1. CASE t.kid["right"][n] = NULL
  BY <1>1, NextUp
<1>2. CASE t.kid["right"][n] # NULL
  BY <1>2, NextDown
<1> QED BY <1>1, <1>2

Later(t, S, P) == [n \in P |-> Cardinality(After(t, S, P, n))]

LEMMA Walking ==
  ASSUME NEW t, NEW S, NEW P, NEW ar, Shape(t, S, P, ar), AreasOK(ar, P)
  PROVE  /\ Later(t, S, P) \in [P -> Nat]
         /\ Cardinality(P) + 1 \in Nat
         /\ \A n \in P : Later(t, S, P)[n] < Cardinality(P) + 1
         /\ \A n \in P : n # rb_last(t) =>
              /\ rb_next(t, n) \in P
              /\ Later(t, S, P)[rb_next(t, n)] < Later(t, S, P)[n]
<1>0. IsFiniteSet(P) /\ Cardinality(P) \in Nat
  <2>1. P \subseteq Nodes
    BY DEF Shape, Linked
  <2>2. IsFiniteSet(P)
    BY <2>1, TreeAssumption, FS_Subset
  <2> QED BY <2>2, FS_CardinalityType
<1>1. \A n \in P : /\ IsFiniteSet(After(t, S, P, n))
                   /\ Cardinality(After(t, S, P, n)) \in Nat
                   /\ Cardinality(After(t, S, P, n)) <= Cardinality(P)
  <2> TAKE n \in P
  <2>1. After(t, S, P, n) \subseteq P
    BY DEF After
  <2>2. IsFiniteSet(After(t, S, P, n)) /\ Cardinality(After(t, S, P, n)) <= Cardinality(P)
    BY <1>0, <2>1, FS_Subset
  <2> QED BY <2>2, FS_CardinalityType
<1>2. ASSUME NEW n \in P, n # rb_last(t)
      PROVE  rb_next(t, n) \in P /\ Later(t, S, P)[rb_next(t, n)] < Later(t, S, P)[n]
  <2> DEFINE m == rb_next(t, n)
  <2>1. Follows(t, S, P, ar, n, m)
    BY <1>2, NextIs
  <2>2. m \in P
    BY <2>1 DEF Follows
  <2>3. After(t, S, P, m) \subseteq After(t, S, P, n) /\ After(t, S, P, m) # After(t, S, P, n)
    BY <2>1, <2>2, AfterNotSelf DEF Follows
  <2> HIDE DEF m
  <2>4. /\ Cardinality(After(t, S, P, m)) <= Cardinality(After(t, S, P, n))
        /\ Cardinality(After(t, S, P, m)) # Cardinality(After(t, S, P, n))
    BY <1>1, <2>3, FS_Subset
  <2>5. Later(t, S, P)[m] < Later(t, S, P)[n]
    BY <1>1, <2>2, <2>4 DEF Later
  <2> QED BY <2>2, <2>5 DEF m
<1> QED BY <1>0, <1>1, <1>2 DEF Later

\* A set that holds each node whose next it holds has all of them.
LEMMA WalkInduction ==
  ASSUME NEW t, NEW S, NEW P, NEW ar, Shape(t, S, P, ar), AreasOK(ar, P), NEW Q,
         \A n \in P : (n # rb_last(t) => rb_next(t, n) \in Q) => n \in Q
  PROVE  P \subseteq Q
<1> DEFINE L == Later(t, S, P)
           Bad == {L[n] : n \in P \ Q}
<1>1. SUFFICES ASSUME P \ Q # {}
               PROVE  FALSE
  OBVIOUS
<1>2. /\ L \in [P -> Nat]
      /\ \A n \in P : n # rb_last(t) => rb_next(t, n) \in P /\ L[rb_next(t, n)] < L[n]
  BY Walking
<1> HIDE DEF L
<1>3. Bad \subseteq Nat /\ Bad # {}
  BY <1>1, <1>2
<1>4. PICK b \in Bad : \A k \in Bad : b <= k
  BY <1>3, Least
<1>5. PICK n \in P \ Q : b = L[n]
  BY <1>4
<1>6. n # rb_last(t) /\ rb_next(t, n) \notin Q
  BY <1>5
<1>7. L[rb_next(t, n)] \in Bad /\ L[rb_next(t, n)] < L[n] /\ L[rb_next(t, n)] \in Nat /\ L[n] \in Nat
  BY <1>2, <1>5, <1>6
<1> QED BY <1>4, <1>5, <1>7

\* A gap of the size behind n, as vma_alloc_area() measures it.
GapAt(n, size) == area[rb_next(tree, n)].start - area[n].end >= size

IsGap(f, size) ==
  f = [n \in used |-> IF n = rb_last(tree) THEN -1
                      ELSE LET m == rb_next(tree, n)
                           IN  IF area[m].start - area[n].end >= size THEN area[n].end ELSE f[m]]

LEMMA GapEq ==
  ASSUME NEW S, Shape(tree, S, placed, area), AreasOK(area, placed), used = placed, NEW size
  PROVE  \E f : /\ \A n : GapAfter(n, size) = f[n]
               /\ \A n \in placed : f[n] = IF n = rb_last(tree) THEN -1
                                           ELSE IF GapAt(n, size) THEN area[n].end
                                           ELSE f[rb_next(tree, n)]
<1> DEFINE go == [n \in used |-> n # rb_last(tree) /\ ~GapAt(n, size)]
           step == [n \in used |-> rb_next(tree, n)]
           val == [n \in used |-> IF n = rb_last(tree) THEN -1 ELSE area[n].end]
<1>1. PICK g : Loops(g, used, go, step, val)
  <2>1. \A n \in used : go[n] => step[n] \in used
                              /\ Later(tree, S, placed)[step[n]] < Later(tree, S, placed)[n]
    BY Walking
  <2> HIDE DEF go, step, val
  <2> QED BY <2>1, Walking, TailRecursion
<1>2. IsGap(g, size)
  <2>1. g = [n \in used |-> g[n]] /\ \A n \in used : g[n] = IF go[n] THEN g[step[n]] ELSE val[n]
    BY <1>1 DEF Loops
  <2>2. \A n \in used : g[n] = IF n = rb_last(tree) THEN -1
                      ELSE LET m == rb_next(tree, n)
                           IN  IF area[m].start - area[n].end >= size THEN area[n].end ELSE g[m]
    BY <2>1 DEF GapAt
  <2> QED BY <2>1, <2>2 DEF IsGap
<1> DEFINE F == CHOOSE f : IsGap(f, size)
<1>3. IsGap(F, size)
  BY <1>2, Zenon
<1>4. \A n : GapAfter(n, size) = F[n]
  BY Zenon DEF GapAfter, IsGap
<1> HIDE DEF F
<1>5. \A n \in placed : F[n] = IF n = rb_last(tree) THEN -1
                               ELSE IF GapAt(n, size) THEN area[n].end
                               ELSE F[rb_next(tree, n)]
  BY <1>3 DEF IsGap, GapAt
<1> QED BY <1>4, <1>5

\* No area reaches into the size pages from b on.
ClearOf(b, size) ==
  /\ b + size <= RegionLen
  /\ \A n \in placed : area[n].end <= b \/ b + size <= area[n].start

LEMMA GapIs ==
  ASSUME NEW S, Shape(tree, S, placed, area), AreasOK(area, placed), used = placed,
         NEW size \in Nat, NEW first \in placed
  PROVE  LET g == GapAfter(first, size)
         IN  \/ g \in Nat /\ ClearOf(g, size)
             \/ /\ g = -1
                /\ \A b \in Nat : ClearOf(b, size) /\ area[first].end <= b
                                     => area[rb_last(tree)].end <= b
<1>1. PICK f : /\ \A n : GapAfter(n, size) = f[n]
               /\ \A n \in placed : f[n] = IF n = rb_last(tree) THEN -1
                                           ELSE IF GapAt(n, size) THEN area[n].end
                                           ELSE f[rb_next(tree, n)]
  BY GapEq
<1> DEFINE Right(n) == \/ f[n] \in Nat /\ ClearOf(f[n], size)
                       \/ /\ f[n] = -1
                          /\ \A b \in Nat : ClearOf(b, size) /\ area[n].end <= b
                                               => area[rb_last(tree)].end <= b
           Q == {n \in placed : Right(n)}
<1>2. \A n \in placed : /\ area[n].start \in Nat /\ area[n].end \in Nat
                        /\ area[n].start <= area[n].end /\ area[n].end <= RegionLen
  BY DEF AreasOK, Shape, Linked
<1>3. ASSUME NEW n \in placed, n # rb_last(tree) => rb_next(tree, n) \in Q
      PROVE  n \in Q
  <2> DEFINE m == rb_next(tree, n)
  <2>1. CASE n = rb_last(tree)
    BY <1>1, <2>1
  <2>2. CASE n # rb_last(tree) /\ GapAt(n, size)
    <3>1. f[n] = area[n].end
      BY <1>1, <2>2
    <3>2. Follows(tree, S, placed, area, n, m)
      BY <2>2, NextIs
    <3>3. m \in placed /\ area[m].start - area[n].end >= size
      BY <2>2, <3>2 DEF Follows, GapAt
    <3> HIDE DEF m
    <3>4. \A k \in placed : area[k].end <= area[n].end \/ area[m].start <= area[k].start
      BY <1>2, <3>2 DEF Follows, On
    <3>5. area[n].end + size <= area[m].start
      BY <1>2, <3>3
    <3>6. ClearOf(area[n].end, size)
      BY <1>2, <3>3, <3>4, <3>5, VmaAssumption DEF ClearOf
    <3> QED BY <1>2, <3>1, <3>6
  <2>3. CASE n # rb_last(tree) /\ ~GapAt(n, size)
    <3>1. f[n] = f[m] /\ m \in placed /\ Right(m)
      BY <1>1, <1>3, <2>3
    <3>2. ~(area[m].start - area[n].end >= size)
      BY <2>3 DEF GapAt
    <3> HIDE DEF m
    <3>3. ASSUME NEW b \in Nat, ClearOf(b, size), area[n].end <= b
          PROVE  area[m].end <= b
      <4>1. area[m].end <= b \/ b + size <= area[m].start
        BY <3>1, <3>3 DEF ClearOf
      <4> QED BY <1>2, <3>1, <3>2, <3>3, <4>1
    <3> QED BY <3>1, <3>3
  <2> QED BY <2>1, <2>2, <2>3
<1>4. placed \subseteq Q
  <2> HIDE DEF Q
  <2> QED BY <1>3, WalkInduction
<1> QED BY <1>1, <1>4

\* vma_alloc_area() finds room wherever there is some.
LEMMA PlaceIs ==
  ASSUME NEW S, Shape(tree, S, placed, area), AreasOK(area, placed), used = placed,
         NEW size \in Nat
  PROVE  \/ Place(size) \in Nat /\ ClearOf(Place(size), size)
         \/ Place(size) = -1 /\ \A b \in Nat : ~ClearOf(b, size)
<1> USE VmaAssumption
<1>1. CASE size > RegionLen
  <2>1. Place(size) = -1
    BY <1>1 DEF Place
  <2> QED BY <1>1, <2>1 DEF ClearOf
<1>2. CASE ~(size > RegionLen) /\ tree.root = NULL
  <2>1. Place(size) = 0
    BY <1>2 DEF Place
  <2>2. placed = {}
    BY <1>2 DEF Shape, Nested
  <2> QED BY <1>2, <2>1, <2>2 DEF ClearOf
<1>3. CASE ~(size > RegionLen) /\ tree.root # NULL
  <2> DEFINE lo == rb_first(tree)
             hi == rb_last(tree)
  <2>0. \A n \in placed : /\ area[n].start \in Nat /\ area[n].end \in Nat
                          /\ area[n].start <= area[n].end /\ area[n].end <= RegionLen
    BY DEF AreasOK, Shape, Linked
  <2>1. tree.root \in placed /\ tree.root \in Nodes /\ S[tree.root] = placed
    <3>1. tree.root \in Nodes /\ S[tree.root] = placed
      BY <1>3 DEF Shape, TreeType, NN
    <3> QED BY <3>1 DEF Shape, Nested
  <2>2. lo = Outermost(tree, tree.root, "left") /\ hi = Outermost(tree, tree.root, "right")
    BY <1>3 DEF rb_first, rb_last
  <2>3. lo \in placed /\ hi \in placed
    BY <2>1, <2>2, OutermostIs DEF Shape, Sides
  <2>4. \A m \in placed : m # lo => On(area, "left", lo, m)
    BY <2>1, <2>2, OutermostOrder DEF Sides
  <2>5. \A m \in placed : m # hi => On(area, "right", hi, m)
    BY <2>1, <2>2, OutermostOrder DEF Sides
  <2>6. Place(size) = IF area[lo].start >= size THEN 0
                      ELSE IF RegionLen - area[hi].end >= size THEN area[hi].end
                      ELSE GapAfter(lo, size)
    BY <1>3 DEF Place
  <2> HIDE DEF lo, hi
  <2>7. CASE area[lo].start >= size
    <3>1. Place(size) = 0
      BY <2>6, <2>7
    <3>2. \A m \in placed : size <= area[m].start
      BY <2>0, <2>3, <2>4, <2>7 DEF On
    <3> QED BY <1>3, <3>1, <3>2 DEF ClearOf
  <2>8. CASE ~(area[lo].start >= size) /\ RegionLen - area[hi].end >= size
    <3>1. Place(size) = area[hi].end
      BY <2>6, <2>8
    <3>2. \A m \in placed : area[m].end <= area[hi].end
      BY <2>0, <2>3, <2>5 DEF On
    <3> QED BY <2>0, <2>3, <2>8, <3>1, <3>2 DEF ClearOf
  <2>9. CASE ~(area[lo].start >= size) /\ ~(RegionLen - area[hi].end >= size)
    <3>1. Place(size) = GapAfter(lo, size)
      BY <2>6, <2>9
    <3>2. \A b \in Nat : ClearOf(b, size) => area[lo].end <= b
      BY <2>0, <2>3, <2>9 DEF ClearOf
    <3>3. \A b \in Nat : ClearOf(b, size) => ~(area[hi].end <= b)
      BY <2>0, <2>3, <2>9 DEF ClearOf
    <3>4. \/ GapAfter(lo, size) \in Nat /\ ClearOf(GapAfter(lo, size), size)
          \/ /\ GapAfter(lo, size) = -1
             /\ \A b \in Nat : ClearOf(b, size) /\ area[lo].end <= b => area[hi].end <= b
      BY <2>3, GapIs DEF hi
    <3> QED BY <3>1, <3>2, <3>3, <3>4
  <2> QED BY <2>7, <2>8, <2>9
<1> QED BY <1>1, <1>2, <1>3

-----------------------------------------------------------------------------
(***************************************************************************)
(* Single assignments to links.                                            *)
(***************************************************************************)
PutRoot(t, v) == [t EXCEPT !.root = v]

PutKid(t, e, n, v) == [t EXCEPT !.kid[e][n] = v]

PutParent(t, n, v) == [t EXCEPT !.parent[n] = v]

PutParents(t, q) == [t EXCEPT !.parent = q]

LEMMA PutRootIs ==
  ASSUME NEW t, TreeType(t), NEW v \in NN
  PROVE  /\ TreeType(PutRoot(t, v)) /\ PutRoot(t, v).root = v /\ PutRoot(t, v).kid = t.kid
         /\ PutRoot(t, v).parent = t.parent /\ PutRoot(t, v).red = t.red
BY DEF PutRoot, TreeType

LEMMA PutParentsIs ==
  ASSUME NEW t, TreeType(t), NEW q \in [Nodes -> NN]
  PROVE  /\ TreeType(PutParents(t, q)) /\ PutParents(t, q).root = t.root
         /\ PutParents(t, q).kid = t.kid
         /\ PutParents(t, q).parent = q /\ PutParents(t, q).red = t.red
BY DEF PutParents, TreeType

LEMMA PutKidIs ==
  ASSUME NEW t, TreeType(t), NEW e \in Sides, NEW n \in Nodes, NEW v \in NN
  PROVE  /\ TreeType(PutKid(t, e, n, v)) /\ PutKid(t, e, n, v).root = t.root
         /\ PutKid(t, e, n, v).parent = t.parent /\ PutKid(t, e, n, v).red = t.red
         /\ \A f \in Sides : \A m \in Nodes :
              PutKid(t, e, n, v).kid[f][m] = IF f = e /\ m = n THEN v ELSE t.kid[f][m]
<1> DEFINE k == [t.kid EXCEPT ![e][n] = v]
           u == T(t.root, k, t.parent, t.red)
<1>1. t = T(t.root, t.kid, t.parent, t.red)
  BY TreeIs
<1>2. [T(t.root, t.kid, t.parent, t.red) EXCEPT !.kid[e][n] = v] = u
  BY DEF T
<1>3. PutKid(t, e, n, v) = u
  BY <1>1, <1>2 DEF PutKid
<1>4. t.kid \in [Sides -> [Nodes -> NN]]
  BY DEF TreeType
<1>5. /\ k \in [Sides -> [Nodes -> NN]]
      /\ \A f \in Sides : \A m \in Nodes : k[f][m] = IF f = e /\ m = n THEN v ELSE t.kid[f][m]
  BY <1>4
<1> HIDE DEF k
<1>6. TreeType(u) /\ u.root = t.root /\ u.kid = k /\ u.parent = t.parent /\ u.red = t.red
  BY <1>5 DEF TreeType, T
<1> HIDE DEF u
<1> QED BY <1>3, <1>5, <1>6

LEMMA PutParentIs ==
  ASSUME NEW t, TreeType(t), NEW n \in Nodes, NEW v \in NN
  PROVE  /\ TreeType(PutParent(t, n, v)) /\ PutParent(t, n, v).root = t.root
         /\ PutParent(t, n, v).kid = t.kid /\ PutParent(t, n, v).red = t.red
         /\ \A m \in Nodes : PutParent(t, n, v).parent[m] = IF m = n THEN v ELSE t.parent[m]
<1> DEFINE q == [t.parent EXCEPT ![n] = v]
           u == T(t.root, t.kid, q, t.red)
<1>1. t = T(t.root, t.kid, t.parent, t.red)
  BY TreeIs
<1>2. [T(t.root, t.kid, t.parent, t.red) EXCEPT !.parent[n] = v] = u
  BY DEF T
<1>3. PutParent(t, n, v) = u
  BY <1>1, <1>2 DEF PutParent
<1>4. t.parent \in [Nodes -> NN]
  BY DEF TreeType
<1>5. q \in [Nodes -> NN] /\ \A m \in Nodes : q[m] = IF m = n THEN v ELSE t.parent[m]
  BY <1>4
<1> HIDE DEF q
<1>6. TreeType(u) /\ u.root = t.root /\ u.kid = t.kid /\ u.parent = q /\ u.red = t.red
  BY <1>5 DEF TreeType, T
<1> HIDE DEF u
<1> QED BY <1>3, <1>5, <1>6

\* A store through a link: the root if p is NULL.
LEMMA StoreIs ==
  ASSUME NEW t, TreeType(t), NEW p \in NN, NEW d, p # NULL => d \in Sides, NEW v \in NN,
         NEW link, link.at = p, link.side = d
  PROVE  /\ TreeType(Store(t, link, v))
         /\ Store(t, link, v).root = IF p = NULL THEN v ELSE t.root
         /\ Store(t, link, v).parent = t.parent /\ Store(t, link, v).red = t.red
         /\ \A e \in Sides : \A m \in Nodes :
              Store(t, link, v).kid[e][m] = IF m = p /\ e = d THEN v ELSE t.kid[e][m]
<1>1. CASE p = NULL
  <2>1. Store(t, link, v) = PutRoot(t, v)
    BY <1>1 DEF Store, PutRoot
  <2>2. \A m \in Nodes : m # p
    BY <1>1, TreeAssumption
  <2> QED BY <1>1, <2>1, <2>2, PutRootIs
<1>2. CASE p # NULL
  <2>1. Store(t, link, v) = PutKid(t, d, p, v) /\ p \in Nodes
    BY <1>2 DEF Store, PutKid, NN
  <2> QED BY <1>2, <2>1, PutKidIs
<1> QED BY <1>1, <1>2

-----------------------------------------------------------------------------
(***************************************************************************)
(* Insertion.                                                              *)
(***************************************************************************)

\* What rb_insert() leaves in the fields.
Grafted(t, u, n, p, d) ==
  /\ TreeType(u)
  /\ u.root = IF p = NULL THEN n ELSE t.root
  /\ \A m \in Nodes : u.parent[m] = IF m = n THEN p ELSE t.parent[m]
  /\ \A m \in Nodes : u.red[m] <=> m = n \/ t.red[m]
  /\ \A e \in Sides : \A m \in Nodes :
       u.kid[e][m] = IF m = n THEN NULL ELSE IF m = p /\ e = d THEN n ELSE t.kid[e][m]

LEMMA GraftFields ==
  ASSUME NEW t, TreeType(t), NEW n \in Nodes, NEW p \in NN, NEW d \in Sides, NEW link,
         link.at = p, link.side = d, p # n
  PROVE  Grafted(t, [Store(t, link, n) EXCEPT
                       !.kid["left"][n] = NULL, !.kid["right"][n] = NULL,
                       !.parent[n] = p, !.red[n] = TRUE], n, p, d)
<1> DEFINE s == Store(t, link, n)
           k == PutKid(s, "left", n, NULL)
           l == PutKid(k, "right", n, NULL)
           q == PutParent(l, n, p)
           u == Red(q, n)
<1>0. n \in NN /\ NULL \in NN /\ "left" \in Sides /\ "right" \in Sides /\ \A e \in Sides : e = "left" \/ e = "right"
  BY DEF NN, Sides
<1>1. [s EXCEPT !.kid["left"][n] = NULL, !.kid["right"][n] = NULL, !.parent[n] = p, !.red[n] = TRUE] = u
  <2> HIDE DEF s
  <2> QED BY DEF PutKid, PutParent, Red
<1>2. /\ TreeType(s) /\ s.root = IF p = NULL THEN n ELSE t.root
      /\ s.parent = t.parent /\ s.red = t.red
      /\ \A e \in Sides : \A m \in Nodes : s.kid[e][m] = IF m = p /\ e = d THEN n ELSE t.kid[e][m]
  BY <1>0, StoreIs
<1> HIDE DEF s
<1>3. /\ TreeType(k) /\ k.root = s.root /\ k.parent = s.parent /\ k.red = s.red
      /\ \A e \in Sides : \A m \in Nodes : k.kid[e][m] = IF e = "left" /\ m = n THEN NULL ELSE s.kid[e][m]
  BY <1>0, <1>2, PutKidIs
<1> HIDE DEF k
<1>4. /\ TreeType(l) /\ l.root = k.root /\ l.parent = k.parent /\ l.red = k.red
      /\ \A e \in Sides : \A m \in Nodes : l.kid[e][m] = IF e = "right" /\ m = n THEN NULL ELSE k.kid[e][m]
  BY <1>0, <1>3, PutKidIs
<1> HIDE DEF l
<1>5. /\ TreeType(q) /\ q.root = l.root /\ q.kid = l.kid /\ q.red = l.red
      /\ \A m \in Nodes : q.parent[m] = IF m = n THEN p ELSE l.parent[m]
  BY <1>4, PutParentIs
<1> HIDE DEF q
<1>6. SameLinks(q, u) /\ \A m \in Nodes : u.red[m] <=> m = n \/ q.red[m]
  BY <1>5, PaintRed
<1> HIDE DEF u
<1>7. TreeType(u) /\ u.root = q.root /\ u.kid = q.kid /\ u.parent = q.parent
  BY <1>6 DEF SameLinks
<1>8. u.root = IF p = NULL THEN n ELSE t.root
  BY <1>2, <1>3, <1>4, <1>5, <1>7
<1>9. \A m \in Nodes : u.parent[m] = IF m = n THEN p ELSE t.parent[m]
  BY <1>2, <1>3, <1>4, <1>5, <1>7
<1>10. \A m \in Nodes : u.red[m] <=> m = n \/ t.red[m]
  BY <1>2, <1>3, <1>4, <1>5, <1>6
<1>11. \A e \in Sides : \A m \in Nodes :
         u.kid[e][m] = IF m = n THEN NULL ELSE IF m = p /\ e = d THEN n ELSE t.kid[e][m]
  <2> TAKE e \in Sides
  <2> TAKE m \in Nodes
  <2>1. u.kid[e][m] = l.kid[e][m]
    BY <1>5, <1>7
  <2>2. CASE m = n
    BY <1>0, <1>3, <1>4, <2>1, <2>2
  <2>3. CASE m # n
    BY <1>2, <1>3, <1>4, <2>1, <2>3
  <2> QED BY <2>2, <2>3
<1>12. Grafted(t, u, n, p, d)
  BY <1>7, <1>8, <1>9, <1>10, <1>11 DEF Grafted
<1> QED BY <1>1, <1>12 DEF s

\* Struct n is not in the tree, and its area br[n] belongs at the free link.
Hook(t, S, P, ar, br, n, p, d) ==
  /\ n \in Nodes /\ n \notin P
  /\ \/ p = NULL /\ t.root = NULL
     \/ p \in P /\ t.kid[d][p] = NULL
  /\ \A m \in P : br[m] = ar[m]
  /\ \A m \in P : \A e \in Sides : p \in S[t.kid[e][m]] \/ (m = p /\ e = d) => On(br, e, n, m)

\* The nodes below each node with the new one.
GraftedS(S, n, p) ==
  [m \in NN |-> IF m = n THEN {n} ELSE IF p \in S[m] THEN S[m] \cup {n} ELSE S[m]]

LEMMA GraftShape ==
  ASSUME NEW t, NEW S, NEW P, NEW ar, Shape(t, S, P, ar), NEW br, NEW n, NEW p, NEW d \in Sides,
         Hook(t, S, P, ar, br, n, p, d), NEW u, Grafted(t, u, n, p, d)
  PROVE  Shape(u, GraftedS(S, n, p), P \cup {n}, br)
<1> DEFINE R == GraftedS(S, n, p)
<1>1. /\ TreeType(t) /\ P \subseteq Nodes /\ NULL \notin Nodes /\ n \in Nodes /\ n \notin P /\ n # NULL
      /\ n \in NN
  BY TreeAssumption DEF Shape, Linked, Hook, NN
<1>2. /\ TreeType(u)
      /\ u.root = IF p = NULL THEN n ELSE t.root
      /\ \A m \in Nodes : u.parent[m] = IF m = n THEN p ELSE t.parent[m]
      /\ \A e \in Sides : \A m \in Nodes :
           u.kid[e][m] = IF m = n THEN NULL ELSE IF m = p /\ e = d THEN n ELSE t.kid[e][m]
  BY DEF Grafted
<1>3. (p = NULL /\ t.root = NULL) \/ (p \in P /\ t.kid[d][p] = NULL)
  BY DEF Hook
<1>4. /\ S \in [NN -> SUBSET Nodes] /\ S[NULL] = {} /\ S[t.root] = P
      /\ \A m \in Nodes \ P : \A e \in Sides : t.kid[e][m] = NULL
  BY DEF Shape, Nested, Linked
<1>5. \A m \in Nodes : \A e \in Sides : Wf(S, m, t.kid[e][m], t.kid[Other(e)][m])
  BY <1>1, NestedWf DEF Shape
<1>6. \A m \in NN : m # n => n \notin S[m]
  <2> SUFFICES ASSUME NEW m \in NN, m # n
               PROVE  n \notin S[m]
    OBVIOUS
  <2>1. CASE m \in P
    <3>1. S[m] \subseteq P
      BY <2>1, OneLink
    <3> QED BY <1>1, <3>1
  <2>2. CASE m = NULL
    BY <1>4, <2>2
  <2>3. CASE m \in Nodes \ P
    <3>1. S[m] = {m} \cup S[NULL] \cup S[NULL]
      BY <1>4, <1>5, <2>3, SideFacts DEF Wf
    <3> QED BY <1>4, <2>2, <3>1
  <2> QED BY <2>1, <2>2, <2>3 DEF NN
<1>7. /\ R \in [NN -> SUBSET Nodes] /\ R[n] = {n} /\ R[NULL] = {}
      /\ \A m \in NN : m # n => R[m] = IF p \in S[m] THEN S[m] \cup {n} ELSE S[m]
  <2>1. \A m \in NN : S[m] \subseteq Nodes
    BY <1>4
  <2>2. /\ R = [m \in NN |-> R[m]]
        /\ \A m \in NN : R[m] = IF m = n THEN {n} ELSE IF p \in S[m] THEN S[m] \cup {n} ELSE S[m]
    BY DEF GraftedS
  <2> HIDE DEF R
  <2>3. \A m \in NN : R[m] \subseteq Nodes
    BY <1>1, <2>1, <2>2
  <2>4. R[NULL] = {}
    BY <1>1, <1>4, <2>2 DEF NN
  <2>5. R \in [NN -> SUBSET Nodes]
    BY <2>2, <2>3
  <2> QED BY <1>1, <2>2, <2>4, <2>5
<1> HIDE DEF R
<1> DEFINE Add(m, e) == (m = p /\ e = d) \/ p \in S[t.kid[e][m]]
<1>8. ASSUME NEW m \in Nodes, NEW e \in Sides, m # n
      PROVE  R[u.kid[e][m]] = S[t.kid[e][m]] \cup IF Add(m, e) THEN {n} ELSE {}
  <2>1. t.kid[e][m] \in NN
    BY <1>1 DEF TreeType
  <2>2. CASE m = p /\ e = d
    <3>1. t.kid[e][m] = NULL
      BY <1>1, <1>3, <2>2
    <3> QED BY <1>2, <1>4, <1>7, <1>8, <2>2, <3>1
  <2>3. CASE ~(m = p /\ e = d)
    <3>1. u.kid[e][m] = t.kid[e][m]
      BY <1>2, <1>8, <2>3
    <3>2. t.kid[e][m] # n
      <4>1. n \in S[n]
        BY <1>1, <1>5, SideFacts DEF Wf
      <4>2. S[t.kid[e][m]] \subseteq S[m] /\ n \notin S[m]
        BY <1>5, <1>6, <1>8 DEF Wf, NN
      <4> QED BY <4>1, <4>2
    <3> QED BY <1>7, <2>1, <2>3, <3>1, <3>2
  <2> QED BY <2>2, <2>3
<1>9. ASSUME NEW m \in Nodes, NEW e \in Sides
      PROVE  Wf(R, m, u.kid[e][m], u.kid[Other(e)][m])
  <2> DEFINE o == Other(e)
  <2>0. o \in Sides /\ o # e /\ (d = e \/ d = o)
    BY SideFacts
  <2>1. CASE m = n
    <3>1. u.kid[e][m] = NULL /\ u.kid[o][m] = NULL
      BY <1>2, <2>0, <2>1
    <3> QED BY <1>1, <1>7, <2>1, <3>1 DEF Wf
  <2>2. CASE m # n
    <3>1. Wf(S, m, t.kid[e][m], t.kid[o][m])
      BY <1>5
    <3>2. /\ R[u.kid[e][m]] = S[t.kid[e][m]] \cup IF Add(m, e) THEN {n} ELSE {}
          /\ R[u.kid[o][m]] = S[t.kid[o][m]] \cup IF Add(m, o) THEN {n} ELSE {}
      BY <1>8, <2>0, <2>2
    <3>3. R[m] = IF p \in S[m] THEN S[m] \cup {n} ELSE S[m]
      BY <1>7, <2>2 DEF NN
    <3>4. p \in S[m] <=> Add(m, e) \/ Add(m, o)
      BY <2>0, <3>1 DEF Wf
    <3>5. ~(Add(m, e) /\ Add(m, o))
      BY <2>0, <3>1 DEF Wf
    <3>6. n \notin S[m]
      BY <1>6, <2>2 DEF NN
    <3> HIDE DEF Add, o
    <3>7. S[m] = {m} \cup S[t.kid[e][m]] \cup S[t.kid[o][m]]
      BY <3>1 DEF Wf
    <3>8. R[m] = {m} \cup R[u.kid[e][m]] \cup R[u.kid[o][m]]
      BY <3>2, <3>3, <3>4, <3>7
    <3>9. m \notin R[u.kid[e][m]] /\ m \notin R[u.kid[o][m]]
      BY <2>2, <3>1, <3>2 DEF Wf
    <3>10. R[u.kid[e][m]] \cap R[u.kid[o][m]] = {}
      BY <3>1, <3>2, <3>5, <3>6, <3>7 DEF Wf
    <3> QED BY <3>8, <3>9, <3>10 DEF Wf, o
  <2> QED BY <2>1, <2>2
<1>10. Nested(u, R)
  BY <1>7, <1>9, NestedFrom
<1>11. R[u.root] = P \cup {n}
  <2>1. CASE p = NULL
    BY <1>1, <1>2, <1>3, <1>4, <1>7, <2>1
  <2>2. CASE p # NULL
    <3>1. t.root \in NN /\ t.root # n
      <4>1. t.root \in NN
        BY <1>1 DEF TreeType
      <4>2. n \in S[n]
        BY <1>1, <1>5 DEF Wf
      <4> QED BY <1>1, <1>4, <4>1, <4>2
    <3> QED BY <1>2, <1>3, <1>4, <1>7, <2>2, <3>1
  <2> QED BY <2>1, <2>2
<1>12. Ordered(u, R, P \cup {n}, br)
  <2> SUFFICES ASSUME NEW m \in P \cup {n}, NEW e \in Sides, NEW j \in R[u.kid[e][m]]
               PROVE  On(br, e, j, m)
    BY DEF Ordered
  <2>1. m # n
    BY <1>1, <1>2, <1>7
  <2>2. m \in P /\ m \in Nodes
    BY <1>1, <2>1
  <2>3. j \in S[t.kid[e][m]] \/ (j = n /\ Add(m, e))
    BY <1>8, <2>1, <2>2
  <2>4. CASE j \in S[t.kid[e][m]]
    <3>1. On(ar, e, j, m)
      BY <2>2, <2>4 DEF Shape, Ordered
    <3>2. j \in P
      <4>1. S[m] \subseteq P
        BY <2>2, OneLink
      <4>2. S[t.kid[e][m]] \subseteq S[m]
        BY <1>5, <2>2 DEF Wf
      <4> QED BY <2>4, <4>1, <4>2
    <3>3. br[j] = ar[j] /\ br[m] = ar[m]
      BY <2>2, <3>2 DEF Hook
    <3> QED BY <3>1, <3>3 DEF On
  <2>5. CASE j = n /\ Add(m, e)
    BY <2>2, <2>5 DEF Hook
  <2> QED BY <2>3, <2>4, <2>5
<1>13. Linked(u, P \cup {n})
  <2>0. /\ t.root # NULL => t.parent[t.root] = NULL
        /\ \A m \in P : \A e \in Sides : t.kid[e][m] # NULL => t.parent[t.kid[e][m]] = m
        /\ \A m \in P : m # t.root => t.parent[m] \in P /\ \E e \in Sides : t.kid[e][t.parent[m]] = m
        /\ \A m \in Nodes \ P : t.parent[m] = NULL /\ \A e \in Sides : t.kid[e][m] = NULL
    BY DEF Shape, Linked
  <2>1. u.root # NULL => u.parent[u.root] = NULL
    <3>1. CASE p = NULL
      BY <1>1, <1>2, <3>1
    <3>2. CASE p # NULL
      <4>1. t.root \in P
        <5>1. t.root \in Nodes
          BY <1>1, <1>3, <1>4, <3>2 DEF TreeType, NN
        <5> QED BY <1>4, <1>5, <5>1, SideFacts DEF Wf
      <4> QED BY <1>1, <1>2, <2>0, <3>2, <4>1
    <3> QED BY <3>1, <3>2
  <2>2. ASSUME NEW m \in P \cup {n}, NEW e \in Sides, u.kid[e][m] # NULL
        PROVE  u.parent[u.kid[e][m]] = m
    <3>1. m # n /\ m \in P /\ m \in Nodes
      BY <1>1, <1>2, <2>2
    <3>2. CASE m = p /\ e = d
      BY <1>1, <1>2, <3>1, <3>2
    <3>3. CASE ~(m = p /\ e = d)
      <4>1. u.kid[e][m] = t.kid[e][m] /\ t.kid[e][m] \in Nodes
        BY <1>1, <1>2, <2>2, <3>1, <3>3 DEF TreeType, NN
      <4>2. t.kid[e][m] # n
        <5>1. n \in S[n]
          BY <1>1, <1>5, SideFacts DEF Wf
        <5>2. S[t.kid[e][m]] \subseteq S[m] /\ n \notin S[m]
          BY <1>5, <1>6, <3>1 DEF Wf, NN
        <5> QED BY <5>1, <5>2
      <4>3. t.parent[t.kid[e][m]] = m
        BY <1>1, <2>0, <3>1, <4>1
      <4> QED BY <1>2, <4>1, <4>2, <4>3
    <3> QED BY <3>2, <3>3
  <2>3. ASSUME NEW m \in P \cup {n}, m # u.root
        PROVE  u.parent[m] \in P \cup {n} /\ \E e \in Sides : u.kid[e][u.parent[m]] = m
    <3>1. CASE m = n
      <4>1. p # NULL /\ p \in P /\ u.parent[m] = p
        BY <1>1, <1>2, <1>3, <2>3, <3>1
      <4>2. u.kid[d][p] = n
        BY <1>1, <1>2, <4>1
      <4> QED BY <3>1, <4>1, <4>2
    <3>2. CASE m # n
      <4>1. m \in P /\ m \in Nodes /\ p # NULL /\ m # t.root
        BY <1>1, <1>2, <1>3, <1>4, <2>3, <3>2
      <4>2. u.parent[m] = t.parent[m] /\ t.parent[m] \in P /\ t.parent[m] \in Nodes /\ t.parent[m] # n
        BY <1>1, <1>2, <2>0, <3>2, <4>1
      <4>3. PICK e \in Sides : t.kid[e][t.parent[m]] = m
        BY <2>0, <4>1
      <4>4. ~(t.parent[m] = p /\ e = d)
        BY <1>1, <1>3, <4>1, <4>3
      <4>5. u.kid[e][t.parent[m]] = m
        BY <1>2, <4>2, <4>3, <4>4
      <4> QED BY <4>2, <4>5
    <3> QED BY <3>1, <3>2
  <2>4. ASSUME NEW m \in Nodes \ (P \cup {n})
        PROVE  u.parent[m] = NULL /\ \A e \in Sides : u.kid[e][m] = NULL
    <3>1. m # n /\ m # p
      BY <1>1, <1>3
    <3> QED BY <1>2, <2>0, <2>4, <3>1
  <2>5. P \cup {n} \subseteq Nodes
    BY <1>1
  <2> QED BY <2>1, <2>2, <2>3, <2>4, <2>5 DEF Linked
<1> QED BY <1>2, <1>10, <1>11, <1>12, <1>13 DEF Shape, R

LEMMA GraftGood ==
  ASSUME NEW t, NEW S, NEW H, NEW P, NEW ar, Sound(t, S, H, P, ar, NULL), NEW br, NEW n, NEW p,
         NEW d \in Sides, Hook(t, S, P, ar, br, n, p, d), NEW u, Grafted(t, u, n, p, d)
  PROVE  u.red[n] /\ Good(u, P \cup {n}, br, n)
<1>1. /\ TreeType(t) /\ P \subseteq Nodes /\ NULL \notin P
      /\ H \in [NN -> Nat \ {0}] /\ H[NULL] = 1
      /\ \A m \in P : \A e \in Sides : t.kid[e][m] \in P \cup {NULL}
  BY SoundFacts
<1>2. n \in Nodes /\ n \notin P /\ n # NULL /\ n \in NN /\ (p = NULL \/ (p \in P /\ t.kid[d][p] = NULL))
  BY TreeAssumption DEF Hook, NN
<1>3. Shape(u, GraftedS(S, n, p), P \cup {n}, br)
  BY GraftShape DEF Sound
<1>4. /\ TreeType(u)
      /\ u.root = IF p = NULL THEN n ELSE t.root
      /\ \A m \in Nodes : u.parent[m] = IF m = n THEN p ELSE t.parent[m]
      /\ \A m \in Nodes : u.red[m] <=> m = n \/ t.red[m]
      /\ \A e \in Sides : \A m \in Nodes :
           u.kid[e][m] = IF m = n THEN NULL ELSE IF m = p /\ e = d THEN n ELSE t.kid[e][m]
  BY DEF Grafted
<1> DEFINE G == [m \in NN |-> IF m = n THEN 1 ELSE H[m]]
<1>5. G \in [NN -> Nat \ {0}] /\ G[n] = 1 /\ G[NULL] = 1 /\ \A m \in NN : m # n => G[m] = H[m]
  BY <1>1, <1>2 DEF NN
<1> HIDE DEF G
<1>6. Heights(u, G)
  <2>1. ASSUME NEW m \in Nodes
        PROVE  Level(G, u.red[m], m, u.kid[d][m], u.kid[Other(d)][m])
    <3>1. CASE m = n
      <4>1. u.red[m] /\ u.kid[d][m] = NULL /\ u.kid[Other(d)][m] = NULL
        BY <1>4, <3>1, SideFacts
      <4> QED BY <1>5, <3>1, <4>1 DEF Level
    <3>2. CASE m # n
      <4>1. ASSUME NEW e \in Sides
            PROVE  G[u.kid[e][m]] = H[t.kid[e][m]]
        <5>1. t.kid[e][m] # n /\ t.kid[e][m] \in NN
          <6>1. m \notin P => t.kid[e][m] = NULL
            BY DEF Sound, Shape, Linked
          <6> QED BY <1>1, <1>2, <6>1 DEF NN
        <5>2. CASE m = p /\ e = d
          BY <1>1, <1>2, <1>4, <1>5, <3>2, <5>2, TreeAssumption
        <5>3. CASE ~(m = p /\ e = d)
          BY <1>4, <1>5, <3>2, <5>1, <5>3
        <5> QED BY <5>2, <5>3
      <4>2. Level(H, t.red[m], m, t.kid[d][m], t.kid[Other(d)][m])
        BY <1>1, HeightSides DEF Sound
      <4>3. G[m] = H[m] /\ (u.red[m] <=> t.red[m])
        BY <1>4, <1>5, <3>2 DEF NN
      <4>4. G[u.kid[d][m]] = H[t.kid[d][m]] /\ G[u.kid[Other(d)][m]] = H[t.kid[Other(d)][m]]
        BY <4>1, SideFacts
      <4> QED BY <4>2, <4>3, <4>4 DEF Level
    <3> QED BY <3>1, <3>2
  <2> QED BY <1>4, <1>5, <2>1, HeightsFrom
<1>7. Reds(u, P \cup {n}, n)
  <2> SUFFICES ASSUME NEW k \in P, u.red[k], k = u.root \/ u.red[u.parent[k]]
               PROVE  FALSE
    BY DEF Reds
  <2>1. k \in Nodes /\ k # n /\ t.red[k] /\ u.parent[k] = t.parent[k] /\ k # NULL
    BY <1>1, <1>2, <1>4
  <2>2. k # t.root
    BY <2>1 DEF Sound, Reds
  <2>3. t.parent[k] \in P
    BY <2>2 DEF Sound, Shape, Linked
  <2>4. t.red[t.parent[k]]
    BY <1>1, <1>2, <1>4, <2>1, <2>2, <2>3
  <2> QED BY <2>1, <2>4 DEF Sound, Reds
<1>8. u.red[n]
  BY <1>2, <1>4
<1> QED BY <1>3, <1>6, <1>7, <1>8 DEF Good, Sound

-----------------------------------------------------------------------------
(***************************************************************************)
(* Removal: the fields.                                                    *)
(***************************************************************************)
LEMMA LinkIs ==
  ASSUME NEW t, NEW S, NEW P, NEW ar, Shape(t, S, P, ar), NEW n \in P
  PROVE  /\ Link(t, n).at \in NN /\ Link(t, n).side \in Sides
         /\ Link(t, n).at = NULL <=> n = t.root
         /\ Link(t, n).at # NULL => Link(t, n).at = t.parent[n]
         /\ \A m \in Nodes : \A e \in Sides :
              t.kid[e][m] = n <=> m = Link(t, n).at /\ e = Link(t, n).side
<1> DEFINE p == t.parent[n]
           c == IF n = t.kid["left"][p] THEN "left" ELSE "right"
<1>1. /\ p = NULL <=> n = t.root
      /\ \A m \in Nodes : \A e \in Sides : t.kid[e][m] = n => m = p /\ n # t.root /\ t.kid[Other(e)][m] # n
  BY OneLink
<1>2. CASE n = t.root
  <2>1. Link(t, n) = [at |-> NULL, side |-> "left"]
    BY <1>2 DEF Link
  <2>2. NULL \notin Nodes
    BY TreeAssumption
  <2> QED BY <1>1, <1>2, <2>1, <2>2 DEF NN, Sides
<1>3. CASE n # t.root
  <2>1. Link(t, n) = [at |-> p, side |-> c]
    BY <1>3 DEF Link
  <2>2. PICK b \in Sides : t.kid[b][p] = n
    BY <1>3 DEF Shape, Linked
  <2>3. p \in P /\ P \subseteq Nodes /\ p # NULL
    BY <1>1, <1>3 DEF Shape, Linked
  <2>4. t.kid[Other(b)][p] # n
    BY <1>1, <2>2, <2>3
  <2>5. c = b
    BY <2>2, <2>4 DEF Sides, Other
  <2>6. \A e \in Sides : e = b \/ e = Other(b)
    BY SideFacts
  <2>7. \A m \in Nodes : \A e \in Sides : t.kid[e][m] = n <=> m = p /\ e = b
    BY <1>1, <2>2, <2>4, <2>6
  <2>8. Link(t, n).at = p /\ Link(t, n).side = b
    BY <2>1, <2>5
  <2> HIDE DEF p, c
  <2>9. Link(t, n).at \in NN
    BY <2>3, <2>8 DEF NN
  <2> QED BY <1>3, <2>3, <2>7, <2>8, <2>9 DEF p
<1> QED BY <1>2, <1>3

TheKid(t, g) == IF t.kid["left"][g] # NULL THEN t.kid["left"][g] ELSE t.kid["right"][g]

\* Node g has the child x, or none if x is NULL.
Lone(t, g, x) ==
  x \in NN /\ \E d \in Sides : t.kid[d][g] = x /\ t.kid[Other(d)][g] = NULL

\* The links after Unlink().
Unlinked(t, c, g, x) ==
  /\ TreeType(c)
  /\ c.root = IF g = t.root THEN x ELSE t.root
  /\ \A m \in Nodes : c.parent[m] = IF m = x THEN t.parent[g] ELSE t.parent[m]
  /\ \A e \in Sides : \A m \in Nodes : c.kid[e][m] = IF t.kid[e][m] = g THEN x ELSE t.kid[e][m]

LEMMA UnlinkIs ==
  ASSUME NEW t, NEW S, NEW P, NEW ar, Shape(t, S, P, ar), NEW g \in P, NEW x, Lone(t, g, x),
         x = TheKid(t, g)
  PROVE  /\ Unlinked(t, Unlink(t, g), g, x)
         /\ \A m \in Nodes : Unlink(t, g).red[m] <=> m # x /\ t.red[m]
<1> DEFINE l == Link(t, g)
           s == Store(t, l, x)
           q == PutParent(s, x, t.parent[g])
           c == Unlink(t, g)
<1>1. TreeType(t) /\ NULL \notin Nodes /\ x \in NN /\ g \in Nodes /\ t.parent[g] \in NN
  BY TreeAssumption DEF Shape, Lone, Linked, TreeType
<1>2. /\ l.at \in NN /\ l.side \in Sides
      /\ l.at = NULL <=> g = t.root
      /\ \A m \in Nodes : \A e \in Sides : t.kid[e][m] = g <=> m = l.at /\ e = l.side
  BY LinkIs
<1> HIDE DEF l
<1>3. /\ TreeType(s) /\ s.root = IF g = t.root THEN x ELSE t.root
      /\ s.parent = t.parent /\ s.red = t.red
      /\ \A e \in Sides : \A m \in Nodes : s.kid[e][m] = IF t.kid[e][m] = g THEN x ELSE t.kid[e][m]
  <2>1. /\ TreeType(s) /\ s.root = IF l.at = NULL THEN x ELSE t.root
        /\ s.parent = t.parent /\ s.red = t.red
        /\ \A e \in Sides : \A m \in Nodes : s.kid[e][m] = IF m = l.at /\ e = l.side THEN x ELSE t.kid[e][m]
    <3>1. l.at \in NN /\ l.side \in Sides /\ TreeType(t) /\ x \in NN
      BY <1>1, <1>2
    <3> HIDE DEF q, c
    <3> QED BY <3>1, StoreIs
  <2> HIDE DEF s
  <2> QED BY <1>2, <2>1
<1>4. CASE x = NULL
  <2>1. c = s
    BY <1>4 DEF Unlink, TheKid, l
  <2> HIDE DEF c, s
  <2>2. \A m \in Nodes : m # x
    BY <1>1, <1>4
  <2> QED BY <1>3, <2>1, <2>2 DEF Unlinked, c
<1>5. CASE x # NULL
  <2>1. c = Black(q, x)
    <3>1. c = [s EXCEPT !.parent[x] = t.parent[g], !.red[x] = FALSE]
      BY <1>5 DEF Unlink, TheKid, l
    <3> HIDE DEF s, c
    <3> QED BY <3>1 DEF Black, PutParent
  <2>2. x \in Nodes
    BY <1>1, <1>5 DEF NN
  <2> HIDE DEF s
  <2>3. /\ TreeType(q) /\ q.root = s.root /\ q.kid = s.kid /\ q.red = s.red
        /\ \A m \in Nodes : q.parent[m] = IF m = x THEN t.parent[g] ELSE s.parent[m]
    <3> DEFINE p == t.parent[g]
    <3>1. p \in NN /\ q = PutParent(s, x, p)
      BY <1>1
    <3> HIDE DEF p, q, c
    <3>2. /\ TreeType(q) /\ q.root = s.root /\ q.kid = s.kid /\ q.red = s.red
          /\ \A m \in Nodes : q.parent[m] = IF m = x THEN p ELSE s.parent[m]
      BY <1>3, <2>2, <3>1, PutParentIs
    <3> QED BY <3>2 DEF p
  <2> HIDE DEF q
  <2>4. SameLinks(q, Black(q, x)) /\ \A m \in Nodes : Black(q, x).red[m] <=> m # x /\ q.red[m]
    BY <2>3, PaintBlack
  <2>5. TreeType(c) /\ c.root = q.root /\ c.kid = q.kid /\ c.parent = q.parent
    BY <2>1, <2>4 DEF SameLinks
  <2>6. \A m \in Nodes : c.red[m] <=> m # x /\ t.red[m]
    BY <1>3, <2>1, <2>3, <2>4
  <2> HIDE DEF c
  <2>7. Unlinked(t, c, g, x)
    BY <1>3, <2>3, <2>5 DEF Unlinked
  <2> QED BY <2>6, <2>7 DEF c
<1> QED BY <1>4, <1>5

LEMMA WipeIs ==
  ASSUME NEW t, TreeType(t), NEW n \in Nodes
  PROVE  /\ TreeType(Wipe(t, n)) /\ Wipe(t, n).root = t.root
         /\ \A m \in Nodes : Wipe(t, n).parent[m] = IF m = n THEN NULL ELSE t.parent[m]
         /\ \A m \in Nodes : Wipe(t, n).red[m] <=> m # n /\ t.red[m]
         /\ \A e \in Sides : \A m \in Nodes :
              Wipe(t, n).kid[e][m] = IF m = n THEN NULL ELSE t.kid[e][m]
<1> DEFINE k == PutKid(t, "left", n, NULL)
           l == PutKid(k, "right", n, NULL)
           q == PutParent(l, n, NULL)
           u == Black(q, n)
<1>0. NULL \in NN /\ "left" \in Sides /\ "right" \in Sides /\ \A e \in Sides : e = "left" \/ e = "right"
  BY DEF NN, Sides
<1>1. Wipe(t, n) = u
  BY DEF Wipe, PutKid, PutParent, Black
<1>3. /\ TreeType(k) /\ k.root = t.root /\ k.parent = t.parent /\ k.red = t.red
      /\ \A e \in Sides : \A m \in Nodes : k.kid[e][m] = IF e = "left" /\ m = n THEN NULL ELSE t.kid[e][m]
  BY <1>0, PutKidIs
<1> HIDE DEF k
<1>4. /\ TreeType(l) /\ l.root = k.root /\ l.parent = k.parent /\ l.red = k.red
      /\ \A e \in Sides : \A m \in Nodes : l.kid[e][m] = IF e = "right" /\ m = n THEN NULL ELSE k.kid[e][m]
  BY <1>0, <1>3, PutKidIs
<1> HIDE DEF l
<1>5. /\ TreeType(q) /\ q.root = l.root /\ q.kid = l.kid /\ q.red = l.red
      /\ \A m \in Nodes : q.parent[m] = IF m = n THEN NULL ELSE l.parent[m]
  BY <1>0, <1>4, PutParentIs
<1> HIDE DEF q
<1>6. SameLinks(q, u) /\ \A m \in Nodes : u.red[m] <=> m # n /\ q.red[m]
  BY <1>5, PaintBlack
<1> HIDE DEF u
<1>7. TreeType(u) /\ u.root = q.root /\ u.kid = q.kid /\ u.parent = q.parent
  BY <1>6 DEF SameLinks
<1>8. u.root = t.root
  BY <1>3, <1>4, <1>5, <1>7
<1>9. \A m \in Nodes : u.parent[m] = IF m = n THEN NULL ELSE t.parent[m]
  BY <1>3, <1>4, <1>5, <1>7
<1>10. \A m \in Nodes : u.red[m] <=> m # n /\ t.red[m]
  BY <1>3, <1>4, <1>5, <1>6
<1>11. \A e \in Sides : \A m \in Nodes : u.kid[e][m] = IF m = n THEN NULL ELSE t.kid[e][m]
  <2> TAKE e \in Sides
  <2> TAKE m \in Nodes
  <2>1. u.kid[e][m] = l.kid[e][m]
    BY <1>5, <1>7
  <2> QED BY <1>0, <1>3, <1>4, <2>1
<1> QED BY <1>1, <1>7, <1>8, <1>9, <1>10, <1>11

\* A colour that is computed.
Dye(t, n, b) == [t EXCEPT !.red[n] = b]

LEMMA DyeIs ==
  ASSUME NEW t, TreeType(t), NEW n, NEW b \in BOOLEAN
  PROVE  /\ SameLinks(t, Dye(t, n, b))
         /\ \A m \in Nodes : Dye(t, n, b).red[m] <=> IF m = n THEN b ELSE t.red[m]
<1> DEFINE c == [t.red EXCEPT ![n] = b]
           u == T(t.root, t.kid, t.parent, c)
<1>1. Dye(t, n, b) = u
  <2>1. t = T(t.root, t.kid, t.parent, t.red)
    BY TreeIs
  <2>2. [T(t.root, t.kid, t.parent, t.red) EXCEPT !.red[n] = b] = u
    BY DEF T
  <2> QED BY <2>1, <2>2 DEF Dye
<1>2. t.red \in [Nodes -> BOOLEAN]
  BY DEF TreeType
<1>3. c \in [Nodes -> BOOLEAN] /\ \A m \in Nodes : c[m] <=> IF m = n THEN b ELSE t.red[m]
  BY <1>2
<1> HIDE DEF c
<1>4. TreeType(u) /\ u.root = t.root /\ u.kid = t.kid /\ u.parent = t.parent /\ u.red = c
  BY <1>3 DEF TreeType, T
<1> HIDE DEF u
<1> QED BY <1>1, <1>3, <1>4 DEF SameLinks

\* The fields after Substitute() and the wipe of n.
Replaced(c, w, l, n, g) ==
  /\ TreeType(w)
  /\ w.root = IF l.at = NULL THEN g ELSE c.root
  /\ \A m \in Nodes : w.parent[m] = IF m = n THEN NULL ELSE IF m = g THEN c.parent[n]
                                    ELSE IF m \in Kids(c, n) THEN g ELSE c.parent[m]
  /\ \A m \in Nodes : w.red[m] <=> m # n /\ (IF m = g THEN c.red[n] ELSE c.red[m])
  /\ \A e \in Sides : \A m \in Nodes :
       w.kid[e][m] = IF m = n THEN NULL ELSE IF m = g THEN c.kid[e][n]
                     ELSE IF m = l.at /\ e = l.side THEN g ELSE c.kid[e][m]

LEMMA SubstituteIs ==
  ASSUME NEW c, TreeType(c), NEW l, l.at \in NN, l.side \in Sides, NEW n \in Nodes, NEW g \in Nodes,
         n # g
  PROVE  Replaced(c, Wipe(Substitute(c, l, n, g), n), l, n, g)
<1> DEFINE s == Store(c, l, g)
           lk == c.kid["left"][n]
           rk == c.kid["right"][n]
           k == PutKid(s, "left", g, lk)
           j == PutKid(k, "right", g, rk)
           q == [m \in Nodes |-> IF m = g THEN c.parent[n]
                                 ELSE IF m \in Kids(c, n) THEN g ELSE c.parent[m]]
           v == PutParents(j, q)
           u == Dye(v, g, c.red[n])
           w == Wipe(u, n)
<1>0. /\ g \in NN /\ "left" \in Sides /\ "right" \in Sides /\ \A e \in Sides : e = "left" \/ e = "right"
      /\ \A e \in Sides : c.kid[e][n] \in NN
      /\ c.red[n] \in BOOLEAN
  BY DEF NN, Sides, TreeType
<1>1. Substitute(c, l, n, g) = u
  <2>1. Substitute(c, l, n, g) = [s EXCEPT !.kid["left"][g] = c.kid["left"][n],
                                           !.kid["right"][g] = c.kid["right"][n],
                                           !.parent = q, !.red[g] = c.red[n]]
    BY DEF Substitute
  <2> HIDE DEF s, q
  <2> QED BY <2>1 DEF PutKid, PutParents, Dye
<1>a. lk \in NN /\ rk \in NN
  BY <1>0
<1> HIDE DEF q, lk, rk
<1>2. /\ TreeType(s) /\ s.root = IF l.at = NULL THEN g ELSE c.root
      /\ s.parent = c.parent /\ s.red = c.red
      /\ \A e \in Sides : \A m \in Nodes : s.kid[e][m] = IF m = l.at /\ e = l.side THEN g ELSE c.kid[e][m]
  BY <1>0, StoreIs
<1> HIDE DEF s
<1>3. /\ TreeType(k) /\ k.root = s.root /\ k.parent = s.parent /\ k.red = s.red
      /\ \A e \in Sides : \A m \in Nodes : k.kid[e][m] = IF e = "left" /\ m = g THEN lk ELSE s.kid[e][m]
  BY <1>0, <1>a, <1>2, PutKidIs
<1> HIDE DEF k
<1>4. /\ TreeType(j) /\ j.root = k.root /\ j.parent = k.parent /\ j.red = k.red
      /\ \A e \in Sides : \A m \in Nodes : j.kid[e][m] = IF e = "right" /\ m = g THEN rk ELSE k.kid[e][m]
  BY <1>0, <1>a, <1>3, PutKidIs
<1> HIDE DEF j
<1>5. q \in [Nodes -> NN]
  BY <1>0 DEF TreeType, q
<1>6. \A m \in Nodes : q[m] = IF m = g THEN c.parent[n] ELSE IF m \in Kids(c, n) THEN g ELSE c.parent[m]
  BY DEF q
<1>7. TreeType(v) /\ v.root = j.root /\ v.kid = j.kid /\ v.parent = q /\ v.red = j.red
  BY <1>4, <1>5, PutParentsIs
<1> HIDE DEF v
<1>8. SameLinks(v, u) /\ \A m \in Nodes : u.red[m] <=> IF m = g THEN c.red[n] ELSE v.red[m]
  BY <1>0, <1>7, DyeIs
<1> HIDE DEF u
<1>9. TreeType(u) /\ u.root = v.root /\ u.kid = v.kid /\ u.parent = v.parent
  BY <1>8 DEF SameLinks
<1>10. /\ TreeType(w) /\ w.root = u.root
       /\ \A m \in Nodes : w.parent[m] = IF m = n THEN NULL ELSE u.parent[m]
       /\ \A m \in Nodes : w.red[m] <=> m # n /\ u.red[m]
       /\ \A e \in Sides : \A m \in Nodes : w.kid[e][m] = IF m = n THEN NULL ELSE u.kid[e][m]
  BY <1>9, WipeIs
<1> HIDE DEF w
<1>11. w.root = IF l.at = NULL THEN g ELSE c.root
  BY <1>2, <1>3, <1>4, <1>7, <1>9, <1>10
<1>12. \A m \in Nodes : w.parent[m] = IF m = n THEN NULL ELSE IF m = g THEN c.parent[n]
                                    ELSE IF m \in Kids(c, n) THEN g ELSE c.parent[m]
  BY <1>6, <1>7, <1>9, <1>10
<1>13. \A m \in Nodes : w.red[m] <=> m # n /\ (IF m = g THEN c.red[n] ELSE c.red[m])
  BY <1>2, <1>3, <1>4, <1>7, <1>8, <1>10
<1>14. \A e \in Sides : \A m \in Nodes :
         w.kid[e][m] = IF m = n THEN NULL ELSE IF m = g THEN c.kid[e][n]
                       ELSE IF m = l.at /\ e = l.side THEN g ELSE c.kid[e][m]
  <2> TAKE e \in Sides
  <2> TAKE m \in Nodes
  <2>1. w.kid[e][m] = IF m = n THEN NULL ELSE j.kid[e][m]
    BY <1>7, <1>9, <1>10
  <2>2. j.kid[e][m] = IF m = g THEN c.kid[e][n] ELSE s.kid[e][m]
    BY <1>0, <1>3, <1>4 DEF lk, rk
  <2>3. s.kid[e][m] = IF m = l.at /\ e = l.side THEN g ELSE c.kid[e][m]
    BY <1>2
  <2> QED BY <2>1, <2>2, <2>3
<1>15. Replaced(c, w, l, n, g)
  BY <1>10, <1>11, <1>12, <1>13, <1>14 DEF Replaced
<1> QED BY <1>1, <1>15 DEF w

-----------------------------------------------------------------------------
(***************************************************************************)
(* Removal: the shape.                                                     *)
(***************************************************************************)

\* The tree without g, whose only child x takes its place.
Cut(t, v, g, x) ==
  /\ TreeType(v)
  /\ v.root = IF g = t.root THEN x ELSE t.root
  /\ \A m \in Nodes : v.parent[m] = IF m = g THEN NULL ELSE IF m = x THEN t.parent[g] ELSE t.parent[m]
  /\ \A e \in Sides : \A m \in Nodes :
       v.kid[e][m] = IF m = g THEN NULL ELSE IF t.kid[e][m] = g THEN x ELSE t.kid[e][m]

CutS(S, g) == [m \in NN |-> IF m = g THEN {g} ELSE S[m] \ {g}]

\* The only child of a node, seen from the tree.
LEMMA LoneFacts ==
  ASSUME NEW t, NEW S, NEW P, NEW ar, Shape(t, S, P, ar), NEW g \in P, NEW x, Lone(t, g, x)
  PROVE  /\ x \in NN /\ x # g /\ S[g] = {g} \cup S[x] /\ g \notin S[x]
         /\ x # NULL => x \in P /\ t.parent[x] = g /\ x # t.root
         /\ \A e \in Sides : t.kid[e][g] = x \/ t.kid[e][g] = NULL
<1>1. PICK d \in Sides : t.kid[d][g] = x /\ t.kid[Other(d)][g] = NULL
  BY DEF Lone
<1>2. g \in Nodes /\ x \in NN /\ TreeType(t) /\ Nested(t, S) /\ S[NULL] = {}
  BY DEF Shape, Linked, Lone, Nested
<1>3. S[g] = {g} \cup S[x] \cup S[NULL] /\ g \notin S[x]
  BY <1>1, <1>2, NestedSides
<1>4. g \in S[g] /\ S[g] \subseteq P
  BY OneLink
<1>5. x # g
  BY <1>3, <1>4
<1>6. ASSUME x # NULL
      PROVE  x \in P /\ t.parent[x] = g /\ x # t.root
  <2>1. x \in Nodes
    BY <1>2, <1>6 DEF NN
  <2>2. x \in S[x]
    BY <2>1 DEF Shape, Nested
  <2>3. x \in P
    BY <1>3, <1>4, <2>2
  <2>4. \A n \in Nodes : \A e \in Sides : t.kid[e][n] = x => n = t.parent[x] /\ x # t.root
    BY <2>3, OneLink
  <2> QED BY <1>1, <1>2, <2>3, <2>4
<1>7. \A e \in Sides : e = d \/ e = Other(d)
  BY SideFacts
<1> QED BY <1>1, <1>2, <1>3, <1>5, <1>6, <1>7

LEMMA CutShape ==
  ASSUME NEW t, NEW S, NEW P, NEW ar, Shape(t, S, P, ar), NEW g \in P, NEW x, Lone(t, g, x),
         NEW v, Cut(t, v, g, x)
  PROVE  Shape(v, CutS(S, g), P \ {g}, ar)
<1> DEFINE R == CutS(S, g)
<1>1. /\ TreeType(t) /\ P \subseteq Nodes /\ NULL \notin Nodes /\ g \in Nodes /\ g # NULL /\ g \in NN
  BY TreeAssumption DEF Shape, Linked, NN
<1>2. /\ TreeType(v)
      /\ v.root = IF g = t.root THEN x ELSE t.root
      /\ \A m \in Nodes : v.parent[m] = IF m = g THEN NULL ELSE IF m = x THEN t.parent[g] ELSE t.parent[m]
      /\ \A e \in Sides : \A m \in Nodes :
           v.kid[e][m] = IF m = g THEN NULL ELSE IF t.kid[e][m] = g THEN x ELSE t.kid[e][m]
  BY DEF Cut
<1>3. /\ x \in NN /\ x # g /\ S[g] = {g} \cup S[x] /\ g \notin S[x]
      /\ x # NULL => x \in P /\ t.parent[x] = g /\ x # t.root
      /\ \A e \in Sides : t.kid[e][g] = x \/ t.kid[e][g] = NULL
  BY LoneFacts
<1>4. S \in [NN -> SUBSET Nodes] /\ S[NULL] = {} /\ S[t.root] = P
  BY DEF Shape, Nested
<1>5. \A m \in Nodes : \A e \in Sides : Wf(S, m, t.kid[e][m], t.kid[Other(e)][m])
  BY <1>1, NestedWf DEF Shape
<1>6. /\ R \in [NN -> SUBSET Nodes] /\ R[g] = {g} /\ R[NULL] = {}
      /\ \A m \in NN : m # g => R[m] = S[m] \ {g}
  <2>1. \A m \in NN : S[m] \subseteq Nodes
    BY <1>4
  <2>2. R = [m \in NN |-> R[m]] /\ \A m \in NN : R[m] = IF m = g THEN {g} ELSE S[m] \ {g}
    BY DEF CutS
  <2> HIDE DEF R
  <2>3. \A m \in NN : R[m] \subseteq Nodes
    BY <1>1, <2>1, <2>2
  <2>4. R[NULL] = {}
    BY <1>1, <1>4, <2>2 DEF NN
  <2>5. R \in [NN -> SUBSET Nodes]
    BY <2>2, <2>3
  <2> QED BY <1>1, <2>2, <2>4, <2>5
<1> HIDE DEF R
<1>7. ASSUME NEW m \in Nodes, NEW e \in Sides, m # g
      PROVE  R[v.kid[e][m]] = S[t.kid[e][m]] \ {g}
  <2>1. t.kid[e][m] \in NN
    BY <1>1 DEF TreeType
  <2>2. CASE t.kid[e][m] = g
    <3>1. v.kid[e][m] = x
      BY <1>2, <1>7, <2>2
    <3>2. R[x] = S[x] \ {g}
      BY <1>3, <1>6
    <3> QED BY <1>3, <2>2, <3>1, <3>2
  <2>3. CASE t.kid[e][m] # g
    BY <1>2, <1>6, <1>7, <2>1, <2>3
  <2> QED BY <2>2, <2>3
<1>8. ASSUME NEW m \in Nodes, NEW e \in Sides
      PROVE  Wf(R, m, v.kid[e][m], v.kid[Other(e)][m])
  <2> DEFINE o == Other(e)
  <2>0. o \in Sides
    BY SideFacts
  <2>1. CASE m = g
    <3>1. v.kid[e][m] = NULL /\ v.kid[o][m] = NULL
      BY <1>2, <2>0, <2>1
    <3> QED BY <1>6, <2>1, <3>1 DEF Wf
  <2>2. CASE m # g
    <3>1. Wf(S, m, t.kid[e][m], t.kid[o][m])
      BY <1>5
    <3>2. R[v.kid[e][m]] = S[t.kid[e][m]] \ {g} /\ R[v.kid[o][m]] = S[t.kid[o][m]] \ {g}
      BY <1>7, <2>0, <2>2
    <3>3. R[m] = S[m] \ {g}
      BY <1>6, <2>2 DEF NN
    <3> HIDE DEF o
    <3>4. R[m] = {m} \cup R[v.kid[e][m]] \cup R[v.kid[o][m]]
      BY <2>2, <3>1, <3>2, <3>3 DEF Wf
    <3>5. m \notin R[v.kid[e][m]] /\ m \notin R[v.kid[o][m]]
      BY <3>1, <3>2 DEF Wf
    <3>6. R[v.kid[e][m]] \cap R[v.kid[o][m]] = {}
      BY <3>1, <3>2 DEF Wf
    <3> QED BY <3>4, <3>5, <3>6 DEF Wf, o
  <2> QED BY <2>1, <2>2
<1>9. Nested(v, R)
  <2>1. "left" \in Sides
    BY DEF Sides
  <2> QED BY <1>6, <1>8, <2>1, NestedFrom
<1>10. R[v.root] = P \ {g}
  <2>1. CASE g = t.root
    BY <1>2, <1>3, <1>4, <1>6, <2>1
  <2>2. CASE g # t.root
    BY <1>1, <1>2, <1>4, <1>6, <2>2 DEF TreeType
  <2> QED BY <2>1, <2>2
<1>11. Ordered(v, R, P \ {g}, ar)
  <2> SUFFICES ASSUME NEW m \in P \ {g}, NEW e \in Sides, NEW j \in R[v.kid[e][m]]
               PROVE  On(ar, e, j, m)
    BY DEF Ordered
  <2>1. j \in S[t.kid[e][m]]
    BY <1>1, <1>7
  <2> QED BY <2>1 DEF Shape, Ordered
<1>12. Linked(v, P \ {g})
  <2>0. /\ t.root # NULL => t.parent[t.root] = NULL
        /\ \A m \in P : \A e \in Sides : t.kid[e][m] # NULL => t.parent[t.kid[e][m]] = m
        /\ \A m \in P : m # t.root => t.parent[m] \in P /\ \E e \in Sides : t.kid[e][t.parent[m]] = m
        /\ \A m \in Nodes \ P : t.parent[m] = NULL /\ \A e \in Sides : t.kid[e][m] = NULL
    BY DEF Shape, Linked
  <2>a. /\ g # t.root => t.parent[g] \in P /\ t.parent[g] # g
        /\ g = t.root => t.parent[g] = NULL
    <3>1. g # t.root => t.parent[g] \in P /\ t.parent[g] \notin S[g]
      BY OneLink
    <3> QED BY <1>1, <1>3, <2>0, <3>1
  <2>1. v.root # NULL => v.parent[v.root] = NULL
    <3>1. CASE g = t.root
      BY <1>1, <1>2, <1>3, <2>a, <3>1
    <3>2. CASE g # t.root
      <4>1. v.root = t.root /\ (t.root # NULL => t.root \in Nodes /\ t.root # x)
        BY <1>1, <1>2, <1>3, <3>2 DEF TreeType, NN
      <4> QED BY <1>2, <2>0, <3>2, <4>1
    <3> QED BY <3>1, <3>2
  <2>2. ASSUME NEW m \in P \ {g}, NEW e \in Sides, v.kid[e][m] # NULL
        PROVE  v.parent[v.kid[e][m]] = m
    <3>1. CASE t.kid[e][m] = g
      <4>1. v.kid[e][m] = x /\ t.parent[g] = m
        BY <1>1, <1>2, <2>0, <3>1
      <4> QED BY <1>1, <1>2, <1>3, <2>2, <4>1
    <3>2. CASE t.kid[e][m] # g
      <4>1. v.kid[e][m] = t.kid[e][m] /\ t.kid[e][m] \in Nodes
        BY <1>1, <1>2, <2>2, <3>2 DEF TreeType, NN
      <4>2. t.parent[t.kid[e][m]] = m
        BY <1>1, <2>0, <4>1
      <4>3. t.kid[e][m] # x
        BY <1>1, <1>3, <4>1, <4>2
      <4> QED BY <1>2, <3>2, <4>1, <4>2, <4>3
    <3> QED BY <3>1, <3>2
  <2>3. ASSUME NEW m \in P \ {g}, m # v.root
        PROVE  v.parent[m] \in P \ {g} /\ \E e \in Sides : v.kid[e][v.parent[m]] = m
    <3>1. CASE m = x
      <4>1. g # t.root /\ v.parent[m] = t.parent[g] /\ t.parent[g] \in P \ {g}
        BY <1>1, <1>2, <2>3, <2>a, <3>1
      <4>2. PICK e \in Sides : t.kid[e][t.parent[g]] = g
        BY <2>0, <4>1
      <4>3. v.kid[e][t.parent[g]] = x
        BY <1>1, <1>2, <4>1, <4>2
      <4> QED BY <3>1, <4>1, <4>3
    <3>2. CASE m # x
      <4>1. m # t.root /\ v.parent[m] = t.parent[m]
        BY <1>1, <1>2, <2>3, <3>2
      <4>2. t.parent[m] \in P
        BY <2>0, <4>1
      <4>3. PICK e \in Sides : t.kid[e][t.parent[m]] = m
        BY <2>0, <4>1
      <4>4. t.parent[m] # g
        BY <1>1, <1>3, <3>2, <4>3
      <4>5. v.kid[e][t.parent[m]] = m
        BY <1>1, <1>2, <4>2, <4>3, <4>4
      <4> QED BY <4>1, <4>2, <4>4, <4>5
    <3> QED BY <3>1, <3>2
  <2>4. ASSUME NEW m \in Nodes \ (P \ {g})
        PROVE  v.parent[m] = NULL /\ \A e \in Sides : v.kid[e][m] = NULL
    <3>1. CASE m = g
      BY <1>2, <3>1
    <3>2. CASE m # g
      <4>1. m \in Nodes \ P /\ m # x
        BY <1>1, <1>3, <3>2
      <4>2. t.parent[m] = NULL /\ \A e \in Sides : t.kid[e][m] = NULL
        BY <2>0, <4>1
      <4> QED BY <1>1, <1>2, <3>2, <4>1, <4>2
    <3> QED BY <3>1, <3>2
  <2>5. P \ {g} \subseteq Nodes
    BY <1>1
  <2> QED BY <2>1, <2>2, <2>3, <2>4, <2>5 DEF Linked
<1> QED BY <1>2, <1>9, <1>10, <1>11, <1>12 DEF Shape, R

\* Two structs change places: f exchanges them.
Exchange(f) == f \in [NN -> NN] /\ f[NULL] = NULL /\ \A m \in NN : f[f[m]] = m

Renamed(v, w, f) ==
  /\ TreeType(w)
  /\ w.root = f[v.root]
  /\ \A m \in Nodes : w.parent[m] = f[v.parent[f[m]]]
  /\ \A m \in Nodes : w.red[m] <=> v.red[f[m]]
  /\ \A e \in Sides : \A m \in Nodes : w.kid[e][m] = f[v.kid[e][f[m]]]

RenamedS(S, f) == [m \in NN |-> {j \in Nodes : f[j] \in S[f[m]]}]

RenamedP(P, f) == {j \in Nodes : f[j] \in P}

LEMMA RenameGood ==
  ASSUME NEW v, NEW S, NEW H, NEW P, NEW ar, Sound(v, S, H, P, ar, NULL), NEW f, Exchange(f),
         NEW w, Renamed(v, w, f), Ordered(w, RenamedS(S, f), RenamedP(P, f), ar)
  PROVE  Good(w, RenamedP(P, f), ar, NULL)
<1> DEFINE R == RenamedS(S, f)
           Q == RenamedP(P, f)
           G == [m \in NN |-> H[f[m]]]
<1>1. /\ TreeType(v) /\ P \subseteq Nodes /\ NULL \notin P
      /\ H \in [NN -> Nat \ {0}] /\ H[NULL] = 1
      /\ v.kid \in [Sides -> [Nodes -> NN]] /\ v.red \in [Nodes -> BOOLEAN]
      /\ NULL \notin Nodes
  BY SoundFacts, TreeAssumption
<1>2. f \in [NN -> NN] /\ f[NULL] = NULL /\ \A m \in NN : f[f[m]] = m
  BY DEF Exchange
<1>3. \A m \in Nodes : f[m] \in Nodes /\ f[f[m]] = m /\ m \in NN
  BY <1>1, <1>2 DEF NN
<1>4. /\ TreeType(w)
      /\ w.root = f[v.root]
      /\ \A m \in Nodes : w.parent[m] = f[v.parent[f[m]]]
      /\ \A m \in Nodes : w.red[m] <=> v.red[f[m]]
      /\ \A e \in Sides : \A m \in Nodes : w.kid[e][m] = f[v.kid[e][f[m]]]
  BY DEF Renamed
<1>5. /\ S \in [NN -> SUBSET Nodes] /\ S[NULL] = {} /\ S[v.root] = P /\ Nested(v, S)
      /\ Linked(v, P) /\ v.root \in NN
  BY DEF Sound, Shape, Nested, TreeType
<1>6. R \in [NN -> SUBSET Nodes] /\ \A m \in NN : \A j \in Nodes : j \in R[m] <=> f[j] \in S[f[m]]
  BY DEF RenamedS
<1>7. \A m \in NN : R[m] \subseteq Nodes
  BY <1>6
<1>8. \A j \in Nodes : j \in Q <=> f[j] \in P
  BY DEF RenamedP
<1>9. Q \subseteq Nodes
  BY DEF RenamedP
<1>10. Ordered(w, R, Q, ar)
  OBVIOUS
<1>11. G \in [NN -> Nat \ {0}] /\ \A m \in NN : G[m] = H[f[m]]
  BY <1>1, <1>2
<1> HIDE DEF R, Q, G
<1>12. \A m \in Nodes : \A e \in Sides : /\ v.kid[e][f[m]] \in NN /\ w.kid[e][m] \in NN
                                        /\ f[w.kid[e][m]] = v.kid[e][f[m]]
  BY <1>1, <1>2, <1>3, <1>4
<1>13. Nested(w, R)
  <2>1. R[NULL] = {}
    BY <1>2, <1>5, <1>6, <1>7 DEF NN
  <2>2. ASSUME NEW m \in Nodes
        PROVE  Wf(R, m, w.kid["left"][m], w.kid[Other("left")][m])
    <3> DEFINE a == w.kid["left"][m]
               b == w.kid["right"][m]
               i == f[m]
    <3>1. "left" \in Sides /\ "right" \in Sides /\ Other("left") = "right"
      BY DEF Sides, Other
    <3>2. a \in NN /\ b \in NN /\ f[a] = v.kid["left"][i] /\ f[b] = v.kid["right"][i] /\ i \in Nodes
          /\ f[i] = m /\ m \in NN
      BY <1>3, <1>12, <3>1
    <3> HIDE DEF a, b, i
    <3>3. S[i] = {i} \cup S[f[a]] \cup S[f[b]] /\ i \notin S[f[a]] /\ i \notin S[f[b]]
          /\ S[f[a]] \cap S[f[b]] = {}
      BY <1>5, <3>2 DEF Nested
    <3>4. \A j \in Nodes : f[j] = i <=> j = m
      BY <1>3, <3>2
    <3>5. i = f[m]
      BY DEF i
    <3>6. \A j \in Nodes : /\ j \in R[m] <=> f[j] \in S[i]
                           /\ j \in R[a] <=> f[j] \in S[f[a]]
                           /\ j \in R[b] <=> f[j] \in S[f[b]]
      BY <1>6, <3>2, <3>5
    <3>7. R[m] \subseteq Nodes /\ R[a] \subseteq Nodes /\ R[b] \subseteq Nodes
      BY <1>7, <3>2
    <3>8. R[m] = {m} \cup R[a] \cup R[b]
      BY <3>3, <3>4, <3>6, <3>7
    <3>9. m \notin R[a] /\ m \notin R[b]
      BY <3>3, <3>4, <3>6
    <3>10. R[a] \cap R[b] = {}
      BY <3>3, <3>6, <3>7
    <3> QED BY <3>1, <3>8, <3>9, <3>10 DEF Wf, a, b
  <2>3. "left" \in Sides
    BY DEF Sides
  <2> QED BY <1>6, <2>1, <2>2, <2>3, NestedFrom
<1>14. R[w.root] = Q
  <2>1. w.root \in NN /\ f[w.root] = v.root
    BY <1>2, <1>4, <1>5
  <2>2. \A j \in Nodes : j \in R[w.root] <=> f[j] \in P
    BY <1>5, <1>6, <2>1
  <2> QED BY <1>7, <1>8, <1>9, <2>1, <2>2
<1>15. Linked(w, Q)
  <2>0. /\ v.root # NULL => v.parent[v.root] = NULL
        /\ \A m \in P : \A e \in Sides : v.kid[e][m] # NULL => v.parent[v.kid[e][m]] = m
        /\ \A m \in P : m # v.root => v.parent[m] \in P /\ \E e \in Sides : v.kid[e][v.parent[m]] = m
        /\ \A m \in Nodes \ P : v.parent[m] = NULL /\ \A e \in Sides : v.kid[e][m] = NULL
    BY <1>5 DEF Linked
  <2>1. w.root # NULL => w.parent[w.root] = NULL
    <3>1. w.root # NULL => v.root # NULL /\ w.root \in Nodes /\ f[w.root] = v.root
      BY <1>2, <1>4, <1>5 DEF NN, TreeType
    <3> QED BY <1>2, <1>4, <2>0, <3>1
  <2>2. ASSUME NEW m \in Q, NEW e \in Sides, w.kid[e][m] # NULL
        PROVE  w.parent[w.kid[e][m]] = m
    <3>1. m \in Nodes /\ f[m] \in P /\ f[m] \in Nodes
      BY <1>1, <1>8, <1>9
    <3> DEFINE k == v.kid[e][f[m]]
    <3>2. k \in NN /\ w.kid[e][m] = f[k] /\ k # NULL
      BY <1>2, <1>4, <1>12, <2>2, <3>1
    <3>3. v.parent[k] = f[m]
      BY <2>0, <3>1, <3>2
    <3>4. f[k] \in Nodes /\ f[f[k]] = k
      BY <1>2, <1>3, <3>2 DEF NN
    <3> HIDE DEF k
    <3>5. w.parent[f[k]] = f[v.parent[k]]
      BY <1>4, <3>4
    <3> QED BY <1>3, <3>1, <3>2, <3>3, <3>5
  <2>3. ASSUME NEW m \in Q, m # w.root
        PROVE  w.parent[m] \in Q /\ \E e \in Sides : w.kid[e][w.parent[m]] = m
    <3>1. m \in Nodes /\ f[m] \in P /\ f[m] \in Nodes /\ f[f[m]] = m
      BY <1>3, <1>8, <1>9
    <3>2. f[m] # v.root
      BY <1>4, <2>3, <3>1
    <3> DEFINE i == f[m]
               j == v.parent[i]
    <3>3. j \in P /\ j \in Nodes /\ f[j] \in Nodes /\ f[f[j]] = j
      BY <1>1, <1>3, <2>0, <3>1, <3>2
    <3>4. PICK e \in Sides : v.kid[e][j] = i
      BY <2>0, <3>1, <3>2
    <3>5. w.parent[m] = f[j]
      BY <1>4, <3>1
    <3>6. w.kid[e][f[j]] = f[i]
      <4> HIDE DEF j, i
      <4> QED BY <1>4, <3>3, <3>4
    <3>7. f[j] \in Q
      BY <1>8, <3>3
    <3> HIDE DEF j
    <3> QED BY <3>1, <3>5, <3>6, <3>7
  <2>4. ASSUME NEW m \in Nodes \ Q
        PROVE  w.parent[m] = NULL /\ \A e \in Sides : w.kid[e][m] = NULL
    <3>1. f[m] \in Nodes \ P
      BY <1>3, <1>8
    <3> QED BY <1>2, <1>4, <2>0, <3>1
  <2> QED BY <1>9, <2>1, <2>2, <2>3, <2>4 DEF Linked
<1>16. Heights(w, G)
  <2>1. G[NULL] = 1
    BY <1>1, <1>2, <1>11 DEF NN
  <2>2. ASSUME NEW m \in Nodes
        PROVE  Level(G, w.red[m], m, w.kid["left"][m], w.kid[Other("left")][m])
    <3>1. "left" \in Sides /\ Other("left") \in Sides
      BY DEF Sides, Other
    <3>2. Level(H, v.red[f[m]], f[m], v.kid["left"][f[m]], v.kid[Other("left")][f[m]])
      BY <1>1, <1>3, <3>1, HeightSides DEF Sound
    <3>3. /\ G[m] = H[f[m]] /\ (w.red[m] <=> v.red[f[m]])
          /\ \A e \in Sides : G[w.kid[e][m]] = H[v.kid[e][f[m]]]
      BY <1>3, <1>4, <1>11, <1>12
    <3>4. /\ G[w.kid["left"][m]] = H[v.kid["left"][f[m]]]
          /\ G[w.kid[Other("left")][m]] = H[v.kid[Other("left")][f[m]]]
      BY <3>1, <3>3
    <3> QED BY <3>2, <3>3, <3>4 DEF Level
  <2>3. "left" \in Sides
    BY DEF Sides
  <2> QED BY <1>4, <1>11, <2>1, <2>2, <2>3, HeightsFrom
<1>17. Reds(w, Q, NULL)
  <2> SUFFICES ASSUME NEW k \in Q, w.red[k], k = w.root \/ w.red[w.parent[k]]
               PROVE  FALSE
    BY DEF Reds
  <2>1. k \in Nodes /\ f[k] \in P /\ f[f[k]] = k /\ v.red[f[k]]
    BY <1>3, <1>4, <1>8, <1>9
  <2>2. f[k] # v.root
    BY <1>1, <2>1 DEF Sound, Reds
  <2>3. v.parent[f[k]] \in P /\ w.parent[k] = f[v.parent[f[k]]]
    BY <1>4, <1>5, <2>1, <2>2 DEF Linked
  <2>4. k # w.root
    BY <1>2, <1>4, <1>5, <2>1, <2>2
  <2>5. v.red[v.parent[f[k]]]
    <3> DEFINE j == v.parent[f[k]]
    <3>1. j \in Nodes /\ f[j] \in Nodes /\ f[f[j]] = j
      BY <1>1, <1>3, <2>3
    <3> HIDE DEF j
    <3>2. w.red[f[j]] <=> v.red[j]
      BY <1>4, <3>1
    <3> QED BY <2>3, <2>4, <3>2 DEF j
  <2> QED BY <1>1, <2>1, <2>5 DEF Sound, Reds
<1>18. Shape(w, R, Q, ar)
  BY <1>4, <1>10, <1>13, <1>14, <1>15 DEF Shape
<1> QED BY <1>16, <1>17, <1>18 DEF Good, Sound, Q

\* The node that goes is wiped.
LEMMA CutIs ==
  ASSUME NEW t, NEW S, NEW P, NEW ar, Shape(t, S, P, ar), NEW g \in P, NEW x, Lone(t, g, x),
         NEW c, Unlinked(t, c, g, x)
  PROVE  /\ Cut(t, Wipe(c, g), g, x)
         /\ \A m \in Nodes : Wipe(c, g).red[m] <=> m # g /\ c.red[m]
<1> DEFINE v == Wipe(c, g)
<1>1. g \in Nodes /\ TreeType(c)
  BY DEF Shape, Linked, Unlinked
<1>2. /\ TreeType(v) /\ v.root = c.root
      /\ \A m \in Nodes : v.parent[m] = IF m = g THEN NULL ELSE c.parent[m]
      /\ \A m \in Nodes : v.red[m] <=> m # g /\ c.red[m]
      /\ \A e \in Sides : \A m \in Nodes : v.kid[e][m] = IF m = g THEN NULL ELSE c.kid[e][m]
  BY <1>1, WipeIs
<1> HIDE DEF v
<1>3. /\ c.root = IF g = t.root THEN x ELSE t.root
      /\ \A m \in Nodes : c.parent[m] = IF m = x THEN t.parent[g] ELSE t.parent[m]
      /\ \A e \in Sides : \A m \in Nodes : c.kid[e][m] = IF t.kid[e][m] = g THEN x ELSE t.kid[e][m]
  BY DEF Unlinked
<1>4. Cut(t, v, g, x)
  BY <1>2, <1>3 DEF Cut
<1> QED BY <1>2, <1>4 DEF v

\* What is below a side after a cut.
LEMMA CutBelow ==
  ASSUME NEW t, NEW S, NEW P, NEW ar, Shape(t, S, P, ar), NEW g \in P, NEW x, Lone(t, g, x),
         NEW v, Cut(t, v, g, x), NEW m \in Nodes, m # g, NEW e \in Sides
  PROVE  CutS(S, g)[v.kid[e][m]] = S[t.kid[e][m]] \ {g}
<1>1. t.kid[e][m] \in NN
  BY DEF Shape, TreeType
<1>2. x \in NN /\ x # g /\ S[g] = {g} \cup S[x] /\ g \notin S[x]
  BY LoneFacts
<1>3. \A i \in NN : CutS(S, g)[i] = IF i = g THEN {g} ELSE S[i] \ {g}
  BY DEF CutS
<1>4. v.kid[e][m] = IF t.kid[e][m] = g THEN x ELSE t.kid[e][m]
  BY DEF Cut
<1>5. CASE t.kid[e][m] = g
  <2>1. v.kid[e][m] = x
    BY <1>4, <1>5
  <2>2. CutS(S, g)[x] = S[x] \ {g}
    BY <1>2, <1>3
  <2>3. S[g] \ {g} = S[x] \ {g}
    BY <1>2
  <2> QED BY <2>1, <2>2, <2>3, <1>5
<1>6. CASE t.kid[e][m] # g
  BY <1>1, <1>3, <1>4, <1>6
<1> QED BY <1>5, <1>6

\* Node g comes next after n, which has two children.
Successor(t, S, P, ar, n, g) ==
  /\ n \in P /\ g \in P /\ g # n
  /\ g \in S[t.kid["right"][n]]
  /\ n \notin S[g]
  /\ \A e \in Sides : \A j \in S[t.kid[e][n]] : j # g => On(ar, e, j, g)

LEMMA SuccessorIs ==
  ASSUME NEW t, NEW S, NEW P, NEW ar, Shape(t, S, P, ar), AreasOK(ar, P), NEW n \in P,
         NEW k, k = t.kid["right"][n], k # NULL, NEW g, g = Outermost(t, k, "left")
  PROVE  Successor(t, S, P, ar, n, g) /\ t.kid["left"][g] = NULL
<1>1. /\ "left" \in Sides /\ "right" \in Sides /\ Other("right") = "left" /\ n \in Nodes
      /\ TreeType(t) /\ Nested(t, S) /\ P \subseteq Nodes
      /\ Other("left") = "right"
  BY DEF Sides, Other, Shape, Linked
<1>2. k \in Nodes
  BY <1>1 DEF TreeType, NN
<1>3. g \in S[k] /\ t.kid["left"][g] = NULL
  BY <1>1, <1>2, OutermostIs
<1>4. n \notin S[k] /\ S[k] \subseteq S[n] /\ S[n] \subseteq P
  <2>1. S[n] \subseteq P
    BY OneLink
  <2>2. /\ S[n] = {n} \cup S[t.kid["right"][n]] \cup S[t.kid[Other("right")][n]]
        /\ n \notin S[t.kid["right"][n]]
    BY <1>1, NestedSides
  <2> QED BY <2>1, <2>2
<1>5. S[g] \subseteq S[k] /\ k \in S[k]
  <2>1. k \in NN
    BY <1>2 DEF NN
  <2>2. S[g] \subseteq S[k]
    BY <1>1, <1>3, <2>1, Inside
  <2> QED BY <1>1, <1>2, <2>2 DEF Nested
<1>6. k \in P /\ g \in P /\ n \notin S[g] /\ g # n
  BY <1>3, <1>4, <1>5
<1>7. ASSUME NEW e \in Sides, NEW j \in S[t.kid[e][n]], j # g
      PROVE  On(ar, e, j, g)
  <2>1. CASE e = "right"
    <3>1. j \in S[k]
      BY <1>7, <2>1
    <3>2. On(ar, "left", g, j)
      BY <1>1, <1>6, <1>7, <3>1, OutermostOrder
    <3> QED BY <2>1, <3>2 DEF On
  <2>2. CASE e = "left"
    <3>1. On(ar, "left", j, n)
      BY <1>7, <2>2 DEF Shape, Ordered
    <3>2. On(ar, "right", g, n)
      BY <1>1, <1>3 DEF Shape, Ordered
    <3>3. On(ar, "left", n, g)
      BY <3>2 DEF On
    <3>4. j \in P
      <4>1. S[n] = {n} \cup S[t.kid["left"][n]] \cup S[t.kid[Other("left")][n]]
        BY <1>1, NestedSides
      <4> QED BY <1>4, <1>7, <2>2, <4>1
    <3> QED BY <1>1, <1>6, <2>2, <3>1, <3>3, <3>4, OnTrans
  <2> QED BY <2>1, <2>2 DEF Sides
<1> QED BY <1>3, <1>6, <1>7 DEF Successor

Swap(n, g) == [m \in NN |-> IF m = n THEN g ELSE IF m = g THEN n ELSE m]

\* Where a node takes the place of another, the two change places.
LEMMA SwapIs ==
  ASSUME NEW t, NEW S, NEW P, NEW ar, Shape(t, S, P, ar), NEW n, NEW g,
         Successor(t, S, P, ar, n, g), NEW x, Lone(t, g, x), NEW c, Unlinked(t, c, g, x),
         NEW v, v = Wipe(c, g), NEW w, Replaced(c, w, Link(t, n), n, g)
  PROVE  Renamed(v, w, Swap(n, g))
<1> DEFINE f == Swap(n, g)
           l == Link(t, n)
<1>0. g \in P /\ n \in P /\ g # n /\ g \in S[t.kid["right"][n]] /\ n \notin S[g]
  BY DEF Successor
<1>1. P \subseteq Nodes /\ NULL \notin Nodes /\ n \in Nodes /\ g \in Nodes /\ TreeType(t)
  BY <1>0, TreeAssumption DEF Shape, Linked
<1>2. /\ Cut(t, v, g, x)
      /\ \A m \in Nodes : v.red[m] <=> m # g /\ c.red[m]
  BY <1>0, CutIs
<1>3. Shape(v, CutS(S, g), P \ {g}, ar)
  BY <1>0, <1>2, CutShape
<1>4. /\ x \in NN /\ x # g /\ S[g] = {g} \cup S[x]
      /\ x # NULL => x \in P
  BY <1>0, LoneFacts
<1>5. x # n
  <2>1. n \in S[n]
    BY <1>1 DEF Shape, Nested
  <2> QED BY <1>0, <1>4, <2>1
<1>6. g # t.root
  BY <1>0 DEF Shape
<1>7. /\ TreeType(v)
      /\ v.root = t.root
      /\ \A e \in Sides : \A m \in Nodes :
           v.kid[e][m] = IF m = g THEN NULL ELSE IF t.kid[e][m] = g THEN x ELSE t.kid[e][m]
  BY <1>2, <1>6 DEF Cut
<1>8. /\ v.root = c.root
      /\ \A m \in Nodes : v.parent[m] = IF m = g THEN NULL ELSE c.parent[m]
      /\ \A e \in Sides : \A m \in Nodes : v.kid[e][m] = IF m = g THEN NULL ELSE c.kid[e][m]
  <2>1. TreeType(c)
    BY DEF Unlinked
  <2>2. g \in Nodes
    BY <1>1
  <2>3. /\ TreeType(Wipe(c, g)) /\ Wipe(c, g).root = c.root
        /\ \A m \in Nodes : Wipe(c, g).parent[m] = IF m = g THEN NULL ELSE c.parent[m]
        /\ \A m \in Nodes : Wipe(c, g).red[m] <=> m # g /\ c.red[m]
        /\ \A e \in Sides : \A m \in Nodes :
             Wipe(c, g).kid[e][m] = IF m = g THEN NULL ELSE c.kid[e][m]
    BY <2>1, <2>2, WipeIs
  <2> QED BY <2>3, Zenon
<1>9. /\ \A m \in Nodes : \A e \in Sides : v.kid[e][m] \in NN /\ v.kid[e][m] # g
      /\ \A m \in Nodes : v.parent[m] \in NN /\ v.parent[m] # g
  <2>1. /\ \A m \in Nodes : \A e \in Sides : v.kid[e][m] \in NN
        /\ \A m \in Nodes : v.parent[m] \in NN
    BY <1>7 DEF TreeType
  <2>2. \A m \in Nodes : \A e \in Sides : v.kid[e][m] # g
    BY <1>1, <1>4, <1>7
  <2>3. \A m \in Nodes : v.parent[m] # g
    <3> TAKE m \in Nodes
    <3>1. CASE m \notin P \ {g}
      BY <1>1, <1>3, <3>1 DEF Shape, Linked
    <3>2. CASE m \in P \ {g}
      <4>1. m # v.root => v.parent[m] \in P \ {g}
        BY <1>3, <3>2 DEF Shape, Linked
      <4>2. m = v.root => v.parent[m] = NULL
        BY <1>1, <1>3, <3>2 DEF Shape, Linked
      <4> QED BY <1>1, <4>1, <4>2
    <3> QED BY <3>1, <3>2
  <2> QED BY <2>1, <2>2, <2>3
<1>10. /\ l.at \in NN /\ l.side \in Sides
       /\ l.at = NULL <=> n = t.root
       /\ \A m \in Nodes : \A e \in Sides : t.kid[e][m] = n <=> m = l.at /\ e = l.side
  BY <1>0, LinkIs
<1>11. /\ TreeType(w)
       /\ w.root = IF l.at = NULL THEN g ELSE c.root
       /\ \A m \in Nodes : w.parent[m] = IF m = n THEN NULL ELSE IF m = g THEN c.parent[n]
                                    ELSE IF m \in Kids(c, n) THEN g ELSE c.parent[m]
       /\ \A m \in Nodes : w.red[m] <=> m # n /\ (IF m = g THEN c.red[n] ELSE c.red[m])
       /\ \A e \in Sides : \A m \in Nodes :
            w.kid[e][m] = IF m = n THEN NULL ELSE IF m = g THEN c.kid[e][n]
                     ELSE IF m = l.at /\ e = l.side THEN g ELSE c.kid[e][m]
  BY DEF Replaced
<1> HIDE DEF l
<1>12. \A m \in NN : f[m] = IF m = n THEN g ELSE IF m = g THEN n ELSE m
  BY DEF Swap
<1> HIDE DEF f
<1>13. f[NULL] = NULL /\ f[n] = g /\ f[g] = n /\ \A m \in Nodes : m # n /\ m # g => f[m] = m
  BY <1>0, <1>1, <1>12 DEF NN
<1>14. w.root = f[v.root]
  BY <1>1, <1>6, <1>7, <1>8, <1>10, <1>11, <1>12 DEF TreeType
<1>15. ASSUME NEW m \in Nodes
       PROVE  w.parent[m] = f[v.parent[f[m]]]
  <2>1. CASE m = n
    BY <1>1, <1>8, <1>11, <1>13, <2>1
  <2>2. CASE m = g
    <3>1. n \in P \ {g}
      BY <1>0
    <3>2. v.parent[n] # n
      <4>1. n # v.root => v.parent[n] \notin CutS(S, g)[n]
        BY <1>3, <3>1, OneLink
      <4>2. n \in CutS(S, g)[n]
        BY <1>3, <3>1, OneLink
      <4>3. n = v.root => v.parent[n] = NULL
        BY <1>1, <1>3 DEF Shape, Linked
      <4> QED BY <1>1, <4>1, <4>2, <4>3
    <3>3. f[v.parent[n]] = v.parent[n]
      BY <1>1, <1>9, <1>12, <3>2
    <3> QED BY <1>0, <1>1, <1>8, <1>11, <1>13, <2>2, <3>3
  <2>3. CASE m # n /\ m # g
    <3>1. m \in Kids(c, n) <=> v.parent[m] = n
      <4>1. m \in Kids(c, n) <=> \E e \in Sides : v.kid[e][n] = m
        BY <1>0, <1>1, <1>8 DEF Kids
      <4>2. ASSUME NEW e \in Sides, v.kid[e][n] = m
            PROVE  v.parent[m] = n
        BY <1>0, <1>1, <1>3, <4>2 DEF Shape, Linked
      <4>3. ASSUME v.parent[m] = n
            PROVE  \E e \in Sides : v.kid[e][n] = m
        <5>1. m \in P \ {g}
          BY <1>1, <1>3, <4>3 DEF Shape, Linked
        <5>2. m # v.root
          BY <1>1, <1>3, <4>3 DEF Shape, Linked
        <5> QED BY <1>3, <4>3, <5>1, <5>2 DEF Shape, Linked
      <4> QED BY <4>1, <4>2, <4>3
    <3>2. f[m] = m /\ v.parent[m] = c.parent[m]
      BY <1>8, <1>13, <2>3
    <3>3. w.parent[m] = IF v.parent[m] = n THEN g ELSE v.parent[m]
      BY <1>11, <2>3, <3>1, <3>2
    <3>4. f[v.parent[m]] = IF v.parent[m] = n THEN g ELSE v.parent[m]
      BY <1>9, <1>12
    <3> QED BY <3>2, <3>3, <3>4
  <2> QED BY <2>1, <2>2, <2>3
<1>16. \A m \in Nodes : w.red[m] <=> v.red[f[m]]
  BY <1>0, <1>1, <1>2, <1>11, <1>13
<1>17. ASSUME NEW e \in Sides, NEW m \in Nodes
       PROVE  w.kid[e][m] = f[v.kid[e][f[m]]]
  <2>1. CASE m = n
    BY <1>1, <1>7, <1>11, <1>13, <2>1
  <2>2. CASE m = g
    <3>1. v.kid[e][n] # n
      <4>1. n \notin CutS(S, g)[v.kid[e][n]] /\ n \in CutS(S, g)[n]
        <5>1. n \in CutS(S, g)[n]
          BY <1>1, <1>3 DEF Shape, Nested
        <5>2. n \notin CutS(S, g)[v.kid[e][n]]
          BY <1>1, <1>3, NestedSides DEF Shape
        <5> QED BY <5>1, <5>2
      <4> QED BY <4>1
    <3>2. f[v.kid[e][n]] = v.kid[e][n]
      BY <1>1, <1>9, <1>12, <3>1
    <3> QED BY <1>0, <1>1, <1>8, <1>11, <1>13, <2>2, <3>2
  <2>3. CASE m # n /\ m # g
    <3>1. m = l.at /\ e = l.side <=> v.kid[e][m] = n
      BY <1>0, <1>5, <1>7, <1>10, <2>3
    <3>2. f[m] = m /\ v.kid[e][m] = c.kid[e][m]
      BY <1>8, <1>13, <2>3
    <3>3. w.kid[e][m] = IF v.kid[e][m] = n THEN g ELSE v.kid[e][m]
      BY <1>11, <2>3, <3>1, <3>2
    <3>4. f[v.kid[e][m]] = IF v.kid[e][m] = n THEN g ELSE v.kid[e][m]
      BY <1>9, <1>12
    <3> QED BY <3>2, <3>3, <3>4
  <2> QED BY <2>1, <2>2, <2>3
<1> QED BY <1>11, <1>14, <1>15, <1>16, <1>17 DEF Renamed, f

LEMMA SwapExchanges ==
  ASSUME NEW n \in Nodes, NEW g \in Nodes, n # g
  PROVE  /\ Exchange(Swap(n, g))
         /\ Swap(n, g)[n] = g /\ Swap(n, g)[g] = n
         /\ \A m \in NN : m # n /\ m # g => Swap(n, g)[m] = m
         /\ \A m \in Nodes : Swap(n, g)[m] \in Nodes
         /\ \A P \in SUBSET Nodes : n \in P /\ g \in P =>
              RenamedP(P \ {g}, Swap(n, g)) = P \ {n}
<1> DEFINE f == Swap(n, g)
<1>1. NULL \notin Nodes
  BY TreeAssumption
<1>2. \A m \in NN : f[m] = IF m = n THEN g ELSE IF m = g THEN n ELSE m
  BY DEF Swap
<1>3. f \in [NN -> NN]
  BY DEF Swap, NN
<1> HIDE DEF f
<1>4. f[NULL] = NULL /\ f[n] = g /\ f[g] = n
  BY <1>1, <1>2 DEF NN
<1>5. \A m \in Nodes : f[m] \in Nodes
  BY <1>2 DEF NN
<1>6. \A m \in NN : f[f[m]] = m
  BY <1>2 DEF NN
<1>7. ASSUME NEW P \in SUBSET Nodes, n \in P, g \in P
      PROVE  RenamedP(P \ {g}, f) = P \ {n}
  <2>1. \A j \in Nodes : f[j] \in P \ {g} <=> j \in P \ {n}
    BY <1>2, <1>7 DEF NN
  <2> QED BY <2>1 DEF RenamedP
<1>8. Exchange(f)
  BY <1>3, <1>4, <1>6 DEF Exchange
<1> QED BY <1>2, <1>4, <1>5, <1>7, <1>8 DEF f

\* The order of the areas survives the exchange.
LEMMA SwapOrdered ==
  ASSUME NEW t, NEW S, NEW P, NEW ar, Shape(t, S, P, ar), NEW n, NEW g,
         Successor(t, S, P, ar, n, g), NEW x, Lone(t, g, x), NEW v, Cut(t, v, g, x),
         NEW w, Renamed(v, w, Swap(n, g))
  PROVE  Ordered(w, RenamedS(CutS(S, g), Swap(n, g)), P \ {n}, ar)
<1> DEFINE f == Swap(n, g)
           R == RenamedS(CutS(S, g), Swap(n, g))
<1>0. g \in P /\ n \in P /\ g # n /\ g \in S[t.kid["right"][n]] /\ n \notin S[g]
  BY DEF Successor
<1>1. /\ P \subseteq Nodes /\ NULL \notin Nodes /\ n \in Nodes /\ g \in Nodes
      /\ TreeType(t) /\ Nested(t, S) /\ "right" \in Sides
  BY <1>0, TreeAssumption DEF Shape, Linked, Sides
<1>2. /\ f[n] = g /\ f[g] = n
      /\ \A m \in NN : m # n /\ m # g => f[m] = m
      /\ \A m \in Nodes : f[m] \in Nodes
      /\ \A m \in NN : f[f[m]] = m
      /\ f \in [NN -> NN]
  BY <1>0, <1>1, SwapExchanges DEF Exchange
<1>3. \A m \in NN : R[m] = {j \in Nodes : f[j] \in CutS(S, g)[f[m]]}
  BY DEF RenamedS
<1>4. /\ TreeType(v)
      /\ \A e \in Sides : \A m \in Nodes : v.kid[e][m] \in NN
  BY DEF Cut, TreeType
<1>5. \A e \in Sides : \A m \in Nodes : w.kid[e][m] = f[v.kid[e][f[m]]] /\ w.kid[e][m] \in NN
  BY DEF Renamed, TreeType
<1> HIDE DEF f, R
<1> SUFFICES ASSUME NEW m \in P \ {n}, NEW e \in Sides, NEW j \in R[w.kid[e][m]]
             PROVE  On(ar, e, j, m)
  BY DEF Ordered, f, R
<1>6. m \in Nodes /\ m \in NN /\ f[m] \in Nodes /\ f[m] # g
  BY <1>1, <1>2 DEF NN
<1>7. f[w.kid[e][m]] = v.kid[e][f[m]]
  BY <1>2, <1>4, <1>5, <1>6
<1>8. j \in Nodes /\ f[j] \in CutS(S, g)[v.kid[e][f[m]]]
  BY <1>3, <1>5, <1>6, <1>7
<1>9. CutS(S, g)[v.kid[e][f[m]]] = S[t.kid[e][f[m]]] \ {g}
  BY <1>0, <1>6, CutBelow
<1>10. f[j] \in S[t.kid[e][f[m]]] /\ f[j] # g /\ j # n
  BY <1>2, <1>8, <1>9
<1>11. j \in NN
  BY <1>8 DEF NN
<1>12. CASE m = g
  <2>1. f[m] = n
    BY <1>2, <1>12
  <2>2. n \notin S[t.kid[e][n]]
    BY <1>1, NestedSides
  <2>3. j # g /\ f[j] = j
    BY <1>2, <1>10, <1>11, <2>1, <2>2
  <2>4. j \in S[t.kid[e][n]]
    BY <1>10, <2>1, <2>3
  <2> QED BY <1>12, <2>3, <2>4 DEF Successor
<1>13. CASE m # g /\ j = g
  <2>1. f[m] = m /\ f[j] = n
    BY <1>2, <1>6, <1>13
  <2>2. n \in S[t.kid[e][m]] /\ t.kid[e][m] \in NN
    BY <1>1, <1>6, <1>10, <2>1, NestedSides
  <2>3. S[n] \subseteq S[t.kid[e][m]]
    BY <1>1, <2>2, Inside
  <2>4. g \in S[n]
    BY <1>0, <1>1, NestedSides
  <2>5. j \in S[t.kid[e][m]]
    BY <1>13, <2>3, <2>4
  <2> QED BY <2>5 DEF Shape, Ordered
<1>14. CASE m # g /\ j # g
  <2>1. f[m] = m /\ f[j] = j
    BY <1>2, <1>6, <1>10, <1>11, <1>14
  <2>2. j \in S[t.kid[e][m]]
    BY <1>10, <2>1
  <2> QED BY <2>2 DEF Shape, Ordered
<1> QED BY <1>12, <1>13, <1>14

\* The successor takes the place of n.
LEMMA SwapGood ==
  ASSUME NEW t, NEW S, NEW P, NEW ar, Shape(t, S, P, ar), NEW n, NEW g,
         Successor(t, S, P, ar, n, g), NEW x, Lone(t, g, x), NEW c, Unlinked(t, c, g, x),
         NEW H, Sound(Wipe(c, g), CutS(S, g), H, P \ {g}, ar, NULL)
  PROVE  Good(Wipe(Substitute(c, Link(t, n), n, g), n), P \ {n}, ar, NULL)
<1> DEFINE v == Wipe(c, g)
           w == Wipe(Substitute(c, Link(t, n), n, g), n)
           f == Swap(n, g)
<1>0. g \in P /\ n \in P /\ g # n
  BY DEF Successor
<1>1. P \in SUBSET Nodes /\ n \in Nodes /\ g \in Nodes /\ TreeType(c)
  BY <1>0 DEF Shape, Linked, Unlinked
<1>2. Link(t, n).at \in NN /\ Link(t, n).side \in Sides
  BY <1>0, LinkIs
<1>3. Replaced(c, w, Link(t, n), n, g)
  BY <1>0, <1>1, <1>2, SubstituteIs
<1>4. Renamed(v, w, f)
  BY <1>3, SwapIs
<1>5. Cut(t, v, g, x)
  BY <1>0, CutIs
<1>6. Ordered(w, RenamedS(CutS(S, g), f), P \ {n}, ar)
  BY <1>4, <1>5, SwapOrdered
<1>7. Exchange(f) /\ RenamedP(P \ {g}, f) = P \ {n}
  BY <1>0, <1>1, SwapExchanges
<1>8. Sound(v, CutS(S, g), H, P \ {g}, ar, NULL)
  OBVIOUS
<1> HIDE DEF v, w, f
<1>9. Ordered(w, RenamedS(CutS(S, g), f), RenamedP(P \ {g}, f), ar)
  BY <1>6, <1>7
<1>10. Good(w, RenamedP(P \ {g}, f), ar, NULL)
  BY <1>4, <1>7, <1>8, <1>9, RenameGood
<1> QED BY <1>7, <1>10 DEF w

\* A red node or one with a child is cut out, and the child becomes black.
PlainCut(t, v, g, x) ==
  /\ Cut(t, v, g, x)
  /\ t.red[g] \/ x # NULL
  /\ \A m \in Nodes : v.red[m] <=> m # g /\ m # x /\ t.red[m]

LEMMA PlainCutSound ==
  ASSUME NEW t, NEW S, NEW H, NEW P, NEW ar, Sound(t, S, H, P, ar, NULL), NEW g \in P, NEW x,
         Lone(t, g, x), NEW v, PlainCut(t, v, g, x)
  PROVE  \E G : Sound(v, CutS(S, g), G, P \ {g}, ar, NULL)
<1> DEFINE G == [m \in NN |-> IF m = g \/ (m = x /\ x # NULL) THEN 2 ELSE H[m]]
<1>0. Shape(t, S, P, ar) /\ Heights(t, H) /\ Reds(t, P, NULL)
  BY DEF Sound
<1>1. /\ TreeType(t) /\ P \subseteq Nodes /\ NULL \notin Nodes /\ g \in Nodes
      /\ H \in [NN -> Nat \ {0}] /\ H[NULL] = 1
  BY SoundFacts, TreeAssumption
<1>2. Cut(t, v, g, x) /\ \A m \in Nodes : v.red[m] <=> m # g /\ m # x /\ t.red[m]
  BY DEF PlainCut
<1>3. Shape(v, CutS(S, g), P \ {g}, ar)
  BY <1>0, <1>2, CutShape
<1>4. /\ x \in NN /\ x # g
      /\ x # NULL => x \in P /\ x \in Nodes /\ t.parent[x] = g /\ x # t.root
  BY <1>0, <1>1, LoneFacts
<1>5. /\ TreeType(v)
      /\ v.root = IF g = t.root THEN x ELSE t.root
      /\ \A m \in Nodes : v.parent[m] = IF m = g THEN NULL ELSE IF m = x THEN t.parent[g] ELSE t.parent[m]
      /\ \A e \in Sides : \A m \in Nodes :
           v.kid[e][m] = IF m = g THEN NULL ELSE IF t.kid[e][m] = g THEN x ELSE t.kid[e][m]
  BY <1>2 DEF Cut
<1>6. H[x] = 1 /\ (t.red[g] => H[g] = 1) /\ (~t.red[g] => H[g] = 2)
  <2>1. PICK d \in Sides : t.kid[d][g] = x /\ t.kid[Other(d)][g] = NULL
    BY DEF Lone
  <2>2. Level(H, t.red[g], g, t.kid[d][g], t.kid[Other(d)][g])
    BY <1>0, <1>1, HeightSides
  <2> QED BY <1>1, <2>1, <2>2 DEF Level
<1>7. x # NULL => t.red[x] /\ ~t.red[g] /\ \A e \in Sides : H[t.kid[e][x]] = 1
  <2> SUFFICES ASSUME x # NULL
               PROVE  t.red[x] /\ ~t.red[g] /\ \A e \in Sides : H[t.kid[e][x]] = 1
    OBVIOUS
  <2>1. x \in Nodes /\ x \in P /\ t.parent[x] = g
    BY <1>4
  <2>2. ASSUME NEW e \in Sides
        PROVE  t.red[x] /\ H[t.kid[e][x]] = 1
    <3>1. Level(H, t.red[x], x, t.kid[e][x], t.kid[Other(e)][x])
      BY <1>0, <1>1, <2>1, HeightSides
    <3>2. t.kid[e][x] \in NN /\ t.red[x] \in BOOLEAN
      BY <1>1, <2>1 DEF TreeType
    <3>3. H[t.kid[e][x]] \in Nat \ {0}
      BY <1>1, <3>2
    <3>4. t.red[x]
      BY <1>6, <3>1, <3>2, <3>3 DEF Level
    <3> QED BY <1>6, <3>1, <3>4 DEF Level
  <2>3. t.red[x]
    BY <2>2 DEF Sides
  <2>4. ~t.red[g]
    BY <1>0, <2>1, <2>3 DEF Reds
  <2> QED BY <2>2, <2>3, <2>4
<1>8. \A m \in NN : G[m] = IF m = g \/ (m = x /\ x # NULL) THEN 2 ELSE H[m]
  OBVIOUS
<1>9. G \in [NN -> Nat \ {0}]
  BY <1>1
<1> HIDE DEF G
<1>10. G[NULL] = 1 /\ G[g] = 2 /\ (x # NULL => G[x] = 2)
  BY <1>1, <1>4, <1>8 DEF NN
<1>11. G[x] = H[g]
  <2>1. CASE x = NULL
    BY <1>6, <1>10, <2>1 DEF PlainCut
  <2>2. CASE x # NULL
    BY <1>6, <1>7, <1>10, <2>2
  <2> QED BY <2>1, <2>2
<1>12. ASSUME NEW m \in Nodes, m # g, NEW e \in Sides
       PROVE  G[v.kid[e][m]] = H[t.kid[e][m]]
  <2>1. t.kid[e][m] \in NN
    BY <1>1 DEF TreeType
  <2>2. CASE t.kid[e][m] = g
    <3>1. v.kid[e][m] = x
      BY <1>5, <1>12, <2>2
    <3> QED BY <1>11, <2>2, <3>1
  <2>3. CASE t.kid[e][m] # g
    <3>1. v.kid[e][m] = t.kid[e][m]
      BY <1>5, <1>12, <2>3
    <3>2. ~(t.kid[e][m] = x /\ x # NULL)
      <4> SUFFICES ASSUME t.kid[e][m] = x, x # NULL
                   PROVE  FALSE
        OBVIOUS
      <4>1. m = t.parent[x]
        BY <1>0, <1>4, OneLink
      <4> QED BY <1>4, <1>12, <4>1
    <3> QED BY <1>8, <2>1, <2>3, <3>1, <3>2
  <2> QED BY <2>2, <2>3
<1>13. ASSUME NEW m \in Nodes
       PROVE  \E d \in Sides : Level(G, v.red[m], m, v.kid[d][m], v.kid[Other(d)][m])
  <2>1. PICK d \in Sides : d = "left"
    BY DEF Sides
  <2>2. Other(d) \in Sides
    BY SideFacts
  <2>3. CASE m = g
    <3>1. v.kid[d][g] = NULL /\ v.kid[Other(d)][g] = NULL /\ ~v.red[g]
      BY <1>1, <1>2, <1>5, <2>2
    <3> QED BY <1>10, <2>3, <3>1 DEF Level
  <2>4. CASE m # g
    <3>1. G[v.kid[d][m]] = H[t.kid[d][m]] /\ G[v.kid[Other(d)][m]] = H[t.kid[Other(d)][m]]
      BY <1>12, <2>2, <2>4
    <3>2. CASE m = x
      <4>1. x # NULL
        BY <1>1, <3>2
      <4>2. G[x] = 2 /\ ~v.red[x] /\ H[t.kid[d][x]] = 1 /\ H[t.kid[Other(d)][x]] = 1
        BY <1>2, <1>7, <1>10, <2>2, <3>2, <4>1
      <4> QED BY <3>1, <3>2, <4>2 DEF Level
    <3>3. CASE m # x
      <4>1. Level(H, t.red[m], m, t.kid[d][m], t.kid[Other(d)][m])
        BY <1>0, <1>1, HeightSides
      <4>2. G[m] = H[m] /\ (v.red[m] <=> t.red[m])
        BY <1>2, <1>8, <2>4, <3>3 DEF NN
      <4> QED BY <3>1, <4>1, <4>2 DEF Level
    <3> QED BY <3>2, <3>3
  <2> QED BY <2>3, <2>4
<1>14. Heights(v, G)
  BY <1>5, <1>9, <1>10, <1>13, HeightsFrom
<1>15. Reds(v, P \ {g}, NULL)
  <2> SUFFICES ASSUME NEW k \in P \ {g}, v.red[k], k = v.root \/ v.red[v.parent[k]]
               PROVE  FALSE
    BY DEF Reds
  <2>1. k \in Nodes /\ k # x /\ t.red[k] /\ k # NULL
    BY <1>1, <1>2
  <2>2. k # t.root /\ ~t.red[t.parent[k]]
    BY <1>0, <2>1 DEF Reds
  <2>3. k # v.root
    BY <1>5, <2>1, <2>2
  <2>4. v.parent[k] \in P \ {g}
    BY <1>3, <2>3 DEF Shape, Linked
  <2>5. v.parent[k] = t.parent[k]
    BY <1>5, <2>1
  <2> QED BY <1>1, <1>2, <2>2, <2>3, <2>4, <2>5
<1> QED BY <1>3, <1>14, <1>15 DEF Sound

\* Black leaf g is a right child whose sibling s has no red child, and their
\* parent p can take the loss of a black node.
Bearable(t, g, p, s) ==
  /\ g \in Nodes /\ p \in Nodes /\ s \in Nodes
  /\ t.kid["right"][p] = g /\ t.kid["left"][p] = s
  /\ ~t.red[g] /\ ~t.red[s]
  /\ \A e \in Sides : t.kid[e][g] = NULL
  /\ \A e \in Sides : t.kid[e][s] # NULL => ~t.red[t.kid[e][s]]
  /\ p = t.root \/ t.red[p]

\* The tree without g, where p and s have changed colours.
LossCut(t, v, g, p, s) ==
  /\ Cut(t, v, g, NULL)
  /\ \A m \in Nodes : v.red[m] <=> m # g /\ m # p /\ (m = s \/ t.red[m])

LEMMA BearableFacts ==
  ASSUME NEW t, NEW S, NEW P, NEW ar, Shape(t, S, P, ar), NEW g, NEW p, NEW s, Bearable(t, g, p, s)
  PROVE  /\ g \in P /\ p \in P /\ s \in P /\ g # p /\ s # p /\ g # s
         /\ g # t.root /\ s # t.root /\ t.parent[g] = p /\ t.parent[s] = p
         /\ Lone(t, g, NULL)
<1>1. /\ "left" \in Sides /\ "right" \in Sides /\ Other("right") = "left" /\ Other("left") = "right"
      /\ TreeType(t) /\ Nested(t, S) /\ NULL \notin Nodes /\ P \subseteq Nodes
  BY TreeAssumption DEF Sides, Other, Shape, Linked
<1>2. /\ g \in Nodes /\ p \in Nodes /\ s \in Nodes
      /\ t.kid["right"][p] = g /\ t.kid["left"][p] = s
      /\ \A e \in Sides : t.kid[e][g] = NULL
  BY DEF Bearable
<1>3. p \in P
  BY <1>1, <1>2 DEF Shape, Linked
<1>4. S[p] \subseteq P
  BY <1>3, OneLink
<1>5. g \in S[g] /\ s \in S[s]
  BY <1>1, <1>2 DEF Nested
<1>6. S[p] = {p} \cup S[t.kid["left"][p]] \cup S[t.kid["right"][p]]
  BY <1>1, <1>2 DEF Nested
<1>7. g \in P /\ s \in P
  BY <1>2, <1>4, <1>5, <1>6
<1>8. /\ t.parent[g] = p /\ g # t.root /\ t.kid[Other("right")][p] # g
  BY <1>1, <1>2, <1>7, OneLink
<1>9. t.parent[s] = p /\ s # t.root
  BY <1>1, <1>2, <1>7, OneLink
<1>10. p \notin S[g] /\ p \notin S[s]
  BY <1>1, <1>2, NestedSides
<1>11. Lone(t, g, NULL)
  BY <1>1, <1>2 DEF Lone, NN
<1> QED BY <1>1, <1>2, <1>3, <1>5, <1>7, <1>8, <1>9, <1>10, <1>11

LEMMA LossCutSound ==
  ASSUME NEW t, NEW S, NEW H, NEW P, NEW ar, Sound(t, S, H, P, ar, NULL), NEW g, NEW p, NEW s,
         Bearable(t, g, p, s), NEW v, LossCut(t, v, g, p, s)
  PROVE  \E G : Sound(v, CutS(S, g), G, P \ {g}, ar, NULL)
<1> DEFINE G == [m \in NN |-> IF m = s THEN 1 ELSE IF m = p THEN 2 ELSE H[m]]
<1>0. Shape(t, S, P, ar) /\ Heights(t, H) /\ Reds(t, P, NULL)
  BY DEF Sound
<1>1. /\ TreeType(t) /\ P \subseteq Nodes /\ NULL \notin Nodes
      /\ H \in [NN -> Nat \ {0}] /\ H[NULL] = 1
      /\ "left" \in Sides /\ "right" \in Sides /\ Other("right") = "left" /\ Other("left") = "right"
  BY SoundFacts, TreeAssumption DEF Sides, Other
<1>2. Cut(t, v, g, NULL) /\ \A m \in Nodes : v.red[m] <=> m # g /\ m # p /\ (m = s \/ t.red[m])
  BY DEF LossCut
<1>3. /\ g \in P /\ p \in P /\ s \in P /\ g # p /\ s # p /\ g # s
      /\ g # t.root /\ s # t.root /\ t.parent[g] = p /\ t.parent[s] = p
      /\ Lone(t, g, NULL)
  BY <1>0, BearableFacts
<1>4. /\ g \in Nodes /\ p \in Nodes /\ s \in Nodes
      /\ t.kid["right"][p] = g /\ t.kid["left"][p] = s
      /\ ~t.red[g] /\ ~t.red[s]
      /\ \A e \in Sides : t.kid[e][g] = NULL
      /\ \A e \in Sides : t.kid[e][s] # NULL => ~t.red[t.kid[e][s]]
      /\ p = t.root \/ t.red[p]
  BY DEF Bearable
<1>5. /\ TreeType(v)
      /\ v.root = t.root
      /\ \A m \in Nodes : m # g => v.parent[m] = t.parent[m]
      /\ \A e \in Sides : \A m \in Nodes :
           v.kid[e][m] = IF m = g THEN NULL ELSE IF t.kid[e][m] = g THEN NULL ELSE t.kid[e][m]
  BY <1>1, <1>2, <1>3 DEF Cut
<1>6. Shape(v, CutS(S, g), P \ {g}, ar)
  BY <1>0, <1>2, <1>3, CutShape
<1>7. H[g] = 2
  <2>1. Level(H, t.red[g], g, t.kid["left"][g], t.kid[Other("left")][g])
    BY <1>0, <1>1, <1>4, HeightSides
  <2> QED BY <1>1, <1>4, <2>1 DEF Level
<1>8. H[s] = 2 /\ (t.red[p] => H[p] = 2)
  <2>1. Level(H, t.red[p], p, t.kid["left"][p], t.kid[Other("left")][p])
    BY <1>0, <1>1, <1>4, HeightSides
  <2> QED BY <1>1, <1>4, <1>7, <2>1 DEF Level
<1>9. \A e \in Sides : H[t.kid[e][s]] = 1
  <2> TAKE e \in Sides
  <2>1. Level(H, t.red[s], s, t.kid[e][s], t.kid[Other(e)][s])
    BY <1>0, <1>1, <1>4, HeightSides
  <2>2. t.kid[e][s] \in NN
    BY <1>1, <1>4 DEF TreeType
  <2>3. H[t.kid[e][s]] \in Nat \ {0}
    BY <1>1, <2>2
  <2> QED BY <1>4, <1>8, <2>1, <2>3 DEF Level
<1>10. \A m \in NN : G[m] = IF m = s THEN 1 ELSE IF m = p THEN 2 ELSE H[m]
  OBVIOUS
<1>11. G \in [NN -> Nat \ {0}]
  BY <1>1
<1> HIDE DEF G
<1>12. G[NULL] = 1 /\ G[g] = 2 /\ G[s] = 1 /\ G[p] = 2
  BY <1>1, <1>3, <1>4, <1>7, <1>10 DEF NN
<1>13. ASSUME NEW m \in Nodes, m # g, m # p, NEW e \in Sides
       PROVE  G[v.kid[e][m]] = H[t.kid[e][m]]
  <2>1. t.kid[e][m] \in NN
    BY <1>1 DEF TreeType
  <2>2. t.kid[e][m] # g
    BY <1>0, <1>3, <1>13, OneLink
  <2>3. t.kid[e][m] # s
    BY <1>0, <1>3, <1>13, OneLink
  <2>4. v.kid[e][m] = t.kid[e][m]
    BY <1>5, <1>13, <2>2
  <2>5. CASE t.kid[e][m] = p
    <3>1. p # t.root
      <4>0. p \in P
        BY <1>3
      <4>1. \A i \in Nodes : \A f \in Sides : t.kid[f][i] = p => p # t.root
        BY <1>0, <4>0, OneLink
      <4> QED BY <2>5, <4>1
    <3> QED BY <1>4, <1>8, <1>12, <2>4, <2>5, <3>1
  <2>6. CASE t.kid[e][m] # p
    BY <1>10, <2>1, <2>3, <2>4, <2>6
  <2> QED BY <2>5, <2>6
<1>14. ASSUME NEW m \in Nodes
       PROVE  \E d \in Sides : Level(G, v.red[m], m, v.kid[d][m], v.kid[Other(d)][m])
  <2>3. CASE m = g
    <3>1. v.kid["left"][g] = NULL /\ v.kid["right"][g] = NULL /\ ~v.red[g]
      BY <1>1, <1>2, <1>4, <1>5
    <3>2. Level(G, v.red[m], m, v.kid["left"][m], v.kid[Other("left")][m])
      BY <1>1, <1>12, <2>3, <3>1 DEF Level
    <3> QED BY <1>1, <3>2
  <2>4. CASE m = p
    <3>1. v.kid["left"][p] = s /\ v.kid["right"][p] = NULL /\ ~v.red[p]
      BY <1>1, <1>2, <1>3, <1>4, <1>5
    <3>2. Level(G, v.red[m], m, v.kid["left"][m], v.kid[Other("left")][m])
      BY <1>1, <1>12, <2>4, <3>1 DEF Level
    <3> QED BY <1>1, <3>2
  <2>5. CASE m # g /\ m # p
    <3>1. G[v.kid["left"][m]] = H[t.kid["left"][m]] /\ G[v.kid["right"][m]] = H[t.kid["right"][m]]
      BY <1>1, <1>13, <2>5
    <3>2. CASE m = s
      <4>1. v.red[s] /\ H[t.kid["left"][s]] = 1 /\ H[t.kid["right"][s]] = 1
        BY <1>1, <1>2, <1>3, <1>4, <1>9
      <4>2. Level(G, v.red[m], m, v.kid["left"][m], v.kid[Other("left")][m])
        BY <1>1, <1>12, <3>1, <3>2, <4>1 DEF Level
      <4> QED BY <1>1, <4>2
    <3>3. CASE m # s
      <4>1. Level(H, t.red[m], m, t.kid["left"][m], t.kid[Other("left")][m])
        BY <1>0, <1>1, HeightSides
      <4>2. G[m] = H[m] /\ (v.red[m] <=> t.red[m])
        BY <1>2, <1>10, <2>5, <3>3 DEF NN
      <4>3. Level(G, v.red[m], m, v.kid["left"][m], v.kid[Other("left")][m])
        BY <1>1, <3>1, <4>1, <4>2 DEF Level
      <4> QED BY <1>1, <4>3
    <3> QED BY <3>2, <3>3
  <2> QED BY <2>3, <2>4, <2>5
<1>15. Heights(v, G)
  BY <1>5, <1>11, <1>12, <1>14, HeightsFrom
<1>16. Reds(v, P \ {g}, NULL)
  <2> SUFFICES ASSUME NEW k \in P \ {g}, v.red[k], k = v.root \/ v.red[v.parent[k]]
               PROVE  FALSE
    BY DEF Reds
  <2>1. k \in Nodes /\ k # p /\ (k = s \/ t.red[k]) /\ k # NULL
    BY <1>1, <1>2
  <2>2. t.red[k] => k # t.root /\ ~t.red[t.parent[k]]
    BY <1>0, <2>1 DEF Reds
  <2>3. k # v.root
    BY <1>3, <1>5, <2>1, <2>2
  <2>4. v.parent[k] \in P \ {g} /\ v.parent[k] \in Nodes
    BY <1>1, <1>6, <2>3 DEF Shape, Linked
  <2>5. v.parent[k] = t.parent[k] /\ t.parent[k] # p /\ (t.parent[k] = s \/ t.red[t.parent[k]])
    BY <1>2, <1>5, <2>1, <2>3, <2>4
  <2>6. k # s
    BY <1>3, <2>5
  <2>7. t.parent[k] = s
    BY <2>1, <2>2, <2>5, <2>6
  <2>8. \E e \in Sides : t.kid[e][s] = k
    BY <1>0, <1>5, <2>3, <2>7 DEF Shape, Linked
  <2> QED BY <1>4, <2>1, <2>6, <2>8
<1> QED BY <1>6, <1>15, <1>16 DEF Sound

\* Node g is unlinked, with child x or none, for the removal of n.
Removal(t, S, P, ar, n, g, x) ==
  /\ n \in P /\ g \in P
  /\ Lone(t, g, x) /\ x = TheKid(t, g)
  /\ g = n \/ Successor(t, S, P, ar, n, g)

LEMMA TwoKids ==
  ASSUME NEW t, NEW n, t.kid["left"][n] # t.kid["right"][n] \/ t.kid["left"][n] = NULL
  PROVE  Cardinality(Kids(t, n)) = 2 <=> t.kid["left"][n] # NULL /\ t.kid["right"][n] # NULL
<1> DEFINE l == t.kid["left"][n]
           r == t.kid["right"][n]
<1>1. Kids(t, n) = {l, r} \ {NULL}
  BY DEF Kids, Sides
<1> HIDE DEF l, r
<1>2. CASE l = NULL /\ r = NULL
  <2>1. Kids(t, n) = {}
    BY <1>1, <1>2
  <2> QED BY <1>2, <2>1, FS_EmptySet DEF l, r
<1>3. CASE l = NULL /\ r # NULL
  <2>1. Kids(t, n) = {r}
    BY <1>1, <1>3
  <2>2. Cardinality(Kids(t, n)) = 1
    BY <2>1, FS_Singleton
  <2> QED BY <1>3, <2>2 DEF l, r
<1>4. CASE l # NULL /\ r = NULL
  <2>1. Kids(t, n) = {l}
    BY <1>1, <1>4
  <2>2. Cardinality(Kids(t, n)) = 1
    BY <2>1, FS_Singleton
  <2> QED BY <1>4, <2>2 DEF l, r
<1>5. CASE l # NULL /\ r # NULL
  <2>1. l # r
    BY <1>5 DEF l, r
  <2>2. Kids(t, n) = {l} \cup {r}
    BY <1>1, <1>5
  <2>3. IsFiniteSet({l}) /\ Cardinality({l}) = 1
    BY FS_Singleton
  <2>4. Cardinality({l} \cup {r}) = Cardinality({l}) + 1
    BY <2>1, <2>3, FS_AddElement
  <2> QED BY <1>5, <2>2, <2>3, <2>4 DEF l, r
<1> QED BY <1>2, <1>3, <1>4, <1>5

LEMMA RemovedIs ==
  ASSUME NEW t, NEW S, NEW P, NEW ar, Shape(t, S, P, ar), AreasOK(ar, P), NEW n \in P
  PROVE  Removal(t, S, P, ar, n, Removed(t, n), TheKid(t, Removed(t, n)))
<1> DEFINE l == t.kid["left"][n]
           r == t.kid["right"][n]
           g == Removed(t, n)
<1>1. /\ "left" \in Sides /\ "right" \in Sides /\ Other("right") = "left" /\ Other("left") = "right"
      /\ TreeType(t) /\ Nested(t, S) /\ NULL \notin Nodes /\ P \subseteq Nodes /\ n \in Nodes
  BY TreeAssumption DEF Sides, Other, Shape, Linked
<1>2. l \in NN /\ r \in NN
  BY <1>1 DEF TreeType
<1>3. l # r \/ l = NULL
  <2> SUFFICES ASSUME l = r, l # NULL
               PROVE  FALSE
    OBVIOUS
  <2>1. S[l] \cap S[r] = {}
    BY <1>1 DEF Nested
  <2>2. l \in Nodes
    BY <1>2 DEF NN
  <2>3. l \in S[l]
    BY <1>1, <2>2 DEF Nested
  <2> QED BY <2>1, <2>3
<1>4. Cardinality(Kids(t, n)) = 2 <=> l # NULL /\ r # NULL
  BY <1>3, TwoKids
<1>5. CASE l # NULL /\ r # NULL
  <2>1. g = Outermost(t, r, "left")
    BY <1>4, <1>5 DEF Removed
  <2>2. Successor(t, S, P, ar, n, g) /\ t.kid["left"][g] = NULL
    BY <1>5, <2>1, SuccessorIs
  <2>3. g \in P /\ g \in Nodes
    BY <1>1, <2>2 DEF Successor
  <2> HIDE DEF g
  <2>4. t.kid["right"][g] \in NN
    BY <1>1, <2>3 DEF TreeType
  <2>5. TheKid(t, g) = t.kid["right"][g]
    BY <2>2 DEF TheKid
  <2>6. Lone(t, g, TheKid(t, g))
    BY <1>1, <2>2, <2>4, <2>5 DEF Lone
  <2> QED BY <2>2, <2>3, <2>6 DEF Removal, g
<1>6. CASE l = NULL \/ r = NULL
  <2>1. g = n
    BY <1>4, <1>6 DEF Removed
  <2> HIDE DEF g
  <2>2. Lone(t, n, TheKid(t, n))
    <3>1. CASE l = NULL
      <4>1. TheKid(t, n) = r
        BY <3>1 DEF TheKid
      <4> QED BY <1>1, <1>2, <3>1, <4>1 DEF Lone
    <3>2. CASE l # NULL
      <4>1. TheKid(t, n) = l
        BY <3>2 DEF TheKid
      <4> QED BY <1>1, <1>2, <1>6, <3>2, <4>1 DEF Lone
    <3> QED BY <3>1, <3>2
  <2> QED BY <2>1, <2>2 DEF Removal, g
<1> QED BY <1>5, <1>6

\* What rb_remove() remembers for the time after the repair.
SwapOf(t, n, g) == IF g # n THEN [n |-> n, link |-> Link(t, n)] ELSE NoSwap

LEMMA CompleteGood ==
  ASSUME NEW t, NEW S, NEW P, NEW ar, Shape(t, S, P, ar), NEW n, NEW g, NEW x,
         Removal(t, S, P, ar, n, g, x), NEW c, Unlinked(t, c, g, x),
         NEW H, Sound(Wipe(c, g), CutS(S, g), H, P \ {g}, ar, NULL)
  PROVE  Good(Complete(c, SwapOf(t, n, g), g), P \ {n}, ar, NULL)
<1>1. n \in P /\ Lone(t, g, x) /\ (g = n \/ Successor(t, S, P, ar, n, g))
  BY DEF Removal
<1>2. n # NULL
  BY <1>1, OneLink
<1>3. CASE g = n
  <2>1. SwapOf(t, n, g).n = NULL
    BY <1>3 DEF SwapOf, NoSwap
  <2>2. Complete(c, SwapOf(t, n, g), g) = Wipe(c, g)
    BY <2>1 DEF Complete
  <2>3. Good(Wipe(c, g), P \ {g}, ar, NULL)
    BY DEF Good
  <2> QED BY <1>3, <2>2, <2>3
<1>4. CASE g # n
  <2>1. SwapOf(t, n, g).n = n /\ SwapOf(t, n, g).link = Link(t, n)
    BY <1>4 DEF SwapOf
  <2>2. Complete(c, SwapOf(t, n, g), g) = Wipe(Substitute(c, Link(t, n), n, g), n)
    BY <1>2, <2>1 DEF Complete
  <2>3. Successor(t, S, P, ar, n, g)
    BY <1>1, <1>4
  <2>4. Good(Wipe(Substitute(c, Link(t, n), n, g), n), P \ {n}, ar, NULL)
    BY <1>1, <2>3, SwapGood
  <2> QED BY <2>2, <2>4
<1> QED BY <1>3, <1>4

\* Only the areas of the structs in the tree matter.
LEMMA GoodAreas ==
  ASSUME NEW t, NEW P, NEW ar, NEW x, Good(t, P, ar, x), NEW br, \A m \in P : br[m] = ar[m]
  PROVE  Good(t, P, br, x)
<1>1. PICK S, H : Sound(t, S, H, P, ar, x)
  BY DEF Good
<1>2. Shape(t, S, P, ar)
  BY <1>1 DEF Sound
<1>3. ASSUME NEW n \in P, NEW d \in Sides, NEW m \in S[t.kid[d][n]]
      PROVE  On(br, d, m, n)
  <2>1. n \in Nodes /\ TreeType(t) /\ Nested(t, S) /\ S[n] \subseteq P
    BY <1>2, OneLink DEF Shape
  <2>2. S[n] = {n} \cup S[t.kid[d][n]] \cup S[t.kid[Other(d)][n]]
    BY <2>1, NestedSides
  <2>3. m \in P
    BY <2>1, <2>2
  <2>4. On(ar, d, m, n)
    BY <1>2 DEF Shape, Ordered
  <2> QED BY <2>3, <2>4 DEF On
<1>4. Shape(t, S, P, br)
  BY <1>2, <1>3 DEF Shape, Ordered
<1> QED BY <1>1, <1>4 DEF Good, Sound

-----------------------------------------------------------------------------
(***************************************************************************)
(* The rounds of rb_fixdel() that a harmless removal takes.                *)
(***************************************************************************)
\* The first round is to come: s will become red, and p stands in for g.
LossAhead(t, r, P, ar) ==
  \E g, p, s, sw :
    /\ g \in Nodes /\ p \in Nodes /\ s \in Nodes
    /\ r = [pc |-> "fixdel", x |-> g, gone |-> g, swap |-> sw]
    /\ t.parent[g] = p /\ t.kid["left"][p] = s /\ g # s /\ g # t.root
    /\ ~t.red[g] /\ ~t.red[s]
    /\ \A e \in Sides : t.kid[e][s] # NULL => ~t.red[t.kid[e][s]]
    /\ p = t.root \/ t.red[p]
    /\ Good(Complete(Black(Red(t, s), p), sw, g), P, ar, NULL)

\* The second round is to come: p will become black.
LossTaken(t, r, P, ar) ==
  \E p, g, sw :
    /\ p \in Nodes
    /\ r = [pc |-> "fixdel", x |-> p, gone |-> g, swap |-> sw]
    /\ p = t.root \/ t.red[p]
    /\ Good(Complete(Black(t, p), sw, g), P, ar, NULL)

LEMMA FirstRound ==
  ASSUME TreeType(tree), LossAhead(tree, rb, placed, area), FixDelete
  PROVE  LossTaken(tree', rb', placed, area) /\ TreeType(tree') /\ fault' = fault
<1>1. PICK g, p, s, sw :
         /\ g \in Nodes /\ p \in Nodes /\ s \in Nodes
         /\ rb = [pc |-> "fixdel", x |-> g, gone |-> g, swap |-> sw]
         /\ tree.parent[g] = p /\ tree.kid["left"][p] = s /\ g # s /\ g # tree.root
         /\ ~tree.red[g] /\ ~tree.red[s]
         /\ \A e \in Sides : tree.kid[e][s] # NULL => ~tree.red[tree.kid[e][s]]
         /\ p = tree.root \/ tree.red[p]
         /\ Good(Complete(Black(Red(tree, s), p), sw, g), placed, area, NULL)
  BY DEF LossAhead
<1>2. rb.x = g /\ rb.pc = "fixdel" /\ g # NULL /\ p # NULL /\ s # NULL
  BY <1>1, TreeAssumption
<1>3. "left" \in Sides /\ "right" \in Sides /\ Other("right") = "left"
  BY DEF Sides, Other
<1>4. Sibling(tree, g, "right") = s
  BY <1>1, <1>3 DEF Sibling
<1>5. ~rb_chk_red(tree, s)
  BY <1>1 DEF rb_chk_red
<1>6. ~rb_chk_red(tree, tree.kid["left"][s]) /\ ~rb_chk_red(tree, tree.kid["right"][s])
  BY <1>1, <1>3 DEF rb_chk_red
<1>7. tree.kid["left"][p] # g
  BY <1>1
<1>8. /\ tree' = [tree EXCEPT !.red[s] = TRUE]
      /\ rb' = [rb EXCEPT !.x = p]
      /\ fault' = fault
  <2>1. tree.parent[rb.x] = p /\ rb.x = g /\ rb.x # tree.root /\ ~tree.red[rb.x]
    BY <1>1, <1>2
  <2> QED BY <2>1, <1>2, <1>3, <1>4, <1>5, <1>6, <1>7 DEF FixDelete
<1>9. tree' = Red(tree, s)
  BY <1>8 DEF Red
<1>10. rb' = [pc |-> "fixdel", x |-> p, gone |-> g, swap |-> sw]
  BY <1>1, <1>8
<1>11. /\ SameLinks(tree, Red(tree, s))
       /\ \A m \in Nodes : Red(tree, s).red[m] <=> m = s \/ tree.red[m]
  BY PaintRed
<1>12. Good(Complete(Black(tree', p), sw, g), placed, area, NULL)
  BY <1>1, <1>9
<1>13. p = tree'.root \/ tree'.red[p]
  BY <1>1, <1>9, <1>11 DEF SameLinks
<1>14. TreeType(tree')
  BY <1>9, <1>11 DEF SameLinks
<1>15. p \in Nodes
  BY <1>1
<1>16. LossTaken(tree', rb', placed, area)
  BY <1>10, <1>12, <1>13, <1>15 DEF LossTaken
<1> QED BY <1>8, <1>14, <1>16

LEMMA SecondRound ==
  ASSUME LossTaken(tree, rb, placed, area), FixDelete
  PROVE  rb' = Quiet /\ Good(tree', placed, area, NULL) /\ fault' = fault
<1>1. PICK p, g, sw :
         /\ p \in Nodes
         /\ rb = [pc |-> "fixdel", x |-> p, gone |-> g, swap |-> sw]
         /\ p = tree.root \/ tree.red[p]
         /\ Good(Complete(Black(tree, p), sw, g), placed, area, NULL)
  BY DEF LossTaken
<1>2. rb.x = p /\ rb.gone = g /\ rb.swap = sw
  BY <1>1
<1>3. ~(rb.x # tree.root /\ ~tree.red[rb.x])
  BY <1>1, <1>2
<1>4. /\ tree' = Complete([tree EXCEPT !.red[rb.x] = FALSE], rb.swap, rb.gone)
      /\ rb' = Quiet /\ fault' = fault
  BY <1>3 DEF FixDelete
<1> QED BY <1>1, <1>2, <1>4 DEF Black

LEMMA KidsNone ==
  ASSUME NEW t, NEW g
  PROVE  /\ Kids(t, g) = {} <=> TheKid(t, g) = NULL
         /\ TheKid(t, g) = NULL => \A e \in Sides : t.kid[e][g] = NULL
BY DEF Kids, TheKid, Sides

\* A removal that needs no repair.
LEMMA PlainRemoval ==
  ASSUME NEW t, NEW S, NEW H, NEW P, NEW ar, Sound(t, S, H, P, ar, NULL), NEW n, NEW g, NEW x,
         Removal(t, S, P, ar, n, g, x), ~NeedsRepair(t, g)
  PROVE  Good(Complete(Unlink(t, g), SwapOf(t, n, g), g), P \ {n}, ar, NULL)
<1> DEFINE c == Unlink(t, g)
           v == Wipe(Unlink(t, g), g)
<1>0. Shape(t, S, P, ar)
  BY DEF Sound
<1>1. g \in P /\ Lone(t, g, x) /\ x = TheKid(t, g)
  BY DEF Removal
<1>2. /\ Unlinked(t, c, g, x)
      /\ \A m \in Nodes : c.red[m] <=> m # x /\ t.red[m]
  BY <1>0, <1>1, UnlinkIs
<1> HIDE DEF c
<1>3. /\ Cut(t, Wipe(c, g), g, x)
      /\ \A m \in Nodes : Wipe(c, g).red[m] <=> m # g /\ c.red[m]
  BY <1>0, <1>1, <1>2, CutIs
<1>4. t.red[g] \/ x # NULL
  BY <1>1, KidsNone DEF NeedsRepair
<1>5. PlainCut(t, Wipe(c, g), g, x)
  BY <1>2, <1>3, <1>4 DEF PlainCut
<1>6. \E G : Sound(Wipe(c, g), CutS(S, g), G, P \ {g}, ar, NULL)
  BY <1>1, <1>5, PlainCutSound
<1> QED BY <1>0, <1>2, <1>6, CompleteGood DEF c

LEMMA BearableIs ==
  ASSUME NEW t, NEW S, NEW P, NEW ar, Shape(t, S, P, ar), NEW g \in P, NeedsRepair(t, g),
         NEW p, p = t.parent[g], NEW s, s = t.kid["left"][p],
         p # NULL, g = t.kid["right"][p], s # NULL, ~t.red[s],
         \A k \in Kids(t, s) : ~t.red[k], p = t.root \/ t.red[p]
  PROVE  Bearable(t, g, p, s)
<1>1. /\ "left" \in Sides /\ "right" \in Sides /\ TreeType(t) /\ g \in Nodes
  BY DEF Sides, Shape, Linked
<1>2. p \in Nodes
  BY <1>1 DEF TreeType, NN
<1>3. s \in Nodes
  <2>1. \A m \in Nodes : t.kid["left"][m] \in NN
    BY <1>1 DEF TreeType
  <2> QED BY <1>2, <2>1 DEF NN
<1>4. ~t.red[g] /\ \A e \in Sides : t.kid[e][g] = NULL
  BY KidsNone DEF NeedsRepair
<1>5. \A e \in Sides : t.kid[e][s] # NULL => ~t.red[t.kid[e][s]]
  BY DEF Kids
<1> QED BY <1>1, <1>2, <1>3, <1>4, <1>5 DEF Bearable

\* A removal whose loss the parent takes.
LEMMA LossyRemoval ==
  ASSUME NEW t, NEW S, NEW H, NEW P, NEW ar, Sound(t, S, H, P, ar, NULL), NEW n, NEW g,
         Removal(t, S, P, ar, n, g, NULL), NEW p, NEW s, Bearable(t, g, p, s), NEW br,
         \A m \in P \ {n} : br[m] = ar[m]
  PROVE  LET r == [pc |-> "fixdel", x |-> g, gone |-> g, swap |-> SwapOf(t, n, g)]
         IN  TreeType(Unlink(t, g)) /\ LossAhead(Unlink(t, g), r, P \ {n}, br)
<1> DEFINE c == Unlink(t, g)
           b == Black(Red(c, s), p)
           sw == SwapOf(t, n, g)
<1>0. Shape(t, S, P, ar)
  BY DEF Sound
<1>1. g \in P /\ Lone(t, g, NULL) /\ NULL = TheKid(t, g)
  BY DEF Removal
<1>2. /\ Unlinked(t, c, g, NULL)
      /\ \A m \in Nodes : c.red[m] <=> m # NULL /\ t.red[m]
  BY <1>0, <1>1, UnlinkIs
<1> HIDE DEF c
<1>3. TreeType(c)
  BY <1>2 DEF Unlinked
<1>4. /\ SameLinks(c, Red(c, s))
      /\ \A m \in Nodes : Red(c, s).red[m] <=> m = s \/ c.red[m]
  BY <1>3, PaintRed
<1>5. TreeType(Red(c, s))
  BY <1>4 DEF SameLinks
<1>6. /\ SameLinks(Red(c, s), b)
      /\ \A m \in Nodes : b.red[m] <=> m # p /\ Red(c, s).red[m]
  BY <1>5, PaintBlack
<1>7. /\ SameLinks(c, b)
      /\ \A m \in Nodes : b.red[m] <=> m # p /\ (m = s \/ c.red[m])
  BY <1>4, <1>6 DEF SameLinks
<1> HIDE DEF b, sw
<1>8. Unlinked(t, b, g, NULL)
  BY <1>2, <1>7 DEF Unlinked, SameLinks
<1>9. /\ Cut(t, Wipe(b, g), g, NULL)
      /\ \A m \in Nodes : Wipe(b, g).red[m] <=> m # g /\ b.red[m]
  BY <1>0, <1>1, <1>8, CutIs
<1>10. LossCut(t, Wipe(b, g), g, p, s)
  BY <1>2, <1>7, <1>9, TreeAssumption DEF LossCut
<1>11. \E G : Sound(Wipe(b, g), CutS(S, g), G, P \ {g}, ar, NULL)
  BY <1>10, LossCutSound
<1>12. Good(Complete(b, sw, g), P \ {n}, ar, NULL)
  BY <1>0, <1>8, <1>11, CompleteGood DEF sw
<1>13. Good(Complete(b, sw, g), P \ {n}, br, NULL)
  BY <1>12, GoodAreas
<1>14. /\ g # p /\ s # p /\ g # s /\ g # t.root /\ t.parent[g] = p
  BY <1>0, BearableFacts
<1>15. /\ g \in Nodes /\ p \in Nodes /\ s \in Nodes /\ NULL \notin Nodes
       /\ t.kid["right"][p] = g /\ t.kid["left"][p] = s
       /\ ~t.red[g] /\ ~t.red[s]
       /\ \A e \in Sides : t.kid[e][s] # NULL => ~t.red[t.kid[e][s]]
       /\ p = t.root \/ t.red[p]
       /\ "left" \in Sides
  BY TreeAssumption DEF Bearable, Sides
<1>16. /\ c.root = t.root
       /\ \A m \in Nodes : c.parent[m] = t.parent[m]
       /\ \A e \in Sides : \A m \in Nodes : c.kid[e][m] = IF t.kid[e][m] = g THEN NULL ELSE t.kid[e][m]
       /\ \A m \in Nodes : c.red[m] <=> t.red[m]
  BY <1>2, <1>14, <1>15 DEF Unlinked
<1>17. \A e \in Sides : c.kid[e][s] # NULL => ~c.red[c.kid[e][s]]
  <2> SUFFICES ASSUME NEW e \in Sides, c.kid[e][s] # NULL
               PROVE  ~c.red[c.kid[e][s]]
    OBVIOUS
  <2>1. c.kid[e][s] \in Nodes
    BY <1>3, <1>15 DEF TreeType, NN
  <2>2. c.kid[e][s] = t.kid[e][s]
    BY <1>15, <1>16
  <2> QED BY <1>15, <1>16, <2>1, <2>2
<1>18. /\ c.parent[g] = p /\ c.kid["left"][p] = s /\ g # c.root
       /\ ~c.red[g] /\ ~c.red[s] /\ (p = c.root \/ c.red[p])
  BY <1>14, <1>15, <1>16
<1>19. Good(Complete(Black(Red(c, s), p), sw, g), P \ {n}, br, NULL)
  BY <1>13 DEF b
<1>20. LossAhead(c, [pc |-> "fixdel", x |-> g, gone |-> g, swap |-> sw], P \ {n}, br)
  BY <1>14, <1>15, <1>17, <1>18, <1>19 DEF LossAhead
<1> QED BY <1>3, <1>20 DEF c, sw

LEMMA RemoveStep ==
  ASSUME NEW S, NEW H, Sound(tree, S, H, placed, area, NULL), AreasOK(area, placed),
         NEW n \in placed, Harmless(n), rb_remove(n), NEW br,
         \A m \in placed \ {n} : br[m] = area[m]
  PROVE  \/ rb' = Quiet /\ Good(tree', placed \ {n}, br, NULL)
         \/ TreeType(tree') /\ LossAhead(tree', rb', placed \ {n}, br)
<1> DEFINE g == Removed(tree, n)
           x == TheKid(tree, g)
           sw == SwapOf(tree, n, g)
<1>0. Shape(tree, S, placed, area)
  BY DEF Sound
<1>1. Removal(tree, S, placed, area, n, g, x)
  BY <1>0, RemovedIs
<1>2. IF NeedsRepair(tree, g)
      THEN /\ tree' = Unlink(tree, g)
           /\ rb' = [pc |-> "fixdel", x |-> g, gone |-> g, swap |-> sw]
      ELSE tree' = Complete(Unlink(tree, g), sw, g) /\ rb' = Quiet
  BY DEF rb_remove, SwapOf
<1>3. \/ ~NeedsRepair(tree, g)
      \/ LET p == tree.parent[g]
             s == tree.kid["left"][p]
         IN  /\ p # NULL
             /\ g = tree.kid["right"][p]
             /\ s # NULL
             /\ ~tree.red[s]
             /\ \A k \in Kids(tree, s) : ~tree.red[k]
             /\ p = tree.root \/ tree.red[p]
  BY DEF Harmless
<1> HIDE DEF g, sw
<1>4. CASE ~NeedsRepair(tree, g)
  <2>1. Good(Complete(Unlink(tree, g), sw, g), placed \ {n}, area, NULL)
    BY <1>1, <1>4, PlainRemoval DEF sw
  <2>2. Good(tree', placed \ {n}, area, NULL) /\ rb' = Quiet
    BY <1>2, <1>4, <2>1
  <2> QED BY <2>2, GoodAreas
<1>5. CASE NeedsRepair(tree, g)
  <2> DEFINE p == tree.parent[g]
             s == tree.kid["left"][p]
  <2>1. g \in placed
    BY <1>1 DEF Removal
  <2>2. Bearable(tree, g, p, s)
    <3>1. /\ p # NULL /\ g = tree.kid["right"][p] /\ s # NULL /\ ~tree.red[s]
          /\ \A k \in Kids(tree, s) : ~tree.red[k]
          /\ p = tree.root \/ tree.red[p]
      BY <1>3, <1>5
    <3> QED BY <1>0, <1>5, <2>1, <3>1, BearableIs
  <2>3. x = NULL
    BY <1>5, KidsNone DEF NeedsRepair
  <2>4. Removal(tree, S, placed, area, n, g, NULL)
    BY <1>1, <2>3
  <2> HIDE DEF p, s
  <2>5. /\ TreeType(Unlink(tree, g))
        /\ LossAhead(Unlink(tree, g),
             [pc |-> "fixdel", x |-> g, gone |-> g, swap |-> SwapOf(tree, n, g)], placed \ {n}, br)
    BY <2>2, <2>4, LossyRemoval
  <2> QED BY <1>2, <1>5, <2>5 DEF sw
<1> QED BY <1>4, <1>5

-----------------------------------------------------------------------------
(***************************************************************************)
(* The inductive invariant.                                                *)
(***************************************************************************)
\* Between calls the tree is sound; in a repair loop it is sound but for the
\* node the loop looks at.
IndInv ==
  /\ TreeType(tree)
  /\ AreasOK(area, placed)
  /\ placed \subseteq Nodes
  /\ used = placed
  /\ \/ rb = Quiet /\ Good(tree, placed, area, NULL)
     \/ Inserting(tree, rb, placed, area)
     \/ LossAhead(tree, rb, placed, area)
     \/ LossTaken(tree, rb, placed, area)

LEMMA GoodType ==
  ASSUME NEW t, NEW P, NEW ar, NEW x, Good(t, P, ar, x)
  PROVE  TreeType(t)
BY DEF Good, Sound, Shape

LEMMA InsertingType ==
  ASSUME NEW t, NEW r, NEW P, NEW ar, Inserting(t, r, P, ar)
  PROVE  TreeType(t)
BY GoodType DEF Inserting

LEMMA BusyPc ==
  /\ Quiet.pc = "quiet"
  /\ \A t, r, P, ar : Inserting(t, r, P, ar) => r.pc = "fixins"
  /\ \A t, r, P, ar : LossAhead(t, r, P, ar) => r.pc = "fixdel"
  /\ \A t, r, P, ar : LossTaken(t, r, P, ar) => r.pc = "fixdel"
BY DEF Quiet, Inserting, LossAhead, LossTaken

LEMMA AreasAfterInsert ==
  ASSUME NEW ar, NEW P, AreasOK(ar, P), NEW n \in Nodes, NEW a \in [start : Nat, end : Nat],
         a.start <= a.end, a.end <= RegionLen
  PROVE  AreasOK([ar EXCEPT ![n] = a], P \cup {n})
BY DEF AreasOK

LEMMA AreasAfterRemoval ==
  ASSUME NEW ar, NEW P, AreasOK(ar, P), NEW n \in Nodes
  PROVE  AreasOK([ar EXCEPT ![n] = NoArea], P \ {n})
BY DEF AreasOK, NoArea

\* An area with a place in the tree goes in there.
LEMMA InsertStep ==
  ASSUME NEW S, NEW H, Sound(tree, S, H, placed, area, NULL), AreasOK(area, placed),
         NEW n \in Nodes, n \notin placed, NEW a \in [start : Nat, end : Nat],
         Fits(a), InsertAs(n, a), area' = [area EXCEPT ![n] = a]
  PROVE  Inserting(tree', rb', placed \cup {n}, area')
<1>0. Shape(tree, S, placed, area)
  BY DEF Sound
<1>1. /\ TreeType(tree) /\ NULL \notin Nodes /\ placed \subseteq Nodes
      /\ S[tree.root] = placed /\ S[NULL] = {} /\ "left" \in Sides
  BY <1>0, TreeAssumption DEF Shape, Linked, Nested, Sides
<1>2. area \in [Nodes -> [start : Nat, end : Nat]]
  BY DEF AreasOK
<1>3. /\ area'[n] = a
      /\ \A m \in placed : area'[m] = area[m]
  BY <1>1, <1>2
<1>4. ASSUME NEW p \in NN, NEW d \in Sides, Hook(tree, S, placed, area, area', n, p, d),
             Descend(a) = [at |-> p, side |-> d]
      PROVE  Inserting(tree', rb', placed \cup {n}, area')
  <2> DEFINE u == [Store(tree, Descend(a), n) EXCEPT
                     !.kid["left"][n] = NULL, !.kid["right"][n] = NULL,
                     !.parent[n] = p, !.red[n] = TRUE]
  <2>1. Descend(a).at = p /\ Descend(a).side = d /\ Descend(a) # NoLink
    BY <1>4 DEF Fits
  <2>2. p # n
    BY <1>1, <1>4 DEF Hook
  <2>3. tree' = u /\ rb' = [pc |-> "fixins", x |-> n]
    BY <2>1 DEF InsertAs, rb_insert
  <2>4. Grafted(tree, u, n, p, d)
    <3>1. \A link : link.at = p /\ link.side = d =>
            Grafted(tree, [Store(tree, link, n) EXCEPT
                             !.kid["left"][n] = NULL, !.kid["right"][n] = NULL,
                             !.parent[n] = p, !.red[n] = TRUE], n, p, d)
      BY <1>1, <2>2, GraftFields, Zenon
    <3> QED BY <2>1, <3>1, Zenon
  <2> HIDE DEF u
  <2>5. u.red[n] /\ Good(u, placed \cup {n}, area', n)
    BY <1>4, <2>4, GraftGood
  <2> QED BY <2>3, <2>5 DEF Inserting
<1>5. CASE tree.root = NULL
  <2>1. Descend(a) = [at |-> NULL, side |-> "left"]
    BY <1>5 DEF Descend
  <2>2. placed = {}
    BY <1>1, <1>5
  <2>3. Hook(tree, S, placed, area, area', n, NULL, "left")
    BY <1>5, <2>2 DEF Hook
  <2> QED BY <1>1, <1>4, <2>1, <2>3 DEF NN
<1>6. CASE tree.root # NULL
  <2>1. FreeLink(S, tree.root, a, Descend(a))
    BY <1>0, <1>6, DescentIs DEF Fits
  <2>2. PICK p \in S[tree.root], d \in Sides :
          /\ Descend(a) = [at |-> p, side |-> d]
          /\ tree.kid[d][p] = NULL
          /\ \A m \in S[tree.root] : \A e \in Sides :
               p \in S[tree.kid[e][m]] \/ (m = p /\ e = d) => SideOf(a, m) = e
    BY <2>1 DEF FreeLink
  <2>3. p \in placed /\ p \in NN
    BY <1>1, <2>2 DEF NN
  <2>4. ASSUME NEW m \in placed, NEW e \in Sides, SideOf(a, m) = e
        PROVE  On(area', e, n, m)
    <3>1. area'[m] = area[m] /\ area'[n] = a
      BY <1>3
    <3>2. CASE e = "left"
      <4>1. a.end <= area[m].start
        BY <2>4, <3>2 DEF SideOf
      <4> QED BY <3>1, <3>2, <4>1 DEF On
    <3>3. CASE e = "right"
      <4>1. area[m].end <= a.start
        <5>1. a.start >= area[m].end
          BY <2>4, <3>3 DEF SideOf
        <5>2. area[m].end \in Nat /\ a.start \in Nat
          BY <1>1, <1>2
        <5> QED BY <5>1, <5>2
      <4> QED BY <3>1, <3>3, <4>1 DEF On
    <3> QED BY <3>2, <3>3 DEF Sides
  <2>5. \A m \in placed : \A e \in Sides :
          p \in S[tree.kid[e][m]] \/ (m = p /\ e = d) => On(area', e, n, m)
    BY <1>1, <2>2, <2>4
  <2>6. Hook(tree, S, placed, area, area', n, p, d)
    BY <1>3, <2>2, <2>3, <2>5 DEF Hook
  <2> QED BY <1>4, <2>2, <2>3, <2>6
<1> QED BY <1>5, <1>6

\* A struct that is not in use is there if not all are.
LEMMA StructIs ==
  ASSUME NEW a, used \subseteq Nodes, used # Nodes
  PROVE  StructFor(a) \in Nodes /\ StructFor(a) \notin used
<1>1. \E n \in Nodes : n \notin used
  OBVIOUS
<1>2. (CHOOSE n \in Nodes : n \notin used) \in Nodes \ used
  BY <1>1
<1> QED BY <1>2 DEF StructFor

LEMMA InsertInv ==
  ASSUME IndInv, Running, used # Nodes, NEW a \in [start : Nat, end : Nat],
         a.start <= a.end, a.end <= RegionLen, Fits(a), Insert(StructFor(a), a)
  PROVE  IndInv'
<1> DEFINE n == StructFor(a)
<1>1. /\ TreeType(tree) /\ AreasOK(area, placed) /\ placed \subseteq Nodes /\ used = placed
  BY DEF IndInv
<1>2. Good(tree, placed, area, NULL)
  BY BusyPc DEF IndInv, Running
<1>3. PICK S, H : Sound(tree, S, H, placed, area, NULL)
  BY <1>2 DEF Good
<1>4. n \in Nodes /\ n \notin placed
  BY <1>1, StructIs
<1>5. /\ InsertAs(n, a) /\ area' = [area EXCEPT ![n] = a]
      /\ used' = used \cup {n} /\ placed' = placed \cup {n}
  BY DEF Insert
<1> HIDE DEF n
<1>6. Inserting(tree', rb', placed', area')
  BY <1>1, <1>3, <1>4, <1>5, InsertStep
<1>7. AreasOK(area', placed')
  BY <1>1, <1>4, <1>5, AreasAfterInsert
<1>8. TreeType(tree')
  BY <1>6, InsertingType
<1> QED BY <1>1, <1>4, <1>5, <1>6, <1>7, <1>8 DEF IndInv

LEMMA TakeOutInv ==
  ASSUME AnyFree = FALSE, IndInv, Running, NEW addr \in Addrs, MayFree(addr),
         vma_search(addr) # NULL, TakeOut(vma_search(addr))
  PROVE  IndInv'
<1> DEFINE n == vma_search(addr)
<1>1. /\ TreeType(tree) /\ AreasOK(area, placed) /\ placed \subseteq Nodes /\ used = placed
  BY DEF IndInv
<1>2. Good(tree, placed, area, NULL)
  BY BusyPc DEF IndInv, Running
<1>3. PICK S, H : Sound(tree, S, H, placed, area, NULL)
  BY <1>2 DEF Good
<1>4. Shape(tree, S, placed, area) /\ addr \in Nat
  BY <1>3, VmaAssumption DEF Sound, Addrs
<1>5. {m \in placed : Holds(m, addr)} = {n} \ {NULL}
  BY <1>1, <1>4, SearchIs
<1>6. n \in placed /\ n \in Nodes
  BY <1>1, <1>5
<1>7. Harmless(n)
  BY DEF MayFree
<1>8. /\ rb_remove(n) /\ used' = used \ {n} /\ placed' = placed \ {n}
      /\ area' = [area EXCEPT ![n] = NoArea]
  BY DEF TakeOut
<1> HIDE DEF n
<1>9. \A m \in placed \ {n} : area'[m] = area[m]
  BY <1>1, <1>8 DEF AreasOK
<1>10. \/ rb' = Quiet /\ Good(tree', placed \ {n}, area', NULL)
       \/ TreeType(tree') /\ LossAhead(tree', rb', placed \ {n}, area')
  BY <1>1, <1>3, <1>6, <1>7, <1>8, <1>9, RemoveStep
<1>11. AreasOK(area', placed')
  BY <1>1, <1>6, <1>8, AreasAfterRemoval
<1>12. TreeType(tree')
  BY <1>10, GoodType
<1> QED BY <1>1, <1>8, <1>10, <1>11, <1>12 DEF IndInv

LEMMA RepairInv ==
  ASSUME IndInv, RepairStep
  PROVE  IndInv'
<1>1. /\ TreeType(tree) /\ AreasOK(area, placed) /\ placed \subseteq Nodes /\ used = placed
      /\ area' = area /\ used' = used /\ placed' = placed
  BY DEF IndInv, RepairStep
<1>2. CASE FixInsert
  <2>1. rb.pc = "fixins"
    BY <1>2 DEF FixInsert
  <2>2. Inserting(tree, rb, placed, area)
    BY <2>1, BusyPc DEF IndInv
  <2>3. \/ rb' = Quiet /\ Good(tree', placed, area, NULL)
        \/ Inserting(tree', rb', placed, area)
    BY <1>1, <1>2, <2>2, FixInsertStep
  <2>4. TreeType(tree')
    BY <2>3, GoodType, InsertingType
  <2> QED BY <1>1, <2>3, <2>4 DEF IndInv
<1>3. CASE FixDelete
  <2>1. rb.pc = "fixdel"
    BY <1>3 DEF FixDelete
  <2>2. LossAhead(tree, rb, placed, area) \/ LossTaken(tree, rb, placed, area)
    BY <2>1, BusyPc DEF IndInv
  <2>3. CASE LossAhead(tree, rb, placed, area)
    <3>1. LossTaken(tree', rb', placed, area) /\ TreeType(tree')
      BY <1>1, <1>3, <2>3, FirstRound
    <3> QED BY <1>1, <3>1 DEF IndInv
  <2>4. CASE LossTaken(tree, rb, placed, area)
    <3>1. rb' = Quiet /\ Good(tree', placed, area, NULL)
      BY <1>3, <2>4, SecondRound
    <3>2. TreeType(tree')
      BY <3>1, GoodType
    <3> QED BY <1>1, <3>1, <3>2 DEF IndInv
  <2> QED BY <2>2, <2>3, <2>4
<1> QED BY <1>2, <1>3 DEF RepairStep

LEMMA InitInv ==
  ASSUME Init
  PROVE  IndInv
<1> DEFINE S == [m \in NN |-> IF m = NULL THEN {} ELSE {m}]
           H == [m \in NN |-> IF m = NULL THEN 1 ELSE 2]
<1>1. tree = EmptyTree /\ rb = Quiet /\ area = [n \in Nodes |-> NoArea] /\ used = {} /\ placed = {}
  BY DEF Init
<1>2. NULL \notin Nodes /\ "left" \in Sides /\ "right" \in Sides
  BY TreeAssumption DEF Sides
<1>3. TreeType(tree)
  BY <1>1 DEF EmptyTree, TreeType, NN
<1>4. /\ tree.root = NULL
      /\ \A d \in Sides : \A n \in Nodes : tree.kid[d][n] = NULL
      /\ \A n \in Nodes : tree.parent[n] = NULL /\ ~tree.red[n]
  BY <1>1 DEF EmptyTree
<1>5. AreasOK(area, placed)
  BY <1>1 DEF AreasOK, NoArea
<1>6. /\ S \in [NN -> SUBSET Nodes] /\ S[NULL] = {}
      /\ \A n \in Nodes : S[n] = {n}
  BY <1>2 DEF NN
<1>7. /\ H \in [NN -> Nat \ {0}] /\ H[NULL] = 1
      /\ \A n \in Nodes : H[n] = 2
  BY <1>2 DEF NN
<1> HIDE DEF S, H
<1>8. Nested(tree, S)
  BY <1>2, <1>4, <1>6 DEF Nested
<1>9. Linked(tree, placed)
  BY <1>1, <1>4 DEF Linked
<1>10. Shape(tree, S, placed, area)
  BY <1>1, <1>3, <1>4, <1>6, <1>8, <1>9 DEF Shape, Ordered
<1>11. Heights(tree, H)
  BY <1>2, <1>4, <1>7 DEF Heights
<1>12. Reds(tree, placed, NULL)
  BY <1>1 DEF Reds
<1>13. Good(tree, placed, area, NULL)
  BY <1>10, <1>11, <1>12 DEF Good, Sound
<1> QED BY <1>1, <1>3, <1>5, <1>13 DEF IndInv

LEMMA StutterInv ==
  ASSUME IndInv, tree' = tree, rb' = rb, area' = area, used' = used, placed' = placed
  PROVE  IndInv'
BY DEF IndInv

\* A place that is clear of all areas is found by the descent.
LEMMA ClearFits ==
  ASSUME NEW S, Shape(tree, S, placed, area), NEW b, NEW size, ClearOf(b, size),
         NEW a, a.start = b, a.end = b + size, AreasOK(area, placed), b \in Nat, size \in Nat
  PROVE  Fits(a)
<1>1. CASE tree.root = NULL
  <2>1. Descend(a).side = "left"
    BY <1>1 DEF Descend
  <2>2. NoLink.side = "none"
    BY DEF NoLink
  <2> QED BY <2>1, <2>2 DEF Fits
<1>2. CASE tree.root # NULL
  <2>1. ASSUME NEW m \in placed
        PROVE  SideOf(a, m) # "none"
    <3>1. area[m].end <= a.start \/ a.end <= area[m].start
      BY DEF ClearOf
    <3>2. m \in Nodes
      BY DEF Shape, Linked
    <3>3. area[m].end \in Nat /\ a.start \in Nat
      BY <3>2 DEF AreasOK
    <3> QED BY <3>1, <3>3 DEF SideOf
  <2>2. FreeLink(S, tree.root, a, Descend(a))
    BY <1>2, <2>1, DescentIs
  <2>3. Descend(a).side \in Sides
    BY <2>2 DEF FreeLink
  <2>4. NoLink.side = "none" /\ "none" \notin Sides
    BY DEF NoLink, Sides
  <2> QED BY <2>3, <2>4 DEF Fits
<1> QED BY <1>1, <1>2

LEMMA AllocInv ==
  ASSUME IndInv, NEW size \in Sizes, vma_alloc_area(size)
  PROVE  IndInv'
<1> DEFINE a == [start |-> Place(size), end |-> Place(size) + size]
<1>1. CASE UNCHANGED vars
  BY <1>1, StutterInv DEF vars
<1>2. CASE /\ Running /\ Place(size) # -1 /\ used # Nodes /\ Insert(StructFor(a), a)
  <2>1. /\ TreeType(tree) /\ AreasOK(area, placed) /\ placed \subseteq Nodes /\ used = placed
    BY DEF IndInv
  <2>2. Good(tree, placed, area, NULL)
    BY <1>2, BusyPc DEF IndInv, Running
  <2>3. PICK S, H : Sound(tree, S, H, placed, area, NULL)
    BY <2>2 DEF Good
  <2>4. Shape(tree, S, placed, area) /\ size \in Nat
    BY <2>3, VmaAssumption DEF Sound
  <2>5. Place(size) \in Nat /\ ClearOf(Place(size), size)
    BY <1>2, <2>1, <2>4, PlaceIs
  <2>6. a \in [start : Nat, end : Nat] /\ a.start <= a.end /\ a.end <= RegionLen
    BY <2>4, <2>5 DEF ClearOf
  <2>7. Fits(a)
    <3>1. a.start = Place(size) /\ a.end = Place(size) + size
      OBVIOUS
    <3> HIDE DEF a
    <3> QED BY <2>1, <2>4, <2>5, <3>1, ClearFits
  <2> HIDE DEF a
  <2> QED BY <1>2, <2>6, <2>7, InsertInv
<1> QED BY <1>1, <1>2 DEF vma_alloc_area

LEMMA NextInv ==
  ASSUME AnyFree = FALSE, IndInv, [Next]_vars
  PROVE  IndInv'
<1>1. CASE UNCHANGED vars
  BY <1>1, StutterInv DEF vars
<1>2. ASSUME NEW a \in Areas, vma_insert(a)
      PROVE  IndInv'
  <2>1. CASE Fits(a) /\ Insert(StructFor(a), a)
    <3>1. Running /\ used # Nodes
      BY <1>2 DEF vma_insert
    <3>2. /\ a \in [start : Addrs, end : 1 .. RegionLen]
          /\ a.end - a.start \in Nat
      BY VmaAssumption DEF Areas
    <3>3. /\ a \in [start : Nat, end : Nat] /\ a.start <= a.end /\ a.end <= RegionLen
      BY <3>2, VmaAssumption DEF Addrs
    <3> QED BY <2>1, <3>1, <3>3, InsertInv
  <2>2. CASE UNCHANGED <<tree, rb, area, used, placed>>
    BY <2>2, StutterInv
  <2> QED BY <1>2, <2>1, <2>2 DEF vma_insert
<1>3. ASSUME NEW size \in Sizes, vma_alloc_area(size)
      PROVE  IndInv'
  BY <1>3, AllocInv
<1>4. ASSUME NEW addr \in Addrs, vma_free_area(addr)
      PROVE  IndInv'
  <2>1. CASE vma_search(addr) = NULL
    <3>1. UNCHANGED vars
      BY <1>4, <2>1 DEF vma_free_area
    <3> QED BY <3>1, StutterInv DEF vars
  <2>2. CASE vma_search(addr) # NULL
    <3>1. Running /\ MayFree(addr) /\ TakeOut(vma_search(addr))
      BY <1>4, <2>2 DEF vma_free_area
    <3> QED BY <2>2, <3>1, TakeOutInv
  <2> QED BY <2>1, <2>2
<1>5. ASSUME NEW addr \in Addrs, vma_remove_by_addr(addr)
      PROVE  IndInv'
  <2>1. CASE vma_search(addr) = NULL
    <3>1. UNCHANGED <<tree, rb, area, used, placed>>
      BY <1>5, <2>1 DEF vma_remove_by_addr
    <3> QED BY <3>1, StutterInv
  <2>2. CASE vma_search(addr) # NULL
    <3>1. Running /\ MayFree(addr) /\ TakeOut(vma_search(addr))
      BY <1>5, <2>2 DEF vma_remove_by_addr
    <3> QED BY <2>2, <3>1, TakeOutInv
  <2> QED BY <2>1, <2>2
<1>6. CASE RepairStep
  BY <1>6, RepairInv
<1> QED BY <1>1, <1>2, <1>3, <1>4, <1>5, <1>6 DEF Next

-----------------------------------------------------------------------------
(***************************************************************************)
(* What holds of every execution in which only harmless areas are freed.   *)
(***************************************************************************)
\* The tree of vma.c and rbtree.c, its areas and the repair loop under way fit
\* together in every state: the inductive invariant.
THEOREM VmaInvariant ==
  ASSUME AnyFree = FALSE
  PROVE  Spec => []IndInv
<1>1. Init => IndInv
  BY InitInv
<1>2. IndInv /\ [Next]_vars => IndInv'
  BY NextInv
<1> QED BY <1>1, <1>2, PTL DEF Spec

LEMMA QuietSound ==
  ASSUME IndInv, Running
  PROVE  \E S, H : Sound(tree, S, H, placed, area, NULL)
BY BusyPc DEF IndInv, Running, Good

LEMMA SomeShape ==
  ASSUME IndInv
  PROVE  \E t, S : Shape(t, S, placed, area)
BY DEF IndInv, Inserting, LossAhead, LossTaken, Good, Sound

\* The areas that vma_insert() and vma_alloc_area() have given to callers share
\* no page and lie in the region, in the midst of a repair loop too.
THEOREM AreasStayDisjoint ==
  ASSUME AnyFree = FALSE
  PROVE  Spec => []AreasDisjoint
<1>1. ASSUME IndInv
      PROVE  AreasDisjoint
  <2>1. PICK t, S : Shape(t, S, placed, area)
    BY <1>1, SomeShape
  <2>2. AreasOK(area, placed)
    BY <1>1 DEF IndInv
  <2> SUFFICES ASSUME NEW m \in placed, NEW n \in placed
               PROVE  /\ area[n].end <= RegionLen
                      /\ m # n => area[m].end <= area[n].start \/ area[n].end <= area[m].start
    BY DEF AreasDisjoint
  <2>3. area[n].end <= RegionLen
    BY <2>2 DEF AreasOK
  <2>4. ASSUME m # n
        PROVE  area[m].end <= area[n].start \/ area[n].end <= area[m].start
    <3>1. On(area, "left", m, n) \/ On(area, "left", n, m)
      BY <2>1, <2>2, <2>4, OrderedDisjoint
    <3> QED BY <3>1 DEF On
  <2> QED BY <2>3, <2>4
<1> QED BY <1>1, VmaInvariant, PTL

\* Between calls the tree holds exactly the areas that callers hold, each once
\* and in order of its address, and every node knows its parent: rb_insert(),
\* rb_remove() and the rotations lose no node and link none twice.
THEOREM TreeHolds ==
  ASSUME AnyFree = FALSE
  PROVE  Spec => []TreeHoldsAreas
<1>1. ASSUME IndInv, Running
      PROVE  TreeHoldsAreas
  <2>1. PICK S, H : Sound(tree, S, H, placed, area, NULL)
    BY <1>1, QuietSound
  <2>2. /\ Shape(tree, S, placed, area) /\ TreeType(tree) /\ Nested(tree, S)
        /\ S[tree.root] = placed /\ Linked(tree, placed) /\ Ordered(tree, S, placed, area)
        /\ placed \subseteq Nodes /\ "left" \in Sides /\ "right" \in Sides
        /\ Other("left") = "right"
    BY <2>1 DEF Sound, Shape, Linked, Sides, Other
  <2>3. Subtree(tree) = S
    BY <2>2, SubtreeIs
  <2>4. tree.root # NULL => tree.parent[tree.root] = NULL
    BY <2>2 DEF Linked
  <2>5. ASSUME NEW n \in placed
        PROVE  /\ \A k \in Kids(tree, n) : tree.parent[k] = n
               /\ n \notin S[tree.kid["left"][n]] \cup S[tree.kid["right"][n]]
               /\ S[tree.kid["left"][n]] \cap S[tree.kid["right"][n]] = {}
               /\ \A m \in S[tree.kid["left"][n]] : area[m].end <= area[n].start
               /\ \A m \in S[tree.kid["right"][n]] : area[n].end <= area[m].start
    <3>1. \A k \in Kids(tree, n) : tree.parent[k] = n
      BY <2>2 DEF Kids, Linked
    <3>2. /\ n \notin S[tree.kid["left"][n]] \cup S[tree.kid["right"][n]]
          /\ S[tree.kid["left"][n]] \cap S[tree.kid["right"][n]] = {}
      BY <2>2 DEF Nested
    <3>3. \A m \in S[tree.kid["left"][n]] : area[m].end <= area[n].start
      BY <2>2 DEF Ordered, On
    <3>4. \A m \in S[tree.kid["right"][n]] : area[n].end <= area[m].start
      BY <2>2 DEF Ordered, On
    <3> QED BY <3>1, <3>2, <3>3, <3>4
  <2> QED BY <2>2, <2>3, <2>4, <2>5 DEF TreeHoldsAreas
<1>2. IndInv => TreeHoldsAreas
  BY <1>1 DEF TreeHoldsAreas
<1> QED BY <1>2, VmaInvariant, PTL

\* Between calls the tree is a red-black tree: rb_fixins() restores the colours
\* in all its cases, and so does rb_fixdel() after a harmless removal.
THEOREM StaysRedBlack ==
  ASSUME AnyFree = FALSE
  PROVE  Spec => []RedBlack
<1>1. ASSUME IndInv, Running
      PROVE  Balanced(tree)
  <2>1. PICK S, H : Sound(tree, S, H, placed, area, NULL)
    BY <1>1, QuietSound
  <2>2. /\ Shape(tree, S, placed, area) /\ TreeType(tree) /\ Nested(tree, S) /\ Heights(tree, H)
        /\ S[tree.root] = placed /\ Linked(tree, placed) /\ Reds(tree, placed, NULL)
        /\ placed \subseteq Nodes /\ NULL \notin Nodes
    BY <2>1, TreeAssumption DEF Sound, Shape, Linked
  <2>3. Subtree(tree) = S
    BY <2>2, SubtreeIs
  <2>4. tree.root \in NN
    BY <2>2 DEF TreeType
  <2>5. ~rb_chk_red(tree, tree.root)
    <3> SUFFICES ASSUME tree.root # NULL
                 PROVE  ~tree.red[tree.root]
      BY DEF rb_chk_red
    <3>1. tree.root \in Nodes
      BY <2>4 DEF NN
    <3>2. tree.root \in S[tree.root]
      BY <2>2, <3>1 DEF Nested
    <3> QED BY <2>2, <3>2 DEF Reds
  <2>6. Cardinality(BlackHeights(tree, tree.root)) = 1
    <3>1. BlackHeights(tree, tree.root) = {H[tree.root]}
      BY <2>2, <2>4, HeightsAre
    <3> QED BY <3>1, FS_Singleton
  <2>7. ASSUME NEW n \in placed, tree.red[n], NEW k \in Kids(tree, n)
        PROVE  ~tree.red[k]
    <3>1. PICK d \in Sides : k = tree.kid[d][n] /\ k # NULL
      BY DEF Kids
    <3>2. n \in Nodes /\ tree.parent[k] = n
      BY <2>2, <3>1 DEF Linked
    <3>3. k \in Nodes
      BY <2>2, <3>1, <3>2 DEF TreeType, NN
    <3>4. k \in placed
      <4>1. S[n] \subseteq placed
        BY <2>2, OneLink
      <4>2. S[k] \subseteq S[n]
        BY <2>2, <3>1, <3>2, NestedSides
      <4>3. k \in S[k]
        BY <2>2, <3>3 DEF Nested
      <4> QED BY <4>1, <4>2, <4>3
    <3> QED BY <2>2, <2>7, <3>1, <3>2, <3>4 DEF Reds
  <2> QED BY <2>2, <2>3, <2>5, <2>6, <2>7 DEF Balanced
<1>2. IndInv => RedBlack
  BY <1>1 DEF RedBlack
<1> QED BY <1>2, VmaInvariant, PTL

\* Between calls vma_search() returns the area that holds an address if there
\* is one, and NULL if there is none.
THEOREM SearchIsRight ==
  ASSUME AnyFree = FALSE
  PROVE  Spec => []SearchFinds
<1>1. ASSUME IndInv, Running, NEW addr \in Addrs
      PROVE  {n \in placed : area[n].start <= addr /\ addr < area[n].end}
               = {vma_search(addr)} \ {NULL}
  <2>1. PICK S, H : Sound(tree, S, H, placed, area, NULL)
    BY <1>1, QuietSound
  <2>2. Shape(tree, S, placed, area) /\ AreasOK(area, placed) /\ addr \in Nat
    BY <1>1, <2>1, VmaAssumption DEF Sound, IndInv, Addrs
  <2>3. {n \in placed : Holds(n, addr)} = {vma_search(addr)} \ {NULL}
    BY <2>2, SearchIs
  <2> QED BY <2>3 DEF Holds
<1>2. IndInv => SearchFinds
  BY <1>1 DEF SearchFinds
<1> QED BY <1>2, VmaInvariant, PTL

\* Between calls the place that vma_alloc_area() chooses is clear of every area,
\* and it gives up only if no place in the region is.
THEOREM PlaceIsRight ==
  ASSUME AnyFree = FALSE
  PROVE  Spec => []PlaceIsExact
<1>1. ASSUME IndInv, Running, NEW size \in Sizes
      PROVE  IF Place(size) = -1 THEN \A b \in Addrs : ~ClearOf(b, size)
             ELSE ClearOf(Place(size), size)
  <2>1. PICK S, H : Sound(tree, S, H, placed, area, NULL)
    BY <1>1, QuietSound
  <2>2. /\ Shape(tree, S, placed, area) /\ AreasOK(area, placed) /\ used = placed /\ size \in Nat
        /\ Addrs \subseteq Nat
    BY <1>1, <2>1, VmaAssumption DEF Sound, IndInv, Addrs
  <2>3. \/ Place(size) \in Nat /\ ClearOf(Place(size), size)
        \/ Place(size) = -1 /\ \A b \in Nat : ~ClearOf(b, size)
    BY <2>2, PlaceIs
  <2>4. -1 \notin Nat
    OBVIOUS
  <2> QED BY <2>2, <2>3, <2>4
<1>2. IndInv => PlaceIsExact
  BY <1>1 DEF PlaceIsExact, ClearOf
<1> QED BY <1>2, VmaInvariant, PTL

=============================================================================
