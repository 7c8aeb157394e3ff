------------------------------ MODULE TreeProofs -----------------------------
(***************************************************************************)
(* Proofs about the red-black tree of the areas, RBTree with the areas of  *)
(* Vma: where its walks lead, and what rotations and rb_fixins() preserve. *)
(*                                                                         *)
(* A tree is described by two functions on its nodes that no step of the   *)
(* code computes: S gives the nodes below a node, with itself, and H the   *)
(* number of black nodes on every way down from it.  A rotation changes    *)
(* each of them at two nodes only, so that every round of a repair loop    *)
(* can be followed locally.                                                *)
(***************************************************************************)
EXTENDS Vma, CommonLemmas

NN == Nodes \cup {NULL}

-----------------------------------------------------------------------------
(***************************************************************************)
(* Loops as recursive functions: a loop that goes from n to step[n] while  *)
(* go[n] and ends with val[n] is a function, if some rank falls.           *)
(***************************************************************************)
Loops(f, D, go, step, val) == f = [n \in D |-> IF go[n] THEN f[step[n]] ELSE val[n]]

LEMMA TailRecursion ==
  ASSUME NEW D, NEW go, NEW step, NEW val, NEW rank \in [D -> Nat], NEW N \in Nat,
         \A n \in D : rank[n] < N,
         \A n \in D : go[n] => step[n] \in D /\ rank[step[n]] < rank[n]
  PROVE  \E f : Loops(f, D, go, step, val)
<1> DEFINE Dom(k) == {n \in D : rank[n] < k}
           Bad == {k \in Nat : ~\E f : Loops(f, Dom(k), go, step, val)}
<1>1. SUFFICES Bad = {}
  <2>1. Dom(N) = D
    OBVIOUS
  <2>2. N \notin Bad
    BY <1>1
  <2> QED BY <2>1, <2>2
<1>2. SUFFICES ASSUME Bad # {}
               PROVE  FALSE
  OBVIOUS
<1>3. PICK k \in Bad : \A j \in Bad : k <= j
  BY <1>2, Least
<1>4. k # 0
  <2>1. Dom(0) = {}
    OBVIOUS
  <2> DEFINE f0 == [n \in {} |-> IF go[n] THEN val[step[n]] ELSE val[n]]
  <2>2. Loops(f0, Dom(0), go, step, val)
    BY <2>1 DEF Loops
  <2> QED BY <2>2
<1>5. k - 1 \in Nat /\ k - 1 \notin Bad
  BY <1>3, <1>4
<1>6. PICK f : Loops(f, Dom(k - 1), go, step, val)
  BY <1>5
<1> DEFINE g == [n \in Dom(k) |-> IF go[n] THEN f[step[n]] ELSE val[n]]
<1>7. \A n \in Dom(k) : go[n] => step[n] \in Dom(k - 1)
  BY <1>3
<1>8. \A n \in Dom(k - 1) : n \in Dom(k) /\ g[n] = f[n]
  BY <1>3, <1>6 DEF Loops
<1>9. Loops(g, Dom(k), go, step, val)
  <2> HIDE DEF Dom
  <2>1. \A n \in Dom(k) : g[n] = IF go[n] THEN g[step[n]] ELSE val[n]
    BY <1>7, <1>8
  <2>2. g = [n \in Dom(k) |-> g[n]]
    OBVIOUS
  <2> HIDE DEF g
  <2> QED BY <2>1, <2>2 DEF Loops
<1> QED BY <1>3, <1>9

-----------------------------------------------------------------------------
(***************************************************************************)
(* The shape of a tree.                                                    *)
(***************************************************************************)
TreeType(t) ==
  t \in [root : NN, kid : [Sides -> [Nodes -> NN]], parent : [Nodes -> NN],
         red : [Nodes -> BOOLEAN]]

\* S[n] is the set of nodes below n, with n, and the way to each is unique.
Nested(t, S) ==
  /\ S \in [NN -> SUBSET Nodes]
  /\ S[NULL] = {}
  /\ \A n \in Nodes :
       /\ S[n] = {n} \cup S[t.kid["left"][n]] \cup S[t.kid["right"][n]]
       /\ n \notin S[t.kid["left"][n]]
       /\ n \notin S[t.kid["right"][n]]
       /\ S[t.kid["left"][n]] \cap S[t.kid["right"][n]] = {}

\* The nodes of P know their parents, the others are not linked.
Linked(t, P) ==
  /\ P \subseteq Nodes
  /\ t.root # NULL => t.parent[t.root] = NULL
  /\ \A n \in P : \A d \in Sides : t.kid[d][n] # NULL => t.parent[t.kid[d][n]] = n
  /\ \A n \in P : n # t.root => t.parent[n] \in P /\ \E d \in Sides : t.kid[d][t.parent[n]] = n
  /\ \A n \in Nodes \ P : t.parent[n] = NULL /\ \A d \in Sides : t.kid[d][n] = NULL

\* The area of m is on side d of the area of n.
On(ar, d, m, n) == IF d = "left" THEN ar[m].end <= ar[n].start ELSE ar[n].end <= ar[m].start

Ordered(t, S, P, ar) ==
  \A n \in P : \A d \in Sides : \A m \in S[t.kid[d][n]] : On(ar, d, m, n)

Shape(t, S, P, ar) ==
  /\ TreeType(t)
  /\ Nested(t, S)
  /\ S[t.root] = P
  /\ Linked(t, P)
  /\ Ordered(t, S, P, ar)

\* The areas of structs in P lie in the region, the others are empty.
AreasOK(ar, P) ==
  /\ ar \in [Nodes -> [start : Nat, end : Nat]]
  /\ \A n \in P : ar[n].start <= ar[n].end /\ ar[n].end <= RegionLen
  /\ \A n \in Nodes \ P : ar[n] = NoArea

-----------------------------------------------------------------------------
LEMMA SideFacts ==
  ASSUME NEW d \in Sides
  PROVE  /\ Other(d) \in Sides
         /\ Other(d) # d
         /\ Other(Other(d)) = d
         /\ \A e \in Sides : e = d \/ e = Other(d)
BY DEF Sides, Other

\* The clauses of Nested for a side and the other.
LEMMA NestedSides ==
  ASSUME NEW t, NEW S, TreeType(t), Nested(t, S), NEW n \in Nodes, NEW d \in Sides
  PROVE  /\ t.kid[d][n] \in NN
         /\ S[t.kid[d][n]] \subseteq Nodes
         /\ S[n] = {n} \cup S[t.kid[d][n]] \cup S[t.kid[Other(d)][n]]
         /\ n \notin S[t.kid[d][n]]
         /\ S[t.kid[d][n]] \cap S[t.kid[Other(d)][n]] = {}
<1>1. t.kid[d][n] \in NN
  BY DEF TreeType
<1>2. S[t.kid[d][n]] \subseteq Nodes
  BY <1>1 DEF Nested
<1>3. d = "left" \/ d = "right"
  BY DEF Sides
<1>4. CASE d = "left"
  BY <1>1, <1>2, <1>4 DEF Nested, Other
<1>5. CASE d = "right"
  <2>1. Other(d) = "left"
    BY <1>5 DEF Other
  <2> QED BY <1>1, <1>2, <1>5, <2>1 DEF Nested
<1> QED BY <1>3, <1>4, <1>5

\* A set that holds each node whose children it holds is all of them.
LEMMA TreeInduction ==
  ASSUME NEW t, NEW S, TreeType(t), Nested(t, S), NEW Q,
         \A n \in Nodes : (\A d \in Sides : t.kid[d][n] # NULL => t.kid[d][n] \in Q) => n \in Q
  PROVE  Nodes \subseteq Q
<1> DEFINE Size(n) == Cardinality(S[n])
           Bad == {Size(n) : n \in Nodes \ Q}
<1>1. \A n \in Nodes : IsFiniteSet(S[n]) /\ Size(n) \in Nat
  <2> TAKE n \in Nodes
  <2>1. S[n] \subseteq Nodes
    BY DEF Nested, NN
  <2>2. IsFiniteSet(S[n])
    BY <2>1, TreeAssumption, FS_Subset
  <2> QED BY <2>2, FS_CardinalityType
<1>2. SUFFICES ASSUME Nodes \ Q # {}
               PROVE  FALSE
  OBVIOUS
<1>3. Bad \subseteq Nat /\ Bad # {}
  BY <1>1, <1>2
<1>4. PICK b \in Bad : \A k \in Bad : b <= k
  BY <1>3, Least
<1>5. PICK n \in Nodes \ Q : b = Size(n)
  BY <1>4
<1>6. \A d \in Sides : t.kid[d][n] # NULL => t.kid[d][n] \in Q
  <2> SUFFICES ASSUME NEW d \in Sides, t.kid[d][n] # NULL, t.kid[d][n] \notin Q
               PROVE  FALSE
    OBVIOUS
  <2> DEFINE k == t.kid[d][n]
  <2>1. k \in Nodes
    BY NestedSides DEF NN
  <2>2. S[k] \subseteq S[n] /\ S[k] # S[n]
    BY NestedSides
  <2>3. Size(k) < Size(n)
    <3>1. Cardinality(S[k]) <= Cardinality(S[n]) /\ Cardinality(S[k]) # Cardinality(S[n])
      BY <1>1, <2>2, FS_Subset
    <3> QED BY <1>1, <2>1, <3>1
  <2>4. Size(k) \in Bad
    BY <2>1
  <2> QED BY <1>1, <1>4, <1>5, <2>1, <2>3, <2>4
<1> QED BY <1>5, <1>6

\* The number of nodes below a node, which falls on every way down.
Size(S) == [n \in Nodes |-> Cardinality(S[n])]

LEMMA Sizing ==
  ASSUME NEW t, NEW S, TreeType(t), Nested(t, S)
  PROVE  /\ Size(S) \in [Nodes -> Nat]
         /\ Cardinality(Nodes) + 1 \in Nat
         /\ \A n \in Nodes : Size(S)[n] < Cardinality(Nodes) + 1
         /\ \A n \in Nodes : \A d \in Sides :
              t.kid[d][n] # NULL => t.kid[d][n] \in Nodes /\ Size(S)[t.kid[d][n]] < Size(S)[n]
<1>1. \A n \in Nodes : /\ IsFiniteSet(S[n]) /\ Cardinality(S[n]) \in Nat
                       /\ Cardinality(S[n]) <= Cardinality(Nodes)
  <2> TAKE n \in Nodes
  <2>1. S[n] \subseteq Nodes
    BY DEF Nested, NN
  <2>2. IsFiniteSet(S[n]) /\ Cardinality(S[n]) <= Cardinality(Nodes)
    BY <2>1, TreeAssumption, FS_Subset
  <2> QED BY <2>2, FS_CardinalityType
<1>2. Cardinality(Nodes) \in Nat
  BY TreeAssumption, FS_CardinalityType
<1>3. ASSUME NEW n \in Nodes, NEW d \in Sides, t.kid[d][n] # NULL
      PROVE  t.kid[d][n] \in Nodes /\ Size(S)[t.kid[d][n]] < Size(S)[n]
  <2> DEFINE k == t.kid[d][n]
  <2>1. k \in Nodes
    BY <1>3, NestedSides DEF NN
  <2>2. S[k] \subseteq S[n] /\ S[k] # S[n]
    BY NestedSides
  <2>3. Cardinality(S[k]) <= Cardinality(S[n]) /\ Cardinality(S[k]) # Cardinality(S[n])
    BY <1>1, <2>2, FS_Subset
  <2> QED BY <1>1, <2>1, <2>3 DEF Size
<1> QED BY <1>1, <1>2, <1>3 DEF Size

\* What is below a node is below all that the node is below.
LEMMA Inside ==
  ASSUME NEW t, NEW S, TreeType(t), Nested(t, S), NEW n \in NN, NEW m \in S[n]
  PROVE  m \in Nodes /\ m \in S[m] /\ S[m] \subseteq S[n]
<1> DEFINE Q == {j \in Nodes : \A i \in S[j] : S[i] \subseteq S[j]}
<1>1. ASSUME NEW j \in Nodes, \A d \in Sides : t.kid[d][j] # NULL => t.kid[d][j] \in Q
      PROVE  j \in Q
  <2> SUFFICES ASSUME NEW i \in S[j]
               PROVE  S[i] \subseteq S[j]
    OBVIOUS
  <2>1. CASE i = j
    BY <2>1
  <2>2. ASSUME NEW d \in Sides, i \in S[t.kid[d][j]]
        PROVE  S[i] \subseteq S[j]
    <3>1. t.kid[d][j] # NULL
      BY <2>2 DEF Nested
    <3>2. S[i] \subseteq S[t.kid[d][j]]
      BY <1>1, <2>2, <3>1
    <3> QED BY <3>2, NestedSides
  <2>3. i = j \/ i \in S[t.kid["left"][j]] \/ i \in S[t.kid["right"][j]]
    BY DEF Nested
  <2> QED BY <2>1, <2>2, <2>3 DEF Sides
<1>2. Nodes \subseteq Q
  <2> HIDE DEF Q
  <2> QED BY <1>1, TreeInduction
<1>3. m \in Nodes
  BY DEF Nested
<1>4. m \in S[m]
  BY <1>3 DEF Nested
<1>5. n # NULL
  BY DEF Nested
<1> QED BY <1>2, <1>3, <1>4, <1>5 DEF NN

\* A set that holds each node of the tree whose parent it holds has all of them.
LEMMA UpInduction ==
  ASSUME NEW t, NEW S, NEW P, NEW ar, Shape(t, S, P, ar), NEW Q,
         \A n \in P : (n # t.root => t.parent[n] \in Q) => n \in Q
  PROVE  P \subseteq Q
<1> USE DEF Shape
<1> DEFINE R == {n \in Nodes : n \in P /\ n \in Q => S[n] \subseteq Q}
<1>1. ASSUME NEW n \in Nodes, \A d \in Sides : t.kid[d][n] # NULL => t.kid[d][n] \in R
      PROVE  n \in R
  <2> SUFFICES ASSUME n \in P, n \in Q
               PROVE  S[n] \subseteq Q
    OBVIOUS
  <2>1. ASSUME NEW d \in Sides
        PROVE  S[t.kid[d][n]] \subseteq Q
    <3> DEFINE k == t.kid[d][n]
    <3>1. CASE k = NULL
      BY <3>1 DEF Nested
    <3>2. CASE k # NULL
      <4>1. k \in Nodes /\ k \in S[n]
        <5>1. k \in Nodes /\ S[k] \subseteq S[n]
          BY <3>2, NestedSides DEF NN
        <5> QED BY <5>1 DEF Nested
      <4>2. S[n] \subseteq P
        BY Inside DEF TreeType
      <4>3. t.parent[k] = n
        BY <3>2 DEF Linked
      <4>4. k # t.root
        BY <3>2, <4>3, TreeAssumption DEF Linked
      <4>5. k \in Q
        BY <4>1, <4>2, <4>3, <4>4
      <4> QED BY <1>1, <3>2, <4>1, <4>2, <4>5
    <3> QED BY <3>1, <3>2
  <2>2. S[n] = {n} \cup S[t.kid["left"][n]] \cup S[t.kid["right"][n]]
    BY DEF Nested
  <2> QED BY <2>1, <2>2 DEF Sides
<1>2. Nodes \subseteq R
  <2> HIDE DEF R
  <2> QED BY <1>1, TreeInduction
<1>3. CASE t.root = NULL
  BY <1>3 DEF Nested
<1>4. CASE t.root # NULL
  <2>1. t.root \in Nodes
    BY <1>4 DEF TreeType, NN
  <2>2. t.root \in P
    BY <2>1 DEF Nested
  <2>3. t.root \in Q
    BY <2>2
  <2> QED BY <1>2, <2>1, <2>2, <2>3
<1> QED BY <1>3, <1>4

-----------------------------------------------------------------------------
(***************************************************************************)
(* The order of the areas.                                                 *)
(***************************************************************************)
LEMMA OnFlip ==
  ASSUME NEW ar, NEW d \in Sides, NEW m, NEW n
  PROVE  On(ar, d, m, n) <=> On(ar, Other(d), n, m)
BY DEF On, Sides, Other

LEMMA OnTrans ==
  ASSUME NEW ar, NEW P, AreasOK(ar, P), P \subseteq Nodes, NEW d \in Sides,
         NEW i \in P, NEW j \in P, NEW k \in P, On(ar, d, i, j), On(ar, d, j, k)
  PROVE  On(ar, d, i, k)
<1>1. /\ ar[i].start \in Nat /\ ar[i].end \in Nat /\ ar[j].start \in Nat /\ ar[j].end \in Nat
      /\ ar[k].start \in Nat /\ ar[k].end \in Nat
      /\ ar[j].start <= ar[j].end
  BY DEF AreasOK
<1> QED BY <1>1 DEF On, Sides

\* A node that is not below n is on one side of all that is.
LEMMA Apart ==
  ASSUME NEW t, NEW S, NEW P, NEW ar, Shape(t, S, P, ar), AreasOK(ar, P),
         NEW n \in P, NEW k \in P, k \notin S[n]
  PROVE  \E d \in Sides : \A j \in S[n] : On(ar, d, k, j)
<1> USE DEF Shape
<1> DEFINE Q == {i \in P : k \notin S[i] => \E d \in Sides : \A j \in S[i] : On(ar, d, k, j)}
<1>0. P \subseteq Nodes
  BY DEF Linked
<1>1. ASSUME NEW i \in P, i # t.root => t.parent[i] \in Q
      PROVE  i \in Q
  <2> SUFFICES ASSUME k \notin S[i]
               PROVE  \E d \in Sides : \A j \in S[i] : On(ar, d, k, j)
    OBVIOUS
  <2> DEFINE q == t.parent[i]
  <2>1. i # t.root
    OBVIOUS
  <2>2. q \in P /\ q \in Q
    BY <1>1, <2>1 DEF Linked
  <2>3. PICK e \in Sides : t.kid[e][q] = i
    BY <2>1 DEF Linked
  <2>4. S[i] \subseteq S[q]
    BY <1>0, <2>2, <2>3, NestedSides
  <2>5. CASE k \notin S[q]
    BY <2>2, <2>4, <2>5
  <2>6. CASE k \in S[q]
    <3>1. \A j \in S[i] : On(ar, e, j, q) /\ j \in P
      <4>1. S[i] \subseteq P
        BY <1>0, Inside DEF TreeType
      <4> QED BY <2>2, <2>3, <4>1 DEF Ordered
    <3>2. k = q \/ k \in S[t.kid[Other(e)][q]]
      BY <1>0, <2>2, <2>3, <2>6, NestedSides
    <3>3. ASSUME NEW j \in S[i]
          PROVE  On(ar, Other(e), k, j)
      <4>1. On(ar, Other(e), q, j)
        BY <3>1, OnFlip
      <4>2. CASE k = q
        BY <4>1, <4>2
      <4>3. CASE k \in S[t.kid[Other(e)][q]]
        <5>1. On(ar, Other(e), k, q)
          BY <2>2, <4>3, SideFacts DEF Ordered
        <5> QED BY <1>0, <2>2, <3>1, <4>1, <5>1, OnTrans, SideFacts
      <4> QED BY <3>2, <4>2, <4>3
    <3> QED BY <3>3, SideFacts
  <2> QED BY <2>5, <2>6
<1>2. P \subseteq Q
  <2> HIDE DEF Q
  <2> QED BY <1>1, UpInduction
<1> QED BY <1>2

\* Areas in an ordered tree share no page.
LEMMA OrderedDisjoint ==
  ASSUME NEW t, NEW S, NEW P, NEW ar, Shape(t, S, P, ar), AreasOK(ar, P),
         NEW m \in P, NEW n \in P, m # n
  PROVE  On(ar, "left", m, n) \/ On(ar, "left", n, m)
<1>1. n \in Nodes /\ n \in S[n]
  BY DEF Shape, Linked, Nested
<1>2. CASE m \notin S[n]
  <2>1. PICK d \in Sides : On(ar, d, m, n)
    BY <1>1, <1>2, Apart
  <2> QED BY <2>1 DEF Sides, On
<1>3. CASE m \in S[n]
  <2>1. PICK d \in Sides : m \in S[t.kid[d][n]]
    BY <1>1, <1>3 DEF Shape, Nested, Sides
  <2>2. On(ar, d, m, n)
    BY <2>1 DEF Shape, Ordered
  <2> QED BY <2>2 DEF Sides, On
<1> QED BY <1>2, <1>3

-----------------------------------------------------------------------------
(***************************************************************************)
(* What the functions of the properties compute.                           *)
(***************************************************************************)
IsSubtree(f, t) ==
  f = [n \in NN |-> IF n = NULL THEN {} ELSE {n} \cup f[t.kid["left"][n]] \cup f[t.kid["right"][n]]]

LEMMA SubtreeIs ==
  ASSUME NEW t, NEW S, TreeType(t), Nested(t, S)
  PROVE  Subtree(t) = S
<1>1. IsSubtree(S, t)
  <2>1. \A n \in NN : S[n] = IF n = NULL THEN {}
                             ELSE {n} \cup S[t.kid["left"][n]] \cup S[t.kid["right"][n]]
    BY DEF Nested, NN
  <2>2. S = [n \in NN |-> S[n]]
    BY DEF Nested
  <2> QED BY <2>1, <2>2 DEF IsSubtree
<1> DEFINE F == CHOOSE f : IsSubtree(f, t)
<1>2. IsSubtree(F, t)
  BY <1>1, Zenon
<1>3. Subtree(t) = F
  BY Zenon DEF Subtree, IsSubtree, NN
<1> HIDE DEF F
<1>4. F = [n \in NN |-> F[n]]
  BY <1>2 DEF IsSubtree
<1>5. F[NULL] = {} /\ \A n \in Nodes : F[n] = {n} \cup F[t.kid["left"][n]] \cup F[t.kid["right"][n]]
  BY <1>2, TreeAssumption DEF IsSubtree, NN
<1> DEFINE Q == {n \in Nodes : F[n] = S[n]}
<1>6. ASSUME NEW n \in Nodes, \A d \in Sides : t.kid[d][n] # NULL => t.kid[d][n] \in Q
      PROVE  n \in Q
  <2>1. \A d \in Sides : F[t.kid[d][n]] = S[t.kid[d][n]]
    BY <1>5, <1>6 DEF Nested
  <2>2. F[n] = S[n]
    <3>1. F[t.kid["left"][n]] = S[t.kid["left"][n]] /\ F[t.kid["right"][n]] = S[t.kid["right"][n]]
      BY <2>1 DEF Sides
    <3>2. S[n] = {n} \cup S[t.kid["left"][n]] \cup S[t.kid["right"][n]]
      BY DEF Nested
    <3> QED BY <1>5, <3>1, <3>2
  <2> QED BY <2>2
<1>7. Nodes \subseteq Q
  <2> HIDE DEF Q
  <2> QED BY <1>6, TreeInduction
<1>8. \A n \in NN : F[n] = S[n]
  BY <1>5, <1>7 DEF Nested, NN
<1>9. S = [n \in NN |-> S[n]]
  BY DEF Nested
<1> QED BY <1>3, <1>4, <1>8, <1>9

\* H[n] is the number of black nodes on every way from n down.
Heights(t, H) ==
  /\ H \in [NN -> Nat \ {0}]
  /\ H[NULL] = 1
  /\ \A n \in Nodes :
       /\ H[t.kid["left"][n]] = H[t.kid["right"][n]]
       /\ H[n] = H[t.kid["left"][n]] + (IF t.red[n] THEN 0 ELSE 1)

IsHeights(f, t) ==
  f = [m \in NN |->
         IF m = NULL THEN {1}
         ELSE {h + (IF t.red[m] THEN 0 ELSE 1) :
                 h \in f[t.kid["left"][m]] \cup f[t.kid["right"][m]]}]

LEMMA HeightsAre ==
  ASSUME NEW t, NEW S, NEW H, TreeType(t), Nested(t, S), Heights(t, H), NEW n \in NN
  PROVE  BlackHeights(t, n) = {H[n]}
<1> DEFINE G == [m \in NN |-> {H[m]}]
<1>0. \A m \in Nodes : t.kid["left"][m] \in NN /\ t.kid["right"][m] \in NN
  BY DEF TreeType, Sides
<1>1. IsHeights(G, t)
  <2>1. ASSUME NEW m \in NN
        PROVE  G[m] = IF m = NULL THEN {1}
                      ELSE {h + (IF t.red[m] THEN 0 ELSE 1) :
                              h \in G[t.kid["left"][m]] \cup G[t.kid["right"][m]]}
    <3>1. CASE m = NULL
      BY <3>1 DEF Heights
    <3>2. CASE m # NULL
      <4>1. m \in Nodes
        BY <3>2 DEF NN
      <4>2. G[t.kid["left"][m]] \cup G[t.kid["right"][m]] = {H[t.kid["left"][m]]}
        BY <1>0, <4>1 DEF Heights
      <4>3. G[m] = {H[t.kid["left"][m]] + (IF t.red[m] THEN 0 ELSE 1)}
        BY <4>1 DEF Heights
      <4> HIDE DEF G
      <4> QED BY <3>2, <4>2, <4>3
    <3> QED BY <3>1, <3>2
  <2>2. G = [m \in NN |-> G[m]]
    OBVIOUS
  <2> HIDE DEF G
  <2> QED BY <2>1, <2>2 DEF IsHeights
<1> DEFINE F == CHOOSE f : IsHeights(f, t)
<1>2. IsHeights(F, t)
  BY <1>1, Zenon
<1>3. BlackHeights(t, n) = F[n]
  BY Zenon DEF BlackHeights, IsHeights, NN
<1> HIDE DEF F, G
<1>4. /\ F[NULL] = {1}
      /\ \A m \in Nodes : F[m] = {h + (IF t.red[m] THEN 0 ELSE 1) :
                                    h \in F[t.kid["left"][m]] \cup F[t.kid["right"][m]]}
  BY <1>2, TreeAssumption DEF IsHeights, NN
<1>5. /\ G[NULL] = {1}
      /\ \A m \in Nodes : G[m] = {h + (IF t.red[m] THEN 0 ELSE 1) :
                                    h \in G[t.kid["left"][m]] \cup G[t.kid["right"][m]]}
  BY <1>1, TreeAssumption DEF IsHeights, NN
<1> DEFINE Q == {m \in Nodes : F[m] = G[m]}
<1>6. ASSUME NEW m \in Nodes, \A d \in Sides : t.kid[d][m] # NULL => t.kid[d][m] \in Q
      PROVE  m \in Q
  <2>1. \A d \in Sides : F[t.kid[d][m]] = G[t.kid[d][m]]
    BY <1>4, <1>5, <1>6
  <2>2. F[t.kid["left"][m]] = G[t.kid["left"][m]] /\ F[t.kid["right"][m]] = G[t.kid["right"][m]]
    BY <2>1 DEF Sides
  <2>3. F[m] = G[m]
    BY <1>4, <1>5, <2>2
  <2> QED BY <2>3
<1>7. Nodes \subseteq Q
  <2> HIDE DEF Q
  <2> QED BY <1>6, TreeInduction
<1>8. F[n] = G[n]
  BY <1>4, <1>5, <1>7 DEF NN
<1>9. G[n] = {H[n]}
  BY DEF G
<1> QED BY <1>3, <1>8, <1>9

-----------------------------------------------------------------------------
(***************************************************************************)
(* What the walks of rbtree.c find.                                        *)
(***************************************************************************)
IsOutermost(f, t, d) == f = [m \in Nodes |-> IF t.kid[d][m] = NULL THEN m ELSE f[t.kid[d][m]]]

LEMMA OutermostEq ==
  ASSUME NEW t, NEW S, TreeType(t), Nested(t, S), NEW d \in Sides, NEW n \in Nodes
  PROVE  Outermost(t, n, d) = IF t.kid[d][n] = NULL THEN n ELSE Outermost(t, t.kid[d][n], d)
<1> DEFINE go == [m \in Nodes |-> t.kid[d][m] # NULL]
           step == [m \in Nodes |-> t.kid[d][m]]
           val == [m \in Nodes |-> m]
<1>1. PICK g : Loops(g, Nodes, go, step, val)
  <2>1. \A m \in Nodes : go[m] => step[m] \in Nodes /\ Size(S)[step[m]] < Size(S)[m]
    BY Sizing
  <2> HIDE DEF go, step, val
  <2> QED BY <2>1, Sizing, TailRecursion
<1>2. IsOutermost(g, t, d)
  <2>1. g = [m \in Nodes |-> g[m]] /\ \A m \in Nodes : g[m] = IF go[m] THEN g[step[m]] ELSE val[m]
    BY <1>1 DEF Loops
  <2>2. \A m \in Nodes : g[m] = IF t.kid[d][m] = NULL THEN m ELSE g[t.kid[d][m]]
    BY <2>1
  <2> QED BY <2>1, <2>2 DEF IsOutermost
<1> DEFINE F == CHOOSE f : IsOutermost(f, t, d)
<1>3. IsOutermost(F, t, d)
  BY <1>2, Zenon
<1>4. \A m : Outermost(t, m, d) = F[m]
  BY Zenon DEF Outermost, IsOutermost
<1> HIDE DEF F
<1>5. \A m \in Nodes : F[m] = IF t.kid[d][m] = NULL THEN m ELSE F[t.kid[d][m]]
  BY <1>3 DEF IsOutermost
<1> QED BY <1>4, <1>5

\* The walk down the links of side d from n ends at a node below n with no
\* other on that side, and never enters a link of the other side.
LEMMA OutermostIs ==
  ASSUME NEW t, NEW S, TreeType(t), Nested(t, S), NEW d \in Sides, NEW n \in Nodes
  PROVE  LET w == Outermost(t, n, d)
         IN  /\ w \in S[n]
             /\ t.kid[d][w] = NULL
             /\ \A m \in S[n] : w \notin S[t.kid[Other(d)][m]]
<1> DEFINE F == [m \in Nodes |-> Outermost(t, m, d)]
<1>5. \A m \in Nodes : F[m] = IF t.kid[d][m] = NULL THEN m ELSE F[t.kid[d][m]]
  BY OutermostEq, NestedSides DEF NN
<1>4. Outermost(t, n, d) = F[n]
  OBVIOUS
<1> HIDE DEF F
<1> DEFINE Right(m, w) == /\ w \in S[m]
                          /\ t.kid[d][w] = NULL
                          /\ \A j \in S[m] : w \notin S[t.kid[Other(d)][j]]
           Q == {m \in Nodes : Right(m, F[m])}
<1>6. ASSUME NEW m \in Nodes, \A e \in Sides : t.kid[e][m] # NULL => t.kid[e][m] \in Q
      PROVE  m \in Q
  <2> DEFINE k == t.kid[d][m]
             o == t.kid[Other(d)][m]
  <2>0. S[m] = {m} \cup S[k] \cup S[o] /\ S[k] \cap S[o] = {} /\ m \notin S[o] /\ o \in NN
    BY NestedSides, SideFacts
  <2>1. ASSUME NEW j \in S[o]
        PROVE  S[t.kid[Other(d)][j]] \subseteq S[o]
    <3>1. j \in Nodes /\ S[j] \subseteq S[o]
      BY <2>0, Inside
    <3> QED BY <3>1, NestedSides, SideFacts
  <2>2. CASE k = NULL
    <3>1. F[m] = m
      BY <1>5, <2>2
    <3>2. S[k] = {}
      BY <2>2 DEF Nested
    <3>3. \A j \in S[m] : m \notin S[t.kid[Other(d)][j]]
      BY <2>0, <2>1, <3>2
    <3> QED BY <2>0, <2>2, <3>1, <3>3
  <2>3. CASE k # NULL
    <3>1. F[m] = F[k]
      BY <1>5, <2>3
    <3>2. k \in Nodes /\ Right(k, F[k])
      BY <1>6, <2>3
    <3>3. \A j \in S[m] : F[k] \notin S[t.kid[Other(d)][j]]
      BY <2>0, <2>1, <3>2
    <3> QED BY <2>0, <3>1, <3>2, <3>3
  <2> QED BY <2>2, <2>3
<1>7. Nodes \subseteq Q
  <2> HIDE DEF Q
  <2> QED BY <1>6, TreeInduction
<1>8. Right(n, F[n])
  BY <1>7
<1> QED BY <1>4, <1>8

\* That node is before all others on that side.
LEMMA OutermostOrder ==
  ASSUME NEW t, NEW S, NEW P, NEW ar, Shape(t, S, P, ar), AreasOK(ar, P),
         NEW d \in Sides, NEW n \in P
  PROVE  \A m \in S[n] : m # Outermost(t, n, d) => On(ar, d, Outermost(t, n, d), m)
<1> USE DEF Shape
<1> DEFINE F == [m \in Nodes |-> Outermost(t, m, d)]
           Q == {m \in Nodes : m \in P => \A j \in S[m] : j # F[m] => On(ar, d, F[m], j)}
<1>0. P \subseteq Nodes
  BY DEF Linked
<1>1. \A m \in Nodes : F[m] = IF t.kid[d][m] = NULL THEN m ELSE F[t.kid[d][m]]
  BY OutermostEq, NestedSides DEF NN
<1>2. \A m \in Nodes : F[m] \in S[m]
  BY OutermostIs
<1> HIDE DEF F
<1>3. ASSUME NEW m \in Nodes, \A e \in Sides : t.kid[e][m] # NULL => t.kid[e][m] \in Q
      PROVE  m \in Q
  <2> SUFFICES ASSUME m \in P, NEW j \in S[m], j # F[m]
               PROVE  On(ar, d, F[m], j)
    OBVIOUS
  <2> DEFINE k == t.kid[d][m]
             o == t.kid[Other(d)][m]
  <2>1. S[m] = {m} \cup S[k] \cup S[o] /\ k \in NN
    BY NestedSides
  <2>2. S[m] \subseteq P
    BY Inside DEF TreeType
  <2>3. j \in S[o] => On(ar, d, m, j)
    <3>1. j \in S[o] => On(ar, Other(d), j, m)
      BY SideFacts DEF Ordered
    <3> QED BY <3>1, OnFlip
  <2>4. CASE k = NULL
    <3>1. F[m] = m /\ S[k] = {}
      BY <1>1, <2>4 DEF Nested
    <3> QED BY <2>1, <2>3, <3>1
  <2>5. CASE k # NULL
    <3>1. k \in Nodes /\ F[m] = F[k] /\ F[k] \in S[k] /\ k \in Q
      BY <1>1, <1>2, <1>3, <2>1, <2>5 DEF NN
    <3>2. k \in P
      BY <2>1, <2>2, <3>1 DEF Nested
    <3>3. On(ar, d, F[k], m)
      BY <3>1 DEF Ordered
    <3>4. CASE j = m
      BY <3>1, <3>3, <3>4
    <3>5. CASE j \in S[k]
      BY <3>1, <3>2, <3>5
    <3>6. CASE j \in S[o]
      <4>1. F[k] \in P /\ m \in P /\ j \in P
        BY <2>1, <2>2, <3>1
      <4> QED BY <1>0, <2>3, <3>1, <3>3, <3>6, <4>1, OnTrans
    <3> QED BY <2>1, <3>4, <3>5, <3>6
  <2> QED BY <2>4, <2>5
<1>4. Nodes \subseteq Q
  <2> HIDE DEF Q
  <2> QED BY <1>3, TreeInduction
<1>5. F[n] = Outermost(t, n, d)
  BY <1>0 DEF F
<1> QED BY <1>0, <1>4, <1>5

IsClimb(f, t) ==
  f = [m \in Nodes |-> LET p == t.parent[m]
                       IN  IF p = NULL \/ m # t.kid["right"][p] THEN p ELSE f[p]]

LEMMA ClimbEq ==
  ASSUME NEW t, NEW S, NEW P, NEW ar, Shape(t, S, P, ar), NEW n \in Nodes
  PROVE  Climb(t, n) = IF t.parent[n] = NULL \/ n # t.kid["right"][t.parent[n]] THEN t.parent[n]
                       ELSE Climb(t, t.parent[n])
<1> USE DEF Shape
<1> DEFINE go == [m \in Nodes |-> ~(t.parent[m] = NULL \/ m # t.kid["right"][t.parent[m]])]
           step == [m \in Nodes |-> t.parent[m]]
           val == [m \in Nodes |-> t.parent[m]]
           C == Cardinality(Nodes)
           rank == [m \in Nodes |-> C - Size(S)[m]]
<1>1. PICK g : Loops(g, Nodes, go, step, val)
  <2>0. C \in Nat
    BY TreeAssumption, FS_CardinalityType
  <2>1. \A m \in Nodes : Size(S)[m] \in Nat /\ Size(S)[m] <= C
    BY <2>0, Sizing
  <2>2. rank \in [Nodes -> Nat] /\ C + 1 \in Nat /\ \A m \in Nodes : rank[m] < C + 1
    BY <2>0, <2>1
  <2>3. ASSUME NEW m \in Nodes, go[m]
        PROVE  step[m] \in Nodes /\ rank[step[m]] < rank[m]
    <3>1. step[m] \in Nodes
      BY <2>3 DEF TreeType, NN
    <3>2. t.kid["right"][step[m]] = m
      BY <2>3
    <3>3. m # NULL /\ "right" \in Sides
      BY TreeAssumption DEF Sides
    <3>4. Size(S)[m] < Size(S)[step[m]]
      BY <3>1, <3>2, <3>3, Sizing
    <3> HIDE DEF step
    <3> QED BY <2>0, <2>1, <3>1, <3>4
  <2> HIDE DEF go, step, val, rank, C
  <2> QED BY <2>2, <2>3, TailRecursion
<1>2. IsClimb(g, t)
  <2>1. g = [m \in Nodes |-> g[m]] /\ \A m \in Nodes : g[m] = IF go[m] THEN g[step[m]] ELSE val[m]
    BY <1>1 DEF Loops
  <2>2. \A m \in Nodes : g[m] = LET p == t.parent[m]
                                IN  IF p = NULL \/ m # t.kid["right"][p] THEN p ELSE g[p]
    BY <2>1
  <2> QED BY <2>1, <2>2 DEF IsClimb
<1> DEFINE F == CHOOSE f : IsClimb(f, t)
<1>3. IsClimb(F, t)
  BY <1>2, Zenon
<1>4. \A m : Climb(t, m) = F[m]
  BY Zenon DEF Climb, IsClimb
<1> HIDE DEF F
<1>5. \A m \in Nodes : F[m] = IF t.parent[m] = NULL \/ m # t.kid["right"][t.parent[m]] THEN t.parent[m]
                              ELSE F[t.parent[m]]
  BY <1>3 DEF IsClimb
<1> QED BY <1>4, <1>5

\* A node that no way down to the right leads past.
Rightmost(t, S, P, w) == t.kid["right"][w] = NULL /\ \A m \in P : w \notin S[t.kid["left"][m]]

\* The climb from n ends at the first node that has n on its left, and n is then
\* the highest there, or above the root, and then nothing is right of n.
Climbed(t, S, P, ar, n, c) ==
  \/ c = NULL /\ \A w \in P : Rightmost(t, S, P, w) => w \in S[n]
  \/ /\ c \in P
     /\ n \in S[t.kid["left"][c]]
     /\ \A k \in S[t.kid["left"][c]] \ S[n] : \A j \in S[n] : On(ar, "left", k, j)

LEMMA ClimbIs ==
  ASSUME NEW t, NEW S, NEW P, NEW ar, Shape(t, S, P, ar), AreasOK(ar, P), NEW n \in P
  PROVE  Climbed(t, S, P, ar, n, Climb(t, n))
<1> USE DEF Shape
<1> DEFINE Q == {i \in P : Climbed(t, S, P, ar, i, Climb(t, i))}
<1>0. P \subseteq Nodes /\ "left" \in Sides /\ "right" \in Sides
      /\ Other("left") = "right" /\ Other("right") = "left"
  BY DEF Linked, Sides, Other
<1>1. ASSUME NEW i \in P, i # t.root => t.parent[i] \in Q
      PROVE  i \in Q
  <2> DEFINE p == t.parent[i]
             c == Climb(t, i)
  <2>0. i \in S[i] /\ i # NULL
    BY <1>0, TreeAssumption DEF Nested
  <2>1. CASE i = t.root
    <3>1. p = NULL
      BY <2>0, <2>1 DEF Linked
    <3>2. c = NULL
      BY <1>0, <3>1, ClimbEq
    <3> QED BY <2>1, <3>2 DEF Climbed
  <2>2. CASE i # t.root /\ i # t.kid["right"][p]
    <3>1. p \in P /\ i = t.kid["left"][p]
      BY <2>2 DEF Linked, Sides
    <3>2. c = p
      BY <1>0, <2>2, ClimbEq
    <3> QED BY <2>0, <3>1, <3>2 DEF Climbed
  <2>3. CASE i # t.root /\ i = t.kid["right"][p]
    <3>1. p \in P /\ p \in Q /\ p # NULL
      BY <1>0, <1>1, <2>3, TreeAssumption DEF Linked
    <3>2. c = Climb(t, p)
      BY <1>0, <2>3, <3>1, ClimbEq
    <3>3. Climbed(t, S, P, ar, p, c)
      BY <3>1, <3>2
    <3>4. S[p] = {p} \cup S[t.kid["left"][p]] \cup S[i] /\ S[i] \subseteq S[p] /\ S[p] \subseteq P
      <4>1. S[p] = {p} \cup S[t.kid["left"][p]] \cup S[t.kid["right"][p]]
        BY <1>0, <3>1 DEF Nested
      <4>2. S[p] \subseteq P
        BY <1>0, <3>1, Inside DEF TreeType
      <4> QED BY <2>3, <4>1, <4>2
    <3>5. CASE c = NULL /\ \A w \in P : Rightmost(t, S, P, w) => w \in S[p]
      <4>1. ASSUME NEW w \in P, Rightmost(t, S, P, w)
            PROVE  w \in S[i]
        <5>1. w \in S[p] /\ w \notin S[t.kid["left"][p]]
          BY <3>1, <3>5, <4>1 DEF Rightmost
        <5>2. w # p
          BY <2>0, <2>3, <4>1 DEF Rightmost
        <5> QED BY <3>4, <5>1, <5>2
      <4> QED BY <3>5, <4>1 DEF Climbed
    <3>6. CASE /\ c \in P /\ p \in S[t.kid["left"][c]]
               /\ \A k \in S[t.kid["left"][c]] \ S[p] : \A j \in S[p] : On(ar, "left", k, j)
      <4>1. t.kid["left"][c] \in NN
        BY <1>0, <3>6, NestedSides
      <4>2. S[p] \subseteq S[t.kid["left"][c]]
        BY <3>6, <4>1, Inside
      <4>3. ASSUME NEW k \in S[t.kid["left"][c]] \ S[i], NEW j \in S[i]
            PROVE  On(ar, "left", k, j)
        <5>1. CASE k \notin S[p]
          BY <3>4, <3>6, <5>1
        <5>2. CASE k \in S[p]
          <6>1. On(ar, "left", p, j)
            <7>1. On(ar, "right", j, p)
              BY <1>0, <2>3, <3>1 DEF Ordered
            <7> QED BY <1>0, <7>1, OnFlip
          <6>2. k = p \/ k \in S[t.kid["left"][p]]
            BY <3>4, <5>2
          <6>3. CASE k = p
            BY <6>1, <6>3
          <6>4. CASE k \in S[t.kid["left"][p]]
            <7>1. On(ar, "left", k, p)
              BY <1>0, <3>1, <6>4 DEF Ordered
            <7>2. k \in P /\ j \in P
              BY <3>4, <5>2
            <7> QED BY <1>0, <3>1, <6>1, <7>1, <7>2, OnTrans
          <6> QED BY <6>2, <6>3, <6>4
        <5> QED BY <5>1, <5>2
      <4>4. i \in S[t.kid["left"][c]]
        BY <2>0, <3>4, <4>2
      <4> QED BY <3>6, <4>3, <4>4 DEF Climbed
    <3> QED BY <3>3, <3>5, <3>6 DEF Climbed
  <2> QED BY <2>1, <2>2, <2>3
<1>2. P \subseteq Q
  <2> HIDE DEF Q
  <2> QED BY <1>1, UpInduction
<1> QED BY <1>2

\* The nodes that come after n.
After(t, S, P, n) ==
  {m \in P : \/ m \in S[t.kid["right"][n]]
             \/ n \in S[t.kid["left"][m]]
             \/ \E a \in P : n \in S[t.kid["left"][a]] /\ m \in S[t.kid["right"][a]]}

\* m is the first node after n, in the tree and by its area.
Follows(t, S, P, ar, n, m) ==
  /\ m \in P
  /\ m \in After(t, S, P, n)
  /\ After(t, S, P, m) \subseteq After(t, S, P, n)
  /\ On(ar, "left", n, m)
  /\ \A k \in P : k = n \/ k = m \/ On(ar, "left", k, n) \/ On(ar, "left", m, k)

LEMMA AfterNotSelf ==
  ASSUME NEW t, NEW S, NEW P, NEW ar, Shape(t, S, P, ar), NEW n \in P
  PROVE  n \notin After(t, S, P, n)
<1>1. P \subseteq Nodes
  BY DEF Shape, Linked
<1>2. \A a \in P : S[t.kid["left"][a]] \cap S[t.kid["right"][a]] = {}
                  /\ a \notin S[t.kid["left"][a]] /\ a \notin S[t.kid["right"][a]]
  BY <1>1 DEF Shape, Nested
<1> QED BY <1>2 DEF After

\* Subtrees are apart or one inside the other.
LEMMA Comparable ==
  ASSUME NEW t, NEW S, NEW P, NEW ar, Shape(t, S, P, ar), NEW i \in P, NEW j \in P,
         NEW m \in S[i], m \in S[j]
  PROVE  j \in S[i] \/ i \in S[j]
<1> USE DEF Shape
<1> DEFINE Q == {a \in P : m \in S[a] => j \in S[a] \/ a \in S[j]}
<1>0. P \subseteq Nodes
  BY DEF Linked
<1>1. ASSUME NEW a \in P, a # t.root => t.parent[a] \in Q
      PROVE  a \in Q
  <2> SUFFICES ASSUME m \in S[a], j \notin S[a]
               PROVE  a \in S[j]
    OBVIOUS
  <2> DEFINE p == t.parent[a]
  <2>1. a # t.root
    OBVIOUS
  <2>2. p \in P /\ p \in Q
    BY <1>1, <2>1 DEF Linked
  <2>3. PICK d \in Sides : t.kid[d][p] = a
    BY <2>1 DEF Linked
  <2>4. /\ S[p] = {p} \cup S[a] \cup S[t.kid[Other(d)][p]]
        /\ S[a] \cap S[t.kid[Other(d)][p]] = {}
        /\ t.kid[Other(d)][p] \in NN
    BY <1>0, <2>2, <2>3, NestedSides, SideFacts
  <2>5. a \in S[a] /\ a \in S[p] /\ m \in S[p]
    BY <1>0, <2>4 DEF Nested
  <2>6. CASE p \in S[j]
    BY <1>0, <2>5, <2>6, Inside DEF NN
  <2>7. CASE j \in S[p]
    <3>1. j = p \/ j \in S[t.kid[Other(d)][p]]
      BY <2>4, <2>7
    <3>2. CASE j = p
      BY <2>5, <3>2
    <3>3. CASE j \in S[t.kid[Other(d)][p]]
      <4>1. S[j] \subseteq S[t.kid[Other(d)][p]]
        BY <2>4, <3>3, Inside
      <4> QED BY <2>4, <4>1
    <3> QED BY <3>1, <3>2, <3>3
  <2> QED BY <2>2, <2>5, <2>6, <2>7
<1>2. P \subseteq Q
  <2> HIDE DEF Q
  <2> QED BY <1>1, UpInduction
<1> QED BY <1>2

LEMMA NextDown ==
  ASSUME NEW t, NEW S, NEW P, NEW ar, Shape(t, S, P, ar), AreasOK(ar, P), NEW n \in P,
         t.kid["right"][n] # NULL
  PROVE  Follows(t, S, P, ar, n, rb_next(t, n))
<1> USE DEF Shape
<1> DEFINE r == t.kid["right"][n]
           m == Outermost(t, r, "left")
<1>0. P \subseteq Nodes /\ "left" \in Sides /\ "right" \in Sides /\ Other("left") = "right"
      /\ Other("right") = "left"
  BY DEF Linked, Sides, Other
<1>1. rb_next(t, n) = m
  BY DEF rb_next
<1>2. r \in Nodes /\ r \in S[r]
  <2>1. r \in Nodes
    BY <1>0, NestedSides DEF NN
  <2> QED BY <2>1 DEF Nested
<1>3. S[n] = {n} \cup S[r] \cup S[t.kid["left"][n]] /\ S[n] \subseteq P
      /\ S[t.kid["left"][n]] \cap S[r] = {}
  <2>1. S[n] \subseteq P
    BY Inside DEF TreeType
  <2>2. S[n] = {n} \cup S[t.kid["left"][n]] \cup S[t.kid["right"][n]]
        /\ S[t.kid["left"][n]] \cap S[t.kid["right"][n]] = {}
    BY <1>0 DEF Nested
  <2> QED BY <2>1, <2>2
<1>4. m \in S[r] /\ t.kid["left"][m] = NULL /\ \A i \in S[r] : m \notin S[t.kid["right"][i]]
  BY <1>0, <1>2, OutermostIs
<1>5. m \in P /\ r \in P /\ m \in S[n]
  BY <1>2, <1>3, <1>4
<1> HIDE DEF m
<1>6. m \in After(t, S, P, n)
  BY <1>4, <1>5 DEF After
<1>7. On(ar, "left", n, m)
  <2>1. On(ar, "right", m, n)
    BY <1>0, <1>4 DEF Ordered
  <2> QED BY <1>0, <2>1, OnFlip
<1>8. ASSUME NEW a \in P, m \in S[t.kid["left"][a]]
      PROVE  a \in S[r] \/ n \in S[t.kid["left"][a]]
  <2>1. /\ S[a] = {a} \cup S[t.kid["left"][a]] \cup S[t.kid["right"][a]]
        /\ S[t.kid["left"][a]] \cap S[t.kid["right"][a]] = {}
        /\ t.kid["left"][a] \in NN /\ t.kid["right"][a] \in NN
    BY <1>0, NestedSides DEF Nested
  <2>2. a \in S[n] \/ n \in S[a]
    BY <1>5, <1>8, <2>1, Comparable
  <2>3. a # n
    BY <1>3, <1>4, <1>8
  <2>4. CASE a \in S[n]
    <3>1. a \notin S[t.kid["left"][n]]
      <4>1. t.kid["left"][n] \in NN
        BY <1>0, NestedSides
      <4>2. a \in S[t.kid["left"][n]] => m \in S[t.kid["left"][n]]
        BY <1>8, <2>1, <4>1, Inside
      <4> QED BY <1>3, <1>4, <4>2
    <3> QED BY <1>3, <2>3, <2>4, <3>1
  <2>5. CASE n \in S[a]
    <3>1. n \notin S[t.kid["right"][a]]
      <4>1. n \in S[t.kid["right"][a]] => m \in S[t.kid["right"][a]]
        BY <1>5, <2>1, Inside
      <4> QED BY <1>8, <2>1, <4>1
    <3> QED BY <2>1, <2>3, <2>5, <3>1
  <2> QED BY <2>2, <2>4, <2>5
<1>9. ASSUME NEW k \in After(t, S, P, m)
      PROVE  k \in After(t, S, P, n)
  <2>0. k \in P
    BY DEF After
  <2>1. ASSUME NEW i \in S[r]
        PROVE  S[t.kid["right"][i]] \subseteq S[r] /\ i \in S[r]
    <3>1. i \in Nodes /\ S[i] \subseteq S[r]
      BY <1>2, Inside DEF NN
    <3> QED BY <1>0, <3>1, NestedSides
  <2>2. CASE k \in S[t.kid["right"][m]]
    BY <1>4, <2>0, <2>1, <2>2 DEF After
  <2>3. CASE m \in S[t.kid["left"][k]]
    <3>1. k \in S[r] \/ n \in S[t.kid["left"][k]]
      BY <1>8, <2>0, <2>3
    <3> QED BY <2>0, <3>1 DEF After
  <2>4. CASE \E a \in P : m \in S[t.kid["left"][a]] /\ k \in S[t.kid["right"][a]]
    <3>1. PICK a \in P : m \in S[t.kid["left"][a]] /\ k \in S[t.kid["right"][a]]
      BY <2>4
    <3>2. a \in S[r] \/ n \in S[t.kid["left"][a]]
      BY <1>8, <3>1
    <3>3. k \in S[r] \/ (n \in S[t.kid["left"][a]] /\ k \in S[t.kid["right"][a]])
      BY <2>1, <3>1, <3>2
    <3> QED BY <2>0, <3>3 DEF After
  <2> QED BY <2>2, <2>3, <2>4 DEF After
<1>10. ASSUME NEW k \in P, k # n, k # m
       PROVE  On(ar, "left", k, n) \/ On(ar, "left", m, k)
  <2>1. CASE k \in S[r]
    <3>1. On(ar, "left", m, k)
      BY <1>0, <1>5, <1>10, <2>1, OutermostOrder DEF m
    <3> QED BY <3>1
  <2>2. CASE k \in S[t.kid["left"][n]]
    BY <1>0, <2>2 DEF Ordered
  <2>3. CASE k \notin S[n]
    <3>1. PICK d \in Sides : \A j \in S[n] : On(ar, d, k, j)
      BY <2>3, Apart
    <3>2. On(ar, d, k, n) /\ On(ar, d, k, m)
      BY <1>3, <1>5, <3>1
    <3> QED BY <3>2 DEF On, Sides
  <2> QED BY <1>3, <1>10, <2>1, <2>2, <2>3
<1> QED BY <1>1, <1>5, <1>6, <1>7, <1>9, <1>10 DEF Follows

LEMMA NextUp ==
  ASSUME NEW t, NEW S, NEW P, NEW ar, Shape(t, S, P, ar), AreasOK(ar, P), NEW n \in P,
         t.kid["right"][n] = NULL, n # rb_last(t)
  PROVE  Follows(t, S, P, ar, n, rb_next(t, n))
<1> USE DEF Shape
<1> DEFINE m == Climb(t, n)
           w == Outermost(t, t.root, "right")
<1>0. P \subseteq Nodes /\ "left" \in Sides /\ "right" \in Sides /\ Other("left") = "right"
      /\ Other("right") = "left"
  BY DEF Linked, Sides, Other
<1>1. rb_next(t, n) = m
  BY DEF rb_next
<1>2. S[n] = {n} \cup S[t.kid["left"][n]]
  BY <1>0 DEF Nested
<1>3. t.root \in Nodes /\ rb_last(t) = w
  <2>1. t.root # NULL
    BY DEF Nested
  <2> QED BY <2>1 DEF TreeType, NN, rb_last
<1>4. w \in P /\ Rightmost(t, S, P, w)
  BY <1>0, <1>3, OutermostIs DEF Rightmost
<1>5. Climbed(t, S, P, ar, n, m)
  BY ClimbIs
<1> HIDE DEF m, w
<1>6. m # NULL \/ w \notin P
  <2> SUFFICES ASSUME m = NULL
               PROVE  FALSE
    BY <1>4
  <2>1. w \in S[n]
    BY <1>0, <1>4, <1>5, TreeAssumption DEF Climbed
  <2>2. w \notin S[t.kid["left"][n]]
    BY <1>4 DEF Rightmost
  <2> QED BY <1>2, <1>3, <2>1, <2>2
<1>7. /\ m \in P /\ n \in S[t.kid["left"][m]]
      /\ \A k \in S[t.kid["left"][m]] \ S[n] : \A j \in S[n] : On(ar, "left", k, j)
  BY <1>4, <1>5, <1>6 DEF Climbed
<1>8. m \in After(t, S, P, n)
  BY <1>7 DEF After
<1>9. On(ar, "left", n, m)
  BY <1>0, <1>7 DEF Ordered
<1>10. /\ S[m] = {m} \cup S[t.kid["left"][m]] \cup S[t.kid["right"][m]]
       /\ t.kid["left"][m] \in NN
  BY <1>0, <1>7, NestedSides DEF Nested
<1>11. ASSUME NEW k \in After(t, S, P, m)
       PROVE  k \in After(t, S, P, n)
  <2>0. k \in P
    BY DEF After
  <2>1. ASSUME NEW a \in P, m \in S[t.kid["left"][a]]
        PROVE  n \in S[t.kid["left"][a]]
    <3>1. t.kid["left"][a] \in NN
      BY <1>0, NestedSides
    <3>2. S[m] \subseteq S[t.kid["left"][a]]
      BY <2>1, <3>1, Inside
    <3> QED BY <1>7, <1>10, <3>2
  <2>2. CASE k \in S[t.kid["right"][m]]
    BY <1>7, <2>0, <2>2 DEF After
  <2>3. CASE m \in S[t.kid["left"][k]]
    BY <2>0, <2>1, <2>3 DEF After
  <2>4. CASE \E a \in P : m \in S[t.kid["left"][a]] /\ k \in S[t.kid["right"][a]]
    BY <2>0, <2>1, <2>4 DEF After
  <2> QED BY <2>2, <2>3, <2>4 DEF After
<1>12. ASSUME NEW k \in P, k # n, k # m
       PROVE  On(ar, "left", k, n) \/ On(ar, "left", m, k)
  <2>1. CASE k \in S[n]
    BY <1>0, <1>2, <1>12, <2>1 DEF Ordered
  <2>2. CASE k \in S[t.kid["left"][m]] /\ k \notin S[n]
    BY <1>2, <1>7, <2>2
  <2>3. CASE k \in S[t.kid["right"][m]]
    <3>1. On(ar, "right", k, m)
      BY <1>0, <1>7, <2>3 DEF Ordered
    <3> QED BY <1>0, <3>1, OnFlip
  <2>4. CASE k \notin S[m]
    <3>1. PICK d \in Sides : \A j \in S[m] : On(ar, d, k, j)
      BY <1>7, <2>4, Apart
    <3>2. On(ar, d, k, n) /\ On(ar, d, k, m)
      BY <1>7, <1>10, <3>1
    <3> QED BY <3>2 DEF On, Sides
  <2> QED BY <1>10, <1>12, <2>1, <2>2, <2>3, <2>4
<1> QED BY <1>1, <1>7, <1>8, <1>9, <1>11, <1>12 DEF Follows

-----------------------------------------------------------------------------
(***************************************************************************)
(* Rotations.                                                              *)
(***************************************************************************)

\* One node of a nested tree, for the two sides in either order.
Wf(S, n, k, o) ==
  S[n] = {n} \cup S[k] \cup S[o] /\ n \notin S[k] /\ n \notin S[o] /\ S[k] \cap S[o] = {}

LEMMA NestedFrom ==
  ASSUME NEW t, NEW S, S \in [NN -> SUBSET Nodes], S[NULL] = {},
         \A n \in Nodes : \E d \in Sides : Wf(S, n, t.kid[d][n], t.kid[Other(d)][n])
  PROVE  Nested(t, S)
<1>1. ASSUME NEW n \in Nodes
      PROVE  Wf(S, n, t.kid["left"][n], t.kid["right"][n])
  <2>1. PICK d \in Sides : Wf(S, n, t.kid[d][n], t.kid[Other(d)][n])
    OBVIOUS
  <2>2. CASE d = "left"
    BY <2>1, <2>2 DEF Other
  <2>3. CASE d = "right"
    <3>1. Other(d) = "left"
      BY <2>3 DEF Other
    <3> QED BY <2>1, <2>3, <3>1 DEF Wf
  <2> QED BY <2>2, <2>3 DEF Sides
<1> QED BY <1>1 DEF Nested, Wf

LEMMA NestedWf ==
  ASSUME NEW t, NEW S, TreeType(t), Nested(t, S), NEW n \in Nodes, NEW d \in Sides
  PROVE  Wf(S, n, t.kid[d][n], t.kid[Other(d)][n])
BY NestedSides, SideFacts DEF Wf

\* Each node of the tree hangs on one link.
LEMMA OneLink ==
  ASSUME NEW t, NEW S, NEW P, NEW ar, Shape(t, S, P, ar), NEW x \in P
  PROVE  /\ x \in Nodes /\ x # NULL /\ x \in S[x] /\ S[x] \subseteq P
         /\ t.parent[x] = NULL <=> x = t.root
         /\ x # t.root => /\ t.parent[x] \in P /\ t.parent[x] # NULL
                          /\ t.parent[x] \notin S[x]
         /\ \A n \in Nodes : \A e \in Sides : t.kid[e][n] = x =>
              /\ n \in P /\ n = t.parent[x] /\ x # t.root
              /\ t.kid[Other(e)][n] # x
<1> USE DEF Shape
<1>0. P \subseteq Nodes
  BY DEF Linked
<1>1. x \in Nodes /\ x # NULL /\ x \in S[x] /\ S[x] \subseteq P
  <2>1. S[x] \subseteq P
    BY Inside DEF TreeType
  <2> QED BY <1>0, <2>1, TreeAssumption DEF Nested
<1>2. t.parent[x] = NULL <=> x = t.root
  BY <1>0, <1>1, TreeAssumption DEF Linked
<1>3. ASSUME NEW n \in Nodes, NEW e \in Sides, t.kid[e][n] = x
      PROVE  n \in P /\ n = t.parent[x] /\ x # t.root /\ t.kid[Other(e)][n] # x
  <2>1. n \in P
    BY <1>1, <1>3 DEF Linked
  <2>2. n = t.parent[x]
    BY <1>1, <1>3, <2>1 DEF Linked
  <2>3. n # NULL
    BY TreeAssumption
  <2>4. t.kid[Other(e)][n] # x
    BY <1>1, <1>3, NestedSides
  <2> QED BY <1>2, <2>1, <2>2, <2>3, <2>4
<1>4. ASSUME x # t.root
      PROVE  t.parent[x] \in P /\ t.parent[x] # NULL /\ t.parent[x] \notin S[x]
  <2>1. t.parent[x] \in P /\ t.parent[x] # NULL
    BY <1>0, <1>2, <1>4 DEF Linked
  <2>2. PICK e \in Sides : t.kid[e][t.parent[x]] = x
    BY <1>4 DEF Linked
  <2> QED BY <1>0, <2>1, <2>2, NestedSides
<1> QED BY <1>1, <1>2, <1>3, <1>4

\* Assignments to the fields of a tree.
T(r, k, p, c) == [root |-> r, kid |-> k, parent |-> p, red |-> c]

LEMMA FieldsOf ==
  ASSUME NEW r, NEW k, NEW p, NEW c
  PROVE  /\ T(r, k, p, c).root = r /\ T(r, k, p, c).kid = k
         /\ T(r, k, p, c).parent = p /\ T(r, k, p, c).red = c
         /\ \A v : [T(r, k, p, c) EXCEPT !.root = v] = T(v, k, p, c)
         /\ \A v : [T(r, k, p, c) EXCEPT !.parent = v] = T(r, k, v, c)
         /\ \A v : [T(r, k, p, c) EXCEPT !.red = v] = T(r, k, p, v)
         /\ \A v : [T(r, k, p, c) EXCEPT !.kid = v] = T(r, v, p, c)
BY DEF T

LEMMA TreeIs ==
  ASSUME NEW t, TreeType(t)
  PROVE  t = T(t.root, t.kid, t.parent, t.red)
BY DEF TreeType, T

\* What a rotation leaves in the fields.
Turned(t, u, x, d) ==
  LET y == t.kid[Other(d)][x]
      z == t.kid[d][y]
      p == t.parent[x]
  IN  /\ TreeType(u)
      /\ u.red = t.red
      /\ u.root = IF p = NULL THEN y ELSE t.root
      /\ \A n \in Nodes : u.parent[n] = IF n = x THEN y ELSE IF n = y THEN p
                                        ELSE IF n = z THEN x ELSE t.parent[n]
      /\ \A n \in Nodes : \A e \in Sides :
           u.kid[e][n] = IF n = x /\ e = Other(d) THEN z
                         ELSE IF n = y /\ e = d THEN x
                         ELSE IF t.kid[e][n] = x THEN y
                         ELSE t.kid[e][n]

LEMMA RotateFields ==
  ASSUME NEW t, NEW S, NEW P, NEW ar, Shape(t, S, P, ar), NEW x \in P, NEW d \in Sides,
         t.kid[Other(d)][x] # NULL
  PROVE  Turned(t, Rotate(t, x, d), x, d)
<1> USE DEF Shape
<1> DEFINE o == Other(d)
           y == t.kid[o][x]
           z == t.kid[d][y]
           p == t.parent[x]
           c == IF p = NULL THEN d ELSE IF x = t.kid[d][p] THEN d ELSE o
           k0 == IF p = NULL THEN t.kid ELSE [t.kid EXCEPT ![c][p] = y]
           k1 == [k0 EXCEPT ![o][x] = z]
           k2 == [k1 EXCEPT ![d][y] = x]
           r0 == IF p = NULL THEN y ELSE t.root
           q == [n \in Nodes |-> IF n = x THEN y ELSE IF n = y THEN p
                                 ELSE IF n = z THEN x ELSE t.parent[n]]
           u == [root |-> r0, kid |-> k2, parent |-> q, red |-> t.red]
<1>0. /\ o \in Sides /\ o # d /\ x \in Nodes /\ y \in Nodes /\ z \in NN /\ p \in NN /\ x \in NN
      /\ c \in Sides /\ t.kid \in [Sides -> [Nodes -> NN]] /\ t.parent \in [Nodes -> NN]
  <2>1. x \in Nodes /\ o \in Sides /\ o # d
    BY OneLink, SideFacts
  <2>2. t.kid \in [Sides -> [Nodes -> NN]] /\ t.parent \in [Nodes -> NN]
    BY DEF TreeType
  <2>3. y \in Nodes /\ x \in NN
    BY <2>1, <2>2 DEF NN
  <2> QED BY <2>1, <2>2, <2>3
<1>1. Rotate(t, x, d) = u
  <2> DEFINE up == IF p = NULL THEN [at |-> NULL, side |-> d]
                   ELSE [at |-> p, side |-> IF x = t.kid[d][p] THEN d ELSE o]
             s0 == Store(t, up, y)
  <2>1. t = T(t.root, t.kid, t.parent, t.red)
    BY TreeIs
  <2>2. s0 = T(r0, k0, t.parent, t.red)
    <3>1. CASE p = NULL
      <4>1. s0 = [t EXCEPT !.root = y]
        BY <3>1 DEF Store
      <4>2. [T(t.root, t.kid, t.parent, t.red) EXCEPT !.root = y] = T(y, t.kid, t.parent, t.red)
        BY FieldsOf
      <4> QED BY <2>1, <3>1, <4>1, <4>2
    <3>2. CASE p # NULL
      <4>1. up.at = p /\ up.side = c
        BY <3>2
      <4> HIDE DEF up, c
      <4>2. s0 = [t EXCEPT !.kid[c][p] = y]
        BY <3>2, <4>1 DEF Store
      <4>3. [T(t.root, t.kid, t.parent, t.red) EXCEPT !.kid[c][p] = y]
              = T(t.root, [t.kid EXCEPT ![c][p] = y], t.parent, t.red)
        BY DEF T
      <4>4. k0 = [t.kid EXCEPT ![c][p] = y] /\ r0 = t.root
        BY <3>2
      <4> QED BY <2>1, <4>2, <4>3, <4>4
    <3> QED BY <3>1, <3>2
  <2>3. Rotate(t, x, d) = [s0 EXCEPT !.kid[o][x] = z, !.kid[d][y] = x, !.parent = q]
    <3> HIDE DEF Shape
    <3> QED BY DEF Rotate
  <2> HIDE DEF s0, up, k0, r0, q, y, z, p, o
  <2>4. [s0 EXCEPT !.kid[o][x] = z] = T(r0, k1, t.parent, t.red)
    BY <2>2 DEF k1, T
  <2> HIDE DEF k1
  <2>5. [T(r0, k1, t.parent, t.red) EXCEPT !.kid[d][y] = x] = T(r0, k2, t.parent, t.red)
    BY DEF k2, T
  <2> HIDE DEF k2
  <2>6. [T(r0, k2, t.parent, t.red) EXCEPT !.parent = q] = T(r0, k2, q, t.red)
    BY FieldsOf
  <2>7. T(r0, k2, q, t.red) = u
    BY DEF T
  <2> QED BY <2>3, <2>4, <2>5, <2>6, <2>7
<1>2. k0 \in [Sides -> [Nodes -> NN]] /\ k1 \in [Sides -> [Nodes -> NN]] /\ k2 \in [Sides -> [Nodes -> NN]]
  <2>1. k0 \in [Sides -> [Nodes -> NN]]
    BY <1>0 DEF NN
  <2> HIDE DEF k0
  <2>2. k1 \in [Sides -> [Nodes -> NN]]
    BY <1>0, <2>1
  <2> HIDE DEF k1
  <2>3. k2 \in [Sides -> [Nodes -> NN]]
    BY <1>0, <2>2
  <2> QED BY <2>1, <2>2, <2>3
<1>3. ASSUME NEW n \in Nodes, NEW e \in Sides
      PROVE  k0[e][n] = IF t.kid[e][n] = x THEN y ELSE t.kid[e][n]
  <2>1. CASE p = NULL
    <3>1. t.kid[e][n] # x
      BY <2>1, OneLink, TreeAssumption
    <3> QED BY <2>1, <3>1
  <2>2. CASE p # NULL
    <3>1. t.kid[e][n] = x <=> n = p /\ e = c
      <4>1. t.kid[e][n] = x => n = p /\ t.kid[Other(e)][n] # x
        <5> HIDE DEF Shape, c, k0, k1, k2, r0, q, u, y, z, o
        <5> QED BY OneLink
      <4>2. PICK b \in Sides : t.kid[b][p] = x
        <5>0. t.parent[x] = NULL <=> x = t.root
          BY OneLink
        <5>1. x # t.root
          BY <2>2, <5>0
        <5> QED BY <5>1 DEF Linked
      <4>3. p \in Nodes
        BY <1>0, <2>2 DEF NN
      <4>4. t.kid[Other(b)][p] # x
        BY <4>2, <4>3, OneLink
      <4>5. b = d \/ b = o
        BY SideFacts
      <4>6. c = b
        <5>1. CASE b = d
          BY <2>2, <4>2, <5>1
        <5>2. CASE b = o
          <6>1. Other(b) = d
            BY <5>2, SideFacts
          <6> QED BY <2>2, <4>4, <5>2, <6>1
        <5> QED BY <4>5, <5>1, <5>2
      <4>7. e = b \/ e = Other(b)
        BY SideFacts
      <4> HIDE DEF c, p
      <4> QED BY <4>1, <4>2, <4>4, <4>6, <4>7
    <3>2. k0 = [t.kid EXCEPT ![c][p] = y]
      BY <2>2
    <3> HIDE DEF k0, c, y, p
    <3>3. k0[e][n] = IF n = p /\ e = c THEN y ELSE t.kid[e][n]
      BY <1>0, <3>2
    <3> QED BY <3>1, <3>3
  <2> QED BY <2>1, <2>2
<1>4. \A n \in Nodes : \A e \in Sides : k1[e][n] = IF n = x /\ e = o THEN z ELSE k0[e][n]
  <2> HIDE DEF k0
  <2> QED BY <1>0, <1>2
<1>5. \A n \in Nodes : \A e \in Sides : k2[e][n] = IF n = y /\ e = d THEN x ELSE k1[e][n]
  <2> HIDE DEF k1
  <2> QED BY <1>0, <1>2
<1> HIDE DEF k0, k1, k2
<1>6. \A n \in Nodes : \A e \in Sides :
        k2[e][n] = IF n = x /\ e = o THEN z ELSE IF n = y /\ e = d THEN x
                   ELSE IF t.kid[e][n] = x THEN y ELSE t.kid[e][n]
  BY <1>0, <1>3, <1>4, <1>5
<1>7. TreeType(u)
  <2>1. q \in [Nodes -> NN] /\ r0 \in NN /\ t.red \in [Nodes -> BOOLEAN]
    BY <1>0 DEF NN, TreeType
  <2> HIDE DEF q, r0
  <2> QED BY <1>2, <2>1 DEF TreeType
<1> QED BY <1>1, <1>6, <1>7 DEF Turned

\* The nodes below each node after a rotation.
TurnedS(t, S, x, d) ==
  LET y == t.kid[Other(d)][x]
  IN  [n \in NN |-> IF n = y THEN S[x]
                    ELSE IF n = x THEN {x} \cup S[t.kid[d][x]] \cup S[t.kid[d][y]]
                    ELSE S[n]]

LEMMA TurnedShape ==
  ASSUME NEW t, NEW S, NEW P, NEW ar, Shape(t, S, P, ar), AreasOK(ar, P), NEW x \in P,
         NEW d \in Sides, t.kid[Other(d)][x] # NULL, NEW u, Turned(t, u, x, d)
  PROVE  Shape(u, TurnedS(t, S, x, d), P, ar)
<1> USE DEF Shape
<1> DEFINE o == Other(d)
           y == t.kid[o][x]
           z == t.kid[d][y]
           a == t.kid[d][x]
           b == t.kid[o][y]
           p == t.parent[x]
           R == TurnedS(t, S, x, d)
<1>0. o \in Sides /\ o # d /\ Other(o) = d /\ \A e \in Sides : e = d \/ e = o
  BY SideFacts
<1>1. /\ x \in Nodes /\ x # NULL /\ x \in S[x] /\ S[x] \subseteq P /\ P \subseteq Nodes
      /\ a \in NN /\ y \in Nodes /\ y \in NN /\ z \in NN /\ b \in NN /\ x \in NN
  <2>0. x \in Nodes /\ x # NULL /\ x \in S[x] /\ S[x] \subseteq P
    <3> HIDE DEF Shape
    <3> QED BY OneLink
  <2>1. x \in Nodes /\ x # NULL /\ x \in S[x] /\ S[x] \subseteq P /\ P \subseteq Nodes /\ x \in NN
    BY <2>0 DEF Linked, NN
  <2>2. a \in NN /\ y \in NN
    BY <1>0, <2>1, NestedSides
  <2>3. y \in Nodes
    BY <2>2 DEF NN
  <2> QED BY <1>0, <2>1, <2>2, <2>3, NestedSides
<1>2. Wf(S, x, a, y) /\ Wf(S, y, z, b) /\ y \in S[y] /\ y # NULL
  <2>1. Wf(S, x, a, y)
    BY <1>1, NestedWf
  <2>2. Wf(S, y, z, b)
    BY <1>1, NestedWf
  <2> QED BY <1>1, <2>1, <2>2, TreeAssumption DEF Wf
<1>3. y \in P /\ x # y /\ t.parent[y] = x /\ y # t.root
  <2>1. y \in P /\ x # y
    BY <1>1, <1>2 DEF Wf
  <2> QED BY <1>0, <1>1, <2>1, OneLink
<1>4. z # NULL => z \in S[z] /\ z \in P /\ z # x /\ z # y /\ t.parent[z] = y
  <2> SUFFICES ASSUME z # NULL
               PROVE  z \in S[z] /\ z \in P /\ z # x /\ z # y /\ t.parent[z] = y
    OBVIOUS
  <2>1. z \in Nodes
    BY <1>1 DEF NN
  <2>2. z \in S[z]
    BY <2>1 DEF Nested
  <2>3. z \in P /\ z # x /\ z # y
    BY <1>1, <1>2, <2>2 DEF Wf
  <2>4. t.parent[z] = y
    BY <1>1, <2>3, OneLink
  <2> QED BY <2>2, <2>3, <2>4
<1>5. a # NULL => a \in S[a] /\ a # x /\ a # y
  <2> SUFFICES ASSUME a # NULL
               PROVE  a \in S[a] /\ a # x /\ a # y
    OBVIOUS
  <2>0. a \in Nodes
    BY <1>1 DEF NN
  <2>1. a \in S[a]
    BY <2>0 DEF Nested
  <2> QED BY <1>2, <2>1 DEF Wf
<1>6. b # NULL => b # x /\ b # y
  <2> SUFFICES ASSUME b # NULL
               PROVE  b # x /\ b # y
    OBVIOUS
  <2>0. b \in Nodes
    BY <1>1 DEF NN
  <2>1. b \in S[b]
    BY <2>0 DEF Nested
  <2> QED BY <1>2, <2>1 DEF Wf
<1>7. /\ R[y] = S[x] /\ R[x] = {x} \cup S[a] \cup S[z] /\ R[NULL] = {}
      /\ \A n \in NN : n # x /\ n # y => R[n] = S[n]
      /\ R \in [NN -> SUBSET Nodes]
  <2>1. \A n \in NN : S[n] \subseteq Nodes
    BY DEF Nested
  <2>2. /\ \A n \in NN : R[n] = IF n = y THEN S[x] ELSE IF n = x THEN {x} \cup S[a] \cup S[z] ELSE S[n]
        /\ DOMAIN R = NN /\ R = [n \in NN |-> R[n]]
    BY DEF TurnedS
  <2> HIDE DEF R, a, z
  <2>3. R[y] = S[x] /\ R[x] = {x} \cup S[a] \cup S[z] /\ R[NULL] = S[NULL]
    BY <1>1, <1>2, <1>3, <2>2 DEF NN
  <2>4. \A n \in NN : R[n] \subseteq Nodes
    BY <1>1, <2>1, <2>2
  <2>5. R \in [NN -> SUBSET Nodes]
    BY <2>2, <2>4
  <2> QED BY <2>2, <2>3, <2>5 DEF Nested
<1> HIDE DEF R
<1>8. /\ TreeType(u)
      /\ u.root = IF p = NULL THEN y ELSE t.root
      /\ \A n \in Nodes : u.parent[n] = IF n = x THEN y ELSE IF n = y THEN p
                                        ELSE IF n = z THEN x ELSE t.parent[n]
      /\ \A n \in Nodes : \A e \in Sides :
           u.kid[e][n] = IF n = x /\ e = o THEN z
                         ELSE IF n = y /\ e = d THEN x
                         ELSE IF t.kid[e][n] = x THEN y
                         ELSE t.kid[e][n]
  BY DEF Turned
<1>9. u.kid[d][x] = a /\ u.kid[o][x] = z /\ u.kid[d][y] = x /\ u.kid[o][y] = b
  <2>1. a # x /\ b # x
    BY <1>1, <1>5, <1>6
  <2> QED BY <1>0, <1>1, <1>3, <1>8, <2>1
<1>10. R[a] = S[a] /\ R[z] = S[z] /\ R[b] = S[b]
  BY <1>1, <1>2, <1>4, <1>5, <1>6, <1>7
<1>11. \A n \in Nodes : \A e \in Sides : t.kid[e][n] = x => n \in P /\ n = p /\ x # t.root
                                                         /\ t.kid[Other(e)][n] # x
  BY OneLink
<1>12. \A n \in Nodes : \A e \in Sides : t.kid[e][n] = y => n = x
  <2> HIDE DEF y
  <2>0. y \in P
    BY <1>3
  <2>1. \A n \in Nodes : \A e \in Sides : t.kid[e][n] = y => n = t.parent[y]
    <3> HIDE DEF Shape
    <3> QED BY <2>0, OneLink
  <2> QED BY <1>3, <2>1
<1>13. \A n \in Nodes : \A e \in Sides : n # x /\ n # y =>
         R[u.kid[e][n]] = S[t.kid[e][n]] /\ u.kid[e][n] # x
  <2> TAKE n \in Nodes
  <2> TAKE e \in Sides
  <2> HAVE n # x /\ n # y
  <2>1. t.kid[e][n] # y /\ t.kid[e][n] \in NN
    BY <1>12, NestedSides
  <2>2. u.kid[e][n] = IF t.kid[e][n] = x THEN y ELSE t.kid[e][n]
    BY <1>8
  <2> HIDE DEF y
  <2> QED BY <1>3, <1>7, <2>1, <2>2
<1>14. Nested(u, R)
  <2>1. ASSUME NEW n \in Nodes
        PROVE  Wf(R, n, u.kid[d][n], u.kid[o][n])
    <3>1. CASE n = x
      <4>1. R[x] = {x} \cup R[a] \cup R[z] /\ x \notin R[a] /\ x \notin R[z] /\ R[a] \cap R[z] = {}
        BY <1>2, <1>7, <1>10 DEF Wf
      <4> QED BY <1>9, <3>1, <4>1 DEF Wf
    <3>2. CASE n = y
      <4>0. /\ S[x] = {x} \cup S[a] \cup S[y] /\ S[y] = {y} \cup S[z] \cup S[b]
            /\ R[y] = S[x] /\ R[x] = {x} \cup S[a] \cup S[z] /\ R[b] = S[b]
        BY <1>2, <1>7, <1>10 DEF Wf
      <4>a. /\ x \notin S[y] /\ S[a] \cap S[y] = {} /\ y \notin S[z] /\ y \notin S[b]
            /\ S[z] \cap S[b] = {} /\ y \in S[y] /\ x # y
        BY <1>2, <1>3 DEF Wf
      <4> HIDE DEF a, b, y, z
      <4>b. R[y] = {y} \cup R[x] \cup R[b]
        BY <4>0
      <4>c. y \notin R[x] /\ y \notin R[b]
        BY <4>0, <4>a
      <4>d. R[x] \cap R[b] = {}
        BY <4>0, <4>a
      <4>1. R[y] = {y} \cup R[x] \cup R[b] /\ y \notin R[x] /\ y \notin R[b] /\ R[x] \cap R[b] = {}
        BY <4>b, <4>c, <4>d
      <4> QED BY <1>9, <3>2, <4>1 DEF Wf
    <3>3. CASE n # x /\ n # y
      <4>1. R[u.kid[d][n]] = S[t.kid[d][n]] /\ R[u.kid[o][n]] = S[t.kid[o][n]]
        BY <1>0, <1>13, <3>3
      <4>2. R[n] = S[n]
        BY <1>7, <3>3 DEF NN
      <4>3. Wf(S, n, t.kid[d][n], t.kid[o][n])
        BY NestedWf
      <4> QED BY <4>1, <4>2, <4>3 DEF Wf
    <3> QED BY <3>1, <3>2, <3>3
  <2> QED BY <1>7, <2>1, NestedFrom
<1>15. R[u.root] = P
  <2>0. p = NULL <=> x = t.root
    BY OneLink
  <2>1. CASE p = NULL
    BY <1>7, <1>8, <2>0, <2>1
  <2>2. CASE p # NULL
    BY <1>3, <1>7, <1>8, <2>0, <2>2 DEF TreeType
  <2> QED BY <2>1, <2>2
<1>16. Ordered(u, R, P, ar)
  <2> SUFFICES ASSUME NEW n \in P, NEW e \in Sides, NEW m \in R[u.kid[e][n]]
               PROVE  On(ar, e, m, n)
    BY DEF Ordered
  <2>1. CASE n # x /\ n # y
    BY <1>1, <1>13, <2>1 DEF Ordered
  <2>2. CASE n = x
    <3>1. CASE e = d
      BY <1>9, <1>10, <2>2, <3>1 DEF Ordered
    <3>2. CASE e = o
      <4>1. m \in S[z]
        BY <1>9, <1>10, <2>2, <3>2
      <4>2. m \in S[y]
        BY <1>2, <4>1 DEF Wf
      <4> QED BY <1>0, <2>2, <3>2, <4>2 DEF Ordered
    <3> QED BY <1>0, <3>1, <3>2
  <2>3. CASE n = y
    <3>1. CASE e = d
      <4>1. m \in {x} \cup S[a] \cup S[z] /\ m \in P
        BY <1>1, <1>2, <1>7, <1>9, <2>3, <3>1 DEF Wf
      <4>2. On(ar, d, x, y)
        <5>1. On(ar, o, y, x)
          BY <1>0, <1>2 DEF Ordered
        <5> QED BY <1>0, <5>1, OnFlip
      <4>3. CASE m \in S[a]
        <5>1. On(ar, d, m, x)
          BY <4>3 DEF Ordered
        <5> HIDE DEF y
        <5> QED BY <1>1, <1>3, <2>3, <3>1, <4>1, <4>2, <5>1, OnTrans
      <4>4. CASE m \in S[z]
        BY <1>3, <2>3, <3>1, <4>4 DEF Ordered
      <4> QED BY <2>3, <3>1, <4>1, <4>2, <4>3, <4>4
    <3>2. CASE e = o
      BY <1>3, <1>0, <1>9, <1>10, <2>3, <3>2 DEF Ordered
    <3> QED BY <1>0, <3>1, <3>2
  <2> QED BY <2>1, <2>2, <2>3
<1>17. Linked(u, P)
  <2>0. /\ t.root # NULL => t.parent[t.root] = NULL
        /\ p = NULL <=> x = t.root
        /\ p # NULL => p \in P /\ p # x /\ p # y
    <3>1. x # t.root => p \in P /\ p # NULL /\ p \notin S[x]
      BY OneLink
    <3>2. p = NULL <=> x = t.root
      BY OneLink
    <3>3. y \in S[x]
      BY <1>2 DEF Wf
    <3> QED BY <1>1, <3>1, <3>2, <3>3 DEF Linked
  <2>1. u.root # NULL => u.parent[u.root] = NULL
    <3>1. CASE p = NULL
      BY <1>1, <1>3, <1>8, <3>1
    <3>2. CASE p # NULL
      <4>1. u.root = t.root /\ t.root # x /\ t.root # y
        BY <1>3, <1>8, <2>0, <3>2
      <4>2. t.root # NULL => t.root # z /\ t.root \in Nodes
        BY <1>2, <1>4, <2>0 DEF TreeType, NN
      <4> HIDE DEF y, z, p
      <4> QED BY <1>8, <2>0, <4>1, <4>2
    <3> QED BY <3>1, <3>2
  <2>2. ASSUME NEW n \in P, NEW e \in Sides, u.kid[e][n] # NULL
        PROVE  u.parent[u.kid[e][n]] = n
    <3>0. \A k \in Nodes : \A c \in Sides : t.kid[c][n] = k => t.parent[k] = n
      BY TreeAssumption DEF Linked
    <3>1. CASE n = x
      <4>1. CASE e = o
        BY <1>1, <1>4, <1>8, <1>9, <2>2, <3>1, <4>1
      <4>2. CASE e = d
        <5>1. a # NULL /\ a \in Nodes /\ a # x /\ a # y /\ t.parent[a] = x
          BY <1>1, <1>5, <1>9, <2>2, <3>0, <3>1, <4>2 DEF NN
        <5>2. a # z
          BY <1>3, <1>4, <5>1
        <5> HIDE DEF a, z, y
        <5> QED BY <1>8, <1>9, <3>1, <4>2, <5>1, <5>2
      <4> QED BY <1>0, <4>1, <4>2
    <3>2. CASE n = y
      <4>1. CASE e = d
        BY <1>1, <1>8, <1>9, <3>2, <4>1
      <4>2. CASE e = o
        <5>1. b # NULL /\ b \in Nodes /\ b # x /\ b # y /\ t.parent[b] = y
          BY <1>0, <1>1, <1>6, <1>9, <2>2, <3>0, <3>2, <4>2 DEF NN
        <5>2. b # z
          <6>1. b \in S[b]
            BY <5>1 DEF Nested
          <6>2. S[z] \cap S[b] = {}
            BY <1>2 DEF Wf
          <6> QED BY <6>1, <6>2
        <5> HIDE DEF b, z, y
        <5> QED BY <1>8, <1>9, <3>2, <4>2, <5>1, <5>2
      <4> QED BY <1>0, <4>1, <4>2
    <3>3. CASE n # x /\ n # y
      <4>1. u.kid[e][n] = IF t.kid[e][n] = x THEN y ELSE t.kid[e][n]
        BY <1>1, <1>8, <3>3
      <4>2. CASE t.kid[e][n] = x
        <5>1. n = p
          BY <1>1, <1>11, <4>2
        <5> HIDE DEF p
        <5> QED BY <1>1, <1>3, <1>8, <4>1, <4>2, <5>1
      <4>3. CASE t.kid[e][n] # x
        <5> DEFINE k == t.kid[e][n]
        <5>1. u.kid[e][n] = k /\ k # NULL /\ k \in Nodes /\ k # y /\ t.parent[k] = n
          BY <1>1, <1>12, <2>2, <3>0, <3>3, <4>1, <4>3, NestedSides DEF NN
        <5>2. k # z
          BY <1>4, <3>3, <5>1
        <5> HIDE DEF k, y, z, p
        <5>3. k # x
          BY <4>3 DEF k
        <5> QED BY <1>8, <5>1, <5>2, <5>3
      <4> QED BY <4>2, <4>3
    <3> QED BY <3>1, <3>2, <3>3
  <2>3. ASSUME NEW n \in P, n # u.root
        PROVE  u.parent[n] \in P /\ \E e \in Sides : u.kid[e][u.parent[n]] = n
    <3>1. CASE n = x
      BY <1>1, <1>3, <1>8, <1>9, <3>1
    <3>2. CASE n = y
      <4>1. u.parent[n] = p /\ p # NULL /\ p \in P /\ p # x /\ p # y
        BY <1>1, <1>3, <1>8, <2>0, <2>3, <3>2
      <4>2. PICK c \in Sides : t.kid[c][p] = x
        BY <2>0, <4>1 DEF Linked
      <4>3. u.kid[c][p] = y
        <5> HIDE DEF p, y, z
        <5> QED BY <1>1, <1>8, <4>1, <4>2
      <4> QED BY <3>2, <4>1, <4>3
    <3>3. CASE n = z /\ n # x /\ n # y
      <4>1. u.parent[n] = x
        BY <1>1, <1>8, <3>3
      <4> QED BY <1>0, <1>9, <3>3, <4>1
    <3>4. CASE n # x /\ n # y /\ n # z
      <4>1. u.parent[n] = t.parent[n]
        BY <1>1, <1>8, <3>4
      <4>2. n # t.root
        BY <1>8, <2>0, <2>3, <3>4
      <4>3. t.parent[n] \in P
        BY <4>2 DEF Linked
      <4>4. PICK e \in Sides : t.kid[e][t.parent[n]] = n
        BY <4>2 DEF Linked
      <4>5. u.kid[e][t.parent[n]] = n
        <5>1. ~(t.parent[n] = x /\ e = o)
          BY <3>4, <4>4
        <5>2. ~(t.parent[n] = y /\ e = d)
          BY <3>4, <4>4
        <5> HIDE DEF y, z, p
        <5> QED BY <1>1, <1>8, <3>4, <4>3, <4>4, <5>1, <5>2
      <4> QED BY <4>1, <4>3, <4>5
    <3> QED BY <3>1, <3>2, <3>3, <3>4
  <2>4. ASSUME NEW n \in Nodes \ P
        PROVE  u.parent[n] = NULL /\ \A e \in Sides : u.kid[e][n] = NULL
    <3>1. t.parent[n] = NULL /\ \A e \in Sides : t.kid[e][n] = NULL
      BY DEF Linked
    <3>2. n # x /\ n # y /\ n # z
      BY <1>1, <1>3, <1>4, TreeAssumption
    <3> HIDE DEF y, z, p
    <3> QED BY <1>1, <1>8, <3>1, <3>2
  <2> QED BY <1>1, <2>1, <2>2, <2>3, <2>4 DEF Linked
<1> QED BY <1>8, <1>14, <1>15, <1>16, <1>17 DEF R

LEMMA RotateShape ==
  ASSUME NEW t, NEW S, NEW P, NEW ar, Shape(t, S, P, ar), AreasOK(ar, P), NEW x \in P,
         NEW d \in Sides, t.kid[Other(d)][x] # NULL
  PROVE  /\ Turned(t, Rotate(t, x, d), x, d)
         /\ Shape(Rotate(t, x, d), TurnedS(t, S, x, d), P, ar)
<1>1. Turned(t, Rotate(t, x, d), x, d)
  BY RotateFields
<1> QED BY <1>1, TurnedShape

-----------------------------------------------------------------------------
(***************************************************************************)
(* Colours.                                                                *)
(***************************************************************************)

\* A red root, or a red child of a red node, is x.
Reds(t, P, x) == \A k \in P : t.red[k] /\ (k = t.root \/ t.red[t.parent[k]]) => k = x

Sound(t, S, H, P, ar, x) == Shape(t, S, P, ar) /\ Heights(t, H) /\ Reds(t, P, x)

Good(t, P, ar, x) == \E S, H : Sound(t, S, H, P, ar, x)

\* The links of u are those of t.
SameLinks(t, u) == TreeType(u) /\ u.root = t.root /\ u.kid = t.kid /\ u.parent = t.parent

LEMMA SameShape ==
  ASSUME NEW t, NEW S, NEW P, NEW ar, Shape(t, S, P, ar), NEW u, SameLinks(t, u)
  PROVE  Shape(u, S, P, ar)
<1>1. Nested(u, S)
  BY DEF Shape, SameLinks, Nested
<1>2. Linked(u, P)
  BY DEF Shape, SameLinks, Linked
<1>3. Ordered(u, S, P, ar)
  BY DEF Shape, SameLinks, Ordered
<1> QED BY <1>1, <1>2, <1>3 DEF Shape, SameLinks

Black(t, n) == [t EXCEPT !.red[n] = FALSE]

Red(t, n) == [t EXCEPT !.red[n] = TRUE]

LEMMA PaintBlack ==
  ASSUME NEW t, TreeType(t), NEW n
  PROVE  /\ SameLinks(t, Black(t, n))
         /\ \A m \in Nodes : Black(t, n).red[m] <=> m # n /\ t.red[m]
<1> DEFINE c == [t.red EXCEPT ![n] = FALSE]
           u == T(t.root, t.kid, t.parent, c)
<1>1. Black(t, n) = u
  <2>1. t = T(t.root, t.kid, t.parent, t.red)
    BY TreeIs
  <2>2. ASSUME NEW b
        PROVE  [T(t.root, t.kid, t.parent, t.red) EXCEPT !.red[n] = b]
                 = T(t.root, t.kid, t.parent, [t.red EXCEPT ![n] = b])
    BY DEF T
  <2> QED BY <2>1, <2>2 DEF Black
<1>2. t.red \in [Nodes -> BOOLEAN]
  BY DEF TreeType
<1>3. c \in [Nodes -> BOOLEAN] /\ \A m \in Nodes : c[m] <=> m # n /\ t.red[m]
  BY <1>2
<1> HIDE DEF c
<1>4. TreeType(u) /\ u.root = t.root /\ u.kid = t.kid /\ u.parent = t.parent /\ u.red = c
  BY <1>3 DEF TreeType, T
<1> HIDE DEF u
<1> QED BY <1>1, <1>3, <1>4 DEF SameLinks

LEMMA PaintRed ==
  ASSUME NEW t, TreeType(t), NEW n
  PROVE  /\ SameLinks(t, Red(t, n))
         /\ \A m \in Nodes : Red(t, n).red[m] <=> m = n \/ t.red[m]
<1> DEFINE c == [t.red EXCEPT ![n] = TRUE]
           u == T(t.root, t.kid, t.parent, c)
<1>1. Red(t, n) = u
  <2>1. t = T(t.root, t.kid, t.parent, t.red)
    BY TreeIs
  <2>2. ASSUME NEW b
        PROVE  [T(t.root, t.kid, t.parent, t.red) EXCEPT !.red[n] = b]
                 = T(t.root, t.kid, t.parent, [t.red EXCEPT ![n] = b])
    BY DEF T
  <2> QED BY <2>1, <2>2 DEF Red
<1>2. t.red \in [Nodes -> BOOLEAN]
  BY DEF TreeType
<1>3. c \in [Nodes -> BOOLEAN] /\ \A m \in Nodes : c[m] <=> m = n \/ t.red[m]
  BY <1>2
<1> HIDE DEF c
<1>4. TreeType(u) /\ u.root = t.root /\ u.kid = t.kid /\ u.parent = t.parent /\ u.red = c
  BY <1>3 DEF TreeType, T
<1> HIDE DEF u
<1> QED BY <1>1, <1>3, <1>4 DEF SameLinks

\* One node of a tree that is black-balanced: k and o are its children.
Level(H, r, n, k, o) == H[k] = H[o] /\ (r => H[n] = H[k]) /\ (~r => H[n] = H[k] + 1)

LEMMA HeightSides ==
  ASSUME NEW t, TreeType(t), NEW H, Heights(t, H), NEW n \in Nodes, NEW d \in Sides
  PROVE  Level(H, t.red[n], n, t.kid[d][n], t.kid[Other(d)][n])
<1>1. d = "left" \/ d = "right"
  BY DEF Sides
<1>2. Other("left") = "right" /\ Other("right") = "left"
  BY DEF Other
<1>3. /\ H[t.kid["left"][n]] = H[t.kid["right"][n]]
      /\ H[n] = H[t.kid["left"][n]] + (IF t.red[n] THEN 0 ELSE 1)
      /\ H \in [NN -> Nat \ {0}] /\ t.kid["left"][n] \in NN
  BY DEF Heights, TreeType, Sides
<1>4. H[t.kid["left"][n]] \in Nat
  BY <1>3
<1> QED BY <1>1, <1>2, <1>3, <1>4 DEF Level

LEMMA HeightsFrom ==
  ASSUME NEW t, TreeType(t), NEW H \in [NN -> Nat \ {0}], H[NULL] = 1,
         \A n \in Nodes : \E d \in Sides :
           Level(H, t.red[n], n, t.kid[d][n], t.kid[Other(d)][n])
  PROVE  Heights(t, H)
<1> SUFFICES ASSUME NEW n \in Nodes
             PROVE  /\ H[t.kid["left"][n]] = H[t.kid["right"][n]]
                    /\ H[n] = H[t.kid["left"][n]] + (IF t.red[n] THEN 0 ELSE 1)
  BY DEF Heights
<1>1. PICK d \in Sides : Level(H, t.red[n], n, t.kid[d][n], t.kid[Other(d)][n])
  OBVIOUS
<1>2. d = "left" \/ d = "right"
  BY DEF Sides
<1>3. Other("left") = "right" /\ Other("right") = "left"
  BY DEF Other
<1>4. t.red[n] \in BOOLEAN /\ t.kid["left"][n] \in NN
  BY DEF TreeType, Sides
<1>5. H[t.kid["left"][n]] \in Nat
  BY <1>4
<1> QED BY <1>1, <1>2, <1>3, <1>4, <1>5 DEF Level

\* The node above a red child of a red node is black, and in the tree.
LEMMA Grand ==
  ASSUME NEW t, NEW S, NEW H, NEW P, NEW ar, NEW x \in P, Sound(t, S, H, P, ar, x), t.red[x],
         x # t.root, NEW p, p = t.parent[x], t.red[p], NEW g, g = t.parent[p]
  PROVE  /\ p \in P /\ p # x /\ p # t.root /\ p \notin S[x]
         /\ g \in P /\ g # p /\ g # x /\ ~t.red[g] /\ g \notin S[p]
         /\ \E d \in Sides : t.kid[d][p] = x
         /\ \E d \in Sides : t.kid[d][g] = p
<1>1. p \in P /\ p # NULL /\ p \notin S[x] /\ x \in S[x]
  BY OneLink DEF Sound
<1>2. p # x
  BY <1>1
<1>3. p # t.root
  BY <1>1, <1>2 DEF Sound, Reds
<1>4. g \in P /\ g # NULL /\ g \notin S[p] /\ p \in S[p]
  BY <1>1, <1>3, OneLink DEF Sound
<1>5. ~t.red[g]
  BY <1>1, <1>2 DEF Sound, Reds
<1>6. (\E d \in Sides : t.kid[d][p] = x) /\ \E d \in Sides : t.kid[d][g] = p
  BY <1>1, <1>3 DEF Sound, Shape, Linked
<1>7. x \in S[p]
  <2>1. PICK d \in Sides : t.kid[d][p] = x
    BY <1>6
  <2>2. p \in Nodes
    BY <1>1 DEF Sound, Shape, Linked
  <2>3. S[p] = {p} \cup S[t.kid[d][p]] \cup S[t.kid[Other(d)][p]]
    BY <2>2, NestedSides DEF Sound, Shape
  <2> QED BY <1>1, <2>1, <2>3
<1> QED BY <1>1, <1>2, <1>3, <1>4, <1>5, <1>6, <1>7

\* The last assignment of rb_fixins().
LEMMA BlackRoot ==
  ASSUME NEW t, NEW S, NEW H, NEW P, NEW ar, NEW x \in P, Sound(t, S, H, P, ar, x),
         x = t.root \/ ~t.red[t.parent[x]]
  PROVE  Good([t EXCEPT !.red[t.root] = FALSE], P, ar, NULL)
<1> DEFINE r == t.root
           u == [t EXCEPT !.red[r] = FALSE]
           G == [H EXCEPT ![r] = IF t.red[r] THEN H[r] + 1 ELSE H[r]]
<1>1. TreeType(t) /\ P \subseteq Nodes /\ r \in NN /\ NULL \notin P
  BY TreeAssumption DEF Sound, Shape, TreeType, Linked
<1>2. SameLinks(t, u) /\ \A m \in Nodes : u.red[m] <=> m # r /\ t.red[m]
  <2>1. u = Black(t, r)
    BY DEF Black
  <2> HIDE DEF u
  <2> QED BY <1>1, <2>1, PaintBlack
<1>3. r \in Nodes /\ r \in P
  <2>1. S[r] = P /\ S[NULL] = {}
    BY DEF Sound, Shape, Nested
  <2>2. r # NULL
    BY <2>1
  <2>3. r \in Nodes
    BY <1>1, <2>2 DEF NN
  <2> QED BY <2>1, <2>3 DEF Sound, Shape, Nested
<1>4. Shape(u, S, P, ar)
  BY <1>2, SameShape DEF Sound
<1>5. \A n \in Nodes : \A e \in Sides : t.kid[e][n] # r
  <2> HIDE DEF r
  <2>1. r = t.root
    BY DEF r
  <2> QED BY <1>3, <2>1, OneLink DEF Sound
<1>6. /\ H \in [NN -> Nat \ {0}] /\ H[NULL] = 1
      /\ \A n \in Nodes :
           /\ t.kid["left"][n] \in NN /\ t.kid["right"][n] \in NN
           /\ H[t.kid["left"][n]] = H[t.kid["right"][n]]
           /\ H[n] = H[t.kid["left"][n]] + (IF t.red[n] THEN 0 ELSE 1)
  BY DEF Sound, Heights, Shape, TreeType, Sides
<1>7. G \in [NN -> Nat \ {0}] /\ \A n \in NN : G[n] = IF n = r THEN IF t.red[r] THEN H[r] + 1 ELSE H[r] ELSE H[n]
  BY <1>1, <1>6
<1> HIDE DEF G, u, r
<1>8. Heights(u, G)
  <2>1. G[NULL] = 1
    BY <1>3, <1>6, <1>7, TreeAssumption DEF NN
  <2>2. ASSUME NEW n \in Nodes
        PROVE  /\ G[u.kid["left"][n]] = G[u.kid["right"][n]]
               /\ G[n] = G[u.kid["left"][n]] + (IF u.red[n] THEN 0 ELSE 1)
    <3>1. u.kid = t.kid
      BY <1>2 DEF SameLinks
    <3>2. G[t.kid["left"][n]] = H[t.kid["left"][n]] /\ G[t.kid["right"][n]] = H[t.kid["right"][n]]
      BY <1>5, <1>6, <1>7 DEF Sides
    <3>3. G[n] = IF n = r THEN IF t.red[r] THEN H[r] + 1 ELSE H[r] ELSE H[n]
      BY <1>7 DEF NN
    <3>4. t.red[n] \in BOOLEAN /\ H[t.kid["left"][n]] \in Nat /\ (u.red[n] <=> n # r /\ t.red[n])
      BY <1>1, <1>2, <1>6 DEF TreeType
    <3> QED BY <1>6, <3>1, <3>2, <3>3, <3>4
  <2> QED BY <1>7, <2>1, <2>2 DEF Heights
<1>9. Reds(u, P, NULL)
  <2> SUFFICES ASSUME NEW k \in P, u.red[k], k = u.root \/ u.red[u.parent[k]]
               PROVE  FALSE
    BY DEF Reds
  <2>1. k # r /\ t.red[k] /\ u.parent[k] = t.parent[k] /\ u.root = r
    BY <1>1, <1>2 DEF SameLinks, r
  <2>2. t.parent[k] \in P
    BY <2>1 DEF Sound, Shape, Linked, r
  <2>3. t.red[t.parent[k]]
    BY <1>1, <1>2, <2>1, <2>2
  <2>4. k = x
    BY <2>1, <2>3 DEF Sound, Reds
  <2> QED BY <2>1, <2>3, <2>4 DEF r
<1> QED BY <1>4, <1>8, <1>9 DEF Good, Sound, u, r

\* The kinds of facts that the rounds of the repair loops need of a tree.
LEMMA SoundFacts ==
  ASSUME NEW t, NEW S, NEW H, NEW P, NEW ar, NEW x, Sound(t, S, H, P, ar, x)
  PROVE  /\ TreeType(t) /\ P \subseteq Nodes /\ NULL \notin P
         /\ H \in [NN -> Nat \ {0}] /\ H[NULL] = 1
         /\ t.kid \in [Sides -> [Nodes -> NN]] /\ t.red \in [Nodes -> BOOLEAN]
         /\ \A n \in P : \A e \in Sides : t.kid[e][n] \in P \cup {NULL}
<1>1. /\ TreeType(t) /\ P \subseteq Nodes /\ NULL \notin P
      /\ H \in [NN -> Nat \ {0}] /\ H[NULL] = 1
      /\ t.kid \in [Sides -> [Nodes -> NN]] /\ t.red \in [Nodes -> BOOLEAN]
  BY TreeAssumption DEF Sound, Shape, TreeType, Linked, Heights
<1>2. ASSUME NEW n \in P, NEW e \in Sides, t.kid[e][n] # NULL
      PROVE  t.kid[e][n] \in P
  <2> DEFINE k == t.kid[e][n]
  <2>1. k \in Nodes
    BY <1>1, <1>2 DEF NN
  <2>2. k \in S[k]
    BY <2>1 DEF Sound, Shape, Nested
  <2>3. k \in S[n]
    BY <1>1, <2>2, NestedSides DEF Sound, Shape
  <2>4. S[n] \subseteq P
    BY OneLink DEF Sound
  <2> QED BY <2>3, <2>4
<1> QED BY <1>1, <1>2

\* A red node's parent and its sibling turn black, the node above them red.
LEMMA RedUncleSound ==
  ASSUME NEW t, NEW S, NEW H, NEW P, NEW ar, NEW x \in P, Sound(t, S, H, P, ar, x), t.red[x],
         x # t.root, t.red[t.parent[x]], NEW p, p = t.parent[x], NEW g, g = t.parent[p],
         NEW d \in Sides, t.kid[d][g] = p, NEW y, y = t.kid[Other(d)][g], y # NULL, t.red[y]
  PROVE  /\ g \in P
         /\ RedUncle(t, p, g, y).red[g]
         /\ Good(RedUncle(t, p, g, y), P, ar, g)
<1> DEFINE v == Black(t, p)
           w == Black(v, y)
           u == Red(w, g)
           G == [n \in NN |-> IF n = p \/ n = y THEN H[n] + 1 ELSE H[n]]
<1>0. RedUncle(t, p, g, y) = u
  BY DEF RedUncle, Black, Red
<1>1. /\ TreeType(t) /\ P \subseteq Nodes /\ NULL \notin P
      /\ H \in [NN -> Nat \ {0}] /\ H[NULL] = 1
      /\ t.kid \in [Sides -> [Nodes -> NN]] /\ t.red \in [Nodes -> BOOLEAN]
      /\ \A n \in P : \A e \in Sides : t.kid[e][n] \in P \cup {NULL}
  BY SoundFacts
<1>2. /\ p \in P /\ p # x /\ p # t.root
      /\ g \in P /\ g # p /\ g # x /\ ~t.red[g]
  BY Grand
<1>3. y \in P /\ y # g /\ y # p /\ Other(d) \in Sides
  <2>1. Other(d) \in Sides /\ y \in P
    BY <1>1, <1>2, SideFacts
  <2>2. y # g
    BY <1>2
  <2>3. t.kid[Other(d)][g] # p
    BY <1>1, <1>2, OneLink DEF Sound
  <2> QED BY <2>1, <2>2, <2>3
<1>4. SameLinks(t, v) /\ \A m \in Nodes : v.red[m] <=> m # p /\ t.red[m]
  BY <1>1, PaintBlack
<1> HIDE DEF v
<1>b. TreeType(v)
  BY <1>4 DEF SameLinks
<1>a. SameLinks(v, w) /\ \A m \in Nodes : w.red[m] <=> m # y /\ v.red[m]
  <2> HIDE DEF u, G
  <2>1. SameLinks(v, Black(v, y))
    BY <1>b, PaintBlack
  <2>2. \A m \in Nodes : Black(v, y).red[m] <=> m # y /\ v.red[m]
    BY <1>b, PaintBlack
  <2> QED BY <2>1, <2>2
<1> HIDE DEF w
<1>c. TreeType(w)
  BY <1>a DEF SameLinks
<1>5. SameLinks(w, u) /\ \A m \in Nodes : u.red[m] <=> m = g \/ w.red[m]
  BY <1>c, PaintRed
<1> HIDE DEF u
<1>6. SameLinks(t, u) /\ \A m \in Nodes : u.red[m] <=> m = g \/ (m # y /\ m # p /\ t.red[m])
  <2>1. SameLinks(t, u)
    BY <1>4, <1>a, <1>5 DEF SameLinks
  <2> QED BY <1>4, <1>a, <1>5, <2>1
<1>7. Shape(u, S, P, ar)
  BY <1>6, SameShape DEF Sound
<1>8. /\ G \in [NN -> Nat \ {0}]
      /\ \A n \in NN : G[n] = IF n = p \/ n = y THEN H[n] + 1 ELSE H[n]
  BY <1>1
<1> HIDE DEF G
<1>9. Heights(u, G)
  <2>1. G[NULL] = 1
    BY <1>1, <1>2, <1>3, <1>8 DEF NN
  <2>2. ASSUME NEW n \in Nodes
        PROVE  Level(G, u.red[n], n, u.kid[d][n], u.kid[Other(d)][n])
    <3>0. u.kid = t.kid
      BY <1>6 DEF SameLinks
    <3>1. Level(H, t.red[n], n, t.kid[d][n], t.kid[Other(d)][n])
      BY <1>1, HeightSides DEF Sound
    <3>2. t.kid[d][n] \in NN /\ t.kid[Other(d)][n] \in NN /\ n \in NN
      BY <1>1, <1>3 DEF NN
    <3>3. H[t.kid[d][n]] \in Nat /\ H[t.kid[Other(d)][n]] \in Nat
      BY <1>1, <3>2
    <3>4. CASE n = g
      <4>0. p \in NN /\ y \in NN /\ g \in NN
        BY <3>2, <3>4
      <4>1. G[p] = H[p] + 1 /\ G[y] = H[y] + 1 /\ G[g] = H[g]
        BY <1>2, <1>3, <1>8, <4>0
      <4>2. u.red[g] /\ ~t.red[g]
        BY <1>2, <1>6, <3>4
      <4>3. t.kid[d][n] = p /\ t.kid[Other(d)][n] = y
        BY <3>4
      <4>4. H[p] = H[y] /\ H[g] = H[p] + 1
        BY <3>1, <3>4, <4>2, <4>3 DEF Level
      <4>5. G[p] = G[y] /\ G[g] = G[p]
        BY <4>1, <4>4
      <4> QED BY <3>0, <3>4, <4>2, <4>3, <4>5 DEF Level
    <3>5. CASE n # g
      <4>1. t.kid[d][n] # p /\ t.kid[Other(d)][n] # p /\ t.kid[d][n] # y /\ t.kid[Other(d)][n] # y
        <5>1. t.parent[y] = g
          BY <1>1, <1>2, <1>3, OneLink DEF Sound
        <5>2. \A k \in P : \A e \in Sides : t.kid[e][n] = k => n = t.parent[k]
          BY OneLink DEF Sound
        <5> QED BY <1>2, <1>3, <3>5, <5>1, <5>2
      <4>2. G[t.kid[d][n]] = H[t.kid[d][n]] /\ G[t.kid[Other(d)][n]] = H[t.kid[Other(d)][n]]
        BY <1>8, <3>2, <4>1
      <4>3. CASE n = p \/ n = y
        <5>1. t.red[n] /\ ~u.red[n] /\ G[n] = H[n] + 1
          BY <1>6, <1>8, <3>2, <3>5, <4>3
        <5> QED BY <3>0, <3>1, <3>3, <4>2, <5>1 DEF Level
      <4>4. CASE n # p /\ n # y
        <5>1. (u.red[n] <=> t.red[n]) /\ G[n] = H[n]
          BY <1>6, <1>8, <3>2, <3>5, <4>4
        <5> QED BY <3>0, <3>1, <4>2, <5>1 DEF Level
      <4> QED BY <4>3, <4>4
    <3> QED BY <3>4, <3>5
  <2>3. TreeType(u)
    BY <1>6 DEF SameLinks
  <2> QED BY <1>8, <2>1, <2>2, <2>3, HeightsFrom
<1>10. Reds(u, P, g)
  <2> SUFFICES ASSUME NEW k \in P, u.red[k], k = u.root \/ u.red[u.parent[k]], k # g
               PROVE  FALSE
    BY DEF Reds
  <2>1. k # p /\ k # y /\ t.red[k] /\ u.parent[k] = t.parent[k] /\ u.root = t.root
    BY <1>1, <1>6 DEF SameLinks
  <2>2. k # t.root
    BY <2>1 DEF Sound, Reds
  <2>3. t.parent[k] \in P
    BY <2>2 DEF Sound, Shape, Linked
  <2>4. t.parent[k] # g
    <3>1. t.parent[k] = g => \E e \in Sides : t.kid[e][g] = k
      BY <2>2 DEF Sound, Shape, Linked
    <3>2. \A e \in Sides : e = d \/ e = Other(d)
      BY SideFacts
    <3> QED BY <2>1, <3>1, <3>2
  <2>5. t.red[t.parent[k]] /\ t.parent[k] # p
    BY <1>1, <1>6, <2>1, <2>2, <2>3, <2>4
  <2>6. k = x
    BY <2>1, <2>5 DEF Sound, Reds
  <2> QED BY <2>5, <2>6
<1>11. u.red[g]
  BY <1>1, <1>2, <1>6
<1> QED BY <1>0, <1>2, <1>7, <1>9, <1>10, <1>11 DEF Good, Sound

\* The links that a rotation changes, and those that it keeps.
LEMMA TurnedKids ==
  ASSUME NEW t, NEW S, NEW P, NEW ar, Shape(t, S, P, ar), NEW x \in P, NEW d \in Sides,
         NEW o, o = Other(d), NEW y, y = t.kid[o][x], y # NULL, NEW u, Turned(t, u, x, d)
  PROVE  /\ y \in P /\ y # x /\ t.parent[y] = x
         /\ u.kid[d][x] = t.kid[d][x] /\ u.kid[o][x] = t.kid[d][y]
         /\ u.kid[d][y] = x /\ u.kid[o][y] = t.kid[o][y]
         /\ \A n \in Nodes : n # x /\ n # y => \A e \in Sides :
              /\ t.kid[e][n] # y
              /\ u.kid[e][n] = IF t.kid[e][n] = x THEN y ELSE t.kid[e][n]
         /\ u.parent[x] = y /\ u.parent[y] = t.parent[x]
         /\ t.kid[d][x] # x /\ t.kid[d][x] # y /\ t.kid[d][y] # x /\ t.kid[d][y] # y
         /\ t.kid[o][y] # x /\ t.kid[o][y] # y
<1>1. x \in Nodes /\ o \in Sides /\ o # d /\ P \subseteq Nodes /\ NULL \notin Nodes
  BY SideFacts, TreeAssumption DEF Shape, Linked
<1>2. y \in Nodes
  BY <1>1 DEF Shape, TreeType, NN
<1>3. y \in S[y] /\ x \in S[x]
  BY <1>1, <1>2 DEF Shape, Nested
<1>4. Wf(S, x, t.kid[d][x], y) /\ Wf(S, y, t.kid[d][y], t.kid[o][y])
  BY <1>1, <1>2, NestedWf DEF Shape
<1>5. y \in P /\ y # x
  <2>1. S[x] \subseteq P
    BY OneLink
  <2> QED BY <1>3, <1>4, <2>1 DEF Wf
<1>6. \A n \in Nodes : \A e \in Sides : t.kid[e][n] = y => n = t.parent[y]
  BY <1>5, OneLink
<1>7. t.parent[y] = x
  BY <1>1, <1>6
<1>8. \A k \in Nodes : k \in S[k]
  BY DEF Shape, Nested
<1>9. /\ t.kid[d][x] # x /\ t.kid[d][x] # y /\ t.kid[d][y] # x /\ t.kid[d][y] # y
      /\ t.kid[o][y] # x /\ t.kid[o][y] # y
  BY <1>1, <1>2, <1>4, <1>8 DEF Wf
<1>10. /\ \A n \in Nodes : u.parent[n] = IF n = x THEN y ELSE IF n = y THEN t.parent[x]
                                        ELSE IF n = t.kid[d][y] THEN x ELSE t.parent[n]
       /\ \A n \in Nodes : \A e \in Sides :
           u.kid[e][n] = IF n = x /\ e = o THEN t.kid[d][y]
                         ELSE IF n = y /\ e = d THEN x
                         ELSE IF t.kid[e][n] = x THEN y
                         ELSE t.kid[e][n]
  BY DEF Turned
<1>11. /\ u.kid[d][x] = t.kid[d][x] /\ u.kid[o][x] = t.kid[d][y]
       /\ u.kid[d][y] = x /\ u.kid[o][y] = t.kid[o][y]
  BY <1>1, <1>2, <1>5, <1>9, <1>10
<1>12. \A n \in Nodes : n # x /\ n # y => \A e \in Sides :
              /\ t.kid[e][n] # y
              /\ u.kid[e][n] = IF t.kid[e][n] = x THEN y ELSE t.kid[e][n]
  BY <1>6, <1>7, <1>10
<1>13. u.parent[x] = y /\ u.parent[y] = t.parent[x]
  BY <1>1, <1>2, <1>5, <1>10
<1> QED BY <1>5, <1>7, <1>9, <1>11, <1>12, <1>13

\* The heights after a rotation, from those at the two nodes it turns.
LEMMA TurnedHeights ==
  ASSUME NEW t, NEW S, NEW P, NEW ar, Shape(t, S, P, ar), NEW x \in P, NEW d \in Sides,
         NEW o, o = Other(d), NEW y, y = t.kid[o][x], y # NULL, NEW u, Turned(t, u, x, d),
         NEW H, H[NULL] = 1, NEW G \in [NN -> Nat \ {0}],
         \A n \in NN : n # x /\ n # y => G[n] = H[n],
         G[y] = H[x],
         \A n \in Nodes : n # x /\ n # y => Level(H, u.red[n], n, t.kid[d][n], t.kid[o][n]),
         Level(G, u.red[x], x, t.kid[d][x], t.kid[d][y]),
         Level(G, u.red[y], y, x, t.kid[o][y])
  PROVE  Heights(u, G)
<1>1. /\ y \in P /\ y # x
      /\ u.kid[d][x] = t.kid[d][x] /\ u.kid[o][x] = t.kid[d][y]
      /\ u.kid[d][y] = x /\ u.kid[o][y] = t.kid[o][y]
      /\ \A n \in Nodes : n # x /\ n # y => \A e \in Sides :
              /\ t.kid[e][n] # y
              /\ u.kid[e][n] = IF t.kid[e][n] = x THEN y ELSE t.kid[e][n]
  BY TurnedKids
<1>2. o \in Sides /\ x \in Nodes /\ NULL \notin P /\ TreeType(u) /\ TreeType(t)
  BY SideFacts, TreeAssumption DEF Shape, Linked, Turned
<1>3. G[NULL] = 1
  BY <1>1, <1>2 DEF NN
<1>4. ASSUME NEW n \in Nodes
      PROVE  Level(G, u.red[n], n, u.kid[d][n], u.kid[o][n])
  <2>1. CASE n = x
    BY <1>1, <2>1
  <2>2. CASE n = y
    BY <1>1, <2>2
  <2>3. CASE n # x /\ n # y
    <3>1. G[n] = H[n]
      BY <2>3 DEF NN
    <3>2. ASSUME NEW e \in Sides
          PROVE  G[u.kid[e][n]] = H[t.kid[e][n]]
      <4>1. t.kid[e][n] \in NN /\ t.kid[e][n] # y
        BY <1>1, <1>2, <2>3 DEF TreeType
      <4>2. u.kid[e][n] = IF t.kid[e][n] = x THEN y ELSE t.kid[e][n]
        BY <1>1, <2>3
      <4> QED BY <4>1, <4>2
    <3>3. Level(H, u.red[n], n, t.kid[d][n], t.kid[o][n])
      BY <2>3
    <3>4. G[u.kid[d][n]] = H[t.kid[d][n]] /\ G[u.kid[o][n]] = H[t.kid[o][n]]
      BY <1>2, <3>2
    <3> QED BY <3>1, <3>3, <3>4 DEF Level
  <2> QED BY <2>1, <2>2, <2>3
<1> QED BY <1>2, <1>3, <1>4, HeightsFrom

\* An inner red node changes places with its red parent.
LEMMA InnerRound ==
  ASSUME NEW t, NEW S, NEW H, NEW P, NEW ar, AreasOK(ar, P), NEW x \in P,
         Sound(t, S, H, P, ar, x), t.red[x], x # t.root, NEW p, p = t.parent[x], t.red[p],
         NEW g, g = t.parent[p], NEW d \in Sides, t.kid[d][g] = p,
         NEW o, o = Other(d), t.kid[o][p] = x, NEW u, u = Rotate(t, p, d)
  PROVE  /\ p \in P /\ \E R : Sound(u, R, H, P, ar, p)
         /\ u.red = t.red /\ p # u.root /\ u.parent[p] = x /\ u.parent[x] = g
         /\ u.kid[d][x] = p /\ u.kid[d][g] = x /\ u.kid[o][g] = t.kid[o][g]
<1>1. /\ TreeType(t) /\ P \subseteq Nodes /\ NULL \notin P
      /\ H \in [NN -> Nat \ {0}] /\ H[NULL] = 1
      /\ t.kid \in [Sides -> [Nodes -> NN]] /\ t.red \in [Nodes -> BOOLEAN]
  BY SoundFacts
<1>2. /\ p \in P /\ p # x /\ p # t.root
      /\ g \in P /\ g # p /\ g # x /\ ~t.red[g]
  BY Grand
<1>3. Shape(t, S, P, ar) /\ x # NULL
  BY <1>1 DEF Sound
<1>4. Turned(t, u, p, d)
  BY <1>2, <1>3, RotateFields
<1>5. Shape(u, TurnedS(t, S, p, d), P, ar)
  BY <1>2, <1>3, <1>4, TurnedShape
<1>6. /\ u.kid[d][x] = p
      /\ \A n \in Nodes : n # p /\ n # x => \A e \in Sides :
              /\ t.kid[e][n] # x
              /\ u.kid[e][n] = IF t.kid[e][n] = p THEN x ELSE t.kid[e][n]
      /\ u.parent[p] = x /\ u.parent[x] = g
  BY <1>2, <1>3, <1>4, TurnedKids
<1>7. o \in Sides
  BY SideFacts
<1>8. u.red = t.red /\ u.root = t.root
  <2>1. g # NULL
    BY <1>1, <1>2
  <2> QED BY <1>4, <2>1 DEF Turned
<1>9. u.kid[d][g] = x /\ u.kid[o][g] = t.kid[o][g]
  <2>1. t.kid[o][g] # p
    BY <1>1, <1>2, <1>3, OneLink
  <2> QED BY <1>1, <1>2, <1>6, <1>7, <2>1
<1>10. Heights(u, H)
  <2>1. \A n \in Nodes : Level(H, t.red[n], n, t.kid[d][n], t.kid[o][n])
    BY <1>1, HeightSides DEF Sound
  <2>2. \A n \in Nodes : n # p /\ n # x => Level(H, u.red[n], n, t.kid[d][n], t.kid[o][n])
    BY <1>8, <2>1
  <2>3. Level(H, t.red[p], p, t.kid[d][p], x) /\ Level(H, t.red[x], x, t.kid[d][x], t.kid[o][x])
    BY <1>1, <1>2, <2>1
  <2>4. H[x] = H[p] /\ Level(H, u.red[p], p, t.kid[d][p], t.kid[d][x]) /\ Level(H, u.red[x], x, p, t.kid[o][x])
    BY <1>8, <2>3 DEF Level
  <2> QED BY <1>1, <1>2, <1>3, <1>4, <2>2, <2>4, TurnedHeights
<1>11. Reds(u, P, p)
  <2> SUFFICES ASSUME NEW k \in P, t.red[k], k = t.root \/ t.red[u.parent[k]], k # p
               PROVE  FALSE
    BY <1>8 DEF Reds
  <2>1. k # t.root
    BY DEF Sound, Reds
  <2>2. k # x
    BY <1>2, <1>6, <2>1
  <2>3. u.parent[k] = IF k = t.kid[d][x] THEN p ELSE t.parent[k]
    BY <1>1, <1>4, <2>2 DEF Turned
  <2>4. k # t.kid[d][x]
    <3>1. k = t.kid[d][x] => t.parent[k] = x
      <4>1. x \in Nodes
        BY <1>1
      <4>2. \A n \in Nodes : \A e \in Sides : t.kid[e][n] = k => n = t.parent[k]
        BY <1>3, OneLink
      <4> QED BY <4>1, <4>2
    <3> QED BY <2>2, <3>1 DEF Sound, Reds
  <2> QED BY <2>1, <2>2, <2>3, <2>4 DEF Sound, Reds
<1> QED BY <1>2, <1>5, <1>6, <1>8, <1>9, <1>10, <1>11 DEF Sound

\* A red node x on side d of its red parent p, on side d of g, whose other
\* child y is black; w is the tree with p black and g red.
Outer(t, w, x, p, g, y, z, d, o) ==
  /\ t.red[x] /\ x # t.root /\ p = t.parent[x] /\ t.red[p] /\ g = t.parent[p]
  /\ t.kid[d][g] = p /\ t.kid[d][p] = x
  /\ y = t.kid[o][g] /\ ~(y # NULL /\ t.red[y]) /\ z = t.kid[o][p]
  /\ SameLinks(t, w)
  /\ \A m \in Nodes : w.red[m] <=> m = g \/ (m # p /\ t.red[m])

\* The red parent turns over its black parent.
LEMMA OuterRound ==
  ASSUME NEW t, NEW S, NEW H, NEW P, NEW ar, AreasOK(ar, P), NEW x \in P,
         Sound(t, S, H, P, ar, x), NEW p, NEW g, NEW y, NEW z, NEW w,
         NEW o \in Sides, NEW d \in Sides, d = Other(o), Outer(t, w, x, p, g, y, z, d, o)
  PROVE  LET u == Rotate(w, g, o) IN u.red[x] /\ Good(u, P, ar, x)
<1> DEFINE u == Rotate(w, g, o)
<1>0. w.kid = t.kid /\ w.parent = t.parent /\ w.root = t.root
  BY DEF Outer, SameLinks
<1>a. t.kid[d][g] = p /\ t.kid[d][p] = x /\ t.kid[o][g] = y /\ t.kid[o][p] = z
  BY DEF Outer
<1>b. \A m \in Nodes : w.red[m] <=> m = g \/ (m # p /\ t.red[m])
  BY DEF Outer
<1>1. /\ TreeType(t) /\ P \subseteq Nodes /\ NULL \notin P
      /\ H \in [NN -> Nat \ {0}] /\ H[NULL] = 1
      /\ t.kid \in [Sides -> [Nodes -> NN]] /\ t.red \in [Nodes -> BOOLEAN]
  BY SoundFacts
<1>2. /\ p \in P /\ p # x /\ p # t.root
      /\ g \in P /\ g # p /\ g # x /\ ~t.red[g]
  <2>1. t.red[x] /\ x # t.root /\ p = t.parent[x] /\ t.red[p] /\ g = t.parent[p]
    BY DEF Outer
  <2> QED BY <2>1, Grand
<1>3. Shape(t, S, P, ar) /\ x # NULL /\ p # NULL
  BY <1>1, <1>2 DEF Sound
<1>4. Other(d) = o /\ o # d /\ \A e \in Sides : e = d \/ e = o
  BY SideFacts
<1>8. Shape(w, S, P, ar)
  BY <1>3, SameShape DEF Outer
<1>9. w.kid = t.kid /\ w.parent = t.parent /\ w.root = t.root
  BY <1>0
<1>10. w.kid[Other(o)][g] = p
  BY <1>9, <1>a
<1>11. Turned(w, u, g, o)
  BY <1>2, <1>3, <1>8, <1>10, RotateFields
<1>12. Shape(u, TurnedS(w, S, g, o), P, ar)
  BY <1>2, <1>3, <1>8, <1>10, <1>11, TurnedShape
<1> HIDE DEF u
<1>14. u.red = w.red
  BY <1>11 DEF Turned
<1>15. u.parent[g] = p /\ u.parent[p] = t.parent[g] /\ y # p /\ y # g /\ z # p /\ z # g
  <2>1. p = w.kid[d][g]
    BY <1>10
  <2>2. /\ u.parent[g] = p /\ u.parent[p] = w.parent[g]
        /\ w.kid[o][g] # g /\ w.kid[o][g] # p /\ w.kid[o][p] # g /\ w.kid[o][p] # p
    BY <1>2, <1>3, <1>8, <1>11, <2>1, TurnedKids
  <2> QED BY <1>9, <1>a, <2>2
<1>16. /\ Level(H, t.red[p], p, x, z) /\ Level(H, t.red[g], g, p, y)
       /\ \A n \in Nodes : Level(H, t.red[n], n, t.kid[o][n], t.kid[d][n])
  <2>1. \A n \in Nodes : Level(H, t.red[n], n, t.kid[d][n], t.kid[o][n])
    BY <1>1, <1>4, HeightSides DEF Sound
  <2>2. \A n \in Nodes : Level(H, t.red[n], n, t.kid[o][n], t.kid[d][n])
    BY <1>1, HeightSides DEF Sound
  <2> QED BY <1>1, <1>2, <1>a, <2>1, <2>2
<1>17. \E G : Heights(u, G)
  <2> DEFINE G == [n \in NN |-> IF n = g THEN H[p] ELSE IF n = p THEN H[p] + 1 ELSE H[n]]
  <2>1. /\ H[x] = H[z] /\ H[p] = H[x] /\ H[p] = H[y] /\ H[g] = H[p] + 1
    BY <1>2, <1>16 DEF Level, Outer
  <2>2. x \in NN /\ y \in NN /\ z \in NN /\ g \in NN /\ p \in NN
    BY <1>1, <1>2, <1>4, <1>a DEF NN
  <2>3. H[p] \in Nat \ {0} /\ H[p] + 1 \in Nat \ {0}
    <3>1. H[p] \in Nat \ {0}
      BY <1>1, <2>2
    <3> QED BY <3>1
  <2>4. G \in [NN -> Nat \ {0}]
    BY <1>1, <2>3
  <2>5. G[g] = H[p] /\ G[p] = H[p] + 1
    BY <1>2, <2>2
  <2>6. \A n \in NN : n # g /\ n # p => G[n] = H[n]
    OBVIOUS
  <2> HIDE DEF G
  <2>7. G[x] = H[x] /\ G[y] = H[y] /\ G[z] = H[z]
    BY <1>2, <1>15, <2>2, <2>6
  <2>8. u.red[g] /\ ~u.red[p]
    BY <1>1, <1>2, <1>14, <1>b
  <2>9. Level(G, u.red[g], g, y, z) /\ Level(G, u.red[p], p, g, x)
    BY <2>1, <2>5, <2>7, <2>8 DEF Level
  <2>10. ASSUME NEW n \in Nodes, n # g, n # p
         PROVE  Level(H, u.red[n], n, t.kid[o][n], t.kid[d][n])
    <3>1. u.red[n] <=> t.red[n]
      BY <1>14, <1>b, <2>10
    <3>2. Level(H, t.red[n], n, t.kid[o][n], t.kid[d][n])
      BY <1>16
    <3> QED BY <3>1, <3>2 DEF Level
  <2>11. \A n \in Nodes : n # g /\ n # p => Level(H, u.red[n], n, w.kid[o][n], w.kid[d][n])
    BY <1>9, <2>10
  <2>12. Level(G, u.red[g], g, w.kid[o][g], w.kid[o][p]) /\ Level(G, u.red[p], p, g, w.kid[d][p])
    BY <1>9, <1>a, <2>9
  <2>13. G[p] = H[g] /\ p = w.kid[d][g] /\ H[NULL] = 1
    BY <1>1, <1>9, <1>a, <2>1, <2>5
  <2>14. Heights(u, G)
    BY <1>2, <1>3, <1>8, <1>11, <2>4, <2>6, <2>11, <2>12, <2>13, TurnedHeights
  <2> QED BY <2>14
<1>18. /\ u.root = IF t.parent[g] = NULL THEN p ELSE t.root
       /\ \A k \in Nodes : k # g /\ k # p => u.parent[k] = IF k = z THEN g ELSE t.parent[k]
  <2>1. /\ u.root = IF w.parent[g] = NULL THEN w.kid[Other(o)][g] ELSE w.root
        /\ \A n \in Nodes : u.parent[n] = IF n = g THEN w.kid[Other(o)][g]
                                          ELSE IF n = w.kid[Other(o)][g] THEN w.parent[g]
                                          ELSE IF n = w.kid[o][w.kid[Other(o)][g]] THEN g
                                          ELSE w.parent[n]
    BY <1>11 DEF Turned
  <2>2. w.kid[o][p] = z
    BY <1>9, <1>a
  <2> QED BY <1>9, <1>10, <2>1, <2>2
<1>19. Reds(u, P, x)
  <2> SUFFICES ASSUME NEW k \in P, u.red[k], k = u.root \/ u.red[u.parent[k]], k # x
               PROVE  FALSE
    BY DEF Reds
  <2>1. k \in Nodes /\ k # p /\ (k = g \/ t.red[k])
    BY <1>1, <1>2, <1>14, <1>b
  <2>3. k # u.root
    <3>2. g = t.root => t.parent[g] = NULL
      BY <1>2, <1>3, OneLink
    <3> QED BY <1>18, <2>1, <3>2 DEF Sound, Reds, Outer
  <2>4. k # g
    <3>1. ~u.red[p]
      BY <1>1, <1>2, <1>14, <1>b
    <3> QED BY <1>15, <2>3, <3>1
  <2>5. u.parent[k] = IF k = z THEN g ELSE t.parent[k]
    BY <1>18, <2>1, <2>4
  <2>6. \A n \in Nodes : \A e \in Sides : t.kid[e][n] = k => n = t.parent[k]
    BY <1>3, OneLink
  <2>7. k # z
    <3>1. k = z => t.parent[k] = p
      BY <1>1, <1>2, <1>a, <2>6
    <3> QED BY <2>1, <2>4, <3>1 DEF Sound, Reds, Outer
  <2>8. k # t.root
    BY <2>1, <2>4 DEF Sound, Reds
  <2>9. t.parent[k] \in P /\ \E e \in Sides : t.kid[e][t.parent[k]] = k
    BY <1>3, <2>8 DEF Shape, Linked
  <2>10. t.parent[k] # g
    <3>1. t.parent[k] = g => k = p \/ k = y
      BY <1>4, <1>a, <2>9
    <3>2. k # y
      BY <1>1, <2>1, <2>4 DEF Outer
    <3> QED BY <2>1, <3>1, <3>2
  <2>11. t.red[t.parent[k]]
    BY <1>1, <1>14, <1>b, <2>3, <2>5, <2>7, <2>9, <2>10
  <2> QED BY <2>1, <2>4, <2>11 DEF Sound, Reds
<1>20. u.red[x]
  BY <1>1, <1>2, <1>14, <1>b DEF Outer
<1> QED BY <1>12, <1>17, <1>19, <1>20 DEF Good, Sound, u

\* The colours that a round without red uncle sets.
LEMMA SwapColours ==
  ASSUME NEW t, TreeType(t), NEW p, NEW g
  PROVE  /\ SameLinks(t, Red(Black(t, p), g))
         /\ \A m \in Nodes : Red(Black(t, p), g).red[m] <=> m = g \/ (m # p /\ t.red[m])
<1> DEFINE v == Black(t, p)
<1>1. SameLinks(t, v) /\ \A m \in Nodes : v.red[m] <=> m # p /\ t.red[m]
  BY PaintBlack
<1> HIDE DEF v
<1>2. TreeType(v)
  BY <1>1 DEF SameLinks
<1>3. SameLinks(v, Red(v, g))
  BY <1>2, PaintRed
<1>4. \A m \in Nodes : Red(v, g).red[m] <=> m = g \/ v.red[m]
  BY <1>2, PaintRed
<1>5. SameLinks(t, Red(v, g))
  BY <1>1, <1>3 DEF SameLinks
<1> QED BY <1>1, <1>4, <1>5 DEF v

\* What a round of rb_fixins() on a node without red uncle leaves.
LEMMA RestructureGood ==
  ASSUME NEW t, NEW S, NEW H, NEW P, NEW ar, AreasOK(ar, P), NEW x \in P,
         Sound(t, S, H, P, ar, x), t.red[x], x # t.root, NEW p, p = t.parent[x], t.red[p],
         NEW g, g = t.parent[p], NEW d \in Sides, t.kid[d][g] = p,
         ~rb_chk_red(t, t.kid[Other(d)][g]),
         NEW y, y = IF x = t.kid[Other(d)][p] THEN p ELSE x
  PROVE  /\ y \in P /\ Restructure(t, x, d).red[y]
         /\ Good(Restructure(t, x, d), P, ar, y)
<1> DEFINE o == Other(d)
           u == Restructure(t, x, d)
<1>0. o \in Sides /\ \A e \in Sides : e = d \/ e = o
  BY SideFacts
<1>1. ~(t.kid[o][g] # NULL /\ t.red[t.kid[o][g]])
  BY DEF rb_chk_red
<1>2. p \in P /\ p # x /\ g # p /\ \E e \in Sides : t.kid[e][p] = x
  BY Grand
<1>3. CASE x = t.kid[o][p]
  <2> DEFINE t1 == Rotate(t, p, d)
  <2>1. /\ p \in P /\ \E R : Sound(t1, R, H, P, ar, p)
        /\ t1.red = t.red /\ p # t1.root /\ t1.parent[p] = x /\ t1.parent[x] = g
        /\ t1.kid[d][x] = p /\ t1.kid[d][g] = x /\ t1.kid[o][g] = t.kid[o][g]
    <3> HIDE DEF u
    <3>1. o = Other(d) /\ t.kid[o][p] = x /\ t1 = Rotate(t, p, d)
      BY <1>3
    <3> HIDE DEF o, t1
    <3> QED BY <3>1, InnerRound
  <2> HIDE DEF t1
  <2>2. PICK R : Sound(t1, R, H, P, ar, p)
    BY <2>1
  <2>3. u = Rotate(Red(Black(t1, x), g), g, o) /\ y = p
    <3>1. u = Rotate([t1 EXCEPT !.red[x] = FALSE, !.red[g] = TRUE], g, o)
      BY <1>3, <2>1 DEF Restructure, t1
    <3>2. [t1 EXCEPT !.red[x] = FALSE, !.red[g] = TRUE] = Red(Black(t1, x), g)
      BY DEF Red, Black
    <3> QED BY <1>3, <3>1, <3>2
  <2> HIDE DEF u
  <2>a. TreeType(t1)
    BY <2>2, SoundFacts
  <2>b. /\ SameLinks(t1, Red(Black(t1, x), g))
        /\ \A m \in Nodes : Red(Black(t1, x), g).red[m] <=> m = g \/ (m # x /\ t1.red[m])
    BY <2>a, SwapColours
  <2>c. /\ t1.red[p] /\ t1.red[x] /\ x = t1.parent[p] /\ g = t1.parent[x] /\ p # t1.root
        /\ d = Other(o) /\ ~(t1.kid[o][g] # NULL /\ t1.red[t1.kid[o][g]])
    BY <1>1, <2>1, SideFacts
  <2>d. Outer(t1, Red(Black(t1, x), g), p, x, g, t1.kid[o][g], t1.kid[o][x], d, o)
    BY <2>1, <2>b, <2>c DEF Outer
  <2> HIDE DEF o
  <2>4. u.red[p] /\ Good(u, P, ar, p)
    BY <1>0, <2>1, <2>2, <2>3, <2>c, <2>d, OuterRound
  <2> QED BY <2>1, <2>3, <2>4 DEF u
<1>4. CASE x # t.kid[o][p]
  <2>1. t.kid[d][p] = x
    BY <1>0, <1>2, <1>4
  <2>3. u = Rotate(Red(Black(t, p), g), g, o) /\ y = x
    <3>1. u = Rotate([t EXCEPT !.red[p] = FALSE, !.red[g] = TRUE], g, o)
      BY <1>4 DEF Restructure
    <3>2. [t EXCEPT !.red[p] = FALSE, !.red[g] = TRUE] = Red(Black(t, p), g)
      BY DEF Red, Black
    <3> QED BY <1>4, <3>1, <3>2
  <2> HIDE DEF u
  <2>a. TreeType(t)
    BY SoundFacts
  <2>b. /\ SameLinks(t, Red(Black(t, p), g))
        /\ \A m \in Nodes : Red(Black(t, p), g).red[m] <=> m = g \/ (m # p /\ t.red[m])
    BY <2>a, SwapColours
  <2>c. d = Other(o)
    BY SideFacts
  <2>d. Outer(t, Red(Black(t, p), g), x, p, g, t.kid[o][g], t.kid[o][p], d, o)
    BY <1>1, <2>1, <2>b DEF Outer
  <2> HIDE DEF o
  <2>4. u.red[x] /\ Good(u, P, ar, x)
    BY <1>0, <2>3, <2>c, <2>d, OuterRound
  <2> QED BY <2>3, <2>4 DEF u
<1> QED BY <1>3, <1>4

\* Where an insertion stands: between calls, or at red node x.
Inserting(t, r, P, ar) ==
  \E x \in P : r = [pc |-> "fixins", x |-> x] /\ t.red[x] /\ Good(t, P, ar, x)

\* Each round of rb_fixins() leaves one node to look at, or none.
LEMMA FixInsertStep ==
  ASSUME Inserting(tree, rb, placed, area), AreasOK(area, placed), FixInsert
  PROVE  \/ rb' = Quiet /\ Good(tree', placed, area, NULL)
         \/ Inserting(tree', rb', placed, area)
<1>1. PICK x \in placed : rb = [pc |-> "fixins", x |-> x] /\ tree.red[x] /\ Good(tree, placed, area, x)
  BY DEF Inserting
<1>2. PICK S, H : Sound(tree, S, H, placed, area, x)
  BY <1>1 DEF Good
<1>3. rb.x = x
  BY <1>1
<1> DEFINE p == tree.parent[x]
           g == tree.parent[p]
           d == IF p = tree.kid["left"][g] THEN "left" ELSE "right"
           y == tree.kid[Other(d)][g]
<1>4. x # tree.root => p \in placed /\ p # NULL
  <2>1. x # tree.root => tree.parent[x] \in placed /\ tree.parent[x] # NULL
    BY <1>2, OneLink DEF Sound
  <2> QED BY <2>1
<1>5. CASE ~(x # tree.root /\ rb_chk_red(tree, tree.parent[x]))
  <2>1. tree' = [tree EXCEPT !.red[tree.root] = FALSE] /\ rb' = Quiet
    BY <1>3, <1>5 DEF FixInsert
  <2>2. x = tree.root \/ ~tree.red[tree.parent[x]]
    BY <1>4, <1>5 DEF rb_chk_red
  <2>3. Good([tree EXCEPT !.red[tree.root] = FALSE], placed, area, NULL)
    BY <1>2, <2>2, BlackRoot
  <2> QED BY <2>1, <2>3
<1>6. CASE x # tree.root /\ rb_chk_red(tree, tree.parent[x])
  <2>1. tree.red[p] /\ x # tree.root
    BY <1>6 DEF rb_chk_red
  <2>2. \E e \in Sides : tree.kid[e][g] = p
    <3> HIDE DEF p, g
    <3>1. p = tree.parent[x] /\ g = tree.parent[p]
      BY DEF p, g
    <3> QED BY <1>1, <1>2, <2>1, <3>1, Grand
  <2>3. d \in Sides /\ tree.kid[d][g] = p
    BY <2>2 DEF Sides
  <2>4. CASE rb_chk_red(tree, y)
    <3>1. tree' = RedUncle(tree, p, g, y) /\ rb' = [rb EXCEPT !.x = g]
      BY <1>3, <1>6, <2>4 DEF FixInsert
    <3>2. rb' = [pc |-> "fixins", x |-> g]
      BY <1>1, <3>1
    <3>3. y # NULL /\ tree.red[y]
      BY <2>4 DEF rb_chk_red
    <3>4. p = tree.parent[x] /\ g = tree.parent[p] /\ y = tree.kid[Other(d)][g] /\ tree.red[tree.parent[x]]
      BY <2>1
    <3> HIDE DEF p, g, d, y
    <3>5. tree.red[x] /\ Sound(tree, S, H, placed, area, x) /\ x # tree.root
      BY <1>1, <1>2, <2>1
    <3>6. /\ g \in placed /\ RedUncle(tree, p, g, y).red[g]
          /\ Good(RedUncle(tree, p, g, y), placed, area, g)
      BY <2>3, <3>3, <3>4, <3>5, RedUncleSound
    <3> QED BY <3>1, <3>2, <3>6 DEF Inserting
  <2>5. CASE ~rb_chk_red(tree, y)
    <3> DEFINE q == IF x = tree.kid[Other(d)][p] THEN p ELSE x
    <3>1. tree' = Restructure(tree, x, d) /\ rb' = [rb EXCEPT !.x = q]
      BY <1>3, <1>6, <2>5 DEF FixInsert
    <3>2. rb' = [pc |-> "fixins", x |-> q]
      <4> HIDE DEF q
      <4> QED BY <1>1, <3>1
    <3>4. p = tree.parent[x] /\ g = tree.parent[p] /\ ~rb_chk_red(tree, tree.kid[Other(d)][g])
      BY <2>5
    <3> HIDE DEF p, g, d, y
    <3>5. q = IF x = tree.kid[Other(d)][p] THEN p ELSE x
      OBVIOUS
    <3> HIDE DEF q
    <3>6. q \in placed /\ tree'.red[q] /\ Good(tree', placed, area, q)
      BY <1>1, <1>2, <2>1, <2>3, <3>1, <3>4, <3>5, RestructureGood
    <3> QED BY <3>2, <3>6 DEF Inserting
  <2> QED BY <2>4, <2>5
<1> QED BY <1>5, <1>6

=============================================================================
