----------------------------- MODULE BootProofs -----------------------------
(***************************************************************************)
(* Proofs about Boot: from every sane memory map the page allocator gets   *)
(* only memory nobody uses, and frames for tables are whole pages.         *)
(***************************************************************************)
EXTENDS Vmalloc, CommonLemmas

-----------------------------------------------------------------------------
(***************************************************************************)
(* What the loops over the memory map compute.                             *)
(***************************************************************************)
LEMMA RamMaxNat ==
  ASSUME NEW q \in Seq(MapEntries)
  PROVE  RamMax(q) \in Nat
<1> DEFINE N == Len(q)
           Op(n, e) == IF e.type = "reserved" THEN n ELSE n + e.len
           Step(it) == [s \in SUBSET (DOMAIN q) |->
                          IF s = {} THEN 0 ELSE LET x == Max(s) IN Op(it[s \ {x}], q[x])]
           fold == CHOOSE it : it = Step(it)
           D == Nat
           g == [d \in D |-> [i \in 1 .. N |-> Op(d, q[i])]]
           Ds == [s \in SUBSET (1 .. N) |-> D]
<1>1. RamMax(q) = fold[DOMAIN q]
  BY Zenon DEF RamMax, FoldLeft, MapThenFoldSet
<1>2. N \in Nat /\ DOMAIN q = 1 .. N /\ \A i \in 1 .. N : q[i] \in MapEntries
  BY LenProperties
<1>3. \A d \in D : \A i \in 1 .. N : g[d][i] = Op(d, q[i]) /\ Op(d, q[i]) \in D
  BY <1>2 DEF MapEntries
<1> HIDE DEF N, D, Op, g
<1>4. 0 \in D
  BY DEF D
<1>5. PICK f : FoldsTo(f, D, 0, g, N)
  BY <1>2, <1>3, <1>4, FoldExists, Zenon
<1>6. \A s \in SUBSET (1 .. N) : s # {} => Max(s) \in 1 .. N /\ s \ {Max(s)} \in SUBSET (1 .. N)
  BY <1>2, MaxOf
<1>7. f = Step(f)
  <2>1. /\ f = [s \in SUBSET (1 .. N) |-> IF s = {} THEN 0 ELSE g[f[s \ {Max(s)}]][Max(s)]]
        /\ \A s \in SUBSET (1 .. N) : f[s] \in D
    BY <1>5, Zenon DEF FoldsTo
  <2>2. \A s \in SUBSET (1 .. N) :
          s # {} => g[f[s \ {Max(s)}]][Max(s)] = Op(f[s \ {Max(s)}], q[Max(s)])
    BY <1>3, <1>6, <2>1, Zenon
  <2>3. f = [s \in SUBSET (1 .. N) |-> IF s = {} THEN 0 ELSE Op(f[s \ {Max(s)}], q[Max(s)])]
    BY <2>1, <2>2
  <2> QED BY <2>3, <1>2, Zenon
<1>8. fold = Step(fold)
  BY <1>7, Zenon DEF fold
<1> HIDE DEF fold
<1>9. /\ fold[{}] = 0
      /\ \A s \in SUBSET (1 .. N) : s # {} => fold[s] = Op(fold[s \ {Max(s)}], q[Max(s)])
  <2> DEFINE st == [s \in SUBSET (1 .. N) |-> IF s = {} THEN 0 ELSE Op(fold[s \ {Max(s)}], q[Max(s)])]
  <2>1. st[{}] = 0 /\ \A s \in SUBSET (1 .. N) : s # {} => st[s] = Op(fold[s \ {Max(s)}], q[Max(s)])
    OBVIOUS
  <2>2. st = fold
    BY <1>8, <1>2, Zenon
  <2> HIDE DEF st
  <2> QED BY <2>1, <2>2
<1>10. fold[1 .. N] \in Ds[1 .. N]
  <2>1. fold[{}] \in Ds[{}]
    BY <1>4, <1>9
  <2>2. ASSUME NEW s \in SUBSET (1 .. N), s # {}, fold[s \ {Max(s)}] \in Ds[s \ {Max(s)}]
        PROVE  fold[s] \in Ds[s]
    <3>1. fold[s \ {Max(s)}] \in D
      BY <1>6, <2>2
    <3> QED BY <1>3, <1>6, <1>9, <2>2, <3>1
  <2> HIDE DEF Ds
  <2> QED BY <1>2, <2>1, <2>2, FoldStays, Zenon
<1> QED BY <1>1, <1>2, <1>10 DEF D

\* pi_loop_mb2_mapentries() takes the entries for use, each once.
LEMMA UsableList ==
  ASSUME NEW q \in Seq(MapEntries),
         \A i, j \in DOMAIN q :
           q[i].type = "available" /\ q[j].type = "available" /\ i # j => q[i] # q[j]
  PROVE  /\ Usable(q) \in Seq(MapEntries)
         /\ IsInjective(Usable(q))
         /\ ToSet(Usable(q)) = {q[i] : i \in {j \in DOMAIN q : q[j].type = "available"}}
<1> DEFINE N == Len(q)
           Op(a, e) == IF e.type = "available" THEN Append(a, e) ELSE a
           Step(it) == [s \in SUBSET (DOMAIN q) |->
                          IF s = {} THEN <<>> ELSE LET x == Max(s) IN Op(it[s \ {x}], q[x])]
           fold == CHOOSE it : it = Step(it)
           D == Seq(MapEntries)
           g == [d \in D |-> [i \in 1 .. N |-> Op(d, q[i])]]
           Done(s) == {q[i] : i \in {j \in s : q[j].type = "available"}}
           Ds == [s \in SUBSET (1 .. N) |-> {a \in D : IsInjective(a) /\ ToSet(a) = Done(s)}]
<1>1. Usable(q) = fold[DOMAIN q]
  BY Zenon DEF Usable, FoldLeft, MapThenFoldSet
<1>2. N \in Nat /\ DOMAIN q = 1 .. N /\ \A i \in 1 .. N : q[i] \in MapEntries
  BY LenProperties
<1>3. \A d \in D : \A i \in 1 .. N : g[d][i] = Op(d, q[i]) /\ Op(d, q[i]) \in D
  <2>1. \A d \in Seq(MapEntries) : \A i \in 1 .. N : Append(d, q[i]) \in Seq(MapEntries)
    BY <1>2, AppendList
  <2> QED BY <2>1
<1> HIDE DEF N, D, g, Done
<1>4. <<>> \in D
  BY DEF D
<1> HIDE DEF Op
<1>5. PICK f : FoldsTo(f, D, <<>>, g, N)
  BY <1>2, <1>3, <1>4, FoldExists, Zenon
<1>6. \A s \in SUBSET (1 .. N) : s # {} => Max(s) \in 1 .. N /\ s \ {Max(s)} \in SUBSET (1 .. N)
  BY <1>2, MaxOf
<1>7. f = Step(f)
  <2>1. /\ f = [s \in SUBSET (1 .. N) |-> IF s = {} THEN <<>> ELSE g[f[s \ {Max(s)}]][Max(s)]]
        /\ \A s \in SUBSET (1 .. N) : f[s] \in D
    BY <1>5, Zenon DEF FoldsTo
  <2>2. \A s \in SUBSET (1 .. N) :
          s # {} => g[f[s \ {Max(s)}]][Max(s)] = Op(f[s \ {Max(s)}], q[Max(s)])
    BY <1>3, <1>6, <2>1, Zenon
  <2>3. f = [s \in SUBSET (1 .. N) |-> IF s = {} THEN <<>> ELSE Op(f[s \ {Max(s)}], q[Max(s)])]
    BY <2>1, <2>2
  <2> QED BY <2>3, <1>2, Zenon
<1>8. fold = Step(fold)
  BY <1>7, Zenon DEF fold
<1> HIDE DEF fold
<1>9. /\ fold[{}] = <<>>
      /\ \A s \in SUBSET (1 .. N) : s # {} => fold[s] = Op(fold[s \ {Max(s)}], q[Max(s)])
  <2> DEFINE st == [s \in SUBSET (1 .. N) |->
                      IF s = {} THEN <<>> ELSE Op(fold[s \ {Max(s)}], q[Max(s)])]
  <2>1. st[{}] = <<>> /\ \A s \in SUBSET (1 .. N) : s # {} => st[s] = Op(fold[s \ {Max(s)}], q[Max(s)])
    OBVIOUS
  <2>2. st = fold
    BY <1>8, <1>2, Zenon
  <2> HIDE DEF st
  <2> QED BY <2>1, <2>2
<1>10. fold[1 .. N] \in Ds[1 .. N]
  <2>1. fold[{}] \in Ds[{}]
    <3>1. Done({}) = {}
      BY DEF Done
    <3>2. IsInjective(<<>>) /\ ToSet(<<>>) = {}
      BY DEF IsInjective, ToSet
    <3> QED BY <1>4, <1>9, <3>1, <3>2
  <2>2. ASSUME NEW s \in SUBSET (1 .. N), s # {}, fold[s \ {Max(s)}] \in Ds[s \ {Max(s)}]
        PROVE  fold[s] \in Ds[s]
    <3> DEFINE x == Max(s)
               a == fold[s \ {x}]
    <3>1. x \in s /\ x \in 1 .. N /\ s \ {x} \in SUBSET (1 .. N)
      BY <1>2, <1>6, <2>2, MaxOf
    <3>2. a \in Seq(MapEntries) /\ IsInjective(a) /\ ToSet(a) = Done(s \ {x})
      BY <2>2, <3>1 DEF D
    <3>3. fold[s] = Op(a, q[x])
      BY <1>9, <2>2
    <3> HIDE DEF x, a
    <3>4. q[x] \in MapEntries
      BY <1>2, <3>1
    <3>5. CASE q[x].type = "available"
      <4>1. fold[s] = Append(a, q[x])
        BY <3>3, <3>5 DEF Op
      <4>2. Done(s) = {q[x]} \cup Done(s \ {x})
        BY <3>1, <3>5 DEF Done
      <4>3. q[x] \notin Done(s \ {x})
        BY <1>2, <3>1, <3>5 DEF Done
      <4>4. Append(a, q[x]) \in Seq(MapEntries) /\ IsInjective(Append(a, q[x]))
              /\ ToSet(Append(a, q[x])) = Done(s)
        BY <3>2, <3>4, <4>2, <4>3, AppendList
      <4> QED BY <4>1, <4>4 DEF D
    <3>6. CASE q[x].type # "available"
      <4>1. fold[s] = a
        BY <3>3, <3>6 DEF Op
      <4>2. Done(s) = Done(s \ {x})
        BY <3>1, <3>6 DEF Done
      <4> QED BY <4>1, <4>2, <3>2 DEF D
    <3> QED BY <3>5, <3>6
  <2> HIDE DEF Ds
  <2> QED BY <1>2, <2>1, <2>2, FoldStays, Zenon
<1>11. Ds[1 .. N] = {a \in D : IsInjective(a) /\ ToSet(a) = Done(1 .. N)}
  OBVIOUS
<1> QED BY <1>1, <1>2, <1>10, <1>11 DEF D, Done

\* Sorting moves the entries and loses none.
LEMMA SortedList ==
  ASSUME NEW q \in Seq(MapEntries), IsInjective(q)
  PROVE  /\ pi_sort_boot_mapentries(q) \in Seq(MapEntries)
         /\ IsInjective(pi_sort_boot_mapentries(q))
         /\ ToSet(pi_sort_boot_mapentries(q)) = ToSet(q)
<1> DEFINE N == Len(q)
           Place(a, e) == 1 + Max({0} \cup {j \in DOMAIN a : a[j].base <= e.base})
           Op(a, e) == InsertAt(a, Place(a, e), e)
           Step(it) == [s \in SUBSET (DOMAIN q) |->
                          IF s = {} THEN <<>> ELSE LET x == Max(s) IN Op(it[s \ {x}], q[x])]
           fold == CHOOSE it : it = Step(it)
           D == Seq(MapEntries)
           g == [d \in D |-> [i \in 1 .. N |-> Op(d, q[i])]]
           Done(s) == {q[i] : i \in s}
           Ds == [s \in SUBSET (1 .. N) |-> {a \in D : IsInjective(a) /\ ToSet(a) = Done(s)}]
<1>1. pi_sort_boot_mapentries(q) = fold[DOMAIN q]
  BY Zenon DEF pi_sort_boot_mapentries, FoldLeft, MapThenFoldSet
<1>2. N \in Nat /\ DOMAIN q = 1 .. N /\ \A i \in 1 .. N : q[i] \in MapEntries
  BY LenProperties
<1>inserted. ASSUME NEW a \in Seq(MapEntries), NEW e \in MapEntries
             PROVE  /\ Op(a, e) \in Seq(MapEntries)
                    /\ ToSet(Op(a, e)) = ToSet(a) \cup {e}
                    /\ IsInjective(a) /\ e \notin ToSet(a) => IsInjective(Op(a, e))
  <2> DEFINE behind == {0} \cup {j \in DOMAIN a : a[j].base <= e.base}
             place == 1 + Max(behind)
  <2>1. Len(a) \in Nat /\ DOMAIN a = 1 .. Len(a)
    BY LenProperties
  <2>2. behind \in SUBSET (0 .. Len(a)) /\ behind # {} /\ 0 \in Int /\ Len(a) \in Int
    BY <2>1
  <2>3. Max(behind) \in behind
    <3> HIDE DEF behind
    <3> QED BY <2>2, MaxBetween, Zenon
  <2>4. Max(behind) \in 0 .. Len(a)
    <3> HIDE DEF behind
    <3> QED BY <2>2, <2>3
  <2>5. PICK n \in 1 .. Len(a) + 1 : Op(a, e) = InsertAt(a, n, e)
    <3>1. Op(a, e) = InsertAt(a, place, e)
      OBVIOUS
    <3>2. place \in 1 .. Len(a) + 1
      <4> HIDE DEF behind, Op
      <4> QED BY <2>1, <2>4
    <3> HIDE DEF place, Op
    <3> QED BY <3>1, <3>2
  <2> HIDE DEF place, behind, Op
  <2>6. /\ InsertAt(a, n, e) \in Seq(MapEntries)
        /\ DOMAIN InsertAt(a, n, e) = 1 .. Len(a) + 1
        /\ \A i \in 1 .. Len(a) + 1 :
             InsertAt(a, n, e)[i] = IF i < n THEN a[i] ELSE IF i = n THEN e ELSE a[i - 1]
        /\ ToSet(InsertAt(a, n, e)) = ToSet(a) \cup {e}
    BY InsertList
  <2>7. ASSUME IsInjective(a), e \notin ToSet(a)
        PROVE  IsInjective(InsertAt(a, n, e))
    <3> DEFINE t == InsertAt(a, n, e)
    <3>1. ASSUME NEW i \in 1 .. Len(a) + 1, NEW j \in 1 .. Len(a) + 1, i < j
          PROVE  t[i] # t[j]
      <4>1. /\ i <= Len(a) /\ i \in 1 .. Len(a)
            /\ (i > n => i - 1 \in 1 .. Len(a)) /\ (j > n => j - 1 \in 1 .. Len(a))
            /\ (j < n => j \in 1 .. Len(a))
        BY <2>1, <2>5, <3>1
      <4>2. /\ t[i] = IF i < n THEN a[i] ELSE IF i = n THEN e ELSE a[i - 1]
            /\ t[j] = IF j < n THEN a[j] ELSE IF j = n THEN e ELSE a[j - 1]
        BY <2>6
      <4>3. /\ \A k \in 1 .. Len(a) : a[k] # e
            /\ \A k, m \in 1 .. Len(a) : k # m => a[k] # a[m]
        BY <2>1, <2>7 DEF IsInjective, ToSet
      <4> HIDE DEF t
      <4>4. CASE j < n
        BY <2>1, <2>5, <3>1, <4>1, <4>2, <4>3, <4>4
      <4>5. CASE j = n
        BY <2>1, <2>5, <3>1, <4>1, <4>2, <4>3, <4>5
      <4>6. CASE j > n /\ i = n
        BY <2>1, <2>5, <3>1, <4>1, <4>2, <4>3, <4>6
      <4>7. CASE j > n /\ i < n
        BY <2>1, <2>5, <3>1, <4>1, <4>2, <4>3, <4>7
      <4>8. CASE j > n /\ i > n
        BY <2>1, <2>5, <3>1, <4>1, <4>2, <4>3, <4>8
      <4> QED BY <2>5, <2>1, <4>4, <4>5, <4>6, <4>7, <4>8
    <3>2. DOMAIN t = 1 .. Len(a) + 1
      BY <2>6
    <3> HIDE DEF t
    <3>3. \A i, j \in DOMAIN t : t[i] = t[j] => i = j
      <4> SUFFICES ASSUME NEW i \in 1 .. Len(a) + 1, NEW j \in 1 .. Len(a) + 1, t[i] = t[j], i # j
                   PROVE  FALSE
        BY <3>2
      <4>1. i < j \/ j < i
        BY <2>1
      <4> QED BY <4>1, <3>1
    <3> QED BY <3>3 DEF IsInjective, t
  <2> QED BY <2>5, <2>6, <2>7
<1> HIDE DEF Op
<1>3. \A d \in D : \A i \in 1 .. N : g[d][i] = Op(d, q[i]) /\ Op(d, q[i]) \in D
  BY <1>2, <1>inserted
<1> HIDE DEF N, D, g, Done
<1>4. <<>> \in D
  BY DEF D
<1>5. PICK f : FoldsTo(f, D, <<>>, g, N)
  BY <1>2, <1>3, <1>4, FoldExists, Zenon
<1>6. \A s \in SUBSET (1 .. N) : s # {} => Max(s) \in 1 .. N /\ s \ {Max(s)} \in SUBSET (1 .. N)
  BY <1>2, MaxOf
<1>7. f = Step(f)
  <2>1. /\ f = [s \in SUBSET (1 .. N) |-> IF s = {} THEN <<>> ELSE g[f[s \ {Max(s)}]][Max(s)]]
        /\ \A s \in SUBSET (1 .. N) : f[s] \in D
    BY <1>5, Zenon DEF FoldsTo
  <2>2. \A s \in SUBSET (1 .. N) :
          s # {} => g[f[s \ {Max(s)}]][Max(s)] = Op(f[s \ {Max(s)}], q[Max(s)])
    BY <1>3, <1>6, <2>1, Zenon
  <2>3. f = [s \in SUBSET (1 .. N) |-> IF s = {} THEN <<>> ELSE Op(f[s \ {Max(s)}], q[Max(s)])]
    BY <2>1, <2>2
  <2> QED BY <2>3, <1>2, Zenon
<1>8. fold = Step(fold)
  BY <1>7, Zenon DEF fold
<1> HIDE DEF fold
<1>9. /\ fold[{}] = <<>>
      /\ \A s \in SUBSET (1 .. N) : s # {} => fold[s] = Op(fold[s \ {Max(s)}], q[Max(s)])
  <2> DEFINE st == [s \in SUBSET (1 .. N) |->
                      IF s = {} THEN <<>> ELSE Op(fold[s \ {Max(s)}], q[Max(s)])]
  <2>1. st[{}] = <<>> /\ \A s \in SUBSET (1 .. N) : s # {} => st[s] = Op(fold[s \ {Max(s)}], q[Max(s)])
    OBVIOUS
  <2>2. st = fold
    BY <1>8, <1>2, Zenon
  <2> HIDE DEF st
  <2> QED BY <2>1, <2>2
<1>10. fold[1 .. N] \in Ds[1 .. N]
  <2>1. fold[{}] \in Ds[{}]
    <3>1. Done({}) = {}
      BY DEF Done
    <3>2. IsInjective(<<>>) /\ ToSet(<<>>) = {}
      BY DEF IsInjective, ToSet
    <3> QED BY <1>4, <1>9, <3>1, <3>2
  <2>2. ASSUME NEW s \in SUBSET (1 .. N), s # {}, fold[s \ {Max(s)}] \in Ds[s \ {Max(s)}]
        PROVE  fold[s] \in Ds[s]
    <3> DEFINE x == Max(s)
               a == fold[s \ {x}]
    <3>1. x \in s /\ x \in 1 .. N /\ s \ {x} \in SUBSET (1 .. N)
      BY <1>2, <1>6, <2>2, MaxOf
    <3>2. a \in Seq(MapEntries) /\ IsInjective(a) /\ ToSet(a) = Done(s \ {x})
      BY <2>2, <3>1 DEF D
    <3>3. fold[s] = Op(a, q[x])
      BY <1>9, <2>2
    <3> HIDE DEF x, a
    <3>4. q[x] \in MapEntries
      BY <1>2, <3>1
    <3>5. Done(s) = Done(s \ {x}) \cup {q[x]}
      BY <3>1 DEF Done
    <3>6. q[x] \notin Done(s \ {x})
      BY <1>2, <3>1 DEF Done, IsInjective
    <3> QED BY <3>2, <3>3, <3>4, <3>5, <3>6, <1>inserted DEF D
  <2> HIDE DEF Ds
  <2> QED BY <1>2, <2>1, <2>2, FoldStays, Zenon
<1>11. Ds[1 .. N] = {a \in D : IsInjective(a) /\ ToSet(a) = Done(1 .. N)}
  OBVIOUS
<1> QED BY <1>1, <1>2, <1>10, <1>11 DEF D, Done, ToSet

-----------------------------------------------------------------------------
(***************************************************************************)
(* Building tables takes frames from the pool and from nowhere else.       *)
(***************************************************************************)
FlagNames == {"present", "writable", "pagesize"}

Entries == [to : Int, flags : SUBSET FlagNames]

Tables == [0 .. PT_ENTRIES - 1 -> Entries]

Faults == {"none", "page used as a table", "table at KPAGE_ERR"}

\* Memories whose tables and whose frames for tables are among A.
Memories(A) ==
  [mem : UNION {[S -> Tables] : S \in SUBSET A}, pool : SUBSET A, fault : Faults]

\* Frames between two bounds.
Bounded(A) == \E lo, hi \in Int : A \subseteq lo .. hi

LEMMA Sizes ==
  /\ PT_ENTRIES \in Nat /\ PT_ENTRIES >= 2
  /\ \A k \in 1 .. 4 : EntrySize(k) \in Nat \ {0}
  /\ EntrySize(1) = 1
<1>1. PT_ENTRIES \in Nat /\ PT_ENTRIES >= 2
  BY LayoutAssumption
<1>2. /\ EntrySize(1) = 1 /\ EntrySize(2) = PT_ENTRIES
      /\ EntrySize(3) = PT_ENTRIES * PT_ENTRIES
      /\ EntrySize(4) = PT_ENTRIES * PT_ENTRIES * PT_ENTRIES
  BY DEF EntrySize
<1>3. PT_ENTRIES * PT_ENTRIES \in Nat \ {0}
  BY <1>1
<1>4. PT_ENTRIES * PT_ENTRIES * PT_ENTRIES \in Nat \ {0}
  <2> DEFINE w == PT_ENTRIES * PT_ENTRIES
  <2>1. w \in Nat \ {0}
    BY <1>3
  <2> HIDE DEF w
  <2>2. w * PT_ENTRIES \in Nat \ {0}
    BY <1>1, <2>1
  <2> QED BY <2>2 DEF w
<1>5. \A k \in 1 .. 4 : k = 1 \/ k = 2 \/ k = 3 \/ k = 4
  OBVIOUS
<1> QED BY <1>1, <1>2, <1>3, <1>4, <1>5

LEMMA BlankTable == Blank \in Tables
BY DEF Blank, Tables, Entries, Absent

LEMMA RWFlags == RW \in SUBSET FlagNames /\ RW \cup {"pagesize"} \in SUBSET FlagNames
BY DEF RW, FlagNames

LEMMA MemoryParts ==
  ASSUME NEW A, NEW m \in Memories(A)
  PROVE  /\ m = [mem |-> m.mem, pool |-> m.pool, fault |-> m.fault]
         /\ DOMAIN m.mem \subseteq A /\ m.mem \in [DOMAIN m.mem -> Tables]
         /\ m.pool \subseteq A /\ m.fault \in Faults
BY DEF Memories

LEMMA MemoryMade ==
  ASSUME NEW A, NEW S, S \subseteq A, NEW f \in [S -> Tables], NEW P, P \subseteq A, NEW x \in Faults
  PROVE  [mem |-> f, pool |-> P, fault |-> x] \in Memories(A)
BY DEF Memories

LEMMA StopStays ==
  ASSUME NEW A, NEW m \in Memories(A), NEW x \in Faults
  PROVE  Stop(m, x) \in Memories(A)
<1>1. Stop(m, x) = [mem |-> m.mem, pool |-> m.pool, fault |-> x]
  BY MemoryParts DEF Stop
<1>2. /\ DOMAIN m.mem \subseteq A /\ m.mem \in [DOMAIN m.mem -> Tables] /\ m.pool \subseteq A
  BY MemoryParts
<1> QED BY <1>1, <1>2, MemoryMade

LEMMA GrabStays ==
  ASSUME NEW A, NEW m \in Memories(A), NEW f \in A
  PROVE  Grab(m, f) \in Memories(A)
<1> DEFINE S == DOMAIN m.mem \cup {f}
           t == [g \in S |-> IF g = f THEN Blank ELSE m.mem[g]]
<1>1. Grab(m, f) = [mem |-> t, pool |-> m.pool \ {f}, fault |-> m.fault]
  <2>1. Grab(m, f) = [m EXCEPT !.mem = t, !.pool = m.pool \ {f}]
    BY Zenon DEF Grab
  <2>2. m = [mem |-> m.mem, pool |-> m.pool, fault |-> m.fault]
    BY MemoryParts
  <2> HIDE DEF t
  <2> QED BY <2>1, <2>2
<1>2. S \subseteq A /\ m.pool \ {f} \subseteq A /\ m.fault \in Faults
  BY MemoryParts
<1>3. t \in [S -> Tables]
  <2>1. \A g \in S : (IF g = f THEN Blank ELSE m.mem[g]) \in Tables
    BY MemoryParts, BlankTable
  <2> QED BY <2>1
<1> HIDE DEF S, t
<1> QED BY <1>1, <1>2, <1>3, MemoryMade

LEMMA WriteStays ==
  ASSUME NEW A, NEW m \in Memories(A), NEW t, NEW i, NEW e \in Entries
  PROVE  Write(m, t, i, e) \in Memories(A)
<1>1. CASE m.fault # "none"
  BY <1>1 DEF Write
<1>2. CASE m.fault = "none"
  <2> DEFINE new == [m.mem EXCEPT ![t] = [m.mem[t] EXCEPT ![i] = e]]
  <2>1. Write(m, t, i, e) = [mem |-> new, pool |-> m.pool, fault |-> m.fault]
    BY <1>2, MemoryParts DEF Write
  <2>2. new \in [DOMAIN m.mem -> Tables]
    <3>1. m.mem \in [DOMAIN m.mem -> Tables]
      BY MemoryParts
    <3>2. CASE t \in DOMAIN m.mem
      <4>1. m.mem[t] \in Tables
        BY <3>1, <3>2
      <4>2. [m.mem[t] EXCEPT ![i] = e] \in Tables
        BY <4>1 DEF Tables
      <4> QED BY <3>1, <3>2, <4>2
    <3>3. CASE t \notin DOMAIN m.mem
      BY <3>1, <3>3
    <3> QED BY <3>2, <3>3
  <2>3. DOMAIN m.mem \subseteq A /\ m.pool \subseteq A /\ m.fault \in Faults
    BY MemoryParts
  <2> HIDE DEF new
  <2> QED BY <2>1, <2>2, <2>3, MemoryMade
<1> QED BY <1>1, <1>2

LEMMA AllocStays ==
  ASSUME NEW A, Bounded(A), NEW m \in Memories(A), NEW t, NEW i
  PROVE  return_pt_or_alloc(m, t, i) \in Memories(A)
<1>1. PICK lo \in Int, hi \in Int : A \subseteq lo .. hi
  BY DEF Bounded
<1>2. CASE m.fault # "none" \/ ("present" \in m.mem[t][i].flags) \/ m.pool = {}
  <2>1. "page used as a table" \in Faults /\ "table at KPAGE_ERR" \in Faults
    BY DEF Faults
  <2>2. Stop(m, "page used as a table") \in Memories(A) /\ Stop(m, "table at KPAGE_ERR") \in Memories(A)
    BY <2>1, StopStays
  <2> QED BY <1>2, <2>2 DEF return_pt_or_alloc
<1>3. CASE m.fault = "none" /\ ~("present" \in m.mem[t][i].flags) /\ m.pool # {}
  <2> DEFINE f == Max(m.pool)
  <2>1. return_pt_or_alloc(m, t, i) = Write(Grab(m, f), t, i, [to |-> f, flags |-> RW])
    BY <1>3 DEF return_pt_or_alloc
  <2>2. m.pool \in SUBSET (lo .. hi) /\ m.pool \subseteq A
    BY <1>1, MemoryParts
  <2>3. f \in m.pool
    BY <1>1, <1>3, <2>2, MaxBetween
  <2>4. f \in A /\ f \in Int
    BY <1>1, <2>2, <2>3
  <2> HIDE DEF f
  <2>5. [to |-> f, flags |-> RW] \in Entries
    BY <2>4, RWFlags DEF Entries
  <2> QED BY <2>1, <2>4, <2>5, GrabStays, WriteStays
<1> QED BY <1>2, <1>3

\* What the loops that map huge pages work on.
Filling(A) ==
  [m : Memories(A), leaf : {3}, v : Int, p : Int, flags : SUBSET FlagNames, rem : [1 .. 3 -> Int]]

LEMMA MapEntryStays ==
  ASSUME NEW A, NEW s \in Filling(A), NEW t
  PROVE  MapEntry(s, t, 3) \in Filling(A)
<1>1. EntrySize(3) \in Int
  BY Sizes
<1>2. [to |-> s.p, flags |-> s.flags] \in Entries
  BY DEF Filling, Entries
<1>3. Write(s.m, t, Idx(s.v, 3), [to |-> s.p, flags |-> s.flags]) \in Memories(A)
  BY <1>2, WriteStays DEF Filling
<1> DEFINE w == Write(s.m, t, Idx(s.v, 3), [to |-> s.p, flags |-> s.flags])
<1>4. MapEntry(s, t, 3) = [s EXCEPT !.m = w, !.v = s.v + EntrySize(3), !.p = s.p + EntrySize(3)]
  BY DEF MapEntry
<1>5. w \in Memories(A)
  BY <1>3
<1>6. s = [m |-> s.m, leaf |-> s.leaf, v |-> s.v, p |-> s.p, flags |-> s.flags, rem |-> s.rem]
  BY DEF Filling
<1> HIDE DEF w
<1>7. MapEntry(s, t, 3) = [m |-> w, leaf |-> s.leaf, v |-> s.v + EntrySize(3), p |-> s.p + EntrySize(3),
                           flags |-> s.flags, rem |-> s.rem]
  BY <1>4, <1>6
<1>8. s.leaf = 3 /\ s.v \in Int /\ s.p \in Int /\ s.flags \in SUBSET FlagNames /\ s.rem \in [1 .. 3 -> Int]
  BY DEF Filling
<1>9. s.v + EntrySize(3) \in Int /\ s.p + EntrySize(3) \in Int
  BY <1>1, <1>8
<1> QED BY <1>5, <1>7, <1>8, <1>9 DEF Filling

LEMMA Fill3Stays ==
  ASSUME NEW A, NEW s0 \in Filling(A), NEW t, NEW n \in Int
  PROVE  Fill3(s0, t, n) \in Filling(A)
<1> DEFINE N == IF n < 0 THEN 0 ELSE n
           q == [i \in 1 .. n |-> i]
           Op(a, i) == IF a.m.fault # "none" THEN a
                       ELSE IF a.leaf = 3 THEN MapEntry(a, t, 3) ELSE MapTable(a, t, 3, Fill2)
           Step(it) == [s \in SUBSET (DOMAIN q) |->
                          IF s = {} THEN s0 ELSE LET x == Max(s) IN Op(it[s \ {x}], q[x])]
           fold == CHOOSE it : it = Step(it)
           D == Filling(A)
           g == [d \in D |-> [i \in 1 .. N |-> Op(d, q[i])]]
           Ds == [s \in SUBSET (1 .. N) |-> D]
<1>1. Fill3(s0, t, n) = fold[DOMAIN q]
  BY Zenon DEF Fill3, Rounds, FoldLeft, MapThenFoldSet
<1>2. N \in Nat /\ DOMAIN q = 1 .. N
  OBVIOUS
<1>3. \A d \in D : \A i \in 1 .. N : g[d][i] = Op(d, q[i]) /\ Op(d, q[i]) \in D
  <2> SUFFICES ASSUME NEW d \in D, NEW i \in 1 .. N PROVE Op(d, q[i]) \in D
    BY Zenon
  <2>1. d.leaf = 3
    BY DEF Filling
  <2>2. MapEntry(d, t, 3) \in D
    BY MapEntryStays
  <2> HIDE DEF D, q
  <2> QED BY <2>1, <2>2
<1> HIDE DEF N, D, Op, g, q
<1>4. s0 \in D
  BY DEF D
<1>5. PICK f : FoldsTo(f, D, s0, g, N)
  BY <1>2, <1>3, <1>4, FoldExists, Zenon
<1>6. \A s \in SUBSET (1 .. N) : s # {} => Max(s) \in 1 .. N /\ s \ {Max(s)} \in SUBSET (1 .. N)
  BY <1>2, MaxOf
<1>7. f = Step(f)
  <2>1. /\ f = [s \in SUBSET (1 .. N) |-> IF s = {} THEN s0 ELSE g[f[s \ {Max(s)}]][Max(s)]]
        /\ \A s \in SUBSET (1 .. N) : f[s] \in D
    BY <1>5, Zenon DEF FoldsTo
  <2>2. \A s \in SUBSET (1 .. N) :
          s # {} => g[f[s \ {Max(s)}]][Max(s)] = Op(f[s \ {Max(s)}], q[Max(s)])
    BY <1>3, <1>6, <2>1, Zenon
  <2>3. f = [s \in SUBSET (1 .. N) |-> IF s = {} THEN s0 ELSE Op(f[s \ {Max(s)}], q[Max(s)])]
    BY <2>1, <2>2
  <2> QED BY <2>3, <1>2, Zenon
<1>8. fold = Step(fold)
  BY <1>7, Zenon DEF fold
<1> HIDE DEF fold
<1>9. /\ fold[{}] = s0
      /\ \A s \in SUBSET (1 .. N) : s # {} => fold[s] = Op(fold[s \ {Max(s)}], q[Max(s)])
  <2> DEFINE st == [s \in SUBSET (1 .. N) |->
                      IF s = {} THEN s0 ELSE Op(fold[s \ {Max(s)}], q[Max(s)])]
  <2>1. st[{}] = s0 /\ \A s \in SUBSET (1 .. N) : s # {} => st[s] = Op(fold[s \ {Max(s)}], q[Max(s)])
    OBVIOUS
  <2>2. st = fold
    BY <1>8, <1>2, Zenon
  <2> HIDE DEF st
  <2> QED BY <2>1, <2>2
<1>10. fold[1 .. N] \in Ds[1 .. N]
  <2>1. fold[{}] \in Ds[{}]
    BY <1>4, <1>9
  <2>2. ASSUME NEW s \in SUBSET (1 .. N), s # {}, fold[s \ {Max(s)}] \in Ds[s \ {Max(s)}]
        PROVE  fold[s] \in Ds[s]
    <3>1. fold[s \ {Max(s)}] \in D
      BY <1>6, <2>2
    <3> QED BY <1>3, <1>6, <1>9, <2>2, <3>1
  <2> HIDE DEF Ds
  <2> QED BY <1>2, <2>1, <2>2, FoldStays, Zenon
<1> QED BY <1>1, <1>2, <1>10 DEF D

\* One table's share of the huge pages.
LEMMA MapTableStays ==
  ASSUME NEW A, Bounded(A), NEW s \in Filling(A), NEW t
  PROVE  MapTable(s, t, 4, Fill3) \in Filling(A)
<1> DEFINE m1 == return_pt_or_alloc(s.m, t, Idx(s.v, 4))
           c == Min({PT_ENTRIES, s.rem[3]})
           s2 == [s EXCEPT !.m = m1]
           s1 == Fill3(s2, m1.mem[t][Idx(s.v, 4)].to, c)
<1>1. /\ s = [m |-> s.m, leaf |-> s.leaf, v |-> s.v, p |-> s.p, flags |-> s.flags, rem |-> s.rem]
      /\ s.m \in Memories(A) /\ s.leaf = 3 /\ s.v \in Int /\ s.p \in Int
      /\ s.flags \in SUBSET FlagNames /\ s.rem \in [1 .. 3 -> Int]
  BY DEF Filling
<1>2. MapTable(s, t, 4, Fill3) = IF m1.fault # "none" THEN s2 ELSE [s1 EXCEPT !.rem[3] = s1.rem[3] - c]
  <2>1. 4 - 1 = 3 /\ ~(4 = 4 /\ s.leaf = 2)
    BY <1>1
  <2> QED BY <2>1 DEF MapTable
<1>3. m1 \in Memories(A)
  BY <1>1, AllocStays
<1>4. c \in Int
  <2>1. PT_ENTRIES \in Int /\ s.rem[3] \in Int
    BY <1>1, Sizes
  <2> DEFINE x == s.rem[3]
  <2> HIDE DEF x
  <2>2. \E y \in {PT_ENTRIES, x} : \A z \in {PT_ENTRIES, x} : y <= z
    BY <2>1 DEF x
  <2>3. Min({PT_ENTRIES, x}) \in {PT_ENTRIES, x}
    BY <2>2 DEF Min
  <2> QED BY <2>1, <2>3 DEF x
<1> HIDE DEF c, m1
<1>5. s2 \in Filling(A)
  <2>1. s2 = [m |-> m1, leaf |-> s.leaf, v |-> s.v, p |-> s.p, flags |-> s.flags, rem |-> s.rem]
    BY <1>1
  <2> HIDE DEF s2
  <2> QED BY <1>1, <1>3, <2>1 DEF Filling
<1> HIDE DEF s2
<1>6. s1 \in Filling(A)
  BY <1>4, <1>5, Fill3Stays
<1> HIDE DEF s1
<1>7. [s1 EXCEPT !.rem[3] = s1.rem[3] - c] \in Filling(A)
  <2> DEFINE r == [s1.rem EXCEPT ![3] = s1.rem[3] - c]
  <2>1. /\ s1 = [m |-> s1.m, leaf |-> s1.leaf, v |-> s1.v, p |-> s1.p, flags |-> s1.flags, rem |-> s1.rem]
        /\ s1.m \in Memories(A) /\ s1.leaf = 3 /\ s1.v \in Int /\ s1.p \in Int
        /\ s1.flags \in SUBSET FlagNames /\ s1.rem \in [1 .. 3 -> Int]
    BY <1>6 DEF Filling
  <2>2. r \in [1 .. 3 -> Int]
    BY <1>4, <2>1
  <2>3. [s1 EXCEPT !.rem[3] = s1.rem[3] - c] = [s1 EXCEPT !.rem = r]
    OBVIOUS
  <2> HIDE DEF r
  <2>4. [s1 EXCEPT !.rem = r] =
          [m |-> s1.m, leaf |-> s1.leaf, v |-> s1.v, p |-> s1.p, flags |-> s1.flags, rem |-> r]
    BY <2>1
  <2> QED BY <2>1, <2>2, <2>3, <2>4 DEF Filling
<1> QED BY <1>2, <1>5, <1>7

LEMMA Fill4Stays ==
  ASSUME NEW A, Bounded(A), NEW s0 \in Filling(A), NEW t, NEW n \in Int
  PROVE  Fill4(s0, t, n) \in Filling(A)
<1> DEFINE N == IF n < 0 THEN 0 ELSE n
           q == [i \in 1 .. n |-> i]
           Op(a, i) == IF a.m.fault # "none" THEN a ELSE MapTable(a, t, 4, Fill3)
           Step(it) == [s \in SUBSET (DOMAIN q) |->
                          IF s = {} THEN s0 ELSE LET x == Max(s) IN Op(it[s \ {x}], q[x])]
           fold == CHOOSE it : it = Step(it)
           D == Filling(A)
           g == [d \in D |-> [i \in 1 .. N |-> Op(d, q[i])]]
           Ds == [s \in SUBSET (1 .. N) |-> D]
<1>1. Fill4(s0, t, n) = fold[DOMAIN q]
  BY Zenon DEF Fill4, Rounds, FoldLeft, MapThenFoldSet
<1>2. N \in Nat /\ DOMAIN q = 1 .. N
  OBVIOUS
<1>3. \A d \in D : \A i \in 1 .. N : g[d][i] = Op(d, q[i]) /\ Op(d, q[i]) \in D
  <2> SUFFICES ASSUME NEW d \in D, NEW i \in 1 .. N PROVE Op(d, q[i]) \in D
    BY Zenon
  <2>1. MapTable(d, t, 4, Fill3) \in D
    BY MapTableStays
  <2> HIDE DEF D, q
  <2> QED BY <2>1
<1> HIDE DEF N, D, Op, g, q
<1>4. s0 \in D
  BY DEF D
<1>5. PICK f : FoldsTo(f, D, s0, g, N)
  BY <1>2, <1>3, <1>4, FoldExists, Zenon
<1>6. \A s \in SUBSET (1 .. N) : s # {} => Max(s) \in 1 .. N /\ s \ {Max(s)} \in SUBSET (1 .. N)
  BY <1>2, MaxOf
<1>7. f = Step(f)
  <2>1. /\ f = [s \in SUBSET (1 .. N) |-> IF s = {} THEN s0 ELSE g[f[s \ {Max(s)}]][Max(s)]]
        /\ \A s \in SUBSET (1 .. N) : f[s] \in D
    BY <1>5, Zenon DEF FoldsTo
  <2>2. \A s \in SUBSET (1 .. N) :
          s # {} => g[f[s \ {Max(s)}]][Max(s)] = Op(f[s \ {Max(s)}], q[Max(s)])
    BY <1>3, <1>6, <2>1, Zenon
  <2>3. f = [s \in SUBSET (1 .. N) |-> IF s = {} THEN s0 ELSE Op(f[s \ {Max(s)}], q[Max(s)])]
    BY <2>1, <2>2
  <2> QED BY <2>3, <1>2, Zenon
<1>8. fold = Step(fold)
  BY <1>7, Zenon DEF fold
<1> HIDE DEF fold
<1>9. /\ fold[{}] = s0
      /\ \A s \in SUBSET (1 .. N) : s # {} => fold[s] = Op(fold[s \ {Max(s)}], q[Max(s)])
  <2> DEFINE st == [s \in SUBSET (1 .. N) |->
                      IF s = {} THEN s0 ELSE Op(fold[s \ {Max(s)}], q[Max(s)])]
  <2>1. st[{}] = s0 /\ \A s \in SUBSET (1 .. N) : s # {} => st[s] = Op(fold[s \ {Max(s)}], q[Max(s)])
    OBVIOUS
  <2>2. st = fold
    BY <1>8, <1>2, Zenon
  <2> HIDE DEF st
  <2> QED BY <2>1, <2>2
<1>10. fold[1 .. N] \in Ds[1 .. N]
  <2>1. fold[{}] \in Ds[{}]
    BY <1>4, <1>9
  <2>2. ASSUME NEW s \in SUBSET (1 .. N), s # {}, fold[s \ {Max(s)}] \in Ds[s \ {Max(s)}]
        PROVE  fold[s] \in Ds[s]
    <3>1. fold[s \ {Max(s)}] \in D
      BY <1>6, <2>2
    <3> QED BY <1>3, <1>6, <1>9, <2>2, <3>1
  <2> HIDE DEF Ds
  <2> QED BY <1>2, <2>1, <2>2, FoldStays, Zenon
<1> QED BY <1>1, <1>2, <1>10 DEF D

LEMMA CountInt ==
  ASSUME NEW pages \in Int, NEW k \in 1 .. 4
  PROVE  Count(pages, k) \in Int
<1>1. EntrySize(k) \in Nat \ {0}
  BY Sizes
<1> DEFINE w == EntrySize(k)
<1> HIDE DEF w
<1>2. w \in Nat \ {0} /\ pages + w - 1 \in Int
  BY <1>1 DEF w
<1>3. (pages + w - 1) \div w \in Int
  BY <1>2, DivMod
<1> QED BY <1>3 DEF w, Count

\* The direct map takes its tables from the pool.
LEMMA DirectMapStays ==
  ASSUME NEW A, Bounded(A), NEW m \in Memories(A), NEW l4, NEW pages \in Int
  PROVE  remap_bootmem_dmap_pages(m, l4, pages) \in Memories(A)
<1> DEFINE fl == RW \cup {"pagesize"}
           rm == [k \in 1 .. 3 |-> Count(pages, k)]
           s == [m |-> m, leaf |-> 3, v |-> KERNEL_PHMMAP, p |-> 0, flags |-> fl, rem |-> rm]
<1>1. remap_bootmem_dmap_pages(m, l4, pages) = Fill4(s, l4, Count(pages, 4)).m
  BY DEF remap_bootmem_dmap_pages, MapPages
<1>2. fl \in SUBSET FlagNames
  BY RWFlags
<1>3. rm \in [1 .. 3 -> Int] /\ Count(pages, 4) \in Int
  BY CountInt
<1>4. KERNEL_PHMMAP \in Int
  BY LayoutAssumption
<1> HIDE DEF fl, rm
<1>5. s \in Filling(A)
  BY <1>2, <1>3, <1>4 DEF Filling
<1> HIDE DEF s
<1>6. Fill4(s, l4, Count(pages, 4)) \in Filling(A)
  BY <1>3, <1>5, Fill4Stays
<1> QED BY <1>1, <1>6 DEF Filling

\* The tables of the image, too.
LEMMA KcodeTableStays ==
  ASSUME NEW A, Bounded(A), NEW m \in Memories(A), NEW l3, NEW n \in Int
  PROVE  KcodeTable(m, l3, n) \in Memories(A)
<1> DEFINE l1s == Count(KernPages, 2)
           v3  == KERNEL_OFFSET + (n \div l1s) * EntrySize(3)
           v2  == KERNEL_OFFSET + (n % l1s) * EntrySize(2)
           m1  == return_pt_or_alloc(m, l3, Idx(v3, 3))
           l2  == m1.mem[l3][Idx(v3, 3)].to
           m2  == return_pt_or_alloc(m1, l2, Idx(v2, 2))
           l1  == m2.mem[l2][Idx(v2, 2)].to
           e(i) == [to |-> n * PT_ENTRIES + i,
                    flags |-> IF n * PT_ENTRIES + i \in ReadOnly THEN {"present"} ELSE RW]
           tbl == [i \in 0 .. PT_ENTRIES - 1 |-> e(i)]
<1>1. KcodeTable(m, l3, n) = IF m1.fault # "none" THEN m1
                             ELSE IF m2.fault # "none" THEN m2 ELSE [m2 EXCEPT !.mem[l1] = tbl]
  BY Zenon DEF KcodeTable
<1>2. m1 \in Memories(A)
  <2> HIDE DEF v3
  <2> QED BY AllocStays
<1> HIDE DEF m1
<1>3. m2 \in Memories(A)
  <2> HIDE DEF v2, l2
  <2> QED BY <1>2, AllocStays
<1> HIDE DEF m2, l1
<1>4. tbl \in Tables
  <2>1. PT_ENTRIES \in Nat
    BY Sizes
  <2>2. \A i \in 0 .. PT_ENTRIES - 1 : n * PT_ENTRIES + i \in Int
    BY <2>1
  <2>3. {"present"} \in SUBSET FlagNames /\ RW \in SUBSET FlagNames
    BY RWFlags DEF FlagNames
  <2>4. \A i \in 0 .. PT_ENTRIES - 1 : e(i) \in Entries
    BY <2>2, <2>3 DEF Entries
  <2> HIDE DEF e
  <2> QED BY <2>4 DEF Tables
<1> HIDE DEF tbl
<1>5. [m2 EXCEPT !.mem[l1] = tbl] \in Memories(A)
  <2> DEFINE new == [m2.mem EXCEPT ![l1] = tbl]
  <2>1. /\ m2 = [mem |-> m2.mem, pool |-> m2.pool, fault |-> m2.fault]
        /\ DOMAIN m2.mem \subseteq A /\ m2.mem \in [DOMAIN m2.mem -> Tables]
        /\ m2.pool \subseteq A /\ m2.fault \in Faults
    BY <1>3, MemoryParts
  <2>2. new \in [DOMAIN m2.mem -> Tables]
    BY <1>4, <2>1
  <2>3. [m2 EXCEPT !.mem[l1] = tbl] = [m2 EXCEPT !.mem = new]
    OBVIOUS
  <2> HIDE DEF new
  <2>4. [m2 EXCEPT !.mem = new] = [mem |-> new, pool |-> m2.pool, fault |-> m2.fault]
    BY <2>1
  <2> QED BY <2>1, <2>2, <2>3, <2>4, MemoryMade
<1> QED BY <1>1, <1>2, <1>3, <1>5

\* n of them in a row.
KcodeTables(m, l3, n) == FoldLeft(LAMBDA a, i : KcodeTable(a, l3, i), m, [j \in 1 .. n |-> j - 1])

LEMMA KcodeFoldStays ==
  ASSUME NEW A, Bounded(A), NEW m0 \in Memories(A), NEW l3, NEW n \in Int
  PROVE  KcodeTables(m0, l3, n) \in Memories(A)
<1> DEFINE N == IF n < 0 THEN 0 ELSE n
           q == [j \in 1 .. n |-> j - 1]
           Op(a, i) == KcodeTable(a, l3, i)
           Step(it) == [s \in SUBSET (DOMAIN q) |->
                          IF s = {} THEN m0 ELSE LET x == Max(s) IN Op(it[s \ {x}], q[x])]
           fold == CHOOSE it : it = Step(it)
           D == Memories(A)
           g == [d \in D |-> [i \in 1 .. N |-> Op(d, q[i])]]
           Ds == [s \in SUBSET (1 .. N) |-> D]
<1>1. KcodeTables(m0, l3, n) = fold[DOMAIN q]
  BY Zenon DEF KcodeTables, FoldLeft, MapThenFoldSet
<1>2. N \in Nat /\ DOMAIN q = 1 .. N
  OBVIOUS
<1>3. \A d \in D : \A i \in 1 .. N : g[d][i] = Op(d, q[i]) /\ Op(d, q[i]) \in D
  <2> SUFFICES ASSUME NEW d \in D, NEW i \in 1 .. N PROVE Op(d, q[i]) \in D
    BY Zenon
  <2>1. q[i] \in Int
    BY <1>2
  <2> HIDE DEF q
  <2> QED BY <2>1, KcodeTableStays
<1> HIDE DEF N, D, Op, g, q
<1>4. m0 \in D
  BY DEF D
<1>5. PICK f : FoldsTo(f, D, m0, g, N)
  BY <1>2, <1>3, <1>4, FoldExists, Zenon
<1>6. \A s \in SUBSET (1 .. N) : s # {} => Max(s) \in 1 .. N /\ s \ {Max(s)} \in SUBSET (1 .. N)
  BY <1>2, MaxOf
<1>7. f = Step(f)
  <2>1. /\ f = [s \in SUBSET (1 .. N) |-> IF s = {} THEN m0 ELSE g[f[s \ {Max(s)}]][Max(s)]]
        /\ \A s \in SUBSET (1 .. N) : f[s] \in D
    BY <1>5, Zenon DEF FoldsTo
  <2>2. \A s \in SUBSET (1 .. N) :
          s # {} => g[f[s \ {Max(s)}]][Max(s)] = Op(f[s \ {Max(s)}], q[Max(s)])
    BY <1>3, <1>6, <2>1, Zenon
  <2>3. f = [s \in SUBSET (1 .. N) |-> IF s = {} THEN m0 ELSE Op(f[s \ {Max(s)}], q[Max(s)])]
    BY <2>1, <2>2
  <2> QED BY <2>3, <1>2, Zenon
<1>8. fold = Step(fold)
  BY <1>7, Zenon DEF fold
<1> HIDE DEF fold
<1>9. /\ fold[{}] = m0
      /\ \A s \in SUBSET (1 .. N) : s # {} => fold[s] = Op(fold[s \ {Max(s)}], q[Max(s)])
  <2> DEFINE st == [s \in SUBSET (1 .. N) |->
                      IF s = {} THEN m0 ELSE Op(fold[s \ {Max(s)}], q[Max(s)])]
  <2>1. st[{}] = m0 /\ \A s \in SUBSET (1 .. N) : s # {} => st[s] = Op(fold[s \ {Max(s)}], q[Max(s)])
    OBVIOUS
  <2>2. st = fold
    BY <1>8, <1>2, Zenon
  <2> HIDE DEF st
  <2> QED BY <2>1, <2>2
<1>10. fold[1 .. N] \in Ds[1 .. N]
  <2>1. fold[{}] \in Ds[{}]
    BY <1>4, <1>9
  <2>2. ASSUME NEW s \in SUBSET (1 .. N), s # {}, fold[s \ {Max(s)}] \in Ds[s \ {Max(s)}]
        PROVE  fold[s] \in Ds[s]
    <3>1. fold[s \ {Max(s)}] \in D
      BY <1>6, <2>2
    <3> QED BY <1>3, <1>6, <1>9, <2>2, <3>1
  <2> HIDE DEF Ds
  <2> QED BY <1>2, <2>1, <2>2, FoldStays, Zenon
<1> QED BY <1>1, <1>2, <1>10 DEF D

LEMMA KcodeStays ==
  ASSUME NEW A, Bounded(A), NEW m \in Memories(A), NEW l4
  PROVE  remap_bootmem_kcode_pages(m, l4) \in Memories(A)
<1> DEFINE m1 == return_pt_or_alloc(m, l4, Idx(KERNEL_OFFSET, 4))
           l3 == m1.mem[l4][Idx(KERNEL_OFFSET, 4)].to
           n == Count(KernPages, 3) * Count(KernPages, 2)
<1>1. remap_bootmem_kcode_pages(m, l4) =
        IF m1.fault # "none" THEN m1
        ELSE KcodeTables(m1, l3, n)
  BY Zenon DEF KcodeTables, remap_bootmem_kcode_pages
<1>2. m1 \in Memories(A)
  BY AllocStays
<1>3. n \in Int
  <2>1. KernPages \in Int
    BY LayoutAssumption, Sizes
  <2>2. Count(KernPages, 3) \in Int /\ Count(KernPages, 2) \in Int
    BY <2>1, CountInt
  <2> QED BY <2>2
<1> HIDE DEF m1, l3, n
<1> QED BY <1>1, <1>2, <1>3, KcodeFoldStays

LEMMA IdentmapStays ==
  ASSUME NEW A, Bounded(A), NEW m \in Memories(A), NEW l4
  PROVE  pt_init_temp_identmap(m, l4) \in Memories(A)
<1> DEFINE m1 == return_pt_or_alloc(m, l4, 0)
<1>1. m1 \in Memories(A)
  BY AllocStays
<1>2. [to |-> 0, flags |-> RW \cup {"pagesize"}] \in Entries
  BY RWFlags DEF Entries
<1>3. pt_init_temp_identmap(m, l4) = Write(m1, m1.mem[l4][0].to, 0, [to |-> 0, flags |-> RW \cup {"pagesize"}])
  BY DEF pt_init_temp_identmap
<1> HIDE DEF m1
<1> QED BY <1>1, <1>2, <1>3, WriteStays

-----------------------------------------------------------------------------
(***************************************************************************)
(* Regions.                                                                *)
(***************************************************************************)
LEMMA BootConstants ==
  /\ PAGESIZE \in Nat \ {0} /\ Word \in Nat \ {0}
  /\ KernPages \in Nat \ {0} /\ KernStart \in Nat /\ KernStart < KernPages
  /\ Preinit \subseteq KernStart .. KernPages - 1
  /\ MemMaps \subseteq Seq(MapEntries)
BY BootAssumption, LayoutAssumption, Sizes

\* The pages an entry covers whole.
PagesOf(e) ==
  {p \in 0 .. Word \div PAGESIZE : e.base <= p * PAGESIZE /\ (p + 1) * PAGESIZE <= e.base + e.len}

\* A region of len whole pages from page first on.
LEMMA PageRegion ==
  ASSUME NEW first \in Nat, NEW len \in Nat \ {0}, (first + len) * PAGESIZE <= Word,
         NEW r, r = [base |-> first * PAGESIZE,
                     top |-> U64(first * PAGESIZE + len * PAGESIZE - PAGESIZE),
                     max |-> PageOf(len * PAGESIZE), cur |-> U64(PageOf(len * PAGESIZE) - 1)]
  PROVE  /\ r \in [base : Nat, top : Nat, max : Nat, cur : Nat]
         /\ r.top % PAGESIZE = 0
         /\ PageOf(r.base) = first /\ r.max = len /\ r.cur = len - 1
         /\ PageOf(r.top) = first + len - 1
         /\ PagesFrom(r, r.max) = first .. first + len - 1
<1>1. PAGESIZE \in Nat \ {0} /\ Word \in Nat \ {0}
  BY BootConstants
<1>2. \A x \in 0 .. Word - 1 : U64(x) = x
  BY <1>1 DEF U64
<1>3. \A x \in Int : x * PAGESIZE \in Int /\ PageOf(x * PAGESIZE) = x /\ (x * PAGESIZE) % PAGESIZE = 0
  <2> SUFFICES ASSUME NEW x \in Int
               PROVE  x * PAGESIZE \in Int /\ PageOf(x * PAGESIZE) = x /\ (x * PAGESIZE) % PAGESIZE = 0
    OBVIOUS
  <2>1. x * PAGESIZE \in Int /\ x * PAGESIZE = PAGESIZE * x + 0 /\ 0 \in 0 .. PAGESIZE - 1
    BY <1>1
  <2> QED BY <1>1, <2>1, DivUnique DEF PageOf
<1>4. PageOf(len * PAGESIZE) = len /\ PageOf(first * PAGESIZE) = first
  BY <1>3
<1> DEFINE last == first + len - 1
<1>5. first * PAGESIZE + len * PAGESIZE - PAGESIZE = last * PAGESIZE
  BY <1>1
<1>6. last \in Nat /\ len <= first + len
  OBVIOUS
<1>7. last * PAGESIZE \in 0 .. Word - 1
  <2>1. (first + len) * PAGESIZE = last * PAGESIZE + PAGESIZE
    BY <1>1
  <2>2. 0 <= last * PAGESIZE /\ last * PAGESIZE \in Int
    BY <1>1, <1>6
  <2> HIDE DEF last
  <2> QED BY <1>1, <2>1, <2>2
<1>8. len - 1 \in 0 .. Word - 1
  <2>1. len * PAGESIZE <= (first + len) * PAGESIZE
    BY <1>1, <1>6, MulMono
  <2>2. len * 1 <= len * PAGESIZE
    <3>1. 1 * len <= PAGESIZE * len
      BY <1>1, MulMono
    <3> QED BY <1>1, <3>1
  <2>3. len * PAGESIZE \in Int /\ (first + len) * PAGESIZE \in Int
    BY <1>1
  <2> QED BY <1>1, <2>1, <2>2, <2>3
<1>9. r.top = last * PAGESIZE /\ r.cur = len - 1 /\ r.max = len /\ r.base = first * PAGESIZE
  BY <1>2, <1>4, <1>5, <1>7, <1>8
<1>10. first * PAGESIZE \in Nat
  BY <1>1
<1>11. PagesFrom(r, r.max) = first .. first + len - 1
  <2>1. PagesFrom(r, r.max) = {first + i : i \in 0 .. len - 1}
    BY <1>4, <1>9 DEF PagesFrom
  <2>2. ASSUME NEW p \in first .. first + len - 1
        PROVE  p \in {first + i : i \in 0 .. len - 1}
    <3>1. p - first \in 0 .. len - 1 /\ p = first + (p - first)
      OBVIOUS
    <3> QED BY <3>1
  <2>3. ASSUME NEW i \in 0 .. len - 1
        PROVE  first + i \in first .. first + len - 1
    OBVIOUS
  <2>4. {first + i : i \in 0 .. len - 1} = first .. first + len - 1
    BY <2>2, <2>3
  <2> QED BY <2>1, <2>4, Zenon
<1>12. r \in [base : Nat, top : Nat, max : Nat, cur : Nat]
  BY <1>6, <1>7, <1>8, <1>9, <1>10
<1> QED BY <1>3, <1>4, <1>6, <1>9, <1>11, <1>12

LEMMA WholePages ==
  ASSUME NEW x \in Nat, x % PAGESIZE = 0
  PROVE  \E z \in Int : x = z * PAGESIZE
<1>1. PAGESIZE \in Nat \ {0} /\ x \in Int
  BY BootConstants
<1> QED BY <1>1, MultipleMod

\* The region of an entry of a sane memory map: whole pages of the entry,
\* behind the end of the image if the entry holds it.
LEMMA RegionOf ==
  ASSUME NEW e \in MapEntries, e.base % PAGESIZE = 0, e.len % PAGESIZE = 0, e.len > 0,
         e.base + e.len <= Word, HoldsImage(e) => e.len > KernPages * PAGESIZE,
         NEW r, r = pf_init_region(e)
  PROVE  /\ r \in [base : Nat, top : Nat, max : Nat, cur : Nat]
         /\ r.top % PAGESIZE = 0
         /\ r.cur = r.max - 1 /\ r.max >= 1
         /\ PageOf(r.base) \in Nat
         /\ PageOf(r.top) = PageOf(r.base) + r.max - 1
         /\ PagesFrom(r, r.max) \subseteq PagesOf(e)
         /\ HoldsImage(e) => \A p \in PagesFrom(r, r.max) : p >= KernPages
<1>1. /\ PAGESIZE \in Nat \ {0} /\ Word \in Nat \ {0} /\ KernPages \in Nat \ {0}
      /\ e.base \in Nat /\ e.len \in Nat
  BY BootConstants DEF MapEntries
<1>2. PICK b \in Int : e.base = b * PAGESIZE
  BY <1>1, WholePages
<1>3. PICK l \in Int : e.len = l * PAGESIZE
  BY <1>1, WholePages
<1>4. b \in Nat /\ l \in Nat \ {0}
  <2>1. ASSUME NEW x \in Int, x * PAGESIZE >= 0
        PROVE  x >= 0
    <3>1. CASE x >= 0
      BY <3>1
    <3>2. CASE x <= -1
      <4>1. (-x) * PAGESIZE >= PAGESIZE
        BY <1>1, <3>2, MulGe
      <4>2. (-x) * PAGESIZE = -(x * PAGESIZE)
        BY <1>1
      <4> QED BY <1>1, <2>1, <4>1, <4>2
    <3> QED BY <3>1, <3>2
  <2>2. b >= 0 /\ l >= 0
    BY <1>1, <1>2, <1>3, <2>1
  <2>3. l # 0
    BY <1>1, <1>3
  <2> QED BY <2>2, <2>3
<1>5. (b + l) * PAGESIZE = e.base + e.len /\ (b + l) * PAGESIZE <= Word
  BY <1>1, <1>2, <1>3
<1> DEFINE K == KernPages
           end == K * PAGESIZE
           first == IF HoldsImage(e) THEN b + K ELSE b
           len == IF HoldsImage(e) THEN l - K ELSE l
<1>6. HoldsImage(e) => l > K
  <2> SUFFICES ASSUME HoldsImage(e), l <= K PROVE FALSE
    BY <1>1, <1>4
  <2>1. l * PAGESIZE <= K * PAGESIZE
    BY <1>1, <1>4, MulMono
  <2>2. l * PAGESIZE > K * PAGESIZE /\ l * PAGESIZE \in Int /\ K * PAGESIZE \in Int
    BY <1>1, <1>3
  <2> QED BY <2>1, <2>2
<1>7. first \in Nat /\ len \in Nat \ {0} /\ first + len = b + l /\ first >= b
  BY <1>1, <1>4, <1>6
<1>8. r = [base |-> first * PAGESIZE,
           top |-> U64(first * PAGESIZE + len * PAGESIZE - PAGESIZE),
           max |-> PageOf(len * PAGESIZE), cur |-> U64(PageOf(len * PAGESIZE) - 1)]
  <2>1. CASE HoldsImage(e)
    <3>1. e.base + end = first * PAGESIZE /\ e.len - end = len * PAGESIZE
      BY <1>1, <1>2, <1>3, <1>4, <2>1
    <3>2. e.len - end \in 0 .. Word - 1
      <4>1. end >= PAGESIZE /\ end \in Int
        BY <1>1, MulGe
      <4>2. e.len > end
        BY <2>1
      <4> HIDE DEF end
      <4> QED BY <1>1, <4>1, <4>2
    <3>3. U64(e.len - end) = len * PAGESIZE
      <4> DEFINE x == e.len - end
      <4>1. x \in 0 .. Word - 1 /\ x = len * PAGESIZE
        BY <3>1, <3>2
      <4> HIDE DEF x, len
      <4>2. U64(x) = x
        BY <1>1, <4>1 DEF U64
      <4> QED BY <4>1, <4>2 DEF x
    <3> DEFINE bb == e.base + end
               ll == U64(e.len - end)
    <3>4. r = [base |-> bb, top |-> U64(bb + ll - PAGESIZE), max |-> PageOf(ll), cur |-> U64(PageOf(ll) - 1)]
      BY <2>1 DEF pf_init_region
    <3>5. bb = first * PAGESIZE /\ ll = len * PAGESIZE
      BY <3>1, <3>3
    <3> HIDE DEF bb, ll, first, len
    <3> QED BY <3>4, <3>5
  <2>2. CASE ~HoldsImage(e)
    <3> DEFINE bb == e.base
               ll == e.len
    <3>1. r = [base |-> bb, top |-> U64(bb + ll - PAGESIZE), max |-> PageOf(ll), cur |-> U64(PageOf(ll) - 1)]
      BY <2>2 DEF pf_init_region
    <3>2. bb = first * PAGESIZE /\ ll = len * PAGESIZE
      BY <1>2, <1>3, <2>2
    <3> HIDE DEF bb, ll, first, len
    <3> QED BY <3>1, <3>2
  <2> QED BY <2>1, <2>2
<1>9. HoldsImage(e) => first >= K
  BY <1>1, <1>4
<1> HIDE DEF first, len, K
<1>10. /\ r \in [base : Nat, top : Nat, max : Nat, cur : Nat]
       /\ r.top % PAGESIZE = 0
       /\ PageOf(r.base) = first /\ r.max = len /\ r.cur = len - 1
       /\ PageOf(r.top) = first + len - 1
       /\ PagesFrom(r, r.max) = first .. first + len - 1
  <2>1. (first + len) * PAGESIZE <= Word
    BY <1>5, <1>7
  <2> QED BY <1>7, <1>8, <2>1, PageRegion
<1>11. ASSUME NEW p \in first .. first + len - 1
       PROVE  p \in PagesOf(e)
  <2>1. p \in Nat /\ b <= p /\ p + 1 <= b + l
    BY <1>4, <1>7
  <2>2. b * PAGESIZE <= p * PAGESIZE
    BY <1>1, <1>4, <2>1, MulMono
  <2>3. (p + 1) * PAGESIZE <= (b + l) * PAGESIZE
    BY <1>1, <1>4, <2>1, MulMono
  <2>4. p \in 0 .. Word \div PAGESIZE
    <3> DEFINE d == Word \div PAGESIZE
    <3>1. d \in Int /\ Word % PAGESIZE \in 0 .. PAGESIZE - 1 /\ Word = PAGESIZE * d + (Word % PAGESIZE)
      BY <1>1, DivMod
    <3> HIDE DEF d
    <3>2. (p + 1) * PAGESIZE <= Word
      <4> DEFINE u == (p + 1) * PAGESIZE
                 w == (b + l) * PAGESIZE
      <4>1. u \in Int /\ w \in Int /\ u <= w /\ w <= Word
        BY <1>1, <1>4, <1>5, <2>1, <2>3
      <4> HIDE DEF u, w
      <4>2. u <= Word
        BY <1>1, <4>1
      <4> QED BY <4>2 DEF u
    <3>3. ~(p >= d + 1)
      <4> SUFFICES ASSUME p >= d + 1 PROVE FALSE
        OBVIOUS
      <4>1. (d + 2) * PAGESIZE <= (p + 1) * PAGESIZE
        BY <1>1, <2>1, <3>1, MulMono
      <4>2. (d + 2) * PAGESIZE = PAGESIZE * d + PAGESIZE + PAGESIZE
        BY <1>1, <3>1
      <4>3. (d + 2) * PAGESIZE \in Int /\ (p + 1) * PAGESIZE \in Int /\ PAGESIZE * d \in Int
        BY <1>1, <2>1, <3>1
      <4> QED BY <1>1, <3>1, <3>2, <4>1, <4>2, <4>3
    <3>4. p <= d
      BY <2>1, <3>1, <3>3
    <3> QED BY <2>1, <3>1, <3>4 DEF d
  <2> QED BY <1>2, <1>5, <2>2, <2>3, <2>4 DEF PagesOf
<1>12. HoldsImage(e) => \A p \in first .. first + len - 1 : p >= KernPages
  BY <1>1, <1>7, <1>9 DEF K
<1> QED BY <1>7, <1>10, <1>11, <1>12

\* Entries that are apart have no page in common.
LEMMA PagesApart ==
  ASSUME NEW e \in MapEntries, NEW d \in MapEntries, e.base + e.len <= d.base
  PROVE  PagesOf(e) \cap PagesOf(d) = {}
<1> SUFFICES ASSUME NEW p \in PagesOf(e), p \in PagesOf(d) PROVE FALSE
  OBVIOUS
<1>1. /\ PAGESIZE \in Nat \ {0} /\ p \in Int
      /\ (p + 1) * PAGESIZE <= e.base + e.len /\ d.base <= p * PAGESIZE
  BY BootConstants DEF PagesOf
<1>2. (p + 1) * PAGESIZE = p * PAGESIZE + PAGESIZE /\ p * PAGESIZE \in Int
  BY <1>1
<1>3. e.base \in Nat /\ e.len \in Nat /\ d.base \in Nat
  BY DEF MapEntries
<1> QED BY <1>1, <1>2, <1>3

\* An entry that holds the image covers its pages.
LEMMA ImagePages ==
  ASSUME NEW e \in MapEntries, HoldsImage(e), e.base + e.len <= Word
  PROVE  KernStart .. KernPages - 1 \subseteq PagesOf(e)
<1> SUFFICES ASSUME NEW p \in KernStart .. KernPages - 1 PROVE p \in PagesOf(e)
  OBVIOUS
<1>1. /\ PAGESIZE \in Nat \ {0} /\ Word \in Nat \ {0} /\ KernPages \in Nat \ {0} /\ KernStart \in Nat
      /\ e.base \in Nat /\ e.len \in Nat
  BY BootConstants DEF MapEntries
<1>2. p \in Nat /\ KernStart <= p /\ p + 1 <= KernPages
  BY <1>1
<1>3. KernStart * PAGESIZE <= p * PAGESIZE /\ (p + 1) * PAGESIZE <= KernPages * PAGESIZE
  BY <1>1, <1>2, MulMono
<1>4. /\ KernStart * PAGESIZE \in Int /\ p * PAGESIZE \in Int
      /\ (p + 1) * PAGESIZE \in Int /\ KernPages * PAGESIZE \in Int
  BY <1>1, <1>2
<1>5. e.base <= p * PAGESIZE /\ (p + 1) * PAGESIZE <= e.base + e.len
  BY <1>1, <1>3, <1>4 DEF HoldsImage
<1>6. p <= Word \div PAGESIZE
  <2> DEFINE d == Word \div PAGESIZE
  <2>1. d \in Int /\ Word % PAGESIZE \in 0 .. PAGESIZE - 1 /\ Word = PAGESIZE * d + (Word % PAGESIZE)
    BY <1>1, DivMod
  <2> HIDE DEF d
  <2>2. ~(p >= d + 1)
    <3> SUFFICES ASSUME p >= d + 1 PROVE FALSE
      OBVIOUS
    <3>1. (d + 2) * PAGESIZE <= (p + 1) * PAGESIZE
      BY <1>1, <1>2, <2>1, MulMono
    <3>2. (d + 2) * PAGESIZE = PAGESIZE * d + PAGESIZE + PAGESIZE /\ PAGESIZE * d \in Int
      BY <1>1, <2>1
    <3> QED BY <1>1, <1>4, <1>5, <2>1, <3>1, <3>2
  <2> QED BY <1>2, <2>1, <2>2 DEF d
<1>7. Word \div PAGESIZE \in Int
  BY <1>1, DivMod
<1> QED BY <1>2, <1>5, <1>6, <1>7 DEF PagesOf

-----------------------------------------------------------------------------
(***************************************************************************)
(* The inductive invariant.                                                *)
(***************************************************************************)
MapsAreSane == \A s \in MemMaps : SaneMap(s)

UsableIndices == {i \in DOMAIN mbmap : mbmap[i].type = "available"}

\* info.entries lists the entries for use.
EntriesInv ==
  /\ info.entries \in Seq(MapEntries)
  /\ IsInjective(info.entries)
  /\ ToSet(info.entries) = {mbmap[i] : i \in UsableIndices}

Records == [base : Nat, top : Nat, max : Nat, cur : Nat]

Image == KernStart .. KernPages - 1

Whole(r) == PagesFrom(r, r.max)

\* The regions r are free memory, each page in one of them.
RegionsFree(r) ==
  /\ r \in Seq(Records)
  /\ \A i \in DOMAIN r :
       /\ r[i].top % PAGESIZE = 0
       /\ PageOf(r[i].base) \in Nat
       /\ PageOf(r[i].top) = PageOf(r[i].base) + r[i].max - 1
       /\ Whole(r[i]) \subseteq Available \ Image
       /\ i # 1 => r[i].cur <= r[i].max
  /\ \A i, j \in DOMAIN r : i # j => Whole(r[i]) \cap Whole(r[j]) = {}

\* What is given are regions but the first, or those, the first and Preinit.
GivenInv ==
  given # <<>> =>
    /\ region # <<>>
    /\ given \in {HandedOver, HandedOver \o <<Whole(region[1]), Preinit>>}

BootInv ==
  /\ mbmap \in MemMaps
  /\ info.ram_max \in Nat
  /\ RegionsFree(region)
  /\ GivenInv
  /\ phase = "alloc_init" => EntriesInv
  /\ phase = "init_higher_half" => \A i \in DOMAIN region : region[i].cur <= region[i].max
  /\ phase \in {"parse", "alloc_init", "init_higher_half"} => pt = Memory({})
  /\ phase \in {"parse", "alloc_init", "init_higher_half", "buddy_handoff"} => given = <<>>
  /\ phase = "buddy_handoff" => region # <<>> /\ pt \in Memories(Whole(region[1]))
  /\ phase = "kern_uhalf_init" =>
       region # <<>> /\ given = HandedOver /\ DOMAIN pt.mem \subseteq Whole(region[1])

LEMMA SaneParts ==
  ASSUME MapsAreSane, mbmap \in MemMaps
  PROVE  /\ mbmap \in Seq(MapEntries)
         /\ \A i \in UsableIndices :
              /\ mbmap[i] \in MapEntries
              /\ mbmap[i].base % PAGESIZE = 0 /\ mbmap[i].len % PAGESIZE = 0
              /\ mbmap[i].len > 0 /\ mbmap[i].base + mbmap[i].len <= Word
              /\ PagesOf(mbmap[i]) \subseteq Available
         /\ \A i, j \in UsableIndices : i # j =>
              /\ mbmap[i] # mbmap[j]
              /\ PagesOf(mbmap[i]) \cap PagesOf(mbmap[j]) = {}
         /\ \E h \in UsableIndices :
              /\ mbmap[h].len > KernPages * PAGESIZE
              /\ Image \subseteq PagesOf(mbmap[h])
              /\ \A i \in UsableIndices : HoldsImage(mbmap[i]) => i = h
<1>1. SaneMap(mbmap) /\ mbmap \in Seq(MapEntries)
  BY BootConstants DEF MapsAreSane
<1>2. \A i \in UsableIndices : mbmap[i] \in MapEntries
  <2>1. DOMAIN mbmap = 1 .. Len(mbmap) /\ \A i \in 1 .. Len(mbmap) : mbmap[i] \in MapEntries
    BY <1>1, LenProperties
  <2> QED BY <2>1 DEF UsableIndices
<1>3. /\ \A i \in UsableIndices :
           /\ mbmap[i].base % PAGESIZE = 0 /\ mbmap[i].len % PAGESIZE = 0
           /\ mbmap[i].len > 0 /\ mbmap[i].base + mbmap[i].len <= Word
      /\ \A i, j \in UsableIndices : i # j => \/ mbmap[i].base + mbmap[i].len <= mbmap[j].base
                                              \/ mbmap[j].base + mbmap[j].len <= mbmap[i].base
      /\ \E i \in UsableIndices : HoldsImage(mbmap[i]) /\ mbmap[i].len > KernPages * PAGESIZE
  BY <1>1, Zenon DEF SaneMap, UsableIndices
<1>4. ASSUME NEW i \in UsableIndices
      PROVE  PagesOf(mbmap[i]) \subseteq Available
  BY DEF PagesOf, Available, UsableIndices
<1>5. ASSUME NEW i \in UsableIndices, NEW j \in UsableIndices, i # j
      PROVE  mbmap[i] # mbmap[j] /\ PagesOf(mbmap[i]) \cap PagesOf(mbmap[j]) = {}
  <2>1. mbmap[i] \in MapEntries /\ mbmap[j] \in MapEntries
    BY <1>2
  <2>2. PagesOf(mbmap[i]) \cap PagesOf(mbmap[j]) = {}
    BY <1>3, <1>5, <2>1, PagesApart
  <2>3. mbmap[i] # mbmap[j]
    <3>1. mbmap[i].base \in Nat /\ mbmap[i].len \in Nat /\ mbmap[i].len > 0
      BY <1>3, <2>1 DEF MapEntries
    <3> QED BY <1>3, <1>5, <3>1
  <2> QED BY <2>2, <2>3
<1>6. PICK h \in UsableIndices : HoldsImage(mbmap[h]) /\ mbmap[h].len > KernPages * PAGESIZE
  BY <1>3
<1>7. \A i \in UsableIndices : HoldsImage(mbmap[i]) => Image \subseteq PagesOf(mbmap[i])
  BY <1>2, <1>3, ImagePages DEF Image
<1>8. KernStart \in Image
  BY BootConstants DEF Image
<1>9. \A i \in UsableIndices : HoldsImage(mbmap[i]) => i = h
  BY <1>5, <1>6, <1>7, <1>8
<1> QED BY <1>1, <1>2, <1>3, <1>4, <1>5, <1>6, <1>7, <1>9

\* The regions of the entries are free memory.
LEMMA RegionsMade ==
  ASSUME MapsAreSane, mbmap \in MemMaps, EntriesInv,
         NEW r, r = [i \in DOMAIN info.entries |-> pf_init_region(info.entries[i])]
  PROVE  RegionsFree(r) /\ \A i \in DOMAIN r : r[i].cur <= r[i].max
<1> DEFINE es == info.entries
           N == Len(es)
<1>1. /\ es \in Seq(MapEntries) /\ IsInjective(es)
      /\ ToSet(es) = {mbmap[i] : i \in UsableIndices}
  BY DEF EntriesInv
<1>2. N \in Nat /\ DOMAIN es = 1 .. N /\ \A i \in 1 .. N : es[i] \in MapEntries
  BY <1>1, LenProperties
<1>3. \A i \in 1 .. N : \E k \in UsableIndices : es[i] = mbmap[k]
  BY <1>1, <1>2 DEF ToSet
<1>4. DOMAIN r = 1 .. N /\ \A i \in 1 .. N : r[i] = pf_init_region(es[i])
  BY <1>2
<1>5. PICK h \in UsableIndices :
        /\ mbmap[h].len > KernPages * PAGESIZE
        /\ Image \subseteq PagesOf(mbmap[h])
        /\ \A i \in UsableIndices : HoldsImage(mbmap[i]) => i = h
  BY SaneParts
<1> HIDE DEF es, N
<1>6. ASSUME NEW i \in 1 .. N
      PROVE  /\ r[i] \in Records
             /\ r[i].top % PAGESIZE = 0
             /\ PageOf(r[i].base) \in Nat
             /\ PageOf(r[i].top) = PageOf(r[i].base) + r[i].max - 1
             /\ r[i].cur <= r[i].max
             /\ Whole(r[i]) \subseteq PagesOf(es[i])
             /\ Whole(r[i]) \subseteq Available \ Image
  <2>1. PICK k \in UsableIndices : es[i] = mbmap[k]
    BY <1>3
  <2> DEFINE e == mbmap[k]
  <2>2. /\ e \in MapEntries /\ e.base % PAGESIZE = 0 /\ e.len % PAGESIZE = 0
        /\ e.len > 0 /\ e.base + e.len <= Word /\ PagesOf(e) \subseteq Available
        /\ (HoldsImage(e) => e.len > KernPages * PAGESIZE)
    <3>1. HoldsImage(e) => k = h
      BY <1>5
    <3> QED BY <1>5, <3>1, SaneParts
  <2>3. r[i] = pf_init_region(e)
    BY <1>4, <2>1
  <2> HIDE DEF e
  <2>4. /\ r[i] \in Records
        /\ r[i].top % PAGESIZE = 0
        /\ r[i].cur = r[i].max - 1 /\ r[i].max >= 1
        /\ PageOf(r[i].base) \in Nat
        /\ PageOf(r[i].top) = PageOf(r[i].base) + r[i].max - 1
        /\ Whole(r[i]) \subseteq PagesOf(e)
        /\ HoldsImage(e) => \A p \in Whole(r[i]) : p >= KernPages
    BY <2>2, <2>3, RegionOf DEF Records, Whole
  <2>5. Whole(r[i]) \cap Image = {}
    <3>1. CASE HoldsImage(e)
      <4>1. \A p \in Image : ~(p >= KernPages)
        BY BootConstants DEF Image
      <4> QED BY <2>4, <3>1, <4>1
    <3>2. CASE ~HoldsImage(e)
      <4>1. k # h
        <5>1. HoldsImage(mbmap[h])
          <6>1. \E j \in UsableIndices : HoldsImage(mbmap[j])
            <7>1. SaneMap(mbmap)
              BY DEF MapsAreSane
            <7> QED BY <7>1, Zenon DEF SaneMap, UsableIndices
          <6> QED BY <1>5, <6>1
        <5> QED BY <3>2, <5>1 DEF e
      <4>2. PagesOf(e) \cap PagesOf(mbmap[h]) = {}
        BY <4>1, SaneParts DEF e
      <4> QED BY <1>5, <2>4, <4>2
    <3> QED BY <3>1, <3>2
  <2>6. r[i].cur \in Nat /\ r[i].max \in Nat
    BY <2>4 DEF Records
  <2>7. r[i].cur <= r[i].max
    BY <2>4, <2>6
  <2>8. es[i] = e
    BY <2>1 DEF e
  <2> QED BY <2>2, <2>4, <2>5, <2>7, <2>8
<1>7. ASSUME NEW i \in 1 .. N, NEW j \in 1 .. N, i # j
      PROVE  Whole(r[i]) \cap Whole(r[j]) = {}
  <2>1. PICK k \in UsableIndices : es[i] = mbmap[k]
    BY <1>3
  <2>2. PICK m \in UsableIndices : es[j] = mbmap[m]
    BY <1>3
  <2>3. es[i] # es[j]
    BY <1>1, <1>2, <1>7 DEF IsInjective
  <2>4. PagesOf(es[i]) \cap PagesOf(es[j]) = {}
    BY <2>1, <2>2, <2>3, SaneParts
  <2> QED BY <1>6, <2>4
<1>8. r \in Seq(Records)
  <2>1. r = [i \in 1 .. N |-> r[i]]
    BY <1>4
  <2>2. r \in [1 .. N -> Records]
    BY <1>6, <2>1
  <2> QED BY <1>2, <2>2
<1> QED BY <1>4, <1>6, <1>7, <1>8 DEF RegionsFree

-----------------------------------------------------------------------------
(***************************************************************************)
(* Every step keeps the invariant.                                         *)
(***************************************************************************)
LEMMA RegionsKept ==
  ASSUME NEW r, RegionsFree(r), mbmap' = mbmap, region' = r
  PROVE  RegionsFree(region)'
BY DEF RegionsFree, Available

LEMMA InitBoot == MemInit => BootInv
<1> SUFFICES ASSUME MemInit PROVE BootInv
  OBVIOUS
<1>1. /\ phase = "parse" /\ mbmap \in MemMaps /\ info = [entries |-> <<>>, ram_max |-> 0]
      /\ region = <<>> /\ pt = Memory({}) /\ given = <<>>
  BY DEF MemInit, Init
<1>2. RegionsFree(region)
  BY <1>1, EmptySeq DEF RegionsFree
<1> QED BY <1>1, <1>2 DEF BootInv, GivenInv

LEMMA ParseKeeps ==
  ASSUME MapsAreSane, BootInv, pi_parse_mb2
  PROVE  BootInv'
<1>1. /\ phase = "parse" /\ mbmap' = mbmap /\ region' = region /\ pt' = pt /\ given' = given
      /\ \/ /\ info' = [entries |-> pi_sort_boot_mapentries(Usable(mbmap)),
                        ram_max |-> RamMax(mbmap)]
            /\ phase' = "alloc_init"
         \/ phase' = "dead" /\ info' = info
  BY DEF pi_parse_mb2
<1>2. /\ mbmap \in MemMaps /\ info.ram_max \in Nat /\ RegionsFree(region)
      /\ pt = Memory({}) /\ given = <<>>
  BY <1>1 DEF BootInv
<1>3. RegionsFree(region)'
  BY <1>1, <1>2, RegionsKept
<1>4. GivenInv'
  BY <1>1, <1>2 DEF GivenInv
<1>5. CASE phase' = "dead" /\ info' = info
  BY <1>1, <1>2, <1>3, <1>4, <1>5 DEF BootInv
<1>6. CASE /\ info' = [entries |-> pi_sort_boot_mapentries(Usable(mbmap)),
                       ram_max |-> RamMax(mbmap)]
           /\ phase' = "alloc_init"
  <2>1. mbmap \in Seq(MapEntries) /\ \A i, j \in UsableIndices : i # j => mbmap[i] # mbmap[j]
    BY <1>2, SaneParts
  <2>2. \A i, j \in DOMAIN mbmap :
          mbmap[i].type = "available" /\ mbmap[j].type = "available" /\ i # j => mbmap[i] # mbmap[j]
    BY <2>1 DEF UsableIndices
  <2>3. /\ Usable(mbmap) \in Seq(MapEntries) /\ IsInjective(Usable(mbmap))
        /\ ToSet(Usable(mbmap)) = {mbmap[i] : i \in UsableIndices}
    BY <2>1, <2>2, UsableList DEF UsableIndices
  <2> DEFINE u == Usable(mbmap)
             q == pi_sort_boot_mapentries(u)
  <2>4. q \in Seq(MapEntries) /\ IsInjective(q) /\ ToSet(q) = {mbmap[i] : i \in UsableIndices}
    <3> HIDE DEF u
    <3>1. u \in Seq(MapEntries) /\ IsInjective(u) /\ ToSet(u) = {mbmap[i] : i \in UsableIndices}
      BY <2>3 DEF u
    <3> QED BY <3>1, SortedList
  <2>5. RamMax(mbmap) \in Nat
    BY <2>1, RamMaxNat
  <2> HIDE DEF u, q
  <2>6. info'.entries = q /\ info'.ram_max = RamMax(mbmap)
    BY <1>6 DEF u, q
  <2>7. UsableIndices' = UsableIndices
    BY <1>1 DEF UsableIndices
  <2>8. {mbmap'[i] : i \in UsableIndices'} = {mbmap[i] : i \in UsableIndices}
    BY <1>1, <2>7
  <2>9. EntriesInv'
    BY <2>4, <2>6, <2>8 DEF EntriesInv
  <2> QED BY <1>1, <1>2, <1>3, <1>4, <1>6, <2>5, <2>6, <2>9 DEF BootInv
<1> QED BY <1>1, <1>5, <1>6

LEMMA AllocInitKeeps ==
  ASSUME MapsAreSane, BootInv, alloc_init
  PROVE  BootInv'
<1>1. /\ phase = "alloc_init" /\ mbmap' = mbmap /\ info' = info /\ given' = given
      /\ region' = [i \in DOMAIN info.entries |-> pf_init_region(info.entries[i])]
      /\ \/ phase' = "init_higher_half" /\ pt' = pt
         \/ phase' = "dead"
  BY DEF alloc_init
<1>2. /\ mbmap \in MemMaps /\ info.ram_max \in Nat /\ EntriesInv
      /\ pt = Memory({}) /\ given = <<>>
  BY <1>1 DEF BootInv
<1>3. RegionsFree(region') /\ \A i \in DOMAIN region' : region'[i].cur <= region'[i].max
  BY <1>1, <1>2, RegionsMade
<1>4. RegionsFree(region)'
  BY <1>1, <1>3, RegionsKept
<1>5. GivenInv'
  BY <1>1, <1>2 DEF GivenInv
<1> QED BY <1>1, <1>2, <1>3, <1>4, <1>5 DEF BootInv

\* The frames the first tables are put in are pages of the first region.
LEMMA FramesInFirst ==
  ASSUME RegionsFree(region), region # <<>>, region[1].cur <= region[1].max
  PROVE  /\ 1 \in DOMAIN region /\ region[1] \in Records
         /\ Bounded(Whole(region[1]))
         /\ BootFrames \subseteq Whole(region[1])
<1>1. region \in Seq(Records)
  BY DEF RegionsFree
<1>2. Len(region) \in Nat /\ DOMAIN region = 1 .. Len(region)
  BY <1>1, LenProperties
<1>3. Len(region) # 0
  BY <1>1, EmptySeq
<1>4. 1 \in DOMAIN region
  BY <1>2, <1>3
<1>5. region[1] \in Records
  BY <1>1, <1>4, ElementOfSeq
<1> DEFINE r == region[1]
           b == PageOf(r.base)
<1>6. r.max \in Nat /\ r.cur \in Nat /\ r.cur <= r.max
  BY <1>5 DEF Records
<1>7. b \in Nat /\ PageOf(r.top) = b + r.max - 1
  BY <1>4 DEF RegionsFree
<1>8. Whole(r) = {b + i : i \in 0 .. r.max - 1}
  BY DEF Whole, PagesFrom
<1>9. BootFrames = {PageOf(r.top) - i : i \in 0 .. r.cur - 1}
  BY DEF BootFrames
<1> HIDE DEF r, b
<1>10. Bounded(Whole(r))
  <2>1. Whole(r) \subseteq b .. b + r.max
    BY <1>6, <1>7, <1>8
  <2> QED BY <1>6, <1>7, <2>1 DEF Bounded
<1>11. ASSUME NEW i \in 0 .. r.cur - 1 PROVE PageOf(r.top) - i \in Whole(r)
  <2>1. r.max - 1 - i \in 0 .. r.max - 1
    BY <1>6
  <2>2. PageOf(r.top) - i = b + (r.max - 1 - i)
    BY <1>6, <1>7
  <2> QED BY <1>8, <2>1, <2>2
<1>12. BootFrames \subseteq Whole(r)
  BY <1>9, <1>11
<1> QED BY <1>4, <1>5, <1>10, <1>12 DEF r

LEMMA FunctionIsSeq ==
  ASSUME NEW S, NEW n \in Nat, NEW f \in [1 .. n -> S]
  PROVE  f \in Seq(S)
OBVIOUS

\* A region may lose frames.
LEMMA CurMoves ==
  ASSUME RegionsFree(region), 1 \in DOMAIN region, NEW n \in Nat,
         NEW r, r = [region EXCEPT ![1].cur = n]
  PROVE  RegionsFree(r) /\ r # <<>> /\ Whole(r[1]) = Whole(region[1])
<1>1. region \in Seq(Records)
  BY DEF RegionsFree
<1>2. \A i \in DOMAIN region : region[i] \in Records
  BY <1>1, ElementOfSeq
<1>3. /\ DOMAIN r = DOMAIN region
      /\ \A i \in DOMAIN r : i # 1 => r[i] = region[i]
      /\ r[1] = [region[1] EXCEPT !.cur = n]
  BY <1>1, LenProperties
<1>4. /\ r[1] \in Records /\ r[1].base = region[1].base /\ r[1].top = region[1].top
      /\ r[1].max = region[1].max
  BY <1>2, <1>3 DEF Records
<1>5. \A i \in DOMAIN r : /\ r[i] \in Records /\ r[i].base = region[i].base
                          /\ r[i].top = region[i].top /\ r[i].max = region[i].max
  BY <1>2, <1>3, <1>4
<1>6. \A i \in DOMAIN r : Whole(r[i]) = Whole(region[i])
  BY <1>5 DEF Whole, PagesFrom
<1>7. r \in Seq(Records)
  <2>1. Len(region) \in Nat /\ DOMAIN region = 1 .. Len(region)
    BY <1>1, LenProperties
  <2>2. r \in [1 .. Len(region) -> Records]
    BY <1>1, <1>3, <1>5, <2>1, LenProperties
  <2> QED BY <2>1, <2>2, FunctionIsSeq
<1>8. r # <<>>
  BY <1>3
<1>9. ASSUME NEW i \in DOMAIN r
      PROVE  /\ r[i].top % PAGESIZE = 0
             /\ PageOf(r[i].base) \in Nat
             /\ PageOf(r[i].top) = PageOf(r[i].base) + r[i].max - 1
             /\ Whole(r[i]) \subseteq Available \ Image
             /\ i # 1 => r[i].cur <= r[i].max
  <2>1. /\ i \in DOMAIN region /\ r[i].base = region[i].base /\ r[i].top = region[i].top
        /\ r[i].max = region[i].max /\ Whole(r[i]) = Whole(region[i])
        /\ i # 1 => r[i] = region[i]
    BY <1>3, <1>5, <1>6
  <2>2. /\ region[i].top % PAGESIZE = 0
        /\ PageOf(region[i].base) \in Nat
        /\ PageOf(region[i].top) = PageOf(region[i].base) + region[i].max - 1
        /\ Whole(region[i]) \subseteq Available \ Image
        /\ i # 1 => region[i].cur <= region[i].max
    BY <2>1 DEF RegionsFree
  <2> QED BY <2>1, <2>2, Zenon
<1>10. \A i, j \in DOMAIN r : i # j => Whole(r[i]) \cap Whole(r[j]) = {}
  <2>1. \A i, j \in DOMAIN region : i # j => Whole(region[i]) \cap Whole(region[j]) = {}
    BY DEF RegionsFree
  <2> QED BY <1>3, <1>6, <2>1, Zenon
<1> QED BY <1>3, <1>6, <1>7, <1>8, <1>9, <1>10, Zenon DEF RegionsFree

\* The first tables: all of them, and what is left of the frames, in the first
\* region.
LEMMA FirstTables ==
  ASSUME BootInv, phase = "init_higher_half", BootFrames # {},
         NEW l4, l4 = Max(BootFrames),
         NEW m1, m1 = pt_init_temp_identmap(Grab([pt EXCEPT !.pool = BootFrames], l4), l4),
         NEW m2, m2 = IF m1.fault # "none" THEN m1 ELSE remap_bootmem_kcode_pages(m1, l4),
         NEW m3, m3 = IF m2.fault # "none" THEN m2
                      ELSE remap_bootmem_dmap_pages(m2, l4, PageOf(info.ram_max + PAGESIZE - 1))
  PROVE  /\ 1 \in DOMAIN region
         /\ m3 \in Memories(Whole(region[1]))
         /\ Cardinality(m3.pool) \in Nat
<1> DEFINE A == Whole(region[1])
<1>1. /\ RegionsFree(region) /\ pt = Memory({}) /\ info.ram_max \in Nat
      /\ \A i \in DOMAIN region : region[i].cur <= region[i].max
  BY DEF BootInv
<1>2. region # <<>>
  BY DEF BootFrames
<1>3. 1 \in DOMAIN region
  <2>1. region \in Seq(Records)
    BY <1>1 DEF RegionsFree
  <2>2. Len(region) \in Nat \ {0} /\ DOMAIN region = 1 .. Len(region)
    BY <1>2, <2>1, EmptySeq, LenProperties
  <2> QED BY <2>2
<1>4. region[1].cur <= region[1].max
  BY <1>1, <1>3
<1>5. Bounded(A) /\ BootFrames \subseteq A
  BY <1>1, <1>2, <1>4, FramesInFirst
<1> HIDE DEF A
<1>6. PICK lo \in Int, hi \in Int : A \subseteq lo .. hi
  BY <1>5 DEF Bounded
<1>7. l4 \in A
  <2>1. BootFrames \subseteq lo .. hi
    BY <1>5, <1>6
  <2>2. Max(BootFrames) \in BootFrames
    BY <2>1, MaxBetween
  <2> QED BY <1>5, <2>2
<1> DEFINE m0 == [pt EXCEPT !.pool = BootFrames]
<1>8. m0 \in Memories(A)
  <2>1. m0 = [mem |-> << >>, pool |-> BootFrames, fault |-> "none"]
    BY <1>1 DEF Memory
  <2>2. << >> \in [{} -> Tables] /\ {} \subseteq A /\ "none" \in Faults
    BY DEF Faults
  <2> DEFINE e == << >>
  <2> HIDE DEF e, m0
  <2>3. [mem |-> e, pool |-> BootFrames, fault |-> "none"] \in Memories(A)
    BY <1>5, <2>2, MemoryMade, Zenon DEF e
  <2> QED BY <2>1, <2>3 DEF e
<1> HIDE DEF m0
<1>9. Grab(m0, l4) \in Memories(A)
  BY <1>7, <1>8, GrabStays
<1>10. m1 = pt_init_temp_identmap(Grab(m0, l4), l4)
  BY DEF m0
<1>11. m1 \in Memories(A)
  BY <1>5, <1>9, <1>10, IdentmapStays
<1>12. m2 \in Memories(A)
  <2>1. remap_bootmem_kcode_pages(m1, l4) \in Memories(A)
    BY <1>5, <1>11, KcodeStays
  <2> QED BY <1>11, <2>1
<1>13. PageOf(info.ram_max + PAGESIZE - 1) \in Int
  <2>1. info.ram_max + PAGESIZE - 1 \in Int /\ PAGESIZE \in Nat \ {0}
    BY <1>1, BootConstants
  <2> QED BY <2>1 DEF PageOf
<1>14. m3 \in Memories(A)
  <2> DEFINE n == PageOf(info.ram_max + PAGESIZE - 1)
  <2> HIDE DEF n
  <2>1. n \in Int /\ (m3 = m2 \/ m3 = remap_bootmem_dmap_pages(m2, l4, n))
    BY <1>13 DEF n
  <2>2. remap_bootmem_dmap_pages(m2, l4, n) \in Memories(A)
    BY <1>5, <1>12, <2>1, DirectMapStays
  <2> QED BY <1>12, <2>1, <2>2
<1>15. Cardinality(m3.pool) \in Nat
  <2>1. m3.pool \subseteq lo .. hi
    BY <1>6, <1>14, MemoryParts
  <2>2. IsFiniteSet(lo .. hi)
    BY <1>6, FS_Interval
  <2>3. IsFiniteSet(m3.pool)
    BY <2>1, <2>2, FS_Subset
  <2> QED BY <2>3, FS_CardinalityType
<1> QED BY <1>3, <1>14, <1>15 DEF A

LEMMA HigherHalfKeeps ==
  ASSUME MapsAreSane, BootInv, init_higher_half
  PROVE  BootInv'
<1>1. /\ phase = "init_higher_half"
      /\ mbmap' = mbmap /\ info' = info /\ given' = given
  BY DEF init_higher_half
<1>2. /\ mbmap \in MemMaps /\ info.ram_max \in Nat /\ RegionsFree(region) /\ given = <<>>
  BY <1>1 DEF BootInv
<1>3. GivenInv'
  BY <1>1, <1>2 DEF GivenInv
<1>4. CASE BootFrames = {}
  <2>1. phase' = "dead" /\ region' = region
    BY <1>4 DEF init_higher_half
  <2>2. RegionsFree(region)'
    BY <1>1, <1>2, <2>1, RegionsKept
  <2> QED BY <1>1, <1>2, <1>3, <2>1, <2>2 DEF BootInv
<1>5. CASE BootFrames # {}
  <2> DEFINE l4 == Max(BootFrames)
             m1 == pt_init_temp_identmap(Grab([pt EXCEPT !.pool = BootFrames], l4), l4)
             m2 == IF m1.fault # "none" THEN m1 ELSE remap_bootmem_kcode_pages(m1, l4)
             m3 == IF m2.fault # "none" THEN m2
                   ELSE remap_bootmem_dmap_pages(m2, l4, PageOf(info.ram_max + PAGESIZE - 1))
             n == Cardinality(m3.pool)
  <2>1. /\ region' = [region EXCEPT ![1].cur = n]
        /\ \/ phase' = "buddy_handoff" /\ pt' = m3
           \/ phase' = "dead"
    BY <1>5 DEF init_higher_half
  <2>2. 1 \in DOMAIN region /\ m3 \in Memories(Whole(region[1])) /\ n \in Nat
    BY <1>1, <1>5, FirstTables
  <2> HIDE DEF m3, n
  <2>3. RegionsFree(region') /\ region' # <<>> /\ Whole(region'[1]) = Whole(region[1])
    BY <1>2, <2>1, <2>2, CurMoves
  <2>4. RegionsFree(region)'
    BY <1>1, <2>3, RegionsKept
  <2>5. phase' = "buddy_handoff" => region' # <<>> /\ pt' \in Memories(Whole(region'[1]))
    BY <2>1, <2>2, <2>3
  <2>6. phase' \in {"buddy_handoff", "dead"}
    BY <2>1
  <2> QED BY <1>1, <1>2, <1>3, <2>4, <2>5, <2>6 DEF BootInv
<1> QED BY <1>4, <1>5

LEMMA HandoffKeeps ==
  ASSUME MapsAreSane, BootInv, buddy_handoff
  PROVE  BootInv'
<1>1. /\ phase = "buddy_handoff"
      /\ mbmap' = mbmap /\ info' = info /\ region' = region
      /\ \/ /\ given' = HandedOver /\ phase' = "kern_uhalf_init"
            /\ pt' = [pt EXCEPT !.pool = UNION Range(HandedOver)
                                           \ {PageOf(region[i].base) : i \in DOMAIN region}]
         \/ phase' = "dead" /\ given' = given
  BY DEF buddy_handoff
<1>2. /\ mbmap \in MemMaps /\ info.ram_max \in Nat /\ RegionsFree(region) /\ given = <<>>
      /\ region # <<>> /\ pt \in Memories(Whole(region[1]))
  BY <1>1 DEF BootInv
<1>3. RegionsFree(region)'
  BY <1>1, <1>2, RegionsKept
<1>4. HandedOver' = HandedOver
  BY <1>1 DEF HandedOver
<1>5. GivenInv'
  BY <1>1, <1>2, <1>4 DEF GivenInv
<1>6. CASE phase' = "dead"
  BY <1>1, <1>2, <1>3, <1>5, <1>6 DEF BootInv
<1>7. CASE phase' # "dead"
  <2>1. pt'.mem = pt.mem
    <3>1. pt = [mem |-> pt.mem, pool |-> pt.pool, fault |-> pt.fault]
      BY <1>2, MemoryParts
    <3> DEFINE P == UNION Range(HandedOver) \ {PageOf(region[i].base) : i \in DOMAIN region}
    <3>2. pt' = [pt EXCEPT !.pool = P]
      BY <1>1, <1>7
    <3> HIDE DEF P
    <3> QED BY <3>1, <3>2
  <2>2. DOMAIN pt.mem \subseteq Whole(region[1])
    BY <1>2, MemoryParts
  <2> QED BY <1>1, <1>2, <1>3, <1>4, <1>5, <1>7, <2>1, <2>2 DEF BootInv
<1> QED BY <1>6, <1>7

LEMMA UhalfKeeps ==
  ASSUME MapsAreSane, BootInv, kern_uhalf_init
  PROVE  BootInv'
<1>1. /\ phase = "kern_uhalf_init"
      /\ mbmap' = mbmap /\ info' = info /\ region' = region
      /\ phase' \in {"up", "dead"}
      /\ \/ given' = given
         \/ given' = given \o <<PagesFrom(region[1], region[1].max), Preinit>>
  BY DEF kern_uhalf_init
<1>2. /\ mbmap \in MemMaps /\ info.ram_max \in Nat /\ RegionsFree(region)
      /\ region # <<>> /\ given = HandedOver
  BY <1>1 DEF BootInv
<1>3. RegionsFree(region)'
  BY <1>1, <1>2, RegionsKept
<1>4. HandedOver' = HandedOver /\ Whole(region'[1]) = PagesFrom(region[1], region[1].max)
  BY <1>1 DEF HandedOver, Whole
<1>5. GivenInv'
  BY <1>1, <1>2, <1>4 DEF GivenInv
<1> QED BY <1>1, <1>2, <1>3, <1>5 DEF BootInv

LEMMA RestKeeps ==
  ASSUME BootInv, phase' = phase, phase = "up" \/ pt' = pt,
         mbmap' = mbmap, info' = info, region' = region, given' = given
  PROVE  BootInv'
<1>1. /\ mbmap \in MemMaps /\ info.ram_max \in Nat /\ RegionsFree(region) /\ GivenInv
  BY DEF BootInv
<1>2. RegionsFree(region)'
  BY <1>1, RegionsKept
<1>3. HandedOver' = HandedOver
  BY DEF HandedOver
<1>4. GivenInv'
  BY <1>1, <1>3 DEF GivenInv
<1>5. EntriesInv => EntriesInv'
  BY DEF EntriesInv, UsableIndices
<1>6. CASE phase = "up"
  BY <1>1, <1>2, <1>4, <1>6 DEF BootInv
<1>7. CASE pt' = pt
  BY <1>1, <1>2, <1>3, <1>4, <1>5, <1>7 DEF BootInv
<1> QED BY <1>6, <1>7

\* From every sane memory map, boot keeps the lists, regions and pages it
\* hands over as BootInv says, whatever ioremap() is asked for afterwards.
THEOREM BootInvariant == ASSUME MapsAreSane PROVE MemSpec => []BootInv
<1>1. MemInit => BootInv
  BY InitBoot
<1>2. BootInv /\ [MemNext]_memvars => BootInv'
  <2> SUFFICES ASSUME BootInv, [MemNext]_memvars PROVE BootInv'
    OBVIOUS
  <2>1. CASE pi_parse_mb2
    BY <2>1, ParseKeeps
  <2>2. CASE alloc_init
    BY <2>2, AllocInitKeeps
  <2>3. CASE init_higher_half
    BY <2>3, HigherHalfKeeps
  <2>4. CASE buddy_handoff
    BY <2>4, HandoffKeeps
  <2>5. CASE kern_uhalf_init
    BY <2>5, UhalfKeeps
  <2>6. CASE \E phy \in Devices, len \in Lens, flags \in FlagSets : ioremap(phy, len, flags)
    <3>1. /\ phase = "up" /\ phase' = phase
          /\ mbmap' = mbmap /\ info' = info /\ region' = region /\ given' = given
      BY <2>6 DEF ioremap
    <3> QED BY <3>1, RestKeeps
  <2>7. CASE UNCHANGED memvars
    <3>1. /\ phase' = phase /\ pt' = pt
          /\ mbmap' = mbmap /\ info' = info /\ region' = region /\ given' = given
      BY <2>7 DEF memvars, vars
    <3> QED BY <3>1, RestKeeps
  <2> QED BY <2>1, <2>2, <2>3, <2>4, <2>5, <2>6, <2>7 DEF MemNext, Booting, Next
<1> QED BY <1>1, <1>2, PTL DEF MemSpec

-----------------------------------------------------------------------------
(***************************************************************************)
(* What the invariant says of the pages given.                             *)
(***************************************************************************)

\* The pages handed over: of region k + 1 in place k.
LEMMA HandedParts ==
  ASSUME RegionsFree(region), region # <<>>
  PROVE  /\ Len(region) \in Nat \ {0} /\ DOMAIN region = 1 .. Len(region)
         /\ HandedOver \in Seq(SUBSET Int) /\ Len(HandedOver) = Len(region) - 1
         /\ \A k \in 1 .. Len(region) - 1 : HandedOver[k] \subseteq Whole(region[k + 1])
<1>1. region \in Seq(Records)
  BY DEF RegionsFree
<1>2. Len(region) \in Nat \ {0} /\ DOMAIN region = 1 .. Len(region)
  BY <1>1, EmptySeq, LenProperties
<1> DEFINE n == Len(region) - 1
<1>3. n \in Nat
  BY <1>2
<1>4. HandedOver = [i \in 1 .. n |-> PagesFrom(region[i + 1], region[i + 1].cur)]
  BY DEF HandedOver
<1>5. ASSUME NEW k \in 1 .. n
      PROVE  /\ HandedOver[k] \subseteq Whole(region[k + 1])
             /\ HandedOver[k] \in SUBSET Int
  <2> DEFINE r == region[k + 1]
  <2>1. k + 1 \in DOMAIN region /\ k + 1 \in 1 .. Len(region) /\ k + 1 # 1
    BY <1>2
  <2>2. r.cur <= r.max /\ PageOf(r.base) \in Nat
    BY <2>1 DEF RegionsFree
  <2>3. r \in Records
    BY <1>1, <2>1, ElementOfSeq
  <2>4. HandedOver[k] = PagesFrom(r, r.cur)
    BY <1>4
  <2> HIDE DEF r
  <2>5. r.cur \in Nat /\ r.max \in Nat
    BY <2>3 DEF Records
  <2>6. PagesFrom(r, r.cur) \subseteq PagesFrom(r, r.max) /\ PagesFrom(r, r.cur) \subseteq Int
    BY <2>2, <2>5 DEF PagesFrom
  <2> QED BY <2>4, <2>6 DEF Whole, r
<1> HIDE DEF n
<1>6. HandedOver \in [1 .. n -> SUBSET Int]
  <2> DEFINE f(i) == PagesFrom(region[i + 1], region[i + 1].cur)
  <2>1. HandedOver = [i \in 1 .. n |-> f(i)]
    BY <1>4
  <2>2. \A i \in 1 .. n : f(i) \in SUBSET Int
    <3>1. \A i \in 1 .. n : HandedOver[i] = f(i)
      BY <2>1
    <3> HIDE DEF f
    <3> QED BY <1>5, <3>1
  <2> HIDE DEF f
  <2> QED BY <2>1, <2>2
<1>7. HandedOver \in Seq(SUBSET Int)
  BY <1>3, <1>6, FunctionIsSeq
<1>8. Len(HandedOver) = n
  <2>1. DOMAIN HandedOver = 1 .. n
    BY <1>6
  <2>2. Len(HandedOver) \in Nat /\ DOMAIN HandedOver = 1 .. Len(HandedOver)
    BY <1>7, LenProperties
  <2> QED BY <1>3, <2>1, <2>2
<1> QED BY <1>2, <1>5, <1>7, <1>8 DEF n

\* Each call of kbud_free_range() gets pages of one region, another region
\* each time, or the pages of the image nobody needs any more.
LEMMA GivenParts ==
  ASSUME RegionsFree(region), GivenInv, given # <<>>
  PROVE  \E f \in [DOMAIN given -> 0 .. Len(region)] :
           /\ \A i, j \in DOMAIN given : i # j => f[i] # f[j]
           /\ \A i \in DOMAIN given :
                IF f[i] = 0 THEN given[i] = Preinit
                ELSE f[i] \in DOMAIN region /\ given[i] \subseteq Whole(region[f[i]])
           /\ given = HandedOver => \A i \in DOMAIN given : f[i] > 1
<1>1. region # <<>> /\ given \in {HandedOver, HandedOver \o <<Whole(region[1]), Preinit>>}
  BY Zenon DEF GivenInv
<1> DEFINE N == Len(region)
<1>2. /\ N \in Nat \ {0} /\ DOMAIN region = 1 .. N
      /\ HandedOver \in Seq(SUBSET Int) /\ Len(HandedOver) = N - 1
      /\ \A k \in 1 .. N - 1 : HandedOver[k] \subseteq Whole(region[k + 1])
  BY <1>1, HandedParts
<1>3. DOMAIN HandedOver = 1 .. N - 1
  BY <1>2, LenProperties
<1> HIDE DEF N
<1>4. CASE given = HandedOver
  <2> DEFINE f == [i \in 1 .. N - 1 |-> i + 1]
  <2>1. f \in [DOMAIN given -> 0 .. N]
    BY <1>2, <1>3, <1>4
  <2>2. \A i \in 1 .. N - 1 : f[i] = i + 1 /\ f[i] > 1 /\ f[i] \in 1 .. N
    BY <1>2
  <2>3. \A i, j \in 1 .. N - 1 : i # j => f[i] # f[j]
    BY <1>2
  <2> HIDE DEF f
  <2>4. \A i \in DOMAIN given :
           IF f[i] = 0 THEN given[i] = Preinit
           ELSE f[i] \in DOMAIN region /\ given[i] \subseteq Whole(region[f[i]])
    BY <1>2, <1>3, <1>4, <2>2
  <2> QED BY <1>3, <1>4, <2>1, <2>2, <2>3, <2>4 DEF N
<1>5. CASE given = HandedOver \o <<Whole(region[1]), Preinit>>
  <2> DEFINE f == [i \in 1 .. N + 1 |-> IF i <= N - 1 THEN i + 1 ELSE IF i = N THEN 1 ELSE 0]
             W == Whole(region[1])
             tl == <<W, Preinit>>
  <2>1. 1 \in DOMAIN region /\ PageOf(region[1].base) \in Nat
    BY <1>2 DEF RegionsFree
  <2>2. W \in SUBSET Int
    <3>1. region \in Seq(Records)
      BY DEF RegionsFree
    <3>2. region[1] \in Records
      BY <1>2, <3>1, ElementOfSeq DEF N
    <3> QED BY <2>1, <3>2 DEF Whole, PagesFrom, Records
  <2>3. Preinit \in SUBSET Int
    BY BootConstants
  <2> HIDE DEF W
  <2>4. tl \in Seq(SUBSET Int) /\ Len(tl) = 2 /\ tl[1] = W /\ tl[2] = Preinit
    BY <2>2, <2>3
  <2> HIDE DEF tl
  <2>5. given = HandedOver \o tl
    BY <1>5 DEF W, tl
  <2>6. /\ given \in Seq(SUBSET Int) /\ Len(given) = N + 1
        /\ \A i \in 1 .. N + 1 : given[i] = IF i <= N - 1 THEN HandedOver[i] ELSE tl[i - (N - 1)]
    <3>1. /\ HandedOver \o tl \in Seq(SUBSET Int)
          /\ Len(HandedOver \o tl) = Len(HandedOver) + Len(tl)
          /\ \A i \in 1 .. Len(HandedOver) + Len(tl) :
               (HandedOver \o tl)[i] =
                 IF i <= Len(HandedOver) THEN HandedOver[i] ELSE tl[i - Len(HandedOver)]
      BY <1>2, <2>4, ConcatProperties
    <3>2. Len(HandedOver) = N - 1 /\ Len(HandedOver) + Len(tl) = N + 1
      BY <1>2, <2>4
    <3> QED BY <2>5, <3>1, <3>2
  <2>7. DOMAIN given = 1 .. N + 1
    BY <1>2, <2>6, LenProperties
  <2>8. given[N] = W /\ given[N + 1] = Preinit /\ \A i \in 1 .. N - 1 : given[i] = HandedOver[i]
    <3>1. N \in 1 .. N + 1 /\ N + 1 \in 1 .. N + 1 /\ ~(N <= N - 1) /\ ~(N + 1 <= N - 1)
      BY <1>2
    <3>2. N - (N - 1) = 1 /\ (N + 1) - (N - 1) = 2
      BY <1>2
    <3>3. given[N] = tl[1] /\ given[N + 1] = tl[2]
      BY <2>6, <3>1, <3>2
    <3>4. \A i \in 1 .. N - 1 : i \in 1 .. N + 1 /\ i <= N - 1
      BY <1>2
    <3> QED BY <2>4, <2>6, <3>3, <3>4
  <2>9. f \in [DOMAIN given -> 0 .. N]
    BY <1>2, <2>7
  <2>10. \A i, j \in 1 .. N + 1 : i # j => f[i] # f[j]
    BY <1>2
  <2>11. /\ \A i \in 1 .. N - 1 : f[i] = i + 1 /\ f[i] \in 1 .. N /\ f[i] # 0
         /\ f[N] = 1 /\ f[N + 1] = 0
    BY <1>2
  <2> HIDE DEF f
  <2>12. ASSUME NEW i \in 1 .. N + 1
         PROVE  IF f[i] = 0 THEN given[i] = Preinit
                ELSE f[i] \in DOMAIN region /\ given[i] \subseteq Whole(region[f[i]])
    <3>1. i \in 1 .. N - 1 \/ i = N \/ i = N + 1
      BY <1>2
    <3>2. CASE i \in 1 .. N - 1
      BY <1>2, <2>8, <2>11, <3>2
    <3>3. CASE i = N
      BY <2>1, <2>8, <2>11, <3>3 DEF W
    <3>4. CASE i = N + 1
      BY <2>8, <2>11, <3>4
    <3> QED BY <3>1, <3>2, <3>3, <3>4
  <2>13. given # HandedOver
    BY <1>2, <2>6
  <2> QED BY <2>7, <2>9, <2>10, <2>12, <2>13 DEF N
<1> QED BY <1>1, <1>4, <1>5

LEMMA GivenFree ==
  ASSUME MapsAreSane, BootInv
  PROVE  GivenIsFree
<1>1. RegionsFree(region) /\ GivenInv /\ mbmap \in MemMaps
  BY DEF BootInv
<1>2. CASE given = <<>>
  <2>1. AllGiven = {}
    BY <1>2 DEF AllGiven, Range
  <2> QED BY <1>2, <2>1 DEF GivenIsFree
<1>3. CASE given # <<>>
  <2>1. PICK f \in [DOMAIN given -> 0 .. Len(region)] :
          /\ \A i, j \in DOMAIN given : i # j => f[i] # f[j]
          /\ \A i \in DOMAIN given :
               IF f[i] = 0 THEN given[i] = Preinit
               ELSE f[i] \in DOMAIN region /\ given[i] \subseteq Whole(region[f[i]])
          /\ given = HandedOver => \A i \in DOMAIN given : f[i] > 1
    BY <1>1, <1>3, GivenParts
  <2>2. /\ \A i \in DOMAIN region : Whole(region[i]) \subseteq Available \ Image
        /\ \A i, j \in DOMAIN region : i # j => Whole(region[i]) \cap Whole(region[j]) = {}
    BY <1>1 DEF RegionsFree
  <2>3. Preinit \subseteq Image
    BY BootConstants DEF Image
  <2>4. Image \subseteq Available
    <3>1. PICK h \in UsableIndices : Image \subseteq PagesOf(mbmap[h])
      BY <1>1, SaneParts
    <3>2. PagesOf(mbmap[h]) \subseteq Available
      BY <1>1, SaneParts
    <3> QED BY <3>1, <3>2
  <2>5. \A i \in DOMAIN given : given[i] \subseteq Available /\ given[i] \cap (Image \ Preinit) = {}
    BY <2>1, <2>2, <2>3, <2>4
  <2>6. AllGiven \subseteq Available /\ AllGiven \cap (Image \ Preinit) = {}
    BY <2>5 DEF AllGiven, Range
  <2>7. ASSUME NEW i \in DOMAIN given, NEW j \in DOMAIN given, i # j
        PROVE  given[i] \cap given[j] = {}
    <3>1. f[i] # f[j]
      BY <2>1, <2>7
    <3>2. CASE f[i] # 0 /\ f[j] # 0
      BY <2>1, <2>2, <3>1, <3>2
    <3>3. CASE f[i] = 0
      BY <2>1, <2>2, <2>3, <3>1, <3>3
    <3>4. CASE f[j] = 0
      BY <2>1, <2>2, <2>3, <3>1, <3>4
    <3> QED BY <3>2, <3>3, <3>4
  <2>8. ASSUME phase = "kern_uhalf_init"
        PROVE  AllGiven \cap DOMAIN pt.mem = {}
    <3>1. region # <<>> /\ given = HandedOver /\ DOMAIN pt.mem \subseteq Whole(region[1])
      BY <2>8 DEF BootInv
    <3>2. 1 \in DOMAIN region
      BY <1>1, <3>1, HandedParts
    <3>3. ASSUME NEW i \in DOMAIN given PROVE given[i] \cap Whole(region[1]) = {}
      <4>1. f[i] \in 0 .. Len(region) /\ f[i] > 1
        BY <2>1, <3>1
      <4>2. f[i] # 0 /\ f[i] # 1
        BY <4>1
      <4> QED BY <2>1, <2>2, <3>2, <4>2
    <3> QED BY <3>1, <3>3 DEF AllGiven, Range
  <2> QED BY <2>6, <2>7, <2>8 DEF GivenIsFree, Image
<1> QED BY <1>2, <1>3

\* From every sane memory map, whatever its entries and the size of a page,
\* kbud_free_range() gets only available memory, no page twice, none of the
\* running image and none of the frames alloc_frame() put the first tables in.
THEOREM GivenStaysFree == ASSUME MapsAreSane PROVE MemSpec => []GivenIsFree
<1>1. BootInv => GivenIsFree
  BY GivenFree
<1> QED BY <1>1, BootInvariant, PTL

\* From every sane memory map, the frames alloc_frame() counts down from the
\* top of a region are pages.
THEOREM FramesStayAligned == ASSUME MapsAreSane PROVE MemSpec => []FramesAligned
<1>1. BootInv => FramesAligned
  BY DEF BootInv, RegionsFree, FramesAligned
<1> QED BY <1>1, BootInvariant, PTL

=============================================================================
