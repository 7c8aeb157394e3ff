------------------------------ MODULE SlabProofs ------------------------------
(***************************************************************************)
(* What Slab promises, proved for every page, header and object size and   *)
(* any memory.                                                             *)
(***************************************************************************)
EXTENDS Slab, CommonLemmas

-----------------------------------------------------------------------------
(***************************************************************************)
(* The inductive invariant.                                                *)
(***************************************************************************)
TypeInv ==
  /\ status \in {"none", "live", "failed", "destroyed"}
  /\ cache \in [order : Int, obj_size : Int, objs : Nat]
  /\ full \in Seq(Frames) /\ partial \in Seq(Frames) /\ empty \in Seq(Frames)
  /\ empty_slabs \in Int
  /\ freelist \in [Frames -> Seq(Nat)]
  /\ free_count \in [Frames -> Int]
  /\ owned \subseteq Frames
  /\ held \subseteq Nat

\* Before creation there is nothing; objects are out only while the cache
\* lives.
Fresh ==
  /\ status = "none" => full = <<>> /\ partial = <<>> /\ empty = <<>> /\ owned = {}
  /\ status = "none" => empty_slabs = 0
  /\ status # "live" => held = {}

\* The geometry of a live cache: at least two objects behind the header.
Shaped(c) ==
  /\ c.order \in 0 .. MAX_SLAB_ORDER - 1
  /\ c.obj_size \in Nat \ {0}
  /\ c.objs = Objs(c.order, c.obj_size)
  /\ c.objs \in Nat /\ c.objs >= 2

Geometry == Shaped(cache) /\ owned \subseteq Blocks(cache.order)

\* No list repeats a slab, no two share one.
Apart ==
  /\ IsInjective(full) /\ IsInjective(partial) /\ IsInjective(empty)
  /\ ToSet(full) \cap ToSet(partial) = {}
  /\ ToSet(full) \cap ToSet(empty) = {}
  /\ ToSet(partial) \cap ToSet(empty) = {}
  /\ Listed = owned

Lively == status = "live" => Geometry /\ Apart

\* How far empty_slabs may drift: while slabs are empty it is at most one
\* behind their number.
Drift ==
  /\ Len(empty) <= MAX_EMPTY
  /\ Len(empty) = 0 \/ Len(empty) <= empty_slabs + 1

Inv ==
  /\ TypeInv
  /\ Fresh
  /\ Lively
  /\ Drift
  /\ RightList
  /\ ObjectsFreeOrHeld
  /\ HeldIsOwned

-----------------------------------------------------------------------------
(***************************************************************************)
(* The geometry.                                                           *)
(***************************************************************************)
LEMMA ReservedNat == Reserved \in Nat /\ HDR_SIZE <= Reserved
<1>1. HDR_SIZE \in Nat /\ Alignment \in Nat \ {0}
  BY SlabAssumption
<1>2. HDR_SIZE % Alignment \in 0 .. Alignment - 1
  BY <1>1, DivMod
<1> DEFINE pad == (Alignment - (HDR_SIZE % Alignment)) % Alignment
<1>3. Alignment - (HDR_SIZE % Alignment) \in Int
  BY <1>1, <1>2
<1>4. pad \in 0 .. Alignment - 1
  BY <1>1, <1>3, DivMod
<1>5. Reserved = HDR_SIZE + pad
  BY DEF Reserved
<1> HIDE DEF pad
<1> QED BY <1>1, <1>4, <1>5

LEMMA BlockSizeNat ==
  ASSUME NEW o \in 0 .. MAX_SLAB_ORDER - 1
  PROVE  BlockSize(o) \in Nat \ {0}
<1>1. 2^o \in Nat \ {0} /\ PAGESIZE \in Nat \ {0}
  BY SlabPowers, SlabAssumption
<1> DEFINE w == 2^o
<1> HIDE DEF w
<1>2. PAGESIZE * w \in Nat \ {0}
  BY <1>1 DEF w
<1> QED BY <1>2 DEF w, BlockSize

\* The objects fit behind the header.
LEMMA ObjsFit ==
  ASSUME NEW o \in 0 .. MAX_SLAB_ORDER - 1, NEW z \in Nat \ {0}
  PROVE  /\ Objs(o, z) \in Nat
         /\ Objs(o, z) # 0 => Reserved + Objs(o, z) * z <= BlockSize(o)
<1>1. Reserved \in Nat /\ BlockSize(o) \in Nat
  BY ReservedNat, BlockSizeNat
<1>2. CASE BlockSize(o) <= Reserved
  BY <1>2 DEF Objs
<1>3. CASE ~(BlockSize(o) <= Reserved)
  <2> DEFINE room == BlockSize(o) - Reserved
             n == Objs(o, z)
  <2>1. room \in Nat
    BY <1>1, <1>3
  <2>2. n = room \div z
    BY <1>3 DEF Objs
  <2> HIDE DEF n, room
  <2>3. n \in Nat /\ n * z <= room
    BY <2>1, <2>2, DivBelow
  <2>4. n * z \in Int
    BY <2>3
  <2>5. Reserved + n * z <= BlockSize(o)
    BY <2>3, <2>4, <1>1 DEF room
  <2> QED BY <2>3, <2>5 DEF n
<1> QED BY <1>2, <1>3

\* The search over the orders finds one that fits.
LEMMA BestOrderFits ==
  ASSUME NEW z \in Nat \ {0}, Fits(z) # {}
  PROVE  BestOrder(z) \in Fits(z)
<1>1. \A o \in Fits(z) : o \in 0 .. MAX_SLAB_ORDER - 1 /\ Objs(o, z) # 0
  BY SlabAssumption, ObjsFit DEF Fits
<1>2. ASSUME NEW o \in Fits(z)
      PROVE  Waste(o, z) \in Nat
  <2>1. /\ Objs(o, z) \in Nat
        /\ Reserved + Objs(o, z) * z <= BlockSize(o)
    BY <1>1, <1>2, ObjsFit
  <2>2. Reserved \in Nat /\ BlockSize(o) \in Nat /\ Objs(o, z) * z \in Nat
    BY <2>1, <1>1, ReservedNat, BlockSizeNat
  <2> DEFINE p == Objs(o, z) * z
  <2>3. Waste(o, z) = BlockSize(o) - (Reserved + p)
    BY DEF Waste
  <2> HIDE DEF p
  <2> QED BY <2>1, <2>2, <2>3 DEF p
<1> DEFINE W == {Waste(o, z) : o \in Fits(z)}
<1>3. W \subseteq Nat /\ W # {}
  BY <1>2
<1>4. PICK w \in W : \A v \in W : w <= v
  BY <1>3, Least
<1> DEFINE B == {o \in Fits(z) : Waste(o, z) = w}
<1>5. B \subseteq Nat /\ B # {}
  BY <1>1, SlabAssumption
<1>6. PICK b \in B : \A o \in B : b <= o
  BY <1>5, Least
<1>7. ASSUME NEW p \in Fits(z)
      PROVE  Waste(b, z) < Waste(p, z) \/ (Waste(b, z) = Waste(p, z) /\ b <= p)
  <2>1. Waste(b, z) = w /\ w \in Nat /\ Waste(p, z) \in Nat /\ w <= Waste(p, z)
    BY <1>2, <1>3, <1>4
  <2>2. CASE Waste(p, z) = w
    <3>1. p \in B
      BY <2>2
    <3> QED BY <3>1, <2>1, <2>2, <1>6
  <2>3. CASE Waste(p, z) # w
    BY <2>1, <2>3
  <2> QED BY <2>2, <2>3
<1>8. b \in Fits(z)
  OBVIOUS
<1> HIDE DEF B, W
<1> QED BY <1>7, <1>8 DEF BestOrder

\* Every object of a slab lies between the header and the end of its block,
\* and masking its address finds the slab.
LEMMA PoolInside ==
  ASSUME NEW c, Shaped(c), NEW s \in Blocks(c.order)
  PROVE  /\ Pool(s, c) \in Seq(Nat)
         /\ Len(Pool(s, c)) = c.objs
         /\ IsInjective(Pool(s, c))
         /\ \A x \in ToSet(Pool(s, c)) :
              /\ x \in Nat
              /\ s + HDR_SIZE <= x
              /\ x + c.obj_size <= s + BlockSize(c.order)
              /\ x - (x % BlockSize(c.order)) = s
<1> DEFINE z == c.obj_size
           n == c.objs
           b == BlockSize(c.order)
           P == Pool(s, c)
           at(i) == s + Reserved + (i - 1) * z
<1>1. /\ z \in Nat \ {0} /\ n \in Nat /\ n >= 2
      /\ c.order \in 0 .. MAX_SLAB_ORDER - 1 /\ n = Objs(c.order, z)
  BY DEF Shaped
<1>2. /\ b \in Nat \ {0} /\ Reserved \in Nat /\ HDR_SIZE <= Reserved /\ HDR_SIZE \in Nat
      /\ Reserved + n * z <= b
  BY <1>1, BlockSizeNat, ReservedNat, ObjsFit, SlabAssumption
<1>3. s \in Nat /\ s % b = 0
  BY SlabAssumption DEF Blocks
<1>4. P = [i \in 1 .. n |-> at(i)]
  BY DEF Pool
<1> HIDE DEF z, n, b, P
<1>5. ASSUME NEW i \in 1 .. n
      PROVE  /\ at(i) \in Nat /\ s + HDR_SIZE <= at(i) /\ at(i) + z <= s + b
             /\ at(i) - (at(i) % b) = s
  <2> DEFINE k == (i - 1) * z
  <2>1. i - 1 \in Nat /\ k \in Nat /\ n * z \in Nat /\ i * z \in Nat
    BY <1>1
  <2>2. i * z <= n * z
    BY <1>1, MulMono
  <2>3. i * z = k + z
    BY <1>1
  <2> HIDE DEF k
  <2>4. at(i) = s + Reserved + k
    BY DEF k
  <2>5. k + z <= n * z
    BY <2>2, <2>3
  <2>6. /\ at(i) \in Nat /\ s + HDR_SIZE <= at(i) /\ at(i) + z <= s + b
        /\ at(i) - s \in 0 .. b - 1
    <3> DEFINE nz == n * z
    <3>1. nz \in Nat /\ k + z <= nz /\ Reserved + nz <= b
      BY <2>1, <2>5, <1>2
    <3> HIDE DEF nz
    <3> QED BY <3>1, <2>1, <2>4, <1>1, <1>2, <1>3
  <2>7. PICK q \in Int : s = q * b
    <3>1. s \in Int /\ b \in Nat \ {0} /\ s % b = 0
      BY <1>2, <1>3
    <3> QED BY <3>1, MultipleMod
  <2>8. at(i) = b * q + (at(i) - s)
    <3>1. b * q = s
      BY <2>7, <1>2
    <3> QED BY <3>1, <2>6, <1>3
  <2>9. at(i) % b = at(i) - s
    <3> DEFINE x == at(i)
               r == at(i) - s
    <3>1. x \in Int /\ r \in 0 .. b - 1 /\ x = b * q + r
      BY <2>6, <2>8
    <3> HIDE DEF x, r
    <3>2. x % b = r
      BY <3>1, <1>2, DivUnique
    <3> QED BY <3>2 DEF x, r
  <2> QED BY <2>6, <2>9, <1>3
<1>6. P \in Seq(Nat) /\ Len(P) = n /\ DOMAIN P = 1 .. n
  <2>1. P \in [1 .. n -> Nat]
    BY <1>4, <1>5
  <2> QED BY <2>1, <1>1, SeqDef
<1>7. IsInjective(P)
  <2> SUFFICES ASSUME NEW i \in 1 .. n, NEW j \in 1 .. n, P[i] = P[j], i < j
               PROVE  FALSE
    BY <1>1, <1>6 DEF IsInjective
  <2> DEFINE k == (i - 1) * z
             l == (j - 1) * z
  <2>1. k \in Int /\ l \in Int /\ s + Reserved + k = s + Reserved + l
    BY <1>1, <1>4
  <2>2. l = k + (j - i) * z
    BY <1>1
  <2>3. (j - i) * z >= z
    BY <1>1, MulGe
  <2> HIDE DEF k, l
  <2> QED BY <2>1, <2>2, <2>3, <1>1, <1>2, <1>3
<1>8. \A x \in ToSet(P) : \E i \in 1 .. n : x = at(i)
  BY <1>4, <1>6 DEF ToSet
<1> QED BY <1>5, <1>6, <1>7, <1>8 DEF z, n, b, P

-----------------------------------------------------------------------------
(***************************************************************************)
(* Taking an object off a freelist and putting it back.                    *)
(***************************************************************************)
\* With freelists fl, counts fc and the objects out in use, each object of
\* the blocks is free, once, or in use.
Accounted(fl, fc, out, blocks) ==
  \A t \in blocks :
    /\ IsInjective(fl[t])
    /\ fc[t] = Len(fl[t])
    /\ ToSet(fl[t]) = ObjectsOf(t) \ out

Within(out, blocks) == out \subseteq UNION {ObjectsOf(t) : t \in blocks}

\* What the invariant says of the slabs of a live cache.
LEMMA LiveSlabs ==
  ASSUME Inv, status = "live"
  PROVE  /\ Geometry /\ Apart
         /\ Accounted(freelist, free_count, held, owned)
         /\ Within(held, owned)
         /\ \A s \in owned :
              /\ s \in Frames /\ freelist[s] \in Seq(Nat) /\ free_count[s] \in Int
              /\ Pool(s, cache) \in Seq(Nat)
              /\ Len(Pool(s, cache)) = cache.objs
              /\ IsInjective(Pool(s, cache))
              /\ \A x \in ObjectsOf(s) :
                   /\ x \in Nat
                   /\ s + HDR_SIZE <= x
                   /\ x + cache.obj_size <= s + BlockSize(cache.order)
                   /\ SlabOf(x) = s
<1>1. Geometry /\ Apart
  BY DEF Inv, Lively
<1>2. Accounted(freelist, free_count, held, owned) /\ Within(held, owned)
  BY DEF Inv, ObjectsFreeOrHeld, HeldIsOwned, Accounted, Within
<1>3. ASSUME NEW s \in owned
      PROVE  /\ s \in Frames /\ freelist[s] \in Seq(Nat) /\ free_count[s] \in Int
             /\ Pool(s, cache) \in Seq(Nat)
             /\ Len(Pool(s, cache)) = cache.objs
             /\ IsInjective(Pool(s, cache))
             /\ \A x \in ObjectsOf(s) :
                  /\ x \in Nat
                  /\ s + HDR_SIZE <= x
                  /\ x + cache.obj_size <= s + BlockSize(cache.order)
                  /\ SlabOf(x) = s
  <2>1. s \in Frames /\ freelist[s] \in Seq(Nat) /\ free_count[s] \in Int
    BY DEF Inv, TypeInv
  <2>2. Shaped(cache) /\ s \in Blocks(cache.order)
    BY <1>1 DEF Geometry
  <2> QED BY <2>1, <2>2, PoolInside DEF ObjectsOf, SlabOf
<1> QED BY <1>1, <1>2, <1>3

\* The object handed out was free, in a slab the cache owns, and is no longer.
LEMMA PopObjects ==
  ASSUME Inv, status = "live", NEW s \in owned, free_count[s] # 0, Pop(s)
  PROVE  /\ freelist' \in [Frames -> Seq(Nat)]
         /\ free_count' \in [Frames -> Int]
         /\ held' \subseteq Nat
         /\ \A t \in Frames : free_count'[t] = IF t = s THEN free_count[s] - 1 ELSE free_count[t]
         /\ Accounted(freelist', free_count', held', owned)
         /\ Within(held', owned)
<1> DEFINE q == freelist[s]
           x == Head(q)
<1>1. /\ s \in Frames /\ q \in Seq(Nat) /\ IsInjective(q) /\ free_count[s] = Len(q)
      /\ ToSet(q) = ObjectsOf(s) \ held
  BY LiveSlabs DEF Accounted
<1>2. q # <<>>
  BY <1>1, EmptyList
<1>3. /\ x \in Nat /\ x \in ToSet(q) /\ Tail(q) \in Seq(Nat) /\ Len(Tail(q)) = Len(q) - 1
      /\ ToSet(Tail(q)) = ToSet(q) \ {x} /\ IsInjective(Tail(q))
  BY <1>1, <1>2, TailList
<1>4. /\ held' = held \cup {x}
      /\ freelist' = [freelist EXCEPT ![s] = Tail(q)]
      /\ free_count' = [free_count EXCEPT ![s] = free_count[s] - 1]
  BY DEF Pop
<1>5. freelist \in [Frames -> Seq(Nat)] /\ free_count \in [Frames -> Int] /\ held \subseteq Nat
  BY DEF Inv, TypeInv
<1> HIDE DEF q, x
<1>6. /\ freelist' \in [Frames -> Seq(Nat)] /\ free_count' \in [Frames -> Int] /\ held' \subseteq Nat
      /\ \A t \in Frames : free_count'[t] = IF t = s THEN free_count[s] - 1 ELSE free_count[t]
      /\ \A t \in Frames : freelist'[t] = IF t = s THEN Tail(q) ELSE freelist[t]
  BY <1>1, <1>3, <1>4, <1>5
<1>7. ASSUME NEW t \in owned
      PROVE  /\ IsInjective(freelist'[t])
             /\ free_count'[t] = Len(freelist'[t])
             /\ ToSet(freelist'[t]) = ObjectsOf(t) \ held'
  <2>1. t \in Frames /\ ToSet(freelist[t]) = ObjectsOf(t) \ held
        /\ IsInjective(freelist[t]) /\ free_count[t] = Len(freelist[t])
    BY LiveSlabs DEF Accounted
  <2>2. CASE t = s
    BY <2>2, <1>1, <1>3, <1>4, <1>6
  <2>3. CASE t # s
    <3>1. x \notin ObjectsOf(t)
      <4>1. x \in ObjectsOf(s)
        BY <1>1, <1>3
      <4> QED BY <4>1, <2>3, LiveSlabs
    <3> QED BY <3>1, <2>1, <2>3, <1>4, <1>6
  <2> QED BY <2>2, <2>3
<1>8. Within(held', owned)
  BY <1>1, <1>3, <1>4, LiveSlabs DEF Within
<1> QED BY <1>6, <1>7, <1>8 DEF Accounted

\* The object given back finds its slab, which the cache owns and which was
\* not empty.
LEMMA PushObjects ==
  ASSUME Inv, status = "live", NEW obj \in held, NEW s, s = SlabOf(obj), Push(s, obj)
  PROVE  /\ s \in owned
         /\ free_count[s] < cache.objs
         /\ freelist' \in [Frames -> Seq(Nat)]
         /\ free_count' \in [Frames -> Int]
         /\ held' \subseteq Nat
         /\ \A t \in Frames : free_count'[t] = IF t = s THEN free_count[s] + 1 ELSE free_count[t]
         /\ Accounted(freelist', free_count', held', owned)
         /\ Within(held', owned)
<1>1. PICK r \in owned : obj \in ObjectsOf(r)
  BY LiveSlabs DEF Within
<1>2. s \in owned /\ obj \in ObjectsOf(s)
  BY <1>1, LiveSlabs
<1> DEFINE q == freelist[s]
<1>3. /\ s \in Frames /\ q \in Seq(Nat) /\ IsInjective(q) /\ free_count[s] = Len(q)
      /\ ToSet(q) = ObjectsOf(s) \ held /\ obj \in Nat
  BY <1>2, LiveSlabs DEF Accounted
<1>4. Len(q) < cache.objs
  <2>1. /\ Pool(s, cache) \in Seq(Nat) /\ IsInjective(Pool(s, cache))
        /\ Len(Pool(s, cache)) = cache.objs
    BY <1>2, LiveSlabs
  <2>2. ToSet(q) \subseteq ToSet(Pool(s, cache)) /\ obj \in ToSet(Pool(s, cache)) /\ obj \notin ToSet(q)
    BY <1>2, <1>3 DEF ObjectsOf
  <2>3. Len(q) < Len(Pool(s, cache))
    BY <2>1, <2>2, <1>3, ShorterList
  <2> QED BY <2>1, <2>3
<1>5. /\ Cons(obj, q) \in Seq(Nat) /\ Len(Cons(obj, q)) = Len(q) + 1
      /\ ToSet(Cons(obj, q)) = {obj} \cup ToSet(q) /\ IsInjective(Cons(obj, q))
  <2>1. q \in Seq(Nat) /\ obj \in Nat /\ IsInjective(q) /\ obj \notin ToSet(q)
    BY <1>3
  <2> HIDE DEF q
  <2> QED BY <2>1, ConsList
<1>6. /\ held' = held \ {obj}
      /\ freelist' = [freelist EXCEPT ![s] = Cons(obj, q)]
      /\ free_count' = [free_count EXCEPT ![s] = free_count[s] + 1]
  BY DEF Push
<1>7. freelist \in [Frames -> Seq(Nat)] /\ free_count \in [Frames -> Int] /\ held \subseteq Nat
  BY DEF Inv, TypeInv
<1> HIDE DEF q
<1>8. /\ freelist' \in [Frames -> Seq(Nat)] /\ free_count' \in [Frames -> Int] /\ held' \subseteq Nat
      /\ \A t \in Frames : free_count'[t] = IF t = s THEN free_count[s] + 1 ELSE free_count[t]
      /\ \A t \in Frames : freelist'[t] = IF t = s THEN Cons(obj, q) ELSE freelist[t]
  BY <1>3, <1>5, <1>6, <1>7
<1>9. ASSUME NEW t \in owned
      PROVE  /\ IsInjective(freelist'[t])
             /\ free_count'[t] = Len(freelist'[t])
             /\ ToSet(freelist'[t]) = ObjectsOf(t) \ held'
  <2>1. t \in Frames /\ ToSet(freelist[t]) = ObjectsOf(t) \ held
        /\ IsInjective(freelist[t]) /\ free_count[t] = Len(freelist[t])
    BY LiveSlabs DEF Accounted
  <2>2. CASE t = s
    BY <2>2, <1>2, <1>3, <1>5, <1>6, <1>8
  <2>3. CASE t # s
    <3>1. obj \notin ObjectsOf(t)
      BY <1>2, <2>3, LiveSlabs
    <3> QED BY <3>1, <2>1, <2>3, <1>6, <1>8
  <2> QED BY <2>2, <2>3
<1>10. Within(held', owned)
  BY <1>6, LiveSlabs DEF Within
<1> QED BY <1>2, <1>3, <1>4, <1>8, <1>9, <1>10 DEF Accounted

-----------------------------------------------------------------------------
(***************************************************************************)
(* One lemma for each step.                                                *)
(***************************************************************************)
\* What is left to show of a step of a live cache.
LEMMA LiveStep ==
  ASSUME Inv, status = "live", status' = "live", cache' = cache,
         full' \in Seq(Frames), partial' \in Seq(Frames), empty' \in Seq(Frames),
         empty_slabs' \in Int,
         freelist' \in [Frames -> Seq(Nat)], free_count' \in [Frames -> Int],
         held' \subseteq Nat, owned' \subseteq Blocks(cache.order),
         Apart', Drift', RightList',
         Accounted(freelist', free_count', held', owned'), Within(held', owned')
  PROVE  Inv'
<1>1. TypeInv'
  BY DEF Inv, TypeInv, Blocks
<1>2. Fresh'
  BY DEF Fresh
<1>3. Lively'
  BY DEF Inv, Lively, Geometry
<1>4. ObjectsFreeOrHeld' /\ HeldIsOwned'
  BY DEF ObjectsFreeOrHeld, HeldIsOwned, Accounted, Within, ObjectsOf
<1> QED BY <1>1, <1>2, <1>3, <1>4 DEF Inv

\* The slabs O are sorted into three sets.
Sorted(F, P, E, O) == F \cap P = {} /\ F \cap E = {} /\ P \cap E = {} /\ F \cup P \cup E = O

\* Types of a live cache, and the lists as sets.
LEMMA LiveTypes ==
  ASSUME Inv, status = "live"
  PROVE  /\ full \in Seq(Frames) /\ partial \in Seq(Frames) /\ empty \in Seq(Frames)
         /\ empty_slabs \in Int /\ cache.objs \in Nat /\ cache.objs >= 2
         /\ owned \subseteq Blocks(cache.order) /\ owned \subseteq Frames
         /\ Len(empty) \in Nat
         /\ free_count \in [Frames -> Int]
         /\ ToSet(full) \cup ToSet(partial) \cup ToSet(empty) = owned
         /\ \A s \in ToSet(full) : free_count[s] = 0
         /\ \A s \in ToSet(partial) : free_count[s] \in 1 .. cache.objs - 1
         /\ \A s \in ToSet(empty) : free_count[s] = cache.objs
         /\ Sorted(ToSet(full), ToSet(partial), ToSet(empty), owned)
         /\ IsInjective(full) /\ IsInjective(partial) /\ IsInjective(empty)
<1>1. /\ full \in Seq(Frames) /\ partial \in Seq(Frames) /\ empty \in Seq(Frames)
      /\ empty_slabs \in Int /\ owned \subseteq Frames
      /\ free_count \in [Frames -> Int]
  BY DEF Inv, TypeInv
<1>2. cache.objs \in Nat /\ cache.objs >= 2 /\ owned \subseteq Blocks(cache.order)
  BY DEF Inv, Lively, Geometry, Shaped
<1>3. ToSet(full) \cup ToSet(partial) \cup ToSet(empty) = owned
  BY DEF Inv, Lively, Apart, Listed
<1>4. /\ \A s \in ToSet(full) : free_count[s] = 0
      /\ \A s \in ToSet(partial) : free_count[s] \in 1 .. cache.objs - 1
      /\ \A s \in ToSet(empty) : free_count[s] = cache.objs
  BY DEF Inv, RightList
<1>5. Len(empty) \in Nat
  BY <1>1, LenProperties
<1>6. /\ Sorted(ToSet(full), ToSet(partial), ToSet(empty), owned)
      /\ IsInjective(full) /\ IsInjective(partial) /\ IsInjective(empty)
  BY <1>3 DEF Inv, Lively, Apart, Sorted
<1> QED BY <1>1, <1>2, <1>3, <1>4, <1>5, <1>6

LEMMA PartialAllocKeeps ==
  ASSUME Inv, status = "live", kslab_partial_alloc
  PROVE  Inv'
<1> DEFINE s == Head(partial)
<1>1. /\ partial # <<>> /\ Pop(s)
      /\ status' = status /\ cache' = cache /\ empty' = empty
      /\ empty_slabs' = empty_slabs /\ owned' = owned
  BY DEF kslab_partial_alloc
<1>2. \/ free_count[s] = 1 /\ partial' = Tail(partial) /\ full' = Append(full, s)
      \/ free_count[s] # 1 /\ partial' = partial /\ full' = full
  BY DEF kslab_partial_alloc
<1>3. IsInjective(partial) /\ IsInjective(full)
  BY LiveTypes
<1>4. /\ s \in Frames /\ s \in ToSet(partial) /\ Tail(partial) \in Seq(Frames)
      /\ ToSet(Tail(partial)) = ToSet(partial) \ {s} /\ IsInjective(Tail(partial))
  BY <1>1, <1>3, LiveTypes, TailList
<1> HIDE DEF s
<1>5. s \in owned /\ free_count[s] \in 1 .. cache.objs - 1 /\ s \notin ToSet(full) /\ s \notin ToSet(empty)
  BY <1>4, LiveTypes DEF Sorted
<1>6. /\ freelist' \in [Frames -> Seq(Nat)] /\ free_count' \in [Frames -> Int] /\ held' \subseteq Nat
      /\ \A t \in Frames : free_count'[t] = IF t = s THEN free_count[s] - 1 ELSE free_count[t]
      /\ Accounted(freelist', free_count', held', owned)
      /\ Within(held', owned)
  <2>1. free_count[s] # 0
    BY <1>5
  <2> QED BY <2>1, <1>1, <1>5, PopObjects
<1>7. /\ Append(full, s) \in Seq(Frames) /\ ToSet(Append(full, s)) = {s} \cup ToSet(full)
      /\ IsInjective(Append(full, s))
  BY <1>3, <1>4, <1>5, LiveTypes, AppendList
<1>8. full' \in Seq(Frames) /\ partial' \in Seq(Frames)
  BY <1>2, <1>4, <1>7, LiveTypes
<1>9. Apart'
  <2>1. Sorted(ToSet(full'), ToSet(partial'), ToSet(empty'), owned')
    <3>1. CASE free_count[s] = 1
      <4>1. Sorted(ToSet(full), ToSet(partial), ToSet(empty), owned)
        BY LiveTypes
      <4>2. Sorted({s} \cup ToSet(full), ToSet(partial) \ {s}, ToSet(empty), owned)
        <5>1. s \in ToSet(partial)
          BY <1>4
        <5> QED BY <5>1, <4>1 DEF Sorted
      <4>3. ToSet(full') = {s} \cup ToSet(full) /\ ToSet(partial') = ToSet(partial) \ {s}
        BY <3>1, <1>2, <1>4, <1>7
      <4> QED BY <4>2, <4>3, <1>1
    <3>2. CASE free_count[s] # 1
      BY <3>2, <1>1, <1>2, LiveTypes
    <3> QED BY <3>1, <3>2
  <2>2. IsInjective(full') /\ IsInjective(partial') /\ IsInjective(empty')
    BY <1>1, <1>2, <1>4, <1>7, LiveTypes
  <2> QED BY <2>1, <2>2 DEF Apart, Sorted, Listed
<1>10. RightList'
  <2>1. \A t \in ToSet(full') : free_count'[t] = 0
    <3> SUFFICES ASSUME NEW t \in ToSet(full')
                 PROVE  free_count'[t] = 0
      OBVIOUS
    <3>1. (t = s /\ free_count[s] = 1) \/ t \in ToSet(full)
      BY <1>2, <1>7
    <3>2. t \in ToSet(full) => t # s /\ t \in Frames /\ free_count[t] = 0
      BY <1>5, LiveTypes
    <3> QED BY <3>1, <3>2, <1>4, <1>6
  <2>2. \A t \in ToSet(partial') : free_count'[t] \in 1 .. cache.objs - 1
    <3> SUFFICES ASSUME NEW t \in ToSet(partial')
                 PROVE  free_count'[t] \in 1 .. cache.objs - 1
      OBVIOUS
    <3>1. t \in ToSet(partial) /\ t \in Frames /\ (t = s => free_count[s] # 1)
      BY <1>2, <1>4, LiveTypes
    <3>2. free_count[t] \in 1 .. cache.objs - 1 /\ cache.objs \in Nat
      BY <3>1, LiveTypes
    <3> QED BY <3>1, <3>2, <1>5, <1>6
  <2>3. \A t \in ToSet(empty') : free_count'[t] = cache.objs
    BY <1>1, <1>5, <1>6, LiveTypes
  <2> QED BY <2>1, <2>2, <2>3, <1>1 DEF RightList
<1>11. Drift'
  BY <1>1 DEF Inv, Drift
<1> QED BY <1>1, <1>6, <1>8, <1>9, <1>10, <1>11, LiveTypes, LiveStep

LEMMA EmptyAllocKeeps ==
  ASSUME Inv, status = "live", kslab_empty_alloc
  PROVE  Inv'
<1> DEFINE s == Head(empty)
<1>1. /\ empty # <<>> /\ partial = <<>> /\ Pop(s)
      /\ status' = status /\ cache' = cache /\ full' = full
      /\ empty' = Tail(empty) /\ partial' = Append(partial, s)
      /\ empty_slabs' = empty_slabs - 1 /\ owned' = owned
  BY DEF kslab_empty_alloc
<1>2. IsInjective(partial) /\ IsInjective(empty)
  BY LiveTypes
<1>3. /\ s \in Frames /\ s \in ToSet(empty) /\ empty' \in Seq(Frames) /\ Len(empty') = Len(empty) - 1
      /\ ToSet(empty') = ToSet(empty) \ {s} /\ IsInjective(empty')
  BY <1>1, <1>2, LiveTypes, TailList
<1> HIDE DEF s
<1>4. s \in owned /\ free_count[s] = cache.objs /\ s \notin ToSet(full) /\ s \notin ToSet(partial)
  BY <1>3, LiveTypes DEF Sorted
<1>5. /\ freelist' \in [Frames -> Seq(Nat)] /\ free_count' \in [Frames -> Int] /\ held' \subseteq Nat
      /\ \A t \in Frames : free_count'[t] = IF t = s THEN free_count[s] - 1 ELSE free_count[t]
      /\ Accounted(freelist', free_count', held', owned)
      /\ Within(held', owned)
  <2>1. free_count[s] # 0
    BY <1>4, LiveTypes
  <2> QED BY <2>1, <1>1, <1>4, PopObjects
<1>6. /\ partial' \in Seq(Frames) /\ ToSet(partial') = {s} \cup ToSet(partial)
      /\ IsInjective(partial')
  BY <1>1, <1>2, <1>3, <1>4, LiveTypes, AppendList
<1>7. Apart'
  <2>1. Sorted(ToSet(full'), ToSet(partial'), ToSet(empty'), owned')
    <3>1. Sorted(ToSet(full), ToSet(partial), ToSet(empty), owned)
      BY LiveTypes
    <3>2. Sorted(ToSet(full), {s} \cup ToSet(partial), ToSet(empty) \ {s}, owned)
      <4>1. s \in ToSet(empty)
        BY <1>3
      <4> QED BY <4>1, <3>1 DEF Sorted
    <3> QED BY <3>2, <1>1, <1>3, <1>6
  <2> QED BY <2>1, <1>1, <1>3, <1>6, LiveTypes DEF Apart, Sorted, Listed
<1>8. RightList'
  <2>1. \A t \in ToSet(full') : free_count'[t] = 0
    BY <1>1, <1>4, <1>5, LiveTypes
  <2>2. \A t \in ToSet(partial') : free_count'[t] \in 1 .. cache.objs - 1
    <3>1. ToSet(partial') = {s}
      BY <1>1, <1>6, LiveTypes, EmptyList
    <3>2. free_count'[s] = cache.objs - 1
      BY <1>3, <1>4, <1>5
    <3>3. cache.objs - 1 \in 1 .. cache.objs - 1
      BY LiveTypes
    <3> QED BY <3>1, <3>2, <3>3
  <2>3. \A t \in ToSet(empty') : free_count'[t] = cache.objs
    BY <1>3, <1>5, LiveTypes
  <2> QED BY <2>1, <2>2, <2>3, <1>1 DEF RightList
<1>9. Drift'
  <2>1. Len(empty) <= MAX_EMPTY /\ (Len(empty) = 0 \/ Len(empty) <= empty_slabs + 1)
    BY DEF Inv, Drift
  <2>2. Len(empty') <= MAX_EMPTY /\ (Len(empty') = 0 \/ Len(empty') <= empty_slabs' + 1)
    BY <2>1, <1>1, <1>3, LiveTypes, SlabAssumption
  <2> QED BY <2>2 DEF Drift
<1>10. empty_slabs' \in Int /\ full' \in Seq(Frames) /\ owned' \subseteq Blocks(cache.order)
  BY <1>1, LiveTypes
<1> QED BY <1>1, <1>3, <1>5, <1>6, <1>7, <1>8, <1>9, <1>10, LiveStep

LEMMA NewAllocKeeps ==
  ASSUME Inv, status = "live", kslab_new_alloc
  PROVE  Inv'
<1>1. /\ partial = <<>> /\ empty = <<>>
      /\ status' = status /\ cache' = cache /\ full' = full /\ empty' = empty
      /\ empty_slabs' = empty_slabs - 1
  BY DEF kslab_new_alloc
<1>2. PICK s \in Frames :
        /\ s \in Blocks(cache.order) \ owned
        /\ owned' = owned \cup {s}
        /\ held' = held \cup {Head(Pool(s, cache))}
        /\ freelist' = [freelist EXCEPT ![s] = Tail(Pool(s, cache))]
        /\ free_count' = [free_count EXCEPT ![s] = cache.objs - 1]
        /\ partial' = Append(partial, s)
  BY DEF kslab_new_alloc, NewSlab
<1> DEFINE P == Pool(s, cache)
           x == Head(P)
<1>3. /\ P \in Seq(Nat) /\ Len(P) = cache.objs /\ IsInjective(P)
      /\ \A y \in ToSet(P) : y \in Nat /\ y - (y % BlockSize(cache.order)) = s
  <2>1. Shaped(cache)
    BY LiveSlabs DEF Geometry
  <2> QED BY <2>1, <1>2, PoolInside
<1>4. ObjectsOf(s) = ToSet(P)
  BY DEF ObjectsOf
<1> HIDE DEF P
<1>5. P # <<>>
  BY <1>3, LiveTypes, EmptyList
<1>6. /\ x \in Nat /\ x \in ToSet(P) /\ Tail(P) \in Seq(Nat) /\ Len(Tail(P)) = cache.objs - 1
      /\ ToSet(Tail(P)) = ToSet(P) \ {x} /\ IsInjective(Tail(P))
  BY <1>3, <1>5, TailList
<1>7. /\ held' = held \cup {x} /\ freelist' = [freelist EXCEPT ![s] = Tail(P)]
  BY <1>2 DEF P
<1> HIDE DEF x
<1>8. freelist \in [Frames -> Seq(Nat)] /\ free_count \in [Frames -> Int] /\ held \subseteq Nat
  BY DEF Inv, TypeInv
<1>9. /\ freelist' \in [Frames -> Seq(Nat)] /\ free_count' \in [Frames -> Int] /\ held' \subseteq Nat
      /\ \A t \in Frames : free_count'[t] = IF t = s THEN cache.objs - 1 ELSE free_count[t]
      /\ \A t \in Frames : freelist'[t] = IF t = s THEN Tail(P) ELSE freelist[t]
  <2>1. cache.objs - 1 \in Int /\ free_count' = [free_count EXCEPT ![s] = cache.objs - 1]
    BY <1>2, LiveTypes
  <2>2. free_count' \in [Frames -> Int]
        /\ \A t \in Frames : free_count'[t] = IF t = s THEN cache.objs - 1 ELSE free_count[t]
    BY <2>1, <1>8
  <2>3. freelist' \in [Frames -> Seq(Nat)]
        /\ \A t \in Frames : freelist'[t] = IF t = s THEN Tail(P) ELSE freelist[t]
    BY <1>6, <1>7, <1>8
  <2> QED BY <2>2, <2>3, <1>6, <1>7, <1>8
\* The objects of the new slab are nobody else's.
<1>10. \A t \in owned : ObjectsOf(t) \cap ToSet(P) = {}
  <2> SUFFICES ASSUME NEW t \in owned, NEW y \in ObjectsOf(t), y \in ToSet(P)
               PROVE  FALSE
    OBVIOUS
  <2>1. SlabOf(y) = t
    BY LiveSlabs
  <2>2. SlabOf(y) = s
    BY <1>3 DEF SlabOf
  <2> QED BY <2>1, <2>2, <1>2
<1>11. held \cap ToSet(P) = {}
  BY <1>10, LiveSlabs DEF Within
<1>12. ASSUME NEW t \in owned'
       PROVE  /\ IsInjective(freelist'[t])
              /\ free_count'[t] = Len(freelist'[t])
              /\ ToSet(freelist'[t]) = ObjectsOf(t) \ held'
  <2>1. CASE t = s
    <3>1. freelist'[s] = Tail(P) /\ free_count'[s] = cache.objs - 1
      BY <1>2, <1>9
    <3>2. ToSet(Tail(P)) = ToSet(P) \ held'
      BY <1>6, <1>7, <1>11
    <3> QED BY <2>1, <3>1, <3>2, <1>4, <1>6
  <2>2. CASE t # s
    <3>1. t \in owned
      BY <2>2, <1>2
    <3>2. t \in Frames /\ ToSet(freelist[t]) = ObjectsOf(t) \ held
          /\ IsInjective(freelist[t]) /\ free_count[t] = Len(freelist[t])
      BY <3>1, LiveSlabs DEF Accounted
    <3>3. x \notin ObjectsOf(t)
      BY <3>1, <1>6, <1>10
    <3>4. freelist'[t] = freelist[t] /\ free_count'[t] = free_count[t]
      BY <2>2, <3>2, <1>9
    <3> QED BY <3>2, <3>3, <3>4, <1>7
  <2> QED BY <2>1, <2>2
<1>13. Within(held', owned')
  BY <1>2, <1>4, <1>6, <1>7, LiveSlabs DEF Within
<1>14. ToSet(partial) = {} /\ ToSet(empty) = {} /\ Len(empty) = 0
  BY <1>1, LiveTypes, EmptyList
<1>15. partial' \in Seq(Frames) /\ ToSet(partial') = {s} /\ IsInjective(partial')
  BY <1>2, <1>14, LiveTypes, AppendList
<1>16. s \notin ToSet(full)
  BY <1>2, LiveTypes
<1>17. Apart'
  <2>1. Sorted(ToSet(full), ToSet(partial), ToSet(empty), owned)
    BY LiveTypes
  <2>2. Sorted(ToSet(full), {s}, ToSet(empty), owned \cup {s})
    BY <2>1, <1>14, <1>16 DEF Sorted
  <2>3. Sorted(ToSet(full'), ToSet(partial'), ToSet(empty'), owned')
    BY <2>2, <1>1, <1>2, <1>15
  <2> QED BY <2>3, <1>1, <1>15, LiveTypes DEF Apart, Sorted, Listed
<1>18. RightList'
  <2>1. \A t \in ToSet(full') : free_count'[t] = 0
    BY <1>1, <1>9, <1>16, LiveTypes
  <2>2. \A t \in ToSet(partial') : free_count'[t] \in 1 .. cache.objs - 1
    <3>1. free_count'[s] = cache.objs - 1 /\ cache.objs - 1 \in 1 .. cache.objs - 1
      BY <1>2, <1>9, LiveTypes
    <3> QED BY <3>1, <1>15
  <2>3. ToSet(empty') = {}
    BY <1>1, <1>14
  <2> QED BY <2>1, <2>2, <2>3, <1>1 DEF RightList
<1>19. Drift'
  <2>1. Len(empty') = 0 /\ 0 <= MAX_EMPTY
    BY <1>1, <1>14, SlabAssumption
  <2> QED BY <2>1 DEF Drift
<1>20. /\ empty_slabs' \in Int /\ full' \in Seq(Frames) /\ empty' \in Seq(Frames)
       /\ owned' \subseteq Blocks(cache.order)
  BY <1>1, <1>2, LiveTypes
<1>21. Accounted(freelist', free_count', held', owned')
  BY <1>12 DEF Accounted
<1> QED BY <1>1, <1>9, <1>13, <1>15, <1>17, <1>18, <1>19, <1>20, <1>21, LiveStep

\* A free into a full slab.
LEMMA UnfilledKeeps ==
  ASSUME Inv, status = "live", status' = "live", cache' = cache,
         NEW obj \in held, NEW s, s = SlabOf(obj), Push(s, obj),
         free_count[s] = 0, Unfilled(s)
  PROVE  Inv'
<1>1. /\ s \in owned
      /\ freelist' \in [Frames -> Seq(Nat)] /\ free_count' \in [Frames -> Int] /\ held' \subseteq Nat
      /\ \A t \in Frames : free_count'[t] = IF t = s THEN free_count[s] + 1 ELSE free_count[t]
      /\ Accounted(freelist', free_count', held', owned)
      /\ Within(held', owned)
  BY PushObjects
<1>2. /\ full' = RemoveFirst(full, s) /\ partial' = Append(partial, s)
      /\ empty' = empty /\ empty_slabs' = empty_slabs /\ owned' = owned
  BY DEF Unfilled
<1>3. s \in ToSet(full) /\ s \notin ToSet(partial) /\ s \notin ToSet(empty) /\ s \in Frames
  <2>1. s \notin ToSet(partial) /\ s \notin ToSet(empty)
    BY LiveTypes
  <2> QED BY <2>1, <1>1, LiveTypes
<1>4. /\ full' \in Seq(Frames) /\ ToSet(full') = ToSet(full) \ {s} /\ IsInjective(full')
  BY <1>2, <1>3, LiveTypes, RemoveList
<1>5. /\ partial' \in Seq(Frames) /\ ToSet(partial') = {s} \cup ToSet(partial) /\ IsInjective(partial')
  BY <1>2, <1>3, LiveTypes, AppendList
<1>6. Apart'
  <2>1. Sorted(ToSet(full), ToSet(partial), ToSet(empty), owned)
    BY LiveTypes
  <2>2. Sorted(ToSet(full) \ {s}, {s} \cup ToSet(partial), ToSet(empty), owned)
    BY <2>1, <1>3 DEF Sorted
  <2>3. Sorted(ToSet(full'), ToSet(partial'), ToSet(empty'), owned')
    BY <2>2, <1>2, <1>4, <1>5
  <2> QED BY <2>3, <1>2, <1>4, <1>5, LiveTypes DEF Apart, Sorted, Listed
<1>7. RightList'
  <2>1. \A t \in ToSet(full') : free_count'[t] = 0
    BY <1>1, <1>4, LiveTypes
  <2>2. \A t \in ToSet(partial') : free_count'[t] \in 1 .. cache.objs - 1
    <3> SUFFICES ASSUME NEW t \in ToSet(partial')
                 PROVE  free_count'[t] \in 1 .. cache.objs - 1
      OBVIOUS
    <3>1. CASE t = s
      <4>1. free_count'[s] = 0 + 1 /\ 1 \in 1 .. cache.objs - 1
        BY <1>1, <1>3, LiveTypes
      <4> QED BY <4>1, <3>1
    <3>2. CASE t # s
      <4>1. t \in ToSet(partial) /\ t \in Frames
        BY <3>2, <1>5, LiveTypes
      <4> QED BY <4>1, <3>2, <1>1, LiveTypes
    <3> QED BY <3>1, <3>2
  <2>3. \A t \in ToSet(empty') : free_count'[t] = cache.objs
    BY <1>1, <1>2, <1>3, LiveTypes
  <2> QED BY <2>1, <2>2, <2>3 DEF RightList
<1>8. Drift'
  BY <1>2 DEF Inv, Drift
<1>9. empty_slabs' \in Int /\ empty' \in Seq(Frames) /\ owned' \subseteq Blocks(cache.order)
  BY <1>2, LiveTypes
<1> QED BY <1>1, <1>2, <1>4, <1>5, <1>6, <1>7, <1>8, <1>9, LiveStep

\* A free into a slab that stays partial.
LEMMA PlainFreeKeeps ==
  ASSUME Inv, status = "live", status' = "live", cache' = cache,
         NEW obj \in held, NEW s, s = SlabOf(obj), Push(s, obj),
         free_count[s] # 0, free_count[s] + 1 # cache.objs,
         UNCHANGED <<lists, empty_slabs, owned>>
  PROVE  Inv'
<1>1. /\ s \in owned /\ free_count[s] < cache.objs
      /\ freelist' \in [Frames -> Seq(Nat)] /\ free_count' \in [Frames -> Int] /\ held' \subseteq Nat
      /\ \A t \in Frames : free_count'[t] = IF t = s THEN free_count[s] + 1 ELSE free_count[t]
      /\ Accounted(freelist', free_count', held', owned)
      /\ Within(held', owned)
  BY PushObjects
<1>2. full' = full /\ partial' = partial /\ empty' = empty /\ empty_slabs' = empty_slabs /\ owned' = owned
  BY DEF lists
<1>3. s \in ToSet(partial) /\ s \notin ToSet(full) /\ s \notin ToSet(empty) /\ s \in Frames
  <2>1. s \notin ToSet(full) /\ s \notin ToSet(empty)
    BY <1>1, LiveTypes
  <2> QED BY <2>1, <1>1, LiveTypes
<1>4. Apart'
  BY <1>2, LiveSlabs DEF Apart, Listed
<1>5. RightList'
  <2>1. \A t \in ToSet(full') : free_count'[t] = 0
    BY <1>1, <1>2, <1>3, LiveTypes
  <2>2. \A t \in ToSet(partial') : free_count'[t] \in 1 .. cache.objs - 1
    <3>1. free_count'[s] \in 1 .. cache.objs - 1
      <4>1. free_count'[s] = free_count[s] + 1 /\ free_count[s] \in 1 .. cache.objs - 1
        BY <1>1, <1>3, LiveTypes
      <4>2. cache.objs \in Nat
        BY LiveTypes
      <4> QED BY <4>1, <4>2
    <3> QED BY <3>1, <1>1, <1>2, LiveTypes
  <2>3. \A t \in ToSet(empty') : free_count'[t] = cache.objs
    BY <1>1, <1>2, <1>3, LiveTypes
  <2> QED BY <2>1, <2>2, <2>3 DEF RightList
<1>6. Drift'
  BY <1>2 DEF Inv, Drift
<1>7. /\ full' \in Seq(Frames) /\ partial' \in Seq(Frames)
      /\ empty_slabs' \in Int /\ empty' \in Seq(Frames) /\ owned' \subseteq Blocks(cache.order)
  BY <1>2, LiveTypes
<1> QED BY <1>1, <1>2, <1>4, <1>5, <1>6, <1>7, LiveStep

\* A free that empties a slab.  The slab given back, which need not be the
\* one just emptied, has no object in use.
LEMMA EmptiedKeeps ==
  ASSUME Inv, status = "live", status' = "live", cache' = cache,
         NEW obj \in held, NEW s, s = SlabOf(obj), Push(s, obj),
         free_count[s] # 0, free_count[s] + 1 = cache.objs, Emptied(s)
  PROVE  Inv'
<1>1. /\ s \in owned /\ free_count[s] < cache.objs
      /\ freelist' \in [Frames -> Seq(Nat)] /\ free_count' \in [Frames -> Int] /\ held' \subseteq Nat
      /\ \A t \in Frames : free_count'[t] = IF t = s THEN free_count[s] + 1 ELSE free_count[t]
      /\ Accounted(freelist', free_count', held', owned)
      /\ Within(held', owned)
  BY PushObjects
<1> DEFINE chain == Append(empty, s)
           h == Head(chain)
<1>2. /\ partial' = RemoveFirst(partial, s) /\ full' = full
      /\ \/ /\ AboveMax(empty_slabs + 2) /\ empty' = Tail(chain)
            /\ owned' = owned \ {h} /\ empty_slabs' = (empty_slabs + 2) - 1
         \/ /\ ~AboveMax(empty_slabs + 2) /\ empty' = chain
            /\ owned' = owned /\ empty_slabs' = empty_slabs + 2
  <2>1. AboveMax(empty_slabs + 2) \in BOOLEAN
    BY DEF AboveMax
  <2>2. CASE AboveMax(empty_slabs + 2)
    BY <2>2 DEF Emptied
  <2>3. CASE ~AboveMax(empty_slabs + 2)
    BY <2>3 DEF Emptied
  <2> QED BY <2>1, <2>2, <2>3
<1>3. s \in ToSet(partial) /\ s \notin ToSet(full) /\ s \notin ToSet(empty) /\ s \in Frames
  <2>1. s \notin ToSet(full) /\ s \notin ToSet(empty)
    BY <1>1, LiveTypes
  <2> QED BY <2>1, <1>1, LiveTypes
<1>4. /\ partial' \in Seq(Frames) /\ ToSet(partial') = ToSet(partial) \ {s} /\ IsInjective(partial')
  BY <1>2, <1>3, LiveTypes, RemoveList
<1>5. /\ chain \in Seq(Frames) /\ Len(chain) = Len(empty) + 1
      /\ ToSet(chain) = {s} \cup ToSet(empty) /\ IsInjective(chain)
  BY <1>3, LiveTypes, AppendList
<1> HIDE DEF chain
<1>6. chain # <<>>
  BY <1>5, LiveTypes, EmptyList
<1>7. /\ h \in ToSet(chain) /\ Tail(chain) \in Seq(Frames) /\ Len(Tail(chain)) = Len(empty)
      /\ ToSet(Tail(chain)) = ToSet(chain) \ {h} /\ IsInjective(Tail(chain))
  <2>1. /\ h \in ToSet(chain) /\ Tail(chain) \in Seq(Frames) /\ Len(Tail(chain)) = Len(chain) - 1
        /\ ToSet(Tail(chain)) = ToSet(chain) \ {h} /\ IsInjective(Tail(chain))
    BY <1>5, <1>6, TailList
  <2> QED BY <2>1, <1>5, LiveTypes
<1> HIDE DEF h
<1>8. \A t \in ToSet(chain) : t \in owned /\ free_count'[t] = cache.objs
  <2> SUFFICES ASSUME NEW t \in ToSet(chain)
               PROVE  t \in owned /\ free_count'[t] = cache.objs
    OBVIOUS
  <2>1. t \in owned /\ t \in Frames /\ (t # s => free_count[t] = cache.objs)
    BY <1>1, <1>5, LiveTypes
  <2> QED BY <2>1, <1>1
<1>9. ASSUME NEW t \in ToSet(chain)
      PROVE  ObjectsOf(t) \cap held' = {}
  <2> SUFFICES ASSUME NEW x \in ObjectsOf(t), x \in held'
               PROVE  FALSE
    OBVIOUS
  <2>1. /\ t \in owned /\ t \in Frames
        /\ IsInjective(freelist'[t]) /\ free_count'[t] = Len(freelist'[t])
        /\ ToSet(freelist'[t]) = ObjectsOf(t) \ held' /\ freelist'[t] \in Seq(Nat)
    BY <1>1, <1>8, LiveTypes DEF Accounted
  <2>2. Pool(t, cache) \in Seq(Nat) /\ Len(Pool(t, cache)) = cache.objs /\ IsInjective(Pool(t, cache))
    BY <2>1, LiveSlabs
  <2>3. /\ ToSet(freelist'[t]) \subseteq ToSet(Pool(t, cache))
        /\ x \in ToSet(Pool(t, cache)) /\ x \notin ToSet(freelist'[t])
    BY <2>1 DEF ObjectsOf
  <2> DEFINE q == freelist'[t]
             P == Pool(t, cache)
  <2>4. /\ q \in Seq(Nat) /\ P \in Seq(Nat) /\ IsInjective(q) /\ IsInjective(P)
        /\ ToSet(q) \subseteq ToSet(P) /\ x \in ToSet(P) /\ x \notin ToSet(q)
        /\ Len(q) = cache.objs /\ Len(P) = cache.objs
    BY <2>1, <2>2, <2>3, <1>8
  <2> HIDE DEF q, P
  <2>5. Len(q) < Len(P)
    BY <2>4, ShorterList
  <2> QED BY <2>4, <2>5, LiveTypes
<1>10. Sorted(ToSet(full), ToSet(partial) \ {s}, ToSet(chain), owned)
  <2>1. Sorted(ToSet(full), ToSet(partial), ToSet(empty), owned)
    BY LiveTypes
  <2> QED BY <2>1, <1>3, <1>5 DEF Sorted
<1>11. /\ empty' \in Seq(Frames) /\ IsInjective(empty') /\ ToSet(empty') \subseteq ToSet(chain)
       /\ owned' \subseteq owned
       /\ Sorted(ToSet(full'), ToSet(partial'), ToSet(empty'), owned')
  <2>1. CASE empty' = chain /\ owned' = owned
    BY <2>1, <1>2, <1>4, <1>5, <1>10
  <2>2. CASE empty' = Tail(chain) /\ owned' = owned \ {h}
    <3>1. Sorted(ToSet(full), ToSet(partial) \ {s}, ToSet(chain) \ {h}, owned \ {h})
      BY <1>7, <1>10 DEF Sorted
    <3> QED BY <3>1, <2>2, <1>2, <1>4, <1>7
  <2> QED BY <2>1, <2>2, <1>2
<1>12. Apart'
  BY <1>2, <1>4, <1>11, LiveTypes DEF Apart, Sorted, Listed
<1>13. RightList'
  <2>1. \A t \in ToSet(full') : free_count'[t] = 0
    BY <1>1, <1>2, <1>3, LiveTypes
  <2>2. \A t \in ToSet(partial') : free_count'[t] \in 1 .. cache.objs - 1
    BY <1>1, <1>4, LiveTypes
  <2>3. \A t \in ToSet(empty') : free_count'[t] = cache.objs
    BY <1>8, <1>11
  <2> QED BY <2>1, <2>2, <2>3 DEF RightList
<1>14. Drift' /\ empty_slabs' \in Int
  <2> DEFINE n == Len(empty)
             m == Len(empty')
  <2>1. n \in Nat /\ n <= MAX_EMPTY /\ (n = 0 \/ n <= empty_slabs + 1) /\ empty_slabs \in Int
    BY LiveTypes DEF Inv, Drift
  <2>2. \/ /\ (empty_slabs + 2 < 0 \/ empty_slabs + 2 > MAX_EMPTY)
           /\ m = n /\ empty_slabs' = (empty_slabs + 2) - 1
        \/ /\ ~(empty_slabs + 2 < 0 \/ empty_slabs + 2 > MAX_EMPTY)
           /\ m = n + 1 /\ empty_slabs' = empty_slabs + 2
    BY <1>2, <1>5, <1>7 DEF AboveMax
  <2>3. MAX_EMPTY \in Nat \ {0}
    BY SlabAssumption
  <2> HIDE DEF n, m
  <2>4. m <= MAX_EMPTY /\ (m = 0 \/ m <= empty_slabs' + 1) /\ empty_slabs' \in Int
    BY <2>1, <2>2, <2>3
  <2> QED BY <2>4 DEF Drift, m
<1>15. Accounted(freelist', free_count', held', owned')
  BY <1>1, <1>11 DEF Accounted
<1>16. Within(held', owned')
  <2> SUFFICES ASSUME NEW x \in held'
               PROVE  \E t \in owned' : x \in ObjectsOf(t)
    BY DEF Within
  <2>1. PICK t \in owned : x \in ObjectsOf(t)
    BY <1>1 DEF Within
  <2>2. t \notin ToSet(chain)
    BY <2>1, <1>9
  <2>3. t \in owned'
    BY <2>2, <1>2, <1>7
  <2> QED BY <2>1, <2>3
<1>17. full' \in Seq(Frames) /\ owned' \subseteq Blocks(cache.order)
  BY <1>2, <1>11, LiveTypes
<1> QED BY <1>1, <1>4, <1>11, <1>12, <1>13, <1>14, <1>15, <1>16, <1>17, LiveStep

LEMMA FreeKeeps ==
  ASSUME Inv, NEW obj \in held, kslab_free(obj)
  PROVE  Inv'
<1> DEFINE s == SlabOf(obj)
<1>1. /\ status = "live" /\ status' = "live" /\ cache' = cache /\ Push(s, obj)
      /\ \/ free_count[s] = 0 /\ Unfilled(s)
         \/ free_count[s] # 0 /\ free_count[s] + 1 = cache.objs /\ Emptied(s)
         \/ free_count[s] # 0 /\ free_count[s] + 1 # cache.objs
            /\ UNCHANGED <<lists, empty_slabs, owned>>
  BY DEF kslab_free
<1>2. s = SlabOf(obj)
  OBVIOUS
<1> HIDE DEF s
<1>3. CASE free_count[s] = 0 /\ Unfilled(s)
  BY <1>1, <1>2, <1>3, UnfilledKeeps
<1>4. CASE free_count[s] # 0 /\ free_count[s] + 1 = cache.objs /\ Emptied(s)
  BY <1>1, <1>2, <1>4, EmptiedKeeps
<1>5. CASE free_count[s] # 0 /\ free_count[s] + 1 # cache.objs /\ UNCHANGED <<lists, empty_slabs, owned>>
  BY <1>1, <1>2, <1>5, PlainFreeKeeps
<1> QED BY <1>1, <1>3, <1>4, <1>5

LEMMA Stutters ==
  ASSUME Inv, UNCHANGED vars
  PROVE  Inv'
<1>1. /\ status' = status /\ cache' = cache /\ full' = full /\ partial' = partial /\ empty' = empty
      /\ empty_slabs' = empty_slabs /\ freelist' = freelist /\ free_count' = free_count
      /\ owned' = owned /\ held' = held
  BY DEF vars, lists
<1>2. TypeInv' /\ Fresh'
  BY <1>1 DEF Inv, TypeInv, Fresh
<1>3. Lively' /\ Drift'
  BY <1>1 DEF Inv, Lively, Geometry, Apart, Listed, Drift
<1>4. RightList'
  BY <1>1 DEF Inv, RightList
<1>5. ObjectsFreeOrHeld' /\ HeldIsOwned'
  BY <1>1 DEF Inv, ObjectsFreeOrHeld, HeldIsOwned, ObjectsOf
<1> QED BY <1>2, <1>3, <1>4, <1>5 DEF Inv

LEMMA CreateKeeps ==
  ASSUME Inv, NEW z \in ObjSizes, kslab_cache_create(z)
  PROVE  Inv'
<1>1. CASE UNCHANGED vars
  BY <1>1, Stutters
<1>2. CASE Fits(z) # {} /\ ~UNCHANGED vars
  <2> DEFINE o == BestOrder(z)
             c == [order |-> o, obj_size |-> z, objs |-> Objs(o, z)]
  <2>1. /\ status = "none" /\ cache' = c
        /\ empty_slabs' = empty_slabs + 1 /\ full' = full /\ partial' = partial /\ held' = held
        /\ \/ \E s \in Frames :
                /\ NewSlab(s, c)
                /\ empty' = Append(empty, s)
                /\ freelist' = [freelist EXCEPT ![s] = Pool(s, c)]
                /\ free_count' = [free_count EXCEPT ![s] = c.objs]
                /\ status' = "live"
           \/ /\ status' = "failed"
              /\ empty' = empty /\ freelist' = freelist
              /\ free_count' = free_count /\ owned' = owned
    BY <1>2 DEF kslab_cache_create
  <2>2. /\ full = <<>> /\ partial = <<>> /\ empty = <<>> /\ owned = {} /\ held = {} /\ empty_slabs = 0
        /\ full \in Seq(Frames) /\ partial \in Seq(Frames) /\ empty \in Seq(Frames)
        /\ freelist \in [Frames -> Seq(Nat)] /\ free_count \in [Frames -> Int]
    BY <2>1 DEF Inv, Fresh, TypeInv
  <2>3. /\ z \in Nat \ {0} /\ o \in 0 .. MAX_SLAB_ORDER - 1
        /\ Objs(o, z) \in Nat /\ Objs(o, z) >= 2
    <3>1. z \in Nat \ {0}
      BY SlabAssumption
    <3>2. o \in 0 .. MAX_SLAB_ORDER - 1 /\ Objs(o, z) >= MIN_OBJS
      BY <1>2, <3>1, BestOrderFits DEF Fits
    <3>3. Objs(o, z) \in Nat
      BY <3>1, <3>2, ObjsFit
    <3> QED BY <3>1, <3>2, <3>3, SlabAssumption
  <2> HIDE DEF o
  <2>4. /\ c.order = o /\ c.obj_size = z /\ c.objs = Objs(o, z)
        /\ c \in [order : Int, obj_size : Int, objs : Nat]
    BY <2>3, SlabAssumption
  <2> HIDE DEF c
  <2>5. Shaped(c)
    BY <2>3, <2>4 DEF Shaped
  <2>6. ToSet(full) = {} /\ ToSet(partial) = {} /\ ToSet(empty) = {} /\ Len(empty) = 0
        /\ Len(full) = 0 /\ Len(partial) = 0
    BY <2>2, EmptyList
  <2>7. CASE status' = "failed" /\ empty' = empty /\ freelist' = freelist
             /\ free_count' = free_count /\ owned' = owned
    <3>1. TypeInv'
      BY <2>1, <2>2, <2>4, <2>7 DEF TypeInv
    <3>2. Fresh' /\ Lively' /\ RightList' /\ ObjectsFreeOrHeld' /\ HeldIsOwned'
      BY <2>1, <2>2, <2>7 DEF Fresh, Lively, RightList, ObjectsFreeOrHeld, HeldIsOwned
    <3>3. Drift'
      BY <2>6, <2>7, SlabAssumption DEF Drift
    <3> QED BY <3>1, <3>2, <3>3 DEF Inv
  <2>8. CASE \E s \in Frames :
                /\ NewSlab(s, c)
                /\ empty' = Append(empty, s)
                /\ freelist' = [freelist EXCEPT ![s] = Pool(s, c)]
                /\ free_count' = [free_count EXCEPT ![s] = c.objs]
                /\ status' = "live"
    <3>1. PICK s \in Frames :
                /\ s \in Blocks(c.order)
                /\ owned' = {s}
                /\ empty' = Append(empty, s)
                /\ freelist' = [freelist EXCEPT ![s] = Pool(s, c)]
                /\ free_count' = [free_count EXCEPT ![s] = c.objs]
                /\ status' = "live"
      BY <2>2, <2>8 DEF NewSlab
    <3>2. Pool(s, c) \in Seq(Nat) /\ Len(Pool(s, c)) = c.objs /\ IsInjective(Pool(s, c))
      BY <3>1, <2>5, PoolInside
    <3>3. c.objs \in Nat
      BY <2>5 DEF Shaped
    <3>4. /\ freelist' \in [Frames -> Seq(Nat)] /\ freelist'[s] = Pool(s, c)
          /\ free_count' \in [Frames -> Int] /\ free_count'[s] = c.objs
      BY <3>1, <3>2, <3>3, <2>2
    <3>5. IsInjective(full) /\ IsInjective(partial) /\ IsInjective(empty)
      <4>1. DOMAIN full = {} /\ DOMAIN partial = {} /\ DOMAIN empty = {}
        <5>1. DOMAIN full = 1 .. 0 /\ DOMAIN partial = 1 .. 0 /\ DOMAIN empty = 1 .. 0
          BY <2>2, <2>6, LenProperties
        <5> QED BY <5>1
      <4> QED BY <4>1 DEF IsInjective
    <3>6. /\ empty' \in Seq(Frames) /\ Len(empty') = 1 /\ ToSet(empty') = {s} /\ IsInjective(empty')
      <4>1. empty \in Seq(Frames) /\ ToSet(empty) = {} /\ Len(empty) = 0 /\ IsInjective(empty)
        BY <3>5, <2>2, <2>6
      <4>2. s \notin ToSet(empty)
        BY <4>1
      <4>3. /\ Append(empty, s) \in Seq(Frames) /\ Len(Append(empty, s)) = 0 + 1
            /\ ToSet(Append(empty, s)) = {s} \cup {} /\ IsInjective(Append(empty, s))
        BY <4>1, <4>2, AppendList
      <4>4. empty' = Append(empty, s)
        BY <3>1
      <4> DEFINE chain == Append(empty, s)
      <4> HIDE DEF chain
      <4> QED BY <4>3, <4>4 DEF chain
    <3>7. TypeInv'
      BY <3>1, <3>4, <3>6, <2>1, <2>2, <2>4 DEF TypeInv
    <3>8. Fresh'
      BY <3>1 DEF Fresh
    <3>9. Lively'
      <4>1. Geometry'
        BY <3>1, <2>1, <2>5 DEF Geometry
      <4>2. Apart'
        BY <3>1, <3>5, <3>6, <2>1, <2>6 DEF Apart, Listed
      <4> QED BY <4>1, <4>2 DEF Lively
    <3>10. Drift'
      <4>1. Len(empty') <= MAX_EMPTY /\ Len(empty') <= empty_slabs' + 1
        BY <3>6, <2>1, <2>2, SlabAssumption
      <4> QED BY <4>1 DEF Drift
    <3>11. RightList'
      BY <3>4, <3>6, <2>1, <2>6 DEF RightList
    <3>12. ObjectsFreeOrHeld'
      <4>1. ObjectsOf(s)' = ToSet(Pool(s, c)) /\ held' = {}
        BY <2>1, <2>2 DEF ObjectsOf
      <4> QED BY <4>1, <3>1, <3>2, <3>4 DEF ObjectsFreeOrHeld
    <3>13. HeldIsOwned'
      BY <2>1, <2>2 DEF HeldIsOwned
    <3> QED BY <3>7, <3>8, <3>9, <3>10, <3>11, <3>12, <3>13 DEF Inv
  <2> QED BY <2>1, <2>7, <2>8
<1>3. Fits(z) = {} => UNCHANGED vars
  BY DEF kslab_cache_create
<1> QED BY <1>1, <1>2, <1>3

LEMMA DestroyKeeps ==
  ASSUME Inv, kslab_cache_destroy
  PROVE  Inv'
<1>1. /\ status' = "destroyed" /\ held = {} /\ held' = {}
      /\ cache' = [cache EXCEPT !.order = -1, !.obj_size = -1]
      /\ full' = full /\ partial' = partial /\ empty' = empty /\ empty_slabs' = empty_slabs
      /\ freelist' = freelist /\ free_count' = free_count /\ owned' = owned \ Listed
  BY DEF kslab_cache_destroy, lists
<1>2. TypeInv'
  <2>1. cache \in [order : Int, obj_size : Int, objs : Nat] /\ -1 \in Int
    BY DEF Inv, TypeInv
  <2>2. cache' \in [order : Int, obj_size : Int, objs : Nat]
    BY <2>1, <1>1
  <2>3. owned' \subseteq Frames
    BY <1>1 DEF Inv, TypeInv
  <2> QED BY <2>2, <2>3, <1>1 DEF Inv, TypeInv
<1>3. Fresh' /\ Lively' /\ RightList' /\ ObjectsFreeOrHeld' /\ HeldIsOwned'
  BY <1>1 DEF Fresh, Lively, RightList, ObjectsFreeOrHeld, HeldIsOwned
<1>4. Drift'
  BY <1>1 DEF Inv, Drift
<1> QED BY <1>2, <1>3, <1>4 DEF Inv

LEMMA InitInv == Init => Inv
<1> SUFFICES ASSUME Init PROVE Inv
  OBVIOUS
<1>1. /\ status = "none" /\ cache = [order |-> 0, obj_size |-> 0, objs |-> 0]
      /\ full = <<>> /\ partial = <<>> /\ empty = <<>> /\ empty_slabs = 0
      /\ freelist = [f \in Frames |-> <<>>] /\ free_count = [f \in Frames |-> 0]
      /\ owned = {} /\ held = {}
  BY DEF Init
<1>2. <<>> \in Seq(Frames) /\ <<>> \in Seq(Nat) /\ Len(<<>>) = 0
  BY EmptySeq
<1>3. cache \in [order : Int, obj_size : Int, objs : Nat]
  BY <1>1
<1>4. TypeInv
  BY <1>1, <1>2, <1>3 DEF TypeInv
<1>5. Drift
  BY <1>1, <1>2, SlabAssumption DEF Drift
<1>6. Fresh /\ Lively /\ RightList /\ ObjectsFreeOrHeld /\ HeldIsOwned
  BY <1>1 DEF Fresh, Lively, RightList, ObjectsFreeOrHeld, HeldIsOwned
<1> QED BY <1>4, <1>5, <1>6 DEF Inv

LEMMA NextInv == Inv /\ [Next]_vars => Inv'
<1> SUFFICES ASSUME Inv, [Next]_vars PROVE Inv'
  OBVIOUS
<1>1. CASE \E z \in ObjSizes : kslab_cache_create(z)
  BY <1>1, CreateKeeps
<1>2. CASE UNCHANGED vars
  BY <1>2, Stutters
<1>3. CASE kslab_alloc
  <2>1. status = "live" /\ (kslab_partial_alloc \/ kslab_empty_alloc \/ kslab_new_alloc \/ AllocFails)
    BY <1>3 DEF kslab_alloc
  <2>2. AllocFails => UNCHANGED vars
    BY DEF AllocFails
  <2> QED BY <2>1, <2>2, <1>2, PartialAllocKeeps, EmptyAllocKeeps, NewAllocKeeps
<1>4. CASE \E obj \in held : kslab_free(obj)
  BY <1>4, FreeKeeps
<1>5. CASE kslab_cache_destroy
  BY <1>5, DestroyKeeps
<1> QED BY <1>1, <1>2, <1>3, <1>4, <1>5 DEF Next

-----------------------------------------------------------------------------
(***************************************************************************)
(* The theorems.                                                           *)
(***************************************************************************)
\* The inductive invariant: lists, freelists, counts and the objects in use
\* agree after every call of kslab_cache_create(), kslab_alloc(),
\* kslab_free() and kslab_cache_destroy().
THEOREM Invariance == Spec => []Inv
<1> QED BY InitInv, NextInv, PTL DEF Spec

\* Every slab is on exactly one list of the cache, once.
THEOREM ListedOnce == Spec => []SlabsListedOnce
<1>1. ASSUME Inv, status = "live"
      PROVE  IsInjective(full \o partial \o empty) /\ Listed = owned
  <2>1. /\ full \in Seq(Frames) /\ partial \in Seq(Frames) /\ empty \in Seq(Frames)
        /\ IsInjective(full) /\ IsInjective(partial) /\ IsInjective(empty)
        /\ Sorted(ToSet(full), ToSet(partial), ToSet(empty), owned)
    BY <1>1, LiveTypes
  <2>2. /\ full \o partial \in Seq(Frames) /\ IsInjective(full \o partial)
        /\ ToSet(full \o partial) = ToSet(full) \cup ToSet(partial)
    BY <2>1, ConcatList DEF Sorted
  <2>3. ToSet(full \o partial) \cap ToSet(empty) = {}
    BY <2>1, <2>2 DEF Sorted
  <2> DEFINE fp == full \o partial
  <2> HIDE DEF fp
  <2>4. IsInjective(fp \o empty)
    BY <2>1, <2>2, <2>3, ConcatList DEF fp
  <2> QED BY <2>1, <2>4 DEF fp, Sorted, Listed
<1>2. Inv => SlabsListedOnce
  BY <1>1 DEF SlabsListedOnce
<1> QED BY <1>2, Invariance, PTL

\* A slab is on the list that its count of free objects calls for, so that
\* kslab_alloc() never pops an empty freelist.
THEOREM OnRightList == Spec => []RightList
<1>1. Inv => RightList
  BY DEF Inv
<1> QED BY <1>1, Invariance, PTL

\* No object is handed out twice and none is lost.
THEOREM FreeOrHeld == Spec => []ObjectsFreeOrHeld
<1>1. Inv => ObjectsFreeOrHeld
  BY DEF Inv
<1> QED BY <1>1, Invariance, PTL

\* A slab goes back to the page allocator only when no object of it is in
\* use, although empty_slabs, which decides when, has drifted.
THEOREM HeldOwned == Spec => []HeldIsOwned
<1>1. Inv => HeldIsOwned
  BY DEF Inv
<1> QED BY <1>1, Invariance, PTL

\* The objects of a slab lie behind its header, within its block, and find
\* it by masking their address, whatever the sizes.
THEOREM Inside == Spec => []ObjectsInside
<1>1. Inv => ObjectsInside
  BY LiveSlabs DEF ObjectsInside
<1> QED BY <1>1, Invariance, PTL

\* However far empty_slabs drifts, no more than MAX_EMPTY slabs are kept
\* empty.
THEOREM EmptyStaysBounded == Spec => []EmptyBounded
<1>1. Inv => EmptyBounded
  BY DEF Inv, Drift, EmptyBounded
<1> QED BY <1>1, Invariance, PTL

\* kslab_alloc() asks the page allocator for a block only when every slab is
\* full, and nothing else of a live cache does.
THEOREM AsksWhenFull == Spec => NewOnlyIfFull
<1> DEFINE Asks == status = "live" /\ ~(owned' \subseteq owned) => \A s \in owned : free_count[s] = 0
<1>1. Inv /\ [Next]_vars => [Asks]_vars
  <2> SUFFICES ASSUME Inv, Next, status = "live", ~(owned' \subseteq owned), NEW s \in owned
               PROVE  free_count[s] = 0
    OBVIOUS
  <2>1. CASE kslab_new_alloc
    <3>1. partial = <<>> /\ empty = <<>>
      BY <2>1 DEF kslab_new_alloc
    <3>2. ToSet(partial) = {} /\ ToSet(empty) = {}
      BY <3>1, LiveTypes, EmptyList
    <3> QED BY <3>2, LiveTypes
  <2>2. ~kslab_new_alloc => owned' \subseteq owned
    BY DEF Next, kslab_cache_create, kslab_alloc, kslab_partial_alloc, kslab_empty_alloc, AllocFails,
           kslab_free, Unfilled, Emptied, kslab_cache_destroy, vars
  <2> QED BY <2>1, <2>2
<1> QED BY <1>1, Invariance, PTL DEF Spec, NewOnlyIfFull

=============================================================================
