----------------------------- MODULE BuddyProofs -----------------------------
(***************************************************************************)
(* Proofs about Buddy, for every memory map, every number of orders and    *)
(* every size of the region table: no page is in two hands, none is lost,  *)
(* and splitting and merging undo each other.                              *)
(***************************************************************************)
EXTENDS Buddy, CommonLemmas

FTile(p, k) == [own |-> "free", page |-> p, size |-> 2^k]

-----------------------------------------------------------------------------
(***************************************************************************)
(* Geometry.                                                               *)
(***************************************************************************)

\* Block sizes are positive, double from one order to the next and differ.
LEMMA Powers ==
  /\ \A k \in Orders : k \in Nat /\ 2^k \in Nat \ {0} /\ 2^(k + 1) = 2 * 2^k
  /\ \A k \in Orders : k + 1 \in Orders => 2^(k + 1) \in Nat \ {0}
  /\ \A j, k \in Orders : 2^j = 2^k => j = k
<1>1. ASSUME NEW k \in Orders
      PROVE  k \in 0 .. PFRAME_MAX_ORDER /\ k \in Nat
  BY OrderAssumption DEF Orders
<1>2. ASSUME NEW j \in Orders, NEW k \in Orders, 2^j = 2^k
      PROVE  j = k
  <2>1. j \in Nat /\ k \in Nat /\ j \in 0 .. PFRAME_MAX_ORDER /\ k \in 0 .. PFRAME_MAX_ORDER
    BY <1>1
  <2>2. CASE j < k
    BY <2>1, <2>2, <1>2, PowersAssumption
  <2>3. CASE k < j
    BY <2>1, <2>3, <1>2, PowersAssumption
  <2> QED BY <2>1, <2>2, <2>3
<1> QED BY <1>1, <1>2, PowersAssumption

\* The numbers of a region.
LEMMA Layout ==
  ASSUME NEW r \in Ranges
  PROVE  /\ r.base \in Nat /\ r.len \in Nat \ {0}
         /\ mbase(r) \in Nat /\ End(r) \in Nat /\ r.base < mbase(r)
         /\ total_pages(r) = End(r) - mbase(r) /\ total_pages(r) \in Int
         /\ max_order(r) \in Orders
BY RangesAssumption, LayoutAssumption DEF mbase, End, total_pages

\* A page belongs to one region.
LEMMA OneRegion ==
  ASSUME NEW r \in Ranges, NEW s \in Ranges, NEW p \in Int,
         r.base <= p, p < End(r), s.base <= p, p < End(s)
  PROVE  r = s
<1>1. r.base \in Nat /\ r.len \in Nat /\ s.base \in Nat /\ s.len \in Nat
  BY RangesAssumption
<1> QED BY <1>1, RangesAssumption DEF End

\* A block lies in its region.
LEMMA BlockInRegion ==
  ASSUME NEW r \in Ranges, NEW k \in Orders, NEW p \in Int, Block(r, p, k)
  PROVE  r.base <= p /\ p < End(r) /\ mbase(r) <= p /\ p + 2^k <= End(r)
<1>1. mbase(r) <= p /\ p + 2^k <= End(r)
  BY DEF Block
<1>2. r.base \in Int /\ mbase(r) \in Int /\ End(r) \in Int /\ r.base < mbase(r)
  BY Layout
<1>3. 2^k \in Nat \ {0}
  BY Powers
<1> QED BY <1>1, <1>2, <1>3

\* What is aligned to a large block is aligned to a smaller one.
LEMMA SmallerAlignment ==
  ASSUME NEW j \in Orders, NEW k \in Orders, j <= k, NEW x \in Int, x % 2^k = 0
  PROVE  x % 2^j = 0
<1>1. j \in Nat /\ k \in 0 .. PFRAME_MAX_ORDER /\ j \in 0 .. k
  BY OrderAssumption DEF Orders
<1> DEFINE w == 2^k
           v == 2^j
<1>2. PICK q \in 1 .. w : w = q * v
  BY <1>1, PowersAssumption
<1>3. w \in Nat \ {0} /\ v \in Nat \ {0} /\ x % w = 0 /\ q \in Int
  BY Powers
<1> HIDE DEF w, v
<1>4. PICK h \in Int : x = h * w
  BY <1>3, MultipleMod
<1>5. h * q \in Int /\ x = (h * q) * v
  BY <1>2, <1>3, <1>4
<1>6. \E d \in Int : x = d * v
  BY <1>5
<1>7. x % v = 0
  BY <1>3, <1>6, MultipleMod
<1> QED BY <1>7 DEF v

\* The buddy of x at order k is the other half of x's pair, and clearing bit k
\* gives the lower half.
LEMMA BuddyOf ==
  ASSUME NEW k, 2^k \in Nat \ {0}, 2^(k + 1) = 2 * 2^k, NEW x \in Int, x % 2^k = 0
  PROVE  /\ Flip(x, k) \in Int /\ ClearBit(x, k) \in Int
         /\ Flip(x, k) % 2^k = 0
         /\ ClearBit(x, k) % 2^(k + 1) = 0
         /\ kbud_pair_idx(Flip(x, k), k) = kbud_pair_idx(x, k)
         /\ \/ Flip(x, k) = x + 2^k /\ ClearBit(x, k) = x
            \/ Flip(x, k) = x - 2^k /\ ClearBit(x, k) = x - 2^k
         /\ x % 2^(k + 1) = 0 => Flip(x, k) = x + 2^k
         /\ \A y \in Int : y % 2^k = 0 /\ kbud_pair_idx(y, k) = kbud_pair_idx(x, k)
                            => y = x \/ y = Flip(x, k)
<1> DEFINE w == 2^k
           w2 == 2^(k + 1)
<1>0. w \in Nat \ {0} /\ w2 = 2 * w /\ w2 \in Nat \ {0} /\ x % w = 0
  OBVIOUS
<1> HIDE DEF w, w2
<1>1. PICK q \in Int : x = q * w
  BY <1>0, MultipleMod
<1>2. /\ x \div w = q /\ x \div w2 = q \div 2
      /\ (q % 2 = 0 <=> x % w2 = 0)
  BY <1>0, <1>1, Parity
<1> DEFINE b == IF q % 2 = 0 THEN q + 1 ELSE q - 1
           c == IF q % 2 = 0 THEN q ELSE q - 1
<1>3. b \in Int /\ c \in Int /\ b \div 2 = q \div 2 /\ c % 2 = 0
      /\ \A d \in Int : d \div 2 = q \div 2 => d = q \/ d = b
  OBVIOUS
<1>4. Flip(x, k) = b * w /\ ClearBit(x, k) = c * w
  <2>1. Flip(x, k) = IF q % 2 = 0 THEN x + w ELSE x - w
    BY <1>2 DEF Flip, w
  <2>2. ClearBit(x, k) = IF q % 2 = 0 THEN x ELSE x - w
    BY <1>2 DEF ClearBit, w
  <2>3. (q + 1) * w = x + w /\ (q - 1) * w = x - w
    BY <1>0, <1>1
  <2> QED BY <2>1, <2>2, <2>3, <1>1
<1>5. \/ Flip(x, k) = x + w /\ ClearBit(x, k) = x /\ q % 2 = 0
      \/ Flip(x, k) = x - w /\ ClearBit(x, k) = x - w /\ q % 2 # 0
  BY <1>2 DEF Flip, ClearBit, w
<1> HIDE DEF b, c
<1>6. /\ (b * w) % w = 0 /\ (b * w) \div w2 = b \div 2
      /\ (c * w) % w2 = 0
  <2>1. b * w \in Int /\ (b * w) % w = 0
    BY <1>0, <1>3, MultipleMod
  <2> QED BY <2>1, <1>0, <1>3, Parity
<1>7. ASSUME NEW y \in Int, y % w = 0, y \div w2 = q \div 2
      PROVE  y = x \/ y = b * w
  <2>1. PICK d \in Int : y = d * w
    BY <1>0, <1>7, MultipleMod
  <2>2. y \div w2 = d \div 2
    BY <2>1, <1>0, Parity
  <2>3. d = q \/ d = b
    BY <2>2, <1>3, <1>7
  <2> QED BY <2>1, <2>3, <1>1
<1>8. Flip(x, k) \in Int /\ ClearBit(x, k) \in Int
  BY <1>5, <1>0
<1> QED BY <1>2, <1>3, <1>4, <1>5, <1>6, <1>7, <1>8 DEF w, w2, kbud_pair_idx

-----------------------------------------------------------------------------
(***************************************************************************)
(* Tiles.                                                                  *)
(***************************************************************************)

AllApart(T) == \A a, b \in T : a # b => Apart(a, b)

Replaces(T, U, x1, x2, y1, y2) ==
  /\ y1 = y2 \/ Apart(y1, y2)
  /\ \A t \in T : t # x1 /\ t # x2 => Apart(y1, t) /\ Apart(y2, t)
  /\ \A u \in U : u = y1 \/ u = y2 \/ (u \in T /\ u # x1 /\ u # x2)

\* Replacing the tiles x1 and x2 by tiles y1 and y2 that keep off the rest.
LEMMA Rearrange ==
  ASSUME NEW T, NEW U, NEW x1, NEW x2, NEW y1, NEW y2,
         AllApart(T), Replaces(T, U, x1, x2, y1, y2)
  PROVE  AllApart(U)
<1> SUFFICES ASSUME NEW a \in U, NEW b \in U, a # b
             PROVE  Apart(a, b)
  BY DEF AllApart
<1>1. \A x, y : Apart(x, y) => Apart(y, x)
  BY DEF Apart
<1> QED BY <1>1 DEF Replaces, AllApart

\* A piece of a tile keeps off what the tile keeps off.
LEMMA PieceApart ==
  ASSUME NEW x, NEW y, NEW t,
         x.page \in Int, x.size \in Int, y.page \in Int, y.size \in Int,
         t.page \in Int, t.size \in Int,
         x.page <= y.page, y.page + y.size <= x.page + x.size, Apart(x, t)
  PROVE  Apart(y, t)
BY DEF Apart

\* A tile does not keep off a piece of it.
LEMMA PieceOverlaps ==
  ASSUME NEW z, NEW x,
         z.page \in Int, z.size \in Int, x.page \in Int, x.size \in Nat \ {0},
         z.page <= x.page, x.page + x.size <= z.page + z.size
  PROVE  ~Apart(z, x)
BY DEF Apart

\* The tiles of the free lists.
LEMMA FreeTile ==
  \A f, t : t \in TilesOfLists(f) <=>
              \E r \in Ranges, k \in Orders : \E p \in ToSet(f[r][k]) : t = FTile(p, k)
<1>1. \A g, t : t \in TilesOfRegion(g) <=>
                  \E k \in Orders : \E p \in ToSet(g[k]) : t = FTile(p, k)
  BY DEF TilesOfRegion, FTile
<1>2. \A f, t : t \in TilesOfLists(f) <=> \E r \in Ranges : t \in TilesOfRegion(f[r])
  BY DEF TilesOfLists
<1> QED BY <1>1, <1>2

\* Tiles have integer bounds.
LEMMA TileBounds ==
  ASSUME TypeOK, OpOK, NEW t \in Tiles
  PROVE  t.page \in Int /\ t.size \in Nat
<1>1. CASE t \in FreeTiles
  <2>0. PICK r \in Ranges, k \in Orders : \E p \in ToSet(free[r][k]) : t = FTile(p, k)
    BY <1>1, FreeTile DEF FreeTiles
  <2>1. PICK p \in ToSet(free[r][k]) : t = FTile(p, k)
    BY <2>0
  <2>2. free[r][k] \in Seq(Int)
    BY DEF TypeOK
  <2>3. p \in Int
    BY <2>2, LenProperties DEF ToSet
  <2> QED BY <2>1, <2>3, Powers DEF FTile
<1>2. CASE t \in LiveTiles
  <2>1. PICK b \in live : t = [own |-> "live", page |-> b.page, size |-> 2^b.order]
    BY <1>2 DEF LiveTiles
  <2>2. b.page \in Int /\ b.order \in Orders
    BY DEF TypeOK
  <2> QED BY <2>1, <2>2, Powers
<1>3. CASE t \in HandTiles
  <2>1. CASE op \in SplitOps
    BY <1>3, <2>1, Powers DEF HandTiles, SplitOps
  <2>2. CASE op \in MergeOps
    <3>1. op.pc = "merge" /\ op.r \in Ranges /\ op.pfn \in Int /\ op.ord \in Orders
      BY <2>2 DEF MergeOps, OpOK
    <3>2. t = [own |-> "hand", page |-> mbase(op.r) + op.pfn, size |-> 2^op.ord]
      BY <3>1, <1>3 DEF HandTiles
    <3> QED BY <3>1, <3>2, Powers, Layout
  <2>3. CASE op \in RangeOps
    BY <1>3, <2>3 DEF HandTiles, RangeOps
  <2>4. CASE op = Idle
    BY <1>3, <2>4 DEF HandTiles, Idle
  <2> QED BY <2>1, <2>2, <2>3, <2>4 DEF TypeOK
<1> QED BY <1>1, <1>2, <1>3 DEF Tiles

-----------------------------------------------------------------------------
(***************************************************************************)
(* What pushing and popping do to the part of the invariant that is about  *)
(* the free lists.                                                         *)
(***************************************************************************)
FreeType == free \in [Ranges -> [Orders -> Seq(Int)]] /\ bit \in [Ranges -> [Orders -> SUBSET Int]]

NoRepeats == \A r \in Ranges, k \in Orders : IsInjective(free[r][k])

ListInv == FreeType /\ FreeOK /\ NoRepeats /\ BitImpliesFree

\* Pushing a block of the region that is on no list yet.
LEMMA PushEffect ==
  ASSUME ListInv, regions' = regions,
         NEW r \in Ranges, NEW k \in Orders, NEW page \in Int,
         r \in Added, kbud_push(r, page, k),
         k <= max_order(r) => Block(r, page, k),
         page \notin ToSet(free[r][k])
  PROVE  ListInv' /\ FreeTiles' \subseteq FreeTiles \cup {FTile(page, k)}
<1> DEFINE pfn == kbud_pfnum(r, page)
           x == kbud_pair_idx(pfn, k)
<1>1. CASE ~buddy_bit_chk(r, pfn, k)
  <2>1. free' = free /\ bit' = bit
    BY <1>1 DEF kbud_push
  <2> QED BY <2>1 DEF ListInv, FreeType, FreeOK, NoRepeats, BitImpliesFree, FreeTiles, Added
<1>2. CASE buddy_bit_chk(r, pfn, k)
  <2>1. /\ free' = [free EXCEPT ![r][k] = Cons(page, @)]
        /\ bit' = [bit EXCEPT ![r][k] = @ \cup {x}]
    BY <1>2 DEF kbud_push
  <2>2. Block(r, page, k) /\ free[r][k] \in Seq(Int) /\ IsInjective(free[r][k])
    BY <1>2 DEF buddy_bit_chk, ListInv, FreeType, NoRepeats
  <2> DEFINE s == Cons(page, free[r][k])
  <2>3. s \in Seq(Int) /\ ToSet(s) = {page} \cup ToSet(free[r][k]) /\ IsInjective(s)
    BY <2>2, ConsList
  <2> HIDE DEF s
  <2>4. /\ free' \in [Ranges -> [Orders -> Seq(Int)]]
        /\ \A q \in Ranges, j \in Orders :
             free'[q][j] = IF q = r /\ j = k THEN s ELSE free[q][j]
    BY <2>1, <2>3 DEF ListInv, FreeType, s
  <2>5. x \in Int
    <3>1. pfn \in Int /\ 2^(k + 1) \in Nat \ {0}
      BY Layout, Powers DEF kbud_pfnum
    <3> HIDE DEF pfn
    <3> QED BY <3>1, DivMod DEF kbud_pair_idx
  <2> HIDE DEF x, pfn
  <2>6. /\ bit' \in [Ranges -> [Orders -> SUBSET Int]]
        /\ \A q \in Ranges, j \in Orders :
             bit'[q][j] = IF q = r /\ j = k THEN bit[q][j] \cup {x} ELSE bit[q][j]
    BY <2>1, <2>5 DEF ListInv, FreeType
  <2>7. \A q \in Ranges, j \in Orders :
          ToSet(free'[q][j]) = IF q = r /\ j = k THEN {page} \cup ToSet(free[q][j])
                                                 ELSE ToSet(free[q][j])
    BY <2>3, <2>4
  <2>8. FreeOK'
    BY <2>2, <2>7 DEF ListInv, FreeOK, Added
  <2>9. NoRepeats'
    BY <2>3, <2>4 DEF ListInv, NoRepeats
  <2>10. BitImpliesFree'
    <3> SUFFICES ASSUME NEW q \in Ranges, NEW j \in Orders, NEW y \in bit'[q][j]
                 PROVE  \E p \in ToSet(free'[q][j]) : kbud_pair_idx(kbud_pfnum(q, p), j) = y
      BY DEF BitImpliesFree
    <3>1. CASE y \in bit[q][j]
      <4>1. PICK p \in ToSet(free[q][j]) : kbud_pair_idx(kbud_pfnum(q, p), j) = y
        BY <3>1 DEF ListInv, BitImpliesFree
      <4>2. p \in ToSet(free'[q][j])
        BY <2>7
      <4> QED BY <4>1, <4>2
    <3>2. CASE q = r /\ j = k /\ y = x
      BY <3>2, <2>7 DEF x, pfn
    <3> QED BY <3>1, <3>2, <2>6
  <2>11. FreeTiles' \subseteq FreeTiles \cup {FTile(page, k)}
    <3> SUFFICES ASSUME NEW t \in TilesOfLists(free')
                 PROVE  t \in TilesOfLists(free) \cup {FTile(page, k)}
      BY DEF FreeTiles
    <3>1. PICK q \in Ranges, j \in Orders : \E p \in ToSet(free'[q][j]) : t = FTile(p, j)
      BY FreeTile
    <3>2. PICK p \in ToSet(free'[q][j]) : t = FTile(p, j)
      BY <3>1
    <3>3. p \in ToSet(free[q][j]) \/ (j = k /\ p = page)
      BY <2>7
    <3> QED BY <3>2, <3>3, FreeTile
  <2> QED BY <2>4, <2>6, <2>8, <2>9, <2>10, <2>11 DEF ListInv, FreeType
<1> QED BY <1>1, <1>2

Unlink(r, k, h, s) ==
  /\ ToSet(s) = ToSet(free[r][k]) \ {h}
  /\ IsInjective(s)
  /\ free' = [free EXCEPT ![r][k] = s]
  /\ bit' = [bit EXCEPT ![r][k] = @ \ {kbud_pair_idx(kbud_pfnum(r, h), k)}]

\* Taking block h off its list, which becomes s.
LEMMA PopEffect ==
  ASSUME ListInv, regions' = regions,
         NEW r \in Ranges, NEW k \in Orders, NEW h \in ToSet(free[r][k]), NEW s \in Seq(Int),
         Unlink(r, k, h, s)
  PROVE  /\ ListInv'
         /\ FTile(h, k) \in FreeTiles
         /\ FreeTiles' \subseteq FreeTiles \ {FTile(h, k)}
<1> DEFINE x == kbud_pair_idx(kbud_pfnum(r, h), k)
<1>1. /\ free' \in [Ranges -> [Orders -> Seq(Int)]]
      /\ \A q \in Ranges, j \in Orders : free'[q][j] = IF q = r /\ j = k THEN s ELSE free[q][j]
  BY DEF ListInv, FreeType, Unlink
<1> HIDE DEF x
<1>2. /\ bit' \in [Ranges -> [Orders -> SUBSET Int]]
      /\ \A q \in Ranges, j \in Orders :
           bit'[q][j] = IF q = r /\ j = k THEN bit[q][j] \ {x} ELSE bit[q][j]
  <2>1. bit' = [bit EXCEPT ![r][k] = @ \ {x}]
    BY DEF x, Unlink
  <2> QED BY <2>1 DEF ListInv, FreeType
<1>3. \A q \in Ranges, j \in Orders :
        ToSet(free'[q][j]) = IF q = r /\ j = k THEN ToSet(free[q][j]) \ {h} ELSE ToSet(free[q][j])
  BY <1>1 DEF Unlink
<1>4. FreeOK'
  BY <1>3 DEF ListInv, FreeOK, Added
<1>5. NoRepeats'
  BY <1>1 DEF ListInv, NoRepeats, Unlink
<1>6. BitImpliesFree'
  <2> SUFFICES ASSUME NEW q \in Ranges, NEW j \in Orders, NEW y \in bit'[q][j]
               PROVE  \E p \in ToSet(free'[q][j]) : kbud_pair_idx(kbud_pfnum(q, p), j) = y
    BY DEF BitImpliesFree
  <2>0. y \in bit[q][j]
    BY <1>2
  <2>1. PICK p \in ToSet(free[q][j]) : kbud_pair_idx(kbud_pfnum(q, p), j) = y
    BY <2>0 DEF ListInv, BitImpliesFree
  <2>2. q = r /\ j = k => y # x
    BY <1>2
  <2>3. p \in ToSet(free'[q][j])
    BY <2>1, <2>2, <1>3 DEF x
  <2> QED BY <2>1, <2>3
<1>7. FTile(h, k) \in FreeTiles
  BY FreeTile DEF FreeTiles
<1>8. FreeTiles' \subseteq FreeTiles \ {FTile(h, k)}
  <2> SUFFICES ASSUME NEW t \in TilesOfLists(free')
               PROVE  t \in TilesOfLists(free) /\ t # FTile(h, k)
    BY DEF FreeTiles
  <2>1. PICK q \in Ranges, j \in Orders : \E p \in ToSet(free'[q][j]) : t = FTile(p, j)
    BY FreeTile
  <2>2. PICK p \in ToSet(free'[q][j]) : t = FTile(p, j)
    BY <2>1
  <2>3. p \in ToSet(free[q][j])
    BY <1>3
  <2>4. t \in TilesOfLists(free)
    BY <2>2, <2>3, FreeTile
  <2>5. ASSUME t = FTile(h, k)
        PROVE  FALSE
    <3>1. p = h /\ 2^j = 2^k
      BY <2>2, <2>5 DEF FTile
    <3>2. j = k
      BY <3>1, Powers
    <3>3. Block(q, h, k) /\ Block(r, h, k)
      BY <2>3, <3>1, <3>2 DEF ListInv, FreeOK
    <3>4. h \in Int
      BY LenProperties DEF ListInv, FreeType, ToSet
    <3>5. q = r
      <4>1. q.base <= h /\ h < End(q) /\ r.base <= h /\ h < End(r)
        BY <3>3, <3>4, BlockInRegion
      <4> QED BY <4>1, <3>4, OneRegion
    <3> QED BY <3>1, <3>2, <3>5, <1>3
  <2> QED BY <2>4, <2>5
<1> QED BY <1>1, <1>2, <1>4, <1>5, <1>6, <1>7, <1>8 DEF ListInv, FreeType

-----------------------------------------------------------------------------
(***************************************************************************)
(* One lemma per action: it preserves Inv.                                 *)
(***************************************************************************)
RestType ==
  /\ regions \in Seq(Ranges)
  /\ region_count \in Nat \cup {AllOnes}
  /\ op \in {Idle} \cup SplitOps \cup MergeOps \cup RangeOps
  /\ live \subseteq [page : Int, order : Orders, n : Nat]
  /\ fault \in {"none", "walked past regions[]", "free addr not found in free list",
                "wrote through the header of an invalid region"}

TilesApart == AllApart(Tiles)

LiveDistinct == \A a, b \in live : a.page = b.page => a = b

\* The parts of the invariant, for use and for reassembly.
LEMMA Parts ==
  Inv => /\ RestType /\ ListInv /\ LiveOK /\ OpOK /\ TilesApart /\ LiveDistinct
         /\ NoListCorruption /\ TypeOK
BY DEF Inv, TypeOK, RestType, ListInv, FreeType, NoOverlap, NoRepeats, TilesApart, AllApart,
       LiveDistinct

LEMMA Reassemble ==
  ASSUME RestType', ListInv', LiveOK', OpOK', TilesApart', LiveDistinct', NoListCorruption'
  PROVE  Inv'
BY DEF Inv, TypeOK, RestType, ListInv, FreeType, NoOverlap, NoRepeats, TilesApart, AllApart,
       LiveDistinct

\* Pages on a list are integers.
LEMMA ListedInt ==
  ASSUME ListInv, NEW r \in Ranges, NEW k \in Orders, NEW p \in ToSet(free[r][k])
  PROVE  p \in Int
BY LenProperties DEF ListInv, FreeType, ToSet

\* Regions in the table are entries of the memory map.
LEMMA AddedRange ==
  ASSUME RestType, NEW r \in Added
  PROVE  r \in Ranges
<1>1. DOMAIN regions = 1 .. Len(regions) /\ \A i \in 1 .. Len(regions) : regions[i] \in Ranges
  BY LenProperties DEF RestType
<1> QED BY <1>1 DEF Added, ToSet

\* The program counter tells which call is under way.
LEMMA OpKind ==
  ASSUME RestType
  PROVE  /\ op.pc = "split" => op \in SplitOps
         /\ op.pc = "merge" => op \in MergeOps
         /\ op.pc = "range" => op \in RangeOps
<1>1. op \in {Idle} \cup SplitOps \cup MergeOps \cup RangeOps
  BY DEF RestType
<1>2. Idle.pc = "idle"
  BY DEF Idle
<1>3. op \in SplitOps => op.pc = "split"
  BY DEF SplitOps
<1>4. op \in MergeOps => op.pc = "merge"
  BY DEF MergeOps
<1>5. op \in RangeOps => op.pc = "range"
  BY DEF RangeOps
<1> QED BY <1>1, <1>2, <1>3, <1>4, <1>5

\* The tile in the hand of each call.
LEMMA HandTile ==
  /\ op = Idle => HandTiles = {}
  /\ op.pc = "split" => HandTiles = {[own |-> "hand", page |-> op.page, size |-> 2^op.ord]}
  /\ op.pc = "merge" => HandTiles = {[own |-> "hand", page |-> mbase(op.r) + op.pfn,
                                      size |-> 2^op.ord]}
  /\ op.pc = "range" => HandTiles = {[own |-> "hand", page |-> op.page, size |-> op.size]}
BY DEF HandTiles, Idle

LEMMA HandTileNext ==
  /\ op' = Idle => HandTiles' = {}
  /\ op'.pc = "split" => HandTiles' = {[own |-> "hand", page |-> op'.page, size |-> 2^op'.ord]}
  /\ op'.pc = "merge" => HandTiles' = {[own |-> "hand", page |-> mbase(op'.r) + op'.pfn,
                                        size |-> 2^op'.ord]}
  /\ op'.pc = "range" => HandTiles' = {[own |-> "hand", page |-> op'.page, size |-> op'.size]}
BY DEF HandTiles, Idle

\* A call that finds a block takes it off its list.
LEMMA TakeKeepsInv ==
  ASSUME Inv, op = Idle, NEW r \in Added, NEW req \in Orders, NEW o \in Orders, NEW n \in Nat,
         n <= 2^req, Take(r, req, o, n)
  PROVE  Inv'
<1> USE Parts
<1>1. r \in Ranges
  BY AddedRange
<1> DEFINE h == Head(free[r][o])
           x == FTile(h, o)
           y == [own |-> "hand", page |-> h, size |-> 2^o]
<1>2. free[r][o] # <<>> /\ req <= o
  BY DEF Take, Serves, StopsAt, HeadPops
<1>3. free[r][o] \in Seq(Int) /\ IsInjective(free[r][o])
  BY <1>1 DEF ListInv, FreeType, NoRepeats
<1>4. /\ h \in Int /\ h \in ToSet(free[r][o])
      /\ Tail(free[r][o]) \in Seq(Int)
      /\ Unlink(r, o, h, Tail(free[r][o]))
  <2>1. /\ free' = [free EXCEPT ![r][o] = Tail(free[r][o])]
        /\ bit' = [bit EXCEPT ![r][o] = @ \ {kbud_pair_idx(kbud_pfnum(r, h), o)}]
    BY DEF Take, kbud_pop_head
  <2> QED BY <1>2, <1>3, <2>1, TailList DEF Unlink
<1>5. /\ regions' = regions /\ region_count' = region_count /\ live' = live /\ fault' = fault
      /\ op' = [pc |-> "split", r |-> r, page |-> h, ord |-> o, req |-> req, n |-> n]
  BY DEF Take
<1> HIDE DEF h
<1>6. ListInv' /\ x \in FreeTiles /\ FreeTiles' \subseteq FreeTiles \ {x}
  BY <1>1, <1>4, <1>5, PopEffect
<1>7. RestType'
  BY <1>1, <1>4, <1>5 DEF RestType, SplitOps
<1>8. LiveOK' /\ LiveDistinct' /\ NoListCorruption'
  BY <1>5 DEF LiveOK, LiveDistinct, NoListCorruption, Added
<1>9. OpOK'
  <2>1. Block(r, h, o)
    BY <1>1, <1>4 DEF ListInv, FreeOK
  <2> QED BY <2>1, <1>2, <1>5 DEF OpOK, Added
<1>10. TilesApart'
  <2>1. HandTiles = {} /\ HandTiles' = {y}
    BY <1>5, HandTile, HandTileNext
  <2>2. LiveTiles' = LiveTiles
    BY <1>5 DEF LiveTiles
  <2>3. x \in Tiles /\ x \notin LiveTiles
    BY <1>6 DEF Tiles, LiveTiles, FTile
  <2>4. ASSUME NEW t \in Tiles, t # x
        PROVE  Apart(y, t)
    <3>1. Apart(x, t)
      BY <2>3, <2>4 DEF TilesApart, AllApart
    <3> QED BY <3>1 DEF Apart, FTile
  <2>5. \A u \in Tiles' : u = y \/ (u \in Tiles /\ u # x)
    BY <2>1, <2>2, <2>3, <1>6 DEF Tiles
  <2> HIDE DEF x, y
  <2>6. Replaces(Tiles, Tiles', x, x, y, y)
    BY <2>4, <2>5 DEF Replaces
  <2> QED BY <2>6, Rearrange DEF TilesApart
<1> QED BY <1>6, <1>7, <1>8, <1>9, <1>10, Reassemble

\* The call under way pushes a piece of the tile z in its hand and keeps y.
LEMMA PushFromHand ==
  ASSUME Inv, regions' = regions, live' = live,
         NEW r \in Added, NEW k \in Orders, NEW page \in Int,
         kbud_push(r, page, k), k <= max_order(r) => Block(r, page, k),
         NEW z, HandTiles = {z}, z.page <= page, page + 2^k <= z.page + z.size,
         NEW y, HandTiles' \subseteq {y}, y.page \in Int, y.size \in Int,
         z.page <= y.page, y.page + y.size <= z.page + z.size,
         z.own = "hand", Apart(FTile(page, k), y)
  PROVE  ListInv' /\ TilesApart'
<1> USE Parts
<1> DEFINE x == FTile(page, k)
<1>1. r \in Ranges
  BY AddedRange
<1>2. z \in Tiles /\ z.page \in Int /\ z.size \in Int
  BY TileBounds DEF Tiles
<1>3. x.page = page /\ x.size = 2^k /\ x.own = "free" /\ 2^k \in Nat \ {0}
  BY Powers DEF FTile
<1> HIDE DEF x
<1>4. x \notin FreeTiles
  <2> SUFFICES ASSUME x \in FreeTiles
               PROVE  FALSE
    OBVIOUS
  <2>1. x \in Tiles /\ x # z
    BY <1>3 DEF Tiles
  <2>2. Apart(z, x)
    BY <2>1, <1>2 DEF TilesApart, AllApart
  <2> QED BY <2>2, <1>2, <1>3, PieceOverlaps
<1>5. page \notin ToSet(free[r][k])
  BY <1>1, <1>4, FreeTile DEF FreeTiles, x
<1>6. ListInv' /\ FreeTiles' \subseteq FreeTiles \cup {x}
  BY <1>1, <1>5, PushEffect DEF x
<1>7. LiveTiles' = LiveTiles
  BY DEF LiveTiles
<1>8. z \notin FreeTiles /\ z \notin LiveTiles
  <2>1. \A t \in FreeTiles : t.own = "free"
    BY FreeTile DEF FreeTiles, FTile
  <2>2. \A t \in LiveTiles : t.own = "live"
    BY DEF LiveTiles
  <2> QED BY <2>1, <2>2
<1>9. \A u \in Tiles' : u = x \/ u = y \/ (u \in Tiles /\ u # z)
  BY <1>6, <1>7, <1>8 DEF Tiles
<1>10. ASSUME NEW t \in Tiles, t # z
       PROVE  Apart(x, t) /\ Apart(y, t)
  <2>1. Apart(z, t)
    BY <1>2, <1>10 DEF TilesApart, AllApart
  <2>2. t.page \in Int /\ t.size \in Int
    BY TileBounds
  <2> QED BY <2>1, <2>2, <1>2, <1>3 DEF Apart
<1>11. Replaces(Tiles, Tiles', z, z, x, y)
  BY <1>9, <1>10 DEF Replaces, x
<1>12. TilesApart'
  BY <1>11, Rearrange DEF TilesApart
<1> QED BY <1>6, <1>12

\* One round of the split loop.
LEMMA SplitKeepsInv ==
  ASSUME Inv, Split
  PROVE  Inv'
<1> USE Parts
<1>1. op \in SplitOps /\ op.pc = "split"
  BY OpKind DEF Split
<1> DEFINE r == op.r
           p == op.page
           k == op.ord - 1
           z == [own |-> "hand", page |-> p, size |-> 2^op.ord]
           y == [own |-> "hand", page |-> p, size |-> 2^k]
<1>2. r \in Added /\ Block(r, p, op.ord) /\ op.req <= op.ord /\ op.n <= 2^op.req
  BY <1>1 DEF OpOK
<1>3. /\ op.ord \in Orders /\ op.req \in Orders /\ p \in Int /\ op.n \in Nat /\ r \in Ranges
      /\ k \in Orders /\ op.ord = k + 1 /\ op.req <= k /\ k <= op.ord
  <2>1. op.ord \in Orders /\ op.req \in Orders /\ p \in Int /\ op.n \in Nat /\ r \in Ranges
    BY <1>1 DEF SplitOps
  <2>2. op.ord > op.req
    BY DEF Split
  <2> QED BY <2>1, <2>2, OrderAssumption DEF Orders
<1>4. /\ regions' = regions /\ region_count' = region_count /\ live' = live /\ fault' = fault
      /\ op' = [op EXCEPT !.ord = k]
      /\ kbud_push(r, Flip(p, k), k)
  BY DEF Split
<1>5. 2^op.ord = 2 * 2^k /\ 2^k \in Nat \ {0}
  BY <1>3, Powers
<1>6. /\ p % 2^op.ord = 0 /\ op.ord <= max_order(r) /\ max_order(r) \in Nat
      /\ mbase(r) <= p /\ p + 2^op.ord <= End(r)
      /\ mbase(r) \in Int /\ End(r) \in Int
  BY <1>2, <1>3, Layout DEF Block, Orders
<1>7. p % 2^k = 0
  BY <1>3, <1>6, SmallerAlignment
<1>8. Flip(p, k) = p + 2^k /\ (p + 2^k) % 2^k = 0
  BY <1>3, <1>5, <1>6, <1>7, BuddyOf
<1>9. Block(r, p, k) /\ Block(r, p + 2^k, k)
  BY <1>3, <1>5, <1>6, <1>7, <1>8 DEF Block, Orders
<1>10. op' \in SplitOps /\ op'.pc = "split" /\ op'.page = p /\ op'.ord = k /\ op'.r = r
       /\ op'.req = op.req /\ op'.n = op.n
  BY <1>1, <1>3, <1>4 DEF SplitOps
<1>11. HandTiles = {z} /\ HandTiles' = {y}
  BY <1>1, <1>10, HandTile, HandTileNext
<1>12. ListInv' /\ TilesApart'
  <2>1. /\ z.page = p /\ z.size = 2^op.ord /\ z.own = "hand"
        /\ y.page = p /\ y.size = 2^k /\ p + 2^k \in Int
    BY <1>3, <1>5
  <2>2. Apart(FTile(p + 2^k, k), y)
    BY <1>3, <1>5 DEF Apart, FTile
  <2> HIDE DEF z, y, r, p, k
  <2>3. /\ kbud_push(r, p + 2^k, k) /\ z.page <= p + 2^k /\ p + 2^k + 2^k <= z.page + z.size
        /\ z.page <= y.page /\ y.page + y.size <= z.page + z.size
        /\ y.page \in Int /\ y.size \in Int
    BY <1>3, <1>4, <1>5, <1>8, <2>1
  <2>4. HandTiles' \subseteq {y}
    BY <1>11
  <2> QED BY <1>2, <1>3, <1>4, <1>9, <1>11, <2>1, <2>2, <2>3, <2>4, PushFromHand
<1>13. RestType'
  BY <1>4, <1>10 DEF RestType
<1>14. LiveOK' /\ LiveDistinct' /\ NoListCorruption'
  BY <1>4 DEF LiveOK, LiveDistinct, NoListCorruption, Added
<1>15. OpOK'
  BY <1>2, <1>3, <1>4, <1>9, <1>10 DEF OpOK, Added
<1> QED BY <1>12, <1>13, <1>14, <1>15, Reassemble

\* The call hands its block to the caller.
LEMMA AllocReturnsKeepsInv ==
  ASSUME Inv, AllocReturns
  PROVE  Inv'
<1> USE Parts
<1>1. op \in SplitOps /\ op.pc = "split"
  BY OpKind DEF AllocReturns
<1> DEFINE b == [page |-> op.page, order |-> op.ord, n |-> op.n]
           z == [own |-> "hand", page |-> op.page, size |-> 2^op.ord]
           y == [own |-> "live", page |-> op.page, size |-> 2^op.ord]
<1>2. /\ op.r \in Added /\ Block(op.r, op.page, op.ord) /\ op.n <= 2^op.ord
      /\ op.page \in Int /\ op.ord \in Orders /\ op.n \in Nat
  BY <1>1 DEF OpOK, SplitOps, AllocReturns
<1>3. /\ regions' = regions /\ region_count' = region_count /\ fault' = fault
      /\ free' = free /\ bit' = bit /\ live' = live \cup {b} /\ op' = Idle
  BY DEF AllocReturns
<1>4. HandTiles = {z} /\ HandTiles' = {} /\ FreeTiles' = FreeTiles
  BY <1>1, <1>3, HandTile, HandTileNext DEF FreeTiles
<1>5. \A t \in LiveTiles' : t \in LiveTiles \/ t = y
  BY <1>3 DEF LiveTiles
<1>6. z \in Tiles /\ 2^op.ord \in Nat \ {0}
  BY <1>2, <1>4, Powers DEF Tiles
<1>7. \A t \in FreeTiles \cup LiveTiles : t # z
  <2>1. \A t \in FreeTiles : t.own = "free"
    BY FreeTile DEF FreeTiles, FTile
  <2>2. \A t \in LiveTiles : t.own = "live"
    BY DEF LiveTiles
  <2> QED BY <2>1, <2>2
<1>8. ASSUME NEW t \in Tiles, t # z
      PROVE  Apart(y, t)
  <2>1. Apart(z, t)
    BY <1>6, <1>8 DEF TilesApart, AllApart
  <2> QED BY <2>1 DEF Apart
<1>9. TilesApart'
  <2>1. \A u \in Tiles' : u = y \/ (u \in Tiles /\ u # z)
    BY <1>4, <1>5, <1>7 DEF Tiles
  <2> HIDE DEF y, z
  <2>2. Replaces(Tiles, Tiles', z, z, y, y)
    BY <1>8, <2>1 DEF Replaces
  <2> QED BY <2>2, Rearrange DEF TilesApart
<1>10. LiveDistinct'
  <2>1. ASSUME NEW c \in live, c.page = op.page
        PROVE  FALSE
    <3> DEFINE t == [own |-> "live", page |-> c.page, size |-> 2^c.order]
    <3>1. t \in Tiles /\ t # z
      BY DEF Tiles, LiveTiles
    <3>2. Apart(y, t)
      BY <3>1, <1>8
    <3>3. c.order \in Orders /\ c.page \in Int
      BY DEF RestType
    <3>4. 2^c.order \in Nat \ {0}
      BY <3>3, Powers
    <3> QED BY <3>2, <3>3, <3>4, <1>6, <2>1 DEF Apart
  <2> QED BY <2>1, <1>3 DEF LiveDistinct
<1>11. LiveOK'
  BY <1>2, <1>3 DEF LiveOK, Added
<1>12. RestType' /\ OpOK' /\ NoListCorruption'
  <2>1. b \in [page : Int, order : Orders, n : Nat]
    BY <1>2
  <2>2. RestType'
    BY <1>3, <2>1 DEF RestType
  <2>3. OpOK'
    BY <1>3 DEF OpOK, Idle
  <2> QED BY <2>2, <2>3, <1>3 DEF NoListCorruption
<1>13. ListInv'
  BY <1>3 DEF ListInv, FreeType, FreeOK, NoRepeats, BitImpliesFree, Added
<1> QED BY <1>9, <1>10, <1>11, <1>12, <1>13, Reassemble

\* A step that moves no memory keeps the invariant.
LEMMA NothingMoves ==
  ASSUME Inv, regions' = regions, region_count' = region_count, free' = free, bit' = bit,
         op' = op, live' = live, fault' \in {fault, "none", "walked past regions[]"}
  PROVE  Inv'
<1> USE Parts
<1>1. RestType' /\ NoListCorruption'
  BY DEF RestType, NoListCorruption
<1>2. LiveOK' /\ OpOK' /\ LiveDistinct'
  BY DEF LiveOK, OpOK, LiveDistinct, Added
<1>3. ListInv'
  BY DEF ListInv, FreeType, FreeOK, NoRepeats, BitImpliesFree, Added
<1>4. Tiles' = Tiles
  BY DEF Tiles, FreeTiles, LiveTiles, HandTiles
<1>5. TilesApart'
  BY <1>4 DEF TilesApart
<1> QED BY <1>1, <1>2, <1>3, <1>5, Reassemble

\* The region found for a block that a caller holds is the one it came from.
LEMMA FoundRegion ==
  ASSUME Inv, NEW b \in live, NEW r \in find_valid_slave(b.page)
  PROVE  /\ r \in Added /\ r \in Ranges /\ Block(r, b.page, b.order)
         /\ b.page \in Int /\ b.order \in Orders /\ b.n \in Nat /\ b.n <= 2^b.order
<1> USE Parts
<1>1. b.page \in Int /\ b.order \in Orders /\ b.n \in Nat /\ b.n <= 2^b.order
  BY DEF RestType, LiveOK
<1>2. PICK s \in Added : Block(s, b.page, b.order)
  BY DEF LiveOK
<1>3. r \in Added /\ r.base <= b.page /\ b.page < mbase(r) + total_pages(r)
  BY DEF find_valid_slave, find_buddy_slave
<1>4. r \in Ranges /\ s \in Ranges
  BY <1>3, AddedRange
<1>5. b.page < End(r)
  <2>1. mbase(r) \in Int /\ End(r) \in Int /\ total_pages(r) = End(r) - mbase(r)
    BY <1>4, Layout
  <2> QED BY <2>1, <1>3
<1>6. s.base <= b.page /\ b.page < End(s)
  BY <1>1, <1>2, <1>4, BlockInRegion
<1>7. r = s
  BY <1>1, <1>3, <1>4, <1>5, <1>6, OneRegion
<1> QED BY <1>1, <1>2, <1>3, <1>4, <1>7

\* Every tile that is not in the hand of the call has at least one page.
LEMMA TileNotEmpty ==
  ASSUME TypeOK, NEW t \in FreeTiles \cup LiveTiles
  PROVE  t.size \in Nat \ {0} /\ t.own # "hand"
<1>1. CASE t \in FreeTiles
  <2>1. PICK r \in Ranges, k \in Orders : \E p \in ToSet(free[r][k]) : t = FTile(p, k)
    BY <1>1, FreeTile DEF FreeTiles
  <2> QED BY <2>1, Powers DEF FTile
<1>2. CASE t \in LiveTiles
  <2>1. PICK b \in live : t = [own |-> "live", page |-> b.page, size |-> 2^b.order]
    BY <1>2 DEF LiveTiles
  <2>2. b.order \in Orders
    BY DEF TypeOK
  <2> QED BY <2>1, <2>2, Powers
<1> QED BY <1>1, <1>2

\* A caller gives block b back; the call holds at most its first pages, y.
LEMMA GiveBack ==
  ASSUME Inv, op = Idle, NEW b \in live, live' = live \ {b},
         regions' = regions, free' = free, bit' = bit,
         NEW y, HandTiles' \subseteq {y}, y.page = b.page, y.size \in Nat, y.size <= 2^b.order
  PROVE  ListInv' /\ TilesApart' /\ LiveOK' /\ LiveDistinct'
<1> USE Parts
<1> DEFINE x == [own |-> "live", page |-> b.page, size |-> 2^b.order]
<1>1. b.page \in Int /\ b.order \in Orders
  BY DEF RestType
<1>2. 2^b.order \in Nat \ {0}
  BY <1>1, Powers
<1>3. x \in LiveTiles /\ x.page = b.page /\ x.size = 2^b.order /\ x.own = "live"
  BY DEF LiveTiles
<1>4. HandTiles = {} /\ FreeTiles' = FreeTiles
  BY HandTile DEF FreeTiles
<1>5. \A t \in FreeTiles : t # x
  BY FreeTile DEF FreeTiles, FTile
<1>6. \A t \in LiveTiles' : t \in LiveTiles /\ t # x
  BY DEF LiveTiles, LiveDistinct
<1> HIDE DEF x
<1>7. \A u \in Tiles' : u = y \/ (u \in Tiles /\ u # x)
  BY <1>4, <1>5, <1>6 DEF Tiles
<1>8. ASSUME NEW t \in Tiles, t # x
      PROVE  Apart(y, t)
  <2>1. x \in Tiles
    BY <1>3 DEF Tiles
  <2>2. Apart(x, t)
    BY <1>8, <2>1 DEF TilesApart, AllApart
  <2>3. t.page \in Int /\ t.size \in Int
    BY TileBounds
  <2> QED BY <2>2, <2>3, <1>1, <1>2, <1>3, PieceApart
<1>9. Replaces(Tiles, Tiles', x, x, y, y)
  BY <1>7, <1>8 DEF Replaces
<1>10. TilesApart'
  BY <1>9, Rearrange DEF TilesApart
<1>11. LiveOK' /\ LiveDistinct'
  BY DEF LiveOK, LiveDistinct, Added
<1>12. ListInv'
  BY DEF ListInv, FreeType, FreeOK, NoRepeats, BitImpliesFree, Added
<1> QED BY <1>10, <1>11, <1>12

\* kbud_free() starts.
LEMMA FreeKeepsInv ==
  ASSUME Inv, SafeUse, NEW b \in live, kbud_free(b)
  PROVE  Inv'
<1> USE Parts
<1>1. /\ regions' = regions /\ region_count' = region_count /\ free' = free /\ bit' = bit
      /\ live' = live \ {b} /\ fault' = fault /\ op = Idle /\ "kbud_free" \in Calls
  BY DEF kbud_free, Running
<1> DEFINE y == [own |-> "hand", page |-> b.page, size |-> 2^b.order]
<1>2. b.page \in Int /\ b.order \in Orders
  BY DEF RestType
<1>3. 2^b.order \in Nat \ {0}
  BY <1>2, Powers
<1>4. y.page = b.page /\ y.size \in Nat /\ y.size <= 2^b.order
  BY <1>3
<1>5. NoListCorruption'
  BY <1>1 DEF NoListCorruption
<1>6. RestType' /\ OpOK' /\ HandTiles' \subseteq {y}
  <2>1. CASE find_valid_slave(b.page) = {}
    <3>1. op' = Idle
      BY <2>1, <1>1 DEF kbud_free
    <3>2. RestType'
      BY <3>1, <1>1 DEF RestType
    <3>3. OpOK'
      BY <3>1 DEF OpOK, Idle
    <3>4. HandTiles' = {}
      BY <3>1, HandTileNext
    <3> QED BY <3>2, <3>3, <3>4
  <2>2. CASE find_valid_slave(b.page) # {}
    <3>1. PICK r \in find_valid_slave(b.page) :
            op' = [pc |-> "merge", r |-> r, pfn |-> kbud_pfnum(r, b.page), ord |-> b.order]
      BY <2>2 DEF kbud_free
    <3>2. r \in Added /\ r \in Ranges /\ Block(r, b.page, b.order)
      BY FoundRegion
    <3>3. mbase(r) \in Int /\ End(r) \in Int /\ max_order(r) \in Orders
      BY <3>2, Layout
    <3>4. /\ op'.pc = "merge" /\ op'.r = r /\ op'.pfn = b.page - mbase(r) /\ op'.ord = b.order
          /\ op' \in MergeOps
      <4>1. b.page - mbase(r) \in Int /\ b.order \in 0 .. PFRAME_MAX_ORDER
        BY <1>2, <3>3, OrderAssumption DEF Orders
      <4> QED BY <3>1, <3>2, <4>1 DEF MergeOps, kbud_pfnum
    <3>5. RestType'
      BY <3>4, <1>1 DEF RestType
    <3>6. (b.page - mbase(r)) % 2^b.order = 0
      <4>1. b.order <= max_order(r) /\ b.page % 2^b.order = 0
        BY <3>2 DEF Block
      <4>2. mbase(r) % 2^max_order(r) = 0
        BY <1>1, <3>2 DEF SafeUse
      <4>3. mbase(r) % 2^b.order = 0
        BY <1>2, <3>3, <4>1, <4>2, SmallerAlignment
      <4> QED BY <1>2, <1>3, <3>3, <4>1, <4>3, SumMod
    <3>7. OpOK'
      <4>1. /\ 0 <= b.page - mbase(r) /\ mbase(r) + (b.page - mbase(r)) + 2^b.order <= End(r)
        BY <3>2, <3>3, <1>2, <1>3 DEF Block
      <4> QED BY <4>1, <3>2, <3>4, <3>6, <1>1, <1>2 DEF OpOK, Added
    <3>8. HandTiles' = {y}
      <4>1. mbase(r) + (b.page - mbase(r)) = b.page
        BY <1>2, <3>3
      <4> QED BY <4>1, <3>4, HandTileNext
    <3> QED BY <3>5, <3>7, <3>8
  <2> QED BY <2>1, <2>2
<1> HIDE DEF y
<1>7. ListInv' /\ TilesApart' /\ LiveOK' /\ LiveDistinct'
  BY <1>1, <1>4, <1>6, GiveBack
<1> QED BY <1>5, <1>6, <1>7, Reassemble

\* kbud_free_range() starts on memory of a known region.
LEMMA FreeRangeKeepsInv ==
  ASSUME Inv, NEW b \in live, kbud_free_range(b)
  PROVE  Inv'
<1> USE Parts
<1>1. /\ regions' = regions /\ region_count' = region_count /\ free' = free /\ bit' = bit
      /\ live' = live \ {b} /\ op = Idle
  BY DEF kbud_free_range, Running
<1> DEFINE y == [own |-> "hand", page |-> b.page, size |-> b.n]
<1>2. b.page \in Int /\ b.order \in Orders /\ b.n \in Nat /\ b.n <= 2^b.order
  BY DEF RestType, LiveOK
<1>3. 2^b.order \in Nat \ {0}
  BY <1>2, Powers
<1>4. y.page = b.page /\ y.size \in Nat /\ y.size <= 2^b.order
  BY <1>2
<1>5. RestType' /\ OpOK' /\ NoListCorruption' /\ HandTiles' \subseteq {y}
  <2>1. CASE find_valid_slave(b.page) = {}
    <3>1. op' = Idle /\ fault' = "walked past regions[]"
      BY <2>1, <1>1 DEF kbud_free_range
    <3>2. RestType' /\ NoListCorruption'
      BY <3>1, <1>1 DEF RestType, NoListCorruption
    <3>3. OpOK'
      BY <3>1 DEF OpOK, Idle
    <3>4. HandTiles' = {}
      BY <3>1, HandTileNext
    <3> QED BY <3>2, <3>3, <3>4
  <2>2. CASE find_valid_slave(b.page) # {}
    <3>0. fault' = fault
      BY <2>2 DEF kbud_free_range
    <3>1. PICK r \in find_valid_slave(b.page) :
            op' = [pc |-> "range", r |-> r, page |-> b.page, size |-> b.n]
      BY <2>2 DEF kbud_free_range
    <3>2. r \in Added /\ r \in Ranges /\ Block(r, b.page, b.order)
      BY FoundRegion
    <3>3. mbase(r) <= b.page /\ b.page + b.n <= End(r)
      <4>1. mbase(r) <= b.page /\ b.page + 2^b.order <= End(r)
        BY <3>2 DEF Block
      <4>2. End(r) \in Int
        BY <3>2, Layout
      <4> QED BY <4>1, <4>2, <1>2, <1>3
    <3>4. /\ op'.pc = "range" /\ op'.r = r /\ op'.page = b.page /\ op'.size = b.n
          /\ op' \in RangeOps
      BY <3>1, <3>2, <1>2 DEF RangeOps
    <3>5. RestType' /\ NoListCorruption'
      BY <3>0, <3>4, <1>1 DEF RestType, NoListCorruption
    <3>6. OpOK'
      BY <3>2, <3>3, <3>4, <1>1 DEF OpOK, Added
    <3>7. HandTiles' = {y}
      BY <3>4, HandTileNext
    <3> QED BY <3>5, <3>6, <3>7
  <2> QED BY <2>1, <2>2
<1> HIDE DEF y
<1>6. ListInv' /\ TilesApart' /\ LiveOK' /\ LiveDistinct'
  BY <1>1, <1>4, <1>5, GiveBack
<1> QED BY <1>5, <1>6, Reassemble

\* The two blocks of a pair.
LEMMA PairMembers ==
  ASSUME NEW k \in Orders, NEW x \in Int, NEW y \in Int, x % 2^k = 0, y % 2^k = 0,
         kbud_pair_idx(x, k) = kbud_pair_idx(y, k)
  PROVE  y = x \/ y = Flip(x, k)
<1> DEFINE w == 2^k
<1>1. w \in Nat \ {0} /\ 2^(k + 1) = 2 * w
  BY Powers
<1>2. x % w = 0 /\ y % w = 0
  OBVIOUS
<1>3. x \div (2 * w) = y \div (2 * w)
  BY <1>1 DEF kbud_pair_idx
<1>4. Flip(x, k) = IF (x \div w) % 2 = 0 THEN x + w ELSE x - w
  BY DEF Flip
<1> HIDE DEF w
<1>5. PICK a \in Int : x = a * w
  BY <1>1, <1>2, MultipleMod
<1>6. PICK c \in Int : y = c * w
  BY <1>1, <1>2, MultipleMod
<1>7. x \div w = a /\ x \div (2 * w) = a \div 2 /\ y \div (2 * w) = c \div 2
  BY <1>1, <1>5, <1>6, Parity
<1>8. a \div 2 = c \div 2
  BY <1>3, <1>7
<1>9. \/ c = a
      \/ a % 2 = 0 /\ c = a + 1
      \/ a % 2 # 0 /\ c = a - 1
  BY <1>8
<1>10. CASE c = a
  BY <1>5, <1>6, <1>10
<1>11. CASE a % 2 = 0 /\ c = a + 1
  <2>1. (a + 1) * w = a * w + w
    BY <1>1
  <2> QED BY <1>4, <1>5, <1>6, <1>7, <1>11, <2>1
<1>12. CASE a % 2 # 0 /\ c = a - 1
  <2>1. (a - 1) * w = a * w - w
    BY <1>1
  <2> QED BY <1>4, <1>5, <1>6, <1>7, <1>12, <2>1
<1> QED BY <1>9, <1>10, <1>11, <1>12

\* Page frame numbers and addresses are aligned alike where kbud_free is used.
LEMMA MbaseAligned ==
  ASSUME SafeUse, "kbud_free" \in Calls, NEW r \in Ranges, NEW k \in Orders, k <= max_order(r),
         NEW p \in Int
  PROVE  /\ p % 2^k = 0 => (p - mbase(r)) % 2^k = 0
         /\ p % 2^k = 0 => (mbase(r) + p) % 2^k = 0
<1>1. mbase(r) \in Int /\ max_order(r) \in Orders
  BY Layout
<1>2. mbase(r) % 2^max_order(r) = 0
  BY DEF SafeUse
<1>3. mbase(r) % 2^k = 0
  BY <1>1, <1>2, SmallerAlignment
<1>4. 2^k \in Nat \ {0}
  BY Powers
<1> QED BY <1>1, <1>3, <1>4, SumMod

\* Where the merge loop finds the buddy's bit set, the buddy is on its list.
LEMMA BuddyListed ==
  ASSUME Inv, SafeUse, op.pc = "merge", Mergeable(op.r, op.pfn, op.ord)
  PROVE  mbase(op.r) + Flip(op.pfn, op.ord) \in ToSet(free[op.r][op.ord])
<1> USE Parts
<1> DEFINE r == op.r
           k == op.ord
           m == mbase(r)
           bpfn == Flip(op.pfn, k)
<1>1. /\ r \in Added /\ k \in Orders /\ 0 <= op.pfn /\ op.pfn % 2^k = 0 /\ "kbud_free" \in Calls
      /\ op.pfn \in Int /\ r \in Ranges
  BY OpKind DEF OpOK, MergeOps
<1>2. k <= max_order(r) /\ kbud_pair_idx(bpfn, k) \in bit[r][k]
  BY DEF Mergeable, buddy_bit_chk, buddy_bit_get
<1>3. 2^k \in Nat \ {0} /\ 2^(k + 1) = 2 * 2^k
  BY <1>1, Powers
<1>4. kbud_pair_idx(bpfn, k) = kbud_pair_idx(op.pfn, k)
  BY <1>1, <1>3, BuddyOf
<1>5. PICK p \in ToSet(free[r][k]) :
        kbud_pair_idx(kbud_pfnum(r, p), k) = kbud_pair_idx(op.pfn, k)
  BY <1>1, <1>2, <1>4 DEF ListInv, BitImpliesFree
<1>6. p \in Int /\ m \in Int
  BY <1>1, ListedInt, Layout
<1>7. p % 2^k = 0
  BY <1>1 DEF ListInv, FreeOK, Block
<1>8. (p - m) % 2^k = 0
  BY <1>1, <1>2, <1>6, <1>7, MbaseAligned
<1>9. p - m = op.pfn \/ p - m = bpfn
  <2>1. kbud_pair_idx(op.pfn, k) = kbud_pair_idx(p - m, k) /\ p - m \in Int
    BY <1>5, <1>6 DEF kbud_pfnum
  <2> QED BY <1>1, <1>8, <2>1, PairMembers
<1>10. p - m # op.pfn
  <2> SUFFICES ASSUME p = m + op.pfn
               PROVE  FALSE
    BY <1>1, <1>6
  <2> DEFINE x == FTile(p, k)
             z == [own |-> "hand", page |-> m + op.pfn, size |-> 2^k]
  <2>1. x \in Tiles
    BY <1>1, FreeTile DEF Tiles, FreeTiles
  <2>2. z \in Tiles
    BY HandTile DEF Tiles
  <2>3. x # z
    BY DEF FTile
  <2>4. Apart(x, z)
    BY <2>1, <2>2, <2>3 DEF TilesApart, AllApart
  <2> QED BY <2>4, <1>3, <1>6 DEF Apart, FTile
<1>11. p = m + bpfn
  <2>1. bpfn \in Int
    BY <1>1, <1>3, BuddyOf
  <2> QED BY <1>6, <1>9, <1>10, <2>1
<1> QED BY <1>11

\* One round of the merge loop.
LEMMA MergeKeepsInv ==
  ASSUME Inv, SafeUse, Merge
  PROVE  Inv'
<1> USE Parts
<1> DEFINE r == op.r
           k == op.ord
           m == mbase(r)
           w == 2^k
           c == ClearBit(op.pfn, k)
           h == m + Flip(op.pfn, k)
           x == FTile(h, k)
           z == [own |-> "hand", page |-> m + op.pfn, size |-> w]
           y == [own |-> "hand", page |-> m + c, size |-> 2^(k + 1)]
<1>1. op.pc = "merge" /\ Mergeable(r, op.pfn, k)
  BY DEF Merge
<1>2. /\ r \in Added /\ r \in Ranges /\ k \in Orders /\ 0 <= op.pfn /\ op.pfn % w = 0
      /\ m + op.pfn + w <= End(r) /\ "kbud_free" \in Calls /\ op.pfn \in Int /\ op \in MergeOps
  BY <1>1, OpKind DEF OpOK, MergeOps
<1>3. k + 1 \in Orders /\ k \in Nat /\ k + 1 \in 0 .. PFRAME_MAX_ORDER
  <2>1. k < PFRAME_MAX_ORDER - 1
    BY <1>1 DEF Mergeable
  <2> QED BY <1>2, <2>1, OrderAssumption DEF Orders
<1>4. w \in Nat \ {0} /\ 2^(k + 1) = 2 * w
  BY <1>2, Powers
<1>5. h \in ToSet(free[r][k])
  BY <1>1, BuddyListed
<1>6. /\ regions' = regions /\ region_count' = region_count /\ live' = live /\ fault' = fault
      /\ kbud_pop(r, h, k)
      /\ op' = [op EXCEPT !.pfn = c, !.ord = k + 1]
  BY <1>5 DEF Merge
<1>7. free[r][k] \in Seq(Int) /\ IsInjective(free[r][k])
  BY <1>2 DEF ListInv, FreeType, NoRepeats
<1>8. /\ RemoveFirst(free[r][k], h) \in Seq(Int)
      /\ Unlink(r, k, h, RemoveFirst(free[r][k], h))
  <2>1. /\ free' = [free EXCEPT ![r][k] = RemoveFirst(free[r][k], h)]
        /\ bit' = [bit EXCEPT ![r][k] = @ \ {kbud_pair_idx(kbud_pfnum(r, h), k)}]
    BY <1>6 DEF kbud_pop
  <2> HIDE DEF h, r, k
  <2> QED BY <1>5, <1>7, <2>1, RemoveList DEF Unlink
<1>9. ListInv' /\ x \in FreeTiles /\ FreeTiles' \subseteq FreeTiles \ {x}
  <2> HIDE DEF h, r, k
  <2> QED BY <1>2, <1>5, <1>6, <1>8, PopEffect
<1>10. /\ c \in Int /\ c % 2^(k + 1) = 0
       /\ \/ h = m + (op.pfn + w) /\ c = op.pfn
          \/ h = m + (op.pfn - w) /\ c = op.pfn - w
  <2>1. 2^k \in Nat \ {0} /\ 2^(k + 1) = 2 * 2^k /\ op.pfn \in Int /\ op.pfn % 2^k = 0
    BY <1>2, <1>4
  <2> QED BY <2>1, BuddyOf
<1>11. h \in Int /\ m \in Int /\ End(r) \in Int /\ m <= h /\ h + w <= End(r)
  <2>1. h \in Int /\ m \in Int /\ End(r) \in Int
    BY <1>2, <1>5, ListedInt, Layout
  <2>2. Block(r, h, k)
    BY <1>2, <1>5 DEF ListInv, FreeOK
  <2> QED BY <2>1, <2>2 DEF Block
<1>12. 0 <= c /\ m + c + 2^(k + 1) <= End(r)
  <2> HIDE DEF c, w, m, h
  <2> QED BY <1>2, <1>4, <1>10, <1>11
<1>13. op' \in MergeOps /\ op'.pc = "merge" /\ op'.r = r /\ op'.pfn = c /\ op'.ord = k + 1
  <2> HIDE DEF c
  <2> QED BY <1>2, <1>3, <1>6, <1>10 DEF MergeOps
<1>14. RestType'
  BY <1>6, <1>13 DEF RestType
<1>15. LiveOK' /\ LiveDistinct' /\ NoListCorruption'
  BY <1>6 DEF LiveOK, LiveDistinct, NoListCorruption, Added
<1>16. OpOK'
  <2> HIDE DEF c, m, k, r
  <2>1. Added' = Added
    BY <1>6 DEF Added
  <2> QED BY <1>2, <1>3, <1>10, <1>12, <1>13, <2>1 DEF OpOK, m
<1>17. HandTiles = {z} /\ HandTiles' = {y}
  BY <1>1, <1>13, HandTile, HandTileNext
<1>18. /\ x.page = h /\ x.size = w /\ z.page = m + op.pfn /\ z.size = w
       /\ y.page = m + c /\ y.size = 2 * w
  BY <1>4 DEF FTile
<1>19. LiveTiles' = LiveTiles
  BY <1>6 DEF LiveTiles
<1>20. x \in Tiles /\ z \in Tiles /\ x.own = "free" /\ z.own = "hand"
  BY <1>9, <1>17 DEF Tiles, FTile
<1> HIDE DEF x, y, z, h, c, m, w
<1>21. ASSUME NEW t \in Tiles, t # x, t # z
       PROVE  Apart(y, t)
  <2>1. Apart(x, t) /\ Apart(z, t)
    BY <1>20, <1>21 DEF TilesApart, AllApart
  <2>2. t.page \in Int /\ t.size \in Nat
    BY TileBounds
  <2>3. t.size > 0
    BY <1>17, <1>21, TileNotEmpty DEF Tiles
  <2> QED BY <2>1, <2>2, <2>3, <1>2, <1>4, <1>10, <1>11, <1>18 DEF Apart
<1>22. \A u \in Tiles' : u = y \/ (u \in Tiles /\ u # x /\ u # z)
  <2>1. \A t \in LiveTiles : t.own = "live"
    BY DEF LiveTiles
  <2>2. \A t \in FreeTiles : t # z
    BY <1>20, TileNotEmpty
  <2> QED BY <2>1, <2>2, <1>9, <1>17, <1>19, <1>20 DEF Tiles
<1>23. TilesApart'
  <2>1. Replaces(Tiles, Tiles', x, z, y, y)
    BY <1>21, <1>22 DEF Replaces
  <2> QED BY <2>1, Rearrange DEF TilesApart
<1> QED BY <1>9, <1>14, <1>15, <1>16, <1>23, Reassemble

\* kbud_free() pushes the merged block and returns.
LEMMA FreeReturnsKeepsInv ==
  ASSUME Inv, SafeUse, FreeReturns
  PROVE  Inv'
<1> USE Parts
<1> DEFINE r == op.r
           k == op.ord
           m == mbase(r)
           w == 2^k
           p == m + op.pfn
           z == [own |-> "hand", page |-> p, size |-> w]
           y == [own |-> "hand", page |-> p + w, size |-> 0]
<1>1. op.pc = "merge"
  BY DEF FreeReturns
<1>2. /\ r \in Added /\ r \in Ranges /\ k \in Orders /\ 0 <= op.pfn /\ op.pfn % w = 0
      /\ p + w <= End(r) /\ "kbud_free" \in Calls /\ op.pfn \in Int
  BY <1>1, OpKind DEF OpOK, MergeOps
<1>3. w \in Nat \ {0} /\ m \in Int /\ p \in Int
  BY <1>2, Powers, Layout
<1>4. /\ regions' = regions /\ region_count' = region_count /\ live' = live /\ fault' = fault
      /\ kbud_push(r, p, k) /\ op' = Idle
  BY DEF FreeReturns
<1>5. k <= max_order(r) => Block(r, p, k)
  <2>1. k <= max_order(r) => p % w = 0
    BY <1>2, MbaseAligned
  <2>2. m <= p
    BY <1>2, <1>3
  <2> QED BY <2>1, <2>2, <1>2 DEF Block
<1>6. HandTiles = {z} /\ HandTiles' = {}
  BY <1>1, <1>4, HandTile, HandTileNext
<1>7. ListInv' /\ TilesApart'
  <2>1. Apart(FTile(p, k), y)
    BY <1>3 DEF Apart, FTile
  <2>2. /\ z.page = p /\ z.size = w /\ z.own = "hand" /\ y.page = p + w /\ y.size = 0
    OBVIOUS
  <2> HIDE DEF z, y, p, r, k
  <2>3. /\ z.page <= p /\ p + 2^k <= z.page + z.size /\ y.page \in Int /\ y.size \in Int
        /\ z.page <= y.page /\ y.page + y.size <= z.page + z.size
    BY <1>3, <2>2
  <2>4. HandTiles' \subseteq {y}
    BY <1>6
  <2> QED BY <1>2, <1>3, <1>4, <1>5, <1>6, <2>1, <2>2, <2>3, <2>4, PushFromHand
<1>8. RestType' /\ OpOK'
  <2>1. RestType'
    BY <1>4 DEF RestType
  <2>2. OpOK'
    BY <1>4 DEF OpOK, Idle
  <2> QED BY <2>1, <2>2
<1>9. LiveOK' /\ LiveDistinct' /\ NoListCorruption'
  BY <1>4 DEF LiveOK, LiveDistinct, NoListCorruption, Added
<1> QED BY <1>7, <1>8, <1>9, Reassemble

\* One round of the carve loop.
LEMMA CarveKeepsInv ==
  ASSUME Inv, CarveBlock
  PROVE  Inv'
<1> USE Parts
<1>1. op.pc = "range" /\ op \in RangeOps
  BY OpKind DEF CarveBlock
<1>2. PICK k \in Orders : /\ RangeFits(op.r, op.page, op.size, k)
                          /\ kbud_push(op.r, op.page, k)
                          /\ op' = [op EXCEPT !.page = op.page + 2^k, !.size = op.size - 2^k]
  BY DEF CarveBlock
<1> DEFINE r == op.r
           p == op.page
           w == 2^k
           z == [own |-> "hand", page |-> p, size |-> op.size]
           y == [own |-> "hand", page |-> p + w, size |-> op.size - w]
<1>3. /\ r \in Added /\ mbase(r) <= p /\ p + op.size <= End(r)
      /\ r \in Ranges /\ p \in Int /\ op.size \in Nat
  BY <1>1 DEF OpOK, RangeOps
<1>4. w \in Nat \ {0} /\ mbase(r) \in Int /\ End(r) \in Int
  BY <1>3, Powers, Layout
<1>5. /\ regions' = regions /\ region_count' = region_count /\ live' = live /\ fault' = fault
  BY DEF CarveBlock
<1>6. w <= op.size /\ p % w = 0 /\ k <= max_order(r)
  BY <1>2 DEF RangeFits
<1>7. p + w \in Int /\ op.size - w \in Nat /\ p + w <= End(r) /\ mbase(r) <= p + w
      /\ (p + w) + (op.size - w) <= End(r)
  <2> HIDE DEF w, p, r
  <2> QED BY <1>3, <1>4, <1>6
<1>8. Block(r, p, k)
  BY <1>3, <1>6, <1>7 DEF Block
<1>9. op' \in RangeOps /\ op'.pc = "range" /\ op'.r = r /\ op'.page = p + w
      /\ op'.size = op.size - w
  BY <1>1, <1>2, <1>7 DEF RangeOps
<1>10. HandTiles = {z} /\ HandTiles' = {y}
  BY <1>1, <1>9, HandTile, HandTileNext
<1>11. ListInv' /\ TilesApart'
  <2>1. Apart(FTile(p, k), y)
    BY <1>3, <1>4 DEF Apart, FTile
  <2>2. z.page = p /\ z.size = op.size /\ z.own = "hand" /\ y.page = p + w /\ y.size = op.size - w
    OBVIOUS
  <2>3. kbud_push(r, p, k)
    BY <1>2
  <2> HIDE DEF z, y, p, r
  <2>4. /\ z.page <= p /\ p + 2^k <= z.page + z.size /\ y.page \in Int /\ y.size \in Int
        /\ z.page <= y.page /\ y.page + y.size <= z.page + z.size
    BY <1>3, <1>4, <1>6, <1>7, <2>2
  <2>5. HandTiles' \subseteq {y}
    BY <1>10
  <2> QED BY <1>3, <1>5, <1>8, <1>10, <2>1, <2>2, <2>3, <2>4, <2>5, PushFromHand
<1>12. RestType'
  BY <1>5, <1>9 DEF RestType
<1>13. LiveOK' /\ LiveDistinct' /\ NoListCorruption'
  BY <1>5 DEF LiveOK, LiveDistinct, NoListCorruption, Added
<1>14. OpOK'
  BY <1>3, <1>5, <1>7, <1>9 DEF OpOK, Added
<1> QED BY <1>11, <1>12, <1>13, <1>14, Reassemble

\* kbud_free_range() returns.
LEMMA RangeReturnsKeepsInv ==
  ASSUME Inv, RangeReturns
  PROVE  Inv'
<1> USE Parts
<1>1. /\ regions' = regions /\ region_count' = region_count /\ live' = live /\ fault' = fault
      /\ free' = free /\ bit' = bit /\ op' = Idle
  BY DEF RangeReturns
<1>2. RestType'
  BY <1>1 DEF RestType
<1>3. OpOK'
  BY <1>1 DEF OpOK, Idle
<1>4. LiveOK' /\ LiveDistinct' /\ NoListCorruption'
  BY <1>1 DEF LiveOK, LiveDistinct, NoListCorruption, Added
<1>5. ListInv'
  BY <1>1 DEF ListInv, FreeType, FreeOK, NoRepeats, BitImpliesFree, Added
<1>6. HandTiles' = {} /\ FreeTiles' = FreeTiles /\ LiveTiles' = LiveTiles
  BY <1>1, HandTileNext DEF FreeTiles, LiveTiles
<1>7. TilesApart'
  BY <1>6 DEF TilesApart, AllApart, Tiles
<1> QED BY <1>2, <1>3, <1>4, <1>5, <1>7, Reassemble

\* Every tile lies in the usable part of a region of the table.
LEMMA TileInside ==
  ASSUME Inv, NEW t \in Tiles
  PROVE  \E s \in Added : Inside(t, s)
<1> USE Parts
<1>1. CASE t \in FreeTiles
  <2>1. PICK r \in Ranges, k \in Orders : \E p \in ToSet(free[r][k]) : t = FTile(p, k)
    BY <1>1, FreeTile DEF FreeTiles
  <2>2. PICK p \in ToSet(free[r][k]) : t = FTile(p, k)
    BY <2>1
  <2>3. r \in Added /\ Block(r, p, k)
    BY DEF ListInv, FreeOK
  <2> QED BY <2>2, <2>3 DEF Inside, Block, FTile
<1>2. CASE t \in LiveTiles
  <2>1. PICK b \in live : t = [own |-> "live", page |-> b.page, size |-> 2^b.order]
    BY <1>2 DEF LiveTiles
  <2>2. PICK s \in Added : Block(s, b.page, b.order)
    BY DEF LiveOK
  <2> QED BY <2>1, <2>2 DEF Inside, Block
<1>3. CASE t \in HandTiles
  <2>1. CASE op.pc = "split"
    BY <1>3, <2>1, HandTile DEF OpOK, Inside, Block
  <2>2. CASE op.pc = "merge"
    <3>1. /\ op.r \in Added /\ op.r \in Ranges /\ op.pfn \in Int /\ 0 <= op.pfn
          /\ mbase(op.r) + op.pfn + 2^op.ord <= End(op.r)
      BY <2>2, OpKind DEF OpOK, MergeOps
    <3>2. mbase(op.r) <= mbase(op.r) + op.pfn
      BY <3>1, Layout
    <3> QED BY <1>3, <2>2, <3>1, <3>2, HandTile DEF Inside
  <2>3. CASE op.pc = "range"
    BY <1>3, <2>3, HandTile DEF OpOK, Inside
  <2>4. CASE op.pc \notin {"split", "merge", "range"}
    BY <1>3, <2>4 DEF HandTiles
  <2> QED BY <2>1, <2>2, <2>3, <2>4
<1> QED BY <1>1, <1>2, <1>3 DEF Tiles

\* A new region touches no tile of the others.
LEMMA DonateKeepsInv ==
  ASSUME Inv, NEW r \in Ranges, DonateRange(r)
  PROVE  Inv'
<1> USE Parts
<1>1. /\ free' = free /\ bit' = bit /\ live' = live /\ op = Idle /\ r \notin Added
      /\ kbud_add_region(r) /\ fault = "none"
  BY DEF DonateRange, Running
<1>2. CASE region_count = AllOnes
  <2>1. /\ regions' = regions /\ region_count' = region_count /\ op' = Idle
        /\ fault' = "walked past regions[]"
    BY <1>1, <1>2 DEF kbud_add_region
  <2>2. RestType' /\ NoListCorruption'
    BY <1>1, <2>1 DEF RestType, NoListCorruption
  <2>3. OpOK'
    BY <2>1 DEF OpOK, Idle
  <2>4. LiveOK' /\ LiveDistinct'
    BY <1>1, <2>1 DEF LiveOK, LiveDistinct, Added
  <2>5. ListInv'
    BY <1>1, <2>1 DEF ListInv, FreeType, FreeOK, NoRepeats, BitImpliesFree, Added
  <2>6. HandTiles' = {} /\ FreeTiles' = FreeTiles /\ LiveTiles' = LiveTiles
    BY <1>1, <2>1, HandTileNext DEF FreeTiles, LiveTiles
  <2>7. TilesApart'
    BY <2>6 DEF TilesApart, AllApart, Tiles
  <2> QED BY <2>2, <2>3, <2>4, <2>5, <2>7, Reassemble
<1>3. CASE region_count # AllOnes
  <2> DEFINE y == [own |-> "hand", page |-> mbase(r), size |-> total_pages(r)]
  <2>1. regions' \in Seq(Ranges) /\ Added' = Added \cup {r}
    <3>1. PICK i \in 1 .. Len(regions) + 1 : regions' = InsertAt(regions, i, r)
      BY <1>1, <1>3 DEF kbud_add_region
    <3>2. regions \in Seq(Ranges)
      BY DEF RestType
    <3> QED BY <3>1, <3>2, InsertList DEF Added
  <2>2. region_count' \in Nat \cup {AllOnes}
    <3>1. region_count' = CountAfterAdd /\ region_count \in Nat
      BY <1>1, <1>3 DEF kbud_add_region, RestType
    <3> QED BY <3>1 DEF CountAfterAdd
  <2>3. mbase(r) \in Int /\ End(r) \in Int /\ total_pages(r) = End(r) - mbase(r)
        /\ r.base \in Nat /\ r.len \in Nat /\ r.base < mbase(r) /\ End(r) = r.base + r.len
    BY Layout DEF End
  <2>4. /\ RestType' /\ NoListCorruption' /\ OpOK' /\ HandTiles' \subseteq {y}
        /\ HandTiles' = {} \/ total_pages(r) \in Nat
    <3>1. CASE Useless(r)
      <4>1. op' = Idle /\ fault' = "wrote through the header of an invalid region"
        BY <1>1, <1>3, <3>1 DEF kbud_add_region
      <4>2. RestType' /\ NoListCorruption'
        BY <1>1, <2>1, <2>2, <4>1 DEF RestType, NoListCorruption
      <4>3. OpOK'
        BY <4>1 DEF OpOK, Idle
      <4> QED BY <4>1, <4>2, <4>3, HandTileNext
    <3>2. CASE ~Useless(r)
      <4>1. /\ fault' = fault
            /\ op' = [pc |-> "range", r |-> r, page |-> mbase(r), size |-> total_pages(r)]
        BY <1>1, <1>3, <3>2 DEF kbud_add_region
      <4>2. total_pages(r) \in Nat /\ mbase(r) + total_pages(r) <= End(r)
        BY <2>3, <3>2 DEF Useless
      <4>3. /\ op' \in RangeOps /\ op'.pc = "range" /\ op'.r = r /\ op'.page = mbase(r)
            /\ op'.size = total_pages(r)
        BY <4>1, <4>2, <2>3 DEF RangeOps
      <4>4. RestType' /\ NoListCorruption'
        BY <1>1, <2>1, <2>2, <4>1, <4>3 DEF RestType, NoListCorruption
      <4>5. OpOK'
        BY <2>1, <2>3, <4>2, <4>3 DEF OpOK
      <4>6. HandTiles' = {y}
        BY <4>3, HandTileNext
      <4> QED BY <4>2, <4>4, <4>5, <4>6
    <3> QED BY <3>1, <3>2
  <2>5. LiveOK' /\ LiveDistinct'
    BY <1>1, <2>1 DEF LiveOK, LiveDistinct
  <2>6. ListInv'
    <3>1. FreeOK'
      BY <1>1, <2>1 DEF ListInv, FreeOK
    <3> QED BY <1>1, <3>1 DEF ListInv, FreeType, NoRepeats, BitImpliesFree
  <2>7. HandTiles = {} /\ FreeTiles' = FreeTiles /\ LiveTiles' = LiveTiles
    BY <1>1, HandTile DEF FreeTiles, LiveTiles
  <2>8. ASSUME NEW t \in Tiles
        PROVE  Apart(y, t)
    <3>1. PICK s \in Added : Inside(t, s)
      BY <2>8, TileInside
    <3>2. s \in Ranges /\ s # r
      BY <1>1, AddedRange
    <3>3. /\ s.base \in Nat /\ s.len \in Nat /\ mbase(s) \in Int /\ s.base < mbase(s)
          /\ End(s) = s.base + s.len
      BY <3>2, Layout DEF End
    <3>4. t.page \in Int /\ t.size \in Nat
      BY TileBounds
    <3>5. r.base + r.len <= s.base \/ s.base + s.len <= r.base
      BY <3>2, RangesAssumption
    <3>6. mbase(s) <= t.page /\ t.page + t.size <= End(s)
      BY <3>1 DEF Inside
    <3>7. y.page = mbase(r) /\ y.size = End(r) - mbase(r)
      BY <2>3
    <3> HIDE DEF y
    <3> QED BY <2>3, <3>3, <3>4, <3>5, <3>6, <3>7 DEF Apart
  <2>9. \A u \in Tiles' : u = y \/ u \in Tiles
    BY <2>4, <2>7 DEF Tiles
  <2>10. TilesApart'
    <3>1. \A a, b : Apart(a, b) => Apart(b, a)
      BY DEF Apart
    <3> HIDE DEF y
    <3> QED BY <2>8, <2>9, <3>1 DEF TilesApart, AllApart
  <2> QED BY <2>4, <2>5, <2>6, <2>10, Reassemble
<1> QED BY <1>2, <1>3

-----------------------------------------------------------------------------
(***************************************************************************)
(* The results.                                                            *)
(***************************************************************************)

\* kbud_alloc() and kbud_alloc_range() keep the invariant.
LEMMA AllocateKeepsInv ==
  ASSUME Inv, op = Idle, NEW req \in Orders, NEW n \in Nat, n <= 2^req, Allocate(req, n)
  PROVE  Inv'
<1>1. CASE Refuse(req)
  BY <1>1, NothingMoves DEF Refuse
<1>2. CASE \E i \in DOMAIN regions : \E o \in Orders : Take(regions[i], req, o, n)
  <2>1. PICK i \in DOMAIN regions : \E o \in Orders : Take(regions[i], req, o, n)
    BY <1>2
  <2>2. PICK o \in Orders : Take(regions[i], req, o, n)
    BY <2>1
  <2>3. regions[i] \in Added
    BY DEF Added, ToSet
  <2> QED BY <2>2, <2>3, TakeKeepsInv
<1> QED BY <1>1, <1>2 DEF Allocate

LEMMA InitInv == Init => Inv
<1> SUFFICES ASSUME Init
             PROVE  Inv
  OBVIOUS
<1>1. /\ regions = <<>> /\ region_count = 0 /\ op = Idle /\ live = {} /\ fault = "none"
      /\ free = [r \in Ranges |-> [k \in Orders |-> <<>>]]
      /\ bit = [r \in Ranges |-> [k \in Orders |-> {}]]
  BY DEF Init
<1>2. \A r \in Ranges, k \in Orders : free[r][k] = <<>> /\ bit[r][k] = {}
  BY <1>1
<1>3. <<>> \in Seq(Int) /\ ToSet(<<>>) = {} /\ IsInjective(<<>>)
  BY DEF ToSet, IsInjective
<1>4. \A r \in Ranges, k \in Orders : ToSet(free[r][k]) = {} /\ IsInjective(free[r][k])
  BY <1>2, <1>3
<1>5. TypeOK
  BY <1>1, <1>3 DEF TypeOK
<1>6. Tiles = {}
  <2>1. FreeTiles = {}
    BY <1>4, FreeTile DEF FreeTiles
  <2>2. LiveTiles = {} /\ HandTiles = {}
    BY <1>1, HandTile DEF LiveTiles
  <2> QED BY <2>1, <2>2 DEF Tiles
<1>7. FreeOK /\ BitImpliesFree
  BY <1>2, <1>4 DEF FreeOK, BitImpliesFree
<1>8. LiveOK /\ NoListCorruption
  BY <1>1 DEF LiveOK, NoListCorruption
<1>9. OpOK
  BY <1>1 DEF OpOK, Idle
<1>10. NoOverlap
  BY <1>1, <1>4, <1>6 DEF NoOverlap
<1> QED BY <1>5, <1>7, <1>8, <1>9, <1>10 DEF Inv

LEMMA NextInv ==
  ASSUME SafeUse, Inv, [Next]_vars
  PROVE  Inv'
<1>1. CASE UNCHANGED vars
  BY <1>1, NothingMoves DEF vars
<1>2. ASSUME NEW req \in Orders, kbud_alloc(req)
      PROVE  Inv'
  <2>1. 2^req \in Nat /\ 2^req <= 2^req
    BY Powers
  <2>2. op = Idle /\ Allocate(req, 2^req)
    BY <1>2 DEF kbud_alloc, Running
  <2> QED BY <2>1, <2>2, AllocateKeepsInv
<1>3. ASSUME NEW n \in RangePages, kbud_alloc_range(n)
      PROVE  Inv'
  <2>1. n \in Nat /\ op = Idle
    BY <1>3, CallsAssumption DEF kbud_alloc_range, Running
  <2>2. CASE UNCHANGED vars
    BY <2>2, <1>1
  <2>3. CASE \E req \in Orders : kbud_byte_order(n, req) /\ Allocate(req, n)
    <3>1. PICK req \in Orders : kbud_byte_order(n, req) /\ Allocate(req, n)
      BY <2>3
    <3>2. n <= 2^req
      BY <3>1 DEF kbud_byte_order
    <3> QED BY <2>1, <3>1, <3>2, AllocateKeepsInv
  <2> QED BY <2>2, <2>3, <1>3 DEF kbud_alloc_range
<1>4. ASSUME NEW b \in live, kbud_free(b) \/ kbud_free_range(b)
      PROVE  Inv'
  BY <1>4, FreeKeepsInv, FreeRangeKeepsInv
<1>5. ASSUME NEW r \in Ranges, DonateRange(r)
      PROVE  Inv'
  BY <1>5, DonateKeepsInv
<1>6. ASSUME LoopStep
      PROVE  Inv'
  BY <1>6, SplitKeepsInv, AllocReturnsKeepsInv, MergeKeepsInv, FreeReturnsKeepsInv,
     CarveKeepsInv, RangeReturnsKeepsInv DEF LoopStep
<1> QED BY <1>1, <1>2, <1>3, <1>4, <1>5, <1>6 DEF Next, ClientCall

\* Where no client uses kbud_free, or mbase of every region is a multiple of
\* its largest block, every state satisfies the inductive invariant.
THEOREM Invariance == ASSUME SafeUse PROVE Spec => []Inv
<1>1. Init => Inv
  BY InitInv
<1>2. Inv /\ [Next]_vars => Inv'
  BY NextInv
<1> QED BY <1>1, <1>2, PTL DEF Spec

\* No page is in two hands: kbud_alloc returns memory nobody holds, and the
\* free lists hold no block twice.
THEOREM Exclusive == ASSUME SafeUse PROVE Spec => []NoOverlap
<1>1. Inv => NoOverlap
  BY DEF Inv
<1> QED BY <1>1, Invariance, PTL

\* Nothing handed out or listed reaches a region's header or leaves the region.
THEOREM Bounded == ASSUME SafeUse PROVE Spec => []InBounds
<1>1. Inv => InBounds
  BY TileInside DEF InBounds
<1> QED BY <1>1, Invariance, PTL

\* kbud_pop always finds the buddy that kbud_free sends it for.
THEOREM PopFindsBuddy == ASSUME SafeUse PROVE Spec => []NoListCorruption
<1>1. Inv => NoListCorruption
  BY DEF Inv
<1> QED BY <1>1, Invariance, PTL

-----------------------------------------------------------------------------
(***************************************************************************)
(* The allocator implements PageAllocator.                                 *)
(***************************************************************************)

\* A block of a region of the table is made of managed pages.
LEMMA BlockManaged ==
  ASSUME NEW r \in Added, r \in Ranges, NEW p \in Int, NEW k \in Orders, Block(r, p, k)
  PROVE  p .. p + 2^k - 1 \subseteq Managed
<1>1. mbase(r) <= p /\ p + 2^k <= End(r) /\ mbase(r) \in Int /\ End(r) \in Int
  BY Layout DEF Block
<1>2. 2^k \in Int
  BY Powers
<1>3. p .. p + 2^k - 1 \subseteq mbase(r) .. End(r) - 1
  BY <1>1, <1>2
<1> QED BY <1>3 DEF Managed

\* Tiles that keep off each other share no page.
LEMMA DisjointPages ==
  ASSUME NEW p \in Int, NEW w \in Int, NEW q \in Int, NEW v \in Int, p + w <= q \/ q + v <= p
  PROVE  (p .. p + w - 1) \cap (q .. q + v - 1) = {}
OBVIOUS

\* The block kbud_alloc returns shares no page with a block in use.
LEMMA ReturnIsAlloc ==
  ASSUME Inv, AllocReturns
  PROVE  [Promise!Next]_<<Managed, live>>
<1> USE Parts
<1> DEFINE b == [page |-> op.page, order |-> op.ord, n |-> op.n]
<1>1. op \in SplitOps /\ op.pc = "split"
  BY OpKind DEF AllocReturns
<1>2. /\ op.r \in Added /\ Block(op.r, op.page, op.ord) /\ op.n <= 2^op.ord
      /\ op.page \in Int /\ op.ord \in Orders /\ op.n \in Nat /\ op.r \in Ranges
  BY <1>1 DEF OpOK, SplitOps, AllocReturns
<1>3. live' = live \cup {b} /\ Managed' = Managed
  BY DEF AllocReturns, Managed, Added
<1>4. Promise!Pages(b) = op.page .. op.page + 2^op.ord - 1
  BY DEF Promise!Pages
<1>5. Promise!Pages(b) \subseteq Managed
  BY <1>2, <1>4, BlockManaged
<1>6. ASSUME NEW c \in live
      PROVE  Promise!Pages(b) \cap Promise!Pages(c) = {}
  <2> DEFINE t == [own |-> "live", page |-> c.page, size |-> 2^c.order]
             z == [own |-> "hand", page |-> op.page, size |-> 2^op.ord]
  <2>1. z \in Tiles /\ t \in Tiles /\ z # t
    BY <1>1, HandTile DEF Tiles, LiveTiles
  <2>2. Apart(z, t)
    BY <2>1 DEF TilesApart, AllApart
  <2>3. c.page \in Int /\ c.order \in Orders
    BY DEF RestType
  <2>4. 2^c.order \in Nat /\ 2^op.ord \in Nat
    BY <1>2, <2>3, Powers
  <2>5. op.page + 2^op.ord <= c.page \/ c.page + 2^c.order <= op.page
    BY <2>2 DEF Apart
  <2>6. Promise!Pages(c) = c.page .. c.page + 2^c.order - 1
    BY DEF Promise!Pages
  <2>7. (op.page .. op.page + 2^op.ord - 1) \cap (c.page .. c.page + 2^c.order - 1) = {}
    BY <1>2, <2>3, <2>4, <2>5, DisjointPages
  <2> QED BY <1>4, <2>6, <2>7
<1>7. CASE b \in live
  BY <1>3, <1>7
<1>8. CASE b \notin live
  <2>1. b.n <= 2^b.order /\ b.page % 2^b.order = 0 /\ b \in live' \ live
    BY <1>2, <1>3, <1>8 DEF Block
  <2> HIDE DEF b
  <2>2. Promise!Alloc(b)
    BY <1>3, <1>5, <1>6, <2>1 DEF Promise!Alloc
  <2> QED BY <2>1, <2>2 DEF Promise!Next
<1> QED BY <1>7, <1>8

\* A step of the allocator is a step its callers may see, or none.
LEMMA PromiseStep ==
  ASSUME Inv, [Next]_vars
  PROVE  [Promise!Next]_<<Managed, live>>
<1>1. CASE AllocReturns
  BY <1>1, ReturnIsAlloc
<1>2. CASE UNCHANGED <<regions, live>>
  BY <1>2 DEF Managed, Added
<1>3. ASSUME NEW b \in live, kbud_free(b) \/ kbud_free_range(b)
      PROVE  [Promise!Next]_<<Managed, live>>
  <2>1. live' = live \ {b} /\ Managed' = Managed
    BY <1>3 DEF kbud_free, kbud_free_range, Managed, Added
  <2> QED BY <2>1 DEF Promise!Next, Promise!Release
<1>4. ASSUME NEW r \in Ranges, DonateRange(r)
      PROVE  [Promise!Next]_<<Managed, live>>
  <2>1. live' = live
    BY <1>4 DEF DonateRange
  <2>2. Added \subseteq Added'
    <3>1. CASE regions' = regions
      BY <3>1 DEF Added
    <3>2. CASE regions' # regions
      <4>1. PICK i \in 1 .. Len(regions) + 1 : regions' = InsertAt(regions, i, r)
        BY <1>4, <3>2 DEF DonateRange, kbud_add_region
      <4>2. regions \in Seq(Ranges)
        BY DEF Inv, TypeOK
      <4> QED BY <4>1, <4>2, InsertList DEF Added
    <3> QED BY <3>1, <3>2
  <2>3. Managed \subseteq Managed'
    BY <2>2 DEF Managed
  <2> QED BY <2>1, <2>3 DEF Promise!Next, Promise!Grow
<1>5. ASSUME Next
      PROVE  \/ AllocReturns \/ UNCHANGED <<regions, live>>
             \/ \E b \in live : kbud_free(b) \/ kbud_free_range(b)
             \/ \E r \in Ranges : DonateRange(r)
  <2>1. \A req, n : Allocate(req, n) => UNCHANGED <<regions, live>>
    BY DEF Allocate, Take, Refuse
  <2>2. \A req : kbud_alloc(req) => UNCHANGED <<regions, live>>
    BY <2>1 DEF kbud_alloc
  <2>3. \A n : kbud_alloc_range(n) => UNCHANGED <<regions, live>>
    BY <2>1 DEF kbud_alloc_range, vars
  <2>4. Split \/ Merge \/ FreeReturns \/ CarveBlock \/ RangeReturns => UNCHANGED <<regions, live>>
    BY DEF Split, Merge, FreeReturns, CarveBlock, RangeReturns
  <2> QED BY <1>5, <2>2, <2>3, <2>4 DEF Next, ClientCall, LoopStep
<1> QED BY <1>1, <1>2, <1>3, <1>4, <1>5 DEF vars

\* The allocator keeps what its callers rely on: it hands out its own pages,
\* in aligned blocks, and no page twice.
THEOREM Refinement == ASSUME SafeUse PROVE Spec => KeepsPromise
<1>1. Init => Promise!Init
  BY DEF Init, Promise!Init, Managed, Added, ToSet
<1>2. Inv /\ [Next]_vars => [Promise!Next]_<<Managed, live>>
  BY PromiseStep
<1> QED BY <1>1, <1>2, Invariance, PTL DEF Spec, KeepsPromise, Promise!Spec

-----------------------------------------------------------------------------
(***************************************************************************)
(* What holds for EVERY memory map and every use of the calls, the         *)
(* unaligned regions included for which NoOverlap fails: every listed      *)
(* block can be popped again, no pair bit is stale, the region table stays *)
(* sorted, and a request is refused only if no region can serve it.        *)
(***************************************************************************)

\* A block is pushed only where a later pop will find its bit.
FreeChecked ==
  \A r \in Ranges, k \in Orders : \A p \in ToSet(free[r][k]) :
    buddy_bit_chk(r, kbud_pfnum(r, p), k)

SoundLists == FreeType /\ FreeChecked /\ BitImpliesFree

\* Together inductive, with no assumption on the regions' alignment.
Sound == RestType /\ SoundLists /\ TableSorted

-----------------------------------------------------------------------------
(***************************************************************************)
(* The list operations.                                                    *)
(***************************************************************************)

\* Pushing a block, or refusing it.
LEMMA PushSound ==
  ASSUME SoundLists, NEW r \in Ranges, NEW page \in Int, NEW k \in 0 .. PFRAME_MAX_ORDER,
         kbud_push(r, page, k)
  PROVE  SoundLists'
<1> DEFINE pfn == kbud_pfnum(r, page)
           x == kbud_pair_idx(pfn, k)
<1>1. CASE ~buddy_bit_chk(r, pfn, k)
  <2>1. free' = free /\ bit' = bit
    BY <1>1 DEF kbud_push
  <2> QED BY <2>1 DEF SoundLists, FreeType, FreeChecked, BitImpliesFree
<1>2. CASE buddy_bit_chk(r, pfn, k)
  <2>1. /\ free' = [free EXCEPT ![r][k] = Cons(page, @)]
        /\ bit' = [bit EXCEPT ![r][k] = @ \cup {x}]
    BY <1>2 DEF kbud_push
  <2>2. k \in Orders
    BY <1>2, Layout, OrderAssumption DEF buddy_bit_chk, Orders
  <2>3. free[r][k] \in Seq(Int)
    BY <2>2 DEF SoundLists, FreeType
  <2> DEFINE s == Cons(page, free[r][k])
  <2>4. s \in Seq(Int) /\ ToSet(s) = {page} \cup ToSet(free[r][k])
    BY <2>3, ConsList
  <2> HIDE DEF s
  <2>5. /\ free' \in [Ranges -> [Orders -> Seq(Int)]]
        /\ \A q \in Ranges, j \in Orders :
             free'[q][j] = IF q = r /\ j = k THEN s ELSE free[q][j]
    BY <2>1, <2>2, <2>4 DEF SoundLists, FreeType, s
  <2>6. x \in Int
    <3>1. pfn \in Int /\ 2^(k + 1) \in Nat \ {0}
      BY <2>2, Layout, Powers DEF kbud_pfnum
    <3> HIDE DEF pfn
    <3> QED BY <3>1, DivMod DEF kbud_pair_idx
  <2> HIDE DEF x, pfn
  <2>7. /\ bit' \in [Ranges -> [Orders -> SUBSET Int]]
        /\ \A q \in Ranges, j \in Orders :
             bit'[q][j] = IF q = r /\ j = k THEN bit[q][j] \cup {x} ELSE bit[q][j]
    BY <2>1, <2>2, <2>6 DEF SoundLists, FreeType
  <2>8. \A q \in Ranges, j \in Orders :
          ToSet(free'[q][j]) = IF q = r /\ j = k THEN {page} \cup ToSet(free[q][j])
                                                 ELSE ToSet(free[q][j])
    BY <2>4, <2>5
  <2>9. FreeChecked'
    BY <1>2, <2>8 DEF SoundLists, FreeChecked, pfn
  <2>10. BitImpliesFree'
    <3> SUFFICES ASSUME NEW q \in Ranges, NEW j \in Orders, NEW y \in bit'[q][j]
                 PROVE  \E p \in ToSet(free'[q][j]) : kbud_pair_idx(kbud_pfnum(q, p), j) = y
      BY DEF BitImpliesFree
    <3>1. CASE y \in bit[q][j]
      <4>1. PICK p \in ToSet(free[q][j]) : kbud_pair_idx(kbud_pfnum(q, p), j) = y
        BY <3>1 DEF SoundLists, BitImpliesFree
      <4>2. p \in ToSet(free'[q][j])
        BY <2>8
      <4> QED BY <4>1, <4>2
    <3>2. CASE q = r /\ j = k /\ y = x
      BY <3>2, <2>8 DEF x, pfn
    <3> QED BY <3>1, <3>2, <2>7
  <2> QED BY <2>5, <2>7, <2>9, <2>10 DEF SoundLists, FreeType
<1> QED BY <1>1, <1>2

\* The list becomes s, which lost at most page h, and the pair's bit is clear.
Loses(r, k, h, s) ==
  /\ ToSet(s) \subseteq ToSet(free[r][k])
  /\ \A p \in ToSet(free[r][k]) : p # h => p \in ToSet(s)
  /\ free' = [free EXCEPT ![r][k] = s]
  /\ bit' = [bit EXCEPT ![r][k] = @ \ {kbud_pair_idx(kbud_pfnum(r, h), k)}]

\* Taking page h off a list, if it is there.
LEMMA UnlinkSound ==
  ASSUME SoundLists, NEW r \in Ranges, NEW k \in Orders, NEW h, NEW s \in Seq(Int),
         Loses(r, k, h, s)
  PROVE  SoundLists'
<1> DEFINE x == kbud_pair_idx(kbud_pfnum(r, h), k)
<1>1. /\ free' \in [Ranges -> [Orders -> Seq(Int)]]
      /\ \A q \in Ranges, j \in Orders : free'[q][j] = IF q = r /\ j = k THEN s ELSE free[q][j]
  BY DEF SoundLists, FreeType, Loses
<1>2. bit' = [bit EXCEPT ![r][k] = @ \ {x}]
  BY DEF Loses
<1>3. x = kbud_pair_idx(kbud_pfnum(r, h), k)
  OBVIOUS
<1> HIDE DEF x
<1>4. /\ bit' \in [Ranges -> [Orders -> SUBSET Int]]
      /\ \A q \in Ranges, j \in Orders :
           bit'[q][j] = IF q = r /\ j = k THEN bit[q][j] \ {x} ELSE bit[q][j]
  BY <1>2 DEF SoundLists, FreeType
<1>5. \A q \in Ranges, j \in Orders : ToSet(free'[q][j]) \subseteq ToSet(free[q][j])
  BY <1>1 DEF Loses
<1>6. FreeChecked'
  BY <1>5 DEF SoundLists, FreeChecked
<1>7. BitImpliesFree'
  <2> SUFFICES ASSUME NEW q \in Ranges, NEW j \in Orders, NEW y \in bit'[q][j]
               PROVE  \E p \in ToSet(free'[q][j]) : kbud_pair_idx(kbud_pfnum(q, p), j) = y
    BY DEF BitImpliesFree
  <2>1. y \in bit[q][j]
    BY <1>4
  <2>2. PICK p \in ToSet(free[q][j]) : kbud_pair_idx(kbud_pfnum(q, p), j) = y
    BY <2>1 DEF SoundLists, BitImpliesFree
  <2>3. q = r /\ j = k => y # x
    BY <1>4
  <2>4. p \in ToSet(free'[q][j])
    BY <2>2, <2>3, <1>1, <1>3 DEF Loses
  <2> QED BY <2>2, <2>4
<1> QED BY <1>1, <1>4, <1>6, <1>7 DEF SoundLists, FreeType

-----------------------------------------------------------------------------
(***************************************************************************)
(* The steps that change the lists.                                        *)
(***************************************************************************)

\* kbud_pop_head() on a list whose head can be popped.
LEMMA TakeSound ==
  ASSUME Sound, NEW r \in Added, NEW req \in Orders, NEW o \in Orders, NEW n \in Nat,
         Take(r, req, o, n)
  PROVE  SoundLists' /\ RestType'
<1>1. r \in Ranges
  BY AddedRange DEF Sound
<1>2. free[r][o] \in Seq(Int) /\ free[r][o] # <<>>
  BY <1>1 DEF Sound, SoundLists, FreeType, Take, Serves, HeadPops
<1> DEFINE h == Head(free[r][o])
           s == Tail(free[r][o])
<1>3. /\ h \in Int /\ s \in Seq(Int) /\ ToSet(s) \subseteq ToSet(free[r][o])
      /\ \A p \in ToSet(free[r][o]) : p # h => p \in ToSet(s)
  BY <1>2, TailKeeps
<1>4. /\ free' = [free EXCEPT ![r][o] = s]
      /\ bit' = [bit EXCEPT ![r][o] = @ \ {kbud_pair_idx(kbud_pfnum(r, h), o)}]
  BY <1>1 DEF Take, kbud_pop_head, Sound, SoundLists, FreeType
<1>5. op' = [pc |-> "split", r |-> r, page |-> h, ord |-> o, req |-> req, n |-> n]
  BY DEF Take
<1> HIDE DEF h, s
<1>6. SoundLists'
  BY <1>1, <1>3, <1>4, UnlinkSound DEF Sound, Loses
<1>7. op' \in SplitOps
  BY <1>1, <1>3, <1>5 DEF SplitOps
<1> QED BY <1>6, <1>7 DEF Take, Sound, RestType

LEMMA AllocateSound ==
  ASSUME Sound, NEW req \in Orders, NEW n \in Nat, Allocate(req, n)
  PROVE  SoundLists' /\ RestType' /\ regions' = regions
<1>1. CASE Refuse(req)
  <2>1. /\ free' = free /\ bit' = bit /\ regions' = regions /\ region_count' = region_count
        /\ op' = op /\ live' = live /\ fault' \in {"none", "walked past regions[]"}
    BY <1>1 DEF Refuse
  <2> QED BY <2>1 DEF Sound, SoundLists, FreeType, FreeChecked, BitImpliesFree, RestType
<1>2. CASE \E i \in DOMAIN regions : \E o \in Orders : Take(regions[i], req, o, n)
  <2>1. PICK i \in DOMAIN regions : \E o \in Orders : Take(regions[i], req, o, n)
    BY <1>2
  <2>2. PICK o \in Orders : Take(regions[i], req, o, n)
    BY <2>1
  <2>3. regions[i] \in Added
    BY DEF Added, ToSet
  <2> QED BY <2>2, <2>3, TakeSound DEF Take
<1> QED BY <1>1, <1>2 DEF Allocate

\* One round of the split loop.
LEMMA SplitSound ==
  ASSUME Sound, Split
  PROVE  SoundLists' /\ RestType' /\ regions' = regions
<1>1. op \in SplitOps /\ op.r \in Ranges /\ op.page \in Int /\ op.ord \in Orders
      /\ op.req \in Orders /\ op.ord > op.req
  BY OpKind DEF Split, Sound, SplitOps
<1>2. op.ord - 1 \in Orders
  BY <1>1, OrderAssumption DEF Orders
<1>3. Flip(op.page, op.ord - 1) \in Int
  <2> DEFINE k == op.ord - 1
  <2>1. 2^k \in Nat \ {0}
    BY <1>2, Powers
  <2> HIDE DEF k
  <2> QED BY <2>1, <1>1 DEF Flip, k
<1>4. op.ord - 1 \in 0 .. PFRAME_MAX_ORDER
  BY <1>2, OrderAssumption DEF Orders
<1>5. kbud_push(op.r, Flip(op.page, op.ord - 1), op.ord - 1)
  BY DEF Split
<1>6. SoundLists'
  BY <1>1, <1>3, <1>4, <1>5, PushSound DEF Sound
<1>7. op' \in SplitOps
  <2>1. op' = [op EXCEPT !.ord = @ - 1]
    BY DEF Split
  <2> QED BY <2>1, <1>1, <1>2 DEF SplitOps
<1> QED BY <1>6, <1>7 DEF Split, Sound, RestType

\* One round of the merge loop.
LEMMA MergeSound ==
  ASSUME Sound, Merge
  PROVE  SoundLists' /\ RestType' /\ regions' = regions
<1> DEFINE k == op.ord
           page == mbase(op.r) + Flip(op.pfn, op.ord)
<1>1. op \in MergeOps /\ op.r \in Ranges /\ op.pfn \in Int /\ k \in 0 .. PFRAME_MAX_ORDER
  BY OpKind DEF Merge, Sound, MergeOps
<1>2. k < PFRAME_MAX_ORDER - 1
  BY DEF Merge, Mergeable
<1>3. k \in Orders /\ k + 1 \in 0 .. PFRAME_MAX_ORDER
  BY <1>1, <1>2, OrderAssumption DEF Orders
<1>4. /\ regions' = regions /\ region_count' = region_count /\ live' = live
  BY DEF Merge
<1>5. CASE /\ kbud_pop(op.r, page, k)
           /\ op' = [op EXCEPT !.pfn = ClearBit(@, op.ord), !.ord = @ + 1]
           /\ fault' = fault
  <2> DEFINE s == RemoveFirst(free[op.r][k], page)
  <2>1. free[op.r][k] \in Seq(Int)
    BY <1>1, <1>3 DEF Sound, SoundLists, FreeType
  <2>2. /\ s \in Seq(Int) /\ ToSet(s) \subseteq ToSet(free[op.r][k])
        /\ \A p \in ToSet(free[op.r][k]) : p # page => p \in ToSet(s)
    BY <2>1, RemoveKeeps
  <2>3. /\ free' = [free EXCEPT ![op.r][k] = s]
        /\ bit' = [bit EXCEPT ![op.r][k] = @ \ {kbud_pair_idx(kbud_pfnum(op.r, page), k)}]
    BY <1>1, <1>3, <1>5 DEF kbud_pop, Sound, SoundLists, FreeType
  <2> HIDE DEF s
  <2>4. SoundLists'
    <3> HIDE DEF page, k
    <3> QED BY <1>1, <1>3, <2>2, <2>3, UnlinkSound DEF Sound, Loses
  <2>5. ClearBit(op.pfn, k) \in Int
    <3>1. 2^k \in Nat \ {0}
      BY <1>3, Powers
    <3> HIDE DEF k
    <3> QED BY <3>1, <1>1 DEF ClearBit
  <2>6. op' \in MergeOps
    <3>1. op' = [op EXCEPT !.pfn = ClearBit(op.pfn, k), !.ord = k + 1]
      BY <1>1, <1>5 DEF MergeOps
    <3> HIDE DEF k
    <3> QED BY <3>1, <2>5, <1>1, <1>3 DEF MergeOps
  <2> QED BY <2>4, <2>6, <1>4, <1>5 DEF Sound, RestType
<1>6. CASE /\ fault' = "free addr not found in free list"
           /\ UNCHANGED <<free, bit, op>>
  BY <1>4, <1>6 DEF Sound, SoundLists, FreeType, FreeChecked, BitImpliesFree, RestType
<1> QED BY <1>4, <1>5, <1>6 DEF Merge

LEMMA FreeReturnsSound ==
  ASSUME Sound, FreeReturns
  PROVE  SoundLists' /\ RestType' /\ regions' = regions
<1>1. op \in MergeOps /\ op.r \in Ranges /\ op.pfn \in Int /\ op.ord \in 0 .. PFRAME_MAX_ORDER
  BY OpKind DEF FreeReturns, Sound, MergeOps
<1>2. mbase(op.r) + op.pfn \in Int
  BY <1>1, Layout
<1>3. kbud_push(op.r, mbase(op.r) + op.pfn, op.ord)
  BY DEF FreeReturns
<1>4. SoundLists'
  BY <1>1, <1>2, <1>3, PushSound DEF Sound
<1> QED BY <1>4 DEF FreeReturns, Sound, RestType

\* One round of the carve loop.
LEMMA CarveSound ==
  ASSUME Sound, CarveBlock
  PROVE  SoundLists' /\ RestType' /\ regions' = regions
<1>1. op \in RangeOps /\ op.r \in Ranges /\ op.page \in Int /\ op.size \in Nat
  BY OpKind DEF CarveBlock, Sound, RangeOps
<1>2. PICK k \in Orders : /\ RangeFits(op.r, op.page, op.size, k)
                          /\ kbud_push(op.r, op.page, k)
                          /\ op' = [op EXCEPT !.page = @ + 2^k, !.size = @ - 2^k]
  BY DEF CarveBlock
<1>3. k \in 0 .. PFRAME_MAX_ORDER /\ 2^k \in Nat \ {0} /\ 2^k <= op.size
  BY <1>2, Powers, OrderAssumption DEF Orders, RangeFits
<1>4. SoundLists'
  BY <1>1, <1>2, <1>3, PushSound DEF Sound
<1>5. op' \in RangeOps
  <2> DEFINE w == 2^k
  <2>1. op' = [op EXCEPT !.page = @ + w, !.size = @ - w] /\ w \in Nat /\ w <= op.size
    BY <1>2, <1>3
  <2> HIDE DEF w
  <2>2. op.page + w \in Int /\ op.size - w \in Nat
    BY <2>1, <1>1
  <2> QED BY <2>1, <2>2, <1>1 DEF RangeOps
<1> QED BY <1>4, <1>5 DEF CarveBlock, Sound, RestType

-----------------------------------------------------------------------------
(***************************************************************************)
(* The steps that leave the lists alone.                                   *)
(***************************************************************************)

\* kbud_free() and kbud_free_range() only begin their loops.
LEMMA GiveBackSound ==
  ASSUME Sound, NEW b \in live, kbud_free(b) \/ kbud_free_range(b)
  PROVE  SoundLists' /\ RestType' /\ regions' = regions
<1>1. b.page \in Int /\ b.order \in Orders /\ b.n \in Nat
  BY DEF Sound, RestType
<1>2. /\ free' = free /\ bit' = bit /\ regions' = regions /\ region_count' = region_count
      /\ live' = live \ {b} /\ fault' \in {fault, "walked past regions[]"}
  BY DEF kbud_free, kbud_free_range
<1>3. \A r \in find_valid_slave(b.page) : r \in Ranges /\ kbud_pfnum(r, b.page) \in Int
  <2> SUFFICES ASSUME NEW r \in find_valid_slave(b.page)
               PROVE  r \in Ranges /\ kbud_pfnum(r, b.page) \in Int
    OBVIOUS
  <2>1. r \in Ranges
    BY AddedRange DEF Sound, find_valid_slave, find_buddy_slave
  <2> QED BY <2>1, <1>1, Layout DEF kbud_pfnum
<1>4. op' \in {op} \cup MergeOps \cup RangeOps
  <2>1. ASSUME NEW r \in Ranges, NEW x \in Int
        PROVE  [pc |-> "merge", r |-> r, pfn |-> x, ord |-> b.order] \in MergeOps
    BY <1>1, OrderAssumption DEF MergeOps, Orders
  <2>2. ASSUME NEW r \in Ranges
        PROVE  [pc |-> "range", r |-> r, page |-> b.page, size |-> b.n] \in RangeOps
    BY <1>1 DEF RangeOps
  <2> QED BY <2>1, <2>2, <1>3 DEF kbud_free, kbud_free_range
<1> QED BY <1>2, <1>4
      DEF Sound, SoundLists, FreeType, FreeChecked, BitImpliesFree, RestType

\* The insertion of kbud_add_region() keeps the table sorted.
LEMMA DonateSound ==
  ASSUME Sound, NEW r \in Ranges, DonateRange(r)
  PROVE  Sound'
<1>1. free' = free /\ bit' = bit /\ live' = live /\ r \notin Added
  BY DEF DonateRange
<1>2. SoundLists'
  BY <1>1 DEF Sound, SoundLists, FreeType, FreeChecked, BitImpliesFree
<1>3. CASE regions' = regions /\ region_count' = region_count /\ op' = op
           /\ fault' = "walked past regions[]"
  BY <1>1, <1>2, <1>3 DEF Sound, RestType, TableSorted
<1>4. CASE /\ region_count # AllOnes
           /\ \E i \in 1 .. Len(regions) + 1 : Slot(r, i) /\ regions' = InsertAt(regions, i, r)
           /\ region_count' = CountAfterAdd
           /\ \/ fault' = "wrote through the header of an invalid region" /\ op' = op
              \/ /\ ~Useless(r)
                 /\ op' = [pc |-> "range", r |-> r, page |-> mbase(r), size |-> total_pages(r)]
                 /\ fault' = fault
  <2>1. PICK n \in 1 .. Len(regions) + 1 : Slot(r, n) /\ regions' = InsertAt(regions, n, r)
    BY <1>4
  <2> DEFINE m == Len(regions)
  <2>2. regions \in Seq(Ranges) /\ m \in Nat /\ DOMAIN regions = 1 .. m
        /\ \A i \in 1 .. m : regions[i] \in Ranges
    BY LenProperties DEF Sound, RestType
  <2>3. /\ regions' \in Seq(Ranges)
        /\ DOMAIN regions' = 1 .. m + 1
        /\ \A i \in 1 .. m + 1 :
             regions'[i] = IF i < n THEN regions[i] ELSE IF i = n THEN r ELSE regions[i - 1]
    <3> DEFINE t == InsertAt(regions, n, r)
    <3>1. /\ t \in Seq(Ranges)
          /\ DOMAIN t = 1 .. m + 1
          /\ \A i \in 1 .. m + 1 :
               t[i] = IF i < n THEN regions[i] ELSE IF i = n THEN r ELSE regions[i - 1]
      BY <2>2, InsertList
    <3>2. regions' = t
      BY <2>1
    <3> HIDE DEF t
    <3> QED BY <3>1, <3>2
  <2> HIDE DEF m
  <2>4. n \in 1 .. m + 1
    BY <2>1 DEF m
  <2>5. \A i \in 1 .. m : regions[i].base # r.base
    <3> SUFFICES ASSUME NEW i \in 1 .. m, regions[i].base = r.base
                 PROVE  FALSE
      OBVIOUS
    <3>1. regions[i] \in Ranges /\ regions[i] # r
      BY <1>1, <2>2 DEF Added, ToSet
    <3>2. r.base \in Nat /\ r.len \in Nat \ {0} /\ regions[i].len \in Nat \ {0}
      BY <3>1, RangesAssumption
    <3>3. r.base + r.len <= r.base \/ r.base + regions[i].len <= r.base
      BY <3>1, RangesAssumption
    <3> QED BY <3>2, <3>3
  <2>6. \A i \in 1 .. m : regions[i].base \in Nat
    BY <2>2, RangesAssumption
  <2>7. r.base \in Nat
    BY RangesAssumption
  <2>8. \A i, j \in 1 .. m : i < j => regions[i].base < regions[j].base
    BY <2>2 DEF Sound, TableSorted
  <2>9. \A i \in 1 .. m : i < n => regions[i].base < r.base
    <3> SUFFICES ASSUME NEW i \in 1 .. m, i < n
                 PROVE  regions[i].base < r.base
      OBVIOUS
    <3>1. n > 1 /\ n - 1 \in 1 .. m
      BY <2>2, <2>4
    <3>2. regions[n - 1].base <= r.base /\ regions[n - 1].base # r.base
      BY <2>1, <2>5, <3>1 DEF Slot
    <3>3. i < n - 1 => regions[i].base < regions[n - 1].base
      BY <2>8, <3>1
    <3>4. i < n - 1 \/ i = n - 1
      BY <2>4
    <3>5. regions[i].base \in Nat /\ regions[n - 1].base \in Nat
      BY <2>6, <3>1
    <3> QED BY <3>2, <3>3, <3>4, <3>5, <2>7
  <2>10. \A i \in 1 .. m : i >= n => r.base < regions[i].base
    <3> SUFFICES ASSUME NEW i \in 1 .. m, i >= n
                 PROVE  r.base < regions[i].base
      OBVIOUS
    <3>1. i \in n .. Len(regions)
      BY <2>4, <2>2 DEF m
    <3>2. regions[i].base > r.base
      BY <2>1, <3>1 DEF Slot
    <3> QED BY <3>2, <2>6, <2>7
  <2>11. TableSorted'
    <3> SUFFICES ASSUME NEW i \in 1 .. m + 1, NEW j \in 1 .. m + 1, i < j
                 PROVE  regions'[i].base < regions'[j].base
      BY <2>3 DEF TableSorted
    <3>1. CASE j < n
      <4>1. i \in 1 .. m /\ j \in 1 .. m /\ i < n /\ i # n /\ j # n
        BY <3>1, <2>2, <2>4
      <4>2. regions'[i] = regions[i] /\ regions'[j] = regions[j]
        BY <4>1, <3>1, <2>3
      <4> QED BY <4>1, <4>2, <2>8
    <3>2. CASE j = n
      <4>1. i \in 1 .. m /\ i < n
        BY <3>2, <2>2, <2>4
      <4>2. regions'[i] = regions[i] /\ regions'[j] = r
        BY <4>1, <3>2, <2>3
      <4> QED BY <4>1, <4>2, <2>9
    <3>3. CASE j > n
      <4>1. j - 1 \in 1 .. m /\ j - 1 >= n /\ ~(j < n) /\ j # n
        BY <3>3, <2>2, <2>4
      <4>2. regions'[j] = regions[j - 1]
        BY <4>1, <2>3
      <4>3. CASE i = n
        <5>1. regions'[i] = r
          BY <4>3, <2>3
        <5> QED BY <5>1, <4>1, <4>2, <2>10
      <4>4. CASE i < n
        <5>1. i \in 1 .. m
          BY <4>4, <2>2, <2>4
        <5>2. regions'[i] = regions[i]
          BY <4>4, <2>3
        <5>3. regions[i].base < r.base /\ r.base < regions[j - 1].base
          BY <4>1, <4>4, <5>1, <2>9, <2>10
        <5>4. regions[i].base \in Nat /\ regions[j - 1].base \in Nat
          BY <4>1, <5>1, <2>6
        <5>5. regions[i].base < regions[j - 1].base
          BY <5>3, <5>4, <2>7
        <5> QED BY <5>2, <5>5, <4>2
      <4>5. CASE i > n
        <5>1. i - 1 \in 1 .. m /\ i - 1 < j - 1 /\ ~(i < n) /\ i # n
          BY <4>5, <2>2, <2>4
        <5>2. regions'[i] = regions[i - 1]
          BY <5>1, <2>3
        <5> QED BY <5>1, <5>2, <4>1, <4>2, <2>8
      <4> QED BY <4>3, <4>4, <4>5, <2>4
    <3> QED BY <3>1, <3>2, <3>3, <2>4
  <2>12. region_count' \in Nat \cup {AllOnes}
    <3>1. region_count \in Nat
      BY <1>4 DEF Sound, RestType
    <3>2. region_count + 1 \in Nat
      BY <3>1
    <3>3. CountAfterAdd = AllOnes \/ CountAfterAdd = region_count + 1
      BY DEF CountAfterAdd
    <3>4. region_count' = CountAfterAdd
      BY <1>4
    <3> QED BY <3>2, <3>3, <3>4
  <2>13. op' \in {op} \cup RangeOps
    <3>1. ASSUME ~Useless(r)
          PROVE  [pc |-> "range", r |-> r, page |-> mbase(r), size |-> total_pages(r)] \in RangeOps
      <4>1. mbase(r) \in Int /\ total_pages(r) \in Nat
        BY <3>1, Layout DEF Useless
      <4> QED BY <4>1 DEF RangeOps
    <3> QED BY <3>1, <1>4
  <2> QED BY <1>1, <1>2, <1>4, <2>3, <2>11, <2>12, <2>13 DEF Sound, RestType
<1> QED BY <1>3, <1>4 DEF DonateRange, kbud_add_region

-----------------------------------------------------------------------------
(***************************************************************************)
(* The results.                                                            *)
(***************************************************************************)
LEMMA InitSound == Init => Sound
<1>1. Init => Inv
  BY InitInv
<1> SUFFICES ASSUME Init
             PROVE  Sound
  OBVIOUS
<1>2. RestType /\ FreeType /\ BitImpliesFree
  BY <1>1, Parts DEF ListInv
<1>3. \A r \in Ranges, k \in Orders : free[r][k] = <<>>
  BY DEF Init
<1>4. ToSet(<<>>) = {}
  BY DEF ToSet
<1>5. FreeChecked
  BY <1>3, <1>4 DEF FreeChecked
<1>6. TableSorted
  BY DEF Init, TableSorted
<1> QED BY <1>2, <1>5, <1>6 DEF Sound, SoundLists

LEMMA NextSound ==
  ASSUME Sound, [Next]_vars
  PROVE  Sound'
<1>0. ASSUME SoundLists', RestType', regions' = regions
      PROVE  Sound'
  BY <1>0 DEF Sound, TableSorted
<1>1. CASE UNCHANGED vars
  BY <1>1 DEF vars, Sound, SoundLists, FreeType, FreeChecked, BitImpliesFree, RestType,
              TableSorted
<1>2. ASSUME NEW req \in Orders, kbud_alloc(req)
      PROVE  Sound'
  <2>1. 2^req \in Nat /\ Allocate(req, 2^req)
    BY <1>2, Powers DEF kbud_alloc
  <2> QED BY <2>1, <1>0, AllocateSound
<1>3. ASSUME NEW n \in RangePages, kbud_alloc_range(n)
      PROVE  Sound'
  <2>1. n \in Nat
    BY CallsAssumption
  <2>2. CASE \E req \in Orders : Allocate(req, n)
    BY <2>1, <2>2, <1>0, AllocateSound
  <2> QED BY <2>2, <1>1, <1>3 DEF kbud_alloc_range
<1>4. ASSUME NEW b \in live, kbud_free(b) \/ kbud_free_range(b)
      PROVE  Sound'
  BY <1>4, <1>0, GiveBackSound
<1>5. ASSUME NEW r \in Ranges, DonateRange(r)
      PROVE  Sound'
  BY <1>5, DonateSound
<1>6. CASE AllocReturns
  <2>1. /\ op \in SplitOps /\ op.page \in Int /\ op.ord \in Orders /\ op.n \in Nat
    BY <1>6, OpKind DEF AllocReturns, Sound, SplitOps
  <2>2. [page |-> op.page, order |-> op.ord, n |-> op.n] \in [page : Int, order : Orders, n : Nat]
    BY <2>1
  <2>3. SoundLists' /\ regions' = regions
    BY <1>6 DEF AllocReturns, Sound, SoundLists, FreeType, FreeChecked, BitImpliesFree
  <2>4. RestType'
    BY <1>6, <2>2 DEF AllocReturns, Sound, RestType
  <2> QED BY <2>3, <2>4, <1>0
<1>7. CASE RangeReturns
  <2>1. SoundLists' /\ regions' = regions
    BY <1>7 DEF RangeReturns, Sound, SoundLists, FreeType, FreeChecked, BitImpliesFree
  <2>2. RestType'
    BY <1>7 DEF RangeReturns, Sound, RestType
  <2> QED BY <2>1, <2>2, <1>0
<1>8. CASE Split \/ Merge \/ FreeReturns \/ CarveBlock
  BY <1>8, <1>0, SplitSound, MergeSound, FreeReturnsSound, CarveSound
<1> QED BY <1>1, <1>2, <1>3, <1>4, <1>5, <1>6, <1>7, <1>8 DEF Next, ClientCall, LoopStep

\* Every state of every use of the allocator satisfies the invariant.
THEOREM AlwaysSound == Spec => []Sound
<1>1. Init => Sound
  BY InitSound
<1>2. Sound /\ [Next]_vars => Sound'
  BY NextSound
<1> QED BY <1>1, <1>2, PTL DEF Spec

\* Every variable keeps its type, whatever the regions look like.
THEOREM WellTyped == Spec => []TypeOK
<1>1. Sound => TypeOK
  BY DEF Sound, RestType, SoundLists, FreeType, TypeOK
<1> QED BY <1>1, AlwaysSound, PTL

\* A set pair bit always means that a block of that pair is on the list
\* kbud_free() will search: no operation leaves a bit behind.
THEOREM BitsNotStale == Spec => []BitImpliesFree
<1>1. Sound => BitImpliesFree
  BY DEF Sound, SoundLists
<1> QED BY <1>1, AlwaysSound, PTL

\* The insertion of kbud_add_region() keeps the table in the strict order of
\* addresses that the bisection of find_buddy_slave() needs.
THEOREM StaysSorted == Spec => []TableSorted
<1>1. Sound => TableSorted
  BY DEF Sound
<1> QED BY <1>1, AlwaysSound, PTL

\* The search of one region finds a block whenever the region lists one of
\* the order asked for or a larger one.
LEMMA SearchComplete ==
  ASSUME Sound, NEW req \in Orders, NEW r \in Added, NEW k \in Orders, req <= k,
         free[r][k] # <<>>
  PROVE  \E o \in Orders : Serves(r, req, o)
<1>1. r \in Ranges /\ max_order(r) \in Orders
  BY AddedRange, Layout DEF Sound
<1> DEFINE T == {o \in Orders : req <= o /\ free[r][o] # <<>>}
<1>2. T \subseteq Nat /\ T # {}
  BY OrderAssumption DEF Orders
<1>3. PICK o \in T : \A j \in T : o <= j
  BY <1>2, Least
<1>4. o \in Orders /\ o \in Nat /\ req <= o /\ free[r][o] # <<>> /\ free[r][o] \in Seq(Int)
  BY <1>1, <1>2, <1>3 DEF Sound, SoundLists, FreeType
<1>5. Head(free[r][o]) \in ToSet(free[r][o])
  BY <1>4, TailKeeps
<1>6. buddy_bit_chk(r, kbud_pfnum(r, Head(free[r][o])), o)
  BY <1>1, <1>4, <1>5 DEF Sound, SoundLists, FreeChecked
<1>7. o <= max_order(r)
  BY <1>6 DEF buddy_bit_chk
<1>8. ASSUME NEW j \in req .. o - 1
      PROVE  free[r][j] = <<>> /\ j < max_order(r)
  <2>1. j \in Orders /\ req <= j /\ j < o
    <3>1. o \in 0 .. PFRAME_MAX_ORDER - 1 /\ req \in 0 .. PFRAME_MAX_ORDER - 1
      BY <1>4 DEF Orders
    <3> HIDE DEF T
    <3> QED BY <3>1, OrderAssumption DEF Orders
  <2>2. j \notin T
    BY <2>1, <1>3, <1>4 DEF Orders
  <2> QED BY <2>1, <2>2, <1>1, <1>4, <1>7 DEF Orders
<1> QED BY <1>4, <1>6, <1>8 DEF Serves, StopsAt, HeadPops

\* kbud_alloc() and kbud_alloc_range() give up only if no region in the table
\* lists a block as large as the one asked for.
THEOREM NeverRefusesInVain == Spec => []AllocComplete
<1>1. Sound => AllocComplete
  <2> SUFFICES ASSUME Sound, NEW req \in Orders, NoneServes(req),
                      NEW r \in Added, NEW k \in req .. PFRAME_MAX_ORDER - 1
               PROVE  free[r][k] = <<>>
    BY DEF AllocComplete
  <2>1. k \in Orders /\ req <= k
    BY OrderAssumption DEF Orders
  <2> QED BY <2>1, SearchComplete DEF NoneServes
<1> QED BY <1>1, AlwaysSound, PTL

-----------------------------------------------------------------------------
(***************************************************************************)
(* When the page allocator loses no page, and when splitting and merging   *)
(* undo each other.  kbud_push() refuses a block without telling, so both  *)
(* need a memory map none of whose blocks is refused.                      *)
(***************************************************************************)
\* The usable part of every region begins at a multiple of its largest block.
AlignedRegions == \A r \in Ranges : mbase(r) % 2^max_order(r) = 0

\* The bitmaps have a bit for every block of a region.
BitmapsSuffice ==
  \A r \in Ranges, k \in Orders : \A p \in mbase(r) .. End(r) :
    Block(r, p, k) => buddy_bit_chk(r, kbud_pfnum(r, p), k)

\* No two blocks of a region's largest order can be merged into one that
\* kbud_push() refuses.
TopStops ==
  \A r \in Ranges :
    max_order(r) = PFRAME_MAX_ORDER - 1 \/ total_pages(r) < 2^(max_order(r) + 1)

\* The region table never fills.
RoomInTable == IsFiniteSet(Ranges) /\ Cardinality(Ranges) < PFRAME_MAX_REGIONS

\* No caller gives back by its page count what was rounded up to a block.
WholeBlocks == "kbud_free_range" \in Calls => "kbud_alloc_range" \notin Calls

LosesNothing == AlignedRegions /\ BitmapsSuffice /\ TopStops /\ RoomInTable /\ WholeBlocks

-----------------------------------------------------------------------------
(***************************************************************************)
(* The inductive invariant behind NoLeak: a page is always in some hand,   *)
(* that of the call under way included.                                    *)
(***************************************************************************)
At(t, p) == t.page <= p /\ p < t.page + t.size

Reached(p) == \E t \in Tiles : At(t, p)

Covered == \A r \in Added : \A p \in mbase(r) .. End(r) - 1 : Reached(p)

Counted == region_count = Len(regions)

Whole ==
  "kbud_free_range" \in Calls =>
    /\ \A b \in live : b.n = 2^b.order
    /\ op.pc = "split" => op.n = 2^op.req

Below == op.pc = "merge" => op.ord <= max_order(op.r)

Keeps == Inv /\ Sound /\ Counted /\ Whole /\ Below /\ Covered

(***************************************************************************)
(* The invariant behind Restores: below a region's largest order no two    *)
(* buddies are free at once, every free block has its bit, and the carve   *)
(* loop takes the largest block at every step.                             *)
(***************************************************************************)
Pair(r, p, k) == kbud_pair_idx(kbud_pfnum(r, p), k)

PairOnce ==
  \A r \in Ranges, k \in Orders : k < max_order(r) =>
    \A p, q \in ToSet(free[r][k]) : Pair(r, p, k) = Pair(r, q, k) => p = q

FreeBits ==
  \A r \in Ranges, k \in Orders : k < max_order(r) =>
    \A p \in ToSet(free[r][k]) : Pair(r, p, k) \in bit[r][k]

Carving ==
  op.pc = "range" =>
    /\ op.page + op.size = End(op.r)
    /\ \A j \in Orders, q \in 0 .. op.page - 1 :
         Block(op.r, q, j) => q + 2^j <= op.page

Merges == PairOnce /\ FreeBits /\ Carving

-----------------------------------------------------------------------------
(***************************************************************************)
(* The table: its entries are counted, and every held block is found.      *)
(***************************************************************************)

\* A sorted table repeats no region, so it has no more entries than there are
\* regions.
LEMMA TableFits ==
  ASSUME NEW tbl \in Seq(Ranges), RoomInTable,
         \A i, j \in DOMAIN tbl : i < j => tbl[i].base < tbl[j].base
  PROVE  Len(tbl) \in Nat /\ Len(tbl) < PFRAME_MAX_REGIONS
<1>1. Len(tbl) \in Nat /\ DOMAIN tbl = 1 .. Len(tbl)
      /\ \A i \in 1 .. Len(tbl) : tbl[i] \in Ranges
  BY LenProperties
<1>2. IsInjective(tbl)
  <2> SUFFICES ASSUME NEW i \in DOMAIN tbl, NEW j \in DOMAIN tbl, tbl[i] = tbl[j], i # j
               PROVE  FALSE
    BY DEF IsInjective
  <2>1. tbl[i].base < tbl[j].base \/ tbl[j].base < tbl[i].base
    BY <1>1
  <2>2. tbl[i].base \in Nat
    BY <1>1, RangesAssumption
  <2> QED BY <2>1, <2>2
<1>3. Cardinality(ToSet(tbl)) = Len(tbl)
  BY <1>1, <1>2, ListSize
<1>4. ToSet(tbl) \subseteq Ranges
  BY <1>1 DEF ToSet
<1>5. Cardinality(ToSet(tbl)) <= Cardinality(Ranges) /\ Cardinality(Ranges) \in Nat
  BY <1>4, FS_Subset, FS_CardinalityType DEF RoomInTable
<1> QED BY <1>1, <1>3, <1>5, RegionsAssumption DEF RoomInTable

\* find_valid_slave() finds the region of a block that a caller holds.
LEMMA HeldIsFound ==
  ASSUME Inv, Counted, NEW b \in live
  PROVE  find_valid_slave(b.page) # {}
<1> USE Parts
<1>1. b.page \in Int /\ b.order \in Orders
  BY DEF RestType
<1>2. PICK r \in Added : Block(r, b.page, b.order)
  BY DEF LiveOK
<1>3. r \in Ranges /\ r.base \in Nat /\ r.len \in Nat /\ End(r) = r.base + r.len
  BY AddedRange, Layout DEF End
<1>4. r.base <= b.page /\ b.page < End(r)
  BY <1>1, <1>2, <1>3, BlockInRegion
<1>5. ASSUME NEW s \in Added, s.base <= b.page
      PROVE  s.base <= r.base
  <2>1. s \in Ranges /\ s.base \in Nat /\ s.len \in Nat \ {0}
    BY AddedRange, Layout
  <2>2. s # r => r.base + r.len <= s.base \/ s.base + s.len <= r.base
    BY <2>1, <1>3, RangesAssumption
  <2> QED BY <2>1, <2>2, <1>1, <1>3, <1>4, <1>5
<1>6. region_count # AllOnes
  <2>1. Len(regions) \in Nat
    BY LenProperties DEF RestType
  <2> QED BY <2>1 DEF Counted, AllOnes
<1>7. b.page < mbase(r) + total_pages(r)
  <2>1. mbase(r) \in Int /\ End(r) \in Int /\ total_pages(r) = End(r) - mbase(r)
    BY <1>3, Layout
  <2> QED BY <2>1, <1>1, <1>4
<1>8. r \in find_valid_slave(b.page)
  BY <1>4, <1>5, <1>6, <1>7 DEF find_valid_slave, find_buddy_slave
<1> QED BY <1>8

-----------------------------------------------------------------------------
(***************************************************************************)
(* What pushing and popping keep on the lists.                             *)
(***************************************************************************)

\* A pushed block is on the list afterwards, with all that was there.
LEMMA PushLists ==
  ASSUME FreeType, BitmapsSuffice, NEW r \in Ranges, NEW k \in Orders, NEW page \in Int,
         Block(r, page, k), kbud_push(r, page, k)
  PROVE  \A q \in Ranges, j \in Orders :
           /\ \A p : p \in ToSet(free'[q][j]) <=>
                       p \in ToSet(free[q][j]) \/ (q = r /\ j = k /\ p = page)
           /\ \A x : x \in bit'[q][j] <=>
                       x \in bit[q][j] \/ (q = r /\ j = k /\ x = Pair(r, page, k))
<1>1. mbase(r) \in Int /\ End(r) \in Int /\ 2^k \in Nat \ {0}
  BY Layout, Powers
<1>2. page \in mbase(r) .. End(r)
  BY <1>1 DEF Block
<1>3. buddy_bit_chk(r, kbud_pfnum(r, page), k)
  BY <1>2 DEF BitmapsSuffice
<1> DEFINE x == Pair(r, page, k)
           s == Cons(page, free[r][k])
<1>4. /\ free' = [free EXCEPT ![r][k] = Cons(page, free[r][k])]
      /\ bit' = [bit EXCEPT ![r][k] = bit[r][k] \cup {x}]
  BY <1>3 DEF kbud_push, Pair
<1>5. free[r][k] \in Seq(Int)
  BY DEF FreeType
<1>6. ToSet(s) = {page} \cup ToSet(free[r][k])
  BY <1>5, ConsList
<1> HIDE DEF s, x
<1>7. \A q \in Ranges, j \in Orders : free'[q][j] = IF q = r /\ j = k THEN s ELSE free[q][j]
  BY <1>4 DEF FreeType, s
<1>8. \A q \in Ranges, j \in Orders :
        bit'[q][j] = IF q = r /\ j = k THEN bit[q][j] \cup {x} ELSE bit[q][j]
  BY <1>4 DEF FreeType
<1>9. ASSUME NEW q \in Ranges, NEW j \in Orders, NEW p
      PROVE  p \in ToSet(free'[q][j]) <=> p \in ToSet(free[q][j]) \/ (q = r /\ j = k /\ p = page)
  BY <1>6, <1>7
<1>10. ASSUME NEW q \in Ranges, NEW j \in Orders, NEW y
       PROVE  y \in bit'[q][j] <=> y \in bit[q][j] \/ (q = r /\ j = k /\ y = x)
  BY <1>8
<1> QED BY <1>9, <1>10 DEF x

\* A popped block is off its list, and nothing else.
LEMMA UnlinkLists ==
  ASSUME FreeType, NEW r \in Ranges, NEW k \in Orders, NEW h \in Int, NEW s \in Seq(Int),
         Unlink(r, k, h, s)
  PROVE  \A q \in Ranges, j \in Orders :
           /\ \A p : p \in ToSet(free'[q][j]) <=>
                       p \in ToSet(free[q][j]) /\ ~(q = r /\ j = k /\ p = h)
           /\ \A x : x \in bit'[q][j] <=>
                       x \in bit[q][j] /\ ~(q = r /\ j = k /\ x = Pair(r, h, k))
<1> DEFINE x == Pair(r, h, k)
<1>1. /\ free' = [free EXCEPT ![r][k] = s]
      /\ bit' = [bit EXCEPT ![r][k] = bit[r][k] \ {x}]
      /\ ToSet(s) = ToSet(free[r][k]) \ {h}
  BY DEF Unlink, Pair
<1> HIDE DEF x
<1>2. \A q \in Ranges, j \in Orders : free'[q][j] = IF q = r /\ j = k THEN s ELSE free[q][j]
  BY <1>1 DEF FreeType
<1>3. \A q \in Ranges, j \in Orders :
        bit'[q][j] = IF q = r /\ j = k THEN bit[q][j] \ {x} ELSE bit[q][j]
  BY <1>1 DEF FreeType
<1>4. ASSUME NEW q \in Ranges, NEW j \in Orders, NEW p
      PROVE  p \in ToSet(free'[q][j]) <=> p \in ToSet(free[q][j]) /\ ~(q = r /\ j = k /\ p = h)
  BY <1>1, <1>2
<1>5. ASSUME NEW q \in Ranges, NEW j \in Orders, NEW y
      PROVE  y \in bit'[q][j] <=> y \in bit[q][j] /\ ~(q = r /\ j = k /\ y = x)
  BY <1>3
<1> QED BY <1>4, <1>5 DEF x

\* What kbud_pop_head() does for a call that found a block.
LEMMA TakeUnlinks ==
  ASSUME Inv, NEW r \in Added, NEW req \in Orders, NEW o \in Orders, NEW n, Take(r, req, o, n)
  PROVE  /\ r \in Ranges /\ Tail(free[r][o]) \in Seq(Int)
         /\ Head(free[r][o]) \in Int
         /\ Head(free[r][o]) \in ToSet(free[r][o])
         /\ Unlink(r, o, Head(free[r][o]), Tail(free[r][o]))
<1> USE Parts
<1>1. r \in Ranges
  BY AddedRange
<1>2. free[r][o] # <<>>
  BY DEF Take, Serves, StopsAt, HeadPops
<1>3. free[r][o] \in Seq(Int) /\ IsInjective(free[r][o])
  BY <1>1 DEF ListInv, FreeType, NoRepeats
<1>4. /\ free' = [free EXCEPT ![r][o] = Tail(free[r][o])]
      /\ bit' = [bit EXCEPT ![r][o] = @ \ {kbud_pair_idx(kbud_pfnum(r, Head(free[r][o])), o)}]
  BY DEF Take, kbud_pop_head
<1> QED BY <1>1, <1>2, <1>3, <1>4, TailList DEF Unlink

\* What kbud_pop() does for a round of the merge loop.
LEMMA MergeUnlinks ==
  ASSUME Inv, SafeUse, Merge
  PROVE  LET r == op.r
             k == op.ord
             h == mbase(op.r) + Flip(op.pfn, op.ord)
         IN  /\ r \in Added /\ r \in Ranges /\ k \in Orders /\ h \in ToSet(free[r][k])
             /\ RemoveFirst(free[r][k], h) \in Seq(Int)
             /\ Unlink(r, k, h, RemoveFirst(free[r][k], h))
             /\ op' = [op EXCEPT !.pfn = ClearBit(op.pfn, op.ord), !.ord = op.ord + 1]
<1> USE Parts
<1> DEFINE r == op.r
           k == op.ord
           h == mbase(op.r) + Flip(op.pfn, op.ord)
<1>1. op.pc = "merge" /\ Mergeable(r, op.pfn, k)
  BY DEF Merge
<1>2. r \in Added /\ r \in Ranges /\ k \in Orders
  BY <1>1, OpKind DEF OpOK, MergeOps
<1>3. h \in ToSet(free[r][k])
  BY <1>1, BuddyListed
<1>4. /\ kbud_pop(r, h, k)
      /\ op' = [op EXCEPT !.pfn = ClearBit(op.pfn, op.ord), !.ord = op.ord + 1]
  BY <1>3 DEF Merge
<1>5. free[r][k] \in Seq(Int) /\ IsInjective(free[r][k])
  BY <1>2 DEF ListInv, FreeType, NoRepeats
<1>6. /\ free' = [free EXCEPT ![r][k] = RemoveFirst(free[r][k], h)]
      /\ bit' = [bit EXCEPT ![r][k] = @ \ {kbud_pair_idx(kbud_pfnum(r, h), k)}]
  BY <1>4 DEF kbud_pop
<1> HIDE DEF h, r, k
<1>7. /\ RemoveFirst(free[r][k], h) \in Seq(Int)
      /\ Unlink(r, k, h, RemoveFirst(free[r][k], h))
  BY <1>3, <1>5, <1>6, RemoveList DEF Unlink
<1> QED BY <1>2, <1>3, <1>4, <1>7 DEF h, r, k

-----------------------------------------------------------------------------
(***************************************************************************)
(* Every page stays in some hand.                                          *)
(***************************************************************************)

\* A page is still reached when the tiles that are gone are replaced.
LEMMA StillCovered ==
  ASSUME RestType, Covered, Added' = Added,
         \A t \in Tiles, p \in Int : At(t, p) => \E u \in Tiles' : At(u, p)
  PROVE  Covered'
<1> SUFFICES ASSUME NEW r \in Added, NEW p \in mbase(r) .. End(r) - 1
             PROVE  \E u \in Tiles' : At(u, p)
  BY DEF Covered, Reached
<1>1. mbase(r) \in Int /\ End(r) \in Int
  BY AddedRange, Layout
<1>2. p \in Int
  BY <1>1
<1>3. \E t \in Tiles : At(t, p)
  BY DEF Covered, Reached
<1> QED BY <1>2, <1>3

\* A pushed block is a free tile, and the others stay.
LEMMA PushTiles ==
  ASSUME FreeType, BitmapsSuffice, NEW r \in Ranges, NEW k \in Orders, NEW page \in Int,
         Block(r, page, k), kbud_push(r, page, k)
  PROVE  FTile(page, k) \in FreeTiles' /\ \A t \in FreeTiles : t \in FreeTiles'
<1>1. ASSUME NEW q \in Ranges, NEW j \in Orders, NEW p
      PROVE  p \in ToSet(free'[q][j]) <=> p \in ToSet(free[q][j]) \/ (q = r /\ j = k /\ p = page)
  BY PushLists
<1>2. FTile(page, k) \in TilesOfLists(free')
  BY <1>1, FreeTile
<1>3. ASSUME NEW t \in TilesOfLists(free)
      PROVE  t \in TilesOfLists(free')
  <2>1. PICK q \in Ranges, j \in Orders : \E p \in ToSet(free[q][j]) : t = FTile(p, j)
    BY FreeTile
  <2>2. PICK p \in ToSet(free[q][j]) : t = FTile(p, j)
    BY <2>1
  <2>3. p \in ToSet(free'[q][j])
    BY <1>1
  <2> QED BY <2>2, <2>3, FreeTile
<1> QED BY <1>2, <1>3 DEF FreeTiles

\* Popping takes one tile.
LEMMA UnlinkTiles ==
  ASSUME FreeType, NEW r \in Ranges, NEW k \in Orders, NEW h \in Int, NEW s \in Seq(Int),
         Unlink(r, k, h, s)
  PROVE  \A t \in FreeTiles : t = FTile(h, k) \/ t \in FreeTiles'
<1>1. ASSUME NEW q \in Ranges, NEW j \in Orders, NEW p
      PROVE  p \in ToSet(free'[q][j]) <=> p \in ToSet(free[q][j]) /\ ~(q = r /\ j = k /\ p = h)
  BY UnlinkLists
<1>2. ASSUME NEW t \in TilesOfLists(free), t # FTile(h, k)
      PROVE  t \in TilesOfLists(free')
  <2>1. PICK q \in Ranges, j \in Orders : \E p \in ToSet(free[q][j]) : t = FTile(p, j)
    BY FreeTile
  <2>2. PICK p \in ToSet(free[q][j]) : t = FTile(p, j)
    BY <2>1
  <2>3. ~(q = r /\ j = k /\ p = h)
    BY <2>2, <1>2
  <2>4. p \in ToSet(free'[q][j])
    BY <1>1, <2>3
  <2> QED BY <2>2, <2>4, FreeTile
<1> QED BY <1>2 DEF FreeTiles

\* The block that a call takes is in its hand.
LEMMA TakeCovers ==
  ASSUME Inv, Covered, op = Idle, NEW r \in Added, NEW req \in Orders, NEW o \in Orders, NEW n,
         Take(r, req, o, n)
  PROVE  Covered'
<1> USE Parts
<1> DEFINE h == Head(free[r][o])
           y == [own |-> "hand", page |-> h, size |-> 2^o]
<1>1. /\ regions' = regions /\ live' = live
      /\ op' = [pc |-> "split", r |-> r, page |-> h, ord |-> o, req |-> req, n |-> n]
  BY DEF Take
<1>2. /\ r \in Ranges /\ Tail(free[r][o]) \in Seq(Int) /\ h \in Int
      /\ Unlink(r, o, h, Tail(free[r][o]))
  BY TakeUnlinks
<1> HIDE DEF h
<1>3. \A t \in FreeTiles : t = FTile(h, o) \/ t \in FreeTiles'
  BY <1>2, UnlinkTiles DEF ListInv
<1>4. HandTiles = {} /\ HandTiles' = {y} /\ LiveTiles' = LiveTiles
  BY <1>1, HandTile, HandTileNext DEF LiveTiles
<1>5. \A p : At(FTile(h, o), p) => At(y, p)
  BY DEF At, FTile
<1> HIDE DEF y
<1>6. \A t \in Tiles, p \in Int : At(t, p) => \E u \in Tiles' : At(u, p)
  BY <1>3, <1>4, <1>5 DEF Tiles
<1> QED BY <1>1, <1>6, StillCovered DEF Added

\* Splitting leaves both halves in a hand.
LEMMA SplitCovers ==
  ASSUME Inv, BitmapsSuffice, Covered, Split
  PROVE  Covered'
<1> USE Parts
<1>1. op \in SplitOps /\ op.pc = "split"
  BY OpKind DEF Split
<1> DEFINE r == op.r
           p == op.page
           k == op.ord - 1
           z == [own |-> "hand", page |-> p, size |-> 2^op.ord]
           y == [own |-> "hand", page |-> p, size |-> 2^k]
<1>2. r \in Added /\ Block(r, p, op.ord)
  BY <1>1 DEF OpOK
<1>3. /\ op.ord \in Orders /\ p \in Int /\ r \in Ranges
      /\ k \in Orders /\ op.ord = k + 1 /\ k <= op.ord
  <2>1. op.ord \in Orders /\ op.req \in Orders /\ p \in Int /\ r \in Ranges
    BY <1>1 DEF SplitOps
  <2>2. op.ord > op.req
    BY DEF Split
  <2> QED BY <2>1, <2>2, OrderAssumption DEF Orders
<1>4. regions' = regions /\ live' = live /\ op' = [op EXCEPT !.ord = k]
      /\ kbud_push(r, Flip(p, k), k)
  BY DEF Split
<1>5. 2^op.ord = 2 * 2^k /\ 2^k \in Nat \ {0}
  BY <1>3, Powers
<1>6. /\ p % 2^op.ord = 0 /\ op.ord <= max_order(r) /\ max_order(r) \in Nat
      /\ mbase(r) <= p /\ p + 2^op.ord <= End(r)
      /\ mbase(r) \in Int /\ End(r) \in Int
  BY <1>2, <1>3, Layout DEF Block, Orders
<1>7. p % 2^k = 0
  BY <1>3, <1>6, SmallerAlignment
<1>8. Flip(p, k) = p + 2^k /\ (p + 2^k) % 2^k = 0
  BY <1>3, <1>5, <1>6, <1>7, BuddyOf
<1>9. Block(r, p + 2^k, k)
  BY <1>3, <1>5, <1>6, <1>7, <1>8 DEF Block, Orders
<1>10. op'.pc = "split" /\ op'.page = p /\ op'.ord = k
  BY <1>1, <1>3, <1>4 DEF SplitOps
<1>11. HandTiles = {z} /\ HandTiles' = {y} /\ LiveTiles' = LiveTiles
  BY <1>1, <1>4, <1>10, HandTile, HandTileNext DEF LiveTiles
<1> DEFINE x == FTile(p + 2^k, k)
<1>12. x \in FreeTiles' /\ \A t \in FreeTiles : t \in FreeTiles'
  <2>1. p + 2^k \in Int /\ kbud_push(r, p + 2^k, k)
    BY <1>3, <1>4, <1>5, <1>8
  <2> HIDE DEF r, k, p
  <2> QED BY <2>1, <1>3, <1>9, PushTiles DEF ListInv
<1>13. \A i \in Int : At(z, i) => At(y, i) \/ At(x, i)
  <2>1. /\ z.page = p /\ z.size = 2^op.ord /\ y.page = p /\ y.size = 2^k
        /\ x.page = p + 2^k /\ x.size = 2^k
    BY DEF FTile
  <2> HIDE DEF x, y, z
  <2> QED BY <2>1, <1>3, <1>5 DEF At
<1> HIDE DEF x, y, z
<1>14. \A t \in Tiles, i \in Int : At(t, i) => \E u \in Tiles' : At(u, i)
  BY <1>11, <1>12, <1>13 DEF Tiles
<1> QED BY <1>4, <1>14, StillCovered DEF Added

\* The block goes to the caller.
LEMMA AllocReturnsCovers ==
  ASSUME Inv, Covered, AllocReturns
  PROVE  Covered'
<1> USE Parts
<1> DEFINE b == [page |-> op.page, order |-> op.ord, n |-> op.n]
           z == [own |-> "hand", page |-> op.page, size |-> 2^op.ord]
           y == [own |-> "live", page |-> op.page, size |-> 2^op.ord]
<1>1. op.pc = "split" /\ regions' = regions /\ free' = free /\ live' = live \cup {b} /\ op' = Idle
  BY DEF AllocReturns
<1>2. HandTiles = {z} /\ FreeTiles' = FreeTiles
  BY <1>1, HandTile DEF FreeTiles
<1>3. y \in LiveTiles' /\ \A t \in LiveTiles : t \in LiveTiles'
  <2>1. b \in live' /\ y = [own |-> "live", page |-> b.page, size |-> 2^b.order]
    BY <1>1
  <2>2. \A a \in live : a \in live'
    BY <1>1
  <2> HIDE DEF b, y
  <2>3. y \in LiveTiles'
    BY <2>1 DEF LiveTiles
  <2> QED BY <2>2, <2>3 DEF LiveTiles
<1>4. \A i : At(z, i) => At(y, i)
  BY DEF At
<1> HIDE DEF y, z
<1>5. \A t \in Tiles, i \in Int : At(t, i) => \E u \in Tiles' : At(u, i)
  BY <1>2, <1>3, <1>4 DEF Tiles
<1> QED BY <1>1, <1>5, StillCovered DEF Added

\* A block that is given back is in the hand of the call.
LEMMA FreeCovers ==
  ASSUME Inv, Counted, Covered, NEW b \in live, kbud_free(b)
  PROVE  Covered'
<1> USE Parts
<1> DEFINE x == [own |-> "live", page |-> b.page, size |-> 2^b.order]
           y == [own |-> "hand", page |-> b.page, size |-> 2^b.order]
<1>1. /\ regions' = regions /\ free' = free /\ live' = live \ {b} /\ op = Idle
  BY DEF kbud_free, Running
<1>2. PICK r \in find_valid_slave(b.page) :
        op' = [pc |-> "merge", r |-> r, pfn |-> kbud_pfnum(r, b.page), ord |-> b.order]
  BY HeldIsFound DEF kbud_free
<1>3. r \in Ranges /\ b.page \in Int
  BY FoundRegion
<1>4. HandTiles' = {y}
  <2>1. /\ op'.pc = "merge" /\ op'.ord = b.order /\ op'.r = r
        /\ op'.pfn = b.page - mbase(r)
    BY <1>2 DEF kbud_pfnum
  <2>2. mbase(r) + (b.page - mbase(r)) = b.page
    BY <1>3, Layout
  <2> QED BY <2>1, <2>2, HandTileNext
<1>5. HandTiles = {} /\ FreeTiles' = FreeTiles
  BY <1>1, HandTile DEF FreeTiles
<1>6. \A t \in LiveTiles : t = x \/ t \in LiveTiles'
  <2> SUFFICES ASSUME NEW a \in live
               PROVE  LET t == [own |-> "live", page |-> a.page, size |-> 2^a.order]
                      IN  t = x \/ t \in LiveTiles'
    BY DEF LiveTiles
  <2>1. a = b \/ a \in live'
    BY <1>1
  <2> QED BY <2>1 DEF LiveTiles
<1>7. \A i : At(x, i) => At(y, i)
  BY DEF At
<1> HIDE DEF x, y
<1>8. \A t \in Tiles, i \in Int : At(t, i) => \E u \in Tiles' : At(u, i)
  BY <1>4, <1>5, <1>6, <1>7 DEF Tiles
<1> QED BY <1>1, <1>8, StillCovered DEF Added

\* The same for kbud_free_range(), where the range is the whole block.
LEMMA FreeRangeCovers ==
  ASSUME Inv, Counted, Covered, Whole, NEW b \in live, kbud_free_range(b)
  PROVE  Covered'
<1> USE Parts
<1> DEFINE x == [own |-> "live", page |-> b.page, size |-> 2^b.order]
           y == [own |-> "hand", page |-> b.page, size |-> b.n]
<1>1. /\ regions' = regions /\ free' = free /\ live' = live \ {b} /\ op = Idle
      /\ "kbud_free_range" \in Calls
  BY DEF kbud_free_range, Running
<1>2. PICK r \in find_valid_slave(b.page) :
        op' = [pc |-> "range", r |-> r, page |-> b.page, size |-> b.n]
  BY HeldIsFound DEF kbud_free_range
<1>3. HandTiles' = {y}
  <2>1. op'.pc = "range" /\ op'.page = b.page /\ op'.size = b.n
    BY <1>2
  <2> QED BY <2>1, HandTileNext
<1>4. b.n = 2^b.order
  BY <1>1 DEF Whole
<1>5. HandTiles = {} /\ FreeTiles' = FreeTiles
  BY <1>1, HandTile DEF FreeTiles
<1>6. \A t \in LiveTiles : t = x \/ t \in LiveTiles'
  <2> SUFFICES ASSUME NEW a \in live
               PROVE  LET t == [own |-> "live", page |-> a.page, size |-> 2^a.order]
                      IN  t = x \/ t \in LiveTiles'
    BY DEF LiveTiles
  <2>1. a = b \/ a \in live'
    BY <1>1
  <2> QED BY <2>1 DEF LiveTiles
<1>7. \A i : At(x, i) => At(y, i)
  BY <1>4 DEF At
<1> HIDE DEF x, y
<1>8. \A t \in Tiles, i \in Int : At(t, i) => \E u \in Tiles' : At(u, i)
  BY <1>3, <1>5, <1>6, <1>7 DEF Tiles
<1> QED BY <1>1, <1>8, StillCovered DEF Added

\* The merged block covers the block in hand and its buddy.
LEMMA MergeCovers ==
  ASSUME Inv, SafeUse, Covered, Merge
  PROVE  Covered'
<1> USE Parts
<1> DEFINE r == op.r
           k == op.ord
           m == mbase(r)
           w == 2^k
           c == ClearBit(op.pfn, k)
           h == m + Flip(op.pfn, k)
           x == FTile(h, k)
           z == [own |-> "hand", page |-> m + op.pfn, size |-> w]
           y == [own |-> "hand", page |-> m + c, size |-> 2^(k + 1)]
<1>1. op.pc = "merge" /\ op \in MergeOps /\ regions' = regions /\ live' = live
  BY OpKind DEF Merge
<1>2. /\ r \in Ranges /\ k \in Orders /\ h \in ToSet(free[r][k])
      /\ RemoveFirst(free[r][k], h) \in Seq(Int)
      /\ Unlink(r, k, h, RemoveFirst(free[r][k], h))
      /\ op' = [op EXCEPT !.pfn = c, !.ord = k + 1]
  BY MergeUnlinks
<1>3. op'.pc = "merge" /\ op'.r = r /\ op'.pfn = c /\ op'.ord = k + 1
  <2> HIDE DEF c
  <2> QED BY <1>1, <1>2 DEF MergeOps
<1>4. HandTiles = {z} /\ HandTiles' = {y} /\ LiveTiles' = LiveTiles
  BY <1>1, <1>3, HandTile, HandTileNext DEF LiveTiles
<1>5. \A t \in FreeTiles : t = x \/ t \in FreeTiles'
  <2>1. h \in Int
    BY <1>2, ListedInt
  <2> HIDE DEF h, r, k
  <2> QED BY <2>1, <1>2, UnlinkTiles DEF ListInv
<1>6. op.pfn \in Int /\ op.pfn % w = 0 /\ w \in Nat \ {0} /\ 2^(k + 1) = 2 * w /\ m \in Int
  BY <1>1, <1>2, Powers, Layout DEF MergeOps, OpOK
<1>7. /\ c \in Int
      /\ \/ h = m + (op.pfn + w) /\ c = op.pfn
         \/ h = m + (op.pfn - w) /\ c = op.pfn - w
  <2>1. 2^k \in Nat \ {0} /\ 2^(k + 1) = 2 * 2^k /\ op.pfn \in Int /\ op.pfn % 2^k = 0
    BY <1>6
  <2> QED BY <2>1, BuddyOf
<1>8. /\ x.page = h /\ x.size = w /\ z.page = m + op.pfn /\ z.size = w
      /\ y.page = m + c /\ y.size = 2 * w
  BY <1>6 DEF FTile
<1> HIDE DEF x, y, z, c, h, m, w
<1>9. \A i \in Int : At(z, i) \/ At(x, i) => At(y, i)
  BY <1>6, <1>7, <1>8 DEF At
<1>10. \A t \in Tiles, i \in Int : At(t, i) => \E u \in Tiles' : At(u, i)
  BY <1>4, <1>5, <1>9 DEF Tiles
<1> QED BY <1>1, <1>10, StillCovered DEF Added

\* The merged block goes to its list.
LEMMA FreeReturnsCovers ==
  ASSUME Inv, SafeUse, BitmapsSuffice, Covered, Below, FreeReturns
  PROVE  Covered'
<1> USE Parts
<1> DEFINE r == op.r
           k == op.ord
           m == mbase(r)
           p == m + op.pfn
           z == [own |-> "hand", page |-> p, size |-> 2^k]
           x == FTile(p, k)
<1>1. op.pc = "merge" /\ regions' = regions /\ live' = live /\ kbud_push(r, p, k) /\ op' = Idle
  BY DEF FreeReturns
<1>2. /\ r \in Ranges /\ k \in Orders /\ 0 <= op.pfn /\ op.pfn % 2^k = 0
      /\ p + 2^k <= End(r) /\ "kbud_free" \in Calls /\ op.pfn \in Int /\ k <= max_order(r)
  BY <1>1, OpKind DEF OpOK, MergeOps, Below
<1>3. m \in Int /\ p \in Int /\ m <= p
  BY <1>2, Layout
<1>4. Block(r, p, k)
  <2>1. p % 2^k = 0
    BY <1>2, MbaseAligned
  <2> QED BY <2>1, <1>2, <1>3 DEF Block
<1>5. x \in FreeTiles' /\ \A t \in FreeTiles : t \in FreeTiles'
  <2> HIDE DEF r, k, p
  <2> QED BY <1>1, <1>2, <1>3, <1>4, PushTiles DEF ListInv
<1>6. HandTiles = {z} /\ LiveTiles' = LiveTiles
  BY <1>1, HandTile DEF LiveTiles
<1>7. \A i : At(z, i) => At(x, i)
  BY DEF At, FTile
<1> HIDE DEF x, z
<1>8. \A t \in Tiles, i \in Int : At(t, i) => \E u \in Tiles' : At(u, i)
  BY <1>5, <1>6, <1>7 DEF Tiles
<1> QED BY <1>1, <1>8, StillCovered DEF Added

\* A carved block goes to its list, and the rest stays in hand.
LEMMA CarveCovers ==
  ASSUME Inv, BitmapsSuffice, Covered, CarveBlock
  PROVE  Covered'
<1> USE Parts
<1>1. op.pc = "range" /\ op \in RangeOps /\ regions' = regions /\ live' = live
  BY OpKind DEF CarveBlock
<1>2. PICK k \in Orders : /\ RangeFits(op.r, op.page, op.size, k)
                          /\ kbud_push(op.r, op.page, k)
                          /\ op' = [op EXCEPT !.page = op.page + 2^k, !.size = op.size - 2^k]
  BY DEF CarveBlock
<1> DEFINE r == op.r
           p == op.page
           w == 2^k
           z == [own |-> "hand", page |-> p, size |-> op.size]
           y == [own |-> "hand", page |-> p + w, size |-> op.size - w]
           x == FTile(p, k)
<1>3. /\ mbase(r) <= p /\ p + op.size <= End(r)
      /\ r \in Ranges /\ p \in Int /\ op.size \in Nat
  BY <1>1 DEF OpOK, RangeOps
<1>4. w \in Nat \ {0} /\ mbase(r) \in Int /\ End(r) \in Int
  BY <1>3, Powers, Layout
<1>5. w <= op.size /\ p % w = 0 /\ k <= max_order(r)
  BY <1>2 DEF RangeFits
<1>6. p + w <= End(r)
  <2> HIDE DEF w, p, r
  <2> QED BY <1>3, <1>4, <1>5
<1>7. Block(r, p, k)
  BY <1>3, <1>5, <1>6 DEF Block
<1>8. op'.pc = "range" /\ op'.page = p + w /\ op'.size = op.size - w
  BY <1>1, <1>2 DEF RangeOps
<1>9. HandTiles = {z} /\ HandTiles' = {y} /\ LiveTiles' = LiveTiles
  BY <1>1, <1>8, HandTile, HandTileNext DEF LiveTiles
<1>10. x \in FreeTiles' /\ \A t \in FreeTiles : t \in FreeTiles'
  <2>1. kbud_push(r, p, k)
    BY <1>2
  <2> HIDE DEF r, p
  <2> QED BY <2>1, <1>3, <1>7, PushTiles DEF ListInv
<1>11. /\ x.page = p /\ x.size = w /\ z.page = p /\ z.size = op.size
       /\ y.page = p + w /\ y.size = op.size - w
  BY DEF FTile
<1> HIDE DEF x, y, z, p, w
<1>12. \A i \in Int : At(z, i) => At(y, i) \/ At(x, i)
  BY <1>3, <1>4, <1>5, <1>11 DEF At
<1>13. \A t \in Tiles, i \in Int : At(t, i) => \E u \in Tiles' : At(u, i)
  BY <1>9, <1>10, <1>12 DEF Tiles
<1> QED BY <1>1, <1>13, StillCovered DEF Added

LEMMA RangeReturnsCovers ==
  ASSUME Inv, Covered, RangeReturns
  PROVE  Covered'
<1> USE Parts
<1> DEFINE z == [own |-> "hand", page |-> op.page, size |-> 0]
<1>1. op.pc = "range" /\ op.size = 0 /\ regions' = regions /\ live' = live /\ free' = free
      /\ op \in RangeOps
  BY OpKind DEF RangeReturns
<1>2. HandTiles = {z} /\ LiveTiles' = LiveTiles /\ FreeTiles' = FreeTiles
  BY <1>1, HandTile DEF LiveTiles, FreeTiles
<1>3. \A i \in Int : ~At(z, i)
  <2>1. op.page \in Int
    BY <1>1 DEF RangeOps
  <2> QED BY <2>1 DEF At
<1> HIDE DEF z
<1>4. \A t \in Tiles, i \in Int : At(t, i) => \E u \in Tiles' : At(u, i)
  BY <1>2, <1>3 DEF Tiles
<1> QED BY <1>1, <1>4, StillCovered DEF Added

\* A new region's pages are in the hand of the call that carves it, and the
\* table counts one entry more.
LEMMA DonateCovers ==
  ASSUME Inv, Sound, RoomInTable, Counted, Covered, NEW r \in Ranges, DonateRange(r)
  PROVE  Covered' /\ Counted'
<1> USE Parts
<1>1. free' = free /\ live' = live /\ op = Idle /\ kbud_add_region(r)
  BY DEF DonateRange, Running
<1>2. regions \in Seq(Ranges) /\ Len(regions) \in Nat /\ region_count = Len(regions)
  BY LenProperties DEF RestType, Counted
<1>3. region_count # AllOnes
  BY <1>2 DEF AllOnes
<1>4. PICK n \in 1 .. Len(regions) + 1 : regions' = InsertAt(regions, n, r)
  BY <1>1, <1>3 DEF kbud_add_region
<1>5. regions' \in Seq(Ranges) /\ Len(regions') = Len(regions) + 1 /\ Added' = Added \cup {r}
  <2> DEFINE t == InsertAt(regions, n, r)
  <2>1. t \in Seq(Ranges) /\ DOMAIN t = 1 .. Len(regions) + 1 /\ ToSet(t) = ToSet(regions) \cup {r}
    BY <1>2, InsertList
  <2>2. regions' = t
    BY <1>4
  <2> HIDE DEF t
  <2>3. DOMAIN t = 1 .. Len(t) /\ Len(t) \in Nat
    BY <2>1, LenProperties
  <2>4. Len(t) = Len(regions) + 1
    BY <2>1, <2>3, <1>2
  <2> QED BY <2>1, <2>2, <2>4 DEF Added
<1>6. TableSorted'
  BY DonateSound DEF Sound
<1>7. Counted'
  <2>1. Len(regions') < PFRAME_MAX_REGIONS
    BY <1>5, <1>6, TableFits DEF TableSorted
  <2>2. region_count' = CountAfterAdd
    BY <1>1, <1>3 DEF kbud_add_region
  <2>3. region_count + 1 # PFRAME_MAX_REGIONS
    BY <2>1, <1>2, <1>5, RegionsAssumption
  <2> QED BY <2>2, <2>3, <1>2, <1>5 DEF CountAfterAdd, Counted
<1>8. \A t \in Tiles : t \in Tiles'
  <2>1. HandTiles = {} /\ LiveTiles' = LiveTiles /\ FreeTiles' = FreeTiles
    BY <1>1, HandTile DEF LiveTiles, FreeTiles
  <2> QED BY <2>1 DEF Tiles
<1>9. ASSUME NEW p \in mbase(r) .. End(r) - 1
      PROVE  \E u \in Tiles' : At(u, p)
  <2> DEFINE y == [own |-> "hand", page |-> mbase(r), size |-> total_pages(r)]
  <2>1. mbase(r) \in Int /\ End(r) \in Int /\ total_pages(r) = End(r) - mbase(r)
    BY Layout
  <2>2. ~Useless(r)
    BY <2>1 DEF Useless
  <2>3. op' = [pc |-> "range", r |-> r, page |-> mbase(r), size |-> total_pages(r)]
    BY <2>2, <1>1, <1>3 DEF kbud_add_region
  <2>4. op'.pc = "range" /\ op'.page = mbase(r) /\ op'.size = total_pages(r)
    BY <2>3
  <2>5. y \in Tiles'
    BY <2>4, HandTileNext DEF Tiles
  <2>6. At(y, p)
    BY <2>1 DEF At
  <2> QED BY <2>5, <2>6
<1>10. Covered'
  <2> SUFFICES ASSUME NEW s \in Added', NEW p \in mbase(s) .. End(s) - 1
               PROVE  \E u \in Tiles' : At(u, p)
    BY DEF Covered, Reached
  <2>1. CASE s \in Added
    BY <2>1, <1>8 DEF Covered, Reached
  <2>2. CASE s = r
    BY <2>2, <1>9
  <2> QED BY <2>1, <2>2, <1>5
<1> QED BY <1>7, <1>10

-----------------------------------------------------------------------------
(***************************************************************************)
(* The first result: no page is lost.                                      *)
(***************************************************************************)
LEMMA InitKeeps == Init => Keeps
<1> SUFFICES ASSUME Init
             PROVE  Keeps
  OBVIOUS
<1>1. Inv /\ Sound
  BY InitInv, InitSound
<1>2. regions = <<>> /\ region_count = 0 /\ op = Idle /\ live = {}
  BY DEF Init
<1>3. Added = {}
  BY <1>2 DEF Added, ToSet
<1>4. Counted
  BY <1>2 DEF Counted
<1>5. Whole /\ Below
  BY <1>2 DEF Whole, Below, Idle
<1>6. Covered
  BY <1>3 DEF Covered
<1> QED BY <1>1, <1>4, <1>5, <1>6 DEF Keeps

LEMMA AlignedIsSafe == LosesNothing => SafeUse
BY DEF LosesNothing, AlignedRegions, SafeUse

\* The order in the hand of kbud_free() never passes the region's largest.
LEMMA MergeBelow ==
  ASSUME Inv, SafeUse, TopStops, Merge
  PROVE  Below'
<1> USE Parts
<1> DEFINE r == op.r
           k == op.ord
           c == ClearBit(op.pfn, k)
<1>1. Inv'
  BY MergeKeepsInv
<1>2. op.pc = "merge" /\ op \in MergeOps /\ Mergeable(r, op.pfn, k)
  BY OpKind DEF Merge
<1>3. r \in Ranges /\ k \in Orders /\ op' = [op EXCEPT !.pfn = c, !.ord = k + 1]
  BY MergeUnlinks
<1>4. op'.pc = "merge" /\ op'.r = r /\ op'.pfn = c /\ op'.ord = k + 1
  <2> HIDE DEF c
  <2> QED BY <1>2, <1>3 DEF MergeOps
<1>5. k <= max_order(r) /\ k < PFRAME_MAX_ORDER - 1
  BY <1>2 DEF Mergeable, buddy_bit_chk
<1>6. 0 <= op'.pfn /\ mbase(op'.r) + op'.pfn + 2^op'.ord <= End(op'.r)
  BY <1>1, <1>4 DEF Inv, OpOK
<1>7. k # max_order(r)
  <2> SUFFICES ASSUME k = max_order(r)
               PROVE  FALSE
    OBVIOUS
  <2>1. total_pages(r) < 2^(k + 1)
    BY <1>3, <1>5, OrderAssumption DEF TopStops, Orders
  <2>2. /\ mbase(r) \in Int /\ End(r) \in Int /\ total_pages(r) = End(r) - mbase(r)
    BY <1>3, Layout
  <2>3. 2^(k + 1) \in Nat
    BY <1>3, Powers
  <2>4. c \in Int
    <3>1. 2^k \in Nat \ {0} /\ op.pfn \in Int
      BY <1>2, <1>3, Powers DEF MergeOps
    <3> QED BY <3>1 DEF ClearBit
  <2>5. 0 <= c /\ mbase(r) + c + 2^(k + 1) <= End(r)
    BY <1>4, <1>6
  <2> HIDE DEF c, k, r
  <2> QED BY <2>1, <2>2, <2>3, <2>4, <2>5
<1>8. max_order(r) \in Orders
  BY <1>3, Layout
<1> QED BY <1>3, <1>4, <1>5, <1>7, <1>8 DEF Below, Orders

\* kbud_alloc() and kbud_alloc_range().
LEMMA AllocateKeeps ==
  ASSUME Keeps, op = Idle, NEW req \in Orders, NEW n, Allocate(req, n),
         "kbud_free_range" \in Calls => n = 2^req
  PROVE  Covered' /\ Counted' /\ Whole' /\ Below'
<1>1. CASE Refuse(req)
  <2>1. /\ regions' = regions /\ region_count' = region_count /\ free' = free /\ op' = op
        /\ live' = live
    BY <1>1 DEF Refuse
  <2>2. Tiles' = Tiles /\ Added' = Added
    BY <2>1 DEF Tiles, FreeTiles, LiveTiles, HandTiles, Added
  <2> QED BY <2>1, <2>2 DEF Keeps, Covered, Reached, Counted, Whole, Below
<1>2. CASE \E i \in DOMAIN regions : \E o \in Orders : Take(regions[i], req, o, n)
  <2>1. PICK i \in DOMAIN regions : \E o \in Orders : Take(regions[i], req, o, n)
    BY <1>2
  <2>2. PICK o \in Orders : Take(regions[i], req, o, n)
    BY <2>1
  <2>3. regions[i] \in Added
    BY DEF Added, ToSet
  <2>4. Covered'
    BY <2>2, <2>3, TakeCovers DEF Keeps
  <2>5. /\ regions' = regions /\ region_count' = region_count /\ live' = live
        /\ op'.pc = "split" /\ op'.req = req /\ op'.n = n
    BY <2>2 DEF Take
  <2> QED BY <2>4, <2>5 DEF Keeps, Counted, Whole, Below
<1> QED BY <1>1, <1>2 DEF Allocate

LEMMA NextKeeps ==
  ASSUME LosesNothing, Keeps, [Next]_vars
  PROVE  Keeps'
<1>1. Inv /\ Sound /\ Counted /\ Whole /\ Below /\ Covered /\ Inv' /\ Sound'
  BY AlignedIsSafe, NextInv, NextSound DEF Keeps
<1> USE Parts, AlignedIsSafe DEF LosesNothing
<1> SUFFICES Covered' /\ Counted' /\ Whole' /\ Below'
  BY <1>1 DEF Keeps
<1>2. CASE UNCHANGED vars
  <2>1. Tiles' = Tiles /\ Added' = Added
    BY <1>2 DEF vars, Tiles, FreeTiles, LiveTiles, HandTiles, Added
  <2> QED BY <1>1, <1>2, <2>1 DEF vars, Covered, Reached, Counted, Whole, Below
<1>3. ASSUME NEW req \in Orders, kbud_alloc(req)
      PROVE  Covered' /\ Counted' /\ Whole' /\ Below'
  BY <1>3, AllocateKeeps DEF kbud_alloc, Running
<1>4. ASSUME NEW n \in RangePages, kbud_alloc_range(n)
      PROVE  Covered' /\ Counted' /\ Whole' /\ Below'
  <2>1. op = Idle /\ ("kbud_free_range" \notin Calls)
    BY <1>4 DEF kbud_alloc_range, Running, WholeBlocks
  <2>2. CASE \E req \in Orders : Allocate(req, n)
    BY <2>1, <2>2, AllocateKeeps
  <2> QED BY <2>2, <1>2, <1>4 DEF kbud_alloc_range
<1>5. ASSUME NEW b \in live, kbud_free(b)
      PROVE  Covered' /\ Counted' /\ Whole' /\ Below'
  <2>1. Covered'
    BY <1>1, <1>5, FreeCovers
  <2>2. regions' = regions /\ region_count' = region_count /\ live' = live \ {b} /\ op = Idle
    BY <1>5 DEF kbud_free, Running
  <2>3. PICK r \in find_valid_slave(b.page) :
          op' = [pc |-> "merge", r |-> r, pfn |-> kbud_pfnum(r, b.page), ord |-> b.order]
    BY <1>1, <1>5, HeldIsFound DEF kbud_free
  <2>4. Block(r, b.page, b.order)
    BY <1>1, FoundRegion
  <2>5. op'.pc = "merge" /\ op'.r = r /\ op'.ord = b.order
    BY <2>3
  <2> QED BY <1>1, <2>1, <2>2, <2>4, <2>5 DEF Counted, Whole, Below, Block
<1>6. ASSUME NEW b \in live, kbud_free_range(b)
      PROVE  Covered' /\ Counted' /\ Whole' /\ Below'
  <2>1. Covered'
    BY <1>1, <1>6, FreeRangeCovers
  <2>2. regions' = regions /\ region_count' = region_count /\ live' = live \ {b} /\ op = Idle
    BY <1>6 DEF kbud_free_range, Running
  <2>3. op'.pc = "range"
    <3>1. PICK r \in find_valid_slave(b.page) :
            op' = [pc |-> "range", r |-> r, page |-> b.page, size |-> b.n]
      BY <1>1, <1>6, HeldIsFound DEF kbud_free_range
    <3> QED BY <3>1
  <2> QED BY <1>1, <2>1, <2>2, <2>3 DEF Counted, Whole, Below
<1>7. ASSUME NEW r \in Ranges, DonateRange(r)
      PROVE  Covered' /\ Counted' /\ Whole' /\ Below'
  <2>1. Covered' /\ Counted'
    BY <1>1, <1>7, DonateCovers
  <2>2. live' = live /\ op = Idle /\ (op' = Idle \/ op'.pc = "range")
    <3>1. live' = live /\ op = Idle /\ kbud_add_region(r)
      BY <1>7 DEF DonateRange, Running
    <3>2. \/ op' = op
          \/ op' = [pc |-> "range", r |-> r, page |-> mbase(r), size |-> total_pages(r)]
      BY <3>1 DEF kbud_add_region
    <3> QED BY <3>1, <3>2
  <2> QED BY <1>1, <2>1, <2>2 DEF Whole, Below, Idle
<1>8. CASE Split
  <2>1. Covered'
    BY <1>1, <1>8, SplitCovers
  <2>2. regions' = regions /\ region_count' = region_count /\ live' = live
        /\ op'.pc = "split" /\ op'.req = op.req /\ op'.n = op.n /\ op.pc = "split"
    <3>1. op \in SplitOps
      BY <1>1, <1>8, OpKind DEF Split
    <3> QED BY <3>1, <1>8 DEF Split, SplitOps
  <2> QED BY <1>1, <2>1, <2>2 DEF Counted, Whole, Below
<1>9. CASE AllocReturns
  <2>1. Covered'
    BY <1>1, <1>9, AllocReturnsCovers
  <2>2. regions' = regions /\ region_count' = region_count /\ op' = Idle /\ op.pc = "split"
        /\ op.ord = op.req
        /\ live' = live \cup {[page |-> op.page, order |-> op.ord, n |-> op.n]}
    BY <1>9 DEF AllocReturns
  <2> QED BY <1>1, <2>1, <2>2 DEF Counted, Whole, Below, Idle
<1>10. CASE Merge
  <2>1. Covered' /\ Below'
    BY <1>1, <1>10, MergeCovers, MergeBelow
  <2>2. regions' = regions /\ region_count' = region_count /\ live' = live /\ op'.pc = "merge"
    <3>1. op \in MergeOps /\ op.pc = "merge"
      BY <1>1, <1>10, OpKind DEF Merge
    <3> QED BY <3>1, <1>10 DEF Merge, MergeOps
  <2> QED BY <1>1, <2>1, <2>2 DEF Counted, Whole
<1>11. CASE FreeReturns
  <2>1. Covered'
    BY <1>1, <1>11, FreeReturnsCovers
  <2>2. regions' = regions /\ region_count' = region_count /\ live' = live /\ op' = Idle
    BY <1>11 DEF FreeReturns
  <2> QED BY <1>1, <2>1, <2>2 DEF Counted, Whole, Below, Idle
<1>12. CASE CarveBlock
  <2>1. Covered'
    BY <1>1, <1>12, CarveCovers
  <2>2. regions' = regions /\ region_count' = region_count /\ live' = live /\ op'.pc = "range"
    <3>1. op \in RangeOps /\ op.pc = "range"
      BY <1>1, <1>12, OpKind DEF CarveBlock
    <3> QED BY <3>1, <1>12 DEF CarveBlock, RangeOps
  <2> QED BY <1>1, <2>1, <2>2 DEF Counted, Whole, Below
<1>13. CASE RangeReturns
  <2>1. Covered'
    BY <1>1, <1>13, RangeReturnsCovers
  <2>2. regions' = regions /\ region_count' = region_count /\ live' = live /\ op' = Idle
    BY <1>13 DEF RangeReturns
  <2> QED BY <1>1, <2>1, <2>2 DEF Counted, Whole, Below, Idle
<1> QED BY <1>2, <1>3, <1>4, <1>5, <1>6, <1>7, <1>8, <1>9, <1>10, <1>11, <1>12, <1>13
    DEF Next, ClientCall, LoopStep

\* Where every push is accepted, blocks go back whole and the table has room,
\* the allocator loses no page.
THEOREM AlwaysKeeps == ASSUME LosesNothing PROVE Spec => []Keeps
<1>1. Init => Keeps
  BY InitKeeps
<1>2. Keeps /\ [Next]_vars => Keeps'
  BY NextKeeps
<1> QED BY <1>1, <1>2, PTL DEF Spec

\* Between calls every usable page of every region is on a free list or with
\* a caller.
THEOREM NothingLeaks == ASSUME LosesNothing PROVE Spec => []NoLeak
<1>1. Keeps => NoLeak
  BY DEF Keeps, Covered, Reached, At, NoLeak
<1> QED BY <1>1, AlwaysKeeps, PTL

-----------------------------------------------------------------------------
(***************************************************************************)
(* Aligned blocks are nested or apart, and the blocks of a pair.           *)
(***************************************************************************)

\* Of two blocks that share a page the smaller lies in the larger.
LEMMA Nested ==
  ASSUME NEW j \in Orders, NEW k \in Orders, j <= k,
         NEW a \in Int, NEW b \in Int, NEW p \in Int, a % 2^j = 0, b % 2^k = 0,
         a <= p, p < a + 2^j, b <= p, p < b + 2^k
  PROVE  b <= a /\ a + 2^j <= b + 2^k
<1> DEFINE v == 2^j
           w == 2^k
<1>1. v \in Nat \ {0} /\ w \in Nat \ {0}
  BY Powers
<1>2. b % v = 0 /\ w % v = 0
  <2>1. w % w = 0 /\ w \in Int
    BY <1>1
  <2> QED BY <2>1, SmallerAlignment
<1> HIDE DEF v, w
<1>3. (b + w) % v = 0
  <2>1. w \in Int /\ b \in Int
    BY <1>1
  <2> QED BY <2>1, <1>1, <1>2, SumMod
<1>4. PICK x \in Int : a = x * v
  BY <1>1, MultipleMod DEF v
<1>5. PICK y \in Int : b = y * v
  BY <1>1, <1>2, MultipleMod
<1>6. PICK z \in Int : b + w = z * v
  <2>1. b + w \in Int
    BY <1>1
  <2> QED BY <2>1, <1>1, <1>3, MultipleMod
<1>7. a <= p /\ p < a + v /\ b <= p /\ p < b + w
  BY DEF v, w
<1>8. x + 1 <= z
  <2>1. CASE z <= x
    <3>1. z * v <= x * v
      BY <2>1, <1>1, MulMono
    <3> QED BY <3>1, <1>1, <1>4, <1>6, <1>7
  <2> QED BY <2>1
<1>9. y <= x
  <2>1. CASE x + 1 <= y
    <3>1. (x + 1) * v <= y * v /\ (x + 1) * v = x * v + v
      BY <2>1, <1>1, MulMono
    <3> QED BY <3>1, <1>1, <1>4, <1>5, <1>7
  <2> QED BY <2>1
<1>10. (x + 1) * v <= z * v /\ (x + 1) * v = x * v + v /\ y * v <= x * v
  BY <1>1, <1>8, <1>9, MulMono
<1>11. b <= a /\ a + v <= b + w
  BY <1>4, <1>5, <1>6, <1>10
<1> QED BY <1>11 DEF v, w

\* Below the region's largest order, a pair begins at a multiple of its size.
LEMMA PairStart ==
  ASSUME AlignedRegions, NEW r \in Ranges, NEW k \in Orders, k < max_order(r)
  PROVE  /\ k + 1 \in Orders /\ 2^k \in Nat \ {0} /\ 2^(k + 1) = 2 * 2^k
         /\ mbase(r) \in Int /\ mbase(r) % 2^k = 0 /\ mbase(r) % 2^(k + 1) = 0
<1>1. max_order(r) \in Orders /\ mbase(r) \in Int
  BY Layout
<1>2. k + 1 \in Orders /\ k + 1 <= max_order(r) /\ k <= max_order(r)
  BY <1>1, OrderAssumption DEF Orders
<1>3. mbase(r) % 2^max_order(r) = 0
  BY DEF AlignedRegions
<1>4. mbase(r) % 2^k = 0 /\ mbase(r) % 2^(k + 1) = 0
  BY <1>1, <1>2, <1>3, SmallerAlignment
<1> QED BY <1>1, <1>2, <1>4, Powers

\* Two blocks with the same pair bit are the halves of one block.
LEMMA PairMates ==
  ASSUME AlignedRegions, NEW r \in Ranges, NEW k \in Orders, k < max_order(r),
         NEW p \in Int, NEW q \in Int, p % 2^k = 0, q % 2^k = 0, Pair(r, p, k) = Pair(r, q, k)
  PROVE  \/ q = p
         \/ q = p + 2^k /\ p % 2^(k + 1) = 0
         \/ q = p - 2^k /\ q % 2^(k + 1) = 0
<1> DEFINE m == mbase(r)
           w == 2^k
           x == p - m
           y == q - m
<1>1. /\ w \in Nat \ {0} /\ 2^(k + 1) = 2 * w
      /\ m \in Int /\ m % w = 0 /\ m % 2^(k + 1) = 0
  BY PairStart
<1>2. x \in Int /\ y \in Int /\ x % w = 0 /\ y % w = 0
  <2>1. p % w = 0 /\ q % w = 0
    OBVIOUS
  <2> HIDE DEF w, m
  <2>2. (p - m) % w = 0
    BY <2>1, <1>1, SumMod
  <2>3. (q - m) % w = 0
    BY <2>1, <1>1, SumMod
  <2> QED BY <2>2, <2>3, <1>1
<1>3. kbud_pair_idx(x, k) = kbud_pair_idx(y, k)
  BY DEF Pair, kbud_pfnum
<1> HIDE DEF m, w, x, y
<1>4. y = x \/ y = Flip(x, k)
  BY <1>2, <1>3, PairMembers DEF w
<1>5. /\ ClearBit(x, k) % 2^(k + 1) = 0
      /\ \/ Flip(x, k) = x + w /\ ClearBit(x, k) = x
         \/ Flip(x, k) = x - w /\ ClearBit(x, k) = x - w
  <2>1. 2^k \in Nat \ {0} /\ 2^(k + 1) = 2 * 2^k /\ x \in Int /\ x % 2^k = 0
    BY <1>1, <1>2 DEF w
  <2> QED BY <2>1, BuddyOf DEF w
<1>6. p = x + m /\ q = y + m
  BY <1>1 DEF x, y
<1> DEFINE v == 2^(k + 1)
<1>7. v \in Nat \ {0} /\ m % v = 0
  BY <1>1
<1>8. \A i \in Int : i % v = 0 => (i + m) % v = 0
  <2> HIDE DEF v
  <2> QED BY <1>1, <1>7, SumMod
<1>9. CASE y = x
  BY <1>9, <1>6
<1>10. CASE y = x + w /\ x % v = 0
  <2>1. (x + m) % v = 0
    BY <1>2, <1>8, <1>10
  <2>2. q = p + w
    BY <1>1, <1>2, <1>6, <1>10
  <2> QED BY <2>1, <2>2, <1>6 DEF w
<1>11. CASE y = x - w /\ y % v = 0
  <2>1. (y + m) % v = 0
    BY <1>2, <1>8, <1>11
  <2>2. q = p - w
    BY <1>1, <1>2, <1>6, <1>11
  <2> QED BY <2>1, <2>2, <1>6 DEF w
<1> QED BY <1>4, <1>5, <1>9, <1>10, <1>11

\* The halves of a block have the same pair bit.
LEMMA HalvesPair ==
  ASSUME AlignedRegions, NEW r \in Ranges, NEW k \in Orders, k < max_order(r),
         NEW p \in Int, p % 2^(k + 1) = 0
  PROVE  Pair(r, p, k) = Pair(r, p + 2^k, k)
<1> DEFINE m == mbase(r)
           w == 2^k
           v == 2^(k + 1)
           x == p - m
<1>1. /\ w \in Nat \ {0} /\ v = 2 * w /\ v \in Nat \ {0} /\ k + 1 \in Orders
      /\ m \in Int /\ m % w = 0 /\ m % v = 0
  BY PairStart
<1>2. x \in Int /\ x % v = 0
  <2> HIDE DEF v, m
  <2>1. p % v = 0
    BY DEF v
  <2> QED BY <2>1, <1>1, SumMod
<1>3. x % w = 0
  <2>1. k <= k + 1
    BY OrderAssumption DEF Orders
  <2> HIDE DEF x
  <2> QED BY <2>1, <1>1, <1>2, SmallerAlignment
<1>4. Flip(x, k) = x + w /\ kbud_pair_idx(Flip(x, k), k) = kbud_pair_idx(x, k)
  <2>1. 2^k \in Nat \ {0} /\ 2^(k + 1) = 2 * 2^k /\ x \in Int /\ x % 2^k = 0 /\ x % 2^(k + 1) = 0
    BY <1>1, <1>2, <1>3
  <2> HIDE DEF x
  <2> QED BY <2>1, BuddyOf
<1>5. (p + w) - m = x + w
  <2> HIDE DEF w, m
  <2> QED BY <1>1
<1> QED BY <1>4, <1>5 DEF Pair, kbud_pfnum

\* A block of the larger order has no other halves.
LEMMA HalvesOnly ==
  ASSUME AlignedRegions, NEW r \in Ranges, NEW k \in Orders, k < max_order(r),
         NEW p \in Int, NEW q \in Int, p % 2^(k + 1) = 0, q % 2^k = 0,
         Pair(r, p, k) = Pair(r, q, k)
  PROVE  q = p \/ q = p + 2^k
<1> DEFINE m == mbase(r)
           w == 2^k
           v == 2^(k + 1)
           x == p - m
           y == q - m
<1>1. /\ w \in Nat \ {0} /\ v = 2 * w /\ v \in Nat \ {0} /\ k + 1 \in Orders
      /\ m \in Int /\ m % w = 0 /\ m % v = 0
  BY PairStart
<1>2. x \in Int /\ x % v = 0
  <2> HIDE DEF v, m
  <2>1. p % v = 0
    BY DEF v
  <2> QED BY <2>1, <1>1, SumMod
<1>3. y \in Int /\ y % w = 0
  <2> HIDE DEF w, m
  <2>1. q % w = 0
    BY DEF w
  <2>2. (q - m) % w = 0
    BY <2>1, <1>1, SumMod
  <2> QED BY <2>2, <1>1
<1>4. x % w = 0
  <2>1. k <= k + 1
    BY OrderAssumption DEF Orders
  <2> HIDE DEF x
  <2> QED BY <2>1, <1>1, <1>2, SmallerAlignment
<1>5. kbud_pair_idx(x, k) = kbud_pair_idx(y, k)
  BY DEF Pair, kbud_pfnum
<1> HIDE DEF x, y
<1>6. y = x \/ y = Flip(x, k)
  BY <1>2, <1>3, <1>4, <1>5, PairMembers
<1>7. Flip(x, k) = x + w
  <2>1. 2^k \in Nat \ {0} /\ 2^(k + 1) = 2 * 2^k /\ x \in Int /\ x % 2^k = 0 /\ x % 2^(k + 1) = 0
    BY <1>1, <1>2, <1>4
  <2> QED BY <2>1, BuddyOf
<1>8. p = x + m /\ q = y + m
  BY <1>1 DEF x, y
<1> HIDE DEF w, m
<1>9. q = p \/ q = p + w
  BY <1>1, <1>2, <1>6, <1>7, <1>8
<1> QED BY <1>9 DEF w

-----------------------------------------------------------------------------
(***************************************************************************)
(* No two buddies are free at once.                                        *)
(***************************************************************************)

\* Pushing a block none of whose pair is on the list.
LEMMA PushMerges ==
  ASSUME FreeType, BitmapsSuffice, PairOnce, FreeBits,
         NEW r \in Ranges, NEW k \in Orders, NEW page \in Int,
         Block(r, page, k), kbud_push(r, page, k),
         k < max_order(r) => \A q \in ToSet(free[r][k]) : Pair(r, q, k) = Pair(r, page, k) => q = page
  PROVE  PairOnce' /\ FreeBits'
<1>1. ASSUME NEW q \in Ranges, NEW j \in Orders, NEW p
      PROVE  p \in ToSet(free'[q][j]) <=> p \in ToSet(free[q][j]) \/ (q = r /\ j = k /\ p = page)
  BY PushLists
<1>2. ASSUME NEW q \in Ranges, NEW j \in Orders, NEW y
      PROVE  y \in bit'[q][j] <=> y \in bit[q][j] \/ (q = r /\ j = k /\ y = Pair(r, page, k))
  BY PushLists
<1>3. PairOnce'
  <2> SUFFICES ASSUME NEW q \in Ranges, NEW j \in Orders, j < max_order(q),
                      NEW x \in ToSet(free'[q][j]), NEW y \in ToSet(free'[q][j]),
                      Pair(q, x, j) = Pair(q, y, j)
               PROVE  x = y
    BY DEF PairOnce
  <2>1. x \in ToSet(free[q][j]) \/ (q = r /\ j = k /\ x = page)
    BY <1>1
  <2>2. y \in ToSet(free[q][j]) \/ (q = r /\ j = k /\ y = page)
    BY <1>1
  <2>3. x \in ToSet(free[q][j]) /\ y \in ToSet(free[q][j]) => x = y
    BY DEF PairOnce
  <2> QED BY <2>1, <2>2, <2>3
<1>4. FreeBits'
  <2> SUFFICES ASSUME NEW q \in Ranges, NEW j \in Orders, j < max_order(q),
                      NEW x \in ToSet(free'[q][j])
               PROVE  Pair(q, x, j) \in bit'[q][j]
    BY DEF FreeBits
  <2>1. x \in ToSet(free[q][j]) => Pair(q, x, j) \in bit[q][j]
    BY DEF FreeBits
  <2>2. x \in ToSet(free[q][j]) \/ (q = r /\ j = k /\ x = page)
    BY <1>1
  <2> QED BY <2>1, <2>2, <1>2
<1> QED BY <1>3, <1>4

\* Popping a block clears no other block's bit.
LEMMA UnlinkMerges ==
  ASSUME FreeType, PairOnce, FreeBits, NEW r \in Ranges, NEW k \in Orders, NEW h \in Int,
         NEW s \in Seq(Int), h \in ToSet(free[r][k]), Unlink(r, k, h, s)
  PROVE  PairOnce' /\ FreeBits'
<1>1. ASSUME NEW q \in Ranges, NEW j \in Orders, NEW p
      PROVE  p \in ToSet(free'[q][j]) <=> p \in ToSet(free[q][j]) /\ ~(q = r /\ j = k /\ p = h)
  BY UnlinkLists
<1>2. ASSUME NEW q \in Ranges, NEW j \in Orders, NEW y
      PROVE  y \in bit'[q][j] <=> y \in bit[q][j] /\ ~(q = r /\ j = k /\ y = Pair(r, h, k))
  BY UnlinkLists
<1>3. PairOnce'
  BY <1>1 DEF PairOnce
<1>4. FreeBits'
  <2> SUFFICES ASSUME NEW q \in Ranges, NEW j \in Orders, j < max_order(q),
                      NEW x \in ToSet(free'[q][j])
               PROVE  Pair(q, x, j) \in bit'[q][j]
    BY DEF FreeBits
  <2>1. x \in ToSet(free[q][j]) /\ ~(q = r /\ j = k /\ x = h)
    BY <1>1
  <2>2. Pair(q, x, j) \in bit[q][j]
    BY <2>1 DEF FreeBits
  <2>3. q = r /\ j = k => Pair(q, x, j) # Pair(r, h, k)
    BY <2>1 DEF PairOnce
  <2> QED BY <2>2, <2>3, <1>2
<1> QED BY <1>3, <1>4

\* The tile in hand shares no page with a free block.
LEMMA HandApart ==
  ASSUME Inv, NEW z, z \in HandTiles, z.own = "hand",
         NEW r \in Ranges, NEW k \in Orders, NEW q \in ToSet(free[r][k])
  PROVE  z.page + z.size <= q \/ q + 2^k <= z.page
<1> USE Parts
<1>1. FTile(q, k) \in Tiles /\ z \in Tiles
  BY FreeTile DEF Tiles, FreeTiles
<1>2. FTile(q, k) # z
  BY DEF FTile
<1>3. Apart(z, FTile(q, k))
  BY <1>1, <1>2 DEF TilesApart, AllApart
<1> QED BY <1>3 DEF Apart, FTile

\* The upper half goes back while its buddy is in hand.
LEMMA SplitMerges ==
  ASSUME Inv, AlignedRegions, BitmapsSuffice, Merges, Split
  PROVE  Merges'
<1> USE Parts
<1>1. op \in SplitOps /\ op.pc = "split"
  BY OpKind DEF Split
<1> DEFINE r == op.r
           p == op.page
           k == op.ord - 1
           w == 2^k
           z == [own |-> "hand", page |-> p, size |-> 2^op.ord]
<1>2. r \in Added /\ Block(r, p, op.ord)
  BY <1>1 DEF OpOK
<1>3. /\ op.ord \in Orders /\ p \in Int /\ r \in Ranges
      /\ k \in Orders /\ op.ord = k + 1 /\ k <= op.ord /\ k < op.ord
  <2>1. op.ord \in Orders /\ op.req \in Orders /\ p \in Int /\ r \in Ranges
    BY <1>1 DEF SplitOps
  <2>2. op.ord > op.req
    BY DEF Split
  <2> QED BY <2>1, <2>2, OrderAssumption DEF Orders
<1>4. op' = [op EXCEPT !.ord = k] /\ kbud_push(r, Flip(p, k), k)
  BY DEF Split
<1>5. 2^op.ord = 2 * w /\ w \in Nat \ {0}
  BY <1>3, Powers
<1>6. /\ p % 2^op.ord = 0 /\ op.ord <= max_order(r) /\ max_order(r) \in Nat
      /\ mbase(r) <= p /\ p + 2^op.ord <= End(r)
      /\ mbase(r) \in Int /\ End(r) \in Int
  BY <1>2, <1>3, Layout DEF Block, Orders
<1>7. p % w = 0
  BY <1>3, <1>6, SmallerAlignment
<1>8. Flip(p, k) = p + w /\ (p + w) % w = 0
  BY <1>3, <1>5, <1>6, <1>7, BuddyOf
<1>9. Block(r, p + w, k) /\ k < max_order(r)
  BY <1>3, <1>5, <1>6, <1>7, <1>8 DEF Block, Orders
<1>10. op'.pc = "split"
  BY <1>1, <1>4 DEF SplitOps
<1>11. ASSUME NEW q \in ToSet(free[r][k]), Pair(r, q, k) = Pair(r, p + w, k)
       PROVE  q = p + w
  <2>1. q \in Int /\ q % w = 0
    BY <1>3, ListedInt DEF ListInv, FreeOK, Block
  <2>2. Pair(r, p, k) = Pair(r, p + w, k)
    BY <1>3, <1>6, <1>9, HalvesPair
  <2>3. q = p \/ q = p + w
    BY <2>1, <2>2, <1>3, <1>6, <1>9, <1>11, HalvesOnly
  <2>4. z \in HandTiles /\ z.own = "hand" /\ z.page = p /\ z.size = 2^op.ord
    BY <1>1, HandTile
  <2>5. p + 2^op.ord <= q \/ q + w <= p
    <3> HIDE DEF z, r, k, p
    <3> QED BY <2>4, <1>3, HandApart DEF w
  <2> HIDE DEF w, p
  <2> QED BY <2>1, <2>3, <2>5, <1>3, <1>5
<1>12. PairOnce' /\ FreeBits'
  <2>1. kbud_push(r, p + w, k) /\ p + w \in Int
    BY <1>3, <1>4, <1>5, <1>8
  <2> HIDE DEF r, p, k, w
  <2> QED BY <2>1, <1>3, <1>9, <1>11, PushMerges DEF Merges, ListInv
<1> QED BY <1>10, <1>12 DEF Merges, Carving

\* A block that kbud_free() pushes has no free buddy: it would have merged.
LEMMA FreeReturnsMerges ==
  ASSUME Inv, Sound, AlignedRegions, SafeUse, BitmapsSuffice, Merges, Below, FreeReturns
  PROVE  Merges'
<1> USE Parts
<1> DEFINE r == op.r
           k == op.ord
           m == mbase(r)
           x == op.pfn
           p == m + x
<1>1. op.pc = "merge" /\ kbud_push(r, p, k) /\ op' = Idle /\ ~Mergeable(r, x, k)
  BY DEF FreeReturns
<1>2. /\ r \in Ranges /\ k \in Orders /\ 0 <= x /\ x % 2^k = 0
      /\ p + 2^k <= End(r) /\ "kbud_free" \in Calls /\ x \in Int /\ k <= max_order(r)
  BY <1>1, OpKind DEF OpOK, MergeOps, Below
<1>3. /\ m \in Int /\ p \in Int /\ m <= p /\ p - m = x /\ End(r) \in Int /\ 2^k \in Nat \ {0}
      /\ total_pages(r) = End(r) - m
  BY <1>2, Layout, Powers
<1>4. Block(r, p, k)
  <2>1. p % 2^k = 0
    BY <1>2, MbaseAligned
  <2> QED BY <2>1, <1>2, <1>3 DEF Block
<1>5. ASSUME k < max_order(r), NEW q \in ToSet(free[r][k]), Pair(r, q, k) = Pair(r, p, k), q # p
      PROVE  FALSE
  <2> DEFINE y == q - m
  <2>1. q \in Int /\ q % 2^k = 0 /\ q + 2^k <= End(r)
    BY <1>2, ListedInt DEF ListInv, FreeOK, Block
  <2>2. y \in Int /\ y % 2^k = 0
    BY <2>1, <1>2, <1>3, MbaseAligned
  <2>3. kbud_pair_idx(x, k) = kbud_pair_idx(y, k)
    BY <1>3, <1>5 DEF Pair, kbud_pfnum
  <2>4. y # x
    BY <2>1, <1>3, <1>5
  <2>5. y < total_pages(r)
    BY <2>1, <1>3
  <2>6. buddy_bit_chk(r, y, k)
    BY <1>2 DEF Sound, SoundLists, FreeChecked, kbud_pfnum
  <2>7. kbud_pair_idx(y, k) \in bit[r][k]
    BY <1>2, <1>5 DEF Merges, FreeBits, Pair, kbud_pfnum
  <2>8. k < PFRAME_MAX_ORDER - 1
    BY <1>2, <1>5, Layout, OrderAssumption DEF Orders
  <2> HIDE DEF y
  <2>9. y = Flip(x, k)
    BY <2>2, <2>3, <2>4, <1>2, PairMembers
  <2>10. Mergeable(r, x, k)
    BY <2>5, <2>6, <2>7, <2>8, <2>9 DEF Mergeable, buddy_bit_get
  <2> QED BY <2>10, <1>1
<1>6. PairOnce' /\ FreeBits'
  <2> HIDE DEF r, p, k
  <2> QED BY <1>1, <1>2, <1>3, <1>4, <1>5, PushMerges DEF Merges, ListInv
<1> QED BY <1>1, <1>6 DEF Merges, Carving, Idle

\* A carved block is the largest there, so that its buddy was not carved.
LEMMA CarveMerges ==
  ASSUME Inv, AlignedRegions, BitmapsSuffice, Merges, CarveBlock
  PROVE  Merges'
<1> USE Parts
<1>1. op.pc = "range" /\ op \in RangeOps
  BY OpKind DEF CarveBlock
<1>2. PICK k \in Orders : /\ RangeFits(op.r, op.page, op.size, k)
                          /\ \A j \in Orders : RangeFits(op.r, op.page, op.size, j) => j <= k
                          /\ kbud_push(op.r, op.page, k)
                          /\ op' = [op EXCEPT !.page = op.page + 2^k, !.size = op.size - 2^k]
  BY DEF CarveBlock
<1> DEFINE r == op.r
           p == op.page
           n == op.size
           w == 2^k
           z == [own |-> "hand", page |-> p, size |-> n]
<1>3. /\ mbase(r) <= p /\ p + n = End(r) /\ r \in Ranges /\ p \in Int /\ n \in Nat
  BY <1>1 DEF OpOK, RangeOps, Merges, Carving
<1>4. w \in Nat \ {0} /\ mbase(r) \in Nat /\ End(r) \in Int /\ max_order(r) \in Orders
  BY <1>3, Powers, Layout
<1>5. w <= n /\ p % w = 0 /\ k <= max_order(r)
  BY <1>2 DEF RangeFits
<1>6. p + w <= End(r)
  <2> HIDE DEF w, p, r, n
  <2> QED BY <1>3, <1>4, <1>5
<1>7. Block(r, p, k)
  BY <1>3, <1>5, <1>6 DEF Block
<1>8. ASSUME NEW j \in Orders, NEW q \in Int, q < p, Block(r, q, j)
      PROVE  q + 2^j <= p
  <2>1. q \in 0 .. p - 1
    BY <1>3, <1>4, <1>8 DEF Block
  <2> QED BY <2>1, <1>1, <1>8 DEF Merges, Carving
<1>9. ASSUME k < max_order(r), NEW q \in ToSet(free[r][k]), Pair(r, q, k) = Pair(r, p, k), q # p
      PROVE  FALSE
  <2>1. q \in Int /\ q % w = 0 /\ mbase(r) <= q /\ q + w <= End(r)
    BY <1>3, ListedInt DEF ListInv, FreeOK, Block
  <2>2. \/ q = p + w
        \/ q = p - w /\ q % 2^(k + 1) = 0
    <3>1. Pair(r, p, k) = Pair(r, q, k)
      BY <1>9
    <3> QED BY <3>1, <2>1, <1>3, <1>5, <1>9, PairMates
  <2>3. CASE q = p + w
    <3>1. z \in HandTiles /\ z.own = "hand" /\ z.page = p /\ z.size = n
      BY <1>1, HandTile
    <3>2. p + n <= q \/ q + w <= p
      <4> HIDE DEF z, r, p, n
      <4> QED BY <3>1, <1>3, HandApart
    <3> HIDE DEF w, p, n, r
    <3> QED BY <3>2, <2>1, <2>3, <1>3, <1>4
  <2>4. CASE q = p - w /\ q % 2^(k + 1) = 0
    <3>1. k + 1 \in Orders /\ 2^(k + 1) = 2 * w /\ k + 1 <= max_order(r)
      <4>1. k + 1 \in Orders /\ k + 1 <= max_order(r)
        BY <1>4, <1>9, OrderAssumption DEF Orders
      <4> QED BY <4>1, Powers
    <3>2. q + 2 * w = p + w /\ q < p /\ ~(q + 2 * w <= p)
      <4> HIDE DEF w, p
      <4> QED BY <2>1, <2>4, <1>3, <1>4
    <3>3. Block(r, q, k + 1)
      <4>1. q + 2 * w <= End(r)
        BY <3>2, <1>6
      <4> QED BY <4>1, <3>1, <2>1, <2>4 DEF Block
    <3>4. q + 2^(k + 1) <= p
      BY <3>1, <3>2, <3>3, <2>1, <1>8
    <3> QED BY <3>1, <3>2, <3>4
  <2> QED BY <2>2, <2>3, <2>4
<1>10. PairOnce' /\ FreeBits'
  <2>1. kbud_push(r, p, k)
    BY <1>2
  <2> HIDE DEF r, p
  <2> QED BY <2>1, <1>3, <1>7, <1>9, PushMerges DEF Merges, ListInv
<1>11. op'.pc = "range" /\ op'.r = r /\ op'.page = p + w /\ op'.size = n - w
  BY <1>1, <1>2 DEF RangeOps
<1>12. (p + w) + (n - w) = End(r)
  <2> HIDE DEF p, w, n, r
  <2> QED BY <1>3, <1>4, <1>5
<1>13. ASSUME NEW j \in Orders, NEW q \in 0 .. (p + w) - 1, Block(r, q, j)
       PROVE  q + 2^j <= p + w
  <2>1. q \in Int /\ q < p + w /\ p + w \in Int
    <3> HIDE DEF p, w
    <3> QED BY <1>3, <1>4
  <2>2. 2^j \in Nat \ {0} /\ q % 2^j = 0 /\ q + 2^j <= End(r) /\ j <= max_order(r)
    BY <1>13, Powers DEF Block
  <2>3. CASE q < p
    <3>1. q + 2^j <= p
      BY <2>1, <2>3, <1>8, <1>13
    <3> HIDE DEF p, w
    <3> QED BY <3>1, <2>1, <2>2, <1>3, <1>4
  <2>4. CASE p <= q /\ j <= k
    <3>1. q <= q /\ q < q + 2^j
      BY <2>1, <2>2
    <3> HIDE DEF p
    <3> QED BY <3>1, <2>1, <2>2, <2>4, <1>3, <1>5, Nested
  <2>5. CASE p <= q /\ k < j
    <3>1. q <= p
      <4>1. q <= q /\ q < q + 2^j /\ k <= j
        BY <2>1, <2>2, <2>5 DEF Orders
      <4> HIDE DEF p
      <4> QED BY <4>1, <2>1, <2>2, <2>5, <1>3, <1>5, Nested
    <3>2. q = p
      BY <3>1, <2>1, <2>5, <1>3
    <3>3. 2^j <= n
      <4>1. p + 2^j <= p + n
        BY <3>2, <2>2, <1>3
      <4> HIDE DEF p, n
      <4> QED BY <4>1, <2>2, <1>3
    <3>4. RangeFits(r, p, n, j)
      BY <3>2, <3>3, <2>2 DEF RangeFits
    <3>5. j <= k
      BY <3>4, <1>2
    <3> QED BY <3>5, <2>5 DEF Orders
  <2>6. p <= q \/ q < p
    BY <2>1, <1>3
  <2>7. j <= k \/ k < j
    BY DEF Orders
  <2> QED BY <2>3, <2>4, <2>5, <2>6, <2>7
<1>14. Carving'
  <2> HIDE DEF r, p, w, n
  <2> QED BY <1>11, <1>12, <1>13 DEF Carving
<1> QED BY <1>10, <1>14 DEF Merges

\* kbud_alloc() and kbud_alloc_range() take one block off its list.
LEMMA AllocateMerges ==
  ASSUME Inv, Merges, op = Idle, NEW req \in Orders, NEW n, Allocate(req, n)
  PROVE  Merges'
<1> USE Parts
<1>1. CASE Refuse(req)
  <2>1. free' = free /\ bit' = bit /\ op' = op
    BY <1>1 DEF Refuse
  <2> QED BY <2>1 DEF Merges, PairOnce, FreeBits, Carving
<1>2. CASE \E i \in DOMAIN regions : \E o \in Orders : Take(regions[i], req, o, n)
  <2>1. PICK i \in DOMAIN regions : \E o \in Orders : Take(regions[i], req, o, n)
    BY <1>2
  <2>2. PICK o \in Orders : Take(regions[i], req, o, n)
    BY <2>1
  <2> DEFINE r == regions[i]
             h == Head(free[r][o])
             s == Tail(free[r][o])
  <2>3. r \in Added
    BY DEF Added, ToSet
  <2>4. r \in Ranges /\ s \in Seq(Int) /\ h \in Int /\ h \in ToSet(free[r][o]) /\ Unlink(r, o, h, s)
    BY <2>2, <2>3, TakeUnlinks
  <2>5. PairOnce' /\ FreeBits'
    <3> HIDE DEF r, h, s
    <3> QED BY <2>4, UnlinkMerges DEF Merges, ListInv
  <2>6. op'.pc = "split"
    BY <2>2 DEF Take
  <2> QED BY <2>5, <2>6 DEF Merges, Carving
<1> QED BY <1>1, <1>2 DEF Allocate

\* A round of the merge loop takes the buddy off its list.
LEMMA MergeMerges ==
  ASSUME Inv, SafeUse, Merges, Merge
  PROVE  Merges'
<1> USE Parts
<1> DEFINE r == op.r
           k == op.ord
           h == mbase(op.r) + Flip(op.pfn, op.ord)
           s == RemoveFirst(free[r][k], h)
<1>1. r \in Ranges /\ k \in Orders /\ h \in ToSet(free[r][k]) /\ s \in Seq(Int) /\ Unlink(r, k, h, s)
  BY MergeUnlinks
<1>2. op'.pc = "merge"
  <2>1. op \in MergeOps /\ op.pc = "merge"
    BY OpKind DEF Merge
  <2> QED BY <2>1, MergeUnlinks DEF MergeOps
<1> HIDE DEF r, k, h, s
<1>3. h \in Int
  BY <1>1, ListedInt
<1>4. PairOnce' /\ FreeBits'
  BY <1>1, <1>3, UnlinkMerges DEF Merges, ListInv
<1> QED BY <1>2, <1>4 DEF Merges, Carving

\* The carve loop begins at the region's first usable page.
LEMMA DonateMerges ==
  ASSUME Merges, NEW r \in Ranges, DonateRange(r)
  PROVE  Merges'
<1>1. free' = free /\ bit' = bit /\ op = Idle /\ kbud_add_region(r)
  BY DEF DonateRange, Running
<1>2. PairOnce' /\ FreeBits'
  BY <1>1 DEF Merges, PairOnce, FreeBits
<1>3. CASE op' = op
  BY <1>1, <1>2, <1>3 DEF Merges, Carving, Idle
<1>4. CASE op' = [pc |-> "range", r |-> r, page |-> mbase(r), size |-> total_pages(r)]
  <2>1. op'.pc = "range" /\ op'.r = r /\ op'.page = mbase(r) /\ op'.size = total_pages(r)
    BY <1>4
  <2>2. mbase(r) \in Int /\ End(r) \in Int /\ total_pages(r) = End(r) - mbase(r)
    BY Layout
  <2>3. mbase(r) + total_pages(r) = End(r)
    BY <2>2
  <2>4. ASSUME NEW j \in Orders, NEW q \in 0 .. mbase(r) - 1
        PROVE  ~Block(r, q, j)
    BY <2>2 DEF Block
  <2>5. Carving'
    BY <2>1, <2>3, <2>4 DEF Carving
  <2> QED BY <2>5, <1>2 DEF Merges
<1> QED BY <1>1, <1>3, <1>4 DEF kbud_add_region

LEMMA NextMerges ==
  ASSUME LosesNothing, "kbud_free_range" \notin Calls, Keeps, Merges, [Next]_vars
  PROVE  Merges'
<1>1. Inv /\ Sound /\ Below /\ SafeUse
  BY AlignedIsSafe DEF Keeps
<1> USE DEF LosesNothing
<1>2. ASSUME free' = free, bit' = bit, op'.pc # "range"
      PROVE  Merges'
  BY <1>2 DEF Merges, PairOnce, FreeBits, Carving
<1>3. CASE UNCHANGED vars
  BY <1>3 DEF vars, Merges, PairOnce, FreeBits, Carving
<1>4. ASSUME NEW req \in Orders, kbud_alloc(req)
      PROVE  Merges'
  BY <1>1, <1>4, AllocateMerges DEF kbud_alloc, Running
<1>5. ASSUME NEW n \in RangePages, kbud_alloc_range(n)
      PROVE  Merges'
  <2>1. op = Idle
    BY <1>5 DEF kbud_alloc_range, Running
  <2>2. CASE \E req \in Orders : Allocate(req, n)
    BY <2>1, <2>2, <1>1, AllocateMerges
  <2> QED BY <2>2, <1>3, <1>5 DEF kbud_alloc_range
<1>6. ASSUME NEW b \in live, kbud_free(b)
      PROVE  Merges'
  <2>1. free' = free /\ bit' = bit
    BY <1>6 DEF kbud_free
  <2>2. PICK r \in find_valid_slave(b.page) :
          op' = [pc |-> "merge", r |-> r, pfn |-> kbud_pfnum(r, b.page), ord |-> b.order]
    BY <1>6, HeldIsFound DEF kbud_free, Keeps
  <2>3. op'.pc = "merge"
    BY <2>2
  <2> QED BY <2>1, <2>3, <1>2
<1>7. ASSUME NEW b \in live, kbud_free_range(b)
      PROVE  Merges'
  BY <1>7 DEF kbud_free_range
<1>8. CASE AllocReturns \/ RangeReturns
  BY <1>2, <1>8 DEF AllocReturns, RangeReturns, Idle
<1>9. CASE Split
  BY <1>1, <1>9, SplitMerges
<1>10. CASE Merge
  BY <1>1, <1>10, MergeMerges
<1>11. CASE FreeReturns
  BY <1>1, <1>11, FreeReturnsMerges
<1>12. CASE CarveBlock
  BY <1>1, <1>12, CarveMerges
<1>13. ASSUME NEW r \in Ranges, DonateRange(r)
       PROVE  Merges'
  BY <1>13, DonateMerges
<1> QED BY <1>3, <1>4, <1>5, <1>6, <1>7, <1>8, <1>9, <1>10, <1>11, <1>12, <1>13
    DEF Next, ClientCall, LoopStep

LEMMA InitMerges == Init => Merges
<1> SUFFICES ASSUME Init
             PROVE  Merges
  OBVIOUS
<1>1. op.pc # "range"
  BY DEF Init, Idle
<1>2. \A r \in Ranges, k \in Orders : ToSet(free[r][k]) = {}
  BY DEF Init, ToSet
<1> QED BY <1>1, <1>2 DEF Merges, PairOnce, FreeBits, Carving

\* Below a region's largest order no two buddies are ever free at once.
THEOREM AlwaysMerges ==
  ASSUME LosesNothing, "kbud_free_range" \notin Calls
  PROVE  Spec => [](Keeps /\ Merges)
<1>1. Init => Keeps /\ Merges
  BY InitKeeps, InitMerges
<1>2. Keeps /\ Merges /\ [Next]_vars => Keeps' /\ Merges'
  BY NextKeeps, NextMerges
<1> QED BY <1>1, <1>2, PTL DEF Spec

-----------------------------------------------------------------------------
(***************************************************************************)
(* The second result: splitting and merging undo each other.               *)
(***************************************************************************)

\* With nothing held and no call under way a usable page is in a free block.
LEMMA FreeThere ==
  ASSUME Keeps, op = Idle, live = {}, NEW r \in Added, NEW x \in Int, mbase(r) <= x, x < End(r)
  PROVE  \E k \in Orders : \E p \in ToSet(free[r][k]) :
           p \in Int /\ Block(r, p, k) /\ p <= x /\ x < p + 2^k
<1>1. Inv /\ Covered
  BY DEF Keeps
<1> USE <1>1, Parts
<1>2. r \in Ranges /\ mbase(r) \in Int /\ End(r) \in Int /\ r.base \in Int /\ r.base < mbase(r)
  BY AddedRange, Layout
<1>3. x \in mbase(r) .. End(r) - 1
  BY <1>2
<1>4. PICK t \in Tiles : At(t, x)
  BY <1>3 DEF Covered, Reached
<1>5. t \in FreeTiles
  BY DEF Tiles, LiveTiles, HandTiles, Idle
<1>6. PICK s \in Ranges, k \in Orders : \E p \in ToSet(free[s][k]) : t = FTile(p, k)
  BY <1>5, FreeTile DEF FreeTiles
<1>7. PICK p \in ToSet(free[s][k]) : t = FTile(p, k)
  BY <1>6
<1>8. p <= x /\ x < p + 2^k
  BY <1>4, <1>7 DEF At, FTile
<1>9. p \in Int /\ Block(s, p, k)
  BY ListedInt DEF ListInv, FreeOK
<1>10. s.base <= p /\ p + 2^k <= End(s)
  BY <1>9, BlockInRegion
<1>11. s.base \in Int /\ End(s) \in Int /\ 2^k \in Nat
  BY Layout, Powers
<1>12. s = r
  <2>1. s.base <= x /\ x < End(s) /\ r.base <= x
    BY <1>2, <1>8, <1>9, <1>10, <1>11
  <2> QED BY <2>1, <1>2, OneRegion
<1> QED BY <1>7, <1>8, <1>9, <1>12

\* Two free blocks that share a page are the same block.
LEMMA FreeOnce ==
  ASSUME Inv, NEW r \in Ranges, NEW j \in Orders, NEW k \in Orders,
         NEW a \in ToSet(free[r][j]), NEW b \in ToSet(free[r][k]), NEW x \in Int,
         a <= x, x < a + 2^j, b <= x, x < b + 2^k
  PROVE  a = b /\ j = k
<1> USE Parts
<1>1. a \in Int /\ b \in Int /\ 2^j \in Nat /\ 2^k \in Nat
  BY ListedInt, Powers
<1>2. FTile(a, j) \in Tiles /\ FTile(b, k) \in Tiles
  BY FreeTile DEF Tiles, FreeTiles
<1>3. FTile(a, j) = FTile(b, k) \/ Apart(FTile(a, j), FTile(b, k))
  BY <1>2 DEF TilesApart, AllApart
<1>4. ~Apart(FTile(a, j), FTile(b, k))
  <2>1. ~(a + 2^j <= b) /\ ~(b + 2^k <= a)
    BY <1>1
  <2> QED BY <2>1 DEF Apart, FTile
<1>5. a = b /\ 2^j = 2^k
  BY <1>3, <1>4 DEF FTile
<1> QED BY <1>5, Powers

\* With everything given back, every block that fits the region lies in a
\* free one: the smallest free block inside it would have a free buddy.
LEMMA NoSmall ==
  ASSUME Keeps, Merges, AlignedRegions, op = Idle, live = {},
         NEW r \in Added, NEW K \in Orders, NEW q \in Int, Block(r, q, K)
  PROVE  \E k \in Orders : \E p \in ToSet(free[r][k]) :
           K <= k /\ p <= q /\ q + 2^K <= p + 2^k /\ p \in Int /\ Block(r, p, k)
<1> DEFINE Within(k, p) == q <= p /\ p + 2^k <= q + 2^K
           T == {k \in Orders : k < K /\ \E p \in ToSet(free[r][k]) : Within(k, p)}
<1> SUFFICES ASSUME \A k \in Orders : \A p \in ToSet(free[r][k]) :
                      p \in Int /\ Block(r, p, k) =>
                        ~(K <= k /\ p <= q /\ q + 2^K <= p + 2^k)
             PROVE  FALSE
  OBVIOUS
<1>1. Inv
  BY DEF Keeps
<1> USE <1>1, Parts
<1>2. /\ r \in Ranges /\ mbase(r) \in Int /\ End(r) \in Int /\ 2^K \in Nat \ {0}
      /\ max_order(r) \in Orders
  BY AddedRange, Layout, Powers
<1>3. q % 2^K = 0 /\ mbase(r) <= q /\ q + 2^K <= End(r) /\ K <= max_order(r)
  BY DEF Block
<1>4. ASSUME NEW x \in Int, q <= x, x < q + 2^K
      PROVE  \E k \in Orders : \E p \in ToSet(free[r][k]) :
               k < K /\ p \in Int /\ Block(r, p, k) /\ p <= x /\ x < p + 2^k /\ Within(k, p)
  <2>1. mbase(r) <= x /\ x < End(r)
    BY <1>2, <1>3, <1>4
  <2>2. PICK k \in Orders : \E p \in ToSet(free[r][k]) :
               p \in Int /\ Block(r, p, k) /\ p <= x /\ x < p + 2^k
    BY <2>1, FreeThere
  <2>3. PICK p \in ToSet(free[r][k]) : p \in Int /\ Block(r, p, k) /\ p <= x /\ x < p + 2^k
    BY <2>2
  <2>4. p % 2^k = 0
    BY <2>3 DEF Block
  <2>5. CASE K <= k
    <3>1. p <= q /\ q + 2^K <= p + 2^k
      BY <2>3, <2>4, <2>5, <1>3, <1>4, Nested
    <3> QED BY <3>1, <2>3, <2>5
  <2>6. CASE k < K
    <3>1. k <= K
      BY <2>6 DEF Orders
    <3>2. q <= p /\ p + 2^k <= q + 2^K
      BY <3>1, <2>3, <2>4, <1>3, <1>4, Nested
    <3> QED BY <3>2, <2>3, <2>6
  <2> QED BY <2>5, <2>6 DEF Orders
<1>5. T # {}
  <2>1. q <= q /\ q < q + 2^K
    BY <1>2
  <2> QED BY <2>1, <1>4
<1>6. PICK k \in T : \A j \in T : k <= j
  <2>1. T \subseteq Nat
    BY Powers
  <2> HIDE DEF T
  <2> QED BY <2>1, <1>5, Least
<1>7. PICK p \in ToSet(free[r][k]) : Within(k, p)
  OBVIOUS
<1> DEFINE w == 2^k
           v == 2^(k + 1)
           c == ClearBit(p, k)
           b == Flip(p, k)
<1>8. k \in Orders /\ k < K /\ k < max_order(r) /\ k + 1 \in Orders /\ k + 1 <= K
  BY <1>2, <1>3, OrderAssumption DEF Orders
<1>9. p \in Int /\ p % w = 0
  BY <1>2, <1>8, ListedInt DEF ListInv, FreeOK, Block
<1>10. w \in Nat \ {0} /\ v = 2 * w
  BY <1>8, Powers
<1>11. /\ c % v = 0
       /\ \/ b = p + w /\ c = p
          \/ b = p - w /\ c = p - w
  <2>1. 2^k \in Nat \ {0} /\ 2^(k + 1) = 2 * 2^k /\ p % 2^k = 0
    BY <1>9, <1>10
  <2> QED BY <2>1, <1>9, BuddyOf
<1>12. b % w = 0
  <2>1. w % w = 0 /\ w \in Int
    BY <1>10
  <2> HIDE DEF w, b, c
  <2>2. (p + w) % w = 0
    BY <2>1, <1>9, <1>10, SumMod
  <2>3. (p - w) % w = 0
    BY <2>1, <1>9, <1>10, SumMod
  <2> QED BY <2>2, <2>3, <1>11
<1> HIDE DEF b, c, T
<1>13. /\ b \in Int /\ c \in Int /\ b # p
       /\ c <= p /\ p < c + v /\ c <= b /\ b < c + v /\ b + w <= c + v /\ b < b + w /\ p < p + w
       /\ (b = c /\ p = c + w) \/ (p = c /\ b = c + w)
  <2> HIDE DEF w, v
  <2> QED BY <1>9, <1>10, <1>11
<1>14. q <= c /\ c + v <= q + 2^K
  <2>1. q <= p /\ p < q + 2^K
    <3>1. q <= p /\ p + w <= q + 2^K
      BY <1>7
    <3> HIDE DEF w
    <3> QED BY <3>1, <1>2, <1>9, <1>10
  <2> QED BY <2>1, <1>3, <1>8, <1>9, <1>11, <1>13, Nested
<1>15. q <= b /\ b < q + 2^K
  <2> HIDE DEF w, v
  <2> QED BY <1>2, <1>10, <1>13, <1>14
<1>16. PICK j \in Orders : \E s \in ToSet(free[r][j]) :
         j < K /\ s \in Int /\ Block(r, s, j) /\ s <= b /\ b < s + 2^j /\ Within(j, s)
  BY <1>4, <1>13, <1>15
<1>17. PICK s \in ToSet(free[r][j]) :
         j < K /\ s \in Int /\ Block(r, s, j) /\ s <= b /\ b < s + 2^j /\ Within(j, s)
  BY <1>16
<1>18. k <= j
  <2>1. j \in T
    BY <1>17 DEF T
  <2> QED BY <2>1, <1>6
<1>19. s % 2^j = 0 /\ 2^j \in Nat \ {0}
  BY <1>17, Powers DEF Block
<1>20. CASE k = j
  <2>1. s <= b /\ b + w <= s + w
    <3>1. b <= b /\ b < b + 2^k
      BY <1>13
    <3>2. s <= b /\ b + 2^k <= s + 2^j
      BY <3>1, <1>8, <1>12, <1>13, <1>17, <1>18, <1>19, Nested
    <3> QED BY <3>2, <1>20
  <2>2. s = b
    <3> HIDE DEF w
    <3> QED BY <2>1, <1>10, <1>13, <1>17
  <2>3. Pair(r, c, k) = Pair(r, c + w, k)
    BY <1>2, <1>8, <1>11, <1>13, HalvesPair
  <2>4. Pair(r, p, k) = Pair(r, b, k)
    BY <2>3, <1>13
  <2>5. p = b
    BY <2>2, <2>4, <1>2, <1>8, <1>20 DEF Merges, PairOnce
  <2> QED BY <2>5, <1>13
<1>21. CASE k < j
  <2>1. k + 1 <= j
    BY <1>8, <1>21 DEF Orders
  <2>2. s <= c /\ c + v <= s + 2^j
    BY <2>1, <1>8, <1>11, <1>13, <1>17, <1>19, Nested
  <2>3. s <= p /\ p < s + 2^j /\ p <= p /\ p < p + w
    <3> HIDE DEF w, v
    <3> QED BY <2>2, <1>9, <1>10, <1>13, <1>17, <1>19
  <2>4. k = j
    BY <2>3, <1>2, <1>8, <1>9, FreeOnce
  <2> QED BY <2>4, <1>21, <1>8 DEF Orders
<1> QED BY <1>18, <1>20, <1>21, <1>8 DEF Orders

\* The block of the next order that a page lies in.
LEMMA Parent ==
  ASSUME NEW k \in Orders, k + 1 \in Orders, NEW p \in Int
  PROVE  LET v == 2^(k + 1)
             q == (p \div v) * v
         IN  q \in Int /\ q % v = 0 /\ q <= p /\ p < q + v
<1> DEFINE v == 2^(k + 1)
           q == (p \div v) * v
<1>1. v \in Nat \ {0}
  BY Powers
<1> HIDE DEF v
<1>2. p \div v \in Int /\ p % v \in 0 .. v - 1 /\ p = v * (p \div v) + (p % v)
  BY <1>1, DivMod
<1>3. q \in Int /\ p = q + (p % v)
  BY <1>1, <1>2
<1>4. q % v = 0
  BY <1>1, <1>2, <1>3, MultipleMod
<1>5. q <= p /\ p < q + v
  <2> HIDE DEF q
  <2> QED BY <1>1, <1>2, <1>3
<1> QED BY <1>3, <1>4, <1>5 DEF v

LEMMA MergedIsFresh ==
  ASSUME Keeps, Merges, AlignedRegions
  PROVE  Restores
<1> SUFFICES ASSUME op = Idle, live = {}, NEW r \in Added, NEW k \in Orders
             PROVE  ToSet(free[r][k]) = FreshBlocks(r, k)
  BY DEF Restores
<1>1. Inv
  BY DEF Keeps
<1> USE <1>1, Parts
<1>2. /\ r \in Ranges /\ mbase(r) \in Int /\ End(r) \in Int /\ 2^k \in Nat \ {0}
      /\ max_order(r) \in Orders
  BY AddedRange, Layout, Powers
<1> DEFINE v == 2^(k + 1)
           q(p) == (p \div v) * v
<1>3. ASSUME NEW p \in Int, k < max_order(r)
      PROVE  /\ k + 1 \in Orders /\ k + 1 <= max_order(r) /\ v \in Nat
             /\ q(p) \in Int /\ q(p) % v = 0 /\ q(p) <= p /\ p < q(p) + v
  <2>1. k + 1 \in Orders /\ k + 1 <= max_order(r)
    BY <1>2, <1>3, OrderAssumption DEF Orders
  <2> QED BY <2>1, Parent, Powers
<1>4. ASSUME NEW p \in ToSet(free[r][k])
      PROVE  p \in FreshBlocks(r, k)
  <2>1. p \in Int /\ Block(r, p, k)
    BY <1>2, ListedInt DEF ListInv, FreeOK
  <2>2. p \in mbase(r) .. End(r) - 2^k /\ p % 2^k = 0 /\ k <= max_order(r)
    BY <1>2, <2>1 DEF Block
  <2>3. ASSUME k < max_order(r), mbase(r) <= q(p), q(p) + v <= End(r)
        PROVE  FALSE
    <3>1. /\ k + 1 \in Orders /\ k + 1 <= max_order(r) /\ v \in Nat
          /\ q(p) \in Int /\ q(p) % v = 0 /\ q(p) <= p /\ p < q(p) + v
      BY <1>3, <2>1, <2>3
    <3>2. Block(r, q(p), k + 1)
      BY <2>3, <3>1 DEF Block
    <3>3. PICK j \in Orders : \E s \in ToSet(free[r][j]) :
            k + 1 <= j /\ s <= q(p) /\ q(p) + v <= s + 2^j /\ s \in Int /\ Block(r, s, j)
      <4> HIDE DEF q
      <4> QED BY <3>1, <3>2, NoSmall
    <3>4. PICK s \in ToSet(free[r][j]) :
            k + 1 <= j /\ s <= q(p) /\ q(p) + v <= s + 2^j /\ s \in Int
      BY <3>3
    <3>5. s <= p /\ p < s + 2^j /\ p <= p /\ p < p + 2^k
      <4>1. 2^j \in Nat
        BY Powers
      <4> HIDE DEF q, v
      <4> QED BY <4>1, <3>1, <3>4, <2>1, <1>2
    <3>6. k = j
      BY <3>5, <2>1, <1>2, FreeOnce
    <3> QED BY <3>4, <3>6 DEF Orders
  <2>4. k = max_order(r) \/ q(p) < mbase(r) \/ q(p) + v > End(r)
    <3>1. k < max_order(r) => q(p) \in Int /\ v \in Nat
      BY <1>3, <2>1
    <3>2. k = max_order(r) \/ k < max_order(r)
      BY <2>2, <1>2 DEF Orders
    <3> HIDE DEF q, v
    <3> QED BY <2>3, <3>1, <3>2, <1>2
  <2> QED BY <2>2, <2>4 DEF FreshBlocks
<1>5. ASSUME NEW p \in FreshBlocks(r, k)
      PROVE  p \in ToSet(free[r][k])
  <2>1. /\ p \in mbase(r) .. End(r) - 2^k /\ p % 2^k = 0 /\ k <= max_order(r)
        /\ k = max_order(r) \/ q(p) < mbase(r) \/ q(p) + v > End(r)
    BY DEF FreshBlocks
  <2>2. p \in Int /\ Block(r, p, k)
    BY <2>1, <1>2 DEF Block
  <2>3. PICK j \in Orders : \E s \in ToSet(free[r][j]) :
          k <= j /\ s <= p /\ p + 2^k <= s + 2^j /\ s \in Int /\ Block(r, s, j)
    BY <2>2, NoSmall
  <2>4. PICK s \in ToSet(free[r][j]) :
          k <= j /\ s <= p /\ p + 2^k <= s + 2^j /\ s \in Int /\ Block(r, s, j)
    BY <2>3
  <2>5. CASE k = j
    <3>1. s = p
      BY <2>2, <2>4, <2>5, <1>2
    <3> QED BY <3>1, <2>5
  <2>6. CASE k < j
    <3>1. s % 2^j = 0 /\ j <= max_order(r) /\ mbase(r) <= s /\ s + 2^j <= End(r)
          /\ 2^j \in Nat \ {0}
      BY <2>4, Powers DEF Block
    <3>2. k < max_order(r) /\ k + 1 <= j
      BY <3>1, <2>6, <1>2 DEF Orders
    <3>3. /\ k + 1 \in Orders /\ v \in Nat
          /\ q(p) \in Int /\ q(p) % v = 0 /\ q(p) <= p /\ p < q(p) + v
      BY <1>3, <2>2, <3>2
    <3>4. s <= p /\ p < s + 2^j
      BY <2>2, <2>4, <3>1, <1>2
    <3>5. s <= q(p) /\ q(p) + v <= s + 2^j
      <4> HIDE DEF q
      <4> QED BY <3>1, <3>2, <3>3, <3>4, <2>2, <2>4, Nested
    <3>6. mbase(r) <= q(p) /\ q(p) + v <= End(r)
      <4> HIDE DEF q, v
      <4> QED BY <3>1, <3>3, <3>5, <2>4, <1>2
    <3>7. k # max_order(r)
      BY <3>2 DEF Orders
    <3> HIDE DEF q, v
    <3> QED BY <3>3, <3>6, <3>7, <2>1, <1>2
  <2> QED BY <2>4, <2>5, <2>6 DEF Orders
<1> QED BY <1>4, <1>5

\* Where the allocator loses nothing and callers give blocks back by
\* kbud_free() alone, giving everything back restores each region's fresh
\* lists: the merge loop undoes every split.
THEOREM SplitMergeUndo ==
  ASSUME LosesNothing, "kbud_free_range" \notin Calls
  PROVE  Spec => []Restores
<1>1. AlignedRegions
  BY DEF LosesNothing
<1>2. Keeps /\ Merges => Restores
  BY <1>1, MergedIsFresh
<1> QED BY <1>2, AlwaysMerges, PTL

=============================================================================
