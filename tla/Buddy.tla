-------------------------------- MODULE Buddy --------------------------------
(***************************************************************************)
(* The physical page allocator of kernel/mm/buddy.c.                       *)
(*                                                                         *)
(* Addresses and lengths are counted in pages: every byte address and      *)
(* length that reaches the allocator goes through PAGE_ALIGNUP or          *)
(* PAGE_ALIGNDOWN first.  A region of memory is the record [base, len] of  *)
(* the kbud_free_range() call that brings it in; its header (slave_buddy_t *)
(* and bitmaps) takes the first pages of it, as kbud_init_region() lays    *)
(* out.  order_blk_cnt[k] is Len(free[r][k]): the three list operations    *)
(* of the code change both together.                                       *)
(*                                                                         *)
(* The kernel runs one thread and takes no interrupt it returns from, so   *)
(* a call runs to its end before the next one begins.  The three loops of  *)
(* the code (split, merge, carve a range) are steps of the call in `op';   *)
(* no other call starts while one is under way.                            *)
(***************************************************************************)
EXTENDS Integers, Sequences, SequencesExt

CONSTANTS
  PFRAME_MAX_ORDER,    \* orders are 0 .. PFRAME_MAX_ORDER-1 (11 in buddy.h)
  PFRAME_MAX_REGIONS,  \* slots of MASTER_BUDDY.regions (128 in buddy.h)
  Ranges,              \* memory that may be handed to kbud_free_range()
  RangePages,          \* page counts clients ask of kbud_alloc_range()
  Calls                \* client calls in use, a subset of ClientCalls

ClientCalls == {"kbud_alloc", "kbud_alloc_range", "kbud_free", "kbud_free_range"}

Orders == 0 .. PFRAME_MAX_ORDER - 1

ASSUME OrderAssumption == PFRAME_MAX_ORDER \in Nat \ {0}

ASSUME RegionsAssumption == PFRAME_MAX_REGIONS \in Nat \ {0}

ASSUME CallsAssumption == Calls \subseteq ClientCalls /\ RangePages \subseteq Nat

\* Entries of the memory map: page ranges that share no page.
ASSUME RangesAssumption ==
  /\ Ranges \subseteq [base : Nat, len : Nat \ {0}]
  /\ \A r, s \in Ranges :
       r # s => r.base + r.len <= s.base \/ s.base + s.len <= r.base

-----------------------------------------------------------------------------
(***************************************************************************)
(* Layout of a region: kbud_init_region().                                 *)
(***************************************************************************)
PAGESIZE     == 4096
BITMAP_ALIGN == 64
HEADER_BYTES == 400      \* sizeof(slave_buddy_t), a multiple of 8

maxbits(r, k) == r.len \div 2^(k + 1)

BitmapBytes(r, k) ==
  (((maxbits(r, k) + 7) \div 8 + BITMAP_ALIGN - 1) \div BITMAP_ALIGN) * BITMAP_ALIGN

HeaderPages(r) ==
  LET bytes == HEADER_BYTES + MapThenSumSet(LAMBDA k : BitmapBytes(r, k), Orders)
  IN  (bytes + PAGESIZE - 1) \div PAGESIZE

mbase(r) == r.base + HeaderPages(r)

End(r) == r.base + r.len

\* Variant: the header is not taken off the page count.
total_pages_NoHeader(r) == r.len

total_pages(r) == End(r) - mbase(r)

max_order(r) ==
  IF maxbits(r, 0) = 0 THEN 0 ELSE Max({k \in Orders : maxbits(r, k) > 0})

\* The header leaves no page: kbud_mark_invalid().
Useless(r) == mbase(r) >= End(r)

\* Facts on powers of two and on the layout that the proofs use.
ASSUME PowersAssumption ==
  \A k \in 0 .. PFRAME_MAX_ORDER :
    /\ 2^k \in Nat \ {0}
    /\ 2^(k + 1) = 2 * 2^k
    /\ \A j \in 0 .. k - 1 : 2^j < 2^k
    /\ \A j \in 0 .. k : \E q \in 1 .. 2^k : 2^k = q * 2^j

ASSUME LayoutAssumption ==
  \A r \in Ranges : HeaderPages(r) \in Nat \ {0} /\ max_order(r) \in Orders

-----------------------------------------------------------------------------
VARIABLES
  regions,      \* MASTER_BUDDY.regions, in table order
  region_count, \* MASTER_BUDDY.region_count
  free,         \* free[r][k]: the list of free blocks of order k, head first
  bit,          \* bit[r][k]: the pair indices whose bitmap bit is set
  op,           \* the call under way and the locals of its loop
  live,         \* blocks the callers hold: [page, order, n pages asked for]
  fault         \* why the kernel stopped, or "none"

vars == <<regions, region_count, free, bit, op, live, fault>>

Added == ToSet(regions)

\* The word of 64 ones that KPAGE_ERR leaves when stored into an integer.
AllOnes == -1

Idle == [pc |-> "idle"]

SplitOps == [pc : {"split"}, r : Ranges, page : Int, ord : Orders, req : Orders, n : Nat]
MergeOps == [pc : {"merge"}, r : Ranges, pfn : Int, ord : 0 .. PFRAME_MAX_ORDER]
RangeOps == [pc : {"range"}, r : Ranges, page : Int, size : Nat]

Init ==
  /\ regions = <<>>
  /\ region_count = 0
  /\ free = [r \in Ranges |-> [k \in Orders |-> <<>>]]
  /\ bit = [r \in Ranges |-> [k \in Orders |-> {}]]
  /\ op = Idle
  /\ live = {}
  /\ fault = "none"

-----------------------------------------------------------------------------
(***************************************************************************)
(* Helpers on page frame numbers and bitmaps.  A page frame number is      *)
(* relative to mbase; a page below mbase gives a number past every bitmap  *)
(* (the subtraction wraps), here a negative one.                           *)
(***************************************************************************)
kbud_pfnum(r, page) == page - mbase(r)

kbud_pair_idx(pfn, k) == pfn \div 2^(k + 1)

\* Variant: the last pair of an order is refused.
buddy_bit_chk_LastPair(r, pfn, k) ==
  k <= max_order(r) /\ pfn >= 0 /\ kbud_pair_idx(pfn, k) + 1 < maxbits(r, k)

buddy_bit_chk(r, pfn, k) ==
  /\ k <= max_order(r)
  /\ pfn >= 0
  /\ kbud_pair_idx(pfn, k) < maxbits(r, k)

buddy_bit_get(r, pfn, k) == kbud_pair_idx(pfn, k) \in bit[r][k]

\* x ^ (1 << k)
Flip(x, k) == IF (x \div 2^k) % 2 = 0 THEN x + 2^k ELSE x - 2^k

\* x & ~(1 << k)
ClearBit(x, k) == IF (x \div 2^k) % 2 = 0 THEN x ELSE x - 2^k

\* k is the smallest order whose block holds n pages.
kbud_byte_order(n, k) == n <= 2^k /\ \A j \in 0 .. k - 1 : 2^j < n

-----------------------------------------------------------------------------
(***************************************************************************)
(* The list operations.                                                    *)
(***************************************************************************)
kbud_push(r, page, k) ==
  LET pfn == kbud_pfnum(r, page)
  IN  IF buddy_bit_chk(r, pfn, k)
      THEN /\ free' = [free EXCEPT ![r][k] = Cons(page, @)]
           /\ bit' = [bit EXCEPT ![r][k] = @ \cup {kbud_pair_idx(pfn, k)}]
      ELSE UNCHANGED <<free, bit>>

\* The caller has looked at the bit; the walk stops at the first match.  The
\* bit goes even if the list is empty: kbud_free() clears it after the call.
kbud_pop(r, page, k) ==
  /\ free' = [free EXCEPT ![r][k] = RemoveFirst(@, page)]
  /\ bit' = [bit EXCEPT ![r][k] = @ \ {kbud_pair_idx(kbud_pfnum(r, page), k)}]

\* A NULL head gives a page frame number past every bitmap.
HeadPops(r, k) ==
  /\ free[r][k] # <<>>
  /\ buddy_bit_chk(r, kbud_pfnum(r, Head(free[r][k])), k)

\* Variant: the pair's bit stays set.
kbud_pop_head_StaleBit(r, k) ==
  free' = [free EXCEPT ![r][k] = Tail(@)] /\ UNCHANGED bit

kbud_pop_head(r, k) ==
  /\ free' = [free EXCEPT ![r][k] = Tail(@)]
  /\ bit' = [bit EXCEPT ![r][k] =
               @ \ {kbud_pair_idx(kbud_pfnum(r, Head(free[r][k])), k)}]

-----------------------------------------------------------------------------
(***************************************************************************)
(* Finding the region of an address: find_valid_slave().  The table is     *)
(* sorted, so the binary search of find_buddy_slave() ends on the last     *)
(* region whose base is not above the address.  At most one region.        *)
(***************************************************************************)
find_buddy_slave(page) ==
  {r \in Added : /\ region_count # AllOnes
                 /\ r.base <= page
                 /\ \A s \in Added : s.base <= page => s.base <= r.base}

find_valid_slave(page) == {r \in find_buddy_slave(page) : page < mbase(r) + total_pages(r)}

-----------------------------------------------------------------------------
(***************************************************************************)
(* kbud_alloc() and kbud_alloc_range(): the first region with a block to   *)
(* pop, the smallest order that has one; then the block is halved.         *)
(***************************************************************************)

\* Variant: the search gives up one order early.
StopsAt_Early(r, req, o) ==
  /\ o \in Orders /\ req <= o
  /\ free[r][o] # <<>> \/ o + 1 >= max_order(r)
  /\ \A k \in req .. o - 1 : free[r][k] = <<>> /\ k + 1 < max_order(r)

\* The order at which the search from req stops in region r.
StopsAt(r, req, o) ==
  /\ o \in Orders /\ req <= o
  /\ free[r][o] # <<>> \/ o >= max_order(r)
  /\ \A k \in req .. o - 1 : free[r][k] = <<>> /\ k < max_order(r)

Serves(r, req, o) == StopsAt(r, req, o) /\ HeadPops(r, o)

NoneServes(req) == \A r \in Added, o \in Orders : ~Serves(r, req, o)

Take(r, req, o, n) ==
  /\ Serves(r, req, o)
  /\ kbud_pop_head(r, o)
  /\ op' = [pc |-> "split", r |-> r, page |-> Head(free[r][o]),
            ord |-> o, req |-> req, n |-> n]
  /\ UNCHANGED <<regions, region_count, live, fault>>

\* No region serves: KPAGE_ERR, unless the count is corrupt and the loop
\* runs on past the table.
Refuse(req) ==
  /\ NoneServes(req)
  /\ fault' = IF region_count = AllOnes THEN "walked past regions[]" ELSE "none"
  /\ UNCHANGED <<regions, region_count, free, bit, op, live>>

Allocate(req, n) ==
  \/ \E i \in DOMAIN regions : \E o \in Orders :
       /\ \A j \in 1 .. i - 1 : \A k \in Orders : ~Serves(regions[j], req, k)
       /\ Take(regions[i], req, o, n)
  \/ Refuse(req)

Running == op = Idle /\ fault = "none"

\* The caller sees an order at or above PFRAME_MAX_ORDER refused.
kbud_alloc(req) == "kbud_alloc" \in Calls /\ Running /\ Allocate(req, 2^req)

kbud_alloc_range(n) ==
  /\ "kbud_alloc_range" \in Calls
  /\ Running
  /\ \/ \E req \in Orders : kbud_byte_order(n, req) /\ Allocate(req, n)
     \/ (\A req \in Orders : ~kbud_byte_order(n, req)) /\ UNCHANGED vars

\* Variant: the half that the call keeps goes back.
Split_KeptHalf ==
  /\ op.pc = "split"
  /\ op.ord > op.req
  /\ kbud_push(op.r, op.page, op.ord - 1)
  /\ op' = [op EXCEPT !.ord = @ - 1]
  /\ UNCHANGED <<regions, region_count, live, fault>>

\* One round of the split loop: the upper half goes back.
Split ==
  /\ op.pc = "split"
  /\ op.ord > op.req
  /\ kbud_push(op.r, Flip(op.page, op.ord - 1), op.ord - 1)
  /\ op' = [op EXCEPT !.ord = @ - 1]
  /\ UNCHANGED <<regions, region_count, live, fault>>

AllocReturns ==
  /\ op.pc = "split"
  /\ op.ord = op.req
  /\ live' = live \cup {[page |-> op.page, order |-> op.ord, n |-> op.n]}
  /\ op' = Idle
  /\ UNCHANGED <<regions, region_count, free, bit, fault>>

-----------------------------------------------------------------------------
(***************************************************************************)
(* kbud_free(): merge with the free buddy, order by order, then push.      *)
(***************************************************************************)
kbud_free(b) ==
  /\ "kbud_free" \in Calls
  /\ Running
  /\ live' = live \ {b}
  /\ IF find_valid_slave(b.page) = {}
     THEN op' = op
     ELSE \E r \in find_valid_slave(b.page) :
            op' = [pc |-> "merge", r |-> r, pfn |-> kbud_pfnum(r, b.page), ord |-> b.order]
  /\ UNCHANGED <<regions, region_count, free, bit, fault>>

\* Variant: the bit is not looked at.
Mergeable_NoBit(r, pfn, k) ==
  LET bpfn == Flip(pfn, k)
  IN  k < PFRAME_MAX_ORDER - 1 /\ bpfn < total_pages(r) /\ buddy_bit_chk(r, bpfn, k)

\* Variant: merging stops one order early.
Mergeable_Early(r, pfn, k) ==
  LET bpfn == Flip(pfn, k)
  IN  /\ k < PFRAME_MAX_ORDER - 2
      /\ bpfn < total_pages(r)
      /\ buddy_bit_chk(r, bpfn, k)
      /\ buddy_bit_get(r, bpfn, k)

Mergeable(r, pfn, k) ==
  LET bpfn == Flip(pfn, k)
  IN  /\ k < PFRAME_MAX_ORDER - 1
      /\ bpfn < total_pages(r)
      /\ buddy_bit_chk(r, bpfn, k)
      /\ buddy_bit_get(r, bpfn, k)

\* Variant: neither the order nor the bit changes.
Merge_Spins ==
  LET bpfn == Flip(op.pfn, op.ord)
  IN  /\ op.pc = "merge"
      /\ fault = "none"
      /\ Mergeable(op.r, op.pfn, op.ord)
      /\ free' = [free EXCEPT ![op.r][op.ord] = RemoveFirst(@, mbase(op.r) + bpfn)]
      /\ op' = [op EXCEPT !.pfn = ClearBit(@, op.ord)]
      /\ UNCHANGED <<regions, region_count, bit, live, fault>>

\* One round of the merge loop.  kbud_pop() does nothing on an empty list,
\* which the loop does not notice; on a list without the buddy it walks off
\* the end.
Merge ==
  LET bpfn == Flip(op.pfn, op.ord)
      lost == free[op.r][op.ord] # <<>>
              /\ mbase(op.r) + bpfn \notin ToSet(free[op.r][op.ord])
  IN  /\ op.pc = "merge"
      /\ fault = "none"
      /\ Mergeable(op.r, op.pfn, op.ord)
      /\ UNCHANGED <<regions, region_count, live>>
      /\ \/ /\ ~lost
            /\ kbud_pop(op.r, mbase(op.r) + bpfn, op.ord)
            /\ op' = [op EXCEPT !.pfn = ClearBit(@, op.ord), !.ord = @ + 1]
            /\ UNCHANGED fault
         \/ /\ lost
            /\ fault' = "free addr not found in free list"
            /\ UNCHANGED <<free, bit, op>>

FreeReturns ==
  /\ op.pc = "merge"
  /\ ~Mergeable(op.r, op.pfn, op.ord)
  /\ kbud_push(op.r, mbase(op.r) + op.pfn, op.ord)
  /\ op' = Idle
  /\ UNCHANGED <<regions, region_count, live, fault>>

-----------------------------------------------------------------------------
(***************************************************************************)
(* kbud_free_range(): memory of a known region goes back to its lists,     *)
(* other memory becomes a region.                                          *)
(***************************************************************************)

\* Variant: the sort compares the wrong way round.
Slot_Descending(r, i) ==
  /\ i > 1 => regions[i - 1].base >= r.base
  /\ \A j \in i .. Len(regions) : regions[j].base < r.base

\* kbud_add_region(): the insertion sort leaves the new entry in slot i.
Slot(r, i) ==
  /\ i > 1 => regions[i - 1].base <= r.base
  /\ \A j \in i .. Len(regions) : regions[j].base > r.base

\* Storing the terminator after the last slot overwrites region_count.
CountAfterAdd ==
  IF region_count + 1 = PFRAME_MAX_REGIONS THEN AllOnes ELSE region_count + 1

\* The test for a full table never fires: a full table reads as AllOnes, and
\* AllOnes + 1 wraps to 0.
kbud_add_region(r) ==
  \/ /\ region_count = AllOnes
     /\ fault' = "walked past regions[]"
     /\ UNCHANGED <<regions, region_count, op>>
  \/ /\ region_count # AllOnes
     /\ \E i \in 1 .. Len(regions) + 1 : Slot(r, i) /\ regions' = InsertAt(regions, i, r)
     /\ region_count' = CountAfterAdd
     /\ \/ /\ Useless(r)
           /\ fault' = "wrote through the header of an invalid region"
           /\ op' = op
        \/ /\ ~Useless(r)
           /\ op' = [pc |-> "range", r |-> r, page |-> mbase(r), size |-> total_pages(r)]
           /\ fault' = fault

\* Memory the allocator has not seen: an entry of the boot memory map.
DonateRange(r) ==
  /\ Running
  /\ r \notin Added
  /\ find_valid_slave(r.base) = {}
  /\ kbud_add_region(r)
  /\ UNCHANGED <<free, bit, live>>

\* Memory that came from kbud_alloc() or kbud_alloc_range().
kbud_free_range(b) ==
  /\ "kbud_free_range" \in Calls
  /\ Running
  /\ live' = live \ {b}
  /\ IF find_valid_slave(b.page) = {}
     THEN /\ fault' = "walked past regions[]"
          /\ op' = op
     ELSE /\ \E r \in find_valid_slave(b.page) :
               op' = [pc |-> "range", r |-> r, page |-> b.page, size |-> b.n]
          /\ fault' = fault
  /\ UNCHANGED <<regions, region_count, free, bit>>

\* The largest order the length, the address and the region allow.
RangeFits(r, page, size, k) == 2^k <= size /\ page % 2^k = 0 /\ k <= max_order(r)

\* Variant: a refused block is tried again.
CarveBlock_Retries ==
  /\ op.pc = "range"
  /\ op.size > 0
  /\ \E k \in Orders :
       /\ RangeFits(op.r, op.page, op.size, k)
       /\ \A j \in Orders : RangeFits(op.r, op.page, op.size, j) => j <= k
       /\ kbud_push(op.r, op.page, k)
       /\ op' = IF buddy_bit_chk(op.r, kbud_pfnum(op.r, op.page), k)
                THEN [op EXCEPT !.page = @ + 2^k, !.size = @ - 2^k] ELSE op
  /\ UNCHANGED <<regions, region_count, live, fault>>

\* One round of the carve loop: a refused block is lost.
CarveBlock ==
  /\ op.pc = "range"
  /\ op.size > 0
  /\ \E k \in Orders :
       /\ RangeFits(op.r, op.page, op.size, k)
       /\ \A j \in Orders : RangeFits(op.r, op.page, op.size, j) => j <= k
       /\ kbud_push(op.r, op.page, k)
       /\ op' = [op EXCEPT !.page = @ + 2^k, !.size = @ - 2^k]
  /\ UNCHANGED <<regions, region_count, live, fault>>

RangeReturns ==
  /\ op.pc = "range"
  /\ op.size = 0
  /\ op' = Idle
  /\ UNCHANGED <<regions, region_count, free, bit, live, fault>>

-----------------------------------------------------------------------------
LoopStep == Split \/ AllocReturns \/ Merge \/ FreeReturns \/ CarveBlock \/ RangeReturns

ClientCall ==
  \/ \E req \in Orders : kbud_alloc(req)
  \/ \E n \in RangePages : kbud_alloc_range(n)
  \/ \E b \in live : kbud_free(b)
  \/ \E b \in live : kbud_free_range(b)

Next == ClientCall \/ (\E r \in Ranges : DonateRange(r)) \/ LoopStep

\* The thread in a loop of the allocator keeps running.
Spec == Init /\ [][Next]_vars /\ WF_vars(LoopStep)

-----------------------------------------------------------------------------
(***************************************************************************)
(* What the allocator promises.                                            *)
(***************************************************************************)

\* Every variable has its type; between calls `op' is idle.
TypeOK ==
  /\ regions \in Seq(Ranges)
  /\ region_count \in Nat \cup {AllOnes}
  /\ free \in [Ranges -> [Orders -> Seq(Int)]]
  /\ bit \in [Ranges -> [Orders -> SUBSET Int]]
  /\ op \in {Idle} \cup SplitOps \cup MergeOps \cup RangeOps
  /\ live \subseteq [page : Int, order : Orders, n : Nat]
  /\ fault \in {"none", "walked past regions[]", "free addr not found in free list",
                "wrote through the header of an invalid region"}

\* The pieces of memory in somebody's hands: on a free list, held by a
\* caller, or held by the call under way.
TilesOfRegion(lists) ==
  UNION {{[own |-> "free", page |-> p, size |-> 2^k] : p \in ToSet(lists[k])} : k \in Orders}

TilesOfLists(f) == UNION {TilesOfRegion(f[r]) : r \in Ranges}

FreeTiles == TilesOfLists(free)

LiveTiles == {[own |-> "live", page |-> b.page, size |-> 2^b.order] : b \in live}

HandTiles ==
  CASE op.pc = "split" -> {[own |-> "hand", page |-> op.page, size |-> 2^op.ord]}
    [] op.pc = "merge" -> {[own |-> "hand", page |-> mbase(op.r) + op.pfn, size |-> 2^op.ord]}
    [] op.pc = "range" -> {[own |-> "hand", page |-> op.page, size |-> op.size]}
    [] OTHER -> {}

Tiles == FreeTiles \cup LiveTiles \cup HandTiles

Apart(a, b) == a.page + a.size <= b.page \/ b.page + b.size <= a.page

\* No page is in two hands: kbud_alloc never returns memory that a caller
\* still holds, and no free list holds it, or a block twice.
NoOverlap ==
  /\ \A a, b \in Tiles : a # b => Apart(a, b)
  /\ \A a, b \in live : a.page = b.page => a = b
  /\ \A r \in Ranges, k \in Orders : IsInjective(free[r][k])

Inside(a, r) == mbase(r) <= a.page /\ a.page + a.size <= End(r)

\* Nothing handed out or listed reaches into a region's header or past the
\* region's end.
InBounds == \A a \in Tiles : \E r \in Added : Inside(a, r)

\* kbud_free looks only at the pair's bit before it pulls the buddy out of
\* its list: a set bit must mean that a block of that pair is on the list.
BitImpliesFree ==
  \A r \in Ranges, k \in Orders : \A x \in bit[r][k] :
    \E p \in ToSet(free[r][k]) : kbud_pair_idx(kbud_pfnum(r, p), k) = x

\* The walk of kbud_pop always finds the buddy it is sent for.
NoListCorruption == fault # "free addr not found in free list"

\* kbud_alloc fails only if no region has a free block large enough.
AllocComplete ==
  \A req \in Orders :
    NoneServes(req) => \A r \in Added : \A k \in req .. PFRAME_MAX_ORDER - 1 : free[r][k] = <<>>

\* The table find_buddy_slave searches by bisection is sorted by address.
TableSorted ==
  \A i, j \in DOMAIN regions : i < j => regions[i].base < regions[j].base

\* Between calls every usable page of a region is free or held by a caller.
NoLeak ==
  op = Idle =>
    \A r \in Added : \A p \in mbase(r) .. End(r) - 1 :
      \E a \in Tiles : a.page <= p /\ p < a.page + a.size

\* The blocks kbud_free_range carves from a fresh region: the maximal aligned
\* ones.
FreshBlocks(r, k) ==
  {p \in mbase(r) .. End(r) - 2^k :
     /\ p % 2^k = 0
     /\ k <= max_order(r)
     /\ k = max_order(r) \/
        LET q == (p \div 2^(k + 1)) * 2^(k + 1) IN q < mbase(r) \/ q + 2^(k + 1) > End(r)}

\* Once callers have given everything back by kbud_free, each region has the
\* blocks it began with: splitting and merging undo each other.
Restores ==
  op = Idle /\ live = {} =>
    \A r \in Added, k \in Orders : ToSet(free[r][k]) = FreshBlocks(r, k)

Managed == UNION {mbase(r) .. End(r) - 1 : r \in Added}

\* The allocator as its callers see it: a block is taken when the call
\* returns it and given back when the call that frees it begins.
Promise == INSTANCE PageAllocator WITH mem <- Managed, held <- live

\* Every behaviour of the allocator is one its callers may rely on.
KeepsPromise == Promise!Spec

\* Every call returns, unless the kernel has stopped.
CallReturns == [](op # Idle => <>(op = Idle \/ fault # "none"))

-----------------------------------------------------------------------------
(***************************************************************************)
(* The inductive invariant behind NoOverlap.  A block handed to kbud_free  *)
(* is merged by its distance from mbase but was split by its address; the  *)
(* two agree when mbase is a multiple of the region's largest block.       *)
(***************************************************************************)
SafeUse == "kbud_free" \in Calls => \A r \in Ranges : mbase(r) % 2^max_order(r) = 0

Block(r, page, k) ==
  /\ k <= max_order(r)
  /\ page % 2^k = 0
  /\ mbase(r) <= page
  /\ page + 2^k <= End(r)

FreeOK ==
  \A r \in Ranges, k \in Orders : \A p \in ToSet(free[r][k]) : r \in Added /\ Block(r, p, k)

LiveOK ==
  \A b \in live : b.n <= 2^b.order /\ \E r \in Added : Block(r, b.page, b.order)

OpOK ==
  /\ op.pc = "split" =>
       /\ op.r \in Added
       /\ op.req <= op.ord
       /\ op.n <= 2^op.req
       /\ Block(op.r, op.page, op.ord)
  /\ op.pc = "merge" =>
       /\ "kbud_free" \in Calls
       /\ op.r \in Added
       /\ op.ord \in Orders
       /\ 0 <= op.pfn /\ op.pfn % 2^op.ord = 0
       /\ mbase(op.r) + op.pfn + 2^op.ord <= End(op.r)
  /\ op.pc = "range" =>
       /\ op.r \in Added
       /\ mbase(op.r) <= op.page /\ op.page + op.size <= End(op.r)

\* Between them these make NoOverlap inductive: where every block lies, that
\* blocks are aligned to their size, and that pair bits are not stale.
Inv ==
  /\ TypeOK
  /\ FreeOK
  /\ LiveOK
  /\ OpOK
  /\ NoOverlap
  /\ BitImpliesFree
  /\ NoListCorruption

=============================================================================
