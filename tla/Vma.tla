--------------------------------- MODULE Vma ---------------------------------
(***************************************************************************)
(* The areas of the kernel's virtual address space, kernel/mm/vma.c: an    *)
(* ordered tree of disjoint ranges [start, end) of pages.                  *)
(*                                                                         *)
(* A node is the rb_node inside a kernel_vma_t, and stands for the struct. *)
(* Structs come from the slab cache, which may fail.  Which struct it gives *)
(* is of no account, so a struct goes by the start of its area if it can.  *)
(***************************************************************************)
EXTENDS RBTree

CONSTANTS
  RegionLen,  \* vm_tree->r_end - vm_tree->r_start, in pages; r_start is 0
  Sizes,      \* sizes asked of vma_alloc_area()
  Calls,      \* calls in use
  AnyFree     \* whether callers free any area, or only one that is Harmless

ASSUME VmaAssumption == RegionLen \in Nat /\ Sizes \subseteq Nat

VARIABLES
  area,    \* area[n]: vm_start and vm_end of struct n
  used,    \* structs taken from the cache
  placed   \* structs whose area was given to a caller and not taken back

vars == <<tree, rb, fault, area, used, placed>>

Addrs == 0 .. RegionLen - 1

NoArea == [start |-> 0, end |-> 0]

Init ==
  /\ tree = EmptyTree
  /\ rb = Quiet
  /\ fault = "none"
  /\ area = [n \in Nodes |-> NoArea]
  /\ used = {}
  /\ placed = {}

Running == rb = Quiet /\ fault = "none"

-----------------------------------------------------------------------------
\* The struct whose area holds the address, or NULL.
vma_search(addr) ==
  LET f[n \in Nodes \cup {NULL}] ==
        IF n = NULL THEN NULL
        ELSE IF addr < area[n].start THEN f[tree.kid["left"][n]]
        ELSE IF addr >= area[n].end THEN f[tree.kid["right"][n]]
        ELSE n
  IN  f[tree.root]

\* The descent of vma_insert(): the free link for an area, or NoLink where it
\* overlaps.
NoLink == [side |-> "none"]

\* The side of n on which area a lies.
SideOf(a, n) ==
  IF a.end <= area[n].start THEN "left"
  ELSE IF a.start >= area[n].end THEN "right"
  ELSE "none"

Descend(a) ==
  LET f[n \in Nodes] ==
        LET d == SideOf(a, n)
        IN  IF d = "none" THEN NoLink
            ELSE IF tree.kid[d][n] = NULL THEN [at |-> n, side |-> d]
            ELSE f[tree.kid[d][n]]
  IN  IF tree.root = NULL THEN [at |-> NULL, side |-> "left"] ELSE f[tree.root]

Fits(a) == Descend(a) # NoLink

\* vma_insert() of struct n with area a; an overlap is refused.
InsertAs(n, a) ==
  LET link == Descend(a)
  IN  IF link = NoLink THEN UNCHANGED <<tree, rb>> ELSE rb_insert(n, link.at, link)

StructFor(a) ==
  IF a.start \in Nodes \ used THEN a.start ELSE CHOOSE n \in Nodes : n \notin used

Insert(n, a) ==
  /\ InsertAs(n, a)
  /\ area' = [area EXCEPT ![n] = a]
  /\ used' = used \cup {n}
  /\ placed' = placed \cup {n}

\* A caller that owns a struct inserts it where it likes.
vma_insert(a) ==
  /\ "vma_insert" \in Calls
  /\ Running
  /\ used # Nodes
  /\ \/ Fits(a) /\ Insert(StructFor(a), a)
     \/ ~Fits(a) /\ UNCHANGED <<tree, rb, area, used, placed>>
  /\ fault' = fault

-----------------------------------------------------------------------------
\* The walk of vma_alloc_area() from node n to the highest: the end of the
\* first area with a large enough gap behind it, or -1.
GapAfter(first, size) ==
  LET f[n \in used] ==
        IF n = rb_last(tree) THEN -1
        ELSE LET m == rb_next(tree, n)
             IN  IF area[m].start - area[n].end >= size THEN area[n].end ELSE f[m]
  IN  f[first]

\* Variant: the gap in front of the lowest area may be one page short.
Place_ShortGap(size) ==
  LET lowest  == rb_first(tree)
      highest == rb_last(tree)
  IN  IF size > RegionLen THEN -1
      ELSE IF tree.root = NULL THEN 0
      ELSE IF area[lowest].start + 1 >= size THEN 0
      ELSE IF RegionLen - area[highest].end >= size THEN area[highest].end
      ELSE GapAfter(lowest, size)

\* Variant: the gaps between areas are not looked at.
Place_NoGaps(size) ==
  LET lowest  == rb_first(tree)
      highest == rb_last(tree)
  IN  IF size > RegionLen THEN -1
      ELSE IF tree.root = NULL THEN 0
      ELSE IF area[lowest].start >= size THEN 0
      ELSE IF RegionLen - area[highest].end >= size THEN area[highest].end
      ELSE -1

\* Where vma_alloc_area() puts an area of the size: in front of the lowest,
\* behind the highest, or in the first gap; -1 if nowhere.
Place(size) ==
  LET lowest  == rb_first(tree)
      highest == rb_last(tree)
  IN  IF size > RegionLen THEN -1
      ELSE IF tree.root = NULL THEN 0
      ELSE IF area[lowest].start >= size THEN 0
      ELSE IF RegionLen - area[highest].end >= size THEN area[highest].end
      ELSE GapAfter(lowest, size)

\* The result of vma_insert() is not looked at.
vma_alloc_area(size) ==
  /\ "vma_alloc_area" \in Calls
  /\ Running
  /\ \/ LET a == [start |-> Place(size), end |-> Place(size) + size]
        IN  Place(size) # -1 /\ used # Nodes /\ Insert(StructFor(a), a) /\ fault' = fault
     \/ UNCHANGED vars

\* The struct leaves the tree and goes back to the cache.
TakeOut(n) ==
  /\ rb_remove(n)
  /\ used' = used \ {n}
  /\ placed' = placed \ {n}
  /\ area' = [area EXCEPT ![n] = NoArea]
  /\ fault' = fault

\* The removals that rb_fixdel() gets right: those that need no repair, and
\* those of a right child whose sibling takes the loss in one round.
Harmless(n) ==
  LET gone == Removed(tree, n)
      p == tree.parent[gone]
      s == tree.kid["left"][p]
  IN  \/ ~NeedsRepair(tree, gone)
      \/ /\ p # NULL
         /\ gone = tree.kid["right"][p]
         /\ s # NULL
         /\ ~tree.red[s]
         /\ \A k \in Kids(tree, s) : ~tree.red[k]
         /\ p = tree.root \/ tree.red[p]

MayFree(addr) == AnyFree \/ \A n \in {vma_search(addr)} \ {NULL} : Harmless(n)

vma_free_area(addr) ==
  /\ "vma_free_area" \in Calls
  /\ Running
  /\ MayFree(addr)
  /\ IF vma_search(addr) = NULL THEN UNCHANGED vars ELSE TakeOut(vma_search(addr))

\* The address of a miss is not NULL, so vma_remove() goes on with it.
vma_remove_by_addr(addr) ==
  /\ "vma_remove_by_addr" \in Calls
  /\ Running
  /\ MayFree(addr)
  /\ IF vma_search(addr) = NULL
     THEN fault' = "removed an invalid area" /\ UNCHANGED <<tree, rb, area, used, placed>>
     ELSE TakeOut(vma_search(addr))

-----------------------------------------------------------------------------
RepairStep == (FixInsert \/ FixDelete) /\ UNCHANGED <<area, used, placed>>

Areas == {a \in [start : Addrs, end : 1 .. RegionLen] : a.end - a.start \in Sizes}

Next ==
  \/ \E a \in Areas : vma_insert(a)
  \/ \E size \in Sizes : vma_alloc_area(size)
  \/ \E addr \in Addrs : vma_free_area(addr)
  \/ \E addr \in Addrs : vma_remove_by_addr(addr)
  \/ RepairStep

\* The thread in a repair loop keeps running.
Spec == Init /\ [][Next]_vars /\ WF_vars(RepairStep)

-----------------------------------------------------------------------------
(***************************************************************************)
(* What the subsystem promises, between calls and while the kernel runs.   *)
(***************************************************************************)
\* The areas callers hold share no page and lie in the region.
AreasDisjoint ==
  \A m, n \in placed :
    /\ area[n].end <= RegionLen
    /\ m # n => area[m].end <= area[n].start \/ area[n].end <= area[m].start

\* The tree holds exactly the areas callers hold, each once and in the order
\* of their addresses, and each node knows its parent.
TreeHoldsAreas ==
  Running =>
    LET Below(n, d) == Subtree(tree)[tree.kid[d][n]]
    IN  /\ Subtree(tree)[tree.root] = placed
        /\ tree.root # NULL => tree.parent[tree.root] = NULL
        /\ \A n \in placed :
             /\ \A k \in Kids(tree, n) : tree.parent[k] = n
             /\ n \notin Below(n, "left") \cup Below(n, "right")
             /\ Below(n, "left") \cap Below(n, "right") = {}
             /\ \A m \in Below(n, "left") : area[m].end <= area[n].start
             /\ \A m \in Below(n, "right") : area[n].end <= area[m].start

\* Between calls the tree is a red-black tree.
RedBlack == Running => Balanced(tree)

\* A search finds the area that holds an address, whenever there is one.
SearchFinds ==
  Running =>
    \A addr \in Addrs :
      {n \in placed : area[n].start <= addr /\ addr < area[n].end} = {vma_search(addr)} \ {NULL}

\* An area is placed where no other is, and is refused only if it fits nowhere.
PlaceIsExact ==
  Running =>
    \A size \in Sizes :
      LET Clear(b) == /\ b + size <= RegionLen
                      /\ \A n \in placed : area[n].end <= b \/ b + size <= area[n].start
      IN  IF Place(size) = -1 THEN \A b \in Addrs : ~Clear(b) ELSE Clear(Place(size))

\* Every call returns, unless the kernel has stopped.
CallReturns == [](rb # Quiet => <>(rb = Quiet \/ fault # "none"))

=============================================================================
