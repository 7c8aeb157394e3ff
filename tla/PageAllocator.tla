---------------------------- MODULE PageAllocator ----------------------------
(***************************************************************************)
(* What a client of kernel/mm/buddy.h relies on: the allocator owns some   *)
(* pages, and the blocks it has handed out are made of its pages, aligned  *)
(* to their size (kslab_free() masks addresses), and share no page.        *)
(***************************************************************************)
EXTENDS Integers

VARIABLES
  mem,   \* pages the allocator has been given and may hand out
  held   \* blocks [page, order, n] in the hands of callers

Pages(b) == b.page .. b.page + 2^b.order - 1

Init == mem = {} /\ held = {}

\* A block of at least n pages, aligned to its size, that overlaps no block in
\* use.
Alloc(b) ==
  /\ b.n <= 2^b.order
  /\ b.page % 2^b.order = 0
  /\ Pages(b) \subseteq mem
  /\ \A c \in held : Pages(b) \cap Pages(c) = {}
  /\ held' = held \cup {b}
  /\ mem' = mem

Release(b) == held' = held \ {b} /\ mem' = mem

Grow == mem \subseteq mem' /\ held' = held

Next == (\E b \in held' \ held : Alloc(b)) \/ (\E b \in held : Release(b)) \/ Grow

Spec == Init /\ [][Next]_<<mem, held>>

=============================================================================
