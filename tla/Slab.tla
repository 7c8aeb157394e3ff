-------------------------------- MODULE Slab ---------------------------------
(***************************************************************************)
(* The object cache of kernel/mm/slab.c: slabs carved out of blocks of the *)
(* page allocator, on a full, a partial and an empty list.                 *)
(*                                                                         *)
(* A slab is named by the address of its block, an object by its own       *)
(* address; addresses and sizes are in units of the instance's choice.     *)
(* Lists and freelists are sequences, head first.  The page allocator is   *)
(* the promise of PageAllocator: any free block aligned to its size, or    *)
(* none.  A call runs to its end before the next one begins.               *)
(***************************************************************************)
EXTENDS Integers, Sequences, SequencesExt

CONSTANTS
  PAGESIZE,        \* 4096 in the code
  HDR_SIZE,        \* sizeof(struct kslab)
  MIN_OBJS,        \* the least number of objects worth a slab: 8
  MAX_SLAB_ORDER,  \* orders tried are 0 .. MAX_SLAB_ORDER-1: BUDDY_ORDER_64K
  MAX_EMPTY,       \* KSLAB_PRESET_MAX_EMPTY
  ObjSizes,        \* object sizes a client may ask a cache for
  Alignment,       \* alignment it asks for
  Frames,          \* addresses of the pages of memory
  CountBound       \* bound on empty_slabs

ASSUME SlabAssumption ==
  /\ PAGESIZE \in Nat \ {0} /\ HDR_SIZE \in Nat /\ Alignment \in Nat \ {0}
  /\ MIN_OBJS \in Nat /\ MIN_OBJS >= 2
  /\ MAX_SLAB_ORDER \in Nat /\ MAX_EMPTY \in Nat \ {0} /\ CountBound \in Nat
  /\ ObjSizes \subseteq Nat \ {0}
  /\ Frames \subseteq Nat

\* What the proofs use of powers of two.
ASSUME SlabPowers == \A k \in 0 .. MAX_SLAB_ORDER - 1 : 2^k \in Nat \ {0}

-----------------------------------------------------------------------------
(***************************************************************************)
(* The geometry kslab_cache_create() chooses: the order that wastes least. *)
(***************************************************************************)
BlockSize(order) == PAGESIZE * 2^order

Reserved == HDR_SIZE + ((Alignment - (HDR_SIZE % Alignment)) % Alignment)

\* Variant: the header is not taken off.
Objs_NoHeader(order, objsize) == BlockSize(order) \div objsize

Objs(order, objsize) ==
  IF BlockSize(order) <= Reserved THEN 0 ELSE (BlockSize(order) - Reserved) \div objsize

Waste(order, objsize) == BlockSize(order) - (Reserved + Objs(order, objsize) * objsize)

Fits(objsize) == {o \in 0 .. MAX_SLAB_ORDER - 1 : Objs(o, objsize) >= MIN_OBJS}

BestOrder(objsize) ==
  CHOOSE o \in Fits(objsize) :
    \A p \in Fits(objsize) :
      \/ Waste(o, objsize) < Waste(p, objsize)
      \/ Waste(o, objsize) = Waste(p, objsize) /\ o <= p

-----------------------------------------------------------------------------
VARIABLES
  status,       \* "none", "live", "failed" or "destroyed"
  cache,        \* kslab_cache_t: [order, obj_size, objs]
  full, partial, empty,
  empty_slabs,  \* a u32; a negative number stands for 2^32 plus it
  freelist,     \* freelist[s]: the free objects of slab s, next one first
  free_count,
  owned,        \* blocks the cache has from kbud_alloc and has not given back
  held          \* objects in the hands of clients

lists == <<full, partial, empty>>
vars == <<status, cache, lists, empty_slabs, freelist, free_count, owned, held>>

Init ==
  /\ status = "none"
  /\ cache = [order |-> 0, obj_size |-> 0, objs |-> 0]
  /\ full = <<>> /\ partial = <<>> /\ empty = <<>>
  /\ empty_slabs = 0
  /\ freelist = [f \in Frames |-> <<>>]
  /\ free_count = [f \in Frames |-> 0]
  /\ owned = {}
  /\ held = {}

\* kbud_alloc(): a block of the order, aligned to its size, that is not in
\* use.  Other clients of the allocator may leave none.
Blocks(order) ==
  {f \in Frames : /\ f % BlockSize(order) = 0
                  /\ \A i \in 0 .. 2^order - 1 : f + i * PAGESIZE \in Frames}

\* The addresses of the objects of slab s, in the order they are chained.
Pool(s, c) == [i \in 1 .. c.objs |-> s + Reserved + (i - 1) * c.obj_size]

Listed == ToSet(full) \cup ToSet(partial) \cup ToSet(empty)

-----------------------------------------------------------------------------
\* kslab_new_slab(): the block; its place on the empty list, its freelist and
\* its count follow in the two callers.
NewSlab(s, c) ==
  /\ s \in Blocks(c.order) \ owned
  /\ owned' = owned \cup {s}

\* A client creates a cache in a zeroed struct, and only once: destruction
\* leaves the heads of the lists in place.
kslab_cache_create(objsize) ==
  /\ status = "none"
  /\ \/ /\ Fits(objsize) = {}
        /\ UNCHANGED vars
     \/ /\ Fits(objsize) # {}
        /\ LET o == BestOrder(objsize)
           IN  cache' = [order |-> o, obj_size |-> objsize, objs |-> Objs(o, objsize)]
        /\ empty_slabs' = empty_slabs + 1
        /\ UNCHANGED <<full, partial, held>>
        /\ \/ \E s \in Frames :
                /\ NewSlab(s, cache')
                /\ empty' = Append(empty, s)
                /\ freelist' = [freelist EXCEPT ![s] = Pool(s, cache')]
                /\ free_count' = [free_count EXCEPT ![s] = cache'.objs]
                /\ status' = "live"
           \/ status' = "failed" /\ UNCHANGED <<empty, freelist, free_count, owned>>

\* Variant: the freelist keeps the object.
Pop_KeepsObject(s) ==
  /\ held' = held \cup {Head(freelist[s])}
  /\ free_count' = [free_count EXCEPT ![s] = @ - 1]
  /\ UNCHANGED freelist

\* The caller gets the first object of the freelist of s.
Pop(s) ==
  /\ held' = held \cup {Head(freelist[s])}
  /\ freelist' = [freelist EXCEPT ![s] = Tail(@)]
  /\ free_count' = [free_count EXCEPT ![s] = @ - 1]

kslab_partial_alloc ==
  /\ partial # <<>>
  /\ LET s == Head(partial)
     IN  /\ Pop(s)
         /\ IF free_count[s] = 1
            THEN partial' = Tail(partial) /\ full' = Append(full, s)
            ELSE UNCHANGED <<partial, full>>
  /\ UNCHANGED <<status, cache, empty, empty_slabs, owned>>

kslab_empty_alloc ==
  /\ partial = <<>>
  /\ empty # <<>>
  /\ Pop(Head(empty))
  /\ empty' = Tail(empty)
  /\ partial' = Append(partial, Head(empty))
  /\ empty_slabs' = empty_slabs - 1
  /\ UNCHANGED <<status, cache, full, owned>>

\* Variant: a new slab is taken although an empty one is there.
kslab_new_alloc_Eager ==
  /\ partial = <<>>
  /\ \E s \in Frames :
       /\ NewSlab(s, cache)
       /\ held' = held \cup {Head(Pool(s, cache))}
       /\ freelist' = [freelist EXCEPT ![s] = Tail(Pool(s, cache))]
       /\ free_count' = [free_count EXCEPT ![s] = cache.objs - 1]
       /\ partial' = Append(partial, s)
  /\ empty_slabs' = empty_slabs - 1
  /\ UNCHANGED <<status, cache, full, empty>>

\* The new slab is the only empty one, so kslab_empty_alloc() uses it.
kslab_new_alloc ==
  /\ partial = <<>> /\ empty = <<>>
  /\ \E s \in Frames :
       /\ NewSlab(s, cache)
       /\ held' = held \cup {Head(Pool(s, cache))}
       /\ freelist' = [freelist EXCEPT ![s] = Tail(Pool(s, cache))]
       /\ free_count' = [free_count EXCEPT ![s] = cache.objs - 1]
       /\ partial' = Append(partial, s)
  /\ empty_slabs' = empty_slabs - 1
  /\ UNCHANGED <<status, cache, full, empty>>

\* No block: KPAGE_ERR.
AllocFails == partial = <<>> /\ empty = <<>> /\ UNCHANGED vars

kslab_alloc ==
  /\ status = "live"
  /\ kslab_partial_alloc \/ kslab_empty_alloc \/ kslab_new_alloc \/ AllocFails

-----------------------------------------------------------------------------
\* The slab of an object, by masking its address.
SlabOf(obj) == obj - (obj % BlockSize(cache.order))

Push(s, obj) ==
  /\ held' = held \ {obj}
  /\ freelist' = [freelist EXCEPT ![s] = Cons(obj, @)]
  /\ free_count' = [free_count EXCEPT ![s] = @ + 1]

\* As an unsigned comparison.
AboveMax(count) == count < 0 \/ count > MAX_EMPTY

\* Variant: the slab given back stays on the list.
Emptied_StaysLinked(s) ==
  /\ partial' = RemoveFirst(partial, s)
  /\ full' = full
  /\ empty' = Append(empty, s)
  /\ IF AboveMax(empty_slabs + 2)
     THEN owned' = owned \ {Head(empty')} /\ empty_slabs' = empty_slabs + 1
     ELSE owned' = owned /\ empty_slabs' = empty_slabs + 2

\* Variant: the slab given back is the first partial one.
Emptied_WrongList(s) ==
  /\ full' = full
  /\ empty' = Append(empty, s)
  /\ LET rest == RemoveFirst(partial, s)
     IN  IF AboveMax(empty_slabs + 2) /\ rest # <<>>
         THEN /\ partial' = Tail(rest)
              /\ owned' = owned \ {Head(rest)}
              /\ empty_slabs' = empty_slabs + 1
         ELSE partial' = rest /\ owned' = owned /\ empty_slabs' = empty_slabs + 2

\* The slab is empty again: empty_slabs goes up by two, and by one if the
\* first empty slab is given back.
Emptied(s) ==
  /\ partial' = RemoveFirst(partial, s)
  /\ full' = full
  /\ LET chain == Append(empty, s)
         count == empty_slabs + 2
     IN  IF AboveMax(count)
         THEN /\ empty' = Tail(chain)
              /\ owned' = owned \ {Head(chain)}
              /\ empty_slabs' = count - 1
         ELSE empty' = chain /\ owned' = owned /\ empty_slabs' = count

\* Variant: the slab stays on the full list.
Unfilled_StaysFull(s) ==
  partial' = Append(partial, s) /\ UNCHANGED <<full, empty, empty_slabs, owned>>

Unfilled(s) ==
  /\ full' = RemoveFirst(full, s)
  /\ partial' = Append(partial, s)
  /\ UNCHANGED <<empty, empty_slabs, owned>>

kslab_free(obj) ==
  /\ status = "live"
  /\ empty_slabs + 2 <= CountBound
  /\ LET s == SlabOf(obj)
     IN  /\ Push(s, obj)
         /\ \/ free_count[s] = 0 /\ Unfilled(s)
            \/ free_count[s] # 0 /\ free_count[s] + 1 = cache.objs /\ Emptied(s)
            \/ free_count[s] # 0 /\ free_count[s] + 1 # cache.objs
               /\ UNCHANGED <<lists, empty_slabs, owned>>
  /\ UNCHANGED <<status, cache>>

\* Every slab goes back; the walk reads the link of a slab after giving it
\* back, where the page allocator writes nothing.  The lists keep their heads;
\* -1 is the largest number of its type.
kslab_cache_destroy ==
  /\ status = "live"
  /\ held = {}
  /\ owned' = owned \ Listed
  /\ status' = "destroyed"
  /\ cache' = [cache EXCEPT !.order = -1, !.obj_size = -1]
  /\ UNCHANGED <<lists, empty_slabs, freelist, free_count, held>>

-----------------------------------------------------------------------------
Next ==
  \/ \E z \in ObjSizes : kslab_cache_create(z)
  \/ kslab_alloc
  \/ \E obj \in held : kslab_free(obj)
  \/ kslab_cache_destroy

Spec == Init /\ [][Next]_vars

-----------------------------------------------------------------------------
(***************************************************************************)
(* What the cache promises.                                                *)
(***************************************************************************)
\* Every block the cache owns is on one list, once, and nothing else is on a
\* list.
SlabsListedOnce ==
  status = "live" => IsInjective(full \o partial \o empty) /\ Listed = owned

\* A slab is on the list its free objects call for.
RightList ==
  status = "live" =>
    /\ \A s \in ToSet(full) : free_count[s] = 0
    /\ \A s \in ToSet(partial) : free_count[s] \in 1 .. cache.objs - 1
    /\ \A s \in ToSet(empty) : free_count[s] = cache.objs

ObjectsOf(s) == ToSet(Pool(s, cache))

\* Each object of a slab is either free, once, or held by a client.
ObjectsFreeOrHeld ==
  status = "live" =>
    \A s \in owned :
      /\ IsInjective(freelist[s])
      /\ free_count[s] = Len(freelist[s])
      /\ ToSet(freelist[s]) = ObjectsOf(s) \ held

\* An object in use lies in a block that the cache owns: the block has not
\* gone back to the page allocator.
HeldIsOwned == held \subseteq UNION {ObjectsOf(s) : s \in owned}

\* Objects lie behind the header and within the block of their slab.
ObjectsInside ==
  status = "live" =>
    \A s \in owned : \A x \in ObjectsOf(s) :
      /\ s + HDR_SIZE <= x
      /\ x + cache.obj_size <= s + BlockSize(cache.order)
      /\ SlabOf(x) = s

\* The cache sits on no more than MAX_EMPTY empty slabs, although empty_slabs
\* does not count them.
EmptyBounded == Len(empty) <= MAX_EMPTY

\* A block is taken from the page allocator only if no slab has a free object.
NewOnlyIfFull ==
  [][status = "live" /\ ~(owned' \subseteq owned) => \A s \in owned : free_count[s] = 0]_vars

=============================================================================
