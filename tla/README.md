# A TLA+ model of the SYOS kernel

SYOS is a small kernel for x86-64. A boot loader starts it with a memory map; it builds page
tables, moves to the upper half of the address space, hands memory to a page allocator, and
brings up an object cache, an address-space manager, device mappings and a console on the
framebuffer, sets up its exception handlers and idles. This directory holds TLA+ specifications of
those parts, the TLC runs that check them on small instances, and TLAPS proofs about six of them:
boot, the page allocator, the object cache, the address areas, the console, and the kernel with its
exceptions.
`PROJECT.json` lists components, runs, hazards, theorems, and for each definition the source lines
it stands for.

All paths below are under `src/kernel/`.

## 1. The system and its parts

The kernel has one thread and never enables interrupts. What breaks into it is an exception of its
own code or a non-maskable interrupt, at any instruction, and every handler panics: the thread is
not resumed, but the panic uses the console as the thread left it. Apart from that calls do not
interleave, and what is hard is long sequences of legal calls, sizes at their limits, state that
is cached or derived twice, and steps that fail while the caller goes on.

| part | state | operations | what makes it correct |
|---|---|---|---|
| Boot (`boot.c`, part of `pagetbl.c`) | memory map, boot regions, first page tables | `pi_parse_mb2`, `alloc_init`, `init_higher_half`, `buddy_handoff`, `kern_uhalf_init` | only unused memory is handed over, once; tables in use are never given away; image and memory stay mapped |
| Page tables (`pagetbl.c`, loops of `mm/vmalloc.c`) | tables of four levels | `return_pt_or_alloc`, the mapping loops, `kpt_get_phys`, `kpt_unmap_page` | no table is shared; an address leads where it should |
| Page allocator (`mm/buddy.c`) | sorted region table, free lists, pair bitmaps | `kbud_alloc`, `kbud_alloc_range`, `kbud_free`, `kbud_free_range` | no page in two hands; nothing outside a region; merging undoes splitting |
| Object cache (`mm/slab.c`) | slabs on three lists, freelists, counters | create, `kslab_alloc`, `kslab_free`, destroy | an object is free or held, once; its block is still owned |
| Red-black tree (`rbtree.c`) | nodes, links, colours | `rb_insert`, `rb_remove`, walks | ordered, balanced, right parent links |
| Address areas (`mm/vma.c`) | a tree of disjoint ranges | `vma_insert`, `vma_alloc_area`, `vma_free_area`, `vma_remove_by_addr`, `vma_search` | areas disjoint and findable; a place is found iff there is one |
| Device mappings (`mm/vmalloc.c`) | areas and page tables | `ioremap` | every byte leads to its device byte with the flags asked for |
| Console (`io/console.c`, `drivers/video/gop/gop.c`) | cursor, screen | `kcon_write`, `kcon_clear` | the screen shows the end of what was printed |
| Formatting (`stdio.c`, `printk.c`) | format, argument list, a buffer of 1024 bytes | `vsprintf`, `vprintk` | the text is what format and arguments mean; directives and arguments stay in step; it fits |
| Kernel (`main.c`, `gdt.*`, `idt.*`, `isr.*`, `panic.c`) | GDTR, IDT, the exception stack, the thread | `kernel_main`, the stubs and handlers, `panic` | handlers get the frame they declare; a panic is legible and ends in a halt; no table lies in memory that was given away |
| CPU features, string functions, VGA drivers, fonts, entry code | | | not modelled, see section 7 |

How they use each other: `start_kernel` runs Boot; `kernel_main` calls `mm_init` (page tables,
areas, vmalloc), then the console, which maps its framebuffer with `ioremap`, then sets and loads
the IDT. `ioremap` takes
an area from `vma_alloc_area` and tables from `kbud_alloc`. The areas' structs come from the
object cache, whose slabs are blocks of the page allocator. All are plain calls. `panic` and `printk` format into a buffer and hand it to `kcon_write`.

## 2. Modules

| module | models | composed of |
|---|---|---|
| `Buddy` | `mm/buddy.c` | |
| `PageAllocator` | what callers of `mm/buddy.h` rely on (abstract) | refined by `Buddy` |
| `BuddyProofs` | proofs about `Buddy`: no page in two hands, and the refinement; what holds for every memory map; when no page is lost, and when merging undoes splitting | |
| `Slab` | `mm/slab.c`, on the promise of `PageAllocator` | |
| `SlabProofs` | proofs about `Slab` | |
| `RBTree` | `rbtree.c` | |
| `Vma` | `mm/vma.c` | extends `RBTree` |
| `TreeProofs` | the shape of the tree, its walks, rotations and `rb_fixins` | |
| `VmaProofs` | proofs about `Vma`: search, place, insertion, harmless removals | extends `TreeProofs` |
| `PageTables` | page-table operations as functions on a record of tables and free frames | |
| `Boot` | boot up to `kern_uhalf_init` | extends `PageTables` |
| `Vmalloc` | `mm_init` and `ioremap` on the tables and free pages that boot leaves | extends `Boot` |
| `BootProofs` | proofs about boot as a part of `Vmalloc`: what the page allocator is given, the frames for tables | |
| `Console` | `io/console.c` and the framebuffer driver | |
| `ConsoleProofs` | proofs about `Console` | |
| `Format` | `vsprintf` and the buffer of `vprintk` | |
| `Kernel` | `kernel_main`, descriptor tables, exceptions, `panic`, `printk` store by store | instances `Console` |
| `KernelProofs` | proofs about `Kernel`: tables, frames, the order of `kernel_main`; its `printk`: whole characters, legible panics | |
| `CommonLemmas` | lists, division, least elements and folds, for all the proofs | |
| `MCBuddy`, `MCSlab`, `MCVma`, `MCMemory`, `MCConsole`, `MCFormat`, `MCKernel` | instances for TLC | |

Definitions named `X_Something` marked "Variant" are wrong forms of the definition `X` that
follows them. They take no part in the specification; each shows, put in place of `X`, that
the property it is paired with in `PROJECT.json` is able to fail.

### Buddy
Addresses are page numbers. A region is the range that brought it in; `kbud_init_region` is a
set of functions of the range (`mbase`, `total_pages`, `maxbits`, `max_order`). `free[r][k]` is
the list of free blocks, head first, and `bit[r][k]` the pair indices whose bit is set: one bit
stands for two blocks. The three loops (split, merge, carve) are steps of the call in `op`, so
the invariants also hold in the middle of a call. `live` is what callers hold. Where the code
runs off into foreign memory, `fault` says so and the model stops. A client frees only what it
holds, with the size it asked for.

### Slab
Slabs are named by address and found from an object by masking, as in the code; the geometry is
computed by the code's rule. `empty_slabs` is kept with its drift: it goes up twice for an
emptied slab and not at all for a new one, and below zero it stands for a large unsigned number
(`AboveMax`). A cache is created once.

### RBTree and Vma
`tree` holds `root`, `kid`, `parent` and `red`; left and right cases are one definition with a
side. The repair loops of insertion and removal are steps (`FixInsert`, `FixDelete`) with their
locals in `rb`. A null dereference sets `fault`. `rb_fixdel` is modelled as it is, including
what it gets wrong; `AnyFree = FALSE` restricts callers to removals it handles (`Harmless`),
so that what the rest of the code does can be checked at length.

### PageTables, Vmalloc, Boot
Tables are functions from index to entry. The mapping loops of `pt_map_huge`, `pt_map_large`
and `pt_map_norm` are one fold per level (`Fill4` down to `Fill1`, a round is `MapTable` or
`MapEntry`), with the code's own counts (`Count`, from the size) and indices (`Idx`, from the
address). The walk of `kpt_get_phys` is a recursive function. The two loops over the memory map are
folds as well: `Usable`, and the insertion sort `pi_sort_boot_mapentries`. `AnyPlace = FALSE` restricts
`ioremap` to areas that do not straddle a table. Boot goes through the memory map, regions,
first tables, hand-over and second tables in the order of `start_kernel` and `kern_uhalf_init`.
Lengths are unsigned words (`U64`). Where the boot code calls `die()` or faults the phase is
`dead`. `MemSpec` of Vmalloc is the whole: boot, then any mappings, in the tables and with the
pages that boot left, so that the properties of boot are checked while mappings take pages too.

### Console
A step is one character given to `kcon_write`: `printk`, `kcon_puts` and `kcon_putchar` add
nothing to the state. The screen is a function from pixel rows to slices of glyphs, so scrolling
(`gop_scroll`, through `memmove` row by row and `memset`) and clipping (`gop_blit`) work at the
driver's grain. `roll` and `line` are history variables: the text as it would be on endless
paper, computed from the characters without regard to rows, scrolling or framebuffer height.

### Format
An argument is a word, and its type is what the directive takes it for, in the widths `ShortBits`,
`IntBits` and `LongBits`. A step is a literal character, the part of a directive in front of its
conversion (`ParseDirective`: flags, width, precision and size, with the positions at which the
code leaves `fmt` and the argument list), or a conversion. The loops that store characters are
sequences. `status` is `run`, `returned`, or how the call goes wrong: `overrun` (beyond the
buffer), `runaway` (`%c`), `stray` (reads beyond the format or through no string). `Meaning` is
the reference: what the C standard makes of the same directives, from their parts and not from
their characters.

### Kernel
`pc` is the next call of `kernel_main`, `task` what the thread runs (`kernel_main`, a panic of it
or a handler), `io` the `printk` under way with the place in `kcon_write`. A step of `kcon_write`
is one store that something else can see: a row of a glyph, a row of `memmove` or of `memset`, `cx`
or `cy`. Between any two, `Fault` and `NonMaskable` may come. `Interrupt` is what the processor
does (external): it looks at the gate, pushes its frame, and `FrameOf` is what the stub and
`isr_common` add and the handler reads through `isr_regs`. An exception that cannot be delivered
leads, over a double fault that cannot be either, to `shutdown`. The text of a message is two
glyphs, one that names it and one for the rest. The return path of `isr_common` is left out: no
handler returns.

## 3. Runs

Passing runs:

| run | instance | shows |
|---|---|---|
| `buddy_free` | one region with eight aligned pages, three orders, `kbud_alloc` and `kbud_free` | `NoOverlap`, `InBounds`, `NoListCorruption`, `NoLeak`, `Restores` (everything given back leads to the initial lists), `AllocComplete`, `CallReturns`, the refinement `KeepsPromise`, and the inductive invariant `Inv` |
| `buddy_wild` | regions with tails and odd sizes, unaligned or filled by their header, in any order, in a table of two slots; all four calls | `TableSorted`, `BitImpliesFree`, `CallReturns`, up to each way the allocator can stop the kernel |
| `slab_lists` | five pages; objects for slabs of one page, of two, and of no size that fits | lists, freelists, counts and owned blocks agree; at most `MAX_EMPTY` empty slabs; a new block only if all slabs are full |
| `vma_free` | eight structs, a region of eight pages, sizes 1 and 2, all calls | `TreeHoldsAreas`, `RedBlack`, `SearchFinds`, `AreasDisjoint`, `PlaceIsExact`, `CallReturns` |
| `memory` | every order of up to four memory-map entries, with too little, just enough and ample low memory, and memory above the first tables' reach; then mappings of huge, large and normal pages at aligned and unaligned devices | `GivenIsFree`, `TablesServe`, `TablesKept`, `FramesAligned`, `MappingsRight` |
| `console` | two screens, one a whole number of lines and glyphs and one not; all characters | `ScreenIsTail`, `LinesWhole`, `CursorInside` |
| `format` | a directive of every kind with every set of flags, then a letter and `%u`; arguments at the edges of short, int and long; a buffer of 12 | `PrintsRight`, `Returns` |
| `kernel` | two screens, vectors 0 to 31, page faults and alignment checks at any step, one NMI, room for two handlers; a right and a wrong selector; boots that fail in `mm_init`, `ioremap` and without a driver | `CharWhole`, `FrameRight`, `PanicShows`, `NothingStale`, `PanicEnds` |

Runs that show a disagreement between the code and what it says of itself (each is a finding in
`PROJECT.json`):

- `buddy_xor`: with an unaligned `mbase`, `kbud_alloc` pairs blocks by address and `kbud_free`
  by distance from `mbase`. `kbud_free` merges two listed blocks into one that is not aligned to its
  size; when `kbud_alloc` splits that one, the XOR leads to a page outside it, which is put on a
  free list while a caller holds it.
- `vma_lost`: `rb_remove` of a node with two children keeps the address of a link across a
  repair that moves the node, and drops another node from the tree.
- `vmalloc_cross`: an area that straddles two tables is mapped into the first one only, wrapping
  round over its start; the caller (`drivers/video/framebuffer.c:45`) takes the address for a mapping of
  the whole region, which is also how the commented-out declaration of `kmap`
  (`pagetbl.h:138`) describes such a result.
- `boot_align`: low memory that does not end on a page makes every boot frame unaligned.

### Bounds and why they suffice
Three orders give a block that is split twice and merged twice, so a merge with a stale bit, a
buddy of a different size and a refused top block all occur; regions added in any order exercise
the sorted insert at both ends, and with two slots the table reaches its limit. In `slab_lists` two objects make a
slab, so that empty, partial and full are one step apart, and more slabs than `MAX_EMPTY` come
and go. Eight tree nodes give three levels and every case of the insertion repair, and
removals with none, one and two children. With eight entries per table the device areas
reach over sixteen tables of the lowest level and two of the next. In `console` three lines of text scroll without bound:
the roll forgets lines only once they are above the screen (`RollLines` exceeds the lines that
fit). In `format` five bits of int and seven of long have numbers of one to
three digits in each base, both signs and the most negative number; the second directive shows
whether the first took the right number of arguments, and a width of 9 in a buffer of 12 ends one
short of its end, at it and beyond it. In `kernel` a handler can be interrupted by another, and the
stack then gives out; the screens scroll in the greeting, in the message or in the banner, with
two glyphs that fill a line exactly on one of them. `CountBound` in Slab caps the counter,
`MaxMaps` the number of mappings, `StackFrames` the handlers on the stack; the other state is
finite as it is.

### Deadlock and fairness
`buddy_free`, `console` and `kernel` check for deadlock; a machine that is halted for good or shut
down is a step of Kernel (`Stopped`). In the other instances the system may stop: a fault ends the
kernel, the boot sequence ends, the bounded mappings are used up, a cache is destroyed, `printk`
returns. Fairness is assumed only of the one thread: of the loops inside a call (`WF` of `LoopStep`
and `RepairStep`), of `vsprintf` (`Next` of Format) and of `Thread` in Kernel, because a processor
that is not halted executes the next instruction. Nothing is assumed of callers, and neither faults
nor interrupts have to come.

## 4. Proofs

TLAPS checks `CommonLemmas`, `BuddyProofs`, `SlabProofs`, `TreeProofs`, `VmaProofs`,
`BootProofs`, `ConsoleProofs` and `KernelProofs`. In each the inductive invariant is a
conjunction of named parts, and there is a lemma per action. The assumptions on the constants are
those in the models, which TLC evaluates on every run; a hypothesis that a theorem needs beyond
them is named below, with the instance that meets it.

`CommonLemmas` has what lists do under cons, tail, removal, insertion and concatenation; the
arithmetic of blocks; that a set of numbers has a least element, which stands in for induction; and
what determines a fold (`FoldsAgree`), from which the closed forms of the two loops over rows
(`FoldShift` for `memmove`, `FoldMarks` for a glyph) follow, with what holds of each part of a fold
(`FoldStays`) and that there is a function the fold computes (`FoldExists`).

### Buddy, for every memory map and every use

- `BitsNotStale`: `Spec => []BitImpliesFree`
- `StaysSorted`: `Spec => []TableSorted`
- `NeverRefusesInVain`: `Spec => []AllocComplete`
- `WellTyped`: `Spec => []TypeOK`

These hold in unaligned regions too, where `NoOverlap` fails. They follow from `Sound` (theorem
`AlwaysSound`): every listed block is one whose bit can be tested (`FreeChecked`), no bit is stale,
the table is sorted. `FreeChecked` is what `AllocComplete` turns on: `kbud_push` refuses a block
whose bit is outside the bitmap, so the head of a list can always be popped again.

### Buddy, where regions are aligned

For every memory map, number of orders and table size, assuming `SafeUse`:

- `Invariance`: `Spec => []Inv`
- `Exclusive`: `Spec => []NoOverlap`
- `Bounded`: `Spec => []InBounds`
- `PopFindsBuddy`: `Spec => []NoListCorruption`
- `Refinement`: `Spec => KeepsPromise`, the allocator implements `PageAllocator`

`SafeUse` says that `kbud_free` is not used, or that in every region `mbase` is a multiple of
the largest block. Without it the theorems are false (`buddy_xor`). Nothing in the boot code
makes regions aligned; today `SafeUse` holds only because nothing in the running kernel reaches
`kbud_free`: its only caller is the object cache, which gives slabs back when areas have been freed or
the cache is destroyed; no one destroys it, and `iounmap` is empty.

`NoOverlap` is not inductive: a split or merge keeps blocks apart only if they are aligned to
their size and lie in one region, and a merge takes the right block off the list only if a set
bit means that one of the pair is free. `Inv` adds that: every listed, held or moving block is
an aligned block of an added region (`FreeOK`, `LiveOK`, `OpOK`), no bit is stale
(`BitImpliesFree`), no walk has left a list. The main step is `BuddyListed`: the pair's bit is
set, so one of the two blocks is listed; it is not the one in hand, because that would overlap;
so it is the buddy. The assumptions are those in `Buddy`: ranges are disjoint; facts on powers of
two and on the header's size, which the provers cannot compute and TLC evaluates on each run.

### Buddy, where nothing is refused

Assuming `LosesNothing`, which `buddy_free`'s instance meets:

- `NothingLeaks`: `Spec => []NoLeak`
- `SplitMergeUndo`: `Spec => []Restores`, if `kbud_free_range` is not used

`kbud_push` and the calls around it drop what they cannot keep without telling, so each part of
`LosesNothing` rules out one loss the code has: a block without a bit in the bitmaps
(`BitmapsSuffice`), two blocks of a region's largest order merged into one it has no list for
(`TopStops`), the pages of a region that no longer gets into the table (`RoomInTable`),
`kbud_free_range` of a page count where a larger block was given out (`WholeBlocks`), and a buddy
that is not the one the split had in mind (`AlignedRegions`).

For `NoLeak` the invariant (`Keeps`) also counts the block the loop under way has in hand. For
`Restores` it says that of two buddies below the largest order never both are free (`PairOnce`),
that a bit is set whenever one is (`FreeBits`), and what has been carved so far of a region being
added (`Carving`). When everything has been given back, every block that fits
its region lies in a free one: otherwise take the smallest free block inside it; its buddy is
covered by free blocks too, none of them smaller, so it is free, which `PairOnce` excludes
(`NoSmall`, by `Least`).

### Slab, for every page, header and object size, alignment and memory

- `Invariance`: `Spec => []Inv`
- `ListedOnce`: `Spec => []SlabsListedOnce`
- `OnRightList`: `Spec => []RightList`
- `FreeOrHeld`: `Spec => []ObjectsFreeOrHeld`
- `HeldOwned`: `Spec => []HeldIsOwned`
- `Inside`: `Spec => []ObjectsInside`
- `EmptyStaysBounded`: `Spec => []EmptyBounded`
- `AsksWhenFull`: `Spec => NewOnlyIfFull`, an action property

None of these is inductive by itself. A freelist has no duplicates only if what comes back was
held; the slab of an object is found by masking, which needs the block to be aligned and the
objects inside it; a slab that goes back must have no object out, which its count says only if the
count is the length of the freelist; and then all of its objects are on that freelist, because a
list without duplicates of as many elements holds them all (`ShorterList`). `EmptyBounded` needs
a bound on how far `empty_slabs` drifts: while slabs are empty it is at most one behind their
number (`Drift`), and the code adds two before it compares, so it errs by giving slabs back too
early and never too late. `SlabPowers` states that powers of two are positive.

### Vma, for every set of structs, region and sizes

Assuming `AnyFree = FALSE`: callers free only areas whose removal is `Harmless`, those that need no
repair and those of a right child whose sibling takes the loss. `vma_free`'s instance meets it, and
without it the theorems are false (`vma_lost`); insertion and allocation are not restricted.

- `VmaInvariant`: `Spec => []IndInv`
- `AreasStayDisjoint`: `Spec => []AreasDisjoint`
- `TreeHolds`: `Spec => []TreeHoldsAreas`
- `StaysRedBlack`: `Spec => []RedBlack`
- `SearchIsRight`: `Spec => []SearchFinds`
- `PlaceIsRight`: `Spec => []PlaceIsExact`

The invariant speaks of two functions on the nodes that no code computes: S gives the nodes below a
node and H its number of black nodes. A tree is `Good` if there are S and H for which it is nested
and linked, in the order of the areas (`Shape`), of equal height on both sides (`Heights`), and
without a red node below a red one but for a node x (`Reds`). Stated with the recursive functions of the
properties, no step could be followed; stated with S and H, a rotation changes either of them at
two nodes (`TurnedShape`, `TurnedHeights`), a new leaf or a cut adds or takes one node (`GraftGood`,
`CutShape`), and the exchange of a node with its successor renames two (`RenameGood`). `IndInv` says
that the tree is `Good` between calls, that x is the node `rb_fixins` looks at, and in `rb_fixdel`
that the tree will be good once the colours that the remaining rounds change are changed
(`LossAhead`, `LossTaken`).

The walks are loops that end because the set of nodes below, or of areas behind, shrinks
(`TailRecursion`, by `Least`). So `vma_search`, the descent of `vma_insert`, `rb_next` and the walk over
the gaps have closed forms (`SearchIs`, `DescentIs`, `NextIs`, `GapIs`), and `Subtree` and
`BlackHeights` are S and H (`SubtreeIs`, `HeightsAre`). `AreasDisjoint` rests on `PlaceIs`: the descent
cannot fail for a place that is clear, so that nothing hangs on the result that `vma_alloc_area`
does not look at.

### Boot, for every memory map that is sane, every page size and every layout

and every use of `ioremap` afterwards (the specification is `MemSpec` of Vmalloc). Assuming
`MapsAreSane`: the available entries of the map are whole pages and apart, and one of them holds the
image and is longer than the address at which the image ends. `TheMapsAreSane` in `MCMemory` has TLC
evaluate that for the maps of `memory`.

- `BootInvariant`: `MemSpec => []BootInv`
- `GivenStaysFree`: `MemSpec => []GivenIsFree`
- `FramesStayAligned`: `MemSpec => []FramesAligned`

Each part of the hypothesis is one the code relies on without a test. A length that is no number of
pages moves every frame off its page (`boot_align`); an entry not longer than the image's end wraps below zero in
`pf_init_region`, since the entry loses as many bytes as the image's end is high, wherever it starts;
and the preinit pages are free memory only if the image lies in an available entry.

`GivenIsFree` speaks of what was given; the steps need to know where it came from. `BootInv` keeps
that: the sorted list is the available entries, each once (`EntriesInv`; `UsableList`, `SortedList`);
the regions are whole pages of them, behind the image, apart, and the frames counted down from a
region's top lie in it (`RegionsFree`; `RegionOf`); what is given are the regions but the first, then
the first and the preinit pages (`GivenInv`). That the first tables lie in the first region
is a fact about all the loops that build them: a table is put nowhere but in a frame of the pool.
`Memories(A)` are the memories with tables and pool within A, and there is a lemma for each
operation that it leads from one of these to another (`AllocStays`, `Fill3Stays`, `Fill4Stays`,
`KcodeStays`, `IdentmapStays`), whatever indices and counts it works with.

### Console, for every font size and every framebuffer

higher than a line, at least a glyph wide, and small enough for 32 bits (`ConsoleAssumption`):

- `Onscreen`: `Spec => []CursorInside`. The step at risk is the unsigned subtraction in
  `con_scroll_by`. The strengthening (`CursorInv`, theorem `CursorStays`) is that the cursor is
  a whole number of lines down: a cursor in need of scrolling is then not in the first line.
- `TailShown`: `Spec => []ScreenIsTail`, and `WholeLines`: `Spec => []LinesWhole`, if the roll is as
  long as the screen is high (`RollSuffices`, met by `console`; the roll is history, so this is no
  condition on the code). The strengthening (`ScreenInv`): the last line of the screen has no ink, a
  cursor in it is at column 0, and no line of the roll is below the screen. What scrolling lays
  bare is then blank in the roll as well.

### Kernel, for every framebuffer, text, set of faults, stack size and table size

of at least 32 vectors, a greeting that is not empty, and glyphs that are no control characters
(`KernelAssumption`, `MessageAssumption`):

- `NeverStale`: `Spec => []NothingStale`. What a call of `kernel_main` finds done is written down
  per call (`Order`). A console that cannot print would pass `isr_init` unnoticed but for
  `Unprinted` and `Greets`: the greeting on it never gets past its first character.
- `OnlyTheStack`: `Spec => []StackGivesOut`, the safety half of `PanicEnds`. All gates have the same
  selector (`SameSelector`), so that one handler reached means that all can be (`Reached`).
- `RightFrame`: `Spec => []FrameRight`. For each vector the words that processor, stub and
  `isr_common` push are counted out, with and without an error code.
- `WholeCharacters`: `Spec => []CharWhole`. The invariant (`Underway`) says at each store that what
  the stores to come will make of the console is what the whole character makes of the console
  before it. It holds from whatever state an interrupt has left the console in.
- `PanicLegible`: `Spec => []PanicShows`, on screens with more than six lines and room for two glyphs
  (`RoomForPanic`, met by both screens of `kernel`). Two more invariants: after every store, also
  in the middle of a scroll, nothing is below the cursor's line (`GInv`), so that line feeds lead to
  a blank line; and for each rest of the text that `panic` has still to print, what is on the screen
  by then and how far up (`Stage`). The end of the message is at most five lines above the
  cursor when the last line feed scrolls, hence six lines. TLC finds `PanicShows` true on a screen
  of five and a half lines too; the theorem does not reach that far.

### Only model-checked

- `TablesServe`, `TablesKept` and `MappingsRight`: what the page tables say, as opposed to where they
  lie. A table stays a table only if no loop writes a mapping over the entry that leads to it,
  and that turns on which addresses each loop reaches, entry by entry and wrapping round at the end of a
  table; `vmalloc_cross` shows that in general they are false.
- `PrintsRight`: the conversions of Format are loops over digits, whose result would need an induction
  over data.
- Vma where any area may be freed: there the properties fail.
- All liveness (`CallReturns`, `PanicEnds`, `Returns`), which is beyond the prover.

## 5. What modelling showed besides the findings

The models follow the code in these places; no run is kept for them.

- Adding region number `PFRAME_MAX_REGIONS` stores the terminator over `region_count`
  (`mm/buddy.c:178`); `CountAfterAdd`.
- `kbud_free_range` goes on with a region its header fills (`mm/buddy.c:339`);
  `kbud_add_region`.
- In a region smaller than the largest order the last merge makes a block the region has no
  list for, and it is lost (`mm/buddy.c:475`, `:491`); `FreeReturns`.
- `kslab_cache_destroy` leaves the list heads in place; creating the cache again in the same
  struct serves objects from blocks that were given back (`mm/slab.c:145`).
- Freeing the only area, or one whose node is a black left child, makes `rb_fixdel` follow a
  NULL pointer (`rbtree.c:132`), and other removals leave a tree that is not balanced, since
  inner and outer child of the sibling are exchanged (`rbtree.c:135`); `FixDelete`.
- `vma_remove_by_addr` of an address in no area hands `(void *)-1` to a function that tests for
  NULL (`mm/vma.c:98`).
- A region at or above 1 GiB has its header written where nothing is mapped (`boot.c:166`).
- The direct map is as long as the sum of the memory-map entries: holes shorten it
  (`boot.c:255`). `MCMemory` keeps to maps it reaches.
- `kern_uhalf_init` always returns 0. Each region loses one page in `buddy_handoff`.
- No caller of `return_pt_or_alloc` (nor, in the boot code, of `alloc_frame`, but for one) looks for
  `KPAGE_ERR` (`pagetbl.c:91`). The model stops there; see section 7.
- Preinit pages are donated by their address in the image, which is not in the direct map
  (`pagetbl.c:285`).
- Backspace never erases: it fills the glyph of the space, which is 0 by 0 in both fonts
  (`io/console.c:185`, `drivers/video/font.c:72`), and the next glyph is drawn over the old
  one. `gop_fill_rect` takes three bytes per pixel whatever `bpp` is (`gop.c:77`).
- A glyph that starts inside the screen's right edge is drawn and clipped; the line ends after
  it (`io/console.c:244`).
- A boot that is not by UEFI leaves the framebuffer without operations (`framebuffer.c:50`): the
  first `printk` faults before there is an IDT. So does a panic of `mm_init`. Both shut the
  processor down without a word; `NullConsole`.
- The gates' selector is the low half-word of the address of `CODE_SEGMENT64` (`isr.c:31`), where
  `isr.S:304` and `gdt.S:25` take its value, 8. Unless the linker happens to put it at an address
  that ends in 0008, no exception reaches its handler; `Selectors`.
- The handler table is filled by position (`isr.c:148`): the handlers of vectors 28 to 30
  (`isr.h:39`) are at 22 to 24, and 28 to 30 say "temporary"; `Message`.
- `con_ctrl_newl` sets `cx` to 0 before it moves down (`io/console.c:142`). An exception in between
  prints its message over the line that had just been written, and glyphs have no background.
  Only the banner, after two more line feeds, is always legible; `PanicShows` says exactly that.
- `%5d` and `%.3d` print themselves: digits are read through a copy of `fmt` (`stdio.c:157`,
  `:178`), while `.*` takes its argument all the same. `%s` goes on into the conversion of numbers
  and prints a further argument (`stdio.c:255`). `%c` without `-` never ends (`stdio.c:244`). `%hd`
  of a negative number prints a large one (`stdio.c:203`); `#` puts a prefix in front of zero
  (`stdio.c:98`). A `%` at the end of a format makes the loop run on behind it (`stdio.c:297`), and a
  panic message is a format. The kernel's own calls use only `%d`.
- `CPUID_FEAT_GROUP` packs the leaf at bit 7, where its comment says bit 8 (`cpu_feats.h:121`).

## 6. Plan

Done: the modules above, and proofs of all safety properties of Buddy, Slab, Vma, Console and
Kernel, and of those of Boot that are about memory. To do, in this order:

1. PageTables: that the first tables form a tree (the boot part of `TablesKept`), with a level
   for each frame in `Memories`, for memory that the direct map's part of the address space can hold.
2. Buddy: the bisection of `find_buddy_slave` as a step-by-step search.
3. Vmalloc on Vma and Buddy, with pages by virtual address.

## 7. Not modelled

CPU features (read once, not used), string functions except where others use them (`memmove` and
`memset` in Console), the VGA drivers (no caller), fonts (data), assembly entry code (Boot takes
from it how much is mapped), headers with types and port instructions, empty stubs (`kmalloc`,
`iounmap`, serial, IRQ). In the modelled parts: block contents, colours, log levels, slab flags and
names, the debug console of the boot code, the TLB, and more than 64 memory-map entries.

Two ways in which a fault is taken to come at once, where the code may go on for a while:

- `KPAGE_ERR` used as a table (`Stop` in `PageTables`). Its entries are those at address -1 and
  up, which wraps to low memory. The boot code's identity map (`boot.c:340`) covers that until the
  second tables are in use, so that with too little memory the loops of `remap_bootmem_*` may overwrite
  low memory and leave parts of the image or of the direct map out before the kernel comes to
  grief. The properties of `memory` say nothing of those states.
- A read through NULL (`NullConsole` in `Kernel`). If `reallocate_bootmem_pages` gave up
  (`pagetbl.c:265`), the same identity map covers page 0, and there is no fault but whatever lies
  there. No property turns on it.
