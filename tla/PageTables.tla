----------------------------- MODULE PageTables ------------------------------
(***************************************************************************)
(* Four-level x86 page tables as kernel/pagetbl.c and kernel/boot.c build  *)
(* and walk them, with PT_ENTRIES entries per table in place of 512.       *)
(*                                                                         *)
(* Addresses are page numbers.  A memory m holds the tables by the number  *)
(* of their frame (m.mem), the frames a table may be put in (m.pool) and   *)
(* what stopped the kernel (m.fault).                                      *)
(***************************************************************************)
EXTENDS Integers, FiniteSetsExt, SequencesExt

CONSTANTS
  PT_ENTRIES,
  KERNEL_PHMMAP,   \* where the direct map of all memory starts
  KERNEL_VMMMAP,   \* where the areas of vma.c start
  KERNEL_OFFSET,   \* where the kernel image starts
  KernPages,       \* _kphys_end - _kphys_start + load_addr
  ReadOnly,        \* pages of the image in _begin .. _after_ro
  Guards           \* pages kstack_guard and kstack_top of the image

\* Pages under one entry of a table of level k.
EntrySize(k) ==
  <<1, PT_ENTRIES, PT_ENTRIES * PT_ENTRIES, PT_ENTRIES * PT_ENTRIES * PT_ENTRIES>>[k]

ASSUME LayoutAssumption ==
  /\ PT_ENTRIES \in Nat /\ PT_ENTRIES >= 2
  /\ \A a \in {KERNEL_PHMMAP, KERNEL_VMMMAP, KERNEL_OFFSET} : a \in Nat
  /\ KERNEL_PHMMAP % EntrySize(4) = 0 /\ KERNEL_VMMMAP % EntrySize(4) = 0
  /\ KERNEL_OFFSET % EntrySize(3) = 0
  /\ KernPages \in 1 .. EntrySize(3)
  /\ ReadOnly \subseteq 0 .. KernPages - 1 /\ Guards \subseteq 0 .. KernPages - 1

Idx(v, k) == (v \div EntrySize(k)) % PT_ENTRIES

\* Entries of level k, or tables of level k - 1, that so many pages take.
Count(pages, k) == (pages + EntrySize(k) - 1) \div EntrySize(k)

Absent == [to |-> 0, flags |-> {}]
Blank == [i \in 0 .. PT_ENTRIES - 1 |-> Absent]
RW == {"present", "writable"}

Memory(frames) == [mem |-> << >>, pool |-> frames, fault |-> "none"]

Stop(m, why) == [m EXCEPT !.fault = why]

\* A fresh, zeroed table in frame f.
Grab(m, f) ==
  [m EXCEPT !.mem = [g \in DOMAIN m.mem \cup {f} |-> IF g = f THEN Blank ELSE m.mem[g]],
            !.pool = m.pool \ {f}]

Write(m, t, i, e) == IF m.fault # "none" THEN m ELSE [m EXCEPT !.mem[t][i] = e]

-----------------------------------------------------------------------------
\* The table behind entry i of table t, made if it is missing.  No caller
\* looks for KPAGE_ERR, and the model stops at the first use of it as a table.
\* In the code the entries then written start at address -1 and wrap to low
\* memory, which the boot tables map until cr3 is changed; what is overwritten
\* there, and how far the kernel gets with it, is not modelled.
return_pt_or_alloc(m, t, i) ==
  IF m.fault # "none" THEN m
  ELSE IF "present" \in m.mem[t][i].flags
       THEN IF m.mem[t][i].to \in DOMAIN m.mem THEN m ELSE Stop(m, "page used as a table")
  ELSE IF m.pool = {} THEN Stop(m, "table at KPAGE_ERR")
  ELSE LET f == Max(m.pool)
       IN  Write(Grab(m, f), t, i, [to |-> f, flags |-> RW])

\* The nested loops of pt_map_huge(), pt_map_large() and pt_map_norm(), one
\* operator for the loop on a table of each level.  s holds the memory, the
\* next page to map and where to, the level and flags of the entries that map,
\* and for each level how many entries are left.  A fault ends all loops.
Rounds(Body(_), s, n) ==
  FoldLeft(LAMBDA a, i : IF a.m.fault # "none" THEN a ELSE Body(a), s, [i \in 1 .. n |-> i])

\* One entry of table t that maps.
MapEntry(s, t, k) ==
  [s EXCEPT !.m = Write(@, t, Idx(s.v, k), [to |-> s.p, flags |-> s.flags]),
            !.v = @ + EntrySize(k), !.p = @ + EntrySize(k)]

\* One entry of table t that leads to a table, which FillBelow fills.
\* pt_map_large() runs its second loop for all that is left, not for one
\* table's share.
MapTable(s, t, k, FillBelow(_, _, _)) ==
  LET m1 == return_pt_or_alloc(s.m, t, Idx(s.v, k))
      c  == Min({PT_ENTRIES, s.rem[k - 1]})
      rounds == IF k = 4 /\ s.leaf = 2 THEN s.rem[k - 1] ELSE c
      s1 == FillBelow([s EXCEPT !.m = m1], m1.mem[t][Idx(s.v, k)].to, rounds)
  IN  IF m1.fault # "none" THEN [s EXCEPT !.m = m1]
      ELSE [s1 EXCEPT !.rem[k - 1] = @ - c]

Fill1(s, t, n) == Rounds(LAMBDA a : MapEntry(a, t, 1), s, n)

Fill2(s, t, n) ==
  Rounds(LAMBDA a : IF a.leaf = 2 THEN MapEntry(a, t, 2) ELSE MapTable(a, t, 2, Fill1), s, n)

Fill3(s, t, n) ==
  Rounds(LAMBDA a : IF a.leaf = 3 THEN MapEntry(a, t, 3) ELSE MapTable(a, t, 3, Fill2), s, n)

Fill4(s, t, n) == Rounds(LAMBDA a : MapTable(a, t, 4, Fill3), s, n)

\* Maps so many pages from v on to those from p on, with entries of level leaf.
MapPages(m, l4, leaf, v, p, pages, flags) ==
  Fill4([m |-> m, leaf |-> leaf, v |-> v, p |-> p,
         flags |-> flags \cup (IF leaf = 1 THEN {} ELSE {"pagesize"}),
         rem |-> [k \in 1 .. 3 |-> Count(pages, k)]], l4, Count(pages, 4)).m

\* The image, page by page in whole tables from physical page 0 on.
KcodeTable(m, l3, n) ==
  LET l1s == Count(KernPages, 2)
      v3  == KERNEL_OFFSET + (n \div l1s) * EntrySize(3)
      v2  == KERNEL_OFFSET + (n % l1s) * EntrySize(2)
      m1  == return_pt_or_alloc(m, l3, Idx(v3, 3))
      l2  == m1.mem[l3][Idx(v3, 3)].to
      m2  == return_pt_or_alloc(m1, l2, Idx(v2, 2))
      l1  == m2.mem[l2][Idx(v2, 2)].to
      e(i) == LET p == n * PT_ENTRIES + i
              IN  [to |-> p, flags |-> IF p \in ReadOnly THEN {"present"} ELSE RW]
  IN  IF m1.fault # "none" THEN m1
      ELSE IF m2.fault # "none" THEN m2
      ELSE [m2 EXCEPT !.mem[l1] = [i \in 0 .. PT_ENTRIES - 1 |-> e(i)]]

remap_bootmem_kcode_pages(m, l4) ==
  LET m1 == return_pt_or_alloc(m, l4, Idx(KERNEL_OFFSET, 4))
      l3 == m1.mem[l4][Idx(KERNEL_OFFSET, 4)].to
      tables == [n \in 1 .. Count(KernPages, 3) * Count(KernPages, 2) |-> n - 1]
  IN  IF m1.fault # "none" THEN m1
      ELSE FoldLeft(LAMBDA a, n : KcodeTable(a, l3, n), m1, tables)

\* All memory below ram_max, by pages of level 3.
remap_bootmem_dmap_pages(m, l4, ram_max) == MapPages(m, l4, 3, KERNEL_PHMMAP, 0, ram_max, RW)

-----------------------------------------------------------------------------
\* kpt_get_phys(): the entry that maps page v, with the page it is mapped to.
kpt_get_phys(m, l4, v) ==
  LET walk[t \in DOMAIN m.mem, k \in 1 .. 4] ==
        LET e == m.mem[t][Idx(v, k)]
        IN  IF "present" \notin e.flags THEN Absent
            ELSE IF k = 1 THEN e
            ELSE IF k < 4 /\ "pagesize" \in e.flags THEN [e EXCEPT !.to = @ + (v % EntrySize(k))]
            ELSE IF e.to \in DOMAIN m.mem THEN walk[e.to, k - 1]
            ELSE Absent
  IN  walk[l4, 4]

\* kpt_get_l1() does not see that kpt_get_l2() found no table.
kpt_unmap_page(m, l4, v) ==
  LET l3 == m.mem[l4][Idx(v, 4)].to
      e3 == m.mem[l3][Idx(v, 3)]
      e2 == m.mem[e3.to][Idx(v, 2)]
      Table(e) == "present" \in e.flags /\ "pagesize" \notin e.flags
  IN  IF m.fault # "none" THEN m
      ELSE IF l3 \notin DOMAIN m.mem THEN Stop(m, "no table")
      ELSE IF ~Table(e3) THEN Stop(m, "no table")
      ELSE IF ~Table(e2) THEN Stop(m, "no table")
      ELSE [m EXCEPT !.mem[e2.to][Idx(v, 1)].flags = @ \ {"present"}]

kstack_guard_init(m, l4) ==
  FoldSet(LAMBDA g, a : kpt_unmap_page(a, l4, KERNEL_OFFSET + g), m, Guards)

-----------------------------------------------------------------------------
(***************************************************************************)
(* What the tables of a running kernel must say.                           *)
(***************************************************************************)

\* The image is mapped from its start on, its code cannot be written, and the
\* pages around the stack are not mapped.
ImageMapped(m, l4) ==
  \A p \in 0 .. KernPages - 1 :
    LET e == kpt_get_phys(m, l4, KERNEL_OFFSET + p)
    IN  IF p \in Guards THEN e = Absent
        ELSE e.to = p /\ ("writable" \in e.flags <=> p \notin ReadOnly)

\* All memory is mapped at its place in the direct map.
MemoryMapped(m, l4, pages) ==
  \A p \in pages :
    LET e == kpt_get_phys(m, l4, KERNEL_PHMMAP + p)
    IN  e.to = p /\ RW \subseteq e.flags

\* The tables form a tree: every entry that leads to a table leads to one of
\* its own, and no allocator has the frame of a table.
TableTree(m, l4) ==
  LET Entries(ts) == {x \in (ts \cap DOMAIN m.mem) \X (0 .. PT_ENTRIES - 1) :
                        LET e == m.mem[x[1]][x[2]]
                        IN  "present" \in e.flags /\ "pagesize" \notin e.flags}
      Below(ts) == {m.mem[x[1]][x[2]].to : x \in Entries(ts)}
      Upper  == {l4} \cup Below({l4}) \cup Below(Below({l4}))
      Tables == Below(Upper)
  IN  /\ l4 \notin Tables
      /\ Tables \subseteq DOMAIN m.mem
      /\ Cardinality(Entries(Upper)) = Cardinality(Tables)
      /\ ({l4} \cup Tables) \cap m.pool = {}

=============================================================================
