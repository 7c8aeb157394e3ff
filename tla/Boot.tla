-------------------------------- MODULE Boot ---------------------------------
(***************************************************************************)
(* From the boot loader to the page allocator: kernel/boot.c, then         *)
(* kern_uhalf_init() of kernel/pagetbl.c.                                  *)
(*                                                                         *)
(* The firmware's memory map becomes a sorted list of regions; frames from *)
(* the top of the first one hold the first page tables; the others go to   *)
(* the page allocator; new tables are built from its pages, and then the   *)
(* first region goes to it as well.                                        *)
(*                                                                         *)
(* Addresses and lengths of the memory map are in bytes, PAGESIZE to a     *)
(* page; tables, frames and pages of the allocator are page numbers.       *)
(***************************************************************************)
EXTENDS PageTables

CONSTANTS
  PAGESIZE,
  Word,        \* 2^64: lengths and counts are unsigned
  MemMaps,     \* memory maps the firmware may report: sequences of entries
  TagSets,     \* sets of tags the boot loader may pass
  KernStart,   \* page of _kphys_start; the image ends at page KernPages
  Preinit      \* pages of the image in __prebegin .. __preend

\* An entry of the firmware's memory map.
MapEntries == [type : {"available", "acpi", "reserved"}, base : Nat, len : Nat]

ASSUME BootAssumption ==
  /\ PAGESIZE \in Nat \ {0} /\ Word \in Nat \ {0}
  /\ KernStart \in 0 .. KernPages - 1
  /\ Preinit \subseteq KernStart .. KernPages - 1
  /\ MemMaps \subseteq Seq(MapEntries)

VARIABLES
  phase,   \* the step that comes next
  mbmap,   \* the memory map of the boot loader
  tags,    \* the tags it passes
  info,    \* kboot_info_t: [entries, ram_max]
  region,  \* preinit_pfa.region: a sequence of [base, top, cur, max]
  pt,      \* tables and frames for tables
  cr3,
  given    \* the pages of each call of kbud_free_range()

vars == <<phase, mbmap, tags, info, region, pt, cr3, given>>

Init ==
  /\ phase = "parse"
  /\ mbmap \in MemMaps
  /\ tags \in TagSets
  /\ info = [entries |-> <<>>, ram_max |-> 0]
  /\ region = <<>>
  /\ pt = Memory({})
  /\ cr3 = 0
  /\ given = <<>>

U64(n) == n % Word

PageOf(a) == a \div PAGESIZE

\* The first tables map this much memory at its own address.
IdentPages == EntrySize(3)

-----------------------------------------------------------------------------
\* Variant: ACPI memory does not count.
RamMax_NoAcpi(s) ==
  FoldLeft(LAMBDA n, e : IF e.type = "available" THEN n + e.len ELSE n, 0, s)

RamMax(s) == FoldLeft(LAMBDA n, e : IF e.type = "reserved" THEN n ELSE n + e.len, 0, s)

Usable(s) == FoldLeft(LAMBDA a, e : IF e.type = "available" THEN Append(a, e) ELSE a, <<>>, s)

\* By insertion: an entry goes behind the last one that does not start after it.
pi_sort_boot_mapentries(s) ==
  FoldLeft(LAMBDA a, e :
             InsertAt(a, 1 + Max({0} \cup {j \in DOMAIN a : a[j].base <= e.base}), e), <<>>, s)

\* A missing tag is fatal.
pi_parse_mb2 ==
  /\ phase = "parse"
  /\ IF {"mmap", "framebuffer", "acpi", "load address"} \subseteq tags
     THEN /\ info' = [entries |-> pi_sort_boot_mapentries(Usable(mbmap)),
                      ram_max |-> RamMax(mbmap)]
          /\ phase' = "alloc_init"
     ELSE phase' = "dead" /\ info' = info
  /\ UNCHANGED <<mbmap, tags, region, pt, cr3, given>>

HoldsImage(e) == e.base <= KernStart * PAGESIZE /\ e.base + e.len >= KernPages * PAGESIZE

\* Variant: the last frame is a byte below the end.
pf_init_region_ByteBack(e) ==
  [base |-> e.base, top |-> e.base + e.len - 1, max |-> PageOf(e.len),
   cur |-> U64(PageOf(e.len) - 1)]

\* An entry that holds the image loses as many bytes as the image ends at.
\* One frame is set aside.
pf_init_region(e) ==
  LET end == KernPages * PAGESIZE
      base == IF HoldsImage(e) THEN e.base + end ELSE e.base
      len  == IF HoldsImage(e) THEN U64(e.len - end) ELSE e.len
  IN  [base |-> base, top |-> U64(base + len - PAGESIZE), max |-> PageOf(len),
       cur |-> U64(PageOf(len) - 1)]

\* The header of a region is written at its own address.
alloc_init ==
  /\ phase = "alloc_init"
  /\ region' = [i \in DOMAIN info.entries |-> pf_init_region(info.entries[i])]
  /\ IF \A i \in DOMAIN region' : PageOf(region'[i].base) < IdentPages
     THEN phase' = "init_higher_half" /\ pt' = pt
     ELSE phase' = "dead" /\ pt' = Stop(pt, "page fault")
  /\ UNCHANGED <<mbmap, tags, info, cr3, given>>

\* The frames alloc_frame() takes, from the top of the first region down.
BootFrames ==
  IF region = <<>> THEN {}
  ELSE {PageOf(region[1].top) - i : i \in 0 .. region[1].cur - 1}

\* Once they are used up: a frame of a later region is found out of bounds,
\* and if there is none, KPAGE_ERR is used as a table.
OutOfFrames == \E i \in DOMAIN region : i > 1 /\ region[i].cur > 0

pt_init_temp_identmap(m, l4) ==
  LET m1 == return_pt_or_alloc(m, l4, 0)
  IN  Write(m1, m1.mem[l4][0].to, 0, [to |-> 0, flags |-> RW \cup {"pagesize"}])

init_higher_half ==
  /\ phase = "init_higher_half"
  /\ IF BootFrames = {}
     THEN phase' = "dead" /\ UNCHANGED <<pt, cr3, region>>
     ELSE LET l4 == Max(BootFrames)
              m1 == pt_init_temp_identmap(Grab([pt EXCEPT !.pool = BootFrames], l4), l4)
              m2 == IF m1.fault # "none" THEN m1 ELSE remap_bootmem_kcode_pages(m1, l4)
              m3 == IF m2.fault # "none" THEN m2
                    ELSE remap_bootmem_dmap_pages(m2, l4, PageOf(info.ram_max + PAGESIZE - 1))
          IN  /\ cr3' = l4
              /\ region' = [region EXCEPT ![1].cur = Cardinality(m3.pool)]
              /\ IF m3.fault = "none" THEN phase' = "buddy_handoff" /\ pt' = m3
                 ELSE phase' = "dead" /\ pt' = IF OutOfFrames THEN [m3 EXCEPT !.fault = "none"]
                                               ELSE m3
  /\ UNCHANGED <<mbmap, tags, info, given>>

-----------------------------------------------------------------------------
\* Pages of a region that the page allocator gets; the first holds its header.
PagesFrom(r, n) == {PageOf(r.base) + i : i \in 0 .. n - 1}

\* Variant: the first region is handed over at once.
HandedOver_All == [i \in DOMAIN region |-> PagesFrom(region[i], region[i].cur)]

HandedOver ==
  [i \in 1 .. Len(region) - 1 |-> PagesFrom(region[i + 1], region[i + 1].cur)]

\* All regions but the first, through the direct map.
buddy_handoff ==
  /\ phase = "buddy_handoff"
  /\ IF \A i \in DOMAIN region \ {1} :
          kpt_get_phys(pt, cr3, KERNEL_PHMMAP + PageOf(region[i].base)) # Absent
     THEN /\ given' = HandedOver
          /\ pt' = [pt EXCEPT !.pool = UNION Range(HandedOver)
                                         \ {PageOf(region[i].base) : i \in DOMAIN region}]
          /\ phase' = "kern_uhalf_init"
     ELSE pt' = Stop(pt, "page fault") /\ phase' = "dead" /\ UNCHANGED given
  /\ UNCHANGED <<mbmap, tags, info, region, cr3>>

\* The new tables in pages of the page allocator.
NewTables(l4) ==
  LET m1 == remap_bootmem_kcode_pages(Grab(pt, l4), l4)
  IN  IF m1.fault # "none" THEN m1
      ELSE remap_bootmem_dmap_pages(m1, l4, PageOf(info.ram_max + PAGESIZE - 1))

\* What the first region held is gone once the page allocator has it.
Discard(m, freed) ==
  [m EXCEPT !.mem = [f \in DOMAIN m.mem \ freed |-> m.mem[f]],
            !.pool = m.pool \cup (freed \ {PageOf(region[1].base)})]

\* Variant: the processor stays with the first tables.
SwitchTo_Stays(l4) == cr3

SwitchTo(l4) == l4

\* Without a page for the top table the first tables stay, and all is said to
\* be well.  The pages of the image that only the boot used are given by
\* their address in the image, which is not one of the direct map.
kern_uhalf_init ==
  /\ phase = "kern_uhalf_init"
  /\ IF pt.pool = {}
     THEN /\ pt' = kstack_guard_init(pt, cr3)
          /\ phase' = "up"
          /\ UNCHANGED <<cr3, given>>
     ELSE LET l4 == Max(pt.pool)
              m  == NewTables(l4)
              freed == PagesFrom(region[1], region[1].max)
          IN  IF m.fault # "none"
              THEN pt' = m /\ phase' = "dead" /\ UNCHANGED <<cr3, given>>
              ELSE /\ cr3' = SwitchTo(l4)
                   /\ pt' = LET d == Discard(m, freed)
                            IN  IF cr3' \in DOMAIN d.mem THEN kstack_guard_init(d, cr3')
                                ELSE Stop(d, "page fault")
                   /\ given' = given \o <<freed, Preinit>>
                   /\ phase' = "up"
  /\ UNCHANGED <<mbmap, tags, info, region>>

Next == pi_parse_mb2 \/ alloc_init \/ init_higher_half \/ buddy_handoff \/ kern_uhalf_init

Spec == Init /\ [][Next]_vars

-----------------------------------------------------------------------------
(***************************************************************************)
(* What boot promises the kernel.                                          *)
(***************************************************************************)
AllGiven == UNION Range(given)

\* A memory map boot can work with: the entries for use are whole pages and
\* apart, and one of them holds the image and is longer than the image's end.
SaneMap(s) ==
  LET usable == {i \in DOMAIN s : s[i].type = "available"}
  IN  /\ \A i \in usable :
           /\ s[i].base % PAGESIZE = 0 /\ s[i].len % PAGESIZE = 0
           /\ s[i].len > 0 /\ s[i].base + s[i].len <= Word
      /\ \A i, j \in usable : i # j => \/ s[i].base + s[i].len <= s[j].base
                                       \/ s[j].base + s[j].len <= s[i].base
      /\ \E i \in usable : HoldsImage(s[i]) /\ s[i].len > KernPages * PAGESIZE

\* Pages of the entries the firmware calls available.
Available ==
  {p \in 0 .. Word \div PAGESIZE : \E i \in DOMAIN mbmap :
     /\ mbmap[i].type = "available"
     /\ mbmap[i].base <= p * PAGESIZE /\ (p + 1) * PAGESIZE <= mbmap[i].base + mbmap[i].len}

\* The page allocator gets nothing but memory, and no page twice: no page of
\* the running image, no page the firmware keeps, and, before the first region
\* is freed, none of the frames with the first tables.
GivenIsFree ==
  /\ AllGiven \subseteq Available
  /\ AllGiven \cap ((KernStart .. KernPages - 1) \ Preinit) = {}
  /\ \A i, j \in DOMAIN given : i # j => given[i] \cap given[j] = {}
  /\ phase = "kern_uhalf_init" => AllGiven \cap DOMAIN pt.mem = {}

\* From the first tables on, the image can be run and all memory the page
\* allocator has can be reached through the direct map.
TablesServe ==
  /\ phase = "up" /\ pt.fault = "none" => ImageMapped(pt, cr3)
  /\ phase \in {"kern_uhalf_init", "up"} /\ pt.fault = "none" => MemoryMapped(pt, cr3, AllGiven)

\* A running kernel walks only tables whose frames nobody else has.
TablesKept == phase = "up" => cr3 \in DOMAIN pt.mem /\ TableTree(pt, cr3)

\* Frames for tables are pages.
FramesAligned == \A i \in DOMAIN region : region[i].top % PAGESIZE = 0

=============================================================================
