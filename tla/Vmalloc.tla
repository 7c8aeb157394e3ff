------------------------------- MODULE Vmalloc -------------------------------
(***************************************************************************)
(* Device memory in the kernel's address space, kernel/mm/vmalloc.c, on    *)
(* the page tables and the page allocator that boot leaves: first the      *)
(* steps of Boot, then calls of ioremap().                                 *)
(*                                                                         *)
(* Nothing takes an area back (iounmap() is empty), so vma_alloc_area()    *)
(* puts each one behind the last, and an empty one at the start.  Device   *)
(* addresses are in bytes, PAGESIZE of them to a page.                     *)
(***************************************************************************)
EXTENDS Boot

CONSTANTS
  VmPages,      \* KERNEL_VMMAP_LEN
  Devices,      \* physical addresses asked for
  Lens,         \* lengths asked for
  FlagSets,     \* sets of vma_flags_t asked for
  MaxMaps(_),   \* bound on the number of mappings after a boot with a memory map
  AnyPlace      \* whether areas may straddle two tables of a level

ASSUME VmallocAssumption ==
  VmPages \in Nat /\ Devices \subseteq Nat /\ Lens \subseteq Nat

VARIABLES
  top,   \* pages of the region given to areas
  maps   \* what callers of ioremap() hold

memvars == <<vars, top, maps>>

MemInit == Init /\ top = 0 /\ maps = {}

-----------------------------------------------------------------------------
vma_to_pte_flags(flags) ==
  {"present"} \cup (IF flags \cap {"VM_WRITE", "VM_IO"} # {} THEN {"writable"} ELSE {})
              \cup (IF "VM_USER" \in flags THEN {"user"} ELSE {})
              \cup (IF "VM_NOCACHE" \in flags THEN {"cache disable"} ELSE {})
              \cup (IF "VM_WRITE_THROUGH" \in flags THEN {"write through"} ELSE {})
              \cup (IF "VM_EXEC" \in flags THEN {} ELSE {"nx"})

\* Variant: the bytes in front of phy are not counted.
PagesFor_NoOffset(phy, len) == (len + PAGESIZE - 1) \div PAGESIZE

PagesFor(phy, len) == (len + (phy % PAGESIZE) + PAGESIZE - 1) \div PAGESIZE

\* The level of the entries that map: huge, large or normal pages.
LeafLevel(p, v, pages) ==
  LET Aligned(k) == \A x \in {p, v, pages} : x % EntrySize(k) = 0
  IN  IF Aligned(3) THEN 3 ELSE IF Aligned(2) THEN 2 ELSE 1

\* Whether on some level the area starts inside a table and ends outside it.
Straddles(v, pages) ==
  \E k \in 2 .. 4 :
    v % EntrySize(k) # 0 /\ (v % EntrySize(k)) + pages > EntrySize(k)

\* vma_alloc_area(), as no area is ever freed.
AreaFor(pages) == IF pages = 0 THEN KERNEL_VMMMAP ELSE KERNEL_VMMMAP + top

ioremap(phy, len, flags) ==
  LET pages == PagesFor(phy, len)
      v == AreaFor(pages)
      p == phy \div PAGESIZE
  IN  /\ phase = "up" /\ pt.fault = "none"
      /\ Cardinality(maps) < MaxMaps(mbmap)
      /\ AnyPlace \/ ~Straddles(v, pages)
      /\ \/ /\ top + pages <= VmPages
            /\ pt' = MapPages(pt, cr3, LeafLevel(p, v, pages), v, p, pages, vma_to_pte_flags(flags))
            /\ top' = top + pages
            /\ maps' = maps \cup {[virt |-> v * PAGESIZE + (phy % PAGESIZE), phys |-> phy,
                                   len |-> len, flags |-> flags]}
         \/ top + pages > VmPages /\ UNCHANGED <<pt, top, maps>>
      /\ UNCHANGED <<phase, mbmap, tags, info, region, cr3, given>>

Booting == Next /\ UNCHANGED <<top, maps>>

MemNext ==
  Booting \/ \E phy \in Devices, len \in Lens, flags \in FlagSets : ioremap(phy, len, flags)

MemSpec == MemInit /\ [][MemNext]_memvars

-----------------------------------------------------------------------------
\* Every byte of every mapping still leads to the device byte it was asked
\* for, through an entry with the flags that were asked for.
MappingsRight ==
  pt.fault = "none" =>
    \A r \in maps : \A i \in 0 .. r.len - 1 :
      LET e == kpt_get_phys(pt, cr3, (r.virt + i) \div PAGESIZE)
      IN  /\ e.to * PAGESIZE + ((r.virt + i) % PAGESIZE) = r.phys + i
          /\ e.flags \ {"pagesize"} = vma_to_pte_flags(r.flags)

=============================================================================
