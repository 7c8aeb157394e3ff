------------------------------- MODULE MCMemory ------------------------------
(***************************************************************************)
(* Instances of Vmalloc for TLC: tables of eight entries, pages of two     *)
(* bytes, the image in pages 10 .. 14, so that the first tables take seven *)
(* frames.  A large page is 8 pages, a huge page 64.                       *)
(***************************************************************************)
EXTENDS Vmalloc

Pages(type, first, end) == [type |-> type, base |-> first * PAGESIZE, len |-> (end - first) * PAGESIZE]

\* Low memory of several sizes: too small for the tables, just enough, more.
Low == {Pages("available", 0, n) : n \in {7, 8, 10}}

\* The memory around the image, and above it.
Mid == {Pages("available", 10, n) : n \in {28, 40}}
High == {Pages("available", 48, n) : n \in {50, 84}}

Held == {Pages("acpi", 42, 47), Pages("reserved", 8, 10)}

\* Whether the memory reported, added up, reaches as far as the memory does: the
\* direct map is that long, up to the next huge page.
Reaches(s) ==
  \A i \in DOMAIN s :
    LET sum == FoldLeft(LAMBDA n, e : IF e.type = "reserved" THEN n ELSE n + e.len, 0, s)
    IN  PageOf(s[i].base + s[i].len) <= Count(PageOf(sum), 3) * EntrySize(3)

\* Some of these in any order, the memory around the image among them.
ManyMaps ==
  {s \in UNION {[1 .. n -> Low \cup Mid \cup High \cup Held] : n \in 1 .. 4} :
     /\ \A i, j \in DOMAIN s :
          i # j => s[i].base + s[i].len <= s[j].base \/ s[j].base + s[j].len <= s[i].base
     /\ \E i \in DOMAIN s : s[i] \in Mid
     /\ Reaches(s)}

\* Memory above what the first tables map, and a first region without a frame.
EdgeMaps == {<<Pages("available", 0, 10), Pages("available", 10, 40), Pages("available", 64, 80)>>,
             <<Pages("available", 0, 1), Pages("available", 10, 40)>>}

TheMaps == ManyMaps \cup EdgeMaps

ASSUME TheMapsAreSane == \A s \in TheMaps : SaneMap(s)

AllTags == {{"mmap", "framebuffer", "acpi", "load address"}, {"mmap", "acpi", "load address"}}

\* The BIOS keeps the end of low memory, which is not a page of its own.
BiosMaps == {<<[type |-> "available", base |-> 0, len |-> 19], Pages("available", 10, 40)>>}

\* Memory that the tables of three mappings do not use up.
OneMap == {<<Pages("available", 0, 10), Pages("available", 10, 40), Pages("available", 48, 84)>>}

\* Three mappings with this memory map, one with the others.
Mapped(s) == IF s \in OneMap THEN 3 ELSE 1

MMIO == {"VM_READ", "VM_WRITE", "VM_IO"}

\* What the framebuffer driver asks for, and a mapping for reading only.
TwoFlagSets == {MMIO \cup {"VM_NOCACHE", "VM_WRITE_THROUGH"}, {"VM_READ"}}

=============================================================================
