------------------------------ MODULE ElfExec ------------------------------
(***************************************************************************)
(* Executables on disk and in memory: Elf_WriteExec of src/util/elf.c and  *)
(* a loader.  The loader is not of this repository; it is modelled from    *)
(* what Elf_WriteExec prepares for it: each segment is mapped in whole     *)
(* pages, from a file offset congruent to its address, one after another,  *)
(* a later mapping over an earlier one.                                    *)
(***************************************************************************)
EXTENDS ElfObject, SequencesExt

CONSTANTS
  Names,    \* section names
  Images,   \* lists of placed sections
  ElfPage   \* ELF_PAGE

ASSUME ElfPageAssumption == ElfPage \in Nat \ {0}
ASSUME ImagesAssumption == Images \subseteq Seq(Section(Names))

VARIABLES
  pc, i,   \* the phase and its loop index
  secs,    \* the sections of the executable
  segs,    \* the sections to load, in order: segs[]
  offs,    \* their file offsets: offs[]
  pos,     \* the next free byte of the file
  image,   \* the bytes written
  mem      \* external: the process's memory

vars == <<pc, i, secs, segs, offs, pos, image, mem>>

EhdrSize == 64
PhdrSize == 56

Init ==
  /\ pc = "select" /\ i = 1
  /\ secs \in Images
  /\ segs = << >> /\ offs = << >> /\ pos = 0 /\ image = << >> /\ mem = << >>

SelectSection ==
  /\ pc = "select" /\ i <= Len(secs)
  /\ segs' = IF secs[i].alloc /\ secs[i].data # << >> THEN Append(segs, secs[i]) ELSE segs
  /\ i' = i + 1
  /\ UNCHANGED <<pc, secs, offs, pos, image, mem>>

HeadersSize == EhdrSize + Len(segs) * PhdrSize

StartPlacing ==
  /\ pc = "select" /\ i > Len(secs)
  /\ pc' = "place" /\ i' = 1
  /\ pos' = HeadersSize
  /\ UNCHANGED <<secs, segs, offs, image, mem>>

(* The offset rounded up to a page, as if every segment began one. *)
PlaceOffsetRounded(from, vaddr) == from + ((-from) % ElfPage)

(* The difference wraps in the code; 2^64 is a multiple of the page.       *)
PlaceOffset(from, vaddr) == from + ((vaddr - from) % ElfPage)

PlaceSegment ==
  /\ pc = "place" /\ i <= Len(segs)
  /\ LET off == PlaceOffset(pos, segs[i].addr)
     IN /\ offs' = Append(offs, off)
        /\ pos' = off + Len(segs[i].data)
  /\ i' = i + 1
  /\ UNCHANGED <<pc, secs, segs, image, mem>>

(* The ELF header and the program headers, which say segs and offs. *)
WriteHeaders ==
  /\ pc = "place" /\ i > Len(segs)
  /\ image' = [j \in 1..HeadersSize |-> <<0, 0, j>>]
  /\ pc' = "write" /\ i' = 1
  /\ UNCHANGED <<secs, segs, offs, pos, mem>>

(* No zeros before a segment. *)
GapForgotten(off) == 0

Gap(off) == IF Len(image) < off THEN off - Len(image) ELSE 0

WriteSegment ==
  /\ pc = "write" /\ i <= Len(segs)
  /\ image' = image \o Zeros(Gap(offs[i])) \o segs[i].data
  /\ i' = i + 1
  /\ UNCHANGED <<pc, secs, segs, offs, pos, mem>>

WriteDone ==
  /\ pc = "write" /\ i > Len(segs)
  /\ pc' = "load" /\ i' = 1
  /\ UNCHANGED <<secs, segs, offs, pos, image, mem>>

-----------------------------------------------------------------------------
(* The loader.                                                             *)

End(seg) == seg.addr + Len(seg.data)
PageOf(a) == a \div ElfPage
Pages(seg) == PageOf(seg.addr)..PageOf(End(seg) - 1)

FileByte(o) == IF o \in 0..(Len(image) - 1) THEN image[o + 1] ELSE Byte(0)

Mappable(k) == (offs[k] - segs[k].addr) % ElfPage = 0

MapSegment ==
  /\ pc = "load" /\ i <= Len(segs) /\ Mappable(i)
  /\ LET pages == {a \in (segs[i].addr - ElfPage)..(End(segs[i]) + ElfPage) :
                     PageOf(a) \in Pages(segs[i])}
     IN mem' = [a \in pages \union DOMAIN mem |->
                  IF a \in pages THEN FileByte(offs[i] + a - segs[i].addr) ELSE mem[a]]
  /\ i' = i + 1
  /\ UNCHANGED <<pc, secs, segs, offs, pos, image>>

Started ==
  /\ pc = "load" /\ i > Len(segs)
  /\ pc' = "started"
  /\ UNCHANGED <<i, secs, segs, offs, pos, image, mem>>

Next ==
  \/ SelectSection \/ StartPlacing \/ PlaceSegment
  \/ WriteHeaders \/ WriteSegment \/ WriteDone
  \/ MapSegment \/ Started

Spec == Init /\ [][Next]_vars

-----------------------------------------------------------------------------
(* Properties.                                                             *)

(* Where segment k ends in the file; the headers are before the first. *)
FileEnd(k) == IF k = 0 THEN HeadersSize ELSE offs[k] + Len(segs[k].data)

(* What elf.c:562 says of a file offset: the smallest past everything      *)
(* before it that is congruent to the address.  So no two segments share a *)
(* byte of the file, and no more than a page is lost between them.         *)
OffsetsTight ==
  \A k \in DOMAIN offs :
    /\ Mappable(k)
    /\ offs[k] \in FileEnd(k - 1)..(FileEnd(k - 1) + ElfPage - 1)

Apart(a, b) == End(a) <= b.addr \/ End(b) <= a.addr

Disjoint == \A a, b \in DOMAIN segs : a # b => Apart(segs[a], segs[b])

SharePage(a, b) == Pages(a) \intersect Pages(b) # {}

(* Segments on one page come one after another, by ascending address. *)
PagesAscend ==
  \A a, b \in DOMAIN segs :
    a < b /\ SharePage(segs[a], segs[b]) => \A k \in a..(b - 1) : segs[k].addr < segs[k + 1].addr

InMemory(seg) ==
  \A j \in DOMAIN seg.data :
    LET a == seg.addr + j - 1 IN a \in DOMAIN mem /\ mem[a] = seg.data[j]

LoadsIntact == \A d \in DOMAIN secs : secs[d].alloc => InMemory(secs[d])

(* Once the process starts, every byte of every loaded section is at its   *)
(* address, even where sections share pages: then the page of the file     *)
(* that is mapped last holds the bytes of all of them.                     *)
LoadsInOrder == pc = "started" /\ Disjoint /\ PagesAscend => LoadsIntact
=============================================================================
