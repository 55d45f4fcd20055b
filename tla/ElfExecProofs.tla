--------------------------- MODULE ElfExecProofs ---------------------------
(***************************************************************************)
(* Proofs about Elf_WriteExec: every segment has the smallest file offset  *)
(* that is free and congruent to its address, whatever the page size, the  *)
(* sections and their addresses; and once the loader has mapped the        *)
(* segments, every byte of a loaded section is at its address.             *)
(***************************************************************************)
EXTENDS ElfExec, TLAPS

(* What the comment of Elf_PlaceOffset says: the result is past the given  *)
(* position by less than a page, and congruent to the address.             *)
LEMMA PlaceOffsetIsLeast ==
  ASSUME NEW from \in Nat, NEW vaddr \in Nat
  PROVE  /\ PlaceOffset(from, vaddr) \in Nat
         /\ PlaceOffset(from, vaddr) \in from..(from + ElfPage - 1)
         /\ (PlaceOffset(from, vaddr) - vaddr) % ElfPage = 0
<1> DEFINE q == (vaddr - from) \div ElfPage
           m == (vaddr - from) % ElfPage
<1>1. ElfPage \in Nat \ {0}
  BY ElfPageAssumption
<1>2. q \in Int /\ m \in 0..(ElfPage - 1) /\ vaddr - from = q * ElfPage + m
  BY <1>1, SMTT(30)
<1>3. \A z \in Int : (z * ElfPage) % ElfPage = 0
  BY <1>1, SMTT(30)
<1>4. (-q) * ElfPage = -(q * ElfPage) /\ q * ElfPage \in Int
  BY <1>1, <1>2, SMTT(30)
<1>5. PlaceOffset(from, vaddr) = from + m
  BY DEF PlaceOffset
<1> HIDE DEF q, m
<1>6. from + m - vaddr = (-q) * ElfPage
  BY <1>1, <1>2, <1>4
<1> QED
  BY <1>1, <1>2, <1>3, <1>5, <1>6

(* Types, and where the loops are: offsets are given out in the second     *)
(* one, the next from where the last segment ended.                        *)
SegTyped ==
  /\ secs \in Seq(Section(Names)) /\ segs \in Seq(Section(Names))
  /\ offs \in Seq(Nat) /\ pos \in Nat /\ i \in Nat \ {0}

Cursor ==
  /\ Len(offs) <= Len(segs)
  /\ pc = "select" => offs = << >>
  /\ pc = "place" => Len(offs) = i - 1 /\ pos = FileEnd(i - 1)

PlaceInv == SegTyped /\ Cursor /\ OffsetsTight

LEMMA PlaceInvInit == Init => PlaceInv
<1> SUFFICES ASSUME Init PROVE PlaceInv
  OBVIOUS
<1>1. SegTyped
  BY ImagesAssumption DEF Init, SegTyped
<1>2. Cursor
  BY DEF Init, Cursor
<1>3. OffsetsTight
  BY DEF Init, OffsetsTight
<1> QED
  BY <1>1, <1>2, <1>3 DEF PlaceInv

LEMMA SegFields ==
  ASSUME SegTyped, NEW k \in DOMAIN segs
  PROVE  segs[k].addr \in Nat /\ Len(segs[k].data) \in Nat
<1>1. segs[k] \in Section(Names)
  BY DEF SegTyped
<1> QED
  BY <1>1 DEF Section

LEMMA HeadersSizeNat == SegTyped => HeadersSize \in Nat
  BY DEF SegTyped, HeadersSize, EhdrSize, PhdrSize

LEMMA PlaceInvNext == PlaceInv /\ [Next]_vars => PlaceInv'
<1> SUFFICES ASSUME PlaceInv, [Next]_vars PROVE PlaceInv'
  OBVIOUS
<1> USE DEF PlaceInv
<1>1. CASE SelectSection
  <2>1. SegTyped'
    BY <1>1 DEF SelectSection, SegTyped
  <2>2. offs' = << >> /\ pc' = "select"
    BY <1>1 DEF SelectSection, Cursor
  <2>3. Cursor'
    BY <2>1, <2>2 DEF Cursor, SegTyped
  <2>4. OffsetsTight'
    BY <2>2 DEF OffsetsTight
  <2> QED
    BY <2>1, <2>3, <2>4
<1>2. CASE StartPlacing
  <2>1. pos' = HeadersSize /\ HeadersSize \in Nat
    BY <1>2, HeadersSizeNat DEF StartPlacing
  <2>2. SegTyped'
    BY <1>2, <2>1 DEF StartPlacing, SegTyped
  <2>3. offs' = << >> /\ pc' = "place" /\ i' = 1 /\ segs' = segs
    BY <1>2 DEF StartPlacing, Cursor
  <2>4. HeadersSize' = HeadersSize
    BY <2>3 DEF HeadersSize
  <2>5. FileEnd(0)' = HeadersSize
    BY <2>4 DEF FileEnd
  <2>6. Cursor'
    BY <2>1, <2>2, <2>3, <2>5 DEF Cursor, SegTyped
  <2>7. OffsetsTight'
    BY <2>3 DEF OffsetsTight
  <2> QED
    BY <2>2, <2>6, <2>7
<1>3. CASE PlaceSegment
  <2>1. PICK n \in Nat \ {0} : n = i
    BY DEF SegTyped
  <2> DEFINE off == PlaceOffset(pos, segs[n].addr)
             len == Len(segs[n].data)
  <2>2. /\ pc = "place" /\ n \in DOMAIN segs /\ n <= Len(segs)
        /\ offs' = Append(offs, off) /\ pos' = off + len /\ i' = n + 1
        /\ pc' = pc /\ secs' = secs /\ segs' = segs
    BY <1>3, <2>1 DEF PlaceSegment, SegTyped
  <2>3. segs[n].addr \in Nat /\ len \in Nat
    BY <2>2, SegFields
  <2>4. off \in Nat /\ off \in pos..(pos + ElfPage - 1) /\ (off - segs[n].addr) % ElfPage = 0
    BY <2>3, PlaceOffsetIsLeast DEF SegTyped
  <2>5. Len(offs) = n - 1 /\ pos = FileEnd(n - 1)
    BY <2>1, <2>2 DEF Cursor
  <2> HIDE DEF off
  <2>6. SegTyped'
    BY <2>2, <2>3, <2>4 DEF SegTyped
  <2>7. /\ Len(offs') = n /\ DOMAIN offs' = 1..n /\ DOMAIN offs = 1..(n - 1)
        /\ offs'[n] = off
        /\ \A k \in 1..(n - 1) : offs'[k] = offs[k]
    BY <2>2, <2>4, <2>5 DEF SegTyped
  <2>8. HeadersSize' = HeadersSize
    BY <2>2 DEF HeadersSize
  <2>9. \A k \in 0..(n - 1) : FileEnd(k)' = FileEnd(k)
    BY <2>2, <2>7, <2>8 DEF FileEnd
  <2>10. FileEnd(n)' = off + len
    BY <2>1, <2>2, <2>7 DEF FileEnd
  <2>11. Cursor'
    <3>1. pos' = FileEnd(n)'
      BY <2>2, <2>10
    <3>2. i' - 1 = n
      BY <2>1, <2>2
    <3>3. FileEnd(i - 1)' = FileEnd(n)'
      BY <3>2
    <3> QED
      BY <2>2, <2>7, <3>1, <3>2, <3>3 DEF Cursor
  <2>12. ASSUME NEW k \in 1..n
         PROVE  /\ Mappable(k)'
                /\ offs'[k] \in FileEnd(k - 1)'..(FileEnd(k - 1)' + ElfPage - 1)
    <3>1. CASE k = n
      <4>1. FileEnd(n - 1)' = pos
        BY <2>1, <2>5, <2>9
      <4> QED
        BY <2>2, <2>4, <2>7, <3>1, <4>1 DEF Mappable
    <3>2. CASE k # n
      <4>1. k \in 1..(n - 1) /\ k - 1 \in 0..(n - 1) /\ k \in DOMAIN offs
        BY <2>1, <2>7, <3>2
      <4>2. Mappable(k) /\ offs[k] \in FileEnd(k - 1)..(FileEnd(k - 1) + ElfPage - 1)
        BY <4>1 DEF OffsetsTight
      <4>3. offs'[k] = offs[k] /\ FileEnd(k - 1)' = FileEnd(k - 1)
        BY <2>7, <2>9, <4>1
      <4> QED
        BY <2>2, <4>2, <4>3 DEF Mappable
    <3> QED
      BY <3>1, <3>2
  <2>13. OffsetsTight'
    BY <2>7, <2>12 DEF OffsetsTight
  <2> QED
    BY <2>6, <2>11, <2>13
<1>4. CASE \/ WriteHeaders \/ WriteSegment \/ WriteDone \/ MapSegment \/ Started
           \/ UNCHANGED vars
  <2>1. /\ secs' = secs /\ segs' = segs /\ offs' = offs /\ pos' = pos
        /\ i' \in Nat \ {0}
    <3>1. i \in Nat \ {0} /\ i + 1 \in Nat \ {0}
      BY DEF SegTyped
    <3>2. CASE WriteHeaders \/ WriteDone
      BY <3>2 DEF WriteHeaders, WriteDone
    <3>3. CASE WriteSegment
      BY <3>1, <3>3 DEF WriteSegment
    <3>4. CASE MapSegment
      BY <3>1, <3>4 DEF MapSegment
    <3>5. CASE Started \/ UNCHANGED vars
      BY <3>1, <3>5 DEF Started, vars
    <3> QED
      BY <1>4, <3>2, <3>3, <3>4, <3>5
  <2>2. pc' \in {"write", "load", "started"} \/ (pc' = pc /\ i' = i)
    BY <1>4 DEF WriteHeaders, WriteSegment, WriteDone, MapSegment, Started, vars
  <2>3. SegTyped'
    BY <2>1 DEF SegTyped
  <2>4. HeadersSize' = HeadersSize /\ \A k \in Nat : FileEnd(k)' = FileEnd(k)
    BY <2>1 DEF HeadersSize, FileEnd
  <2>5. Cursor'
    BY <2>1, <2>2, <2>4 DEF Cursor, SegTyped, FileEnd, HeadersSize
  <2>6. OffsetsTight'
    BY <2>1 DEF OffsetsTight, Mappable, FileEnd, HeadersSize
  <2> QED
    BY <2>3, <2>5, <2>6
<1> QED
  BY <1>1, <1>2, <1>3, <1>4 DEF Next

(* Each segment's file offset is the smallest one past everything before   *)
(* it that the loader accepts for its address (elf.c:562), for every list  *)
(* of sections at every address.                                           *)
THEOREM OffsetsAreTight == Spec => []OffsetsTight
<1>1. PlaceInv => OffsetsTight
  BY DEF PlaceInv
<1> QED
  BY PlaceInvInit, PlaceInvNext, <1>1, PTL DEF Spec

-----------------------------------------------------------------------------
(* Pages.                                                                  *)

(* A page holds ElfPage consecutive addresses.                             *)
LEMMA PageBounds ==
  ASSUME NEW a \in Int
  PROVE  /\ PageOf(a) \in Int
         /\ ElfPage * PageOf(a) <= a
         /\ a < ElfPage * PageOf(a) + ElfPage
<1>1. ElfPage \in Nat \ {0}
  BY ElfPageAssumption
<1> QED
  BY <1>1, SMTT(30) DEF PageOf

LEMMA MultiplesGrow ==
  ASSUME NEW x \in Int, NEW y \in Int, x <= y
  PROVE  ElfPage * x <= ElfPage * y
<1>1. ElfPage \in Nat \ {0}
  BY ElfPageAssumption
<1>2. PICK n \in Nat : y = x + n
  <2>1. y - x \in Nat /\ y = x + (y - x)
    OBVIOUS
  <2> QED
    BY <2>1
<1>3. ElfPage * (x + n) = ElfPage * x + ElfPage * n /\ ElfPage * n \in Nat /\ ElfPage * x \in Int
  BY <1>1, <1>2, SMTT(30)
<1> QED
  BY <1>2, <1>3

LEMMA PageMonotone ==
  ASSUME NEW a \in Int, NEW b \in Int, a <= b
  PROVE  PageOf(a) <= PageOf(b) /\ PageOf(a) \in Int /\ PageOf(b) \in Int
<1>1. PageOf(a) \in Int /\ PageOf(b) \in Int /\ ElfPage \in Nat
  BY PageBounds, ElfPageAssumption
<1>2. SUFFICES ASSUME PageOf(b) + 1 <= PageOf(a) PROVE FALSE
  BY <1>1
<1>3. PICK x \in Int, y \in Int : x = PageOf(a) /\ y = PageOf(b)
  BY <1>1
<1>4. ElfPage * (y + 1) <= ElfPage * x /\ ElfPage * x <= a /\ b < ElfPage * y + ElfPage
  BY <1>2, <1>3, MultiplesGrow, PageBounds
<1>5. ElfPage * (y + 1) = ElfPage * y + ElfPage /\ ElfPage * y \in Int /\ ElfPage * x \in Int
  BY <1>1, SMTT(30)
<1> QED
  BY <1>1, <1>4, <1>5

(* An address on a page no later than another's lies less than a page past *)
(* it.                                                                     *)
LEMMA PageSpan ==
  ASSUME NEW a \in Int, NEW b \in Int, PageOf(a) <= PageOf(b)
  PROVE  a < b + ElfPage
<1>1. PageOf(a) \in Int /\ PageOf(b) \in Int /\ ElfPage \in Nat
  BY PageBounds, ElfPageAssumption
<1>2. PICK x \in Int, y \in Int : x = PageOf(a) /\ y = PageOf(b)
  BY <1>1
<1>3. ElfPage * x <= ElfPage * y /\ ElfPage * y <= b /\ a < ElfPage * x + ElfPage
  BY <1>2, MultiplesGrow, PageBounds
<1>4. ElfPage * y \in Int /\ ElfPage * x \in Int
  BY <1>1, SMTT(30)
<1> QED
  BY <1>1, <1>3, <1>4

(* Within a page of a position there is one offset congruent to an address. *)
LEMMA OffsetIsUnique ==
  ASSUME NEW from \in Int, NEW vaddr \in Int,
         NEW x \in from..(from + ElfPage - 1), (x - vaddr) % ElfPage = 0,
         NEW y \in from..(from + ElfPage - 1), (y - vaddr) % ElfPage = 0
  PROVE  x = y
<1>1. ElfPage \in Nat \ {0}
  BY ElfPageAssumption
<1>2. PICK q \in Int : x - vaddr = ElfPage * q
  <2>1. (x - vaddr) \div ElfPage \in Int
        /\ x - vaddr = ElfPage * ((x - vaddr) \div ElfPage) + ((x - vaddr) % ElfPage)
    BY <1>1, SMTT(30)
  <2> QED
    BY <1>1, <2>1, SMTT(30)
<1>3. PICK r \in Int : y - vaddr = ElfPage * r
  <2>1. (y - vaddr) \div ElfPage \in Int
        /\ y - vaddr = ElfPage * ((y - vaddr) \div ElfPage) + ((y - vaddr) % ElfPage)
    BY <1>1, SMTT(30)
  <2> QED
    BY <1>1, <2>1, SMTT(30)
<1>4. /\ ElfPage * (q + 1) = ElfPage * q + ElfPage /\ ElfPage * (r + 1) = ElfPage * r + ElfPage
      /\ ElfPage * q \in Int /\ ElfPage * r \in Int
  BY <1>1, SMTT(30)
<1>5. ~ q + 1 <= r
  <2>1. q + 1 <= r => ElfPage * (q + 1) <= ElfPage * r
    BY MultiplesGrow
  <2> QED
    BY <1>1, <1>2, <1>3, <1>4, <2>1
<1>6. ~ r + 1 <= q
  <2>1. r + 1 <= q => ElfPage * (r + 1) <= ElfPage * q
    BY MultiplesGrow
  <2> QED
    BY <1>1, <1>2, <1>3, <1>4, <2>1
<1> QED
  BY <1>2, <1>3, <1>5, <1>6

-----------------------------------------------------------------------------
(* From the list of sections to memory: what each loop has done so far.    *)

(* The select loop: the sections to load that it is past are segments.     *)
Kept ==
  /\ \A d \in DOMAIN secs :
       (pc = "select" => d < i) /\ secs[d].alloc /\ secs[d].data # << >>
         => \E k \in DOMAIN segs : segs[k] = secs[d]
  /\ \A k \in DOMAIN segs : segs[k].data # << >>

AllPlaced == pc \in {"write", "load", "started"} => Len(offs) = Len(segs)

(* The offsets: along ascending segments, those that share a page stand in *)
(* the file as far apart as in memory.                                     *)
Ascend(k, l) == \A m \in k..(l - 1) : segs[m].addr < segs[m + 1].addr

SameShift(k, l) ==
  /\ segs[k].addr <= segs[l].addr /\ End(segs[k]) <= End(segs[l])
  /\ SharePage(segs[k], segs[l]) => offs[l] - segs[l].addr = offs[k] - segs[k].addr

Shifts == Disjoint => \A k, l \in DOMAIN offs : k <= l /\ Ascend(k, l) => SameShift(k, l)

(* The write loop: the segments it is past stand at their offsets.         *)
Standing(k) ==
  \A j \in DOMAIN segs[k].data :
    offs[k] + j \in DOMAIN image /\ image[offs[k] + j] = segs[k].data[j]

Contents ==
  /\ image \in Seq(Seq(Nat))
  /\ pc = "write" => i <= Len(segs) + 1 /\ Len(image) = FileEnd(i - 1)
  /\ \A k \in DOMAIN segs :
       pc \in {"load", "started"} \/ (pc = "write" /\ k < i) => Standing(k)

(* The loader: an address on a page of a segment it is past has its byte   *)
(* from that segment or from a later one on the page.                      *)
From(a, l) == PageOf(a) \in Pages(segs[l]) /\ mem[a] = FileByte(offs[l] + a - segs[l].addr)

Mapped ==
  /\ pc = "load" => i <= Len(segs) + 1
  /\ pc = "started" => i = Len(segs) + 1
  /\ pc \in {"load", "started"} =>
       \A k \in DOMAIN segs, a \in Int :
         k < i /\ PageOf(a) \in Pages(segs[k]) =>
           a \in DOMAIN mem /\ \E l \in DOMAIN segs : k <= l /\ From(a, l)

LoadInv == PlaceInv /\ Kept /\ AllPlaced /\ Shifts /\ Contents /\ Mapped

LEMMA LoadInvInit == Init => LoadInv
<1> SUFFICES ASSUME Init PROVE LoadInv
  OBVIOUS
<1>1. PlaceInv
  BY PlaceInvInit
<1>2. Kept
  BY <1>1 DEF Init, Kept, PlaceInv, SegTyped
<1>3. AllPlaced /\ Shifts /\ Contents /\ Mapped
  BY DEF Init, AllPlaced, Shifts, Contents, Mapped
<1> QED
  BY <1>1, <1>2, <1>3 DEF LoadInv

(* Past the select loop the sections to load do not change.                *)
LEMMA Settled ==
  ASSUME [Next]_vars, ~ SelectSection
  PROVE  secs' = secs /\ segs' = segs
<1>1. CASE StartPlacing \/ PlaceSegment \/ WriteHeaders \/ WriteSegment
  BY <1>1 DEF StartPlacing, PlaceSegment, WriteHeaders, WriteSegment
<1>2. CASE WriteDone \/ MapSegment \/ Started \/ UNCHANGED vars
  BY <1>2 DEF WriteDone, MapSegment, Started, vars
<1> QED
  BY <1>1, <1>2 DEF Next

LEMMA KeptStep == LoadInv /\ [Next]_vars => Kept'
<1> SUFFICES ASSUME LoadInv, [Next]_vars PROVE Kept'
  OBVIOUS
<1>1. SegTyped /\ Kept
  BY DEF LoadInv, PlaceInv
<1>2. CASE SelectSection
  <2>1. PICK n \in Nat \ {0} : n = i
    BY <1>1 DEF SegTyped
  <2>2. n \in DOMAIN secs /\ secs' = secs /\ i' = n + 1 /\ pc = "select" /\ pc' = "select"
    BY <1>1, <1>2, <2>1 DEF SelectSection, SegTyped
  <2>3. CASE secs[n].alloc /\ secs[n].data # << >>
    <3>1. segs' = Append(segs, secs[n])
      BY <1>2, <2>1, <2>3 DEF SelectSection
    <3>2. /\ DOMAIN segs' = DOMAIN segs \union {Len(segs) + 1}
          /\ segs'[Len(segs) + 1] = secs[n]
          /\ \A k \in DOMAIN segs : segs'[k] = segs[k]
      BY <1>1, <2>2, <3>1 DEF SegTyped
    <3>3. ASSUME NEW d \in DOMAIN secs, d < n + 1, secs[d].alloc, secs[d].data # << >>
          PROVE  \E k \in DOMAIN segs' : segs'[k] = secs[d]
      <4>1. CASE d = n
        BY <3>2, <4>1
      <4>2. CASE d < n
        BY <1>1, <2>1, <2>2, <3>2, <3>3, <4>2 DEF Kept
      <4> QED
        BY <1>1, <3>3, <4>1, <4>2 DEF SegTyped
    <3> QED
      BY <1>1, <2>2, <2>3, <3>2, <3>3 DEF Kept
  <2>4. CASE ~ (secs[n].alloc /\ secs[n].data # << >>)
    <3>1. segs' = segs
      BY <1>2, <2>1, <2>4 DEF SelectSection
    <3>2. ASSUME NEW d \in DOMAIN secs, d < n + 1, secs[d].alloc, secs[d].data # << >>
          PROVE  \E k \in DOMAIN segs : segs[k] = secs[d]
      <4>1. d # n
        BY <2>4, <3>2
      <4>2. d < n
        BY <1>1, <3>2, <4>1 DEF SegTyped
      <4> QED
        BY <1>1, <2>1, <2>2, <3>2, <4>2 DEF Kept
    <3> QED
      BY <1>1, <2>2, <3>1, <3>2 DEF Kept
  <2> QED
    BY <2>3, <2>4
<1>3. CASE ~ SelectSection
  <2>1. secs' = secs /\ segs' = segs
    BY <1>3, Settled
  <2>2. CASE StartPlacing
    <3>1. \A d \in DOMAIN secs : d < i
      BY <1>1, <2>2 DEF StartPlacing, SegTyped
    <3> QED
      BY <1>1, <2>1, <3>1 DEF Kept
  <2>3. CASE ~ StartPlacing
    <3>1. pc # "select" \/ (pc' = pc /\ i' = i)
      BY <1>3, <2>3 DEF Next, PlaceSegment, WriteHeaders, WriteSegment, WriteDone, MapSegment,
                        Started, vars
    <3>2. pc' = "select" => pc = "select" /\ i' = i
      BY <1>3, <2>3 DEF Next, PlaceSegment, WriteHeaders, WriteSegment, WriteDone, MapSegment,
                        Started, vars
    <3> QED
      BY <1>1, <2>1, <3>1, <3>2 DEF Kept
  <2> QED
    BY <2>2, <2>3
<1> QED
  BY <1>2, <1>3

LEMMA AllPlacedStep == LoadInv /\ [Next]_vars => AllPlaced'
<1> SUFFICES ASSUME LoadInv, [Next]_vars PROVE AllPlaced'
  OBVIOUS
<1>1. SegTyped /\ Cursor /\ AllPlaced
  BY DEF LoadInv, PlaceInv
<1>2. CASE SelectSection \/ StartPlacing \/ PlaceSegment
  BY <1>2 DEF SelectSection, StartPlacing, PlaceSegment, AllPlaced
<1>3. CASE WriteHeaders
  BY <1>1, <1>3 DEF WriteHeaders, AllPlaced, Cursor, SegTyped
<1>4. CASE WriteSegment \/ WriteDone
  BY <1>1, <1>4 DEF WriteSegment, WriteDone, AllPlaced
<1>5. CASE MapSegment \/ Started \/ UNCHANGED vars
  BY <1>1, <1>5 DEF MapSegment, Started, vars, AllPlaced
<1> QED
  BY <1>2, <1>3, <1>4, <1>5 DEF Next

-----------------------------------------------------------------------------
(* Offsets of segments that share a page.                                  *)

LEMMA PagesOfSegment ==
  ASSUME SegTyped, Kept, NEW k \in DOMAIN segs
  PROVE  /\ segs[k].addr \in Nat /\ Len(segs[k].data) \in Nat \ {0}
         /\ End(segs[k]) = segs[k].addr + Len(segs[k].data)
         /\ PageOf(segs[k].addr) \in Int /\ PageOf(End(segs[k]) - 1) \in Int
         /\ \A p : p \in Pages(segs[k])
               <=> p \in Int /\ PageOf(segs[k].addr) <= p /\ p <= PageOf(End(segs[k]) - 1)
<1>1. segs[k] \in Section(Names) /\ segs[k].data # << >>
  BY DEF SegTyped, Kept
<1>2. segs[k].addr \in Nat /\ segs[k].data \in Seq(Seq(Nat))
  BY <1>1 DEF Section
<1>3. Len(segs[k].data) \in Nat \ {0}
  BY <1>1, <1>2
<1>4. End(segs[k]) = segs[k].addr + Len(segs[k].data) /\ End(segs[k]) - 1 \in Int
  BY <1>2, <1>3 DEF End
<1>5. PageOf(segs[k].addr) \in Int /\ PageOf(End(segs[k]) - 1) \in Int
  BY <1>2, <1>4, PageBounds
<1>6. PICK x \in Int, y \in Int : x = PageOf(segs[k].addr) /\ y = PageOf(End(segs[k]) - 1)
  BY <1>5
<1>7. Pages(segs[k]) = x..y
  BY <1>6 DEF Pages
<1>8. \A p : p \in Pages(segs[k]) <=> p \in Int /\ x <= p /\ p <= y
  BY <1>7
<1> QED
  BY <1>2, <1>3, <1>4, <1>5, <1>6, <1>8

(* Two segments one after the other, the second less than a page past the  *)
(* end of the first: the smallest offset for it keeps their distance.      *)
LEMMA NeighboursKeepDistance ==
  ASSUME SegTyped, Kept, OffsetsTight, NEW l \in DOMAIN offs, l - 1 \in DOMAIN offs,
         Len(offs) <= Len(segs),
         End(segs[l - 1]) <= segs[l].addr, segs[l].addr < End(segs[l - 1]) + ElfPage
  PROVE  offs[l] - segs[l].addr = offs[l - 1] - segs[l - 1].addr
<1>1. l \in Nat /\ l - 1 \in Nat \ {0} /\ l \in DOMAIN segs /\ l - 1 \in DOMAIN segs
  <2>1. DOMAIN offs = 1..Len(offs) /\ DOMAIN segs = 1..Len(segs)
    BY DEF SegTyped
  <2>2. Len(offs) \in Nat /\ Len(segs) \in Nat
    BY DEF SegTyped
  <2> QED
    BY <2>1, <2>2
<1>2. PICK m \in Nat \ {0} : m = l - 1
  BY <1>1
<1> DEFINE al == segs[l].addr
           am == segs[m].addr
           ol == offs[l]
           om == offs[m]
           len == Len(segs[m].data)
<1>3. al \in Nat /\ am \in Nat /\ len \in Nat /\ End(segs[m]) = am + len
  BY <1>1, <1>2, PagesOfSegment
<1>4. ol \in Nat /\ om \in Nat /\ ElfPage \in Nat
  BY <1>2, ElfPageAssumption DEF SegTyped
<1>5. FileEnd(m) = om + len
  BY <1>2 DEF FileEnd
<1>6. ol \in (om + len)..(om + len + ElfPage - 1) /\ (ol - al) % ElfPage = 0
  BY <1>2, <1>5 DEF OffsetsTight, Mappable
<1>7. (om - am) % ElfPage = 0
  BY <1>2 DEF OffsetsTight, Mappable
<1> DEFINE x == om + (al - am)
<1>8. am + len <= al /\ al < am + len + ElfPage
  BY <1>2, <1>3
<1> HIDE DEF al, am, ol, om, len
<1>9. x \in (om + len)..(om + len + ElfPage - 1)
  BY <1>3, <1>4, <1>8
<1>10. x - al = om - am
  BY <1>3, <1>4
<1>11. (x - al) % ElfPage = 0
  BY <1>7, <1>10
<1>12. om + len \in Int
  BY <1>3, <1>4
<1> HIDE DEF x
<1>13. x = ol
  BY <1>3, <1>6, <1>9, <1>11, <1>12, OffsetIsUnique
<1>14. ol - al = om - am
  BY <1>3, <1>4, <1>10, <1>13
<1> QED
  BY <1>2, <1>14 DEF al, am, ol, om

LEMMA LessPast ==
  ASSUME NEW x \in Int, NEW e \in Int, NEW p \in Int, x < e - 1 + p
  PROVE  x < e + p
  OBVIOUS

(* The segments from k to l ascend and the one before l keeps its distance *)
(* to k: then so does l.                                                   *)
LEMMA ShiftGoesOn ==
  ASSUME SegTyped, Kept, OffsetsTight, Disjoint, Len(offs) <= Len(segs),
         NEW k \in DOMAIN offs, NEW l \in DOMAIN offs, k < l, Ascend(k, l),
         SameShift(k, l - 1)
  PROVE  SameShift(k, l)
<1>1. k \in Nat \ {0} /\ l \in Nat \ {0} /\ k \in DOMAIN segs /\ l \in DOMAIN segs
  BY DEF SegTyped
<1>2. PICK m \in Nat \ {0} : m = l - 1
  BY <1>1
<1>3. m \in DOMAIN offs /\ m \in DOMAIN segs /\ m \in k..(l - 1) /\ m + 1 = l
  BY <1>1, <1>2 DEF SegTyped
<1>4. /\ segs[k].addr \in Nat /\ segs[m].addr \in Nat /\ segs[l].addr \in Nat
      /\ End(segs[k]) \in Nat /\ End(segs[m]) \in Nat /\ End(segs[l]) \in Nat
      /\ segs[m].addr < End(segs[m]) /\ segs[l].addr < End(segs[l]) /\ segs[k].addr < End(segs[k])
  <2>1. ASSUME NEW q \in DOMAIN segs
        PROVE  segs[q].addr \in Nat /\ End(segs[q]) \in Nat /\ segs[q].addr < End(segs[q])
    <3>1. /\ segs[q].addr \in Nat /\ Len(segs[q].data) \in Nat \ {0}
          /\ End(segs[q]) = segs[q].addr + Len(segs[q].data)
      BY PagesOfSegment
    <3> QED
      BY <3>1
  <2> QED
    BY <1>1, <1>3, <2>1
<1>5. segs[m].addr < segs[l].addr
  BY <1>3 DEF Ascend
<1>6. segs[k].addr <= segs[m].addr /\ End(segs[k]) <= End(segs[m])
  BY <1>2 DEF SameShift
<1>7. End(segs[m]) <= segs[l].addr
  <2>1. Apart(segs[m], segs[l])
    BY <1>1, <1>3 DEF Disjoint
  <2> QED
    BY <1>4, <1>5, <2>1 DEF Apart
<1>8. segs[k].addr <= segs[l].addr /\ End(segs[k]) <= End(segs[l])
  BY <1>4, <1>5, <1>6, <1>7
<1>9. ASSUME SharePage(segs[k], segs[l])
      PROVE  offs[l] - segs[l].addr = offs[k] - segs[k].addr
  <2>1. PICK p : p \in Pages(segs[k]) /\ p \in Pages(segs[l])
    BY <1>9 DEF SharePage
  <2>2. /\ p \in Int
        /\ PageOf(segs[k].addr) \in Int /\ PageOf(segs[k].addr) <= p
        /\ PageOf(End(segs[k]) - 1) \in Int /\ p <= PageOf(End(segs[k]) - 1)
        /\ PageOf(segs[l].addr) \in Int /\ PageOf(segs[l].addr) <= p
    BY <1>1, <2>1, PagesOfSegment
  <2>3. PageOf(segs[m].addr) <= PageOf(segs[l].addr) /\ PageOf(segs[m].addr) \in Int
    <3>1. segs[m].addr \in Int /\ segs[l].addr \in Int /\ segs[m].addr <= segs[l].addr
      BY <1>4, <1>5
    <3> QED
      BY <3>1, PageMonotone
  <2>4. PageOf(End(segs[k]) - 1) <= PageOf(End(segs[m]) - 1) /\ PageOf(End(segs[m]) - 1) \in Int
    <3>1. End(segs[k]) - 1 \in Int /\ End(segs[m]) - 1 \in Int /\ End(segs[k]) - 1 <= End(segs[m]) - 1
      BY <1>4, <1>6
    <3> QED
      BY <3>1, PageMonotone
  <2>5. PageOf(segs[m].addr) <= p /\ p <= PageOf(End(segs[m]) - 1)
    BY <2>2, <2>3, <2>4
  <2>6. p \in Pages(segs[m])
    BY <1>3, <2>2, <2>5, PagesOfSegment
  <2>7. offs[m] - segs[m].addr = offs[k] - segs[k].addr
    BY <1>2, <2>1, <2>6 DEF SameShift, SharePage
  <2>8. segs[l].addr < End(segs[m]) + ElfPage
    <3>1. PageOf(segs[l].addr) <= PageOf(End(segs[m]) - 1)
      BY <2>2, <2>4, <2>5
    <3>2. segs[l].addr < End(segs[m]) - 1 + ElfPage
      <4>1. End(segs[m]) - 1 \in Int
        BY <1>4
      <4> QED
        BY <1>4, <3>1, <4>1, PageSpan
    <3>3. PICK e \in Int, p1 \in Int : e = End(segs[m]) /\ p1 = ElfPage
      BY <1>4, ElfPageAssumption
    <3>4. segs[l].addr < e - 1 + p1
      BY <3>2, <3>3
    <3>5. segs[l].addr < e + p1
      BY <1>4, <3>4, LessPast
    <3> QED
      BY <3>3, <3>5
  <2>9. offs[l] - segs[l].addr = offs[m] - segs[m].addr
    BY <1>2, <1>3, <1>7, <2>8, NeighboursKeepDistance
  <2> QED
    BY <2>7, <2>9
<1> QED
  BY <1>8, <1>9 DEF SameShift

ShiftsContinue ==
  \A k, l \in DOMAIN offs : k < l /\ Ascend(k, l) /\ SameShift(k, l - 1) => SameShift(k, l)

LEMMA ShiftsGoOn == SegTyped /\ Kept /\ Cursor /\ OffsetsTight /\ Disjoint => ShiftsContinue
  BY ShiftGoesOn DEF ShiftsContinue, Cursor

LEMMA ShiftsGoOnNext ==
  SegTyped' /\ Kept' /\ Cursor' /\ OffsetsTight' /\ Disjoint' => ShiftsContinue'
  BY ShiftsGoOn, PTL

LEMMA ShiftsStep == LoadInv /\ [Next]_vars => Shifts'
<1> SUFFICES ASSUME LoadInv, [Next]_vars PROVE Shifts'
  OBVIOUS
<1>1. SegTyped /\ Kept /\ Cursor /\ OffsetsTight /\ Shifts
  BY DEF LoadInv, PlaceInv
<1>2. CASE SelectSection
  <2>1. offs' = << >>
    BY <1>1, <1>2 DEF SelectSection, Cursor
  <2> QED
    BY <2>1 DEF Shifts
<1>3. CASE PlaceSegment
  <2>1. PICK n \in Nat \ {0} : n = i
    BY <1>1 DEF SegTyped
  <2>2. Len(offs) = n - 1 /\ secs' = secs /\ segs' = segs /\ n \in DOMAIN segs
    BY <1>1, <1>3, <2>1 DEF PlaceSegment, Cursor, SegTyped
  <2>3. PICK off : offs' = Append(offs, off)
    BY <1>3 DEF PlaceSegment
  <2>4. DOMAIN offs = 1..(n - 1) /\ DOMAIN offs' = 1..n /\ \A k \in 1..(n - 1) : offs'[k] = offs[k]
    BY <1>1, <2>2, <2>3 DEF SegTyped
  <2>5. SUFFICES ASSUME Disjoint', NEW k \in 1..n, NEW l \in 1..n, k <= l, Ascend(k, l)'
                 PROVE  SameShift(k, l)'
    BY <2>4 DEF Shifts
  <2>6. Disjoint /\ Ascend(k, l)
    BY <2>2, <2>5 DEF Disjoint, Ascend
  <2>7. SegTyped' /\ Kept' /\ Cursor' /\ OffsetsTight'
    BY PlaceInvNext, KeptStep DEF LoadInv, PlaceInv
  <2>8. ShiftsContinue'
    BY <2>5, <2>7, ShiftsGoOnNext
  <2>9. ASSUME NEW q \in 1..(n - 1), k <= q, Ascend(k, q)
        PROVE  SameShift(k, q)'
    <3>1. k \in DOMAIN offs /\ q \in DOMAIN offs
      BY <2>4, <2>9
    <3>2. SameShift(k, q)
      BY <1>1, <2>6, <2>9, <3>1 DEF Shifts
    <3>3. offs'[k] = offs[k] /\ offs'[q] = offs[q]
      BY <2>4, <3>1
    <3> QED
      BY <2>2, <3>2, <3>3 DEF SameShift
  <2>10. CASE l \in 1..(n - 1)
    BY <2>5, <2>6, <2>9, <2>10 DEF SameShift
  <2>11. CASE l = n /\ k = n
    <3>1. segs[n].addr \in Nat /\ End(segs[n]) \in Nat
      <4>1. /\ segs[n].addr \in Nat /\ Len(segs[n].data) \in Nat
            /\ End(segs[n]) = segs[n].addr + Len(segs[n].data)
        BY <1>1, <2>2, PagesOfSegment
      <4> QED
        BY <4>1
    <3> QED
      BY <2>2, <2>11, <3>1 DEF SameShift
  <2>12. CASE l = n /\ k # n
    <3>1. n - 1 \in 1..(n - 1) /\ k <= n - 1 /\ k < l /\ l - 1 = n - 1
      BY <2>1, <2>5, <2>12
    <3>2. Ascend(k, n - 1)
      BY <2>6, <2>12, <3>1 DEF Ascend
    <3>3. SameShift(k, n - 1)'
      BY <2>9, <3>1, <3>2
    <3>4. SameShift(k, l - 1)'
      BY <3>1, <3>3 DEF SameShift
    <3> QED
      BY <2>4, <2>5, <2>8, <3>1, <3>4 DEF ShiftsContinue
  <2> QED
    BY <2>1, <2>5, <2>10, <2>11, <2>12
<1>4. CASE ~ SelectSection /\ ~ PlaceSegment
  <2>1. secs' = secs /\ segs' = segs
    BY <1>4, Settled
  <2>2. offs' = offs
    BY <1>4 DEF Next, StartPlacing, WriteHeaders, WriteSegment, WriteDone, MapSegment, Started, vars
  <2> QED
    BY <1>1, <2>1, <2>2 DEF Shifts, Disjoint, Ascend, SameShift
<1> QED
  BY <1>2, <1>3, <1>4

-----------------------------------------------------------------------------
(* The file and the memory.                                                *)

LEMMA SegmentBytes ==
  ASSUME SegTyped, NEW k \in DOMAIN segs
  PROVE  segs[k].data \in Seq(Seq(Nat)) /\ Len(segs[k].data) \in Nat
<1>1. segs[k] \in Section(Names)
  BY DEF SegTyped
<1>2. segs[k].data \in Seq(Seq(Nat))
  BY <1>1 DEF Section
<1> QED
  BY <1>2

LEMMA Joined ==
  ASSUME NEW S, NEW s \in Seq(S), NEW t \in Seq(S)
  PROVE  /\ s \o t \in Seq(S) /\ Len(s \o t) = Len(s) + Len(t)
         /\ \A o \in 1..Len(s) : (s \o t)[o] = s[o]
         /\ \A j \in 1..Len(t) : (s \o t)[Len(s) + j] = t[j]
<1>1. s \o t \in Seq(S) /\ Len(s \o t) = Len(s) + Len(t)
  OBVIOUS
<1>2. \A o \in 1..Len(s) : (s \o t)[o] = s[o]
  OBVIOUS
<1>3. \A j \in 1..Len(t) : (s \o t)[Len(s) + j] = t[j]
  OBVIOUS
<1> QED
  BY <1>1, <1>2, <1>3

LEMMA BytesJoined ==
  ASSUME NEW s \in Seq(Seq(Nat)), NEW t \in Seq(Seq(Nat))
  PROVE  /\ s \o t \in Seq(Seq(Nat)) /\ Len(s \o t) = Len(s) + Len(t)
         /\ \A o \in 1..Len(s) : (s \o t)[o] = s[o]
         /\ \A j \in 1..Len(t) : (s \o t)[Len(s) + j] = t[j]
<1>1. PICK S : S = Seq(Nat)
  OBVIOUS
<1>2. s \in Seq(S) /\ t \in Seq(S)
  BY <1>1
<1>3. /\ s \o t \in Seq(S) /\ Len(s \o t) = Len(s) + Len(t)
      /\ \A o \in 1..Len(s) : (s \o t)[o] = s[o]
      /\ \A j \in 1..Len(t) : (s \o t)[Len(s) + j] = t[j]
  BY <1>2, Joined
<1> QED
  BY <1>1, <1>3

LEMMA ZerosTyped == ASSUME NEW n \in Nat PROVE Zeros(n) \in Seq(Seq(Nat)) /\ Len(Zeros(n)) = n
  BY DEF Zeros, Byte

(* Writing a segment appends it at its offset, past all the others.        *)
LEMMA WriteSegmentAppends ==
  ASSUME LoadInv, WriteSegment, NEW n \in Nat \ {0}, n = i
  PROVE  /\ image' \in Seq(Seq(Nat)) /\ Len(image') = offs[n] + Len(segs[n].data)
         /\ Len(image) <= offs[n] /\ offs[n] \in Nat /\ n \in DOMAIN segs
         /\ \A o \in DOMAIN image : o \in DOMAIN image' /\ image'[o] = image[o]
         /\ \A j \in DOMAIN segs[n].data : image'[offs[n] + j] = segs[n].data[j]
<1> DEFINE gap == Gap(offs[n])
           data == segs[n].data
<1>1. /\ SegTyped /\ Kept /\ OffsetsTight /\ Contents /\ pc = "write"
      /\ Len(offs) = Len(segs) /\ n <= Len(segs)
      /\ image' = image \o Zeros(gap) \o data
  BY DEF LoadInv, PlaceInv, AllPlaced, WriteSegment
<1>2. n \in DOMAIN segs /\ n \in DOMAIN offs /\ offs[n] \in Nat
  BY <1>1 DEF SegTyped
<1>3. image \in Seq(Seq(Nat)) /\ Len(image) \in Nat /\ Len(image) = FileEnd(n - 1)
  BY <1>1 DEF Contents
<1>4. data \in Seq(Seq(Nat)) /\ Len(data) \in Nat
  BY <1>1, <1>2, SegmentBytes
<1>5. Len(image) <= offs[n]
  BY <1>1, <1>2, <1>3, ElfPageAssumption DEF OffsetsTight
<1>6. gap \in Nat /\ Len(image) + gap = offs[n]
  BY <1>2, <1>3, <1>5 DEF Gap
<1> HIDE DEF gap, data
<1>7. Zeros(gap) \in Seq(Seq(Nat)) /\ Len(Zeros(gap)) = gap
  BY <1>6, ZerosTyped
<1>8. PICK front : front = image \o Zeros(gap)
  OBVIOUS
<1>9. /\ front \in Seq(Seq(Nat)) /\ Len(front) = offs[n]
      /\ \A o \in 1..Len(image) : front[o] = image[o]
  <2>1. front \in Seq(Seq(Nat)) /\ Len(front) = Len(image) + gap
        /\ \A o \in 1..Len(image) : front[o] = image[o]
    BY <1>3, <1>7, <1>8, BytesJoined
  <2> QED
    BY <1>6, <2>1
<1>10. /\ image' \in Seq(Seq(Nat)) /\ Len(image') = offs[n] + Len(data)
       /\ \A o \in 1..Len(front) : image'[o] = front[o]
       /\ \A j \in 1..Len(data) : image'[Len(front) + j] = data[j]
  <2>1. image' = front \o data
    BY <1>1, <1>8
  <2>2. /\ front \o data \in Seq(Seq(Nat)) /\ Len(front \o data) = Len(front) + Len(data)
        /\ \A o \in 1..Len(front) : (front \o data)[o] = front[o]
        /\ \A j \in 1..Len(data) : (front \o data)[Len(front) + j] = data[j]
    BY <1>4, <1>9, BytesJoined
  <2> QED
    BY <1>9, <2>1, <2>2
<1>11. \A o \in 1..Len(image) : o \in 1..Len(image') /\ image'[o] = image[o]
  BY <1>2, <1>3, <1>4, <1>5, <1>9, <1>10
<1>12. DOMAIN data = 1..Len(data) /\ DOMAIN image = 1..Len(image) /\ DOMAIN image' = 1..Len(image')
  BY <1>3, <1>4, <1>10
<1> QED
  BY <1>2, <1>5, <1>9, <1>10, <1>11, <1>12 DEF data

LEMMA ContentsStep == LoadInv /\ [Next]_vars => Contents'
<1> SUFFICES ASSUME LoadInv, [Next]_vars PROVE Contents'
  OBVIOUS
<1>1. SegTyped /\ Kept /\ AllPlaced /\ Contents
  BY DEF LoadInv, PlaceInv
<1>2. CASE SelectSection \/ StartPlacing \/ PlaceSegment
  <2>1. pc' \in {"select", "place"} /\ image' = image
    BY <1>2 DEF SelectSection, StartPlacing, PlaceSegment
  <2> QED
    BY <1>1, <2>1 DEF Contents
<1>3. CASE WriteHeaders
  <2>1. /\ image' = [j \in 1..HeadersSize |-> <<0, 0, j>>] /\ segs' = segs
        /\ pc' = "write" /\ i' = 1
    BY <1>3 DEF WriteHeaders
  <2>2. HeadersSize \in Nat
    BY <1>1, HeadersSizeNat
  <2>3. image' \in Seq(Seq(Nat)) /\ Len(image') = HeadersSize
    BY <2>1, <2>2
  <2>4. FileEnd(0)' = HeadersSize
    BY <2>1 DEF FileEnd, HeadersSize
  <2>5. FileEnd(i - 1)' = FileEnd(0)'
    BY <2>1
  <2>6. Len(image') = FileEnd(i - 1)' /\ i' <= Len(segs') + 1
    <3>1. Len(segs') \in Nat
      BY <1>1, <2>1 DEF SegTyped
    <3>2. i' <= Len(segs') + 1
      BY <2>1, <3>1
    <3> QED
      BY <2>3, <2>4, <2>5, <3>2
  <2>7. \A k \in DOMAIN segs' : ~ k < i'
    BY <1>1, <2>1 DEF SegTyped
  <2> QED
    BY <2>1, <2>3, <2>6, <2>7 DEF Contents
<1>4. CASE WriteSegment
  <2>1. PICK n \in Nat \ {0} : n = i
    BY <1>1 DEF SegTyped
  <2>2. pc' = "write" /\ i' = n + 1 /\ segs' = segs /\ offs' = offs /\ n <= Len(segs)
    BY <1>4, <2>1 DEF WriteSegment
  <2>3. /\ image' \in Seq(Seq(Nat)) /\ Len(image') = offs[n] + Len(segs[n].data)
        /\ Len(image) <= offs[n] /\ offs[n] \in Nat /\ n \in DOMAIN segs
        /\ \A o \in DOMAIN image : o \in DOMAIN image' /\ image'[o] = image[o]
        /\ \A j \in DOMAIN segs[n].data : image'[offs[n] + j] = segs[n].data[j]
    BY <1>4, <2>1, WriteSegmentAppends
  <2>4. FileEnd(i - 1)' = offs[n] + Len(segs[n].data)
    <3>1. FileEnd(n)' = offs[n] + Len(segs[n].data)
      BY <2>1, <2>2 DEF FileEnd
    <3>2. i' - 1 = n
      BY <2>1, <2>2
    <3>3. FileEnd(i - 1)' = FileEnd(n)'
      BY <3>2
    <3> QED
      BY <3>1, <3>3
  <2>5. i' <= Len(segs') + 1
    BY <1>1, <2>1, <2>2 DEF SegTyped
  <2>6. ASSUME NEW k \in DOMAIN segs, k < n + 1
        PROVE  Standing(k)'
    <3>1. CASE k = n
      <4>1. Len(segs[n].data) \in Nat /\ segs[n].data \in Seq(Seq(Nat))
        BY <1>1, <2>3, SegmentBytes
      <4>2. \A j \in DOMAIN segs[n].data : offs[n] + j \in DOMAIN image'
        <5>1. PICK o \in Nat, z \in Nat : o = offs[n] /\ z = Len(segs[n].data)
          BY <2>3, <4>1
        <5>2. DOMAIN segs[n].data = 1..z /\ DOMAIN image' = 1..(o + z)
          BY <2>3, <4>1, <5>1
        <5>3. \A j \in 1..z : o + j \in 1..(o + z)
          OBVIOUS
        <5> QED
          BY <5>1, <5>2, <5>3
      <4> QED
        BY <2>2, <2>3, <3>1, <4>2 DEF Standing
    <3>2. CASE k # n
      <4>1. k < i /\ pc = "write"
        BY <1>1, <1>4, <2>1, <2>6, <3>2 DEF WriteSegment, SegTyped
      <4>2. Standing(k)
        BY <1>1, <4>1 DEF Contents
      <4> QED
        BY <2>2, <2>3, <4>2 DEF Standing
    <3> QED
      BY <3>1, <3>2
  <2>7. \A k \in DOMAIN segs' : pc' \in {"load", "started"} \/ (pc' = "write" /\ k < i') => Standing(k)'
    BY <2>2, <2>6
  <2> QED
    BY <2>2, <2>3, <2>4, <2>5, <2>7 DEF Contents
<1>5. CASE WriteDone
  <2>1. /\ pc = "write" /\ i > Len(segs) /\ pc' = "load"
        /\ segs' = segs /\ offs' = offs /\ image' = image
    BY <1>5 DEF WriteDone
  <2>2. \A k \in DOMAIN segs : k < i
    BY <1>1, <2>1 DEF SegTyped
  <2> QED
    BY <1>1, <2>1, <2>2 DEF Contents, Standing
<1>6. CASE MapSegment \/ Started
  <2>1. /\ pc = "load" /\ pc' \in {"load", "started"}
        /\ segs' = segs /\ offs' = offs /\ image' = image
    BY <1>6 DEF MapSegment, Started
  <2> QED
    BY <1>1, <2>1 DEF Contents, Standing
<1>7. CASE UNCHANGED vars
  BY <1>1, <1>7 DEF vars, Contents, Standing, FileEnd, HeadersSize
<1> QED
  BY <1>2, <1>3, <1>4, <1>5, <1>6, <1>7 DEF Next

(* A segment is mapped in whole pages: no address of one is left out.      *)
LEMMA WholePages ==
  ASSUME SegTyped, Kept, NEW k \in DOMAIN segs, NEW a \in Int, PageOf(a) \in Pages(segs[k])
  PROVE  a \in (segs[k].addr - ElfPage)..(End(segs[k]) + ElfPage)
<1>1. /\ segs[k].addr \in Nat /\ Len(segs[k].data) \in Nat
      /\ End(segs[k]) = segs[k].addr + Len(segs[k].data)
      /\ PageOf(segs[k].addr) <= PageOf(a) /\ PageOf(a) <= PageOf(End(segs[k]) - 1)
  BY PagesOfSegment
<1>2. End(segs[k]) \in Nat /\ ElfPage \in Nat \ {0}
  BY <1>1, ElfPageAssumption
<1>3. segs[k].addr < a + ElfPage
  BY <1>1, PageSpan
<1>4. a < End(segs[k]) - 1 + ElfPage
  <2>1. End(segs[k]) - 1 \in Int
    BY <1>2
  <2> QED
    BY <1>1, <2>1, PageSpan
<1> QED
  BY <1>1, <1>2, <1>3, <1>4

(* Mapping a segment gives the addresses on its pages bytes of its own and *)
(* leaves every other address alone.                                       *)
LEMMA MapSegmentMaps ==
  ASSUME LoadInv, MapSegment, NEW n \in Nat \ {0}, n = i, NEW a \in Int
  PROVE  /\ PageOf(a) \in Pages(segs[n]) =>
              a \in DOMAIN mem' /\ mem'[a] = FileByte(offs[n] + a - segs[n].addr)
         /\ PageOf(a) \notin Pages(segs[n]) /\ a \in DOMAIN mem =>
              a \in DOMAIN mem' /\ mem'[a] = mem[a]
<1>1. SegTyped /\ Kept /\ n \in DOMAIN segs
  BY DEF LoadInv, PlaceInv, MapSegment, SegTyped
<1>2. PICK D : D = {b \in (segs[n].addr - ElfPage)..(End(segs[n]) + ElfPage) :
                      PageOf(b) \in Pages(segs[n])}
  OBVIOUS
<1>3. mem' = [b \in D \union DOMAIN mem |->
                IF b \in D THEN FileByte(offs[n] + b - segs[n].addr) ELSE mem[b]]
  BY <1>2 DEF MapSegment
<1>4. PageOf(a) \in Pages(segs[n]) <=> a \in D
  BY <1>1, <1>2, WholePages
<1> QED
  BY <1>3, <1>4

LEMMA MappedStep == LoadInv /\ [Next]_vars => Mapped'
<1> SUFFICES ASSUME LoadInv, [Next]_vars PROVE Mapped'
  OBVIOUS
<1>1. SegTyped /\ Kept /\ Contents /\ Mapped
  BY DEF LoadInv, PlaceInv
<1>2. CASE SelectSection \/ StartPlacing \/ PlaceSegment \/ WriteHeaders \/ WriteSegment
  <2>1. pc' \in {"select", "place", "write"}
    BY <1>2 DEF SelectSection, StartPlacing, PlaceSegment, WriteHeaders, WriteSegment
  <2> QED
    BY <2>1 DEF Mapped
<1>3. CASE WriteDone
  <2>1. pc' = "load" /\ i' = 1 /\ segs' = segs
    BY <1>3 DEF WriteDone
  <2>2. Len(segs) \in Nat /\ \A k \in DOMAIN segs : ~ k < 1
    BY <1>1 DEF SegTyped
  <2> QED
    BY <2>1, <2>2 DEF Mapped
<1>4. CASE MapSegment
  <2>1. PICK n \in Nat \ {0} : n = i
    BY <1>1 DEF SegTyped
  <2>2. /\ pc = "load" /\ pc' = "load" /\ i' = n + 1 /\ n <= Len(segs)
        /\ segs' = segs /\ offs' = offs /\ image' = image
    BY <1>4, <2>1 DEF MapSegment
  <2>3. n + 1 <= Len(segs) + 1 /\ n \in DOMAIN segs
    BY <1>1, <2>1, <2>2 DEF SegTyped
  <2>4. ASSUME NEW k \in DOMAIN segs, NEW a \in Int, k < n + 1, PageOf(a) \in Pages(segs[k])
        PROVE  a \in DOMAIN mem' /\ \E l \in DOMAIN segs : k <= l /\ From(a, l)'
    <3>1. k \in Nat /\ k <= n
      BY <1>1, <2>4 DEF SegTyped
    <3>2. CASE PageOf(a) \in Pages(segs[n])
      <4>1. a \in DOMAIN mem' /\ mem'[a] = FileByte(offs[n] + a - segs[n].addr)
        BY <1>4, <2>1, <3>2, MapSegmentMaps
      <4>2. From(a, n)'
        BY <2>2, <3>2, <4>1 DEF From, FileByte
      <4> QED
        BY <2>3, <3>1, <4>1, <4>2
    <3>3. CASE PageOf(a) \notin Pages(segs[n])
      <4>1. k < i
        BY <2>1, <2>4, <3>1, <3>3
      <4>2. a \in DOMAIN mem
        BY <1>1, <2>2, <2>4, <4>1 DEF Mapped
      <4>3. PICK l \in DOMAIN segs : k <= l /\ From(a, l)
        BY <1>1, <2>2, <2>4, <4>1 DEF Mapped
      <4>4. a \in DOMAIN mem' /\ mem'[a] = mem[a]
        BY <1>4, <2>1, <3>3, <4>2, MapSegmentMaps
      <4>5. From(a, l)'
        BY <2>2, <4>3, <4>4 DEF From, FileByte
      <4> QED
        BY <4>3, <4>4, <4>5
    <3> QED
      BY <3>2, <3>3
  <2> QED
    BY <2>2, <2>3, <2>4 DEF Mapped
<1>5. CASE Started
  <2>1. /\ pc = "load" /\ pc' = "started" /\ i > Len(segs) /\ i' = i
        /\ segs' = segs /\ offs' = offs /\ image' = image /\ mem' = mem
    BY <1>5 DEF Started
  <2>2. i' = Len(segs') + 1
    BY <1>1, <2>1 DEF Mapped, SegTyped
  <2> QED
    BY <1>1, <2>1, <2>2 DEF Mapped, From, FileByte
<1>6. CASE UNCHANGED vars
  BY <1>1, <1>6 DEF vars, Mapped, From, FileByte
<1> QED
  BY <1>2, <1>3, <1>4, <1>5, <1>6 DEF Next

LEMMA LoadInvNext == LoadInv /\ [Next]_vars => LoadInv'
  BY PlaceInvNext, KeptStep, AllPlacedStep, ShiftsStep, ContentsStep, MappedStep DEF LoadInv

-----------------------------------------------------------------------------
LEMMA SameDistance ==
  ASSUME NEW ok \in Int, NEW ol \in Int, NEW ak \in Int, NEW al \in Int, NEW j \in Int, NEW a \in Int,
         ol - al = ok - ak, a = ak + j - 1
  PROVE  ol + a - al = ok + j - 1
<1>1. ol = ok - ak + al
  OBVIOUS
<1> QED
  BY <1>1

LEMMA WithinBytes ==
  ASSUME NEW x \in Nat, NEW z \in Nat, NEW j \in Nat, 1 <= j, j <= z
  PROVE  x <= x + j - 1 /\ x + j - 1 <= x + z - 1 /\ x + z - 1 \in Int
  OBVIOUS

(* A byte of a segment comes from a segment at or after its own that       *)
(* shares its page; that one stands in the file as far from it as in       *)
(* memory, so the byte is the segment's own.                               *)
LEMMA SegmentsLoaded ==
  ASSUME LoadInv, pc = "started", Disjoint, PagesAscend, NEW k \in DOMAIN segs
  PROVE  InMemory(segs[k])
<1>1. /\ SegTyped /\ Kept /\ Shifts /\ Contents /\ Mapped
      /\ Len(offs) = Len(segs) /\ DOMAIN offs = DOMAIN segs /\ k \in Nat
  BY DEF LoadInv, PlaceInv, AllPlaced, SegTyped
<1>2. segs[k].addr \in Nat /\ segs[k].data \in Seq(Seq(Nat)) /\ offs[k] \in Nat
  <2>1. offs[k] \in Nat
    BY <1>1 DEF SegTyped
  <2> QED
    BY <1>1, <2>1, SegFields, SegmentBytes
<1>3. SUFFICES ASSUME NEW j \in DOMAIN segs[k].data
               PROVE  /\ segs[k].addr + j - 1 \in DOMAIN mem
                      /\ mem[segs[k].addr + j - 1] = segs[k].data[j]
  BY DEF InMemory
<1>4. PICK a \in Nat : a = segs[k].addr + j - 1
  BY <1>2
<1>5. j \in Nat /\ 1 <= j /\ j <= Len(segs[k].data) /\ Len(segs[k].data) \in Nat
  BY <1>2
<1>6. PageOf(a) \in Pages(segs[k])
  <2>1. /\ End(segs[k]) = segs[k].addr + Len(segs[k].data)
        /\ PageOf(a) \in Pages(segs[k])
             <=> PageOf(a) \in Int /\ PageOf(segs[k].addr) <= PageOf(a)
                 /\ PageOf(a) <= PageOf(End(segs[k]) - 1)
    BY <1>1, PagesOfSegment
  <2>2. segs[k].addr <= a /\ a <= End(segs[k]) - 1 /\ End(segs[k]) - 1 \in Int
    <3>1. PICK ak \in Nat, z \in Nat : ak = segs[k].addr /\ z = Len(segs[k].data)
      BY <1>2, <1>5
    <3>2. End(segs[k]) = ak + z /\ a = ak + j - 1
      BY <1>4, <2>1, <3>1
    <3>3. ak <= ak + j - 1 /\ ak + j - 1 <= ak + z - 1 /\ ak + z - 1 \in Int
      BY <1>5, <3>1, WithinBytes
    <3> QED
      BY <3>1, <3>2, <3>3
  <2>3. PageOf(segs[k].addr) <= PageOf(a)
    BY <1>2, <2>2, PageMonotone
  <2>4. PageOf(a) <= PageOf(End(segs[k]) - 1)
    BY <2>2, PageMonotone
  <2> QED
    BY <2>1, <2>3, <2>4, PageBounds
<1>7. k < i
  BY <1>1 DEF Mapped, SegTyped
<1>8. a \in DOMAIN mem
  BY <1>1, <1>4, <1>6, <1>7 DEF Mapped
<1>9. PICK l \in DOMAIN segs : k <= l /\ From(a, l)
  BY <1>1, <1>4, <1>6, <1>7 DEF Mapped
<1>10. offs[l] - segs[l].addr = offs[k] - segs[k].addr
  <2>1. SharePage(segs[k], segs[l])
    BY <1>6, <1>9 DEF From, SharePage
  <2>2. Ascend(k, l)
    <3>1. CASE k = l
      BY <1>1, <3>1 DEF Ascend
    <3>2. CASE k # l
      <4>1. k < l
        BY <1>1, <1>9, <3>2 DEF SegTyped
      <4> QED
        BY <2>1, <4>1 DEF PagesAscend, Ascend
    <3> QED
      BY <3>1, <3>2
  <2>3. SameShift(k, l)
    BY <1>1, <1>9, <2>2 DEF Shifts
  <2> QED
    BY <2>1, <2>3 DEF SameShift
<1>11. segs[l].addr \in Nat /\ offs[l] \in Nat
  BY <1>1, SegFields DEF SegTyped
<1>12. offs[l] + a - segs[l].addr = offs[k] + j - 1
  <2>1. PICK ak \in Int, al \in Int, ok \in Int, ol \in Int :
          ak = segs[k].addr /\ al = segs[l].addr /\ ok = offs[k] /\ ol = offs[l]
    BY <1>2, <1>11
  <2>2. ol - al = ok - ak /\ a = ak + j - 1
    BY <1>4, <1>10, <2>1
  <2>3. ol + a - al = ok + j - 1
    BY <1>5, <2>2, SameDistance
  <2> QED
    BY <2>1, <2>3
<1>13. offs[k] + j \in DOMAIN image /\ image[offs[k] + j] = segs[k].data[j]
  BY <1>1, <1>3 DEF Contents, Standing
<1>14. FileByte(offs[k] + j - 1) = image[offs[k] + j]
  <2>1. image \in Seq(Seq(Nat)) /\ Len(image) \in Nat
    BY <1>1 DEF Contents
  <2>2. PICK o \in Int : o = offs[k] + j - 1
    BY <1>2, <1>5
  <2>3. o \in 0..(Len(image) - 1) /\ o + 1 = offs[k] + j
    BY <1>2, <1>5, <1>13, <2>1, <2>2
  <2> QED
    BY <2>2, <2>3 DEF FileByte
<1>15. mem[a] = segs[k].data[j]
  BY <1>9, <1>12, <1>13, <1>14 DEF From
<1> QED
  BY <1>4, <1>8, <1>15

(* If the segments are disjoint, and those on one page are consecutive and *)
(* ascend, then every byte of every loaded section is at its address when  *)
(* the process starts (Elf_WriteExec), for every page size, number of      *)
(* sections and address: the offsets of elf.c:562 make the pages agree.    *)
THEOREM SectionsLoad == Spec => []LoadsInOrder
<1>1. LoadInv => LoadsInOrder
  <2> SUFFICES ASSUME LoadInv, pc = "started", Disjoint, PagesAscend,
                      NEW d \in DOMAIN secs, secs[d].alloc
               PROVE  InMemory(secs[d])
    BY DEF LoadsInOrder, LoadsIntact
  <2>1. CASE secs[d].data = << >>
    BY <2>1 DEF InMemory
  <2>2. CASE secs[d].data # << >>
    <3>1. PICK k \in DOMAIN segs : segs[k] = secs[d]
      BY <2>2 DEF LoadInv, Kept
    <3>2. InMemory(segs[k])
      BY SegmentsLoaded
    <3> QED
      BY <3>1, <3>2
  <2> QED
    BY <2>1, <2>2
<1> QED
  BY LoadInvInit, LoadInvNext, <1>1, PTL DEF Spec
=============================================================================
