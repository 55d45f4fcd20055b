------------------------------ MODULE ElfFile ------------------------------
(***************************************************************************)
(* Relocatable objects on disk, src/util/elf.c: Elf_Write with             *)
(* Elf_WriteRel, and Elf_Read with Elf_ReadMem.  An object is written, the *)
(* file is read, and what was read is written again.                       *)
(*                                                                         *)
(* A file is its header and the pieces written after it, each a section's  *)
(* body or the table of section headers, at an offset and of a size in     *)
(* bytes; the reader finds a piece by its offset alone.  The null entries  *)
(* (index 0) of the section headers, the symbols and the relocation maps   *)
(* are left out of the sequences and counted in the sizes.  A string takes *)
(* two bytes of its table, itself and its NUL.                             *)
(*                                                                         *)
(* The disk (how much of a file fits) and objects of other producers are   *)
(* not of this repository.                                                 *)
(***************************************************************************)
EXTENDS ElfObject

CONSTANTS
  Names,     \* section and symbol names
  Objects,   \* the objects to write
  Rooms,     \* how many bytes the disk may have left
  MaxRounds  \* how many times an object is written and read

ASSUME ObjectsAssumption ==
  /\ Objects \subseteq Object(Names)
  /\ \A o \in Objects : \A d \in DOMAIN o.secs : o.secs[d].align # 0
ASSUME RoomsAssumption == Rooms \subseteq Nat /\ MaxRounds \in Nat \ {0}

VARIABLES
  pc, i,         \* where the writer or the reader is, and its loop index
  obj,           \* the object being written
  slot,          \* the symbol table index of each symbol: slot[]
  firstGlobal,   \* first_global
  symtab, strtab,
  shdrs, bodies, \* the section headers and the bodies they describe
  shstr,         \* the names of the headers
  shstrndx,      \* the header of the header names
  pos,           \* the next free byte of the file
  shoff,         \* where the section headers go
  file,          \* what is on disk
  room, rc,      \* bytes left for the file; what Elf_Write returned
  back, secmap,  \* the object Elf_ReadMem builds, and its secmap[]
  lost,          \* the sections another producer made NOBITS
  foreign,       \* the file is another producer's
  round, earlier \* rounds so far; the file of the round before

objVars  == <<obj, room, lost, foreign, round, earlier>>
symVars  == <<slot, firstGlobal, symtab, strtab>>
tabVars  == <<shdrs, bodies, shstr, shstrndx>>
fileVars == <<tabVars, pos, shoff, file, rc>>
readVars == <<back, secmap>>
vars == <<pc, i, objVars, symVars, fileVars, readVars>>

(* The end of a string. *)
Nul == ""

EhdrSize == 64
ShdrSize == 64
SymSize  == 24
RelaSize == 24

EmptyObj == [secs |-> << >>, syms |-> << >>]
NoFile == [size |-> 0, shoff |-> 0, shnum |-> 0, shstrndx |-> 0, pieces |-> << >>]

WriteInit ==
  /\ pc = "open" /\ i = 1
  /\ slot = << >> /\ firstGlobal = 1
  /\ symtab = << >> /\ strtab = <<Nul>>
  /\ shdrs = << >> /\ bodies = << >> /\ shstr = <<Nul>> /\ shstrndx = 0
  /\ pos = EhdrSize /\ shoff = 0
  /\ file = NoFile /\ rc = 0
  /\ back = EmptyObj /\ secmap = << >>

Init ==
  /\ WriteInit
  /\ obj \in Objects /\ room \in Rooms
  /\ lost = {} /\ foreign = FALSE /\ round = 1 /\ earlier = NoFile

-----------------------------------------------------------------------------
(* Writing.                                                                *)

(* fopen succeeds, or it does not: the only failure Elf_Write reports.     *)
OpenFile ==
  /\ pc = "open"
  /\ pc' = "locals"
  /\ slot' = [j \in DOMAIN obj.syms |-> 0]
  /\ UNCHANGED <<i, objVars, firstGlobal, symtab, strtab, fileVars, readVars>>

OpenFails ==
  /\ pc = "open"
  /\ pc' = "failed" /\ rc' = -1
  /\ UNCHANGED <<i, objVars, symVars, tabVars, pos, shoff, file, readVars>>

WriteStr(tab, name) == tab \o <<name, Nul>>

(* Every bind but LOCAL is written among the globals. *)
Wanted == IF pc = "locals" THEN Locals ELSE Globals

SectionIndex(sec) == IF sec \in DOMAIN obj.secs THEN sec ELSE 0

(* A symbol on disk; an undefined one has no value. *)
SymOut(sym) ==
  [name |-> Len(strtab), bind |-> sym.bind, type |-> sym.type,
   shndx |-> SectionIndex(sym.sec),
   value |-> IF sym.sec # 0 THEN sym.value ELSE 0]

(* A symbol's index in the file: si. *)
NextSlot == Len(symtab) + 1

AtSymbol == pc \in {"locals", "globals"} /\ i <= Len(obj.syms)

WriteSymbol ==
  /\ AtSymbol /\ obj.syms[i].bind \in Wanted
  /\ slot' = [slot EXCEPT ![i] = NextSlot]
  /\ symtab' = Append(symtab, SymOut(obj.syms[i]))
  /\ strtab' = WriteStr(strtab, obj.syms[i].name)
  /\ i' = i + 1
  /\ UNCHANGED <<pc, objVars, firstGlobal, fileVars, readVars>>

SkipSymbol ==
  /\ AtSymbol /\ obj.syms[i].bind \notin Wanted
  /\ i' = i + 1
  /\ UNCHANGED <<pc, objVars, symVars, fileVars, readVars>>

(* The second pass starts without setting first_global. *)
SecondPassForgetsFirst ==
  /\ pc = "locals" /\ i > Len(obj.syms)
  /\ pc' = "globals" /\ i' = 1
  /\ UNCHANGED <<objVars, symVars, fileVars, readVars>>

SecondPass ==
  /\ pc = "locals" /\ i > Len(obj.syms)
  /\ pc' = "globals" /\ i' = 1
  /\ firstGlobal' = NextSlot
  /\ UNCHANGED <<objVars, slot, symtab, strtab, fileVars, readVars>>

RelaOut(rela, index) ==
  [off |-> rela.off, symi |-> index, type |-> rela.type, addend |-> rela.addend]

(* The relocations of a section with the symbol indices of the object,     *)
(* instead of the file's.                                                  *)
WriteRelasUnmapped(sec) ==
  [q \in DOMAIN sec.relas |-> RelaOut(sec.relas[q], sec.relas[q].sym)]

WriteRelas(sec) ==
  [q \in DOMAIN sec.relas |->
     RelaOut(sec.relas[q], IF sec.relas[q].sym # 0 THEN slot[sec.relas[q].sym] ELSE 0)]

(* The size of a body on disk; entry 0 of a symbol table is the null one.  *)
DiskSize(type, body) ==
  CASE type = "SYMTAB" -> SymSize * (Len(body) + 1)
    [] type = "RELA"   -> RelaSize * Len(body)
    [] OTHER           -> Len(body)

Header(type, name, alloc, align, link, info, body) ==
  [type |-> type, name |-> name, alloc |-> alloc, align |-> align, link |-> link,
   info |-> info, off |-> 0, size |-> DiskSize(type, body)]

(* The next header, its name and its body. *)
AddHeader(name, type, alloc, align, link, info, body) ==
  /\ shdrs' = Append(shdrs, Header(type, Len(shstr), alloc, align, link, info, body))
  /\ bodies' = Append(bodies, body)
  /\ shstr' = WriteStr(shstr, name)

SymbolsWritten ==
  /\ pc = "globals" /\ i > Len(obj.syms)
  /\ pc' = "headers" /\ i' = 1
  /\ UNCHANGED <<objVars, symVars, fileVars, readVars>>

SectionHeader ==
  /\ pc = "headers" /\ i <= Len(obj.secs)
  /\ LET sec == obj.secs[i]
     IN AddHeader(sec.name, "PROGBITS", sec.alloc, sec.align, 0, 0, sec.data)
  /\ i' = i + 1
  /\ UNCHANGED <<pc, objVars, symVars, shstrndx, pos, shoff, file, rc, readVars>>

IdxSymtab == Len(obj.secs) + 1
IdxStrtab == Len(obj.secs) + 2

SymtabHead ==
  /\ pc = "headers" /\ i > Len(obj.secs)
  /\ AddHeader("symtab", "SYMTAB", FALSE, 8, IdxStrtab, firstGlobal, symtab)
  /\ pc' = "strings"
  /\ UNCHANGED <<i, objVars, symVars, shstrndx, pos, shoff, file, rc, readVars>>

StrtabHead ==
  /\ pc = "strings"
  /\ AddHeader("strtab", "STRTAB", FALSE, 1, 0, 0, strtab)
  /\ pc' = "targets" /\ i' = 1
  /\ UNCHANGED <<objVars, symVars, shstrndx, pos, shoff, file, rc, readVars>>

(* A relocation section for each section that has relocations. *)
RelaHead ==
  /\ pc = "targets" /\ i <= Len(obj.secs) /\ obj.secs[i].relas # << >>
  /\ AddHeader("rela", "RELA", FALSE, 8, IdxSymtab, i, WriteRelas(obj.secs[i]))
  /\ i' = i + 1
  /\ UNCHANGED <<pc, objVars, symVars, shstrndx, pos, shoff, file, rc, readVars>>

NoRelaHead ==
  /\ pc = "targets" /\ i <= Len(obj.secs) /\ obj.secs[i].relas = << >>
  /\ i' = i + 1
  /\ UNCHANGED <<pc, objVars, symVars, fileVars, readVars>>

(* The names come last, their own among them. *)
NamesHead ==
  /\ pc = "targets" /\ i > Len(obj.secs)
  /\ AddHeader("shstrtab", "STRTAB", FALSE, 1, 0, 0, WriteStr(shstr, "shstrtab"))
  /\ shstrndx' = Len(shdrs) + 1
  /\ pc' = "layout" /\ i' = 1
  /\ UNCHANGED <<objVars, symVars, pos, shoff, file, rc, readVars>>

(* Other producers order their headers otherwise, and have sections without*)
(* a body: from here on the file is theirs.                                *)
Orders(n) == {[k \in 1..n |-> ((turn * k + shift) % n) + 1] : turn \in {1, -1}, shift \in 0..(n - 1)}

MovedHeader(h, p) ==
  [h EXCEPT !.link = IF h.link # 0 THEN p[h.link] ELSE 0,
            !.info = IF h.type = "RELA" THEN p[h.info] ELSE h.info]

MovedBody(h, body, p) ==
  IF h.type = "SYMTAB"
  THEN [s \in DOMAIN body |-> [body[s] EXCEPT !.shndx = IF @ # 0 THEN p[@] ELSE 0]]
  ELSE body

(* Header k is the j-th of this one, for the j that p moves to k.          *)
OtherProducer ==
  /\ pc = "layout" /\ round = 1
  /\ \E p \in Orders(Len(shdrs)), empty \in {0} \union DOMAIN obj.secs :
       LET from(k) == CHOOSE j \in DOMAIN p : p[j] = k
           moved(k) == MovedHeader(shdrs[from(k)], p)
       IN /\ shdrs' = [k \in DOMAIN shdrs |->
                         IF from(k) = empty THEN [moved(k) EXCEPT !.type = "NOBITS"] ELSE moved(k)]
          /\ bodies' = [k \in DOMAIN bodies |->
                          IF from(k) = empty THEN << >>
                          ELSE MovedBody(shdrs[from(k)], bodies[from(k)], p)]
          /\ shstrndx' = p[shstrndx]
          /\ lost' = {empty} \ {0}
  /\ foreign' = TRUE
  /\ pc' = "place"
  /\ UNCHANGED <<i, obj, room, round, earlier, symVars, shstr, pos, shoff, file, rc, readVars>>

OwnFile ==
  /\ pc = "layout"
  /\ pc' = "place"
  /\ UNCHANGED <<i, objVars, symVars, fileVars, readVars>>

RoundUp(n, align) == IF align > 1 THEN ((n + align - 1) \div align) * align ELSE n

(* sizes[]: the bytes a body takes in the file. *)
SizeOf(k) == DiskSize(shdrs[k].type, bodies[k])

(* An offset without alignment. *)
OffsetUnaligned(k) == pos

Offset(k) == RoundUp(pos, shdrs[k].align)

PlaceBody ==
  /\ pc = "place" /\ i <= Len(shdrs)
  /\ shdrs' = [shdrs EXCEPT ![i].off = Offset(i)]
  /\ pos' = Offset(i) + SizeOf(i)
  /\ i' = i + 1
  /\ UNCHANGED <<pc, objVars, symVars, bodies, shstr, shstrndx, shoff, file, rc, readVars>>

(* fwrite keeps what fits on the disk, and nobody asks how much that was. *)
Written(f, at, size, body) ==
  IF at + size <= room
  THEN [f EXCEPT !.size = at + size,
                 !.pieces = Append(@, [at |-> at, size |-> size, body |-> body])]
  ELSE [f EXCEPT !.size = room]

(* The ELF header goes first. *)
PlacingDone ==
  /\ pc = "place" /\ i > Len(shdrs)
  /\ shoff' = RoundUp(pos, 8)
  /\ file' = [size |-> IF EhdrSize <= room THEN EhdrSize ELSE room, shoff |-> RoundUp(pos, 8),
              shnum |-> Len(shdrs) + 1, shstrndx |-> shstrndx, pieces |-> << >>]
  /\ pos' = EhdrSize
  /\ pc' = "emit" /\ i' = 1
  /\ UNCHANGED <<objVars, symVars, tabVars, rc, readVars>>

(* Padding only ever moves forward. *)
PaddedTo(off) == IF pos < off THEN off ELSE pos

EmitBody ==
  /\ pc = "emit" /\ i <= Len(shdrs)
  /\ file' = Written(file, PaddedTo(shdrs[i].off), SizeOf(i), bodies[i])
  /\ pos' = PaddedTo(shdrs[i].off) + SizeOf(i)
  /\ i' = i + 1
  /\ UNCHANGED <<pc, objVars, symVars, tabVars, shoff, rc, readVars>>

EmitHeaders ==
  /\ pc = "emit" /\ i > Len(shdrs)
  /\ file' = Written(file, PaddedTo(shoff), ShdrSize * (Len(shdrs) + 1), shdrs)
  /\ pos' = PaddedTo(shoff) + ShdrSize * (Len(shdrs) + 1)
  /\ pc' = "written" /\ i' = 1
  /\ UNCHANGED <<objVars, symVars, tabVars, shoff, rc, readVars>>

-----------------------------------------------------------------------------
(* Reading.  Only whole files are read: in one that was cut short the      *)
(* reader follows offsets past its end, and what it finds there is open.   *)

Whole == file.size = pos

At(off) == LET here == {p \in DOMAIN file.pieces : file.pieces[p].at = off /\ file.pieces[p].size > 0}
           IN IF here = {} THEN << >> ELSE file.pieces[First(here)].body

Headers == At(file.shoff)
NameAt(table, off) == At(table)[off + 1]

(* The header is checked: a file with less than one is no object. *)
ReadRefused ==
  /\ pc = "written" /\ file.size < EhdrSize
  /\ pc' = "refused"
  /\ UNCHANGED <<i, objVars, symVars, fileVars, readVars>>

StartRead ==
  /\ pc = "written" /\ file.size >= EhdrSize /\ Whole
  /\ pc' = "sections" /\ i' = 1
  /\ back' = EmptyObj /\ secmap' = [k \in 1..(file.shnum - 1) |-> 0]
  /\ UNCHANGED <<objVars, symVars, fileVars>>

AtHeader == i <= file.shnum - 1

(* A relocatable object's sh_addr is 0. *)
SectionIn(h) ==
  [name |-> NameAt(Headers[file.shstrndx].off, h.name), alloc |-> h.alloc, addr |-> 0,
   align |-> IF h.align = 0 THEN 1 ELSE h.align,
   data |-> SubSeq(At(h.off), 1, h.size), relas |-> << >>]

ReadSection ==
  /\ pc = "sections" /\ AtHeader /\ Headers[i].type = "PROGBITS"
  /\ back' = [back EXCEPT !.secs = Append(@, SectionIn(Headers[i]))]
  /\ secmap' = [secmap EXCEPT ![i] = Len(back.secs) + 1]
  /\ i' = i + 1
  /\ UNCHANGED <<pc, objVars, symVars, fileVars>>

SkipSection ==
  /\ pc = "sections" /\ AtHeader /\ Headers[i].type # "PROGBITS"
  /\ i' = i + 1
  /\ UNCHANGED <<pc, objVars, symVars, fileVars, readVars>>

SectionsDone ==
  /\ pc = "sections" /\ ~AtHeader
  /\ pc' = "symbols" /\ i' = 1
  /\ UNCHANGED <<objVars, symVars, fileVars, readVars>>

SymtabHeader == First({k \in DOMAIN Headers : Headers[k].type = "SYMTAB"})

(* nsyms; the symbols are 1..nsyms - 1. *)
NSyms == IF SymtabHeader = 0 THEN 0 ELSE Headers[SymtabHeader].size \div SymSize

(* A header index taken for a section's index. *)
MappedDirectly(k) == IF k \in DOMAIN back.secs THEN k ELSE 0

(* The section a header index stands for, if the reader kept it. *)
Mapped(k) == IF k \in DOMAIN secmap THEN secmap[k] ELSE 0

SymbolIn(s) ==
  [name |-> NameAt(Headers[Headers[SymtabHeader].link].off, s.name),
   sec |-> Mapped(s.shndx), value |-> s.value, bind |-> s.bind, type |-> s.type]

ReadSymbol ==
  /\ pc = "symbols" /\ i < NSyms
  /\ back' = [back EXCEPT !.syms = Append(@, SymbolIn(At(Headers[SymtabHeader].off)[i]))]
  /\ i' = i + 1
  /\ UNCHANGED <<pc, objVars, symVars, fileVars, secmap>>

SymbolsDone ==
  /\ pc = "symbols" /\ i >= NSyms
  /\ pc' = "relas" /\ i' = 1
  /\ UNCHANGED <<objVars, symVars, fileVars, readVars>>

RelaTarget(h) == IF h.type = "RELA" THEN Mapped(h.info) ELSE 0

RelaIn(rela) ==
  [off |-> rela.off, sym |-> IF rela.symi < NSyms THEN rela.symi ELSE 0,
   type |-> rela.type, addend |-> rela.addend]

ReadRelas ==
  /\ pc = "relas" /\ AtHeader /\ RelaTarget(Headers[i]) # 0
  /\ LET h == Headers[i]
         relas == SubSeq(At(h.off), 1, h.size \div RelaSize)
     IN back' = [back EXCEPT !.secs[RelaTarget(h)].relas =
                               @ \o [q \in DOMAIN relas |-> RelaIn(relas[q])]]
  /\ i' = i + 1
  /\ UNCHANGED <<pc, objVars, symVars, fileVars, secmap>>

(* No relocations, or those of a section that was not kept. *)
SkipRelas ==
  /\ pc = "relas" /\ AtHeader /\ RelaTarget(Headers[i]) = 0
  /\ i' = i + 1
  /\ UNCHANGED <<pc, objVars, symVars, fileVars, readVars>>

ReadDone ==
  /\ pc = "relas" /\ ~AtHeader
  /\ pc' = "read"
  /\ UNCHANGED <<i, objVars, symVars, fileVars, readVars>>

(* The strings of a new file, left over from the one before, or only the   *)
(* empty one.                                                              *)
StaleStrtab == strtab

NewStrtab == <<Nul>>

(* What was read is written again, as the linker does under -r. *)
WriteAgain ==
  /\ pc = "read" /\ round < MaxRounds
  /\ obj' = back /\ earlier' = file /\ round' = round + 1
  /\ lost' = {}
  /\ pc' = "open" /\ i' = 1
  /\ slot' = << >> /\ firstGlobal' = 1 /\ symtab' = << >> /\ strtab' = NewStrtab
  /\ shdrs' = << >> /\ bodies' = << >> /\ shstr' = <<Nul>> /\ shstrndx' = 0
  /\ pos' = EhdrSize /\ shoff' = 0 /\ file' = NoFile /\ rc' = 0
  /\ back' = EmptyObj /\ secmap' = << >>
  /\ UNCHANGED <<room, foreign>>

Next ==
  \/ OpenFile \/ OpenFails
  \/ WriteSymbol \/ SkipSymbol \/ SecondPass \/ SymbolsWritten
  \/ SectionHeader \/ SymtabHead \/ StrtabHead \/ RelaHead \/ NoRelaHead \/ NamesHead
  \/ OtherProducer \/ OwnFile
  \/ PlaceBody \/ PlacingDone \/ EmitBody \/ EmitHeaders
  \/ ReadRefused \/ StartRead
  \/ ReadSection \/ SkipSection \/ SectionsDone
  \/ ReadSymbol \/ SymbolsDone
  \/ ReadRelas \/ SkipRelas \/ ReadDone
  \/ WriteAgain

Spec == Init /\ [][Next]_vars

-----------------------------------------------------------------------------
(* Properties.                                                             *)

(* Locals and the others keep their order, each among themselves. *)
Ordered(syms, at) ==
  \A a, b \in DOMAIN syms :
    /\ at[a] = at[b] => a = b
    /\ a < b /\ (syms[a].bind \in Locals <=> syms[b].bind \in Locals) => at[a] < at[b]

(* The symbol table the comment of Elf_WriteSymtab describes, "locals      *)
(* before globals": sh_info parts the two, no symbol is missing or written *)
(* twice, and within each part symbols keep their order, which decides     *)
(* what a name finds.                                                      *)
SymtabOrdered ==
  pc = "layout" =>
    /\ \A s \in DOMAIN symtab : (s < firstGlobal) <=> (symtab[s].bind = "LOCAL")
    /\ {slot[j] : j \in DOMAIN slot} = 1..Len(obj.syms)
    /\ Ordered(obj.syms, slot)

(* Every body stands where its header says, aligned, behind the ELF header *)
(* and the bodies before it, in front of the section headers.              *)
BodiesApart ==
  pc = "written" /\ Whole =>
    /\ shoff % 8 = 0
    /\ \A k \in DOMAIN shdrs :
         /\ file.pieces[k].at = shdrs[k].off
         /\ shdrs[k].align > 1 => shdrs[k].off % shdrs[k].align = 0
         /\ shdrs[k].off >= EhdrSize
         /\ shdrs[k].off + SizeOf(k) <= shoff
         /\ \A j \in 1..(k - 1) : shdrs[j].off + SizeOf(j) <= shdrs[k].off

(* What of an object a file keeps, if old's section d is new's section     *)
(* to[d] (0 for those that are gone) and old's symbol j new's symbol at[j]. *)
Image(m, k) == IF k = 0 THEN 0 ELSE m[k]

SameRela(was, is, at) ==
  is = [off |-> was.off, sym |-> Image(at, was.sym), type |-> was.type, addend |-> was.addend]

SameSection(was, is, at) ==
  /\ is.name = was.name /\ is.alloc = was.alloc /\ is.align = was.align /\ is.data = was.data
  /\ DOMAIN is.relas = DOMAIN was.relas
  /\ \A q \in DOMAIN was.relas : SameRela(was.relas[q], is.relas[q], at)

SameSymbol(was, is, to) ==
  is = [name |-> was.name, sec |-> Image(to, was.sec), value |-> IF was.sec = 0 THEN 0 ELSE was.value,
        bind |-> was.bind, type |-> was.type]

SameObject(old, new, gone, to, at) ==
  /\ \A d \in DOMAIN old.secs : to[d] = 0 <=> d \in gone
  /\ \A d, e \in DOMAIN old.secs : to[d] = to[e] /\ to[d] # 0 => d = e
  /\ \A k \in DOMAIN new.secs : \E d \in DOMAIN old.secs : to[d] = k
  /\ \A d \in DOMAIN old.secs : d \notin gone => SameSection(old.secs[d], new.secs[to[d]], at)
  /\ \A j \in DOMAIN old.syms : SameSymbol(old.syms[j], new.syms[at[j]], to)

(* Reading gives back what was written: every section and every byte,      *)
(* every relocation at its place for its symbol although the symbols       *)
(* changed their order, and every symbol in its section, whatever order    *)
(* the producer of the file gave its headers.  A section the reader does   *)
(* not keep is gone, and its symbols are undefined from then on.           *)
RoundTrip ==
  pc = "read" =>
    /\ Len(back.syms) = Len(obj.syms)
    /\ \E at \in [DOMAIN obj.syms -> DOMAIN back.syms] :
         /\ Ordered(obj.syms, at)
         /\ \E to \in [DOMAIN obj.secs -> 0..Len(back.secs)] : SameObject(obj, back, lost, to, at)

(* An object that was read and written again makes the same file: only the *)
(* first writing reorders anything.                                        *)
AgainTheSame == pc = "written" /\ round > 1 /\ ~foreign /\ Whole => file = earlier

(* What elf.c:637 says of Elf_Write: it returns 0 "on success or -1 on     *)
(* error".  A file it calls written is all there.                          *)
WriteReported == pc = "written" /\ rc = 0 => Whole
=============================================================================
