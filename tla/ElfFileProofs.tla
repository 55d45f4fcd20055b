--------------------------- MODULE ElfFileProofs ---------------------------
(***************************************************************************)
(* Proofs about object files: whatever object is written, by this writer   *)
(* or with its headers in another's order, the symbol table is the one the *)
(* ELF format asks for, the bodies lie apart, the reader finds the object  *)
(* again, and writing that makes the same file.                            *)
(***************************************************************************)
EXTENDS ElfFile, ElfObjectProofs, FiniteSetTheorems, FunctionTheorems

-----------------------------------------------------------------------------
(* What a file of an object is.  o is the object, sl the slots of its      *)
(* symbols, fg the first global one, hs and bs the headers and the bodies, *)
(* nx the header of the names.                                             *)

Identity(n) == [d \in 1..n |-> d]

Aligned(o) == \A d \in DOMAIN o.secs : o.secs[d].align # 0

(* Each symbol has its slot, the locals those before fg. *)
Slotted(ss, sl, fg) ==
  /\ sl \in [DOMAIN ss -> 1..Len(ss)]
  /\ \A s \in 1..Len(ss) : \E j \in DOMAIN ss : sl[j] = s
  /\ Ordered(ss, sl)
  /\ fg \in 1..(Len(ss) + 1)
  /\ \A j \in DOMAIN ss : sl[j] < fg <=> ss[j].bind \in Locals

(* A symbol in slot s whose section has header k. *)
DiskSymbol(sym, s, k) ==
  [name |-> 2 * s - 1, bind |-> sym.bind, type |-> sym.type, shndx |-> k,
   value |-> IF sym.sec # 0 THEN sym.value ELSE 0]

TableOf(ss, sl, w, table) ==
  /\ IsList(table) /\ Len(table) = Len(ss)
  /\ \A j \in DOMAIN ss : table[sl[j]] = DiskSymbol(ss[j], sl[j], Image(w, ss[j].sec))

StringsOf(ss, sl, table) ==
  /\ IsList(table) /\ Len(table) = 1 + 2 * Len(ss) /\ table[1] = Nul
  /\ \A j \in DOMAIN ss : table[2 * sl[j]] = ss[j].name /\ table[2 * sl[j] + 1] = Nul

RelasOf(relas, sl) == [q \in DOMAIN relas |-> RelaOut(relas[q], Image(sl, relas[q].sym))]

Kinds == {"PROGBITS", "SYMTAB", "STRTAB", "RELA", "NOBITS"}

HeaderType ==
  [type : Kinds, name : Nat, alloc : BOOLEAN, align : Nat, link : Nat, info : Nat, off : Nat, size : Nat]

HeaderSays(h, type, alloc, align, link, info) ==
  h.type = type /\ h.alloc = alloc /\ h.align = align /\ h.link = link /\ h.info = info

HeaderName(o, k) ==
  IF k <= Len(o.secs) THEN o.secs[k].name
  ELSE IF k = Len(o.secs) + 1 THEN "symtab"
  ELSE IF k = Len(o.secs) + 2 THEN "strtab" ELSE "rela"

(* Header k and its body, in the order of Elf_WriteRel. *)
OwnHeader(o, sl, fg, k, h, body) ==
  LET n == Len(o.secs)
  IN /\ h \in HeaderType /\ h.name = 2 * k - 1 /\ h.size = DiskSize(h.type, body)
     /\ k <= n => /\ HeaderSays(h, "PROGBITS", o.secs[k].alloc, o.secs[k].align, 0, 0)
                  /\ body = o.secs[k].data
     /\ k = n + 1 => /\ HeaderSays(h, "SYMTAB", FALSE, 8, n + 2, fg)
                     /\ TableOf(o.syms, sl, Identity(n), body)
     /\ k = n + 2 => HeaderSays(h, "STRTAB", FALSE, 1, 0, 0) /\ StringsOf(o.syms, sl, body)
     /\ k > n + 2 => /\ HeaderSays(h, "RELA", FALSE, 8, n + 1, h.info)
                     /\ h.info \in 1..n /\ o.secs[h.info].relas # << >>
                     /\ body = RelasOf(o.secs[h.info].relas, sl)

(* The first m of them. *)
OwnHeaders(o, sl, fg, hs, bs, m) ==
  /\ IsList(hs) /\ IsList(bs) /\ Len(bs) = Len(hs) /\ m \in 0..Len(hs)
  /\ \A k \in 1..m : OwnHeader(o, sl, fg, k, hs[k], bs[k])
  /\ \A k, l \in 1..m : Len(o.secs) + 2 < k /\ k < l => hs[k].info < hs[l].info

(* Sections before d have their relocations among them. *)
RelasAmong(o, hs, m, d) ==
  \A e \in DOMAIN o.secs :
    e < d /\ o.secs[e].relas # << >> => \E k \in 1..m : Len(o.secs) + 2 < k /\ hs[k].info = e

NamesOf(o, names, m) ==
  /\ IsList(names) /\ Len(names) >= 1 + 2 * m /\ names[1] = Nul
  /\ \A k \in 1..m : names[2 * k] = HeaderName(o, k) /\ names[2 * k + 1] = Nul

(* All of them, the names last. *)
OwnTables(o, sl, fg, hs, bs, nx) ==
  LET m == Len(hs)
  IN /\ m >= Len(o.secs) + 3 /\ nx = m
     /\ OwnHeaders(o, sl, fg, hs, bs, m - 1)
     /\ RelasAmong(o, hs, m - 1, Len(o.secs) + 1)
     /\ hs[m] \in HeaderType /\ hs[m].name = 2 * m - 1 /\ hs[m].size = Len(bs[m])
     /\ HeaderSays(hs[m], "STRTAB", FALSE, 1, 0, 0)
     /\ NamesOf(o, bs[m], m - 1) /\ Len(bs[m]) = 1 + 2 * m
     /\ bs[m][2 * m] = "shstrtab" /\ bs[m][2 * m + 1] = Nul

(* In any order: section d has header w[d], those in gone are NOBITS.      *)
NamedSection(sec, h, body, names) ==
  /\ h.alloc = sec.alloc /\ h.align = sec.align /\ h.size = Len(sec.data)
  /\ body = sec.data /\ names[h.name + 1] = sec.name

Arranged(o, sl, hs, bs, nx, gone, w) ==
  /\ IsList(hs) /\ IsList(bs) /\ Len(bs) = Len(hs)
  /\ \A k \in DOMAIN hs : hs[k] \in HeaderType /\ IsList(bs[k])
  /\ \A k \in DOMAIN hs : hs[k].type # "NOBITS" => hs[k].size = DiskSize(hs[k].type, bs[k])
  /\ w \in [DOMAIN o.secs -> DOMAIN hs]
  /\ \A d, e \in DOMAIN o.secs : w[d] = w[e] => d = e
  /\ nx \in DOMAIN hs /\ hs[nx].type = "STRTAB" /\ bs[nx] # << >>
  /\ \A d \in DOMAIN o.secs \ gone :
       hs[w[d]].type = "PROGBITS" /\ NamedSection(o.secs[d], hs[w[d]], bs[w[d]], bs[nx])
  /\ \A d \in gone : hs[w[d]].type = "NOBITS"
  /\ \A k \in DOMAIN hs : hs[k].type = "PROGBITS" => \E d \in DOMAIN o.secs : w[d] = k
  /\ \E k \in DOMAIN hs :
       /\ \A l \in DOMAIN hs : hs[l].type = "SYMTAB" <=> l = k
       /\ TableOf(o.syms, sl, w, bs[k])
       /\ hs[k].link \in DOMAIN hs /\ hs[hs[k].link].type = "STRTAB"
       /\ StringsOf(o.syms, sl, bs[hs[k].link])
  /\ \A k \in DOMAIN hs : hs[k].type = "RELA" =>
       \E d \in DOMAIN o.secs :
         hs[k].info = w[d] /\ o.secs[d].relas # << >> /\ bs[k] = RelasOf(o.secs[d].relas, sl)
  /\ \A k, l \in DOMAIN hs : hs[k].type = "RELA" /\ hs[l].type = "RELA" /\ hs[k].info = hs[l].info => k = l
  /\ \A d \in DOMAIN o.secs : o.secs[d].relas # << >> =>
       \E k \in DOMAIN hs : hs[k].type = "RELA" /\ hs[k].info = w[d]

(* Where the first m bodies go, and the bytes after the first m.           *)
BodySize(hs, bs, k) == DiskSize(hs[k].type, bs[k])

EndOf(hs, bs, m) == IF m = 0 THEN EhdrSize ELSE hs[m].off + BodySize(hs, bs, m)

Laid(hs, bs, m) ==
  /\ \A k \in 1..m : hs[k].off = RoundUp(EndOf(hs, bs, k - 1), hs[k].align)
  /\ \A k \in 0..m, j \in 1..m : k < j => EndOf(hs, bs, k) <= hs[j].off

HeadersAt(hs, bs) == RoundUp(EndOf(hs, bs, Len(hs)), 8)

HeadersSize(hs) == ShdrSize * (Len(hs) + 1)

PieceOf(hs, bs, k) ==
  IF k <= Len(hs) THEN [at |-> hs[k].off, size |-> BodySize(hs, bs, k), body |-> bs[k]]
  ELSE [at |-> HeadersAt(hs, bs), size |-> HeadersSize(hs), body |-> hs]

FileOf(hs, bs, nx) ==
  [size |-> HeadersAt(hs, bs) + HeadersSize(hs), shoff |-> HeadersAt(hs, bs),
   shnum |-> Len(hs) + 1, shstrndx |-> nx,
   pieces |-> [k \in 1..(Len(hs) + 1) |-> PieceOf(hs, bs, k)]]

(* f is the file this writer makes of o. *)
MadeOf(o, f) ==
  \E sl, fg, hs, bs, nx :
    /\ Slotted(o.syms, sl, fg) /\ OwnTables(o, sl, fg, hs, bs, nx) /\ Laid(hs, bs, Len(hs))
    /\ f = FileOf(hs, bs, nx)

(* What the reader makes of a section and of a symbol. *)
SectionBack(sec, sl, whole) ==
  [name |-> sec.name, alloc |-> sec.alloc, addr |-> 0, align |-> sec.align, data |-> sec.data,
   relas |-> IF whole
             THEN [q \in DOMAIN sec.relas |->
                     [off |-> sec.relas[q].off, sym |-> Image(sl, sec.relas[q].sym),
                      type |-> sec.relas[q].type, addend |-> sec.relas[q].addend]]
             ELSE << >>]

SymbolBack(sym, to) ==
  [name |-> sym.name, sec |-> Image(to, sym.sec), value |-> IF sym.sec = 0 THEN 0 ELSE sym.value,
   bind |-> sym.bind, type |-> sym.type]

-----------------------------------------------------------------------------
(* The inductive invariant.                                                *)

Heading == {"headers", "strings", "targets"}
Reading == {"sections", "symbols", "relas", "read"}
Placed  == {"emit", "written", "refused"} \union Reading
Ordering == {"open", "failed", "locals", "globals"} \union Heading \union {"layout"}

FileTyped ==
  /\ pc \in Ordering \union {"place"} \union Placed
  /\ obj \in Object(Names) /\ Aligned(obj)
  /\ room \in Nat /\ i \in Nat \ {0} /\ round \in Nat \ {0} /\ foreign \in BOOLEAN
  /\ lost \subseteq DOMAIN obj.secs /\ (pc \in Ordering \/ ~foreign => lost = {})

(* Symbols that have been written. *)
SymbolDone(j) ==
  /\ pc = "locals" => j < i /\ obj.syms[j].bind \in Locals
  /\ pc = "globals" => j < i \/ obj.syms[j].bind \in Locals

SymbolsInv ==
  /\ pc \in {"open", "failed"} => i = 1 /\ symtab = << >> /\ strtab = <<Nul>>
  /\ pc \in {"locals", "globals"} =>
       /\ IsList(symtab) /\ IsList(strtab) /\ Len(strtab) = 1 + 2 * Len(symtab) /\ strtab[1] = Nul
       /\ i <= Len(obj.syms) + 1
       /\ slot \in [DOMAIN obj.syms -> 0..Len(symtab)]
       /\ \A j \in DOMAIN obj.syms : slot[j] # 0 <=> SymbolDone(j)
       /\ \A j \in DOMAIN obj.syms : slot[j] # 0 =>
            /\ symtab[slot[j]] = DiskSymbol(obj.syms[j], slot[j], obj.syms[j].sec)
            /\ strtab[2 * slot[j]] = obj.syms[j].name /\ strtab[2 * slot[j] + 1] = Nul
       /\ \A s \in DOMAIN symtab : \E j \in DOMAIN obj.syms : slot[j] = s
       /\ \A a, b \in DOMAIN obj.syms : slot[a] # 0 /\ slot[b] # 0 =>
            /\ slot[a] = slot[b] => a = b
            /\ a < b /\ (obj.syms[a].bind \in Locals <=> obj.syms[b].bind \in Locals) => slot[a] < slot[b]
  /\ pc = "globals" =>
       /\ firstGlobal \in 1..(Len(symtab) + 1)
       /\ \A j \in DOMAIN obj.syms : slot[j] # 0 => (slot[j] < firstGlobal <=> obj.syms[j].bind \in Locals)
  /\ pc \notin {"open", "failed", "locals", "globals"} => Slotted(obj.syms, slot, firstGlobal)
  /\ pc \in Heading \union {"layout"} =>
       /\ TableOf(obj.syms, slot, Identity(Len(obj.secs)), symtab)
       /\ StringsOf(obj.syms, slot, strtab)

TablesInv ==
  /\ pc \in {"open", "failed", "locals", "globals"} => shdrs = << >> /\ bodies = << >> /\ shstr = <<Nul>>
  /\ pc \in Heading =>
       /\ OwnHeaders(obj, slot, firstGlobal, shdrs, bodies, Len(shdrs))
       /\ NamesOf(obj, shstr, Len(shdrs)) /\ Len(shstr) = 1 + 2 * Len(shdrs)
  /\ pc = "headers" => i <= Len(obj.secs) + 1 /\ Len(shdrs) = i - 1
  /\ pc = "strings" => Len(shdrs) = Len(obj.secs) + 1
  /\ pc = "targets" =>
       /\ i <= Len(obj.secs) + 1 /\ Len(shdrs) >= Len(obj.secs) + 2
       /\ RelasAmong(obj, shdrs, Len(shdrs), i)
       /\ \A k \in DOMAIN shdrs : Len(obj.secs) + 2 < k => shdrs[k].info < i
  /\ pc = "layout" \/ (pc \notin Ordering /\ ~foreign) =>
       OwnTables(obj, slot, firstGlobal, shdrs, bodies, shstrndx)
  /\ pc \notin Ordering =>
       \E w \in [DOMAIN obj.secs -> DOMAIN shdrs] : Arranged(obj, slot, shdrs, bodies, shstrndx, lost, w)

PlacesInv ==
  /\ pc \in Ordering => pos = EhdrSize
  /\ pc = "layout" => i = 1
  /\ pc = "place" =>
       /\ i <= Len(shdrs) + 1 /\ Laid(shdrs, bodies, i - 1)
       /\ pos = EndOf(shdrs, bodies, i - 1)
  /\ pc \in Placed => Laid(shdrs, bodies, Len(shdrs)) /\ shoff = HeadersAt(shdrs, bodies)
  /\ pc = "emit" =>
       /\ i <= Len(shdrs) + 1 /\ pos = EndOf(shdrs, bodies, i - 1)
       /\ file = [size |-> file.size, shoff |-> shoff, shnum |-> Len(shdrs) + 1,
                  shstrndx |-> shstrndx, pieces |-> file.pieces]
       /\ IsList(file.pieces)
       /\ pos <= room => /\ file.size = pos /\ Len(file.pieces) = i - 1
                         /\ \A k \in 1..(i - 1) : file.pieces[k] = PieceOf(shdrs, bodies, k)
       /\ pos > room => file.size = room
  /\ (pc = "written" /\ Whole) \/ pc \in Reading => file = FileOf(shdrs, bodies, shstrndx)

(* The header of each section, and what the reader has made of it. *)
HeaderIn(o, sl, hs, bs, nx, gone, any) ==
  IF any
  THEN CHOOSE w \in [DOMAIN o.secs -> DOMAIN hs] : Arranged(o, sl, hs, bs, nx, gone, w)
  ELSE Identity(Len(o.secs))

HeaderOf == HeaderIn(obj, slot, shdrs, bodies, shstrndx, lost, foreign)

Kept == [d \in DOMAIN obj.secs |-> secmap[HeaderOf[d]]]

RelasBack(d) ==
  /\ pc \in {"relas", "read"}
  /\ \E k \in DOMAIN shdrs : k < i /\ shdrs[k].type = "RELA" /\ shdrs[k].info = HeaderOf[d]

SectionsRead ==
  /\ back = [secs |-> back.secs, syms |-> back.syms] /\ IsList(back.secs)
  /\ secmap \in [DOMAIN shdrs -> 0..Len(back.secs)]
  /\ \A k \in DOMAIN shdrs :
       secmap[k] # 0 <=> shdrs[k].type = "PROGBITS" /\ (pc = "sections" => k < i)
  /\ \A k, l \in DOMAIN shdrs : secmap[k] = secmap[l] /\ secmap[k] # 0 => k = l
  /\ \A x \in DOMAIN back.secs : \E k \in DOMAIN shdrs : secmap[k] = x
  /\ pc = "sections" => i <= Len(shdrs) + 1
  /\ ~foreign => /\ \A k \in DOMAIN shdrs : secmap[k] \in {0, k}
                 /\ pc = "sections" /\ i <= Len(obj.secs) + 1 => Len(back.secs) = i - 1
  /\ \A d \in DOMAIN obj.secs : Kept[d] # 0 =>
       \E whole \in BOOLEAN : /\ whole <=> RelasBack(d)
                              /\ back.secs[Kept[d]] = SectionBack(obj.secs[d], slot, whole)

SymbolsRead ==
  /\ IsList(back.syms)
  /\ pc = "sections" => back.syms = << >>
  /\ pc = "symbols" => i <= Len(obj.syms) + 1 /\ Len(back.syms) = i - 1
  /\ pc \in {"relas", "read"} => i <= Len(shdrs) + 1 /\ Len(back.syms) = Len(obj.syms)
  /\ pc = "read" => i = Len(shdrs) + 1
  /\ \A j \in DOMAIN obj.syms : slot[j] <= Len(back.syms) =>
       back.syms[slot[j]] = SymbolBack(obj.syms[j], Kept)

ReadInv == pc \in Reading => SectionsRead /\ SymbolsRead

EarlierInv == round > 1 /\ ~foreign => MadeOf(obj, earlier)

FileInv == FileTyped /\ SymbolsInv /\ TablesInv /\ PlacesInv /\ ReadInv /\ EarlierInv

-----------------------------------------------------------------------------
(* Lists.                                                                  *)

LEMMA ListElements ==
  ASSUME NEW s, IsList(s), NEW t, IsList(t), Len(s) = Len(t), \A j \in DOMAIN s : s[j] = t[j]
  PROVE  s = t
<1>1. s = [j \in DOMAIN s |-> s[j]] /\ t = [j \in DOMAIN t |-> t[j]]
  BY DEF IsList
<1>2. DOMAIN s = DOMAIN t
  BY ListProperties
<1> QED
  BY <1>1, <1>2

LEMMA FunctionIsList ==
  ASSUME NEW n \in Nat, NEW f, DOMAIN f = 1..n, f = [j \in 1..n |-> f[j]]
  PROVE  IsList(f) /\ Len(f) = n
<1>1. f \in [1..n -> {f[j] : j \in DOMAIN f}]
  OBVIOUS
<1> QED
  BY <1>1, FunctionIsSeq DEF IsList

(* t is s and then x. *)
Extended(s, x, t) ==
  /\ IsList(t) /\ Len(s) \in Nat /\ Len(t) = Len(s) + 1
  /\ DOMAIN s = 1..Len(s) /\ DOMAIN t = 1..(Len(s) + 1)
  /\ t[Len(s) + 1] = x /\ \A j \in 1..Len(s) : t[j] = s[j]

LEMMA AppendExtends ==
  ASSUME NEW s, IsList(s), NEW x
  PROVE  Extended(s, x, Append(s, x))
<1>1. Len(s) \in Nat /\ DOMAIN s = 1..Len(s)
  BY ListProperties
<1>0. PICK t : t = Append(s, x)
  OBVIOUS
<1>2. /\ IsList(t) /\ Len(t) = Len(s) + 1 /\ t[Len(t)] = x
      /\ \A j \in DOMAIN s : t[j] = s[j]
  BY <1>0, AppendIsList, SMT
<1>3. DOMAIN t = 1..Len(t)
  BY <1>2, ListProperties
<1>4. Extended(s, x, t)
  BY <1>1, <1>2, <1>3 DEF Extended
<1> QED
  BY <1>0, <1>4, Zenon

(* t is s and then a string. *)
StringAdded(s, name, t) ==
  /\ IsList(t) /\ Len(s) \in Nat /\ Len(t) = Len(s) + 2 /\ DOMAIN s = 1..Len(s)
  /\ t[Len(s) + 1] = name /\ t[Len(s) + 2] = Nul
  /\ \A j \in 1..Len(s) : t[j] = s[j]

(* A string is added behind what a table holds. *)
LEMMA StringWritten ==
  ASSUME NEW s, IsList(s), NEW name
  PROVE  StringAdded(s, name, WriteStr(s, name))
<1>0. PICK t : t = WriteStr(s, name)
  OBVIOUS
<1> DEFINE T == {s[j] : j \in DOMAIN s} \union {name, Nul}
<1>1. s \in Seq(T)
  <2>1. Len(s) \in Nat /\ DOMAIN s = 1..Len(s) /\ s \in [1..Len(s) -> {s[j] : j \in DOMAIN s}]
    BY DEF IsList
  <2>2. s \in [1..Len(s) -> T]
    BY <2>1
  <2> QED
    BY <2>1, <2>2, SeqDef
<1> DEFINE v == <<name, Nul>>
<1>2. v \in Seq(T) /\ Len(v) = 2 /\ v[1] = name /\ v[2] = Nul
  OBVIOUS
<1>8. t = s \o v
  BY <1>0 DEF WriteStr
<1> HIDE DEF T, v
<1>3. /\ t \in Seq(T) /\ Len(t) = Len(s) + 2
      /\ \A j \in 1..(Len(s) + 2) : t[j] = IF j <= Len(s) THEN s[j] ELSE v[j - Len(s)]
  <2>1. /\ s \o v \in Seq(T) /\ Len(s \o v) = Len(s) + Len(v)
        /\ \A j \in 1..(Len(s) + Len(v)) : (s \o v)[j] = IF j <= Len(s) THEN s[j] ELSE v[j - Len(s)]
    BY <1>1, <1>2, ConcatProperties
  <2> QED
    BY <1>2, <1>8, <2>1
<1>4. Len(s) \in Nat /\ DOMAIN s = 1..Len(s)
  BY ListProperties
<1>5. t[Len(s) + 1] = name /\ t[Len(s) + 2] = Nul
  <2>1. (Len(s) + 1) - Len(s) = 1 /\ (Len(s) + 2) - Len(s) = 2
    BY <1>4
  <2>2. t[Len(s) + 1] = v[1] /\ t[Len(s) + 2] = v[2]
    BY <1>3, <1>4, <2>1
  <2> QED
    BY <1>2, <2>2
<1>6. \A j \in DOMAIN s : t[j] = s[j]
  BY <1>3, <1>4
<1>7. IsList(t)
  BY <1>3, SeqIsList
<1>9. StringAdded(s, name, t)
  BY <1>3, <1>4, <1>5, <1>6, <1>7 DEF StringAdded
<1> QED
  BY <1>0, <1>9, Zenon

LEMMA OneStringIsList == IsList(<<Nul>>) /\ Len(<<Nul>>) = 1 /\ <<Nul>>[1] = Nul
<1>1. <<Nul>> \in Seq({Nul}) /\ Len(<<Nul>>) = 1 /\ <<Nul>>[1] = Nul
  OBVIOUS
<1>2. IsList(<<Nul>>)
  BY <1>1, SeqIsList, Zenon
<1> QED
  BY <1>1, <1>2

-----------------------------------------------------------------------------
(* Offsets.                                                                *)

(* Rounding goes up, to a multiple of the alignment. *)
LEMMA RoundUpAligns ==
  ASSUME NEW n \in Nat, NEW a \in Nat
  PROVE  /\ RoundUp(n, a) \in Nat /\ n <= RoundUp(n, a)
         /\ a > 1 => RoundUp(n, a) % a = 0
<1>1. CASE a > 1
  <2> DEFINE q == (n + a - 1) \div a
             r == (n + a - 1) % a
  <2>1. q \in Int /\ r \in 0..(a - 1) /\ n + a - 1 = a * q + r
    BY <1>1
  <2>2. RoundUp(n, a) = q * a
    BY <1>1 DEF RoundUp
  <2> HIDE DEF q, r
  <2>3. q * a = a * q /\ a * q \in Int
    BY <2>1
  <2>4. a * q >= n
    BY <1>1, <2>1, <2>3
  <2>5. q \in Nat
    <3>1. CASE q < 0
      <4>1. a * q + a <= a * 0
        BY <2>1, <3>1, ProductOrder
      <4> QED
        BY <1>1, <2>3, <2>4, <4>1
    <3> QED
      BY <2>1, <3>1
  <2>6. (a * q) % a = 0
    BY <1>1, <2>5, MultipleHasNoRest
  <2> QED
    BY <2>2, <2>3, <2>4, <2>6
<1>2. CASE ~(a > 1)
  BY <1>2 DEF RoundUp
<1> QED
  BY <1>1, <1>2

(* The three remainders of numbers that are at most one turn away.         *)
LEMMA OneTurn ==
  ASSUME NEW m \in Nat, m > 0, NEW x \in (-m)..(2 * m - 1)
  PROVE  x % m = IF x < 0 THEN x + m ELSE IF x < m THEN x ELSE x - m
<1>1. CASE x < 0
  <2>1. x + m \in 0..(m - 1) /\ x = m * (-1) + (x + m)
    BY <1>1
  <2> QED
    BY <1>1, <2>1, RemainderIsUnique
<1>2. CASE x >= 0 /\ x < m
  BY <1>2, SmallRemainder
<1>3. CASE x >= m
  <2>1. x - m \in 0..(m - 1) /\ x = m * 1 + (x - m)
    BY <1>3
  <2> QED
    BY <1>3, <2>1, RemainderIsUnique
<1> QED
  BY <1>1, <1>2, <1>3

(* Another producer's order has every header once. *)
LEMMA OrdersArePermutations ==
  ASSUME NEW m \in Nat, m > 0, NEW p \in Orders(m)
  PROVE  /\ p \in [1..m -> 1..m]
         /\ \A j, k \in 1..m : p[j] = p[k] => j = k
         /\ \A k \in 1..m : \E j \in 1..m : p[j] = k
<1>1. PICK turn \in {1, -1}, shift \in 0..(m - 1) :
        p = [k \in 1..m |-> ((turn * k + shift) % m) + 1]
  BY DEF Orders
<1>2. CASE turn = 1
  <2>1. \A k \in 1..m : (k + shift < m => p[k] = k + shift + 1) /\ (~(k + shift < m) => p[k] = k + shift - m + 1)
    <3> TAKE k \in 1..m
    <3>1. k + shift \in (-m)..(2 * m - 1)
      OBVIOUS
    <3>2. (k + shift) % m = IF k + shift < 0 THEN k + shift + m ELSE IF k + shift < m THEN k + shift ELSE k + shift - m
      BY <3>1, OneTurn
    <3>3. turn * k + shift = k + shift
      BY <1>2
    <3>4. p[k] = ((turn * k + shift) % m) + 1
      BY <1>1
    <3>5. p[k] = ((k + shift) % m) + 1
      BY <3>3, <3>4
    <3> QED
      BY <3>2, <3>5
  <2>2. \A k \in 1..m : \E j \in 1..m : p[j] = k
    <3> TAKE k \in 1..m
    <3>1. CASE k - 1 - shift >= 1
      <4>1. k - 1 - shift \in 1..m
        BY <3>1
      <4> WITNESS k - 1 - shift \in 1..m
      <4> QED
        BY <2>1, <3>1, <4>1
    <3>2. CASE k - 1 - shift < 1
      <4>1. k - 1 - shift + m \in 1..m
        BY <3>2
      <4> WITNESS k - 1 - shift + m \in 1..m
      <4> QED
        BY <2>1, <3>2, <4>1
    <3> QED
      BY <3>1, <3>2
  <2>3. \A k \in 1..m : p[k] \in 1..m
    BY <2>1
  <2>4. p \in [1..m -> 1..m]
    BY <1>1, <2>3
  <2>5. \A j, k \in 1..m : p[j] = p[k] => j = k
    <3> TAKE j, k \in 1..m
    <3> HAVE p[j] = p[k]
    <3>1. shift \in Int /\ m \in Int /\ j \in Int /\ k \in Int
      OBVIOUS
    <3>2. shift >= 0 /\ shift < m /\ 1 <= j /\ j <= m /\ 1 <= k /\ k <= m
      OBVIOUS
    <3>3. CASE j + shift < m /\ k + shift < m
      BY <2>1, <3>1, <3>2, <3>3
    <3>4. CASE j + shift < m /\ ~(k + shift < m)
      BY <2>1, <3>1, <3>2, <3>4
    <3>5. CASE ~(j + shift < m) /\ k + shift < m
      BY <2>1, <3>1, <3>2, <3>5
    <3>6. CASE ~(j + shift < m) /\ ~(k + shift < m)
      BY <2>1, <3>1, <3>2, <3>6
    <3> QED
      BY <3>3, <3>4, <3>5, <3>6
  <2> QED
    BY <2>2, <2>4, <2>5
<1>3. CASE turn = -1
  <2>1. \A k \in 1..m : (shift < k => p[k] = shift - k + m + 1) /\ (~(shift < k) => p[k] = shift - k + 1)
    <3> TAKE k \in 1..m
    <3>1. shift - k \in (-m)..(2 * m - 1)
      OBVIOUS
    <3>2. (shift - k) % m = IF shift - k < 0 THEN shift - k + m ELSE IF shift - k < m THEN shift - k ELSE shift - k - m
      BY <3>1, OneTurn
    <3>3. turn * k + shift = shift - k
      BY <1>3
    <3>4. p[k] = ((turn * k + shift) % m) + 1
      BY <1>1
    <3>5. p[k] = ((shift - k) % m) + 1
      BY <3>3, <3>4
    <3> QED
      BY <3>2, <3>5
  <2>2. \A k \in 1..m : \E j \in 1..m : p[j] = k
    <3> TAKE k \in 1..m
    <3>1. CASE shift - k + 1 >= 1
      <4>1. shift - k + 1 \in 1..m
        BY <3>1
      <4> WITNESS shift - k + 1 \in 1..m
      <4> QED
        BY <2>1, <3>1, <4>1
    <3>2. CASE shift - k + 1 < 1
      <4>1. shift - k + 1 + m \in 1..m
        BY <3>2
      <4> WITNESS shift - k + 1 + m \in 1..m
      <4> QED
        BY <2>1, <3>2, <4>1
    <3> QED
      BY <3>1, <3>2
  <2>3. \A k \in 1..m : p[k] \in 1..m
    BY <2>1
  <2>4. p \in [1..m -> 1..m]
    BY <1>1, <2>3
  <2>5. \A j, k \in 1..m : p[j] = p[k] => j = k
    <3> TAKE j, k \in 1..m
    <3> HAVE p[j] = p[k]
    <3>1. shift \in Int /\ m \in Int /\ j \in Int /\ k \in Int
      OBVIOUS
    <3>2. shift >= 0 /\ shift < m /\ 1 <= j /\ j <= m /\ 1 <= k /\ k <= m
      OBVIOUS
    <3>3. CASE shift < j /\ shift < k
      BY <2>1, <3>1, <3>2, <3>3
    <3>4. CASE shift < j /\ ~(shift < k)
      BY <2>1, <3>1, <3>2, <3>4
    <3>5. CASE ~(shift < j) /\ shift < k
      BY <2>1, <3>1, <3>2, <3>5
    <3>6. CASE ~(shift < j) /\ ~(shift < k)
      BY <2>1, <3>1, <3>2, <3>6
    <3> QED
      BY <3>3, <3>4, <3>5, <3>6
  <2> QED
    BY <2>2, <2>4, <2>5
<1> QED
  BY <1>2, <1>3

-----------------------------------------------------------------------------
(* Objects.                                                                *)

LEMMA ObjectFacts ==
  ASSUME NEW o \in Object(Names)
  PROVE  /\ o = [secs |-> o.secs, syms |-> o.syms]
         /\ IsList(o.secs) /\ Len(o.secs) \in Nat /\ DOMAIN o.secs = 1..Len(o.secs)
         /\ IsList(o.syms) /\ Len(o.syms) \in Nat /\ DOMAIN o.syms = 1..Len(o.syms)
         /\ \A d \in DOMAIN o.secs : o.secs[d] \in Section(Names)
         /\ \A j \in DOMAIN o.syms : o.syms[j] \in Symbol(Names) /\ o.syms[j].sec \in 0..Len(o.secs)
         /\ \A d \in DOMAIN o.secs : \A q \in DOMAIN o.secs[d].relas :
               o.secs[d].relas[q] \in Rela /\ o.secs[d].relas[q].sym \in 0..Len(o.syms)
<1>1. o = [secs |-> o.secs, syms |-> o.syms] /\ [secs |-> o.secs, syms |-> o.syms] \in Object(Names)
  BY DEF Object
<1>2. /\ o.secs \in Seq(Section(Names)) /\ o.syms \in Seq(Symbol(Names))
      /\ \A j \in DOMAIN o.syms : o.syms[j].sec \in 0..Len(o.secs)
      /\ \A d \in DOMAIN o.secs : \A q \in DOMAIN o.secs[d].relas : o.secs[d].relas[q].sym \in 0..Len(o.syms)
  BY <1>1, ObjectParts, Zenon
<1>3. IsList(o.secs) /\ IsList(o.syms)
  BY <1>2, SeqIsList
<1>4. \A d \in DOMAIN o.secs : o.secs[d] \in Section(Names)
  BY <1>2
<1>5. \A j \in DOMAIN o.syms : o.syms[j] \in Symbol(Names)
  BY <1>2
<1>6. ASSUME NEW d \in DOMAIN o.secs, NEW q \in DOMAIN o.secs[d].relas
      PROVE  o.secs[d].relas[q] \in Rela
  <2>1. o.secs[d].relas \in Seq(Rela)
    BY <1>4 DEF Section
  <2> HIDE DEF Rela
  <2> QED
    BY <2>1
<1> QED
  BY <1>1, <1>2, <1>3, <1>4, <1>5, <1>6, ListProperties

LEMMA SectionFacts ==
  ASSUME NEW sec \in Section(Names)
  PROVE  /\ sec.name \in Names /\ sec.alloc \in BOOLEAN /\ sec.align \in Nat /\ sec.addr \in Nat
         /\ IsList(sec.data) /\ Len(sec.data) \in Nat
         /\ IsList(sec.relas) /\ Len(sec.relas) \in Nat /\ DOMAIN sec.relas = 1..Len(sec.relas)
<1>1. sec.data \in Seq(Seq(Nat)) /\ sec.relas \in Seq(Rela)
  BY DEF Section
<1>2. sec.name \in Names /\ sec.alloc \in BOOLEAN /\ sec.align \in Nat /\ sec.addr \in Nat
  BY DEF Section
<1>3. IsList(sec.data) /\ IsList(sec.relas)
  BY <1>1, SeqIsList
<1> QED
  BY <1>2, <1>3, ListProperties

LEMMA SymbolFacts ==
  ASSUME NEW sym \in Symbol(Names)
  PROVE  /\ sym.name \in Names /\ sym.sec \in Nat /\ sym.value \in Nat
         /\ sym.bind \in Binds /\ sym.type \in STRING
BY DEF Symbol

-----------------------------------------------------------------------------
(* The symbol table.                                                       *)

LEMMA OpensFile ==
  ASSUME FileInv, OpenFile
  PROVE  FileInv'
<1> USE DEF OpenFile, objVars, fileVars, tabVars, readVars
<1>1. obj \in Object(Names) /\ obj' = obj
  BY DEF FileInv, FileTyped
<1>2. DOMAIN obj.syms = 1..Len(obj.syms) /\ Len(obj.syms) \in Nat
  BY <1>1, ObjectFacts
<1>3. FileTyped'
  BY DEF FileInv, FileTyped, Ordering
<1>4. SymbolsInv'
  <2>1. i = 1 /\ symtab = << >> /\ strtab = <<Nul>>
    BY DEF FileInv, SymbolsInv
  <2>2. IsList(symtab) /\ IsList(strtab) /\ Len(strtab) = 1 /\ Len(symtab) = 0 /\ strtab[1] = Nul /\ DOMAIN symtab = {}
    BY <2>1, OneStringIsList, EmptyIsList
  <2>3. \A j \in DOMAIN obj.syms : slot'[j] = 0
    OBVIOUS
  <2>4. slot' \in [DOMAIN obj.syms -> 0..0]
    OBVIOUS
  <2>5. \A j \in DOMAIN obj.syms : ~ SymbolDone(j)'
    BY <1>2, <2>1 DEF SymbolDone
  <2> QED
    BY <1>1, <1>2, <2>1, <2>2, <2>3, <2>4, <2>5 DEF SymbolsInv, Heading
<1>5. TablesInv'
  BY DEF FileInv, TablesInv, Heading, Ordering
<1>6. PlacesInv'
  BY DEF FileInv, PlacesInv, Ordering, Heading, Placed, Reading
<1>7. ReadInv'
  BY DEF ReadInv, Reading
<1>8. EarlierInv'
  BY DEF FileInv, EarlierInv
<1> QED
  BY <1>3, <1>4, <1>5, <1>6, <1>7, <1>8 DEF FileInv

(* A step of one of the two passes over the symbols. *)
LEMMA SymbolStep ==
  ASSUME FileInv, pc \in {"locals", "globals"}, pc' \in {"locals", "globals"}, i' \in Nat \ {0},
         UNCHANGED <<objVars, fileVars, readVars>>, SymbolsInv'
  PROVE  FileInv'
<1> USE DEF objVars, fileVars, tabVars, readVars
<1>1. FileTyped'
  BY DEF FileInv, FileTyped, Ordering
<1>2. TablesInv'
  BY DEF FileInv, TablesInv, Heading, Ordering
<1>3. PlacesInv'
  BY DEF FileInv, PlacesInv, Ordering, Heading, Placed, Reading
<1>4. ReadInv'
  BY DEF ReadInv, Reading
<1>5. EarlierInv'
  BY DEF FileInv, EarlierInv
<1> QED
  BY <1>1, <1>2, <1>3, <1>4, <1>5 DEF FileInv

LEMMA DiskSymbolWritten ==
  ASSUME FileInv, AtSymbol
  PROVE  /\ i \in DOMAIN obj.syms
         /\ SymOut(obj.syms[i]) = DiskSymbol(obj.syms[i], Len(symtab) + 1, obj.syms[i].sec)
<1>1. obj \in Object(Names) /\ i \in Nat \ {0}
  BY DEF FileInv, FileTyped
<1>2. /\ DOMAIN obj.syms = 1..Len(obj.syms) /\ Len(obj.syms) \in Nat
      /\ DOMAIN obj.secs = 1..Len(obj.secs) /\ Len(obj.secs) \in Nat
  BY <1>1, ObjectFacts
<1>3. i \in DOMAIN obj.syms
  BY <1>1, <1>2 DEF AtSymbol
<1>4. obj.syms[i].sec \in 0..Len(obj.secs)
  BY <1>1, <1>3, ObjectFacts
<1>5. SectionIndex(obj.syms[i].sec) = obj.syms[i].sec
  BY <1>2, <1>4 DEF SectionIndex
<1>6. Len(strtab) = 2 * (Len(symtab) + 1) - 1
  <2>1. IsList(symtab) /\ Len(strtab) = 1 + 2 * Len(symtab)
    BY DEF FileInv, SymbolsInv, AtSymbol
  <2>2. Len(symtab) \in Nat
    BY <2>1, ListProperties
  <2> QED
    BY <2>1, <2>2
<1> QED
  BY <1>3, <1>5, <1>6 DEF SymOut, DiskSymbol

LEMMA WritesSymbol ==
  ASSUME FileInv, WriteSymbol
  PROVE  FileInv'
<1>1. obj \in Object(Names) /\ i \in Nat \ {0} /\ obj' = obj /\ pc' = pc /\ i' = i + 1 /\ firstGlobal' = firstGlobal
      /\ pc \in {"locals", "globals"}
  BY DEF FileInv, FileTyped, WriteSymbol, AtSymbol, objVars
<1>2. /\ DOMAIN obj.syms = 1..Len(obj.syms) /\ Len(obj.syms) \in Nat
      /\ i \in DOMAIN obj.syms
  BY <1>1, ObjectFacts, DiskSymbolWritten DEF WriteSymbol
<1> DEFINE N == Len(symtab) + 1
           sym == obj.syms[i]
           out == DiskSymbol(sym, N, sym.sec)
<1>3. /\ IsList(symtab) /\ IsList(strtab) /\ Len(strtab) = 1 + 2 * Len(symtab) /\ strtab[1] = Nul
      /\ slot \in [DOMAIN obj.syms -> 0..Len(symtab)]
      /\ \A j \in DOMAIN obj.syms : slot[j] # 0 <=> SymbolDone(j)
      /\ \A j \in DOMAIN obj.syms : slot[j] # 0 =>
            /\ symtab[slot[j]] = DiskSymbol(obj.syms[j], slot[j], obj.syms[j].sec)
            /\ strtab[2 * slot[j]] = obj.syms[j].name /\ strtab[2 * slot[j] + 1] = Nul
      /\ \A s \in DOMAIN symtab : \E j \in DOMAIN obj.syms : slot[j] = s
      /\ \A a, b \in DOMAIN obj.syms : slot[a] # 0 /\ slot[b] # 0 =>
            /\ slot[a] = slot[b] => a = b
            /\ a < b /\ (obj.syms[a].bind \in Locals <=> obj.syms[b].bind \in Locals) => slot[a] < slot[b]
      /\ pc = "globals" =>
           /\ firstGlobal \in 1..(Len(symtab) + 1)
           /\ \A j \in DOMAIN obj.syms : slot[j] # 0 => (slot[j] < firstGlobal <=> obj.syms[j].bind \in Locals)
  BY <1>1 DEF FileInv, SymbolsInv
<1>4. Len(symtab) \in Nat /\ DOMAIN symtab = 1..Len(symtab) /\ DOMAIN strtab = 1..Len(strtab) /\ N \in Nat
  BY <1>3, ListProperties
<1>5. /\ IsList(symtab') /\ Len(symtab') = N /\ DOMAIN symtab' = 1..N
      /\ symtab'[N] = out
      /\ \A s \in 1..Len(symtab) : symtab'[s] = symtab[s]
  <2>1. symtab' = Append(symtab, out)
    BY DiskSymbolWritten DEF WriteSymbol
  <2> HIDE DEF out
  <2>2. Extended(symtab, out, symtab')
    BY <1>3, <2>1, AppendExtends
  <2> QED
    BY <2>2 DEF Extended
<1>6. /\ IsList(strtab') /\ Len(strtab') = 1 + 2 * N /\ strtab'[1] = Nul
      /\ strtab'[2 * N] = sym.name /\ strtab'[2 * N + 1] = Nul
      /\ \A j \in 1..(1 + 2 * Len(symtab)) : strtab'[j] = strtab[j]
  <2>1. strtab' = WriteStr(strtab, sym.name)
    BY DEF WriteSymbol
  <2>2. StringAdded(strtab, sym.name, strtab')
    BY <1>3, <2>1, StringWritten
  <2>4. Len(strtab) + 1 = 2 * N /\ Len(strtab) + 2 = 2 * N + 1 /\ 1 \in DOMAIN strtab
        /\ DOMAIN strtab = 1..(1 + 2 * Len(symtab))
    BY <1>3, <1>4
  <2> QED
    BY <1>3, <2>2, <2>4 DEF StringAdded
<1>7. /\ slot' \in [DOMAIN obj.syms -> 0..N] /\ slot'[i] = N
      /\ \A j \in DOMAIN obj.syms : j # i => slot'[j] = slot[j]
  <2>1. slot' = [slot EXCEPT ![i] = N]
    BY DEF WriteSymbol, NextSlot
  <2> QED
    BY <1>2, <1>3, <1>4, <2>1
<1>8. \A j \in DOMAIN obj.syms : slot[j] \in 0..Len(symtab) /\ slot'[j] \in 0..N
  BY <1>3, <1>7
<1> HIDE DEF N, out
<1>9. sym.bind \in Wanted /\ (pc = "locals" => sym.bind \in Locals) /\ (pc = "globals" => sym.bind \notin Locals)
  BY <1>1 DEF WriteSymbol, Wanted, Locals, Globals
<1>10. \A j \in DOMAIN obj.syms : SymbolDone(j)' <=> SymbolDone(j) \/ j = i
  BY <1>1, <1>2, <1>9 DEF SymbolDone
<1>11. slot[i] = 0
  <2>1. ~ SymbolDone(i)
    BY <1>1, <1>2, <1>9 DEF SymbolDone
  <2> QED
    BY <1>2, <1>3, <2>1
<1>12. \A j \in DOMAIN obj.syms : slot'[j] # 0 <=> SymbolDone(j)'
  BY <1>2, <1>3, <1>4, <1>5, <1>7, <1>10 DEF N
<1>13. ASSUME NEW j \in DOMAIN obj.syms, slot'[j] # 0
       PROVE  /\ symtab'[slot'[j]] = DiskSymbol(obj.syms[j], slot'[j], obj.syms[j].sec)
              /\ strtab'[2 * slot'[j]] = obj.syms[j].name /\ strtab'[2 * slot'[j] + 1] = Nul
  <2>1. CASE j = i
    BY <1>5, <1>6, <1>7, <2>1 DEF out
  <2>2. CASE j # i
    <3>1. slot'[j] = slot[j] /\ slot[j] # 0 /\ slot[j] \in 1..Len(symtab)
      BY <1>4, <1>7, <1>8, <1>13, <2>2
    <3>2. 2 * slot[j] \in 1..(1 + 2 * Len(symtab)) /\ 2 * slot[j] + 1 \in 1..(1 + 2 * Len(symtab))
      BY <1>4, <3>1
    <3>3. /\ symtab[slot[j]] = DiskSymbol(obj.syms[j], slot[j], obj.syms[j].sec)
          /\ strtab[2 * slot[j]] = obj.syms[j].name /\ strtab[2 * slot[j] + 1] = Nul
      BY <1>3, <3>1
    <3> QED
      BY <1>5, <1>6, <3>1, <3>2, <3>3
  <2> QED
    BY <2>1, <2>2
<1>14. \A s \in DOMAIN symtab' : \E j \in DOMAIN obj.syms : slot'[j] = s
  <2> TAKE s \in DOMAIN symtab'
  <2>1. CASE s = N
    BY <1>2, <1>7, <2>1
  <2>2. CASE s # N
    <3>1. s \in DOMAIN symtab
      BY <1>4, <1>5, <2>2 DEF N
    <3>2. PICK j \in DOMAIN obj.syms : slot[j] = s
      BY <1>3, <3>1
    <3>3. j # i
      BY <1>4, <1>11, <3>1, <3>2
    <3> QED
      BY <1>7, <3>2, <3>3
  <2> QED
    BY <2>1, <2>2
<1>15. ASSUME NEW a \in DOMAIN obj.syms, NEW b \in DOMAIN obj.syms, slot'[a] # 0, slot'[b] # 0
       PROVE  /\ slot'[a] = slot'[b] => a = b
              /\ a < b /\ (obj.syms[a].bind \in Locals <=> obj.syms[b].bind \in Locals) => slot'[a] < slot'[b]
  <2>1. CASE a # i /\ b # i
    BY <1>3, <1>7, <1>15, <2>1
  <2>2. CASE a = i /\ b = i
    BY <1>2, <2>2
  <2>3. CASE a # i /\ b = i
    <3>1. slot'[a] = slot[a] /\ slot[a] <= Len(symtab) /\ slot'[b] = N /\ slot[a] \in Nat
      BY <1>7, <1>8, <2>3, <1>4
    <3> QED
      BY <1>4, <3>1 DEF N
  <2>4. CASE a = i /\ b # i
    <3>1. slot'[b] = slot[b] /\ slot[b] <= Len(symtab) /\ slot'[a] = N /\ slot[b] \in Nat
      BY <1>7, <1>8, <2>4, <1>4
    <3>2. slot'[a] # slot'[b]
      BY <1>4, <3>1 DEF N
    <3>3. SymbolDone(b)
      BY <1>3, <1>15, <3>1
    <3>4. ~(a < b /\ (obj.syms[a].bind \in Locals <=> obj.syms[b].bind \in Locals))
      BY <1>1, <1>2, <1>9, <2>4, <3>3 DEF SymbolDone
    <3> QED
      BY <3>2, <3>4
  <2> QED
    BY <2>1, <2>2, <2>3, <2>4
<1>16. ASSUME pc = "globals"
       PROVE  /\ firstGlobal \in 1..(N + 1)
              /\ \A j \in DOMAIN obj.syms : slot'[j] # 0 => (slot'[j] < firstGlobal <=> obj.syms[j].bind \in Locals)
  <2>1. /\ firstGlobal \in 1..(Len(symtab) + 1)
        /\ \A j \in DOMAIN obj.syms : slot[j] # 0 => (slot[j] < firstGlobal <=> obj.syms[j].bind \in Locals)
    BY <1>3, <1>16
  <2>2. firstGlobal \in 1..(N + 1) /\ ~(N < firstGlobal)
    BY <1>4, <2>1 DEF N
  <2> QED
    BY <1>7, <1>9, <1>16, <2>1, <2>2
<1>17. SymbolsInv'
  <2>1. i' <= Len(obj.syms) + 1
    BY <1>1, <1>2
  <2> QED
    BY <1>1, <1>5, <1>6, <1>7, <1>12, <1>13, <1>14, <1>15, <1>16, <2>1 DEF SymbolsInv, Heading
<1> QED
  BY <1>1, <1>17, SymbolStep DEF WriteSymbol

LEMMA SkipsSymbol ==
  ASSUME FileInv, SkipSymbol
  PROVE  FileInv'
<1>1. /\ obj \in Object(Names) /\ i \in Nat \ {0} /\ pc' = pc /\ i' = i + 1 /\ pc \in {"locals", "globals"}
      /\ UNCHANGED <<obj, slot, symtab, strtab, firstGlobal>>
  BY DEF FileInv, FileTyped, SkipSymbol, AtSymbol, objVars, symVars
<1>2. DOMAIN obj.syms = 1..Len(obj.syms) /\ Len(obj.syms) \in Nat /\ i \in DOMAIN obj.syms
  BY <1>1, ObjectFacts, DiskSymbolWritten DEF SkipSymbol
<1>3. obj.syms[i].bind \in Binds /\ obj.syms[i].bind \notin Wanted
  BY <1>1, <1>2, ObjectFacts, SymbolFacts DEF SkipSymbol
<1>4. (pc = "locals" => obj.syms[i].bind \notin Locals) /\ (pc = "globals" => obj.syms[i].bind \in Locals)
  BY <1>1, <1>3 DEF Wanted, Binds
<1>5. \A j \in DOMAIN obj.syms : SymbolDone(j)' <=> SymbolDone(j)
  BY <1>1, <1>2, <1>4 DEF SymbolDone
<1>6. SymbolsInv'
  <2>1. i' <= Len(obj.syms) + 1
    BY <1>1, <1>2
  <2> QED
    BY <1>1, <1>5, <2>1 DEF FileInv, SymbolsInv, Heading
<1> QED
  BY <1>1, <1>6, SymbolStep DEF SkipSymbol

LEMMA StartsSecondPass ==
  ASSUME FileInv, SecondPass
  PROVE  FileInv'
<1>1. /\ obj \in Object(Names) /\ i \in Nat \ {0} /\ pc = "locals" /\ pc' = "globals" /\ i' = 1 /\ i > Len(obj.syms)
      /\ UNCHANGED <<obj, slot, symtab, strtab>> /\ firstGlobal' = Len(symtab) + 1
  BY DEF FileInv, FileTyped, SecondPass, NextSlot, objVars
<1>2. DOMAIN obj.syms = 1..Len(obj.syms) /\ Len(obj.syms) \in Nat
  BY <1>1, ObjectFacts
<1>3. \A j \in DOMAIN obj.syms : SymbolDone(j)' <=> SymbolDone(j)
  BY <1>1, <1>2 DEF SymbolDone
<1>4. IsList(symtab) /\ slot \in [DOMAIN obj.syms -> 0..Len(symtab)]
      /\ \A j \in DOMAIN obj.syms : slot[j] # 0 <=> SymbolDone(j)
  BY <1>1 DEF FileInv, SymbolsInv
<1>5. Len(symtab) \in Nat
  BY <1>4, ListProperties
<1>6. \A j \in DOMAIN obj.syms : slot[j] # 0 => (slot[j] < Len(symtab) + 1 <=> obj.syms[j].bind \in Locals)
  BY <1>1, <1>4, <1>5 DEF SymbolDone
<1>7. SymbolsInv'
  BY <1>1, <1>2, <1>3, <1>5, <1>6 DEF FileInv, SymbolsInv, Heading
<1> QED
  BY <1>1, <1>7, SymbolStep DEF SecondPass

(* Each of n once onto each of m: there are as many. *)
LEMMA AsMany ==
  ASSUME NEW n \in Nat, NEW m \in Nat, NEW f \in [1..n -> 1..m],
         \A a, b \in 1..n : f[a] = f[b] => a = b,
         \A s \in 1..m : \E j \in 1..n : f[j] = s
  PROVE  n = m
<1>1. f \in Bijection(1..n, 1..m)
  BY DEF Bijection, Injection, Surjection, IsInjective
<1>2. ExistsBijection(1..n, 1..m)
  BY <1>1 DEF ExistsBijection
<1>3. IsFiniteSet(1..n) /\ Cardinality(1..n) = n /\ Cardinality(1..m) = m
  BY FS_Interval
<1>4. Cardinality(1..m) = Cardinality(1..n)
  BY <1>2, <1>3, FS_Bijection, Zenon
<1> QED
  BY <1>3, <1>4

LEMMA WritesSymbols ==
  ASSUME FileInv, SymbolsWritten
  PROVE  FileInv'
<1> USE DEF objVars, symVars, fileVars, tabVars, readVars
<1>1. /\ obj \in Object(Names) /\ i \in Nat \ {0} /\ pc = "globals" /\ pc' = "headers" /\ i' = 1 /\ i > Len(obj.syms)
      /\ UNCHANGED <<obj, slot, symtab, strtab, firstGlobal, shdrs, bodies, shstr>>
  BY DEF FileInv, FileTyped, SymbolsWritten
<1>2. /\ DOMAIN obj.syms = 1..Len(obj.syms) /\ Len(obj.syms) \in Nat
      /\ Len(obj.secs) \in Nat
      /\ \A j \in DOMAIN obj.syms : obj.syms[j].sec \in 0..Len(obj.secs)
  BY <1>1, ObjectFacts
<1>3. /\ IsList(symtab) /\ IsList(strtab) /\ Len(strtab) = 1 + 2 * Len(symtab) /\ strtab[1] = Nul
      /\ slot \in [DOMAIN obj.syms -> 0..Len(symtab)]
      /\ \A j \in DOMAIN obj.syms : slot[j] # 0 <=> SymbolDone(j)
      /\ \A j \in DOMAIN obj.syms : slot[j] # 0 =>
            /\ symtab[slot[j]] = DiskSymbol(obj.syms[j], slot[j], obj.syms[j].sec)
            /\ strtab[2 * slot[j]] = obj.syms[j].name /\ strtab[2 * slot[j] + 1] = Nul
      /\ \A s \in DOMAIN symtab : \E j \in DOMAIN obj.syms : slot[j] = s
      /\ \A a, b \in DOMAIN obj.syms : slot[a] # 0 /\ slot[b] # 0 =>
            /\ slot[a] = slot[b] => a = b
            /\ a < b /\ (obj.syms[a].bind \in Locals <=> obj.syms[b].bind \in Locals) => slot[a] < slot[b]
      /\ firstGlobal \in 1..(Len(symtab) + 1)
      /\ \A j \in DOMAIN obj.syms : slot[j] # 0 => (slot[j] < firstGlobal <=> obj.syms[j].bind \in Locals)
  BY <1>1 DEF FileInv, SymbolsInv
<1>4. Len(symtab) \in Nat /\ DOMAIN symtab = 1..Len(symtab)
  BY <1>3, ListProperties
<1>5. \A j \in DOMAIN obj.syms : SymbolDone(j)
  BY <1>1, <1>2 DEF SymbolDone
<1>6. \A j \in DOMAIN obj.syms : slot[j] # 0 /\ slot[j] \in 1..Len(symtab)
  BY <1>3, <1>4, <1>5
<1>7. slot \in [1..Len(obj.syms) -> 1..Len(symtab)]
  BY <1>2, <1>3, <1>6
<1>8. Len(symtab) = Len(obj.syms)
  <2>1. \A a, b \in 1..Len(obj.syms) : slot[a] = slot[b] => a = b
    BY <1>2, <1>3, <1>6
  <2>2. \A s \in 1..Len(symtab) : \E j \in 1..Len(obj.syms) : slot[j] = s
    BY <1>2, <1>3, <1>4
  <2>3. Len(obj.syms) \in Nat /\ Len(symtab) \in Nat
    BY <1>2, <1>4
  <2> QED
    BY <1>7, <2>1, <2>2, <2>3, AsMany, Zenon
<1>9. Slotted(obj.syms, slot, firstGlobal)
  <2>1. Ordered(obj.syms, slot)
    BY <1>3, <1>6 DEF Ordered
  <2>2. \A s \in 1..Len(obj.syms) : \E j \in DOMAIN obj.syms : slot[j] = s
    BY <1>3, <1>4, <1>8
  <2>3. slot \in [DOMAIN obj.syms -> 1..Len(obj.syms)]
    BY <1>2, <1>7, <1>8
  <2>4. /\ firstGlobal \in 1..(Len(obj.syms) + 1)
        /\ \A j \in DOMAIN obj.syms : slot[j] < firstGlobal <=> obj.syms[j].bind \in Locals
    BY <1>3, <1>6, <1>8
  <2> QED
    BY <2>1, <2>2, <2>3, <2>4 DEF Slotted
<1>10. TableOf(obj.syms, slot, Identity(Len(obj.secs)), symtab)
  <2>1. \A j \in DOMAIN obj.syms : Image(Identity(Len(obj.secs)), obj.syms[j].sec) = obj.syms[j].sec
    BY <1>2 DEF Image, Identity
  <2> QED
    BY <1>3, <1>6, <1>8, <2>1 DEF TableOf
<1>11. StringsOf(obj.syms, slot, strtab)
  BY <1>3, <1>6, <1>8 DEF StringsOf
<1>12. SymbolsInv'
  BY <1>1, <1>9, <1>10, <1>11 DEF SymbolsInv, Heading
<1>13. FileTyped'
  BY <1>1 DEF SymbolsWritten, FileInv, FileTyped, Ordering, Heading
<1>14. TablesInv'
  <2>1. shdrs = << >> /\ bodies = << >> /\ shstr = <<Nul>>
    BY <1>1 DEF FileInv, TablesInv
  <2>2. /\ IsList(shdrs) /\ IsList(bodies) /\ Len(shdrs) = 0 /\ Len(bodies) = 0
        /\ IsList(shstr) /\ Len(shstr) = 1 /\ shstr[1] = Nul
    BY <2>1, EmptyIsList, OneStringIsList
  <2>3. OwnHeaders(obj, slot, firstGlobal, shdrs, bodies, 0)
    BY <2>2 DEF OwnHeaders
  <2>4. NamesOf(obj, shstr, 0)
    BY <2>2 DEF NamesOf
  <2> QED
    BY <1>1, <1>2, <2>2, <2>3, <2>4 DEF TablesInv, Heading, Ordering
<1>15. PlacesInv'
  BY <1>1 DEF SymbolsWritten, FileInv, PlacesInv, Ordering, Heading, Placed, Reading
<1>16. ReadInv'
  BY <1>1 DEF ReadInv, Reading
<1>17. EarlierInv'
  BY <1>1 DEF SymbolsWritten, FileInv, EarlierInv
<1> QED
  BY <1>12, <1>13, <1>14, <1>15, <1>16, <1>17 DEF FileInv

-----------------------------------------------------------------------------
(* The section headers.                                                    *)

LEMMA DiskSizes ==
  ASSUME NEW body, Len(body) \in Nat
  PROVE  /\ DiskSize("SYMTAB", body) = 24 * (Len(body) + 1)
         /\ DiskSize("RELA", body) = 24 * Len(body)
         /\ DiskSize("PROGBITS", body) = Len(body)
         /\ DiskSize("STRTAB", body) = Len(body)
         /\ DiskSize("NOBITS", body) = Len(body)
BY DEF DiskSize, SymSize, RelaSize

LEMMA DiskSizeIsNat ==
  ASSUME NEW type, NEW body, Len(body) \in Nat
  PROVE  DiskSize(type, body) \in Nat
<1>1. CASE type = "SYMTAB"
  BY <1>1, DiskSizes
<1>2. CASE type = "RELA"
  BY <1>2, DiskSizes
<1>3. CASE type # "SYMTAB" /\ type # "RELA"
  BY <1>3 DEF DiskSize
<1> QED
  BY <1>1, <1>2, <1>3

(* The four kinds of headers. *)
LEMMA SectionKind ==
  ASSUME NEW o, NEW sl, NEW fg, NEW k \in 1..Len(o.secs), NEW h \in HeaderType, Len(o.secs) \in Nat,
         h.name = 2 * k - 1, h.size = DiskSize("PROGBITS", o.secs[k].data),
         HeaderSays(h, "PROGBITS", o.secs[k].alloc, o.secs[k].align, 0, 0)
  PROVE  OwnHeader(o, sl, fg, k, h, o.secs[k].data)
<1>1. ~(k = Len(o.secs) + 1) /\ ~(k = Len(o.secs) + 2) /\ ~(k > Len(o.secs) + 2)
  OBVIOUS
<1>2. h.size = DiskSize(h.type, o.secs[k].data)
  BY DEF HeaderSays
<1> HIDE DEF HeaderType
<1> QED
  BY <1>1, <1>2 DEF OwnHeader

LEMMA SymtabKind ==
  ASSUME NEW o, NEW sl, NEW fg, NEW k, NEW h \in HeaderType, NEW body, Len(o.secs) \in Nat,
         k = Len(o.secs) + 1, h.name = 2 * k - 1, h.size = DiskSize("SYMTAB", body),
         HeaderSays(h, "SYMTAB", FALSE, 8, Len(o.secs) + 2, fg),
         TableOf(o.syms, sl, Identity(Len(o.secs)), body)
  PROVE  OwnHeader(o, sl, fg, k, h, body)
<1>1. ~(k <= Len(o.secs)) /\ ~(k = Len(o.secs) + 2) /\ ~(k > Len(o.secs) + 2)
  OBVIOUS
<1>2. h.size = DiskSize(h.type, body)
  BY DEF HeaderSays
<1> QED
  BY <1>1, <1>2 DEF OwnHeader

LEMMA StrtabKind ==
  ASSUME NEW o, NEW sl, NEW fg, NEW k, NEW h \in HeaderType, NEW body, Len(o.secs) \in Nat,
         k = Len(o.secs) + 2, h.name = 2 * k - 1, h.size = DiskSize("STRTAB", body),
         HeaderSays(h, "STRTAB", FALSE, 1, 0, 0), StringsOf(o.syms, sl, body)
  PROVE  OwnHeader(o, sl, fg, k, h, body)
<1>1. ~(k <= Len(o.secs)) /\ ~(k = Len(o.secs) + 1) /\ ~(k > Len(o.secs) + 2)
  OBVIOUS
<1>2. h.size = DiskSize(h.type, body)
  BY DEF HeaderSays
<1> QED
  BY <1>1, <1>2 DEF OwnHeader

LEMMA RelaKind ==
  ASSUME NEW o, NEW sl, NEW fg, NEW k \in Nat, NEW h \in HeaderType, NEW d \in 1..Len(o.secs), Len(o.secs) \in Nat,
         k > Len(o.secs) + 2, h.name = 2 * k - 1, h.size = DiskSize("RELA", RelasOf(o.secs[d].relas, sl)),
         HeaderSays(h, "RELA", FALSE, 8, Len(o.secs) + 1, d), o.secs[d].relas # << >>
  PROVE  OwnHeader(o, sl, fg, k, h, RelasOf(o.secs[d].relas, sl))
<1>1. ~(k <= Len(o.secs)) /\ ~(k = Len(o.secs) + 1) /\ ~(k = Len(o.secs) + 2)
  OBVIOUS
<1>2. h.size = DiskSize(h.type, RelasOf(o.secs[d].relas, sl)) /\ h.info = d
      /\ HeaderSays(h, "RELA", FALSE, 8, Len(o.secs) + 1, h.info)
  BY DEF HeaderSays
<1> QED
  BY <1>1, <1>2 DEF OwnHeader

(* h and b come next, and names2, hs2 and bs2 have them. *)
NextHeader(o, sl, fg, hs, bs, names, h, b, hs2, bs2, names2) ==
  /\ OwnHeaders(o, sl, fg, hs, bs, Len(hs)) /\ NamesOf(o, names, Len(hs)) /\ Len(names) = 1 + 2 * Len(hs)
  /\ OwnHeader(o, sl, fg, Len(hs) + 1, h, b)
  /\ \A k \in 1..Len(hs) : Len(o.secs) + 2 < k => hs[k].info < h.info
  /\ Extended(hs, h, hs2) /\ Extended(bs, b, bs2) /\ StringAdded(names, HeaderName(o, Len(hs) + 1), names2)

LEMMA HeaderAdded ==
  ASSUME NEW o, NEW sl, NEW fg, NEW hs, NEW bs, NEW names, NEW h, NEW b, NEW hs2, NEW bs2, NEW names2,
         NextHeader(o, sl, fg, hs, bs, names, h, b, hs2, bs2, names2)
  PROVE  /\ OwnHeaders(o, sl, fg, hs2, bs2, Len(hs2))
         /\ NamesOf(o, names2, Len(hs2)) /\ Len(names2) = 1 + 2 * Len(hs2)
<1> USE DEF NextHeader
<1> DEFINE m == Len(hs)
<1>1. /\ IsList(hs2) /\ m \in Nat /\ Len(hs2) = m + 1 /\ hs2[m + 1] = h /\ \A j \in 1..m : hs2[j] = hs[j]
  BY DEF Extended
<1>2. /\ IsList(bs2) /\ Len(bs2) = m + 1 /\ bs2[m + 1] = b /\ \A j \in 1..m : bs2[j] = bs[j]
  BY DEF Extended, OwnHeaders
<1>3. /\ IsList(names2) /\ Len(names2) = 1 + 2 * m + 2
      /\ names2[2 * m + 2] = HeaderName(o, m + 1) /\ names2[2 * m + 3] = Nul
      /\ \A j \in 1..(1 + 2 * m) : names2[j] = names[j]
  <2>1. /\ IsList(names2) /\ Len(names2) = Len(names) + 2
        /\ names2[Len(names) + 1] = HeaderName(o, m + 1) /\ names2[Len(names) + 2] = Nul
        /\ \A j \in 1..Len(names) : names2[j] = names[j]
    BY Zenon DEF StringAdded
  <2>2. Len(names) = 1 + 2 * m /\ Len(names) + 1 = 2 * m + 2 /\ Len(names) + 2 = 2 * m + 3
        /\ Len(names) + 2 = 1 + 2 * m + 2
    BY <1>1
  <2> HIDE DEF m
  <2> QED
    BY <2>1, <2>2, Zenon
<1>4. OwnHeaders(o, sl, fg, hs2, bs2, m + 1)
  <2>1. ASSUME NEW k \in 1..(m + 1)
        PROVE  OwnHeader(o, sl, fg, k, hs2[k], bs2[k])
    <3>1. CASE k = m + 1
      BY <1>1, <1>2, <3>1, Zenon
    <3>2. CASE k # m + 1
      <4>1. k \in 1..m
        BY <1>1, <3>2
      <4>2. OwnHeader(o, sl, fg, k, hs[k], bs[k])
        BY <4>1 DEF OwnHeaders
      <4>3. hs2[k] = hs[k] /\ bs2[k] = bs[k]
        BY <1>1, <1>2, <4>1
      <4> QED
        BY <4>2, <4>3
    <3> QED
      BY <3>1, <3>2
  <2>2. ASSUME NEW k \in 1..(m + 1), NEW l \in 1..(m + 1), Len(o.secs) + 2 < k, k < l
        PROVE  hs2[k].info < hs2[l].info
    <3>1. k \in 1..m /\ hs2[k] = hs[k]
      BY <1>1, <2>2
    <3>2. CASE l = m + 1
      BY <1>1, <2>2, <3>1, <3>2
    <3>3. CASE l # m + 1
      <4>1. l \in 1..m /\ hs2[l] = hs[l]
        BY <1>1, <3>3
      <4> QED
        BY <2>2, <3>1, <4>1 DEF OwnHeaders
    <3> QED
      BY <3>2, <3>3
  <2> HIDE DEF m
  <2>3. Len(hs2) = m + 1 /\ Len(bs2) = m + 1 /\ m + 1 \in 0..(m + 1)
    BY <1>1, <1>2
  <2> QED
    BY <1>1, <1>2, <2>1, <2>2, <2>3, Zenon DEF OwnHeaders
<1>5. NamesOf(o, names2, m + 1)
  <2>1. names2[1] = Nul
    BY <1>1, <1>3 DEF NamesOf
  <2>2. ASSUME NEW k \in 1..(m + 1)
        PROVE  names2[2 * k] = HeaderName(o, k) /\ names2[2 * k + 1] = Nul
    <3>1. CASE k = m + 1
      <4>1. 2 * k = 2 * m + 2 /\ 2 * k + 1 = 2 * m + 3
        BY <1>1, <3>1
      <4> QED
        BY <1>3, <3>1, <4>1, Zenon
    <3>2. CASE k # m + 1
      <4>1. k \in 1..m /\ 2 * k \in 1..(1 + 2 * m) /\ 2 * k + 1 \in 1..(1 + 2 * m)
        BY <1>1, <3>2
      <4>2. names[2 * k] = HeaderName(o, k) /\ names[2 * k + 1] = Nul
        BY <4>1 DEF NamesOf
      <4> QED
        BY <1>3, <4>1, <4>2
    <3> QED
      BY <3>1, <3>2
  <2>3. Len(names2) >= 1 + 2 * (m + 1)
    BY <1>1, <1>3
  <2> HIDE DEF m
  <2> QED
    BY <1>3, <2>1, <2>2, <2>3 DEF NamesOf
<1>6. Len(names2) = 1 + 2 * (m + 1)
  BY <1>1, <1>3
<1> HIDE DEF m
<1> QED
  BY <1>1, <1>4, <1>5, <1>6, Zenon

(* A step that keeps the symbols and adds to the headers or does not. *)
LEMMA HeaderStep ==
  ASSUME FileInv, pc \in Heading, pc' \in Heading, i' \in Nat \ {0},
         UNCHANGED <<objVars, symVars, pos>>, TablesInv'
  PROVE  FileInv'
<1> USE DEF objVars, symVars
<1>1. FileTyped'
  BY DEF FileInv, FileTyped, Ordering
<1>2. SymbolsInv'
  BY DEF FileInv, SymbolsInv, Heading
<1>3. PlacesInv'
  BY DEF FileInv, PlacesInv, Ordering, Heading, Placed, Reading
<1>4. ReadInv'
  BY DEF ReadInv, Heading, Reading
<1>5. EarlierInv'
  BY DEF FileInv, EarlierInv
<1> QED
  BY <1>1, <1>2, <1>3, <1>4, <1>5 DEF FileInv

(* A header comes next, with its name and its body. *)
HeaderComes(h, body) ==
  /\ OwnHeader(obj, slot, firstGlobal, Len(shdrs) + 1, h, body)
  /\ \A k \in 1..Len(shdrs) : Len(obj.secs) + 2 < k => shdrs[k].info < h.info
  /\ shdrs' = Append(shdrs, h) /\ bodies' = Append(bodies, body)
  /\ shstr' = WriteStr(shstr, HeaderName(obj, Len(shdrs) + 1))
  /\ UNCHANGED <<obj, slot, firstGlobal>>

LEMMA AddsHeader ==
  ASSUME FileInv, pc \in Heading, NEW h, NEW body, HeaderComes(h, body)
  PROVE  /\ OwnHeaders(obj, slot, firstGlobal, shdrs, bodies, Len(shdrs))'
         /\ NamesOf(obj, shstr, Len(shdrs))' /\ Len(shstr') = 1 + 2 * Len(shdrs')
         /\ Extended(shdrs, h, shdrs')
<1>1. /\ OwnHeaders(obj, slot, firstGlobal, shdrs, bodies, Len(shdrs))
      /\ NamesOf(obj, shstr, Len(shdrs)) /\ Len(shstr) = 1 + 2 * Len(shdrs)
  BY DEF FileInv, TablesInv
<1>2. IsList(shdrs) /\ IsList(bodies) /\ IsList(shstr)
  BY <1>1 DEF OwnHeaders, NamesOf
<1>3. /\ Extended(shdrs, h, shdrs') /\ Extended(bodies, body, bodies')
      /\ StringAdded(shstr, HeaderName(obj, Len(shdrs) + 1), shstr')
  <2>1. Extended(shdrs, h, shdrs')
    BY <1>2, AppendExtends DEF HeaderComes
  <2>2. Extended(bodies, body, bodies')
    BY <1>2, AppendExtends DEF HeaderComes
  <2>3. StringAdded(shstr, HeaderName(obj, Len(shdrs) + 1), shstr')
    BY <1>2, StringWritten DEF HeaderComes
  <2> QED
    BY <2>1, <2>2, <2>3
<1>4. NextHeader(obj, slot, firstGlobal, shdrs, bodies, shstr, h, body, shdrs', bodies', shstr')
  BY <1>1, <1>3 DEF HeaderComes, NextHeader
<1>5. /\ OwnHeaders(obj, slot, firstGlobal, shdrs', bodies', Len(shdrs'))
      /\ NamesOf(obj, shstr', Len(shdrs')) /\ Len(shstr') = 1 + 2 * Len(shdrs')
  BY <1>4, HeaderAdded
<1> QED
  BY <1>3, <1>5 DEF HeaderComes

(* What a header is made of. *)
HeaderParts(type, alloc, align, link, info, body) ==
  /\ type \in Kinds /\ alloc \in BOOLEAN /\ align \in Nat /\ link \in Nat /\ info \in Nat
  /\ Len(body) \in Nat

HeaderFits(h, k, type, alloc, align, link, info, body) ==
  /\ h \in HeaderType /\ h.name = 2 * k - 1 /\ h.size = DiskSize(type, body)
  /\ HeaderSays(h, type, alloc, align, link, info)

LEMMA HeaderMade ==
  ASSUME FileInv, pc \in Heading,
         NEW type, NEW alloc, NEW align, NEW link, NEW info, NEW body,
         HeaderParts(type, alloc, align, link, info, body)
  PROVE  HeaderFits(Header(type, Len(shstr), alloc, align, link, info, body), Len(shdrs) + 1,
                    type, alloc, align, link, info, body)
<1>1. IsList(shdrs) /\ Len(shstr) = 1 + 2 * Len(shdrs)
  BY DEF FileInv, TablesInv, OwnHeaders
<1>2. Len(shdrs) \in Nat
  BY <1>1, ListProperties
<1>3. DiskSize(type, body) \in Nat
  BY DiskSizeIsNat DEF HeaderParts
<1>4. Len(shstr) = 2 * (Len(shdrs) + 1) - 1 /\ Len(shstr) \in Nat
  BY <1>1, <1>2
<1> QED
  BY <1>3, <1>4 DEF Header, HeaderType, HeaderSays, HeaderParts, HeaderFits

LEMMA AddsSectionHeader ==
  ASSUME FileInv, SectionHeader
  PROVE  FileInv'
<1> USE DEF objVars, symVars
<1> DEFINE sec == obj.secs[i]
           n == Len(obj.secs)
           h == Header("PROGBITS", Len(shstr), sec.alloc, sec.align, 0, 0, sec.data)
<1>1. /\ obj \in Object(Names) /\ i \in Nat \ {0} /\ pc = "headers" /\ pc' = pc /\ i' = i + 1 /\ i <= n
      /\ UNCHANGED <<objVars, symVars, pos>> /\ Len(shdrs) = i - 1
  BY DEF SectionHeader, FileInv, FileTyped, TablesInv
<1>2. n \in Nat /\ i \in DOMAIN obj.secs /\ i \in 1..n /\ sec \in Section(Names)
  BY <1>1, ObjectFacts
<1>3. sec.alloc \in BOOLEAN /\ sec.align \in Nat /\ Len(sec.data) \in Nat
  BY <1>2, SectionFacts
<1>4. Len(shdrs) + 1 = i /\ HeaderName(obj, i) = sec.name
  BY <1>1, <1>2 DEF HeaderName
<1>5. shdrs' = Append(shdrs, h) /\ bodies' = Append(bodies, sec.data) /\ shstr' = WriteStr(shstr, sec.name)
  BY DEF SectionHeader, AddHeader
<1>6. /\ h \in HeaderType /\ h.name = 2 * i - 1 /\ h.size = DiskSize("PROGBITS", sec.data)
      /\ HeaderSays(h, "PROGBITS", sec.alloc, sec.align, 0, 0) /\ h.info = 0
  <2>1. pc \in Heading
    BY <1>1 DEF Heading
  <2>2. HeaderParts("PROGBITS", sec.alloc, sec.align, 0, 0, sec.data)
    <3>1. "PROGBITS" \in Kinds /\ 0 \in Nat
      BY DEF Kinds
    <3> QED
      BY <1>3, <2>1, <3>1, Zenon DEF HeaderParts
  <2>3. HeaderFits(h, Len(shdrs) + 1, "PROGBITS", sec.alloc, sec.align, 0, 0, sec.data)
    BY <2>1, <2>2, HeaderMade
  <2> HIDE DEF h
  <2> QED
    BY <1>4, <2>3 DEF HeaderFits, HeaderSays
<1> HIDE DEF h
<1>7. OwnHeader(obj, slot, firstGlobal, i, h, sec.data)
  BY <1>2, <1>6, SectionKind
<1>8. HeaderComes(h, sec.data)
  <2>1. \A k \in 1..Len(shdrs) : ~(n + 2 < k)
    BY <1>1, <1>2
  <2> QED
    BY <1>1, <1>4, <1>5, <1>7, <2>1 DEF HeaderComes
<1>9. /\ OwnHeaders(obj, slot, firstGlobal, shdrs, bodies, Len(shdrs))'
      /\ NamesOf(obj, shstr, Len(shdrs))' /\ Len(shstr') = 1 + 2 * Len(shdrs')
      /\ Len(shdrs') = Len(shdrs) + 1
  <2>1. pc \in Heading
    BY <1>1 DEF Heading
  <2> QED
    BY <1>8, <2>1, AddsHeader DEF Extended
<1>10. TablesInv'
  <2>1. Len(shdrs') = i' - 1 /\ i' <= n + 1
    BY <1>1, <1>2, <1>9
  <2> QED
    BY <1>1, <1>9, <2>1 DEF TablesInv, Ordering, Heading
<1> QED
  BY <1>1, <1>10, HeaderStep DEF Heading

LEMMA AddsSymtabHeader ==
  ASSUME FileInv, SymtabHead
  PROVE  FileInv'
<1> USE DEF objVars, symVars
<1> DEFINE n == Len(obj.secs)
           h == Header("SYMTAB", Len(shstr), FALSE, 8, n + 2, firstGlobal, symtab)
<1>1. /\ obj \in Object(Names) /\ i \in Nat \ {0} /\ pc = "headers" /\ pc' = "strings" /\ i' = i /\ i > n
      /\ UNCHANGED <<objVars, symVars, pos>> /\ Len(shdrs) = i - 1 /\ i <= n + 1
      /\ Slotted(obj.syms, slot, firstGlobal) /\ TableOf(obj.syms, slot, Identity(n), symtab)
  BY DEF SymtabHead, FileInv, FileTyped, TablesInv, SymbolsInv, Heading
<1>2. n \in Nat /\ Len(obj.syms) \in Nat
  BY <1>1, ObjectFacts
<1>3. firstGlobal \in Nat /\ Len(symtab) \in Nat
  BY <1>1, <1>2, ListProperties DEF Slotted, TableOf
<1>4. Len(shdrs) + 1 = n + 1 /\ Len(shdrs) = n /\ HeaderName(obj, n + 1) = "symtab"
  BY <1>1, <1>2 DEF HeaderName
<1>5. shdrs' = Append(shdrs, h) /\ bodies' = Append(bodies, symtab) /\ shstr' = WriteStr(shstr, "symtab")
  BY DEF SymtabHead, AddHeader, IdxStrtab
<1>6. /\ h \in HeaderType /\ h.name = 2 * (n + 1) - 1 /\ h.size = DiskSize("SYMTAB", symtab)
      /\ HeaderSays(h, "SYMTAB", FALSE, 8, n + 2, firstGlobal)
  <2>1. pc \in Heading /\ n + 2 \in Nat
    BY <1>1, <1>2 DEF Heading
  <2>2. HeaderParts("SYMTAB", FALSE, 8, n + 2, firstGlobal, symtab)
    <3>1. "SYMTAB" \in Kinds /\ FALSE \in BOOLEAN /\ 8 \in Nat
      BY DEF Kinds
    <3> QED
      BY <1>3, <2>1, <3>1, Zenon DEF HeaderParts
  <2>3. HeaderFits(h, Len(shdrs) + 1, "SYMTAB", FALSE, 8, n + 2, firstGlobal, symtab)
    BY <2>1, <2>2, HeaderMade
  <2> HIDE DEF h
  <2> QED
    BY <1>4, <2>3 DEF HeaderFits, HeaderSays
<1> HIDE DEF h
<1>7. OwnHeader(obj, slot, firstGlobal, n + 1, h, symtab)
  BY <1>1, <1>2, <1>6, SymtabKind
<1>8. HeaderComes(h, symtab)
  <2>1. \A k \in 1..Len(shdrs) : ~(n + 2 < k)
    BY <1>2, <1>4
  <2> QED
    BY <1>1, <1>4, <1>5, <1>7, <2>1 DEF HeaderComes
<1>9. /\ OwnHeaders(obj, slot, firstGlobal, shdrs, bodies, Len(shdrs))'
      /\ NamesOf(obj, shstr, Len(shdrs))' /\ Len(shstr') = 1 + 2 * Len(shdrs')
      /\ Len(shdrs') = Len(shdrs) + 1
  <2>1. pc \in Heading
    BY <1>1 DEF Heading
  <2> QED
    BY <1>8, <2>1, AddsHeader DEF Extended
<1>10. TablesInv'
  BY <1>1, <1>4, <1>9 DEF TablesInv, Ordering, Heading
<1> QED
  BY <1>1, <1>10, HeaderStep DEF Heading

LEMMA AddsStrtabHeader ==
  ASSUME FileInv, StrtabHead
  PROVE  FileInv'
<1> USE DEF objVars, symVars
<1> DEFINE n == Len(obj.secs)
           h == Header("STRTAB", Len(shstr), FALSE, 1, 0, 0, strtab)
<1>1. /\ obj \in Object(Names) /\ pc = "strings" /\ pc' = "targets" /\ i' = 1
      /\ UNCHANGED <<objVars, symVars, pos>> /\ Len(shdrs) = n + 1
      /\ StringsOf(obj.syms, slot, strtab)
  BY DEF StrtabHead, FileInv, FileTyped, TablesInv, SymbolsInv, Heading
<1>2. n \in Nat /\ DOMAIN obj.secs = 1..n
  BY <1>1, ObjectFacts
<1>3. Len(strtab) \in Nat
  BY <1>1, ListProperties DEF StringsOf
<1>4. Len(shdrs) + 1 = n + 2 /\ HeaderName(obj, n + 2) = "strtab"
  BY <1>1, <1>2 DEF HeaderName
<1>5. shdrs' = Append(shdrs, h) /\ bodies' = Append(bodies, strtab) /\ shstr' = WriteStr(shstr, "strtab")
  BY DEF StrtabHead, AddHeader
<1>6. /\ h \in HeaderType /\ h.name = 2 * (n + 2) - 1 /\ h.size = DiskSize("STRTAB", strtab)
      /\ HeaderSays(h, "STRTAB", FALSE, 1, 0, 0)
  <2>1. pc \in Heading
    BY <1>1 DEF Heading
  <2>2. HeaderParts("STRTAB", FALSE, 1, 0, 0, strtab)
    <3>1. "STRTAB" \in Kinds /\ FALSE \in BOOLEAN /\ 0 \in Nat /\ 1 \in Nat
      BY DEF Kinds
    <3> QED
      BY <1>3, <2>1, <3>1, Zenon DEF HeaderParts
  <2>3. HeaderFits(h, Len(shdrs) + 1, "STRTAB", FALSE, 1, 0, 0, strtab)
    BY <2>1, <2>2, HeaderMade
  <2> HIDE DEF h
  <2> QED
    BY <1>4, <2>3 DEF HeaderFits, HeaderSays
<1> HIDE DEF h
<1>7. OwnHeader(obj, slot, firstGlobal, n + 2, h, strtab)
  BY <1>1, <1>2, <1>6, StrtabKind
<1>8. HeaderComes(h, strtab)
  <2>1. \A k \in 1..Len(shdrs) : ~(n + 2 < k)
    BY <1>1, <1>2
  <2> QED
    BY <1>1, <1>4, <1>5, <1>7, <2>1 DEF HeaderComes
<1>9. /\ OwnHeaders(obj, slot, firstGlobal, shdrs, bodies, Len(shdrs))'
      /\ NamesOf(obj, shstr, Len(shdrs))' /\ Len(shstr') = 1 + 2 * Len(shdrs')
      /\ Len(shdrs') = Len(shdrs) + 1 /\ DOMAIN shdrs' = 1..Len(shdrs')
  <2>1. pc \in Heading
    BY <1>1 DEF Heading
  <2> QED
    BY <1>8, <2>1, AddsHeader DEF Extended
<1>10. TablesInv'
  <2>1. Len(shdrs') = n + 2
    BY <1>1, <1>2, <1>9
  <2>2. RelasAmong(obj, shdrs', Len(shdrs'), 1)
    BY <1>2 DEF RelasAmong
  <2>3. \A k \in DOMAIN shdrs' : ~(n + 2 < k)
    BY <1>2, <1>9, <2>1
  <2>4. 1 <= n + 1
    BY <1>2
  <2> QED
    BY <1>1, <1>2, <1>9, <2>1, <2>2, <2>3, <2>4 DEF TablesInv, Ordering, Heading
<1> QED
  BY <1>1, <1>10, HeaderStep DEF Heading

LEMMA RelasWritten ==
  ASSUME NEW sec
  PROVE  WriteRelas(sec) = RelasOf(sec.relas, slot)
<1>1. \A q \in DOMAIN sec.relas :
        (IF sec.relas[q].sym # 0 THEN slot[sec.relas[q].sym] ELSE 0) = Image(slot, sec.relas[q].sym)
  BY DEF Image
<1> QED
  BY <1>1 DEF WriteRelas, RelasOf

LEMMA RelasOfIsList ==
  ASSUME NEW relas, IsList(relas), NEW sl
  PROVE  IsList(RelasOf(relas, sl)) /\ Len(RelasOf(relas, sl)) = Len(relas)
<1>1. Len(relas) \in Nat /\ DOMAIN relas = 1..Len(relas)
  BY ListProperties
<1> DEFINE f == RelasOf(relas, sl)
<1>2. DOMAIN f = 1..Len(relas) /\ f = [q \in 1..Len(relas) |-> f[q]]
  BY <1>1 DEF RelasOf
<1> HIDE DEF f
<1>3. IsList(f) /\ Len(f) = Len(relas)
  BY <1>1, <1>2, FunctionIsList
<1> QED
  BY <1>3 DEF f

LEMMA AddsRelaHeader ==
  ASSUME FileInv, RelaHead
  PROVE  FileInv'
<1> USE DEF objVars, symVars
<1> DEFINE n == Len(obj.secs)
           sec == obj.secs[i]
           body == RelasOf(sec.relas, slot)
           h == Header("RELA", Len(shstr), FALSE, 8, n + 1, i, body)
<1>1. /\ obj \in Object(Names) /\ pc = "targets" /\ pc' = "targets" /\ i' = i + 1 /\ i <= n /\ i \in Nat \ {0}
      /\ UNCHANGED <<objVars, symVars, pos>> /\ Len(shdrs) >= n + 2 /\ IsList(shdrs)
      /\ RelasAmong(obj, shdrs, Len(shdrs), i) /\ sec.relas # << >>
      /\ \A k \in DOMAIN shdrs : Len(obj.secs) + 2 < k => shdrs[k].info < i
  BY DEF RelaHead, FileInv, FileTyped, TablesInv, OwnHeaders, Heading
<1>2. n \in Nat /\ DOMAIN obj.secs = 1..n /\ i \in 1..n /\ sec \in Section(Names)
      /\ Len(shdrs) \in Nat /\ DOMAIN shdrs = 1..Len(shdrs)
  BY <1>1, ObjectFacts, ListProperties
<1>3. Len(body) \in Nat
  BY <1>2, SectionFacts, RelasOfIsList
<1>4. Len(shdrs) + 1 > n + 2 /\ HeaderName(obj, Len(shdrs) + 1) = "rela"
  <2>1. Len(shdrs) + 1 > n + 2 /\ ~(Len(shdrs) + 1 <= n) /\ Len(shdrs) + 1 # n + 1 /\ Len(shdrs) + 1 # n + 2
    BY <1>1, <1>2
  <2> QED
    BY <2>1 DEF HeaderName
<1>5. shdrs' = Append(shdrs, h) /\ bodies' = Append(bodies, body) /\ shstr' = WriteStr(shstr, "rela")
  BY RelasWritten DEF RelaHead, AddHeader, IdxSymtab
<1>6. /\ h \in HeaderType /\ h.name = 2 * (Len(shdrs) + 1) - 1 /\ h.size = DiskSize("RELA", body)
      /\ HeaderSays(h, "RELA", FALSE, 8, n + 1, i)
  <2>1. pc \in Heading /\ n + 1 \in Nat /\ i \in Nat
    BY <1>1, <1>2 DEF Heading
  <2>2. HeaderParts("RELA", FALSE, 8, n + 1, i, body)
    <3>1. "RELA" \in Kinds /\ FALSE \in BOOLEAN /\ 8 \in Nat
      BY DEF Kinds
    <3> QED
      BY <1>3, <2>1, <3>1, Zenon DEF HeaderParts
  <2>3. HeaderFits(h, Len(shdrs) + 1, "RELA", FALSE, 8, n + 1, i, body)
    BY <2>1, <2>2, HeaderMade
  <2> HIDE DEF h
  <2> QED
    BY <2>3 DEF HeaderFits
<1> HIDE DEF h
<1>7. OwnHeader(obj, slot, firstGlobal, Len(shdrs) + 1, h, body)
  <2>1. Len(shdrs) + 1 \in Nat
    BY <1>2
  <2> QED
    BY <1>1, <1>2, <1>4, <1>6, <2>1, RelaKind
<1>8. HeaderComes(h, body)
  <2>1. h.info = i
    BY <1>6 DEF HeaderSays
  <2> QED
    BY <1>1, <1>2, <1>4, <1>5, <1>7, <2>1 DEF HeaderComes
<1>9. /\ OwnHeaders(obj, slot, firstGlobal, shdrs, bodies, Len(shdrs))'
      /\ NamesOf(obj, shstr, Len(shdrs))' /\ Len(shstr') = 1 + 2 * Len(shdrs')
      /\ Extended(shdrs, h, shdrs')
  <2>1. pc \in Heading
    BY <1>1 DEF Heading
  <2> QED
    BY <1>8, <2>1, AddsHeader
<1>10. TablesInv'
  <2>1. /\ Len(shdrs') = Len(shdrs) + 1 /\ DOMAIN shdrs' = 1..(Len(shdrs) + 1)
        /\ shdrs'[Len(shdrs) + 1] = h /\ \A k \in 1..Len(shdrs) : shdrs'[k] = shdrs[k]
    BY <1>9 DEF Extended
  <2>2. h.info = i
    BY <1>6 DEF HeaderSays
  <2>3. RelasAmong(obj, shdrs', Len(shdrs'), i')
    <3>1. SUFFICES ASSUME NEW e \in DOMAIN obj.secs, e < i + 1, obj.secs[e].relas # << >>
                   PROVE  \E k \in 1..Len(shdrs') : n + 2 < k /\ shdrs'[k].info = e
      BY <1>1 DEF RelasAmong
    <3>2. CASE e = i
      <4>1. Len(shdrs) + 1 \in 1..Len(shdrs')
        BY <1>2, <2>1
      <4> QED
        BY <1>4, <2>1, <2>2, <3>2, <4>1
    <3>3. CASE e # i
      <4>1. e < i
        BY <1>2, <3>1, <3>3
      <4>2. PICK k \in 1..Len(shdrs) : n + 2 < k /\ shdrs[k].info = e
        BY <1>1, <3>1, <4>1 DEF RelasAmong
      <4>3. k \in 1..Len(shdrs') /\ shdrs'[k] = shdrs[k]
        BY <1>2, <2>1, <4>2
      <4> QED
        BY <4>2, <4>3
    <3> QED
      BY <3>2, <3>3
  <2>4. ASSUME NEW k \in DOMAIN shdrs', n + 2 < k
        PROVE  shdrs'[k].info < i + 1
    <3>1. CASE k = Len(shdrs) + 1
      BY <1>2, <2>1, <2>2, <3>1
    <3>2. CASE k # Len(shdrs) + 1
      <4>1. k \in 1..Len(shdrs) /\ shdrs'[k] = shdrs[k]
        BY <1>2, <2>1, <3>2
      <4>2. shdrs[k].info < i /\ shdrs[k].info \in Nat
        <5>1. OwnHeader(obj, slot, firstGlobal, k, shdrs[k], bodies[k])
          BY <1>1, <4>1 DEF FileInv, TablesInv, Heading, OwnHeaders
        <5>2. shdrs[k].info \in Nat
          BY <5>1 DEF OwnHeader, HeaderType
        <5> QED
          BY <1>1, <1>2, <2>4, <4>1, <5>2
      <4> QED
        BY <1>2, <4>1, <4>2
    <3> QED
      BY <3>1, <3>2
  <2>5. i + 1 <= n + 1 /\ Len(shdrs') >= n + 2
    BY <1>1, <1>2, <2>1
  <2> QED
    BY <1>1, <1>9, <2>3, <2>4, <2>5 DEF TablesInv, Ordering, Heading
<1> QED
  <2>1. pc \in Heading /\ pc' \in Heading /\ i' \in Nat \ {0}
    BY <1>1 DEF Heading
  <2> QED
    BY <1>1, <1>10, <2>1, HeaderStep

LEMMA AddsNoRelaHeader ==
  ASSUME FileInv, NoRelaHead
  PROVE  FileInv'
<1> USE DEF objVars, symVars
<1> DEFINE n == Len(obj.secs)
<1>1. /\ obj \in Object(Names) /\ pc = "targets" /\ pc' = pc /\ i' = i + 1 /\ i <= n /\ i \in Nat \ {0}
      /\ UNCHANGED <<objVars, symVars, pos, shdrs, bodies, shstr>> /\ Len(shdrs) >= n + 2
      /\ OwnHeaders(obj, slot, firstGlobal, shdrs, bodies, Len(shdrs))
      /\ NamesOf(obj, shstr, Len(shdrs)) /\ Len(shstr) = 1 + 2 * Len(shdrs)
      /\ RelasAmong(obj, shdrs, Len(shdrs), i) /\ obj.secs[i].relas = << >>
      /\ \A k \in DOMAIN shdrs : Len(obj.secs) + 2 < k => shdrs[k].info < i
  BY DEF NoRelaHead, FileInv, FileTyped, TablesInv, Heading, fileVars, tabVars
<1>2. n \in Nat /\ DOMAIN obj.secs = 1..n /\ Len(shdrs) \in Nat /\ DOMAIN shdrs = 1..Len(shdrs)
  BY <1>1, ObjectFacts, ListProperties DEF OwnHeaders
<1>3. RelasAmong(obj, shdrs, Len(shdrs), i + 1)
  <2>1. \A e \in DOMAIN obj.secs : e < i + 1 /\ obj.secs[e].relas # << >> => e < i
    BY <1>1, <1>2
  <2> QED
    BY <1>1, <2>1 DEF RelasAmong
<1>4. ASSUME NEW k \in DOMAIN shdrs, n + 2 < k
      PROVE  shdrs[k].info < i + 1
  <2>1. OwnHeader(obj, slot, firstGlobal, k, shdrs[k], bodies[k])
    BY <1>1, <1>2 DEF OwnHeaders
  <2>2. shdrs[k].info \in Nat
    BY <2>1 DEF OwnHeader, HeaderType
  <2> QED
    BY <1>1, <1>4, <2>2
<1>5. i + 1 <= n + 1 /\ i + 1 \in Nat \ {0}
  BY <1>1, <1>2
<1>6. TablesInv'
  BY <1>1, <1>3, <1>4, <1>5 DEF TablesInv, Ordering, Heading
<1> QED
  <2>1. pc \in Heading /\ pc' \in Heading /\ i' \in Nat \ {0}
    BY <1>1 DEF Heading
  <2> QED
    BY <1>1, <1>6, <2>1, HeaderStep

(* The names come last; the headers are then all there. *)
LEMMA AddsNamesHeader ==
  ASSUME FileInv, NamesHead
  PROVE  FileInv'
<1> USE DEF objVars, symVars
<1> DEFINE n == Len(obj.secs)
           m == Len(shdrs)
           body == WriteStr(shstr, "shstrtab")
           h == Header("STRTAB", Len(shstr), FALSE, 1, 0, 0, body)
<1>1. /\ obj \in Object(Names) /\ pc = "targets" /\ pc' = "layout" /\ i' = 1 /\ i > n /\ i <= n + 1 /\ i \in Nat \ {0}
      /\ UNCHANGED <<objVars, symVars, pos>> /\ m >= n + 2
      /\ OwnHeaders(obj, slot, firstGlobal, shdrs, bodies, m)
      /\ NamesOf(obj, shstr, m) /\ Len(shstr) = 1 + 2 * m
      /\ RelasAmong(obj, shdrs, m, i)
      /\ shstrndx' = m + 1
  BY DEF NamesHead, FileInv, FileTyped, TablesInv, Heading
<1>2. /\ n \in Nat /\ DOMAIN obj.secs = 1..n /\ m \in Nat /\ DOMAIN shdrs = 1..m /\ i = n + 1
      /\ IsList(shdrs) /\ IsList(bodies) /\ IsList(shstr) /\ Len(bodies) = m
  BY <1>1, ObjectFacts, ListProperties DEF OwnHeaders, NamesOf
<1>3. StringAdded(shstr, "shstrtab", body)
  BY <1>2, StringWritten
<1>4. Extended(shdrs, h, shdrs') /\ Extended(bodies, body, bodies')
  <2>1. shdrs' = Append(shdrs, h) /\ bodies' = Append(bodies, body)
    BY DEF NamesHead, AddHeader
  <2>2. Extended(shdrs, h, shdrs')
    BY <1>2, <2>1, AppendExtends
  <2>3. Extended(bodies, body, bodies')
    BY <1>2, <2>1, AppendExtends
  <2> QED
    BY <2>2, <2>3
<1>5. Len(body) = 1 + 2 * (m + 1) /\ IsList(body)
  BY <1>1, <1>2, <1>3 DEF StringAdded
<1>6. /\ h \in HeaderType /\ h.name = 2 * (m + 1) - 1 /\ h.size = DiskSize("STRTAB", body)
      /\ HeaderSays(h, "STRTAB", FALSE, 1, 0, 0)
  <2>1. pc \in Heading
    BY <1>1 DEF Heading
  <2>2. HeaderParts("STRTAB", FALSE, 1, 0, 0, body)
    <3>1. "STRTAB" \in Kinds /\ FALSE \in BOOLEAN /\ 0 \in Nat /\ 1 \in Nat
      BY DEF Kinds
    <3>2. Len(body) \in Nat
      BY <1>2, <1>5
    <3> QED
      BY <3>1, <3>2, Zenon DEF HeaderParts
  <2>3. HeaderFits(h, m + 1, "STRTAB", FALSE, 1, 0, 0, body)
    BY <2>1, <2>2, HeaderMade
  <2> HIDE DEF h, body, m
  <2> QED
    BY <2>3 DEF HeaderFits
<1> HIDE DEF h, body
<1>7. h.size = Len(body)
  <2>1. Len(body) \in Nat
    BY <1>2, <1>5
  <2> QED
    BY <1>6, <2>1, DiskSizes
<1>8. /\ Len(shdrs') = m + 1 /\ IsList(shdrs') /\ shdrs'[m + 1] = h /\ \A k \in 1..m : shdrs'[k] = shdrs[k]
      /\ Len(bodies') = m + 1 /\ IsList(bodies') /\ bodies'[m + 1] = body /\ \A k \in 1..m : bodies'[k] = bodies[k]
  <2>1. Len(shdrs') = m + 1 /\ IsList(shdrs') /\ shdrs'[m + 1] = h /\ \A k \in 1..m : shdrs'[k] = shdrs[k]
    BY <1>4 DEF Extended
  <2>2. Len(bodies') = m + 1 /\ IsList(bodies') /\ bodies'[m + 1] = body /\ \A k \in 1..m : bodies'[k] = bodies[k]
    <3>1. /\ Len(bodies') = Len(bodies) + 1 /\ IsList(bodies') /\ bodies'[Len(bodies) + 1] = body
          /\ \A k \in 1..Len(bodies) : bodies'[k] = bodies[k]
      BY <1>4 DEF Extended
    <3> QED
      BY <1>2, <3>1
  <2> QED
    BY <2>1, <2>2, Zenon
<1>9. OwnHeaders(obj, slot, firstGlobal, shdrs', bodies', m)
  <2>1. \A k \in 1..m : OwnHeader(obj, slot, firstGlobal, k, shdrs'[k], bodies'[k])
    BY <1>1, <1>8 DEF OwnHeaders
  <2>2. \A k, l \in 1..m : n + 2 < k /\ k < l => shdrs'[k].info < shdrs'[l].info
    BY <1>1, <1>8 DEF OwnHeaders
  <2>3. m \in 0..Len(shdrs') /\ Len(bodies') = Len(shdrs')
    BY <1>2, <1>8
  <2> HIDE DEF m
  <2> QED
    BY <1>8, <2>1, <2>2, <2>3 DEF OwnHeaders
<1>10. RelasAmong(obj, shdrs', m, n + 1)
  BY <1>1, <1>2, <1>8 DEF RelasAmong
<1>11. /\ NamesOf(obj, body, m) /\ body[2 * (m + 1)] = "shstrtab" /\ body[2 * (m + 1) + 1] = Nul
  <2>1. /\ Len(shstr) + 1 = 2 * (m + 1) /\ Len(shstr) + 2 = 2 * (m + 1) + 1
        /\ \A k \in 1..m : 2 * k \in 1..Len(shstr) /\ 2 * k + 1 \in 1..Len(shstr)
        /\ 1 \in 1..Len(shstr)
    BY <1>1, <1>2
  <2>2. body[2 * (m + 1)] = "shstrtab" /\ body[2 * (m + 1) + 1] = Nul
    BY <1>3, <2>1 DEF StringAdded
  <2>3. \A k \in 1..m : body[2 * k] = HeaderName(obj, k) /\ body[2 * k + 1] = Nul
    <3>1. \A k \in 1..m : body[2 * k] = shstr[2 * k] /\ body[2 * k + 1] = shstr[2 * k + 1]
      BY <1>3, <2>1 DEF StringAdded
    <3> QED
      BY <1>1, <3>1 DEF NamesOf
  <2>4. body[1] = Nul
    BY <1>1, <1>3, <2>1 DEF StringAdded, NamesOf
  <2>5. Len(body) >= 1 + 2 * m
    BY <1>2, <1>5
  <2> QED
    BY <1>5, <2>2, <2>3, <2>4, <2>5 DEF NamesOf
<1>12. OwnTables(obj, slot, firstGlobal, shdrs', bodies', shstrndx')
  <2>1. Len(shdrs') - 1 = m /\ Len(shdrs') >= n + 3 /\ shstrndx' = Len(shdrs')
    BY <1>1, <1>2, <1>8
  <2>2. shdrs'[Len(shdrs')] = h /\ bodies'[Len(shdrs')] = body
    BY <1>8
  <2>3. h.name = 2 * Len(shdrs') - 1 /\ Len(body) = 1 + 2 * Len(shdrs')
        /\ body[2 * Len(shdrs')] = "shstrtab" /\ body[2 * Len(shdrs') + 1] = Nul
    BY <1>5, <1>6, <1>8, <1>11
  <2> HIDE DEF m
  <2> QED
    BY <1>6, <1>7, <1>9, <1>10, <1>11, <2>1, <2>2, <2>3 DEF OwnTables
<1>13. FileTyped'
  BY <1>1 DEF FileInv, FileTyped, Ordering, Heading
<1>14. SymbolsInv'
  BY <1>1 DEF FileInv, SymbolsInv, Heading
<1>15. TablesInv'
  BY <1>1, <1>12 DEF TablesInv, Ordering, Heading
<1>16. PlacesInv'
  BY <1>1 DEF FileInv, PlacesInv, Ordering, Heading, Placed, Reading
<1>17. ReadInv'
  BY <1>1 DEF ReadInv, Heading, Reading
<1>18. EarlierInv'
  BY <1>1 DEF FileInv, EarlierInv
<1> QED
  BY <1>13, <1>14, <1>15, <1>16, <1>17, <1>18 DEF FileInv

LEMMA FileIsNotOpened ==
  ASSUME FileInv, OpenFails
  PROVE  FileInv'
<1> USE DEF OpenFails, objVars, symVars, tabVars, readVars
<1>1. FileTyped'
  BY DEF FileInv, FileTyped, Ordering
<1>2. SymbolsInv'
  BY DEF FileInv, SymbolsInv, Heading
<1>3. TablesInv'
  BY DEF FileInv, TablesInv, Heading, Ordering
<1>4. PlacesInv'
  BY DEF FileInv, PlacesInv, Ordering, Heading, Placed, Reading
<1>5. ReadInv'
  BY DEF ReadInv, Reading
<1>6. EarlierInv'
  BY DEF FileInv, EarlierInv
<1> QED
  BY <1>1, <1>2, <1>3, <1>4, <1>5, <1>6 DEF FileInv

-----------------------------------------------------------------------------
(* The order of the headers.                                               *)

(* The kind of header k, of n sections and m headers. *)
KindAt(n, m, k, h) ==
  /\ k <= n => h.type = "PROGBITS"
  /\ k = n + 1 => h.type = "SYMTAB"
  /\ k = n + 2 \/ k = m => h.type = "STRTAB"
  /\ n + 2 < k /\ k < m => h.type = "RELA"

LEMMA OwnKinds ==
  ASSUME NEW o \in Object(Names), NEW sl, NEW fg, NEW hs, NEW bs, NEW nx,
         OwnTables(o, sl, fg, hs, bs, nx), NEW k \in DOMAIN hs
  PROVE  /\ KindAt(Len(o.secs), Len(hs), k, hs[k])
         /\ hs[k] \in HeaderType /\ IsList(bs[k]) /\ hs[k].size = DiskSize(hs[k].type, bs[k])
         /\ hs[k].link \in DOMAIN hs \union {0}
<1> DEFINE n == Len(o.secs)
           m == Len(hs)
<1>1. n \in Nat /\ m \in Nat /\ m >= n + 3 /\ k \in 1..m /\ DOMAIN hs = 1..m /\ IsList(hs)
  <2>1. IsList(hs) /\ m >= n + 3
    BY DEF OwnTables, OwnHeaders
  <2> QED
    BY <2>1, ObjectFacts, ListProperties
<1>2. CASE k = m
  <2>1. hs[k] \in HeaderType /\ hs[k].size = Len(bs[k]) /\ HeaderSays(hs[k], "STRTAB", FALSE, 1, 0, 0) /\ IsList(bs[k])
    BY <1>2, Zenon DEF OwnTables, NamesOf
  <2>2. hs[k].type = "STRTAB" /\ hs[k].link = 0
    BY <2>1 DEF HeaderSays
  <2>3. Len(bs[k]) \in Nat
    BY <2>1, ListProperties
  <2>4. hs[k].size = DiskSize(hs[k].type, bs[k])
    <3>1. DiskSize("STRTAB", bs[k]) = Len(bs[k])
      BY <2>3, DiskSizes
    <3> QED
      BY <2>1, <2>2, <3>1, Zenon
  <2>5. ~(k <= n) /\ ~(k = n + 1) /\ ~(k < m)
    <3>1. \A a, b \in Nat : a >= b + 3 => ~(a <= b) /\ ~(a = b + 1) /\ ~(a < a)
      OBVIOUS
    <3> QED
      BY <1>1, <1>2, <3>1, Zenon
  <2>6. KindAt(n, m, k, hs[k])
    BY <2>2, <2>5, Zenon DEF KindAt
  <2> QED
    BY <2>1, <2>2, <2>4, <2>6, Zenon
<1>3. CASE k # m
  <2>1. k \in 1..(m - 1)
    BY <1>1, <1>3
  <2>2. OwnHeader(o, sl, fg, k, hs[k], bs[k])
    BY <2>1 DEF OwnTables, OwnHeaders
  <2>3. hs[k] \in HeaderType /\ hs[k].size = DiskSize(hs[k].type, bs[k])
    BY <2>2 DEF OwnHeader
  <2>4. CASE k <= n
    <3>1. HeaderSays(hs[k], "PROGBITS", o.secs[k].alloc, o.secs[k].align, 0, 0) /\ bs[k] = o.secs[k].data
      BY <2>2, <2>4 DEF OwnHeader
    <3>2. IsList(bs[k])
      <4>1. k \in DOMAIN o.secs
        BY <1>1, <2>4, ObjectFacts
      <4>2. o.secs[k] \in Section(Names)
        BY <4>1, ObjectFacts
      <4> QED
        BY <3>1, <4>2, SectionFacts
    <3>3. ~(k = n + 1) /\ ~(k = n + 2) /\ ~(n + 2 < k)
      BY <1>1, <2>4
    <3>4. hs[k].type = "PROGBITS" /\ hs[k].link = 0
      BY <3>1 DEF HeaderSays
    <3> QED
      BY <1>3, <2>3, <3>2, <3>3, <3>4 DEF KindAt
  <2>5. CASE k = n + 1
    <3>1. HeaderSays(hs[k], "SYMTAB", FALSE, 8, n + 2, fg) /\ IsList(bs[k])
      BY <2>2, <2>5 DEF OwnHeader, TableOf
    <3>2. ~(k <= n) /\ ~(k = n + 2) /\ ~(n + 2 < k)
      BY <1>1, <2>5
    <3>3. hs[k].type = "SYMTAB" /\ hs[k].link = n + 2 /\ n + 2 \in DOMAIN hs
      BY <1>1, <3>1 DEF HeaderSays
    <3> QED
      BY <1>3, <2>3, <3>1, <3>2, <3>3 DEF KindAt
  <2>6. CASE k = n + 2
    <3>1. HeaderSays(hs[k], "STRTAB", FALSE, 1, 0, 0) /\ IsList(bs[k])
      BY <2>2, <2>6 DEF OwnHeader, StringsOf
    <3>2. ~(k <= n) /\ ~(k = n + 1) /\ ~(n + 2 < k)
      BY <1>1, <2>6
    <3>3. hs[k].type = "STRTAB" /\ hs[k].link = 0
      BY <3>1 DEF HeaderSays
    <3> QED
      BY <2>3, <3>1, <3>2, <3>3 DEF KindAt
  <2>7. CASE k > n + 2
    <3>1. HeaderSays(hs[k], "RELA", FALSE, 8, n + 1, hs[k].info)
          /\ hs[k].info \in 1..n /\ bs[k] = RelasOf(o.secs[hs[k].info].relas, sl)
      BY <2>2, <2>7 DEF OwnHeader
    <3>2. ~(k <= n) /\ ~(k = n + 1) /\ ~(k = n + 2)
      BY <1>1, <2>7
    <3>3. hs[k].type = "RELA" /\ hs[k].link = n + 1 /\ n + 1 \in DOMAIN hs
      BY <1>1, <3>1 DEF HeaderSays
    <3>4. IsList(bs[k])
      <4>1. o.secs[hs[k].info] \in Section(Names)
        BY <3>1, ObjectFacts
      <4>2. IsList(o.secs[hs[k].info].relas)
        BY <4>1, SectionFacts
      <4> QED
        BY <3>1, <4>2, RelasOfIsList
    <3> QED
      BY <1>3, <2>3, <3>2, <3>3, <3>4 DEF KindAt
  <2> QED
    BY <1>1, <2>4, <2>5, <2>6, <2>7
<1> QED
  BY <1>2, <1>3

(* What a section's own header says. *)
LEMMA OwnSection ==
  ASSUME NEW o \in Object(Names), NEW sl, NEW fg, NEW hs, NEW bs, NEW nx,
         OwnTables(o, sl, fg, hs, bs, nx), NEW d \in DOMAIN o.secs
  PROVE  /\ d \in DOMAIN hs /\ hs[d].type = "PROGBITS"
         /\ NamedSection(o.secs[d], hs[d], bs[d], bs[nx])
<1> DEFINE n == Len(o.secs)
           m == Len(hs)
<1>1. /\ n \in Nat /\ m \in Nat /\ m >= n + 3 /\ DOMAIN hs = 1..m /\ d \in 1..n /\ nx = m
      /\ OwnHeaders(o, sl, fg, hs, bs, m - 1) /\ NamesOf(o, bs[m], m - 1)
  <2>1. IsList(hs) /\ m >= n + 3 /\ nx = m /\ OwnHeaders(o, sl, fg, hs, bs, m - 1) /\ NamesOf(o, bs[m], m - 1)
    BY DEF OwnTables, OwnHeaders
  <2> QED
    BY <2>1, ObjectFacts, ListProperties
<1>2. d \in 1..(m - 1) /\ d \in DOMAIN hs /\ d <= n /\ 2 * d - 1 + 1 = 2 * d
  BY <1>1
<1>3. OwnHeader(o, sl, fg, d, hs[d], bs[d])
  BY <1>1, <1>2 DEF OwnHeaders
<1>4. /\ hs[d].name = 2 * d - 1 /\ HeaderSays(hs[d], "PROGBITS", o.secs[d].alloc, o.secs[d].align, 0, 0)
      /\ bs[d] = o.secs[d].data /\ hs[d].size = DiskSize(hs[d].type, bs[d])
  BY <1>2, <1>3 DEF OwnHeader
<1>5. Len(o.secs[d].data) \in Nat
  <2>1. o.secs[d] \in Section(Names)
    BY ObjectFacts
  <2> QED
    BY <2>1, SectionFacts
<1>6. bs[m][2 * d] = o.secs[d].name
  <2>1. bs[m][2 * d] = HeaderName(o, d)
    BY <1>1, <1>2 DEF NamesOf
  <2> QED
    BY <1>2, <2>1 DEF HeaderName
<1>7. hs[d].size = Len(o.secs[d].data)
  <2>1. DiskSize("PROGBITS", o.secs[d].data) = Len(o.secs[d].data)
    BY <1>5, DiskSizes
  <2> QED
    BY <1>4, <2>1, Zenon DEF HeaderSays
<1> QED
  BY <1>1, <1>2, <1>4, <1>6, <1>7 DEF NamedSection, HeaderSays

(* What a RELA header says. *)
LEMMA OwnRela ==
  ASSUME NEW o \in Object(Names), NEW sl, NEW fg, NEW hs, NEW bs, NEW nx,
         OwnTables(o, sl, fg, hs, bs, nx), NEW k \in DOMAIN hs, hs[k].type = "RELA"
  PROVE  /\ Len(o.secs) + 2 < k /\ k < Len(hs) /\ hs[k].info \in DOMAIN o.secs
         /\ o.secs[hs[k].info].relas # << >> /\ bs[k] = RelasOf(o.secs[hs[k].info].relas, sl)
<1> DEFINE n == Len(o.secs)
           m == Len(hs)
<1>1. /\ n \in Nat /\ m \in Nat /\ m >= n + 3 /\ DOMAIN hs = 1..m
      /\ OwnHeaders(o, sl, fg, hs, bs, m - 1) /\ DOMAIN o.secs = 1..n
  <2>1. IsList(hs) /\ m >= n + 3 /\ OwnHeaders(o, sl, fg, hs, bs, m - 1)
    BY DEF OwnTables, OwnHeaders
  <2> QED
    BY <2>1, ObjectFacts, ListProperties
<1>2. KindAt(n, m, k, hs[k])
  BY OwnKinds
<1>3. ~(k <= n) /\ ~(k = n + 1) /\ ~(k = n + 2) /\ k # m
  BY <1>2, Zenon DEF KindAt
<1>4. n + 2 < k /\ k < m /\ k \in 1..(m - 1) /\ k > n + 2
  BY <1>1, <1>3
<1>5. OwnHeader(o, sl, fg, k, hs[k], bs[k])
  BY <1>1, <1>4 DEF OwnHeaders
<1> HIDE DEF n, m
<1>6. hs[k].info \in 1..n /\ o.secs[hs[k].info].relas # << >> /\ bs[k] = RelasOf(o.secs[hs[k].info].relas, sl)
  BY <1>4, <1>5 DEF OwnHeader, n
<1> QED
  BY <1>1, <1>4, <1>6 DEF n, m

(* The tables of the symbols. *)
LEMMA OwnSymbols ==
  ASSUME NEW o \in Object(Names), NEW sl, NEW fg, NEW hs, NEW bs, NEW nx,
         OwnTables(o, sl, fg, hs, bs, nx)
  PROVE  LET n == Len(o.secs)
         IN /\ n + 1 \in DOMAIN hs /\ n + 2 \in DOMAIN hs
            /\ \A l \in DOMAIN hs : hs[l].type = "SYMTAB" <=> l = n + 1
            /\ TableOf(o.syms, sl, Identity(n), bs[n + 1])
            /\ hs[n + 1].link = n + 2 /\ hs[n + 2].type = "STRTAB"
            /\ StringsOf(o.syms, sl, bs[n + 2])
<1> DEFINE n == Len(o.secs)
           m == Len(hs)
<1>1. /\ n \in Nat /\ m \in Nat /\ m >= n + 3 /\ DOMAIN hs = 1..m
      /\ OwnHeaders(o, sl, fg, hs, bs, m - 1)
  <2>1. IsList(hs) /\ m >= n + 3 /\ OwnHeaders(o, sl, fg, hs, bs, m - 1)
    BY DEF OwnTables, OwnHeaders
  <2> QED
    BY <2>1, ObjectFacts, ListProperties
<1>2. n + 1 \in 1..(m - 1) /\ n + 2 \in 1..(m - 1) /\ n + 1 \in DOMAIN hs /\ n + 2 \in DOMAIN hs
  BY <1>1
<1>3. OwnHeader(o, sl, fg, n + 1, hs[n + 1], bs[n + 1]) /\ OwnHeader(o, sl, fg, n + 2, hs[n + 2], bs[n + 2])
  BY <1>1, <1>2 DEF OwnHeaders
<1>4. HeaderSays(hs[n + 1], "SYMTAB", FALSE, 8, n + 2, fg) /\ TableOf(o.syms, sl, Identity(n), bs[n + 1])
  BY <1>3 DEF OwnHeader
<1>5. HeaderSays(hs[n + 2], "STRTAB", FALSE, 1, 0, 0) /\ StringsOf(o.syms, sl, bs[n + 2])
  BY <1>3 DEF OwnHeader
<1>6. ASSUME NEW l \in DOMAIN hs
      PROVE  hs[l].type = "SYMTAB" <=> l = n + 1
  <2>1. KindAt(n, m, l, hs[l])
    BY OwnKinds
  <2>2. l <= n \/ l = n + 1 \/ (l = n + 2 \/ l = m) \/ (n + 2 < l /\ l < m)
    BY <1>1
  <2>3. l <= n => l # n + 1
    BY <1>1
  <2>4. (l = n + 2 \/ l = m) \/ (n + 2 < l /\ l < m) => l # n + 1
    BY <1>1
  <2> QED
    BY <2>1, <2>2, <2>3, <2>4 DEF KindAt
<1> QED
  BY <1>2, <1>4, <1>5, <1>6 DEF HeaderSays

LEMMA OwnIsArranged ==
  ASSUME NEW o \in Object(Names), NEW sl, NEW fg, NEW hs, NEW bs, NEW nx,
         OwnTables(o, sl, fg, hs, bs, nx)
  PROVE  /\ Identity(Len(o.secs)) \in [DOMAIN o.secs -> DOMAIN hs]
         /\ Arranged(o, sl, hs, bs, nx, {}, Identity(Len(o.secs)))
<1> DEFINE n == Len(o.secs)
           m == Len(hs)
<1>0. PICK w : w = Identity(n)
  OBVIOUS
<1>1. /\ n \in Nat /\ m \in Nat /\ m >= n + 3 /\ DOMAIN hs = 1..m /\ nx = m /\ DOMAIN o.secs = 1..n
      /\ OwnHeaders(o, sl, fg, hs, bs, m - 1) /\ IsList(hs) /\ IsList(bs) /\ Len(bs) = m
      /\ RelasAmong(o, hs, m - 1, n + 1) /\ Len(bs[m]) = 1 + 2 * m
  <2>1. /\ IsList(hs) /\ m >= n + 3 /\ OwnHeaders(o, sl, fg, hs, bs, m - 1) /\ nx = m
        /\ IsList(bs) /\ Len(bs) = m /\ RelasAmong(o, hs, m - 1, n + 1) /\ Len(bs[m]) = 1 + 2 * m
    BY DEF OwnTables, OwnHeaders
  <2> QED
    BY <2>1, ObjectFacts, ListProperties
<1>2. DOMAIN w = 1..n /\ \A d \in 1..n : w[d] = d
  BY <1>0 DEF Identity
<1>3. w \in [DOMAIN o.secs -> DOMAIN hs]
  BY <1>0, <1>1 DEF Identity
<1>4. \A k \in DOMAIN hs : /\ hs[k] \in HeaderType /\ IsList(bs[k])
                           /\ hs[k].size = DiskSize(hs[k].type, bs[k])
  BY OwnKinds
<1>5. nx \in DOMAIN hs /\ hs[nx].type = "STRTAB" /\ bs[nx] # << >>
  <2>1. nx \in DOMAIN hs
    BY <1>1
  <2>2. KindAt(n, m, nx, hs[nx])
    BY <2>1, OwnKinds
  <2>3. Len(bs[nx]) # 0
    <3>1. 1 + 2 * m # 0
      BY <1>1
    <3> QED
      BY <1>1, <3>1, Zenon
  <2> QED
    BY <1>1, <2>1, <2>2, <2>3, EmptyIsList DEF KindAt
<1>6. \A d \in DOMAIN o.secs : hs[w[d]].type = "PROGBITS" /\ NamedSection(o.secs[d], hs[w[d]], bs[w[d]], bs[nx])
  BY <1>1, <1>2, OwnSection
<1>7. ASSUME NEW k \in DOMAIN hs, hs[k].type = "PROGBITS"
      PROVE  \E d \in DOMAIN o.secs : w[d] = k
  <2>1. KindAt(n, m, k, hs[k])
    BY OwnKinds
  <2>2. k \in 1..n \/ k = n + 1 \/ (k = n + 2 \/ k = m) \/ (n + 2 < k /\ k < m)
    BY <1>1
  <2>3. k \in 1..n
    BY <1>7, <2>1, <2>2 DEF KindAt
  <2> QED
    BY <1>1, <1>2, <2>3
<1>8. \E k \in DOMAIN hs :
        /\ \A l \in DOMAIN hs : hs[l].type = "SYMTAB" <=> l = k
        /\ TableOf(o.syms, sl, w, bs[k])
        /\ hs[k].link \in DOMAIN hs /\ hs[hs[k].link].type = "STRTAB"
        /\ StringsOf(o.syms, sl, bs[hs[k].link])
  BY <1>0, OwnSymbols
<1>9. ASSUME NEW k \in DOMAIN hs, hs[k].type = "RELA"
      PROVE  \E d \in DOMAIN o.secs :
               hs[k].info = w[d] /\ o.secs[d].relas # << >> /\ bs[k] = RelasOf(o.secs[d].relas, sl)
  <2>1. hs[k].info \in DOMAIN o.secs /\ o.secs[hs[k].info].relas # << >>
        /\ bs[k] = RelasOf(o.secs[hs[k].info].relas, sl)
    BY <1>9, OwnRela
  <2>2. w[hs[k].info] = hs[k].info
    BY <1>1, <1>2, <2>1
  <2> QED
    BY <2>1, <2>2, Zenon
<1>10. ASSUME NEW k \in DOMAIN hs, NEW l \in DOMAIN hs,
              hs[k].type = "RELA", hs[l].type = "RELA", hs[k].info = hs[l].info
       PROVE  k = l
  <2>1. n + 2 < k /\ k < m /\ n + 2 < l /\ l < m /\ hs[k].info \in DOMAIN o.secs
    BY <1>10, OwnRela
  <2>2. k \in 1..(m - 1) /\ l \in 1..(m - 1)
    BY <1>1, <2>1
  <2>3. ~(k < l)
    <3>1. k < l => hs[k].info < hs[l].info
      BY <1>1, <2>1, <2>2 DEF OwnHeaders
    <3> QED
      BY <1>1, <1>10, <2>1, <3>1
  <2>4. ~(l < k)
    <3>1. l < k => hs[l].info < hs[k].info
      BY <1>1, <2>1, <2>2 DEF OwnHeaders
    <3> QED
      BY <1>1, <1>10, <2>1, <3>1
  <2> QED
    BY <2>2, <2>3, <2>4
<1>11. ASSUME NEW d \in DOMAIN o.secs, o.secs[d].relas # << >>
       PROVE  \E k \in DOMAIN hs : hs[k].type = "RELA" /\ hs[k].info = w[d]
  <2>1. d < n + 1
    BY <1>1
  <2>2. PICK k \in 1..(m - 1) : n + 2 < k /\ hs[k].info = d
    BY <1>1, <1>11, <2>1 DEF RelasAmong
  <2>3. k \in DOMAIN hs /\ k < m
    BY <1>1
  <2>4. KindAt(n, m, k, hs[k])
    BY <2>3, OwnKinds
  <2> QED
    BY <1>1, <1>2, <2>2, <2>3, <2>4 DEF KindAt
<1>12. \A d, e \in DOMAIN o.secs : w[d] = w[e] => d = e
  BY <1>1, <1>2
<1> HIDE DEF n, m
<1>13. Arranged(o, sl, hs, bs, nx, {}, w)
  <2>1. Len(bs) = Len(hs) /\ DOMAIN o.secs \ {} = DOMAIN o.secs
    BY <1>1 DEF m
  <2> QED
    BY <1>1, <1>3, <1>4, <1>5, <1>6, <1>7, <1>8, <1>9, <1>10, <1>11, <1>12, <2>1 DEF Arranged
<1> QED
  BY <1>0, <1>3, <1>13 DEF n

LEMMA OrdersOwnFile ==
  ASSUME FileInv, OwnFile
  PROVE  FileInv'
<1> USE DEF OwnFile, objVars, symVars, fileVars, tabVars, readVars
<1>1. FileTyped'
  BY DEF FileInv, FileTyped, Ordering, Placed, Reading
<1>2. SymbolsInv'
  BY DEF FileInv, SymbolsInv, Heading
<1>3. TablesInv'
  <2>1. /\ obj \in Object(Names) /\ lost = {}
        /\ OwnTables(obj, slot, firstGlobal, shdrs, bodies, shstrndx)
    BY DEF FileInv, FileTyped, TablesInv, Ordering
  <2>2. /\ Identity(Len(obj.secs)) \in [DOMAIN obj.secs -> DOMAIN shdrs]
        /\ Arranged(obj, slot, shdrs, bodies, shstrndx, lost, Identity(Len(obj.secs)))
    BY <2>1, OwnIsArranged
  <2> QED
    BY <2>1, <2>2 DEF TablesInv, Heading, Ordering
<1>4. PlacesInv'
  <2>1. i = 1 /\ pos = EhdrSize /\ IsList(shdrs)
    BY DEF FileInv, PlacesInv, TablesInv, OwnTables, OwnHeaders, Ordering
  <2>2. i <= Len(shdrs) + 1 /\ i - 1 = 0
    BY <2>1, ListProperties
  <2>3. Laid(shdrs, bodies, i - 1) /\ pos = EndOf(shdrs, bodies, i - 1)
    BY <2>1, <2>2 DEF Laid, EndOf
  <2> QED
    BY <2>2, <2>3 DEF PlacesInv, Ordering, Heading, Placed, Reading
<1>5. ReadInv'
  BY DEF ReadInv, Reading
<1>6. EarlierInv'
  BY DEF FileInv, EarlierInv
<1> QED
  BY <1>1, <1>2, <1>3, <1>4, <1>5, <1>6 DEF FileInv

(* What another producer's header keeps of this one's, without a body or   *)
(* with it.                                                                *)
HeaderMoved(h, p, empty, g) ==
  /\ g \in HeaderType /\ g.name = h.name /\ g.alloc = h.alloc /\ g.align = h.align /\ g.size = h.size
  /\ empty => g.type = "NOBITS"
  /\ ~empty => g.type = h.type
  /\ h.link # 0 => g.link = p[h.link]
  /\ h.type = "RELA" => g.info = p[h.info]

LEMMA MovesHeader ==
  ASSUME NEW h \in HeaderType, NEW p,
         h.link # 0 => p[h.link] \in Nat, h.type = "RELA" => p[h.info] \in Nat
  PROVE  /\ HeaderMoved(h, p, FALSE, MovedHeader(h, p))
         /\ HeaderMoved(h, p, TRUE, [MovedHeader(h, p) EXCEPT !.type = "NOBITS"])
<1>1. PICK g : g = MovedHeader(h, p)
  OBVIOUS
<1>2. /\ h = [type |-> h.type, name |-> h.name, alloc |-> h.alloc, align |-> h.align, link |-> h.link,
              info |-> h.info, off |-> h.off, size |-> h.size]
      /\ h.type \in Kinds /\ h.name \in Nat /\ h.alloc \in BOOLEAN /\ h.align \in Nat /\ h.link \in Nat
      /\ h.info \in Nat /\ h.off \in Nat /\ h.size \in Nat
  BY DEF HeaderType
<1> DEFINE link == IF h.link # 0 THEN p[h.link] ELSE 0
           info == IF h.type = "RELA" THEN p[h.info] ELSE h.info
<1>3. link \in Nat /\ info \in Nat /\ (h.link # 0 => link = p[h.link]) /\ (h.type = "RELA" => info = p[h.info])
  BY <1>2
<1>4. g = [h EXCEPT !.link = link, !.info = info]
  BY <1>1 DEF MovedHeader
<1> HIDE DEF link, info
<1>5. g = [type |-> h.type, name |-> h.name, alloc |-> h.alloc, align |-> h.align, link |-> link,
           info |-> info, off |-> h.off, size |-> h.size]
  BY <1>2, <1>4
<1>6. /\ g \in HeaderType /\ g.name = h.name /\ g.alloc = h.alloc /\ g.align = h.align /\ g.size = h.size
      /\ g.type = h.type /\ g.link = link /\ g.info = info
  BY <1>2, <1>3, <1>5 DEF HeaderType
<1>7. HeaderMoved(h, p, FALSE, g)
  BY <1>3, <1>6 DEF HeaderMoved
<1>8. PICK e : e = [g EXCEPT !.type = "NOBITS"]
  OBVIOUS
<1>9. e = [type |-> "NOBITS", name |-> h.name, alloc |-> h.alloc, align |-> h.align, link |-> link,
           info |-> info, off |-> h.off, size |-> h.size]
  BY <1>5, <1>8
<1>10. /\ e \in HeaderType /\ e.name = h.name /\ e.alloc = h.alloc /\ e.align = h.align /\ e.size = h.size
       /\ e.type = "NOBITS" /\ e.link = link /\ e.info = info
  <2>1. "NOBITS" \in Kinds
    BY DEF Kinds
  <2> QED
    BY <1>2, <1>3, <1>9, <2>1 DEF HeaderType
<1>11. HeaderMoved(h, p, TRUE, e)
  BY <1>3, <1>10 DEF HeaderMoved
<1> QED
  BY <1>1, <1>7, <1>8, <1>11

(* Its symbol table names the headers where they are now. *)
TableMoves(ss, n, sl, table, h, p, w) ==
  /\ n \in Nat /\ TableOf(ss, sl, Identity(n), table) /\ h.type = "SYMTAB"
  /\ DOMAIN ss = 1..Len(ss) /\ Len(ss) \in Nat /\ sl \in [DOMAIN ss -> 1..Len(ss)]
  /\ \A j \in DOMAIN ss : ss[j].sec \in 0..n
  /\ \A d \in 1..n : w[d] = p[d]

LEMMA MovesTable ==
  ASSUME NEW ss, NEW n, NEW sl, NEW table, NEW p, NEW h, NEW w, TableMoves(ss, n, sl, table, h, p, w)
  PROVE  TableOf(ss, sl, w, MovedBody(h, table, p)) /\ Len(MovedBody(h, table, p)) = Len(table)
<1> USE DEF TableMoves
<1>0. PICK moved : moved = MovedBody(h, table, p)
  OBVIOUS
<1>1. IsList(table) /\ Len(table) = Len(ss) /\ DOMAIN table = 1..Len(ss)
  BY ListProperties DEF TableOf
<1>2. moved = [s \in DOMAIN table |-> [table[s] EXCEPT !.shndx = IF table[s].shndx # 0 THEN p[table[s].shndx] ELSE 0]]
  BY <1>0 DEF MovedBody
<1>3. IsList(moved) /\ Len(moved) = Len(ss)
  BY <1>1, <1>2, FunctionIsList
<1>4. ASSUME NEW j \in DOMAIN ss
      PROVE  moved[sl[j]] = DiskSymbol(ss[j], sl[j], Image(w, ss[j].sec))
  <2> DEFINE row == table[sl[j]]
             k == Image(Identity(n), ss[j].sec)
  <2>1. row = DiskSymbol(ss[j], sl[j], k) /\ sl[j] \in DOMAIN table
    BY <1>1 DEF TableOf
  <2>2. moved[sl[j]] = [row EXCEPT !.shndx = IF row.shndx # 0 THEN p[row.shndx] ELSE 0]
    BY <1>2, <2>1
  <2>3. k = ss[j].sec
    BY DEF Image, Identity
  <2>4. row.shndx = ss[j].sec
    BY <2>1, <2>3 DEF DiskSymbol
  <2>5. (IF row.shndx # 0 THEN p[row.shndx] ELSE 0) = Image(w, ss[j].sec)
    BY <2>4 DEF Image
  <2>6. moved[sl[j]] = [row EXCEPT !.shndx = Image(w, ss[j].sec)]
    BY <2>2, <2>5
  <2> QED
    BY <2>1, <2>6 DEF DiskSymbol
<1> QED
  BY <1>0, <1>1, <1>3, <1>4 DEF TableOf

(* The file of another producer: p moves the headers, and the section      *)
(* empty has lost its body.                                                *)
Rearranged(hs, bs, p, empty, hs2, bs2) ==
  /\ IsList(hs2) /\ IsList(bs2) /\ Len(hs2) = Len(hs) /\ Len(bs2) = Len(hs)
  /\ p \in [DOMAIN hs -> DOMAIN hs]
  /\ \A j, k \in DOMAIN hs : p[j] = p[k] => j = k
  /\ \A k \in DOMAIN hs : \E j \in DOMAIN hs : p[j] = k
  /\ \A j \in DOMAIN hs :
       /\ j = empty => HeaderMoved(hs[j], p, TRUE, hs2[p[j]]) /\ bs2[p[j]] = << >>
       /\ j # empty => HeaderMoved(hs[j], p, FALSE, hs2[p[j]]) /\ bs2[p[j]] = MovedBody(hs[j], bs[j], p)

LEMMA OtherIsArranged ==
  ASSUME NEW o \in Object(Names), NEW sl, NEW fg, NEW hs, NEW bs, NEW nx, NEW p, NEW empty, NEW hs2, NEW bs2,
         Slotted(o.syms, sl, fg), OwnTables(o, sl, fg, hs, bs, nx), empty \in {0} \union DOMAIN o.secs,
         Rearranged(hs, bs, p, empty, hs2, bs2)
  PROVE  \E w \in [DOMAIN o.secs -> DOMAIN hs2] : Arranged(o, sl, hs2, bs2, p[nx], {empty} \ {0}, w)
<1> DEFINE n == Len(o.secs)
           own == Identity(n)
<1>1. PICK w : w = [d \in DOMAIN o.secs |-> p[d]]
  OBVIOUS
<1>2. /\ n \in Nat /\ DOMAIN o.secs = 1..n /\ \A d \in 1..n : own[d] = d
      /\ own \in [DOMAIN o.secs -> DOMAIN hs] /\ Arranged(o, sl, hs, bs, nx, {}, own)
  BY ObjectFacts, OwnIsArranged DEF Identity
<1>3. \A d \in 1..n : d \in DOMAIN hs /\ w[d] = p[d] /\ d # 0
  BY <1>1, <1>2, OwnSection
<1>4. /\ IsList(hs2) /\ IsList(bs2) /\ Len(bs2) = Len(hs2) /\ DOMAIN hs2 = DOMAIN hs /\ DOMAIN hs = 1..Len(hs)
      /\ p \in [DOMAIN hs -> DOMAIN hs] /\ \A j, k \in DOMAIN hs : p[j] = p[k] => j = k
      /\ \A k \in DOMAIN hs : \E j \in DOMAIN hs : p[j] = k
  <2>1. IsList(hs)
    BY DEF OwnTables, OwnHeaders
  <2>2. DOMAIN hs = 1..Len(hs) /\ DOMAIN hs2 = 1..Len(hs2)
    BY <2>1, ListProperties DEF Rearranged
  <2> QED
    BY <2>2 DEF Rearranged
<1>5. ASSUME NEW j \in DOMAIN hs
      PROVE  /\ p[j] \in DOMAIN hs2 /\ hs2[p[j]] \in HeaderType
             /\ hs2[p[j]].name = hs[j].name /\ hs2[p[j]].alloc = hs[j].alloc
             /\ hs2[p[j]].align = hs[j].align /\ hs2[p[j]].size = hs[j].size
             /\ hs[j].link # 0 => hs2[p[j]].link = p[hs[j].link]
             /\ hs[j].type = "RELA" => hs2[p[j]].info = p[hs[j].info]
             /\ j = empty => hs2[p[j]].type = "NOBITS" /\ bs2[p[j]] = << >> /\ hs[j].type = "PROGBITS"
             /\ j # empty => hs2[p[j]].type = hs[j].type /\ bs2[p[j]] = MovedBody(hs[j], bs[j], p)
  <2>1. p[j] \in DOMAIN hs2
    BY <1>4
  <2>2. j = empty => hs[j].type = "PROGBITS"
    <3>1. j # 0
      BY <1>4
    <3> QED
      BY <3>1, OwnSection
  <2>3. CASE j = empty
    <3>1. HeaderMoved(hs[j], p, TRUE, hs2[p[j]]) /\ bs2[p[j]] = << >>
      BY <2>3 DEF Rearranged
    <3> QED
      BY <2>1, <2>2, <2>3, <3>1 DEF HeaderMoved
  <2>4. CASE j # empty
    <3>1. HeaderMoved(hs[j], p, FALSE, hs2[p[j]]) /\ bs2[p[j]] = MovedBody(hs[j], bs[j], p)
      BY <2>4 DEF Rearranged
    <3> QED
      BY <2>1, <2>4, <3>1 DEF HeaderMoved
  <2> QED
    BY <2>3, <2>4
<1>6. \A j \in DOMAIN hs : j # empty /\ hs[j].type # "SYMTAB" => bs2[p[j]] = bs[j]
  BY <1>5 DEF MovedBody
<1>7. PICK k1 \in DOMAIN hs :
        /\ \A l \in DOMAIN hs : hs[l].type = "SYMTAB" <=> l = k1
        /\ TableOf(o.syms, sl, own, bs[k1])
        /\ hs[k1].link \in DOMAIN hs /\ hs[hs[k1].link].type = "STRTAB"
        /\ StringsOf(o.syms, sl, bs[hs[k1].link])
  BY <1>2 DEF Arranged
<1>8. /\ hs[k1].type = "SYMTAB" /\ k1 # empty
      /\ TableOf(o.syms, sl, w, bs2[p[k1]]) /\ Len(bs2[p[k1]]) = Len(bs[k1])
  <2>1. hs[k1].type = "SYMTAB"
    BY <1>7
  <2>2. k1 # empty
    BY <1>5, <2>1
  <2>3. bs2[p[k1]] = MovedBody(hs[k1], bs[k1], p)
    BY <1>5, <2>2
  <2>4. /\ DOMAIN o.syms = 1..Len(o.syms) /\ Len(o.syms) \in Nat /\ sl \in [DOMAIN o.syms -> 1..Len(o.syms)]
        /\ \A j \in DOMAIN o.syms : o.syms[j].sec \in 0..n
    BY ObjectFacts DEF Slotted
  <2>5. \A d \in 1..n : w[d] = p[d]
    BY <1>3
  <2>6. TableOf(o.syms, sl, Identity(n), bs[k1])
    BY <1>7
  <2> HIDE DEF n, own
  <2>7. TableMoves(o.syms, n, sl, bs[k1], hs[k1], p, w)
    BY <1>2, <2>1, <2>4, <2>5, <2>6 DEF TableMoves
  <2>8. TableOf(o.syms, sl, w, MovedBody(hs[k1], bs[k1], p)) /\ Len(MovedBody(hs[k1], bs[k1], p)) = Len(bs[k1])
    BY <2>7, MovesTable
  <2> QED
    BY <2>1, <2>2, <2>3, <2>8
<1> HIDE DEF own
<1>9. w \in [DOMAIN o.secs -> DOMAIN hs2] /\ \A d, e \in DOMAIN o.secs : w[d] = w[e] => d = e
  <2>1. \A d \in DOMAIN o.secs : p[d] \in DOMAIN hs2
    BY <1>2, <1>3, <1>4
  <2>2. w \in [DOMAIN o.secs -> DOMAIN hs2]
    BY <1>1, <2>1
  <2> QED
    BY <1>2, <1>3, <1>4, <2>2
<1>10. ASSUME NEW k \in DOMAIN hs2
       PROVE  hs2[k] \in HeaderType /\ IsList(bs2[k])
  <2>1. PICK j \in DOMAIN hs : p[j] = k
    BY <1>4
  <2>2. CASE j = empty
    BY <1>5, <2>1, <2>2, EmptyIsList
  <2>3. CASE j = k1
    BY <1>5, <1>8, <2>1, <2>3 DEF TableOf
  <2>4. CASE j # empty /\ j # k1
    <3>1. bs2[k] = bs[j] /\ IsList(bs[j])
      BY <1>2, <1>6, <1>7, <2>1, <2>4 DEF Arranged
    <3> QED
      BY <1>5, <2>1, <3>1
  <2> QED
    BY <2>2, <2>3, <2>4
<1>11. ASSUME NEW k \in DOMAIN hs2, hs2[k].type # "NOBITS"
       PROVE  hs2[k].size = DiskSize(hs2[k].type, bs2[k])
  <2>1. PICK j \in DOMAIN hs : p[j] = k
    BY <1>4
  <2>2. j # empty
    BY <1>5, <1>11, <2>1
  <2>3. hs2[k].type = hs[j].type /\ hs2[k].size = hs[j].size
    BY <1>5, <2>1, <2>2
  <2>4. hs[j].size = DiskSize(hs[j].type, bs[j])
    BY OwnKinds
  <2>5. CASE j = k1
    <3>1. Len(bs2[k]) = Len(bs[j]) /\ hs[j].type = "SYMTAB"
      BY <1>8, <2>1, <2>5
    <3>2. DiskSize("SYMTAB", bs2[k]) = DiskSize("SYMTAB", bs[j])
      BY <3>1 DEF DiskSize
    <3> QED
      BY <2>3, <2>4, <3>1, <3>2
  <2>6. CASE j # k1
    <3>1. bs2[k] = bs[j]
      BY <1>6, <1>7, <2>1, <2>2, <2>6
    <3> QED
      BY <2>3, <2>4, <3>1
  <2> QED
    BY <2>5, <2>6
<1>12. /\ p[nx] \in DOMAIN hs2 /\ hs2[p[nx]].type = "STRTAB" /\ bs2[p[nx]] # << >>
       /\ nx \in DOMAIN hs /\ bs2[p[nx]] = bs[nx]
  <2>1. nx \in DOMAIN hs /\ hs[nx].type = "STRTAB" /\ bs[nx] # << >>
    BY <1>2 DEF Arranged
  <2>2. nx # empty
    BY <1>5, <2>1
  <2>3. bs2[p[nx]] = bs[nx]
    BY <1>6, <2>1, <2>2
  <2> QED
    BY <1>5, <2>1, <2>2, <2>3
<1>13. ASSUME NEW d \in DOMAIN o.secs \ ({empty} \ {0})
       PROVE  hs2[w[d]].type = "PROGBITS" /\ NamedSection(o.secs[d], hs2[w[d]], bs2[w[d]], bs2[p[nx]])
  <2>1. d \in DOMAIN hs /\ w[d] = p[d] /\ d # 0 /\ d # empty
    BY <1>2, <1>3
  <2>2. hs[d].type = "PROGBITS" /\ NamedSection(o.secs[d], hs[d], bs[d], bs[nx])
    BY OwnSection
  <2>3. bs2[w[d]] = bs[d] /\ hs2[w[d]].type = "PROGBITS"
    BY <1>5, <1>6, <2>1, <2>2
  <2>4. /\ hs2[w[d]].name = hs[d].name /\ hs2[w[d]].alloc = hs[d].alloc
        /\ hs2[w[d]].align = hs[d].align /\ hs2[w[d]].size = hs[d].size
    BY <1>5, <2>1
  <2>5. NamedSection(o.secs[d], hs2[w[d]], bs2[w[d]], bs2[p[nx]])
    BY <1>12, <2>2, <2>3, <2>4 DEF NamedSection
  <2> QED
    BY <2>3, <2>5
<1>14. \A d \in {empty} \ {0} : hs2[w[d]].type = "NOBITS"
  BY <1>2, <1>3, <1>5
<1>15. ASSUME NEW k \in DOMAIN hs2, hs2[k].type = "PROGBITS"
       PROVE  \E d \in DOMAIN o.secs : w[d] = k
  <2>1. PICK j \in DOMAIN hs : p[j] = k
    BY <1>4
  <2>2. hs[j].type = "PROGBITS"
    BY <1>5, <1>15, <2>1
  <2>3. PICK d \in DOMAIN o.secs : own[d] = j
    BY <1>2, <2>2 DEF Arranged
  <2> QED
    BY <1>2, <1>3, <2>1, <2>3
<1>16. \E k \in DOMAIN hs2 :
         /\ \A l \in DOMAIN hs2 : hs2[l].type = "SYMTAB" <=> l = k
         /\ TableOf(o.syms, sl, w, bs2[k])
         /\ hs2[k].link \in DOMAIN hs2 /\ hs2[hs2[k].link].type = "STRTAB"
         /\ StringsOf(o.syms, sl, bs2[hs2[k].link])
  <2>1. p[k1] \in DOMAIN hs2
    BY <1>5
  <2>2. ASSUME NEW l \in DOMAIN hs2
        PROVE  hs2[l].type = "SYMTAB" <=> l = p[k1]
    <3>1. PICK j \in DOMAIN hs : p[j] = l
      BY <1>4
    <3>2. l = p[k1] <=> j = k1
      BY <1>4, <3>1
    <3>3. hs2[l].type = "SYMTAB" <=> hs[j].type = "SYMTAB"
      BY <1>5, <3>1
    <3> QED
      BY <1>7, <3>2, <3>3
  <2> DEFINE k2 == hs[k1].link
  <2>3. k2 \in DOMAIN hs /\ k2 # 0 /\ hs2[p[k1]].link = p[k2]
    <3>1. k2 \in DOMAIN hs
      BY <1>7
    <3>2. k2 # 0
      BY <1>4, <3>1
    <3> QED
      BY <1>5, <3>1, <3>2
  <2>4. k2 # empty /\ hs[k2].type # "SYMTAB" /\ StringsOf(o.syms, sl, bs[k2]) /\ hs[k2].type = "STRTAB"
    BY <1>5, <1>7
  <2>5. bs2[p[k2]] = bs[k2] /\ hs2[p[k2]].type = "STRTAB" /\ p[k2] \in DOMAIN hs2
    BY <1>5, <1>6, <2>3, <2>4
  <2> QED
    BY <1>8, <2>1, <2>2, <2>3, <2>4, <2>5
<1>17. ASSUME NEW k \in DOMAIN hs2, hs2[k].type = "RELA"
       PROVE  \E d \in DOMAIN o.secs :
                hs2[k].info = w[d] /\ o.secs[d].relas # << >> /\ bs2[k] = RelasOf(o.secs[d].relas, sl)
  <2>1. PICK j \in DOMAIN hs : p[j] = k
    BY <1>4
  <2>2. hs[j].type = "RELA" /\ j # empty
    BY <1>5, <1>17, <2>1
  <2>3. /\ hs[j].info \in DOMAIN o.secs /\ o.secs[hs[j].info].relas # << >>
        /\ bs[j] = RelasOf(o.secs[hs[j].info].relas, sl)
    BY <2>2, OwnRela
  <2>4. hs2[k].info = p[hs[j].info] /\ bs2[k] = bs[j]
    BY <1>5, <1>6, <2>1, <2>2
  <2>5. w[hs[j].info] = p[hs[j].info]
    BY <1>2, <1>3, <2>3
  <2> QED
    BY <2>3, <2>4, <2>5
<1>18. ASSUME NEW k \in DOMAIN hs2, NEW l \in DOMAIN hs2,
              hs2[k].type = "RELA", hs2[l].type = "RELA", hs2[k].info = hs2[l].info
       PROVE  k = l
  <2>1. PICK a \in DOMAIN hs : p[a] = k
    BY <1>4
  <2>2. PICK b \in DOMAIN hs : p[b] = l
    BY <1>4
  <2>3. hs[a].type = "RELA" /\ hs[b].type = "RELA"
    BY <1>5, <1>18, <2>1, <2>2
  <2>4. hs[a].info \in DOMAIN o.secs /\ hs[b].info \in DOMAIN o.secs
    BY <2>3, OwnRela
  <2>5. hs[a].info \in DOMAIN hs /\ hs[b].info \in DOMAIN hs
    BY <1>2, <1>3, <2>4
  <2>6. p[hs[a].info] = p[hs[b].info]
    <3>1. hs2[k].info = p[hs[a].info]
      BY <1>5, <2>1, <2>3
    <3>2. hs2[l].info = p[hs[b].info]
      BY <1>5, <2>2, <2>3
    <3> QED
      BY <1>18, <3>1, <3>2
  <2>7. hs[a].info = hs[b].info
    <3>1. \A x, y \in DOMAIN hs : p[x] = p[y] => x = y
      BY <1>4
    <3> QED
      BY <2>5, <2>6, <3>1, Zenon
  <2>8. a = b
    BY <1>2, <2>3, <2>7 DEF Arranged
  <2> QED
    BY <2>1, <2>2, <2>8
<1>19. ASSUME NEW d \in DOMAIN o.secs, o.secs[d].relas # << >>
       PROVE  \E k \in DOMAIN hs2 : hs2[k].type = "RELA" /\ hs2[k].info = w[d]
  <2>1. PICK j \in DOMAIN hs : hs[j].type = "RELA" /\ hs[j].info = own[d]
    BY <1>2, <1>19 DEF Arranged
  <2>2. hs2[p[j]].type = "RELA" /\ hs2[p[j]].info = p[d] /\ p[j] \in DOMAIN hs2
    BY <1>2, <1>5, <2>1
  <2> QED
    BY <1>2, <1>3, <2>2
<1>20. Arranged(o, sl, hs2, bs2, p[nx], {empty} \ {0}, w)
  <2> HIDE DEF n
  <2> QED
    BY <1>4, <1>9, <1>10, <1>11, <1>12, <1>13, <1>14, <1>15, <1>16, <1>17, <1>18, <1>19 DEF Arranged
<1> QED
  BY <1>9, <1>20

LEMMA OrdersOtherFile ==
  ASSUME FileInv, OtherProducer
  PROVE  FileInv'
<1> USE DEF OtherProducer, symVars
<1>1. /\ obj \in Object(Names) /\ lost = {} /\ i = 1 /\ pos = EhdrSize
      /\ OwnTables(obj, slot, firstGlobal, shdrs, bodies, shstrndx) /\ Slotted(obj.syms, slot, firstGlobal)
  BY DEF FileInv, FileTyped, TablesInv, SymbolsInv, PlacesInv, Ordering, Heading
<1> DEFINE m == Len(shdrs)
<1>2. PICK p \in Orders(m), empty \in {0} \union DOMAIN obj.secs :
       LET from(k) == CHOOSE j \in DOMAIN p : p[j] = k
           moved(k) == MovedHeader(shdrs[from(k)], p)
       IN /\ shdrs' = [k \in DOMAIN shdrs |->
                         IF from(k) = empty THEN [moved(k) EXCEPT !.type = "NOBITS"] ELSE moved(k)]
          /\ bodies' = [k \in DOMAIN bodies |->
                          IF from(k) = empty THEN << >>
                          ELSE MovedBody(shdrs[from(k)], bodies[from(k)], p)]
          /\ shstrndx' = p[shstrndx]
          /\ lost' = {empty} \ {0}
  OBVIOUS
<1>3. /\ obj' = obj /\ slot' = slot /\ firstGlobal' = firstGlobal /\ pc' = "place" /\ i' = i /\ pos' = pos
       /\ foreign' = TRUE /\ room' = room /\ round' = round /\ pc = "layout"
  OBVIOUS
<1> HIDE DEF OtherProducer
<1>4. /\ IsList(shdrs) /\ IsList(bodies) /\ Len(bodies) = m /\ m \in Nat /\ m > 0
      /\ DOMAIN shdrs = 1..m /\ DOMAIN bodies = 1..m
  <2>1. IsList(shdrs) /\ IsList(bodies) /\ Len(bodies) = m /\ m >= Len(obj.secs) + 3
    BY <1>1 DEF OwnTables, OwnHeaders
  <2>2. Len(obj.secs) \in Nat
    BY <1>1, ObjectFacts
  <2>3. m \in Nat /\ DOMAIN shdrs = 1..m /\ DOMAIN bodies = 1..m
    BY <2>1, ListProperties
  <2> QED
    BY <2>1, <2>2, <2>3
<1> HIDE DEF m
<1>5. p \in [1..m -> 1..m] /\ (\A j, k \in 1..m : p[j] = p[k] => j = k) /\ (\A k \in 1..m : \E j \in 1..m : p[j] = k)
  <2>1. m \in Nat /\ m > 0 /\ p \in Orders(m)
    BY <1>4
  <2> QED
    BY <2>1, OrdersArePermutations, Zenon
<1> DEFINE from(k) == CHOOSE j \in DOMAIN p : p[j] = k
<1>6. \A j \in 1..m : from(p[j]) = j
  <2> SUFFICES ASSUME NEW j \in 1..m
               PROVE  from(p[j]) = j
    OBVIOUS
  <2>1. DOMAIN p = 1..m
    BY <1>5
  <2>2. from(p[j]) \in DOMAIN p /\ p[from(p[j])] = p[j]
    <3>1. \E l \in DOMAIN p : p[l] = p[j]
      BY <2>1
    <3> QED
      BY <3>1, Zenon
  <2> HIDE DEF from
  <2> QED
    BY <1>5, <2>1, <2>2
<1> DEFINE hmoved(k) == MovedHeader(shdrs[from(k)], p)
           hval(k) == IF from(k) = empty THEN [hmoved(k) EXCEPT !.type = "NOBITS"] ELSE hmoved(k)
           bval(k) == IF from(k) = empty THEN << >> ELSE MovedBody(shdrs[from(k)], bodies[from(k)], p)
<1>7. /\ shdrs' = [k \in 1..m |-> hval(k)] /\ bodies' = [k \in 1..m |-> bval(k)]
      /\ shstrndx' = p[shstrndx] /\ lost' = {empty} \ {0}
  BY <1>2, <1>4
<1>8. \A j \in 1..m : /\ j = empty => hval(p[j]) = [MovedHeader(shdrs[j], p) EXCEPT !.type = "NOBITS"]
                                      /\ bval(p[j]) = << >>
                      /\ j # empty => hval(p[j]) = MovedHeader(shdrs[j], p)
                                      /\ bval(p[j]) = MovedBody(shdrs[j], bodies[j], p)
  <2> SUFFICES ASSUME NEW j \in 1..m
               PROVE  /\ j = empty => hval(p[j]) = [MovedHeader(shdrs[j], p) EXCEPT !.type = "NOBITS"]
                                      /\ bval(p[j]) = << >>
                      /\ j # empty => hval(p[j]) = MovedHeader(shdrs[j], p)
                                      /\ bval(p[j]) = MovedBody(shdrs[j], bodies[j], p)
    OBVIOUS
  <2>1. from(p[j]) = j
    BY <1>6
  <2> HIDE DEF from
  <2> QED
    BY <2>1, Zenon
<1> HIDE DEF hval, bval, hmoved, from
<1>9. /\ IsList(shdrs') /\ IsList(bodies') /\ Len(shdrs') = m /\ Len(bodies') = m
      /\ \A j \in 1..m : shdrs'[p[j]] = hval(p[j]) /\ bodies'[p[j]] = bval(p[j])
  <2>1. DOMAIN shdrs' = 1..m /\ DOMAIN bodies' = 1..m /\ shdrs' = [k \in 1..m |-> shdrs'[k]] /\ bodies' = [k \in 1..m |-> bodies'[k]]
    BY <1>7
  <2>2. IsList(shdrs') /\ Len(shdrs') = m
    BY <1>4, <2>1, FunctionIsList
  <2>3. IsList(bodies') /\ Len(bodies') = m
    BY <1>4, <2>1, FunctionIsList
  <2>4. \A k \in 1..m : shdrs'[k] = hval(k) /\ bodies'[k] = bval(k)
    BY <1>7
  <2>5. \A j \in 1..m : p[j] \in 1..m
    BY <1>5
  <2> QED
    BY <2>2, <2>3, <2>4, <2>5, Zenon
<1>10. ASSUME NEW j \in 1..m
      PROVE  /\ HeaderMoved(shdrs[j], p, FALSE, MovedHeader(shdrs[j], p))
             /\ HeaderMoved(shdrs[j], p, TRUE, [MovedHeader(shdrs[j], p) EXCEPT !.type = "NOBITS"])
  <2>1. shdrs[j] \in HeaderType /\ shdrs[j].link \in DOMAIN shdrs \union {0}
    BY <1>1, <1>4, OwnKinds
  <2>2. \A x \in 1..m : p[x] \in Nat
    <3>1. p \in [1..m -> 1..m]
      BY <1>5, Zenon
    <3> QED
      BY <3>1
  <2>3. shdrs[j].link # 0 => p[shdrs[j].link] \in Nat
    BY <1>4, <2>1, <2>2, Zenon
  <2>4. shdrs[j].type = "RELA" => p[shdrs[j].info] \in Nat
    <3>1. ASSUME shdrs[j].type = "RELA"
          PROVE  p[shdrs[j].info] \in Nat
      <4>1. shdrs[j].info \in DOMAIN obj.secs
        <5>1. j \in DOMAIN shdrs
          BY <1>4
        <5> QED
          BY <1>1, <3>1, <5>1, OwnRela
      <4>2. shdrs[j].info \in DOMAIN shdrs
        BY <1>1, <4>1, OwnSection
      <4> QED
        BY <1>4, <2>2, <4>2, Zenon
    <3> QED
      BY <3>1
  <2> QED
    BY <2>1, <2>3, <2>4, MovesHeader
<1>11. Rearranged(shdrs, bodies, p, empty, shdrs', bodies')
  <2>1. ASSUME NEW j \in 1..m
        PROVE  /\ j = empty => HeaderMoved(shdrs[j], p, TRUE, shdrs'[p[j]]) /\ bodies'[p[j]] = << >>
               /\ j # empty => HeaderMoved(shdrs[j], p, FALSE, shdrs'[p[j]]) /\ bodies'[p[j]] = MovedBody(shdrs[j], bodies[j], p)
    <3>1. shdrs'[p[j]] = hval(p[j]) /\ bodies'[p[j]] = bval(p[j])
      BY <1>9
    <3>2. CASE j = empty
      <4>1. shdrs'[p[j]] = [MovedHeader(shdrs[j], p) EXCEPT !.type = "NOBITS"] /\ bodies'[p[j]] = << >>
        BY <1>8, <3>1, <3>2, Zenon
      <4> QED
        BY <1>10, <3>2, <4>1, Zenon
    <3>3. CASE j # empty
      <4>1. shdrs'[p[j]] = MovedHeader(shdrs[j], p) /\ bodies'[p[j]] = MovedBody(shdrs[j], bodies[j], p)
        BY <1>8, <3>1, <3>3, Zenon
      <4> QED
        BY <1>10, <3>3, <4>1, Zenon
    <3> QED
      BY <3>2, <3>3, Zenon
  <2> QED
    BY <1>4, <1>5, <1>9, <2>1 DEF Rearranged, m
<1>12. FileTyped'
  <2>1. lost' \subseteq DOMAIN obj.secs
    BY <1>7
  <2> QED
    BY <1>3, <2>1 DEF FileInv, FileTyped, Ordering, Heading, Placed, Reading
<1>13. SymbolsInv'
  BY <1>1, <1>3 DEF SymbolsInv, Heading
<1>14. TablesInv'
  <2>1. \E w \in [DOMAIN obj.secs -> DOMAIN shdrs'] :
          Arranged(obj, slot, shdrs', bodies', p[shstrndx], {empty} \ {0}, w)
    BY <1>1, <1>11, OtherIsArranged
  <2> QED
    BY <1>7, <1>3, <2>1 DEF TablesInv, Heading, Ordering
<1>15. PlacesInv'
  <2>1. i' <= Len(shdrs') + 1 /\ i' - 1 = 0
    BY <1>1, <1>4, <1>9, <1>3
  <2>2. Laid(shdrs', bodies', i' - 1) /\ pos' = EndOf(shdrs', bodies', i' - 1)
    BY <1>1, <1>3, <2>1 DEF Laid, EndOf
  <2> QED
    BY <1>3, <2>1, <2>2 DEF PlacesInv, Ordering, Heading, Placed, Reading
<1>16. ReadInv'
  BY <1>3 DEF ReadInv, Reading
<1>17. EarlierInv'
  BY <1>3 DEF EarlierInv
<1> QED
  BY <1>12, <1>13, <1>14, <1>15, <1>16, <1>17 DEF FileInv

-----------------------------------------------------------------------------
(* The places of the bodies.                                               *)

(* Headers and bodies, of whatever kinds. *)
Drawn(hs, bs) ==
  /\ IsList(hs) /\ Len(hs) \in Nat /\ DOMAIN hs = 1..Len(hs) /\ IsList(bs) /\ Len(bs) = Len(hs)
  /\ \A k \in DOMAIN hs : hs[k] \in HeaderType /\ IsList(bs[k])

LEMMA ArrangedIsDrawn ==
  ASSUME FileInv, pc \notin Ordering
  PROVE  Drawn(shdrs, bodies)
<1>1. PICK w : Arranged(obj, slot, shdrs, bodies, shstrndx, lost, w)
  BY DEF FileInv, TablesInv
<1>2. /\ IsList(shdrs) /\ IsList(bodies) /\ Len(bodies) = Len(shdrs)
      /\ \A k \in DOMAIN shdrs : shdrs[k] \in HeaderType /\ IsList(bodies[k])
  BY <1>1 DEF Arranged
<1>3. Len(shdrs) \in Nat /\ DOMAIN shdrs = 1..Len(shdrs)
  BY <1>2, ListProperties
<1> QED
  BY <1>2, <1>3 DEF Drawn

LEMMA EndIsNat ==
  ASSUME NEW hs, NEW bs, Drawn(hs, bs)
  PROVE  /\ \A k \in DOMAIN hs : BodySize(hs, bs, k) \in Nat /\ hs[k].off \in Nat /\ hs[k].align \in Nat
         /\ \A m \in 0..Len(hs) : EndOf(hs, bs, m) \in Nat
<1>1. Len(hs) \in Nat /\ DOMAIN hs = 1..Len(hs)
  BY DEF Drawn
<1>2. ASSUME NEW k \in DOMAIN hs
      PROVE  BodySize(hs, bs, k) \in Nat /\ hs[k].off \in Nat /\ hs[k].align \in Nat
  <2>1. hs[k] \in HeaderType /\ Len(bs[k]) \in Nat
    BY ListProperties DEF Drawn
  <2>2. hs[k].off \in Nat /\ hs[k].align \in Nat
    BY <2>1 DEF HeaderType
  <2>3. BodySize(hs, bs, k) \in Nat
    BY <2>1, DiskSizeIsNat DEF BodySize
  <2> QED
    BY <2>2, <2>3
<1>3. ASSUME NEW m \in 0..Len(hs)
      PROVE  EndOf(hs, bs, m) \in Nat
  <2>1. CASE m = 0
    BY <2>1 DEF EndOf, EhdrSize
  <2>2. CASE m # 0
    <3>1. m \in DOMAIN hs
      BY <1>1, <2>2
    <3>2. hs[m].off \in Nat /\ BodySize(hs, bs, m) \in Nat
      BY <1>2, <3>1
    <3> QED
      BY <2>2, <3>2 DEF EndOf
  <2> QED
    BY <2>1, <2>2
<1> QED
  BY <1>2, <1>3

(* Headers that differ in their places only. *)
HeaderKept(h, g) ==
  /\ g \in HeaderType /\ g.type = h.type /\ g.name = h.name /\ g.alloc = h.alloc /\ g.align = h.align
  /\ g.link = h.link /\ g.info = h.info /\ g.size = h.size

HeadersKept(hs, hs2) ==
  /\ IsList(hs) /\ IsList(hs2) /\ Len(hs2) = Len(hs) /\ DOMAIN hs2 = DOMAIN hs /\ DOMAIN hs = 1..Len(hs)
  /\ Len(hs) \in Nat
  /\ \A k \in DOMAIN hs : HeaderKept(hs[k], hs2[k])

LEMMA KeepsOwnTables ==
  ASSUME NEW o \in Object(Names), NEW sl, NEW fg, NEW hs, NEW hs2, NEW bs, NEW nx,
         OwnTables(o, sl, fg, hs, bs, nx), HeadersKept(hs, hs2)
  PROVE  OwnTables(o, sl, fg, hs2, bs, nx)
<1> DEFINE n == Len(o.secs)
           m == Len(hs)
<1>1. /\ n \in Nat /\ m \in Nat /\ m >= n + 3 /\ Len(hs2) = m /\ IsList(hs2) /\ nx = m
      /\ \A k \in 1..m : HeaderKept(hs[k], hs2[k])
      /\ IsList(bs) /\ Len(bs) = m /\ OwnHeaders(o, sl, fg, hs, bs, m - 1)
  BY ObjectFacts DEF HeadersKept, OwnTables, OwnHeaders
<1>2. OwnHeaders(o, sl, fg, hs2, bs, m - 1)
  <2>1. ASSUME NEW k \in 1..(m - 1)
        PROVE  OwnHeader(o, sl, fg, k, hs2[k], bs[k])
    <3>1. OwnHeader(o, sl, fg, k, hs[k], bs[k])
      BY <1>1 DEF OwnHeaders
    <3>2. HeaderKept(hs[k], hs2[k])
      BY <1>1
    <3>3. \A type, alloc, align, link, info :
            HeaderSays(hs[k], type, alloc, align, link, info) => HeaderSays(hs2[k], type, alloc, align, link, info)
      BY <3>2 DEF HeaderKept, HeaderSays
    <3>4. /\ hs2[k] \in HeaderType /\ hs2[k].name = hs[k].name /\ hs2[k].size = hs[k].size
          /\ hs2[k].type = hs[k].type /\ hs2[k].info = hs[k].info
      BY <3>2 DEF HeaderKept
    <3> QED
      BY <3>1, <3>3, <3>4, Zenon DEF OwnHeader
  <2>2. \A k, l \in 1..(m - 1) : n + 2 < k /\ k < l => hs2[k].info < hs2[l].info
    <3>1. \A k \in 1..(m - 1) : hs2[k].info = hs[k].info
      BY <1>1 DEF HeaderKept
    <3> QED
      BY <1>1, <3>1 DEF OwnHeaders
  <2>3. m - 1 \in 0..m
    BY <1>1
  <2> HIDE DEF m, n
  <2> QED
    BY <1>1, <2>1, <2>2, <2>3 DEF OwnHeaders, n
<1>3. RelasAmong(o, hs2, m - 1, n + 1)
  <2>1. \A k \in 1..(m - 1) : hs2[k].info = hs[k].info
    BY <1>1 DEF HeaderKept
  <2> QED
    BY <2>1 DEF OwnTables, RelasAmong
<1>4. /\ hs2[m] \in HeaderType /\ hs2[m].name = 2 * m - 1 /\ hs2[m].size = Len(bs[m])
      /\ HeaderSays(hs2[m], "STRTAB", FALSE, 1, 0, 0)
  <2>1. HeaderKept(hs[m], hs2[m])
    BY <1>1
  <2>2. hs[m].name = 2 * m - 1 /\ hs[m].size = Len(bs[m]) /\ HeaderSays(hs[m], "STRTAB", FALSE, 1, 0, 0)
    BY DEF OwnTables
  <2> QED
    BY <2>1, <2>2 DEF HeaderKept, HeaderSays
<1>5. /\ NamesOf(o, bs[m], m - 1) /\ Len(bs[m]) = 1 + 2 * m
      /\ bs[m][2 * m] = "shstrtab" /\ bs[m][2 * m + 1] = Nul
  BY DEF OwnTables
<1> HIDE DEF m, n
<1>6. m >= n + 3 /\ nx = m /\ Len(hs2) = m
  BY <1>1
<1> QED
  BY <1>2, <1>3, <1>4, <1>5, <1>6, Zenon DEF OwnTables, n

LEMMA KeepsArranged ==
  ASSUME NEW o \in Object(Names), NEW sl, NEW hs, NEW hs2, NEW bs, NEW nx, NEW gone, NEW w,
         Arranged(o, sl, hs, bs, nx, gone, w), HeadersKept(hs, hs2), gone \subseteq DOMAIN o.secs
  PROVE  Arranged(o, sl, hs2, bs, nx, gone, w)
<1>1. /\ IsList(hs2) /\ DOMAIN hs2 = DOMAIN hs /\ Len(hs2) = Len(hs)
      /\ \A k \in DOMAIN hs : HeaderKept(hs[k], hs2[k])
  BY DEF HeadersKept
<1>2. \A k \in DOMAIN hs : hs2[k] \in HeaderType /\ hs2[k].type = hs[k].type /\ hs2[k].size = hs[k].size
                           /\ hs2[k].link = hs[k].link /\ hs2[k].info = hs[k].info
                           /\ hs2[k].name = hs[k].name /\ hs2[k].alloc = hs[k].alloc /\ hs2[k].align = hs[k].align
  BY <1>1 DEF HeaderKept
<1>3. /\ IsList(bs) /\ Len(bs) = Len(hs)
      /\ \A k \in DOMAIN hs : IsList(bs[k])
      /\ w \in [DOMAIN o.secs -> DOMAIN hs]
      /\ \A d, e \in DOMAIN o.secs : w[d] = w[e] => d = e
      /\ nx \in DOMAIN hs /\ hs[nx].type = "STRTAB" /\ bs[nx] # << >>
  BY DEF Arranged
<1>4. \A k \in DOMAIN hs2 : hs2[k].type # "NOBITS" => hs2[k].size = DiskSize(hs2[k].type, bs[k])
  BY <1>1, <1>2 DEF Arranged
<1>5. \A d \in DOMAIN o.secs \ gone :
        hs2[w[d]].type = "PROGBITS" /\ NamedSection(o.secs[d], hs2[w[d]], bs[w[d]], bs[nx])
  <2> SUFFICES ASSUME NEW d \in DOMAIN o.secs \ gone
               PROVE  hs2[w[d]].type = "PROGBITS" /\ NamedSection(o.secs[d], hs2[w[d]], bs[w[d]], bs[nx])
    OBVIOUS
  <2>1. w[d] \in DOMAIN hs
    BY <1>3
  <2>2. hs[w[d]].type = "PROGBITS" /\ NamedSection(o.secs[d], hs[w[d]], bs[w[d]], bs[nx])
    BY DEF Arranged
  <2> QED
    BY <1>2, <2>1, <2>2 DEF NamedSection
<1>6. \A d \in gone : hs2[w[d]].type = "NOBITS"
  <2>1. \A d \in gone : w[d] \in DOMAIN hs /\ hs[w[d]].type = "NOBITS"
    BY <1>3 DEF Arranged
  <2> QED
    BY <1>2, <2>1
<1>7. \A k \in DOMAIN hs2 : hs2[k].type = "PROGBITS" => \E d \in DOMAIN o.secs : w[d] = k
  BY <1>1, <1>2 DEF Arranged
<1>8. \E k \in DOMAIN hs2 :
       /\ \A l \in DOMAIN hs2 : hs2[l].type = "SYMTAB" <=> l = k
       /\ TableOf(o.syms, sl, w, bs[k])
       /\ hs2[k].link \in DOMAIN hs2 /\ hs2[hs2[k].link].type = "STRTAB"
       /\ StringsOf(o.syms, sl, bs[hs2[k].link])
  <2>1. PICK k \in DOMAIN hs :
          /\ \A l \in DOMAIN hs : hs[l].type = "SYMTAB" <=> l = k
          /\ TableOf(o.syms, sl, w, bs[k])
          /\ hs[k].link \in DOMAIN hs /\ hs[hs[k].link].type = "STRTAB"
          /\ StringsOf(o.syms, sl, bs[hs[k].link])
    BY DEF Arranged
  <2> QED
    BY <1>1, <1>2, <2>1
<1>9. \A k \in DOMAIN hs2 : hs2[k].type = "RELA" =>
       \E d \in DOMAIN o.secs :
         hs2[k].info = w[d] /\ o.secs[d].relas # << >> /\ bs[k] = RelasOf(o.secs[d].relas, sl)
  <2> SUFFICES ASSUME NEW k \in DOMAIN hs, hs2[k].type = "RELA"
               PROVE  \E d \in DOMAIN o.secs :
                        hs2[k].info = w[d] /\ o.secs[d].relas # << >> /\ bs[k] = RelasOf(o.secs[d].relas, sl)
    BY <1>1
  <2>1. hs[k].type = "RELA" /\ hs2[k].info = hs[k].info
    BY <1>2
  <2>2. PICK d \in DOMAIN o.secs :
          hs[k].info = w[d] /\ o.secs[d].relas # << >> /\ bs[k] = RelasOf(o.secs[d].relas, sl)
    BY <2>1 DEF Arranged
  <2> QED
    BY <2>1, <2>2
<1>10. \A k, l \in DOMAIN hs2 : hs2[k].type = "RELA" /\ hs2[l].type = "RELA" /\ hs2[k].info = hs2[l].info => k = l
  <2> SUFFICES ASSUME NEW k \in DOMAIN hs, NEW l \in DOMAIN hs,
                      hs2[k].type = "RELA", hs2[l].type = "RELA", hs2[k].info = hs2[l].info
               PROVE  k = l
    BY <1>1
  <2>1. hs[k].type = "RELA" /\ hs[l].type = "RELA" /\ hs[k].info = hs[l].info
    BY <1>2
  <2> QED
    BY <2>1 DEF Arranged
<1>11. \A d \in DOMAIN o.secs : o.secs[d].relas # << >> =>
         \E k \in DOMAIN hs2 : hs2[k].type = "RELA" /\ hs2[k].info = w[d]
  <2> SUFFICES ASSUME NEW d \in DOMAIN o.secs, o.secs[d].relas # << >>
               PROVE  \E k \in DOMAIN hs2 : hs2[k].type = "RELA" /\ hs2[k].info = w[d]
    OBVIOUS
  <2>1. PICK k \in DOMAIN hs : hs[k].type = "RELA" /\ hs[k].info = w[d]
    BY DEF Arranged
  <2> QED
    BY <1>1, <1>2, <2>1
<1> QED
  BY <1>1, <1>2, <1>3, <1>4, <1>5, <1>6, <1>7, <1>8, <1>9, <1>10, <1>11 DEF Arranged

(* The next body goes behind those before it. *)
LEMMA PlacesBody ==
  ASSUME FileInv, PlaceBody
  PROVE  FileInv'
<1> USE DEF objVars, symVars, readVars
<1> DEFINE m == Len(shdrs)
           h == [shdrs[i] EXCEPT !.off = Offset(i)]
<1>1. /\ obj \in Object(Names) /\ i \in Nat \ {0} /\ pc = "place" /\ pc' = pc /\ i <= m /\ i' = i + 1
      /\ UNCHANGED <<objVars, symVars, bodies, shstrndx>> /\ lost \subseteq DOMAIN obj.secs
      /\ shdrs' = [shdrs EXCEPT ![i].off = Offset(i)]
      /\ pos' = Offset(i) + SizeOf(i)
      /\ Laid(shdrs, bodies, i - 1) /\ pos = EndOf(shdrs, bodies, i - 1)
  BY DEF PlaceBody, FileInv, FileTyped, PlacesInv
<1>2. Drawn(shdrs, bodies)
  BY <1>1, ArrangedIsDrawn DEF Ordering, Heading
<1>3. m \in Nat /\ DOMAIN shdrs = 1..m /\ i \in DOMAIN shdrs /\ i - 1 \in 0..m /\ IsList(shdrs)
  BY <1>1, <1>2 DEF Drawn
<1>4. /\ \A k \in DOMAIN shdrs : BodySize(shdrs, bodies, k) \in Nat /\ shdrs[k].off \in Nat /\ shdrs[k].align \in Nat
      /\ \A k \in 0..m : EndOf(shdrs, bodies, k) \in Nat
  BY <1>2, EndIsNat
<1>5. Offset(i) \in Nat /\ pos <= Offset(i) /\ pos \in Nat /\ Offset(i) = RoundUp(pos, shdrs[i].align)
  <2>1. pos \in Nat /\ shdrs[i].align \in Nat
    BY <1>1, <1>3, <1>4
  <2> QED
    BY <2>1, RoundUpAligns DEF Offset
<1>6. h = shdrs'[i] /\ IsList(shdrs') /\ Len(shdrs') = m /\ DOMAIN shdrs' = DOMAIN shdrs
      /\ \A k \in DOMAIN shdrs : k # i => shdrs'[k] = shdrs[k]
  <2>1. shdrs' = [shdrs EXCEPT ![i] = h]
    BY <1>1
  <2> HIDE DEF h
  <2> QED
    BY <1>3, <2>1, ExceptIsList
<1>7. HeaderKept(shdrs[i], shdrs'[i]) /\ shdrs'[i].off = Offset(i)
  <2>1. PICK g : g = shdrs[i]
    OBVIOUS
  <2>2. g \in HeaderType
    BY <1>2, <1>3, <2>1 DEF Drawn
  <2>3. PICK x \in Nat : x = Offset(i)
    BY <1>5
  <2>4. shdrs'[i] = [g EXCEPT !.off = x]
    BY <1>6, <2>1, <2>3
  <2>5. HeaderKept(g, shdrs'[i]) /\ shdrs'[i].off = x
    <3>1. shdrs'[i] = [type |-> g.type, name |-> g.name, alloc |-> g.alloc, align |-> g.align, link |-> g.link,
                       info |-> g.info, off |-> x, size |-> g.size]
      BY <2>2, <2>4 DEF HeaderType
    <3> QED
      BY <2>2, <3>1 DEF HeaderKept, HeaderType
  <2> QED
    BY <2>1, <2>3, <2>5
<1>8. HeadersKept(shdrs, shdrs')
  <2>1. \A k \in DOMAIN shdrs : HeaderKept(shdrs[k], shdrs[k])
    BY <1>2 DEF Drawn, HeaderKept
  <2>2. \A k \in DOMAIN shdrs : HeaderKept(shdrs[k], shdrs'[k])
    BY <1>6, <1>7, <2>1, Zenon
  <2> QED
    BY <1>3, <1>6, <2>2 DEF HeadersKept
<1> HIDE DEF h
<1>9. ASSUME NEW k \in DOMAIN shdrs
      PROVE  BodySize(shdrs', bodies, k) = BodySize(shdrs, bodies, k)
  BY <1>8 DEF BodySize, HeadersKept, HeaderKept
<1>10. \A k \in 0..(i - 1) : EndOf(shdrs', bodies, k) = EndOf(shdrs, bodies, k) /\ EndOf(shdrs, bodies, k) \in Nat
  <2> SUFFICES ASSUME NEW k \in 0..(i - 1)
               PROVE  EndOf(shdrs', bodies, k) = EndOf(shdrs, bodies, k) /\ EndOf(shdrs, bodies, k) \in Nat
    OBVIOUS
  <2>1. EndOf(shdrs, bodies, k) \in Nat
    BY <1>1, <1>3, <1>4
  <2>2. CASE k = 0
    BY <2>1, <2>2 DEF EndOf
  <2>3. CASE k # 0
    <3>1. k \in DOMAIN shdrs /\ k # i
      BY <1>1, <1>3, <2>3
    <3> QED
      BY <1>6, <1>9, <2>1, <2>3, <3>1 DEF EndOf
  <2> QED
    BY <2>2, <2>3
<1>11. EndOf(shdrs', bodies, i) = Offset(i) + SizeOf(i)
  BY <1>1, <1>3, <1>7, <1>9 DEF EndOf, BodySize, SizeOf
<1>12. \A k \in 0..(i - 1) : EndOf(shdrs, bodies, k) <= Offset(i)
  <2> SUFFICES ASSUME NEW k \in 0..(i - 1)
               PROVE  EndOf(shdrs, bodies, k) <= Offset(i)
    OBVIOUS
  <2>1. CASE k = i - 1
    BY <1>1, <1>5, <2>1
  <2>2. CASE k # i - 1
    <3>1. k < i - 1 /\ i - 1 \in 1..(i - 1) /\ i - 1 \in DOMAIN shdrs /\ i - 1 # 0
      BY <1>1, <1>3, <2>2
    <3>2. EndOf(shdrs, bodies, k) <= shdrs[i - 1].off
      BY <1>1, <3>1 DEF Laid
    <3>3. EndOf(shdrs, bodies, i - 1) = shdrs[i - 1].off + BodySize(shdrs, bodies, i - 1)
      BY <3>1 DEF EndOf
    <3>4. shdrs[i - 1].off \in Nat /\ BodySize(shdrs, bodies, i - 1) \in Nat
      BY <1>4, <3>1
    <3>5. EndOf(shdrs, bodies, k) \in Nat
      BY <1>10
    <3>6. pos = shdrs[i - 1].off + BodySize(shdrs, bodies, i - 1)
      BY <1>1, <3>3
    <3> QED
      BY <1>5, <3>2, <3>4, <3>5, <3>6
  <2> QED
    BY <2>1, <2>2
<1>13. Laid(shdrs', bodies, i)
  <2>1. ASSUME NEW k \in 1..i
        PROVE  shdrs'[k].off = RoundUp(EndOf(shdrs', bodies, k - 1), shdrs'[k].align)
    <3>1. k \in DOMAIN shdrs /\ k - 1 \in 0..(i - 1)
      BY <1>1, <1>3
    <3>2. EndOf(shdrs', bodies, k - 1) = EndOf(shdrs, bodies, k - 1)
      BY <1>10, <3>1
    <3>3. CASE k = i
      <4>1. shdrs'[k].align = shdrs[k].align
        BY <1>7, <3>3 DEF HeaderKept
      <4> QED
        BY <1>1, <1>5, <1>7, <3>2, <3>3, <4>1
    <3>4. CASE k # i
      <4>1. k \in 1..(i - 1) /\ shdrs'[k] = shdrs[k]
        BY <1>1, <1>6, <3>1, <3>4
      <4> QED
        BY <1>1, <3>2, <4>1 DEF Laid
    <3> QED
      BY <3>3, <3>4
  <2>2. ASSUME NEW k \in 0..i, NEW j \in 1..i, k < j
        PROVE  EndOf(shdrs', bodies, k) <= shdrs'[j].off
    <3>1. k \in 0..(i - 1)
      BY <1>1, <2>2
    <3>2. EndOf(shdrs', bodies, k) = EndOf(shdrs, bodies, k)
      BY <1>10, <3>1
    <3>3. CASE j = i
      BY <1>7, <1>12, <3>1, <3>2, <3>3
    <3>4. CASE j # i
      <4>1. j \in 1..(i - 1) /\ j \in DOMAIN shdrs
        BY <1>1, <1>3, <3>4
      <4>2. shdrs'[j] = shdrs[j]
        BY <1>6, <3>4, <4>1
      <4> QED
        BY <1>1, <2>2, <3>1, <3>2, <4>1, <4>2 DEF Laid
    <3> QED
      BY <3>3, <3>4
  <2> QED
    BY <2>1, <2>2 DEF Laid
<1>14. FileTyped'
  <2>1. i' \in Nat \ {0}
    BY <1>1
  <2> QED
    BY <1>1, <2>1 DEF FileInv, FileTyped, Ordering, Heading
<1>15. SymbolsInv'
  BY <1>1 DEF FileInv, SymbolsInv, Heading
<1>16. TablesInv'
  <2>1. ~foreign => OwnTables(obj, slot, firstGlobal, shdrs', bodies, shstrndx)
    <3>1. ~foreign => OwnTables(obj, slot, firstGlobal, shdrs, bodies, shstrndx)
      BY <1>1 DEF FileInv, TablesInv, Ordering, Heading
    <3> QED
      BY <1>1, <1>8, <3>1, KeepsOwnTables
  <2>2. \E w \in [DOMAIN obj.secs -> DOMAIN shdrs'] : Arranged(obj, slot, shdrs', bodies, shstrndx, lost, w)
    <3>1. PICK w \in [DOMAIN obj.secs -> DOMAIN shdrs] : Arranged(obj, slot, shdrs, bodies, shstrndx, lost, w)
      BY <1>1 DEF FileInv, TablesInv, Ordering, Heading
    <3>2. Arranged(obj, slot, shdrs', bodies, shstrndx, lost, w)
      BY <1>1, <1>8, <3>1, KeepsArranged
    <3> QED
      BY <1>6, <3>1, <3>2
  <2> QED
    BY <1>1, <2>1, <2>2 DEF TablesInv, Heading, Ordering
<1>17. PlacesInv'
  <2>1. i' - 1 = i /\ i' <= Len(shdrs') + 1
    BY <1>1, <1>3, <1>6
  <2>2. Laid(shdrs', bodies', i' - 1) /\ pos' = EndOf(shdrs', bodies', i' - 1)
    BY <1>1, <1>11, <1>13, <2>1
  <2> QED
    BY <1>1, <2>1, <2>2 DEF PlacesInv, Ordering, Heading, Placed, Reading
<1>18. ReadInv'
  BY <1>1 DEF ReadInv, Reading
<1>19. EarlierInv'
  BY <1>1 DEF FileInv, EarlierInv
<1> QED
  BY <1>14, <1>15, <1>16, <1>17, <1>18, <1>19 DEF FileInv

(* What fwrite does to a file. *)
IsFile(f) ==
  f = [size |-> f.size, shoff |-> f.shoff, shnum |-> f.shnum, shstrndx |-> f.shstrndx, pieces |-> f.pieces]

PieceWritten(f, at, size, body, g) ==
  /\ IsFile(g) /\ g.shoff = f.shoff /\ g.shnum = f.shnum /\ g.shstrndx = f.shstrndx /\ IsList(g.pieces)
  /\ at + size <= room => /\ g.size = at + size
                          /\ Extended(f.pieces, [at |-> at, size |-> size, body |-> body], g.pieces)
  /\ ~(at + size <= room) => g.size = room

LEMMA WritesPiece ==
  ASSUME NEW f, IsFile(f), IsList(f.pieces), NEW at, NEW size, NEW body
  PROVE  PieceWritten(f, at, size, body, Written(f, at, size, body))
<1> DEFINE piece == [at |-> at, size |-> size, body |-> body]
           more == Append(f.pieces, piece)
<1>1. PICK g : g = Written(f, at, size, body)
  OBVIOUS
<1>2. Extended(f.pieces, piece, more) /\ IsList(more)
  <2> HIDE DEF piece
  <2>1. Extended(f.pieces, piece, more)
    BY AppendExtends
  <2> QED
    BY <2>1 DEF Extended
<1>3. CASE at + size <= room
  <2>1. g = [f EXCEPT !.size = at + size, !.pieces = more]
    BY <1>1, <1>3 DEF Written
  <2> HIDE DEF more
  <2>2. g = [size |-> at + size, shoff |-> f.shoff, shnum |-> f.shnum, shstrndx |-> f.shstrndx, pieces |-> more]
    BY <2>1 DEF IsFile
  <2>3. /\ g.size = at + size /\ g.shoff = f.shoff /\ g.shnum = f.shnum /\ g.shstrndx = f.shstrndx
        /\ g.pieces = more /\ IsFile(g)
    BY <2>2 DEF IsFile
  <2> HIDE DEF piece
  <2> QED
    BY <1>1, <1>2, <1>3, <2>3 DEF PieceWritten, piece
<1>4. CASE ~(at + size <= room)
  <2>1. g = [f EXCEPT !.size = room]
    BY <1>1, <1>4 DEF Written
  <2>2. g = [size |-> room, shoff |-> f.shoff, shnum |-> f.shnum, shstrndx |-> f.shstrndx, pieces |-> f.pieces]
    BY <2>1 DEF IsFile
  <2>3. /\ g.size = room /\ g.shoff = f.shoff /\ g.shnum = f.shnum /\ g.shstrndx = f.shstrndx
        /\ g.pieces = f.pieces /\ IsFile(g)
    BY <2>2 DEF IsFile
  <2> QED
    BY <1>1, <1>4, <2>3 DEF PieceWritten
<1> QED
  BY <1>3, <1>4

(* Steps of a file whose headers are placed keep all but the file. *)
LEMMA FileStep ==
  ASSUME FileInv, pc \notin Ordering, pc' \in Placed \ Reading, i' \in Nat \ {0},
         UNCHANGED <<objVars, symVars, tabVars>>, PlacesInv'
  PROVE  FileInv'
<1> USE DEF objVars, symVars, tabVars
<1>1. FileTyped'
  BY DEF FileInv, FileTyped, Placed, Reading, Ordering, Heading
<1>2. SymbolsInv'
  BY DEF FileInv, SymbolsInv, Heading, Placed, Ordering
<1>3. TablesInv'
  BY DEF FileInv, TablesInv, Heading, Ordering, Placed
<1>4. ReadInv'
  BY DEF ReadInv
<1>5. EarlierInv'
  BY DEF FileInv, EarlierInv
<1> QED
  BY <1>1, <1>2, <1>3, <1>4, <1>5 DEF FileInv

LEMMA EndsPlacing ==
  ASSUME FileInv, PlacingDone
  PROVE  FileInv'
<1> DEFINE m == Len(shdrs)
<1>1. /\ i \in Nat \ {0} /\ pc = "place" /\ pc' = "emit" /\ i' = 1 /\ i > m /\ i <= m + 1 /\ room \in Nat
      /\ UNCHANGED <<objVars, symVars, tabVars>> /\ shoff' = RoundUp(pos, 8) /\ pos' = EhdrSize
      /\ file' = [size |-> IF EhdrSize <= room THEN EhdrSize ELSE room, shoff |-> shoff',
                  shnum |-> m + 1, shstrndx |-> shstrndx, pieces |-> << >>]
      /\ Laid(shdrs, bodies, i - 1) /\ pos = EndOf(shdrs, bodies, i - 1)
  BY DEF PlacingDone, FileInv, FileTyped, PlacesInv
<1>2. Drawn(shdrs, bodies) /\ m \in Nat
  BY <1>1, ArrangedIsDrawn DEF Ordering, Heading, Drawn
<1>3. i - 1 = m
  BY <1>1, <1>2
<1>4. shoff' = HeadersAt(shdrs, bodies) /\ pos' = EndOf(shdrs, bodies, 0)
  BY <1>1, <1>3 DEF HeadersAt, EndOf
<1>5. /\ file' = [size |-> file'.size, shoff |-> shoff', shnum |-> m + 1,
                  shstrndx |-> shstrndx, pieces |-> file'.pieces]
      /\ IsList(file'.pieces) /\ Len(file'.pieces) = 0
      /\ EhdrSize <= room => file'.size = EhdrSize
      /\ EhdrSize > room => file'.size = room
  <2>1. file'.pieces = << >>
    BY <1>1
  <2>2. EhdrSize <= room => file'.size = EhdrSize
    BY <1>1
  <2>3. EhdrSize > room => file'.size = room
    BY <1>1 DEF EhdrSize
  <2>4. file' = [size |-> file'.size, shoff |-> shoff', shnum |-> m + 1,
                 shstrndx |-> shstrndx, pieces |-> file'.pieces]
    BY <1>1
  <2> QED
    BY <2>1, <2>2, <2>3, <2>4, EmptyIsList, Zenon
<1>6. PlacesInv'
  <2>1. Laid(shdrs, bodies, m)' /\ i' <= m + 1 /\ i' - 1 = 0
    BY <1>1, <1>2, <1>3 DEF tabVars
  <2>2. shdrs' = shdrs /\ bodies' = bodies /\ shstrndx' = shstrndx /\ room' = room
    BY <1>1 DEF tabVars, objVars
  <2> HIDE DEF m
  <2> QED
    BY <1>1, <1>4, <1>5, <2>1, <2>2 DEF PlacesInv, Ordering, Heading, Placed, Reading, m
<1> QED
  <2>1. pc \notin Ordering /\ pc' \in Placed \ Reading /\ i' \in Nat \ {0}
    BY <1>1 DEF Ordering, Heading, Placed, Reading
  <2> QED
    BY <1>1, <1>6, <2>1, FileStep

(* What is on disk after the first n bodies. *)
EmitFacts(n) ==
  /\ pos = EndOf(shdrs, bodies, n) /\ pos \in Nat
  /\ IsFile(file) /\ file.shoff = shoff /\ file.shnum = Len(shdrs) + 1 /\ file.shstrndx = shstrndx
  /\ IsList(file.pieces)
  /\ pos <= room => /\ file.size = pos /\ Len(file.pieces) = n
                    /\ \A k \in 1..n : file.pieces[k] = PieceOf(shdrs, bodies, k)
  /\ Drawn(shdrs, bodies) /\ Laid(shdrs, bodies, Len(shdrs)) /\ shoff = HeadersAt(shdrs, bodies)
  /\ n \in Nat /\ n <= Len(shdrs) /\ room \in Nat

LEMMA EmitState ==
  ASSUME FileInv, pc = "emit"
  PROVE  EmitFacts(i - 1)
<1>1. Drawn(shdrs, bodies)
  BY ArrangedIsDrawn DEF Ordering, Heading
<1>2. /\ i \in Nat \ {0} /\ i <= Len(shdrs) + 1 /\ pos = EndOf(shdrs, bodies, i - 1) /\ room \in Nat
      /\ file = [size |-> file.size, shoff |-> shoff, shnum |-> Len(shdrs) + 1,
                 shstrndx |-> shstrndx, pieces |-> file.pieces]
      /\ IsList(file.pieces)
      /\ pos <= room => /\ file.size = pos /\ Len(file.pieces) = i - 1
                        /\ \A k \in 1..(i - 1) : file.pieces[k] = PieceOf(shdrs, bodies, k)
      /\ Laid(shdrs, bodies, Len(shdrs)) /\ shoff = HeadersAt(shdrs, bodies)
  BY DEF FileInv, FileTyped, PlacesInv, Placed
<1>3. i - 1 \in Nat /\ i - 1 <= Len(shdrs) /\ i - 1 \in 0..Len(shdrs)
  BY <1>1, <1>2 DEF Drawn
<1>4. pos \in Nat
  BY <1>1, <1>2, <1>3, EndIsNat
<1>5. file.shoff = shoff /\ file.shnum = Len(shdrs) + 1 /\ file.shstrndx = shstrndx /\ IsFile(file)
  BY <1>2 DEF IsFile
<1> QED
  BY <1>1, <1>2, <1>3, <1>4, <1>5 DEF EmitFacts

LEMMA EmitsBody ==
  ASSUME FileInv, EmitBody
  PROVE  FileInv'
<1> DEFINE at == PaddedTo(shdrs[i].off)
           size == SizeOf(i)
           m == Len(shdrs)
<1>1. /\ pc = "emit" /\ pc' = "emit" /\ i <= m /\ i' = i + 1 /\ i \in Nat \ {0}
      /\ file' = Written(file, at, size, bodies[i]) /\ pos' = at + size
      /\ UNCHANGED <<objVars, symVars, tabVars, shoff>>
  BY DEF EmitBody, FileInv, FileTyped
<1>2. EmitFacts(i - 1)
  BY <1>1, EmitState
<1>3. /\ m \in Nat /\ i \in 1..m /\ i \in DOMAIN shdrs /\ i - 1 \in 0..m /\ room \in Nat /\ pos \in Nat
  BY <1>1, <1>2 DEF EmitFacts, Drawn
<1>4. at = shdrs[i].off /\ pos <= at /\ at \in Nat /\ size \in Nat /\ size = BodySize(shdrs, bodies, i)
  <2>1. shdrs[i].off \in Nat /\ BodySize(shdrs, bodies, i) \in Nat
    BY <1>2, <1>3, EndIsNat DEF EmitFacts
  <2>2. pos <= shdrs[i].off
    <3>1. i - 1 < i
      BY <1>3
    <3> QED
      BY <1>2, <1>3, <3>1 DEF EmitFacts, Laid
  <2> QED
    BY <1>3, <2>1, <2>2 DEF PaddedTo, SizeOf, BodySize
<1> HIDE DEF at, size
<1>5. PieceWritten(file, at, size, bodies[i], file')
  BY <1>1, <1>2, WritesPiece DEF EmitFacts
<1>6. pos' = EndOf(shdrs, bodies, i) /\ [at |-> at, size |-> size, body |-> bodies[i]] = PieceOf(shdrs, bodies, i)
  BY <1>1, <1>3, <1>4 DEF EndOf, PieceOf
<1>7. /\ pos' <= room => /\ file'.size = pos' /\ Len(file'.pieces) = i
                         /\ \A k \in 1..i : file'.pieces[k] = PieceOf(shdrs, bodies, k)
      /\ pos' > room => file'.size = room
  <2>1. ASSUME pos' <= room
        PROVE  /\ file'.size = pos' /\ Len(file'.pieces) = i
               /\ \A k \in 1..i : file'.pieces[k] = PieceOf(shdrs, bodies, k)
    <3>1. pos <= room /\ at + size <= room
      BY <1>1, <1>3, <1>4, <2>1
    <3>2. Len(file.pieces) = i - 1 /\ \A k \in 1..(i - 1) : file.pieces[k] = PieceOf(shdrs, bodies, k)
      BY <1>2, <3>1 DEF EmitFacts
    <3>3. file'.size = at + size /\ Extended(file.pieces, PieceOf(shdrs, bodies, i), file'.pieces)
      BY <1>5, <1>6, <3>1 DEF PieceWritten
    <3>4. /\ Len(file'.pieces) = i /\ file'.pieces[i] = PieceOf(shdrs, bodies, i)
          /\ \A k \in 1..(i - 1) : file'.pieces[k] = file.pieces[k]
      <4>1. /\ Len(file'.pieces) = Len(file.pieces) + 1
            /\ file'.pieces[Len(file.pieces) + 1] = PieceOf(shdrs, bodies, i)
            /\ \A k \in 1..Len(file.pieces) : file'.pieces[k] = file.pieces[k]
        BY <3>3 DEF Extended
      <4>2. Len(file.pieces) + 1 = i
        BY <1>3, <3>2
      <4> QED
        BY <3>2, <4>1, <4>2, Zenon
    <3>5. \A k \in 1..i : k = i \/ k \in 1..(i - 1)
      BY <1>3
    <3> QED
      BY <1>1, <3>2, <3>3, <3>4, <3>5
  <2>2. ASSUME pos' > room
        PROVE  file'.size = room
    BY <1>1, <1>3, <1>4, <1>5, <2>2 DEF PieceWritten
  <2> QED
    BY <2>1, <2>2
<1>8. /\ file' = [size |-> file'.size, shoff |-> shoff', shnum |-> Len(shdrs') + 1,
                  shstrndx |-> shstrndx', pieces |-> file'.pieces]
      /\ IsList(file'.pieces)
  <2>1. shoff' = shoff /\ shdrs' = shdrs /\ shstrndx' = shstrndx
    BY <1>1 DEF tabVars
  <2>2. /\ IsFile(file') /\ file'.shoff = file.shoff /\ file'.shnum = file.shnum /\ file'.shstrndx = file.shstrndx
        /\ IsList(file'.pieces)
    BY <1>5 DEF PieceWritten
  <2>3. file.shoff = shoff /\ file.shnum = Len(shdrs) + 1 /\ file.shstrndx = shstrndx
    BY <1>2 DEF EmitFacts
  <2> QED
    BY <2>1, <2>2, <2>3, Zenon DEF IsFile
<1>9. PlacesInv'
  <2>1. i' - 1 = i /\ i' <= m + 1
    BY <1>1, <1>3
  <2>2. shdrs' = shdrs /\ bodies' = bodies /\ room' = room /\ shoff' = shoff
    BY <1>1 DEF tabVars, objVars
  <2>3. Laid(shdrs, bodies, m) /\ shoff = HeadersAt(shdrs, bodies)
    BY <1>2 DEF EmitFacts
  <2> HIDE DEF m
  <2> QED
    BY <1>1, <1>6, <1>7, <1>8, <2>1, <2>2, <2>3 DEF PlacesInv, Ordering, Heading, Placed, Reading, m
<1> QED
  <2>1. pc \notin Ordering /\ pc' \in Placed \ Reading /\ i' \in Nat \ {0}
    BY <1>1 DEF Ordering, Heading, Placed, Reading
  <2> QED
    BY <1>1, <1>9, <2>1, FileStep

LEMMA EmitsHeaders ==
  ASSUME FileInv, EmitHeaders
  PROVE  FileInv'
<1> DEFINE at == PaddedTo(shoff)
           m == Len(shdrs)
           size == ShdrSize * (m + 1)
<1>1. /\ pc = "emit" /\ pc' = "written" /\ i > m /\ i' = 1 /\ i \in Nat \ {0}
      /\ file' = Written(file, at, size, shdrs) /\ pos' = at + size
      /\ UNCHANGED <<objVars, symVars, tabVars, shoff>>
  BY DEF EmitHeaders, FileInv, FileTyped
<1>2. EmitFacts(m)
  <2>1. EmitFacts(i - 1)
    BY <1>1, EmitState
  <2>2. i - 1 = m
    BY <1>1, <2>1 DEF EmitFacts, Drawn
  <2> QED
    BY <2>1, <2>2
<1>3. m \in Nat /\ room \in Nat /\ pos \in Nat
  BY <1>2 DEF EmitFacts, Drawn
<1>4. at = shoff /\ pos <= at /\ at \in Nat /\ size \in Nat /\ size = HeadersSize(shdrs)
  <2>1. shoff = RoundUp(pos, 8)
    BY <1>2 DEF EmitFacts, HeadersAt
  <2>2. shoff \in Nat /\ pos <= shoff
    BY <1>3, <2>1, RoundUpAligns
  <2> QED
    BY <1>3, <2>2 DEF PaddedTo, HeadersSize, ShdrSize
<1> HIDE DEF at, size
<1>5. PieceWritten(file, at, size, shdrs, file')
  BY <1>1, <1>2, WritesPiece DEF EmitFacts
<1>6. [at |-> at, size |-> size, body |-> shdrs] = PieceOf(shdrs, bodies, m + 1)
  <2>1. ~(m + 1 <= m)
    BY <1>3
  <2> QED
    BY <1>2, <1>4, <2>1 DEF PieceOf, EmitFacts
<1>7. ASSUME Whole'
      PROVE  file' = FileOf(shdrs, bodies, shstrndx)
  <2>1. file'.size = pos'
    BY <1>7 DEF Whole
  <2>2. at + size <= room /\ pos <= room
    BY <1>1, <1>3, <1>4, <1>5, <2>1 DEF PieceWritten
  <2>3. Len(file.pieces) = m /\ \A k \in 1..m : file.pieces[k] = PieceOf(shdrs, bodies, k)
    BY <1>2, <2>2 DEF EmitFacts
  <2>4. file'.size = at + size /\ Extended(file.pieces, PieceOf(shdrs, bodies, m + 1), file'.pieces)
    BY <1>5, <1>6, <2>2 DEF PieceWritten
  <2>5. /\ Len(file'.pieces) = m + 1 /\ file'.pieces[m + 1] = PieceOf(shdrs, bodies, m + 1)
        /\ \A k \in 1..m : file'.pieces[k] = file.pieces[k]
    BY <2>3, <2>4 DEF Extended
  <2> DEFINE ps == [k \in 1..(m + 1) |-> PieceOf(shdrs, bodies, k)]
  <2>6. file'.pieces = ps
    <3>1. IsList(file'.pieces) /\ DOMAIN file'.pieces = 1..(m + 1)
      BY <1>5, <2>5, ListProperties DEF PieceWritten
    <3>2. file'.pieces = [k \in DOMAIN file'.pieces |-> file'.pieces[k]]
      BY <3>1 DEF IsList
    <3>3. \A k \in 1..(m + 1) : file'.pieces[k] = PieceOf(shdrs, bodies, k)
      <4>1. \A k \in 1..(m + 1) : k = m + 1 \/ k \in 1..m
        BY <1>3
      <4> QED
        BY <2>3, <2>5, <4>1
    <3> QED
      BY <3>1, <3>2, <3>3
  <2>7. file'.shoff = shoff /\ file'.shnum = m + 1 /\ file'.shstrndx = shstrndx /\ IsFile(file')
    BY <1>2, <1>5 DEF EmitFacts, PieceWritten
  <2>8. file'.size = HeadersAt(shdrs, bodies) + HeadersSize(shdrs) /\ shoff = HeadersAt(shdrs, bodies)
    BY <1>2, <1>4, <2>4 DEF EmitFacts
  <2> HIDE DEF m
  <2> QED
    BY <2>6, <2>7, <2>8 DEF FileOf, IsFile, m
<1>8. PlacesInv'
  <2>1. shdrs' = shdrs /\ bodies' = bodies /\ shstrndx' = shstrndx /\ shoff' = shoff
    BY <1>1 DEF tabVars
  <2>2. Laid(shdrs, bodies, m) /\ shoff = HeadersAt(shdrs, bodies)
    BY <1>2 DEF EmitFacts
  <2> QED
    BY <1>1, <1>7, <2>1, <2>2 DEF PlacesInv, Ordering, Heading, Placed, Reading
<1> QED
  <2>1. pc \notin Ordering /\ pc' \in Placed \ Reading /\ i' \in Nat \ {0}
    BY <1>1 DEF Ordering, Heading, Placed, Reading
  <2> QED
    BY <1>1, <1>8, <2>1, FileStep

LEMMA RefusesFile ==
  ASSUME FileInv, ReadRefused
  PROVE  FileInv'
<1>1. PlacesInv'
  BY DEF ReadRefused, fileVars, tabVars, FileInv, PlacesInv, Ordering, Heading, Placed, Reading
<1>2. pc \notin Ordering /\ pc' \in Placed \ Reading /\ i' \in Nat \ {0} /\ UNCHANGED <<objVars, symVars, tabVars>>
  BY DEF ReadRefused, Ordering, Heading, Placed, Reading, FileInv, FileTyped, fileVars
<1> QED
  BY <1>1, <1>2, FileStep

-----------------------------------------------------------------------------
(* The reader finds what was written.                                      *)

LEMMA WholeList ==
  ASSUME NEW s, IsList(s)
  PROVE  SubSeq(s, 1, Len(s)) = s
<1>1. Len(s) \in Nat /\ DOMAIN s = 1..Len(s)
  BY ListProperties
<1> DEFINE T == {s[j] : j \in DOMAIN s}
           t == SubSeq(s, 1, Len(s))
<1>2. \A j \in 1..Len(s) : s[j] \in T
  BY <1>1
<1>3. /\ t \in Seq(T) /\ Len(t) = IF 1 <= Len(s) THEN Len(s) - 1 + 1 ELSE 0
      /\ \A j \in 1..(Len(s) - 1 + 1) : t[j] = s[1 + j - 1]
  <2> HIDE DEF T
  <2> QED
    BY <1>1, <1>2, SubSeqProperties
<1> HIDE DEF t, T
<1>4. IsList(t) /\ Len(t) = Len(s) /\ \A j \in DOMAIN s : s[j] = t[j]
  <2>1. IsList(t)
    BY <1>3, SeqIsList
  <2>2. Len(t) = Len(s)
    BY <1>1, <1>3
  <2>3. \A j \in 1..Len(s) : j \in 1..(Len(s) - 1 + 1) /\ 1 + j - 1 = j
    BY <1>1
  <2> QED
    BY <1>1, <1>3, <2>1, <2>2, <2>3
<1>5. s = t
  BY <1>4, ListElements
<1> QED
  BY <1>5 DEF t

LEMMA NothingRead ==
  ASSUME NEW s
  PROVE  SubSeq(s, 1, 0) = << >>
BY SubSeqEmpty

(* What the file says. *)
FoundAgain ==
  /\ Headers = shdrs /\ file.shnum - 1 = Len(shdrs) /\ file.shstrndx = shstrndx
  /\ Drawn(shdrs, bodies)
  /\ \A k \in DOMAIN shdrs : BodySize(shdrs, bodies, k) > 0 => At(shdrs[k].off) = bodies[k]

(* Nothing but a body lies where the body lies. *)
LEMMA PiecesApart ==
  ASSUME FileInv, pc \in Placed, file = FileOf(shdrs, bodies, shstrndx)
  PROVE  /\ DOMAIN file.pieces = 1..(Len(shdrs) + 1)
         /\ \A k \in DOMAIN file.pieces : file.pieces[k] = PieceOf(shdrs, bodies, k)
         /\ \A j, k \in DOMAIN file.pieces :
              /\ PieceOf(shdrs, bodies, j).size > 0 /\ PieceOf(shdrs, bodies, k).size > 0
              /\ PieceOf(shdrs, bodies, j).at = PieceOf(shdrs, bodies, k).at
              => j = k
<1> DEFINE m == Len(shdrs)
           pieces == [k \in 1..(m + 1) |-> PieceOf(shdrs, bodies, k)]
<1>1. Drawn(shdrs, bodies) /\ Laid(shdrs, bodies, m)
  <2>1. pc \notin Ordering
    BY DEF Placed, Reading, Ordering, Heading
  <2> QED
    BY <2>1, ArrangedIsDrawn DEF FileInv, PlacesInv
<1>2. m \in Nat /\ DOMAIN shdrs = 1..m
  BY <1>1 DEF Drawn
<1>3. file.pieces = pieces
  BY DEF FileOf
<1>4. /\ \A k \in 1..m : BodySize(shdrs, bodies, k) \in Nat /\ shdrs[k].off \in Nat
      /\ \A k \in 0..m : EndOf(shdrs, bodies, k) \in Nat
  BY <1>1, <1>2, EndIsNat
<1>5. \A k \in 1..m : EndOf(shdrs, bodies, k) = shdrs[k].off + BodySize(shdrs, bodies, k)
  BY <1>2 DEF EndOf
<1>6. EndOf(shdrs, bodies, m) <= HeadersAt(shdrs, bodies) /\ HeadersAt(shdrs, bodies) \in Nat
  <2>1. EndOf(shdrs, bodies, m) \in Nat
    BY <1>2, <1>4
  <2> QED
    BY <2>1, RoundUpAligns DEF HeadersAt
<1> DEFINE at(k) == PieceOf(shdrs, bodies, k).at
           size(k) == PieceOf(shdrs, bodies, k).size
<1>7. /\ \A k \in 1..m : at(k) = shdrs[k].off /\ size(k) = BodySize(shdrs, bodies, k)
      /\ at(m + 1) = HeadersAt(shdrs, bodies)
  BY <1>2 DEF PieceOf
<1> HIDE DEF at, size
<1>8. ASSUME NEW j \in 1..(m + 1), NEW k \in 1..(m + 1), j < k, size(j) > 0
      PROVE  at(j) < at(k)
  <2>1. j \in 1..m /\ EndOf(shdrs, bodies, j) \in Nat /\ shdrs[j].off \in Nat /\ BodySize(shdrs, bodies, j) \in Nat
    BY <1>2, <1>4, <1>8
  <2>2. at(j) < EndOf(shdrs, bodies, j) /\ at(j) \in Nat
    BY <1>5, <1>7, <1>8, <2>1
  <2>3. CASE k \in 1..m
    <3>1. EndOf(shdrs, bodies, j) <= shdrs[k].off /\ shdrs[k].off \in Nat
      BY <1>1, <1>2, <1>4, <1>8, <2>1, <2>3 DEF Laid
    <3> QED
      BY <1>7, <2>1, <2>2, <2>3, <3>1
  <2>4. CASE k = m + 1
    <3>1. EndOf(shdrs, bodies, j) <= EndOf(shdrs, bodies, m)
      <4>1. CASE j = m
        BY <2>1, <4>1
      <4>2. CASE j # m
        <5>1. j < m /\ m \in 1..m
          <6>1. \A n \in Nat : \A x \in 1..n : x # n => x < n /\ n \in 1..n
            OBVIOUS
          <6> QED
            BY <1>2, <2>1, <4>2, <6>1, Zenon
        <5>2. EndOf(shdrs, bodies, j) <= shdrs[m].off
          BY <1>1, <1>2, <2>1, <5>1 DEF Laid
        <5>3. shdrs[m].off \in Nat /\ BodySize(shdrs, bodies, m) \in Nat
              /\ EndOf(shdrs, bodies, m) = shdrs[m].off + BodySize(shdrs, bodies, m)
          BY <1>4, <1>5, <5>1
        <5> QED
          BY <2>1, <5>2, <5>3
      <4> QED
        BY <4>1, <4>2
    <3>2. EndOf(shdrs, bodies, m) \in Nat /\ at(k) = HeadersAt(shdrs, bodies)
      BY <1>2, <1>4, <1>7, <2>4
    <3> QED
      BY <1>6, <2>1, <2>2, <3>1, <3>2
  <2>5. k \in 1..m \/ k = m + 1
    BY <1>2
  <2> QED
    BY <2>3, <2>4, <2>5
<1>9. \A k \in 1..(m + 1) : at(k) \in Nat
  BY <1>2, <1>4, <1>6, <1>7
<1>10. ASSUME NEW j \in 1..(m + 1), NEW k \in 1..(m + 1), size(j) > 0, size(k) > 0, at(j) = at(k)
       PROVE  j = k
  <2>1. ~(j < k)
    BY <1>8, <1>9, <1>10
  <2>2. ~(k < j)
    BY <1>8, <1>9, <1>10
  <2> QED
    BY <1>2, <2>1, <2>2
<1> QED
  BY <1>3, <1>10 DEF at, size

LEMMA FindsPieces ==
  ASSUME FileInv, pc \in Placed, file = FileOf(shdrs, bodies, shstrndx),
         NEW k \in 1..(Len(shdrs) + 1), PieceOf(shdrs, bodies, k).size > 0
  PROVE  At(PieceOf(shdrs, bodies, k).at) = PieceOf(shdrs, bodies, k).body
<1>1. /\ DOMAIN file.pieces = 1..(Len(shdrs) + 1)
      /\ \A j \in DOMAIN file.pieces : file.pieces[j] = PieceOf(shdrs, bodies, j)
      /\ \A j, l \in DOMAIN file.pieces :
              /\ PieceOf(shdrs, bodies, j).size > 0 /\ PieceOf(shdrs, bodies, l).size > 0
              /\ PieceOf(shdrs, bodies, j).at = PieceOf(shdrs, bodies, l).at
              => j = l
  BY PiecesApart
<1> DEFINE here == {p \in DOMAIN file.pieces :
                      file.pieces[p].at = PieceOf(shdrs, bodies, k).at /\ file.pieces[p].size > 0}
<1>2. here = {k}
  <2>1. k \in here
    BY <1>1
  <2>2. \A p \in here : p = k
    BY <1>1
  <2> HIDE DEF here
  <2> QED
    BY <2>1, <2>2
<1> HIDE DEF here
<1>3. First(here) = k /\ here # {}
  <2>1. k \in Nat \ {0}
    OBVIOUS
  <2>2. here \in SUBSET (Nat \ {0}) /\ here # {}
    BY <1>2, <2>1
  <2>3. First(here) \in here
    BY <2>2, FirstIsLeast
  <2> QED
    BY <1>2, <2>3
<1>4. At(PieceOf(shdrs, bodies, k).at) = file.pieces[First(here)].body
  BY <1>3 DEF At, here
<1> QED
  BY <1>1, <1>3, <1>4

LEMMA FindsFile ==
  ASSUME FileInv, pc \in Placed, file = FileOf(shdrs, bodies, shstrndx)
  PROVE  FoundAgain
<1> DEFINE m == Len(shdrs)
<1>1. Drawn(shdrs, bodies)
  <2>1. pc \notin Ordering
    BY DEF Placed, Reading, Ordering, Heading
  <2> QED
    BY <2>1, ArrangedIsDrawn
<1>2. m \in Nat /\ DOMAIN shdrs = 1..m
  BY <1>1 DEF Drawn
<1>3. Headers = shdrs
  <2>1. ~(m + 1 <= m) /\ m + 1 \in 1..(m + 1) /\ HeadersSize(shdrs) > 0
    BY <1>2 DEF HeadersSize, ShdrSize
  <2> DEFINE piece == PieceOf(shdrs, bodies, m + 1)
  <2>2. piece.at = HeadersAt(shdrs, bodies) /\ piece.size = HeadersSize(shdrs) /\ piece.body = shdrs
    BY <2>1 DEF PieceOf
  <2>3. file.shoff = HeadersAt(shdrs, bodies)
    BY DEF FileOf
  <2> HIDE DEF piece
  <2>4. At(piece.at) = piece.body
    BY <2>1, <2>2, FindsPieces DEF piece
  <2> QED
    BY <2>2, <2>3, <2>4 DEF Headers
<1>4. ASSUME NEW k \in DOMAIN shdrs, BodySize(shdrs, bodies, k) > 0
      PROVE  At(shdrs[k].off) = bodies[k]
  <2> DEFINE piece == PieceOf(shdrs, bodies, k)
  <2>1. k \in 1..(m + 1) /\ k <= m
    BY <1>2
  <2>2. piece.at = shdrs[k].off /\ piece.size = BodySize(shdrs, bodies, k) /\ piece.body = bodies[k]
    BY <2>1 DEF PieceOf
  <2> HIDE DEF piece
  <2>3. At(piece.at) = piece.body
    BY <1>4, <2>1, <2>2, FindsPieces DEF piece
  <2> QED
    BY <2>2, <2>3
<1>5. file.shnum - 1 = m /\ file.shstrndx = shstrndx
  BY <1>2 DEF FileOf
<1> QED
  BY <1>1, <1>3, <1>4, <1>5 DEF FoundAgain

-----------------------------------------------------------------------------
(* Reading.                                                                *)

LEMMA HeaderOfFacts ==
  ASSUME FileInv, pc \notin Ordering
  PROVE  /\ HeaderOf \in [DOMAIN obj.secs -> DOMAIN shdrs]
         /\ Arranged(obj, slot, shdrs, bodies, shstrndx, lost, HeaderOf)
         /\ ~foreign => HeaderOf = Identity(Len(obj.secs)) /\ lost = {}
<1>1. CASE foreign
  <2>1. \E w \in [DOMAIN obj.secs -> DOMAIN shdrs] : Arranged(obj, slot, shdrs, bodies, shstrndx, lost, w)
    BY DEF FileInv, TablesInv
  <2>2. HeaderOf = CHOOSE w \in [DOMAIN obj.secs -> DOMAIN shdrs] : Arranged(obj, slot, shdrs, bodies, shstrndx, lost, w)
    BY <1>1 DEF HeaderOf, HeaderIn
  <2> QED
    BY <1>1, <2>1, <2>2, Zenon
<1>2. CASE ~foreign
  <2>1. /\ obj \in Object(Names) /\ lost = {}
        /\ OwnTables(obj, slot, firstGlobal, shdrs, bodies, shstrndx)
    BY <1>2 DEF FileInv, FileTyped, TablesInv
  <2>2. HeaderOf = Identity(Len(obj.secs))
    BY <1>2 DEF HeaderOf, HeaderIn
  <2> QED
    BY <2>1, <2>2, OwnIsArranged
<1> QED
  BY <1>1, <1>2 DEF FileInv, FileTyped

(* Steps of the reader keep all but what it builds. *)
LEMMA ReadStep ==
  ASSUME FileInv, pc \in Placed, pc' \in Reading, i' \in Nat \ {0}, file = FileOf(shdrs, bodies, shstrndx),
         UNCHANGED <<objVars, symVars, fileVars>>, ReadInv'
  PROVE  FileInv'
<1> USE DEF objVars, symVars, fileVars, tabVars
<1>1. FileTyped'
  BY DEF FileInv, FileTyped, Placed, Reading, Ordering, Heading
<1>2. SymbolsInv'
  BY DEF FileInv, SymbolsInv, Heading, Placed, Ordering, Reading
<1>3. TablesInv'
  BY DEF FileInv, TablesInv, Heading, Ordering, Placed, Reading
<1>4. PlacesInv'
  BY DEF FileInv, PlacesInv, Heading, Ordering, Placed, Reading
<1>5. EarlierInv'
  BY DEF FileInv, EarlierInv
<1> QED
  BY <1>1, <1>2, <1>3, <1>4, <1>5 DEF FileInv

(* What the steps of the reader know. *)
ReadState ==
  /\ obj \in Object(Names) /\ Aligned(obj) /\ i \in Nat \ {0}
  /\ Slotted(obj.syms, slot, firstGlobal)
  /\ HeaderOf \in [DOMAIN obj.secs -> DOMAIN shdrs]
  /\ Arranged(obj, slot, shdrs, bodies, shstrndx, lost, HeaderOf)
  /\ ~foreign => HeaderOf = Identity(Len(obj.secs)) /\ lost = {}
  /\ ~foreign => OwnTables(obj, slot, firstGlobal, shdrs, bodies, shstrndx)
  /\ FoundAgain /\ file = FileOf(shdrs, bodies, shstrndx)
  /\ Len(obj.secs) \in Nat /\ DOMAIN obj.secs = 1..Len(obj.secs)
  /\ Len(obj.syms) \in Nat /\ DOMAIN obj.syms = 1..Len(obj.syms)
  /\ Len(shdrs) \in Nat /\ DOMAIN shdrs = 1..Len(shdrs)

LEMMA ReadStateHolds ==
  ASSUME FileInv, pc \in Placed, file = FileOf(shdrs, bodies, shstrndx)
  PROVE  ReadState
<1>1. pc \notin Ordering /\ pc \notin Heading /\ pc \notin {"open", "failed", "locals", "globals"}
  BY DEF Placed, Reading, Ordering, Heading
<1>2. /\ obj \in Object(Names) /\ Aligned(obj) /\ i \in Nat \ {0} /\ Slotted(obj.syms, slot, firstGlobal)
      /\ ~foreign => OwnTables(obj, slot, firstGlobal, shdrs, bodies, shstrndx)
  BY <1>1 DEF FileInv, FileTyped, SymbolsInv, TablesInv
<1>3. FoundAgain
  BY FindsFile
<1>4. /\ Len(obj.secs) \in Nat /\ DOMAIN obj.secs = 1..Len(obj.secs)
      /\ Len(obj.syms) \in Nat /\ DOMAIN obj.syms = 1..Len(obj.syms)
      /\ Len(shdrs) \in Nat /\ DOMAIN shdrs = 1..Len(shdrs)
  BY <1>2, <1>3, ObjectFacts DEF FoundAgain, Drawn
<1> QED
  BY <1>1, <1>2, <1>3, <1>4, HeaderOfFacts DEF ReadState

LEMMA StartsReading ==
  ASSUME FileInv, StartRead
  PROVE  FileInv'
<1>1. /\ pc = "written" /\ Whole /\ pc' = "sections" /\ i' = 1
      /\ back' = EmptyObj /\ secmap' = [k \in 1..(file.shnum - 1) |-> 0]
      /\ UNCHANGED <<objVars, symVars, fileVars>>
  BY DEF StartRead
<1>2. file = FileOf(shdrs, bodies, shstrndx)
  BY <1>1 DEF FileInv, PlacesInv
<1>3. ReadState
  BY <1>1, <1>2, ReadStateHolds DEF Placed
<1>4. /\ obj' = obj /\ slot' = slot /\ shdrs' = shdrs /\ bodies' = bodies /\ shstrndx' = shstrndx
      /\ lost' = lost /\ foreign' = foreign /\ HeaderOf' = HeaderOf
  BY <1>1 DEF objVars, symVars, fileVars, tabVars, HeaderOf, HeaderIn
<1>5. /\ secmap' = [k \in DOMAIN shdrs |-> 0]
  BY <1>1, <1>3 DEF ReadState, FoundAgain
<1>6. /\ back' = [secs |-> << >>, syms |-> << >>] /\ back'.secs = << >> /\ back'.syms = << >>
      /\ IsList(back'.secs) /\ IsList(back'.syms) /\ Len(back'.secs) = 0 /\ Len(back'.syms) = 0
      /\ DOMAIN back'.secs = {}
  <2>1. back' = [secs |-> << >>, syms |-> << >>] /\ back'.secs = << >> /\ back'.syms = << >>
    BY <1>1 DEF EmptyObj
  <2> QED
    BY <2>1, EmptyIsList
<1>7. \A d \in DOMAIN obj.secs : Kept'[d] = 0
  <2>1. \A d \in DOMAIN obj.secs : HeaderOf[d] \in DOMAIN shdrs
    BY <1>3 DEF ReadState
  <2> QED
    BY <1>4, <1>5, <2>1 DEF Kept
<1>8. SectionsRead'
  <2>1. \A k \in DOMAIN shdrs : secmap'[k] = 0 /\ ~(k < 1)
    BY <1>3, <1>5 DEF ReadState
  <2>2. 1 <= Len(shdrs) + 1 /\ 1 - 1 = 0
    BY <1>3 DEF ReadState
  <2>3. secmap' \in [DOMAIN shdrs -> 0..0]
    BY <1>5
  <2> QED
    BY <1>1, <1>4, <1>6, <1>7, <2>1, <2>2, <2>3 DEF SectionsRead
<1>9. SymbolsRead'
  <2>1. \A j \in DOMAIN obj.syms : ~(slot[j] <= 0)
    BY <1>3 DEF ReadState, Slotted
  <2> QED
    BY <1>1, <1>4, <1>6, <2>1 DEF SymbolsRead
<1>10. ReadInv'
  BY <1>8, <1>9 DEF ReadInv
<1> QED
  <2>1. pc \in Placed /\ pc' \in Reading /\ i' \in Nat \ {0}
    BY <1>1 DEF Placed, Reading
  <2> QED
    BY <1>1, <1>2, <1>10, <2>1, ReadStep

LEMMA NoElements ==
  ASSUME NEW s, IsList(s)
  PROVE  /\ Len(s) = 0 => s = << >>
         /\ s # << >> => Len(s) > 0
<1>1. Len(s) \in Nat /\ DOMAIN s = 1..Len(s)
  BY ListProperties
<1>2. ASSUME Len(s) = 0
      PROVE  s = << >>
  <2> DEFINE e == << >>
  <2>1. IsList(e) /\ Len(e) = 0
    BY EmptyIsList
  <2> HIDE DEF e
  <2>2. \A j \in DOMAIN s : s[j] = e[j]
    BY <1>1, <1>2
  <2>3. s = e
    BY <1>2, <2>1, <2>2, ListElements
  <2> QED
    BY <2>3 DEF e
<1> QED
  BY <1>1, <1>2

(* The header names are read from where they were written. *)
LEMMA NamesFound ==
  ASSUME ReadState
  PROVE  At(Headers[file.shstrndx].off) = bodies[shstrndx]
<1>1. /\ shstrndx \in DOMAIN shdrs /\ shdrs[shstrndx].type = "STRTAB" /\ bodies[shstrndx] # << >>
      /\ IsList(bodies[shstrndx])
  BY DEF ReadState, Arranged
<1>2. Len(bodies[shstrndx]) > 0 /\ Len(bodies[shstrndx]) \in Nat
  BY <1>1, NoElements, ListProperties
<1>3. BodySize(shdrs, bodies, shstrndx) > 0
  <2>1. DiskSize("STRTAB", bodies[shstrndx]) = Len(bodies[shstrndx])
    BY <1>2, DiskSizes
  <2> QED
    BY <1>1, <1>2, <2>1 DEF BodySize
<1> QED
  BY <1>1, <1>3 DEF ReadState, FoundAgain

LEMMA SectionFound ==
  ASSUME ReadState, NEW d \in DOMAIN obj.secs \ lost
  PROVE  /\ HeaderOf[d] \in DOMAIN shdrs /\ shdrs[HeaderOf[d]].type = "PROGBITS"
         /\ SectionIn(shdrs[HeaderOf[d]]) = SectionBack(obj.secs[d], slot, FALSE)
<1> DEFINE k == HeaderOf[d]
           h == shdrs[k]
           sec == obj.secs[d]
<1>1. k \in DOMAIN shdrs /\ h.type = "PROGBITS" /\ NamedSection(sec, h, bodies[k], bodies[shstrndx]) /\ IsList(bodies[k])
  BY DEF ReadState, Arranged
<1>2. sec \in Section(Names) /\ sec.align # 0
  BY ObjectFacts DEF ReadState, Aligned
<1>3. h.alloc = sec.alloc /\ h.align = sec.align /\ h.size = Len(sec.data) /\ bodies[k] = sec.data
      /\ bodies[shstrndx][h.name + 1] = sec.name /\ Len(sec.data) \in Nat /\ IsList(sec.data)
  BY <1>1, <1>2, SectionFacts DEF NamedSection
<1>4. NameAt(Headers[file.shstrndx].off, h.name) = sec.name
  BY <1>3, NamesFound DEF NameAt
<1>5. SubSeq(At(h.off), 1, h.size) = sec.data
  <2>1. CASE Len(sec.data) = 0
    <3>1. sec.data = << >>
      BY <1>3, <2>1, NoElements
    <3>2. SubSeq(At(h.off), 1, 0) = << >>
      BY NothingRead
    <3> QED
      BY <1>3, <2>1, <3>1, <3>2
  <2>2. CASE Len(sec.data) # 0
    <3>1. BodySize(shdrs, bodies, k) > 0
      <4>1. DiskSize("PROGBITS", sec.data) = Len(sec.data)
        BY <1>3, DiskSizes
      <4>2. BodySize(shdrs, bodies, k) = Len(sec.data)
        BY <1>1, <1>3, <4>1 DEF BodySize
      <4> QED
        BY <1>3, <2>2, <4>2
    <3>2. At(h.off) = sec.data
      BY <1>1, <1>3, <3>1 DEF ReadState, FoundAgain
    <3>3. SubSeq(sec.data, 1, Len(sec.data)) = sec.data
      BY <1>3, WholeList
    <3> QED
      BY <1>3, <3>2, <3>3
  <2> QED
    BY <2>1, <2>2
<1>6. (IF h.align = 0 THEN 1 ELSE h.align) = sec.align
  BY <1>2, <1>3
<1> HIDE DEF h, sec, k
<1>7. SectionIn(h) = SectionBack(sec, slot, FALSE)
  BY <1>3, <1>4, <1>5, <1>6 DEF SectionIn, SectionBack
<1> QED
  BY <1>1, <1>7 DEF h, sec, k

LEMMA ReadsSection ==
  ASSUME FileInv, ReadSection
  PROVE  FileInv'
<1> DEFINE m == Len(shdrs)
           n == Len(obj.secs)
           secs == back.secs
<1>1. /\ pc = "sections" /\ pc' = "sections" /\ i <= file.shnum - 1 /\ Headers[i].type = "PROGBITS" /\ i' = i + 1
      /\ back' = [back EXCEPT !.secs = Append(@, SectionIn(Headers[i]))]
      /\ secmap' = [secmap EXCEPT ![i] = Len(back.secs) + 1]
      /\ UNCHANGED <<objVars, symVars, fileVars>>
  BY DEF ReadSection, AtHeader
<1>2. file = FileOf(shdrs, bodies, shstrndx) /\ SectionsRead /\ SymbolsRead /\ pc \in Placed
  BY <1>1 DEF FileInv, PlacesInv, ReadInv, Reading, Placed
<1>3. ReadState
  BY <1>2, ReadStateHolds
<1>4. /\ m \in Nat /\ DOMAIN shdrs = 1..m /\ i \in DOMAIN shdrs /\ shdrs[i].type = "PROGBITS"
      /\ i \in Nat \ {0} /\ n \in Nat /\ DOMAIN obj.secs = 1..n /\ Headers = shdrs
  BY <1>1, <1>3 DEF ReadState, FoundAgain
<1>5. /\ obj' = obj /\ slot' = slot /\ shdrs' = shdrs /\ bodies' = bodies /\ shstrndx' = shstrndx
      /\ lost' = lost /\ foreign' = foreign /\ HeaderOf' = HeaderOf
  BY <1>1 DEF objVars, symVars, fileVars, tabVars, HeaderOf, HeaderIn
<1>6. PICK d0 \in DOMAIN obj.secs : HeaderOf[d0] = i /\ d0 \notin lost
  <2>1. PICK d \in DOMAIN obj.secs : HeaderOf[d] = i
    BY <1>3, <1>4 DEF ReadState, Arranged
  <2>2. d \notin lost
    <3>1. d \in lost => shdrs[i].type = "NOBITS"
      BY <1>3, <2>1 DEF ReadState, Arranged
    <3> QED
      BY <1>4, <3>1
  <2> QED
    BY <2>1, <2>2
<1>7. SectionIn(shdrs[i]) = SectionBack(obj.secs[d0], slot, FALSE)
  BY <1>3, <1>6, SectionFound
<1>8. /\ IsList(secs) /\ back = [secs |-> secs, syms |-> back.syms]
      /\ secmap \in [DOMAIN shdrs -> 0..Len(secs)]
      /\ Len(secs) \in Nat /\ DOMAIN secs = 1..Len(secs)
  BY <1>2, ListProperties DEF SectionsRead
<1>9. PICK more : more = Append(secs, SectionIn(Headers[i]))
  OBVIOUS
<1>10. Extended(secs, SectionIn(shdrs[i]), more)
  BY <1>4, <1>8, <1>9, AppendExtends
<1>11. /\ IsList(more) /\ Len(more) = Len(secs) + 1 /\ DOMAIN more = 1..(Len(secs) + 1)
       /\ more[Len(secs) + 1] = SectionBack(obj.secs[d0], slot, FALSE)
       /\ \A x \in 1..Len(secs) : more[x] = secs[x]
  BY <1>7, <1>10 DEF Extended
<1>12. back' = [secs |-> more, syms |-> back.syms] /\ back'.secs = more /\ back'.syms = back.syms
  <2>1. back' = [secs |-> more, syms |-> back.syms]
    BY <1>1, <1>8, <1>9
  <2> QED
    BY <2>1
<1>13. /\ secmap'[i] = Len(secs) + 1 /\ \A k \in DOMAIN shdrs : k # i => secmap'[k] = secmap[k]
       /\ secmap' \in [DOMAIN shdrs -> 0..(Len(secs) + 1)]
  <2> HIDE DEF secs
  <2>1. /\ secmap'[i] = Len(secs) + 1 /\ \A k \in DOMAIN shdrs : k # i => secmap'[k] = secmap[k]
    BY <1>1, <1>4, <1>8 DEF secs
  <2>2. secmap' = [k \in DOMAIN shdrs |-> secmap'[k]]
    BY <1>1, <1>8
  <2>3. \A k \in DOMAIN shdrs : secmap'[k] \in 0..(Len(secs) + 1)
    <3>1. \A k \in DOMAIN shdrs : secmap[k] \in 0..(Len(secs) + 1)
      BY <1>8
    <3>2. Len(secs) + 1 \in 0..(Len(secs) + 1)
      BY <1>8
    <3> QED
      BY <2>1, <3>1, <3>2, Zenon
  <2> QED
    BY <2>1, <2>2, <2>3
<1> HIDE DEF secs
<1>14. \A k \in DOMAIN shdrs : secmap[k] \in 0..Len(secs) /\ (secmap[k] # 0 <=> shdrs[k].type = "PROGBITS" /\ k < i)
  BY <1>1, <1>2, <1>8 DEF SectionsRead
<1>15. \A k \in DOMAIN shdrs : secmap'[k] # 0 <=> shdrs[k].type = "PROGBITS" /\ k < i + 1
  <2> SUFFICES ASSUME NEW k \in DOMAIN shdrs
               PROVE  secmap'[k] # 0 <=> shdrs[k].type = "PROGBITS" /\ k < i + 1
    OBVIOUS
  <2>1. CASE k = i
    <3>1. Len(secs) + 1 # 0 /\ i < i + 1
      BY <1>4, <1>8
    <3> QED
      BY <1>4, <1>13, <2>1, <3>1
  <2>2. CASE k # i
    <3>1. k < i + 1 <=> k < i
      BY <1>4, <2>2
    <3> QED
      BY <1>13, <1>14, <2>2, <3>1
  <2> QED
    BY <2>1, <2>2
<1>16. \A k, l \in DOMAIN shdrs : secmap'[k] = secmap'[l] /\ secmap'[k] # 0 => k = l
  <2> SUFFICES ASSUME NEW k \in DOMAIN shdrs, NEW l \in DOMAIN shdrs,
                      secmap'[k] = secmap'[l], secmap'[k] # 0, k # l
               PROVE  FALSE
    OBVIOUS
  <2>4. \A x \in DOMAIN shdrs : secmap[x] # Len(secs) + 1
    BY <1>8, <1>14
  <2>1. CASE k = i
    <3>1. secmap'[k] = Len(secs) + 1 /\ secmap'[l] = secmap[l]
      BY <1>13, <2>1, Zenon
    <3> QED
      BY <2>4, <3>1, Zenon
  <2>2. CASE l = i
    <3>1. secmap'[l] = Len(secs) + 1 /\ secmap'[k] = secmap[k]
      BY <1>13, <2>2, Zenon
    <3> QED
      BY <2>4, <3>1, Zenon
  <2>3. CASE k # i /\ l # i
    BY <1>2, <1>13, <2>3 DEF SectionsRead
  <2> QED
    BY <2>1, <2>2, <2>3
<1>17. \A x \in DOMAIN more : \E k \in DOMAIN shdrs : secmap'[k] = x
  <2> SUFFICES ASSUME NEW x \in 1..(Len(secs) + 1)
               PROVE  \E k \in DOMAIN shdrs : secmap'[k] = x
    BY <1>11
  <2>1. CASE x = Len(secs) + 1
    BY <1>4, <1>13, <2>1
  <2>2. CASE x # Len(secs) + 1
    <3>1. x \in DOMAIN secs
      BY <1>8, <2>2
    <3>2. PICK k \in DOMAIN shdrs : secmap[k] = x
      BY <1>2, <3>1 DEF SectionsRead, secs
    <3>3. k # i
      BY <1>4, <1>8, <1>14, <3>1, <3>2
    <3> QED
      BY <1>13, <3>2, <3>3
  <2> QED
    BY <2>1, <2>2
<1>18. ~foreign => /\ \A k \in DOMAIN shdrs : secmap'[k] \in {0, k}
                   /\ i + 1 <= n + 1 => Len(more) = i
  <2> SUFFICES ASSUME ~foreign
               PROVE  /\ \A k \in DOMAIN shdrs : secmap'[k] \in {0, k}
                      /\ i + 1 <= n + 1 => Len(more) = i
    OBVIOUS
  <2>1. i <= n
    <3>1. d0 = i
      BY <1>3, <1>4, <1>6 DEF ReadState, Identity
    <3> QED
      BY <1>4, <3>1
  <2>2. Len(secs) = i - 1
    <3>1. i <= n + 1
      BY <1>4, <2>1
    <3> QED
      BY <1>1, <1>2, <3>1 DEF SectionsRead, secs
  <2>3. \A k \in DOMAIN shdrs : secmap[k] \in {0, k}
    BY <1>2 DEF SectionsRead
  <2>4. Len(secs) + 1 = i
    BY <1>4, <2>2
  <2> QED
    BY <1>11, <1>13, <2>3, <2>4
<1>19. \A d \in DOMAIN obj.secs : ~RelasBack(d) /\ ~RelasBack(d)'
  BY <1>1 DEF RelasBack
<1>20. ASSUME NEW d \in DOMAIN obj.secs, Kept'[d] # 0
       PROVE  more[Kept'[d]] = SectionBack(obj.secs[d], slot, FALSE)
  <2>1. Kept'[d] = secmap'[HeaderOf[d]] /\ HeaderOf[d] \in DOMAIN shdrs
    BY <1>3, <1>5 DEF Kept, ReadState
  <2>2. CASE HeaderOf[d] = i
    <3>1. d = d0
      BY <1>3, <1>6, <2>2 DEF ReadState, Arranged
    <3> QED
      BY <1>11, <1>13, <2>1, <2>2, <3>1
  <2>3. CASE HeaderOf[d] # i
    <3>1. Kept'[d] = secmap[HeaderOf[d]] /\ Kept[d] = secmap[HeaderOf[d]]
      BY <1>13, <2>1, <2>3 DEF Kept
    <3>2. secs[Kept[d]] = SectionBack(obj.secs[d], slot, FALSE)
      BY <1>2, <1>19, <1>20, <3>1 DEF SectionsRead, secs
    <3>3. Kept[d] \in 1..Len(secs)
      BY <1>8, <1>14, <1>20, <2>1, <3>1
    <3> QED
      BY <1>11, <3>1, <3>2, <3>3
  <2> QED
    BY <2>2, <2>3
<1>21. i + 1 <= m + 1 /\ i + 1 - 1 = i
  BY <1>4
<1>22. SectionsRead'
  <2> HIDE DEF m, n
  <2>1. \A d \in DOMAIN obj.secs : Kept'[d] # 0 =>
          \E whole \in BOOLEAN : /\ whole <=> RelasBack(d)'
                                 /\ more[Kept'[d]] = SectionBack(obj.secs[d], slot, whole)
    BY <1>19, <1>20, Zenon
  <2>2. \A d \in DOMAIN obj'.secs : (Kept[d] # 0)' =>
          \E whole \in BOOLEAN : /\ whole <=> RelasBack(d)'
                                 /\ back'.secs[Kept'[d]] = SectionBack(obj'.secs[d], slot', whole)
    BY <1>5, <1>12, <2>1, Zenon
  <2>3. secmap' \in [DOMAIN shdrs' -> 0..Len(back'.secs)]
    BY <1>5, <1>11, <1>12, <1>13
  <2>4. IsList(back'.secs) /\ back' = [secs |-> back'.secs, syms |-> back'.syms]
    BY <1>11, <1>12
  <2>5. \A x \in DOMAIN back'.secs : \E k \in DOMAIN shdrs' : secmap'[k] = x
    BY <1>5, <1>12, <1>17
  <2>6. \A k \in DOMAIN shdrs' : secmap'[k] # 0 <=> shdrs'[k].type = "PROGBITS" /\ (pc' = "sections" => k < i')
    BY <1>1, <1>5, <1>15
  <2>7. ~foreign' => /\ \A k \in DOMAIN shdrs' : secmap'[k] \in {0, k}
                     /\ pc' = "sections" /\ i' <= Len(obj'.secs) + 1 => Len(back'.secs) = i' - 1
    <3>1. ~foreign => /\ \A k \in DOMAIN shdrs : secmap'[k] \in {0, k}
                      /\ i + 1 <= Len(obj.secs) + 1 => Len(more) = i + 1 - 1
      BY <1>18, <1>21, Zenon DEF n
    <3>2. i' = i + 1 /\ foreign' = foreign /\ shdrs' = shdrs /\ obj' = obj /\ back'.secs = more
      BY <1>1, <1>5, <1>12
    <3>5. ~foreign' => ~foreign
      BY <3>2
    <3>3. ASSUME ~foreign', i' <= Len(obj'.secs) + 1
          PROVE  Len(back'.secs) = i' - 1
      <4>1. i + 1 <= Len(obj.secs) + 1
        BY <3>2, <3>3
      <4>2. Len(more) = i + 1 - 1
        BY <3>1, <3>3, <3>5, <4>1, Zenon
      <4>3. Len(back'.secs) = Len(more)
        BY <3>2, Zenon
      <4>4. i + 1 - 1 = i' - 1
        BY <1>4, <3>2
      <4> QED
        BY <4>2, <4>3, <4>4, Zenon
    <3>4. ASSUME ~foreign', NEW k \in DOMAIN shdrs'
          PROVE  secmap'[k] \in {0, k}
      BY <3>1, <3>2, <3>4, <3>5, Zenon
    <3> QED
      BY <3>3, <3>4, Zenon
  <2>8. i' <= Len(shdrs') + 1
    BY <1>1, <1>5, <1>21 DEF m
  <2>9. \A k, l \in DOMAIN shdrs' : secmap'[k] = secmap'[l] /\ secmap'[k] # 0 => k = l
    BY <1>5, <1>16
  <2> QED
    BY <2>2, <2>3, <2>4, <2>5, <2>6, <2>7, <2>8, <2>9, Zenon DEF SectionsRead
<1>23. SymbolsRead'
  <2>1. back.syms = << >> /\ Len(back.syms) = 0
    BY <1>1, <1>2, EmptyIsList DEF SymbolsRead
  <2>2. \A j \in DOMAIN obj.syms : ~(slot[j] <= 0)
    BY <1>3 DEF ReadState, Slotted
  <2> QED
    BY <1>1, <1>5, <1>12, <2>1, <2>2, EmptyIsList DEF SymbolsRead
<1>24. ReadInv'
  BY <1>22, <1>23 DEF ReadInv
<1> QED
  <2>1. pc' \in Reading /\ i' \in Nat \ {0}
    BY <1>1, <1>4 DEF Reading
  <2> QED
    BY <1>1, <1>2, <1>24, <2>1, ReadStep

(* The sections that were read stay as they are. *)
LEMMA KeepsSections ==
  ASSUME ReadState, SectionsRead, UNCHANGED <<objVars, symVars, fileVars>>, secmap' = secmap,
         back' = [secs |-> back.secs, syms |-> back'.syms],
         \A d \in DOMAIN obj.secs : Kept[d] # 0 => (RelasBack(d)' <=> RelasBack(d)),
         pc' = "sections" => i' <= Len(shdrs) + 1,
         \A k \in DOMAIN shdrs :
           shdrs[k].type = "PROGBITS" => ((pc = "sections" => k < i) <=> (pc' = "sections" => k < i')),
         ~foreign /\ pc' = "sections" /\ i' <= Len(obj.secs) + 1 => Len(back.secs) = i' - 1
  PROVE  SectionsRead' /\ Kept' = Kept
<1>1. /\ obj' = obj /\ slot' = slot /\ shdrs' = shdrs /\ bodies' = bodies /\ shstrndx' = shstrndx
      /\ lost' = lost /\ foreign' = foreign /\ HeaderOf' = HeaderOf /\ back'.secs = back.secs
  BY DEF objVars, symVars, fileVars, tabVars, HeaderOf, HeaderIn
<1>2. Kept' = Kept
  BY <1>1 DEF Kept
<1>3. /\ back' = [secs |-> back'.secs, syms |-> back'.syms] /\ IsList(back'.secs)
      /\ secmap' \in [DOMAIN shdrs' -> 0..Len(back'.secs)]
      /\ \A k, l \in DOMAIN shdrs' : secmap'[k] = secmap'[l] /\ secmap'[k] # 0 => k = l
      /\ \A x \in DOMAIN back'.secs : \E k \in DOMAIN shdrs' : secmap'[k] = x
  BY <1>1 DEF SectionsRead
<1>4. \A k \in DOMAIN shdrs' : secmap'[k] # 0 <=> shdrs'[k].type = "PROGBITS" /\ (pc' = "sections" => k < i')
  BY <1>1 DEF SectionsRead
<1>5. pc' = "sections" => i' <= Len(shdrs') + 1
  BY <1>1
<1>6. ~foreign' => /\ \A k \in DOMAIN shdrs' : secmap'[k] \in {0, k}
                   /\ pc' = "sections" /\ i' <= Len(obj'.secs) + 1 => Len(back'.secs) = i' - 1
  <2>1. ~foreign' => ~foreign
    BY <1>1
  <2>2. ASSUME ~foreign, NEW k \in DOMAIN shdrs
        PROVE  secmap[k] \in {0, k}
    BY <2>2 DEF SectionsRead
  <2>3. ASSUME ~foreign, pc' = "sections", i' <= Len(obj'.secs) + 1
        PROVE  Len(back'.secs) = i' - 1
    <3>1. i' <= Len(obj.secs) + 1
      BY <1>1, <2>3
    <3> QED
      BY <1>1, <2>3, <3>1
  <2> QED
    BY <1>1, <2>1, <2>2, <2>3
<1>7. \A d \in DOMAIN obj'.secs : Kept'[d] # 0 =>
       \E whole \in BOOLEAN : /\ whole <=> RelasBack(d)'
                              /\ back'.secs[Kept'[d]] = SectionBack(obj'.secs[d], slot', whole)
  <2> SUFFICES ASSUME NEW d \in DOMAIN obj.secs, Kept[d] # 0
               PROVE  \E whole \in BOOLEAN : /\ whole <=> RelasBack(d)'
                                             /\ back.secs[Kept[d]] = SectionBack(obj.secs[d], slot, whole)
    BY <1>1, <1>2
  <2>1. PICK whole \in BOOLEAN : /\ whole <=> RelasBack(d)
                                 /\ back.secs[Kept[d]] = SectionBack(obj.secs[d], slot, whole)
    BY DEF SectionsRead
  <2>2. whole <=> RelasBack(d)'
    BY <2>1
  <2> QED
    BY <2>1, <2>2, Zenon
<1>8. SectionsRead'
  BY <1>3, <1>4, <1>5, <1>6, <1>7, Zenon DEF SectionsRead
<1> QED
  BY <1>2, <1>8

(* What the symbols before i have become, if the sections stay. *)
LEMMA KeepsSymbols ==
  ASSUME ReadState, SymbolsRead, UNCHANGED <<objVars, symVars, fileVars>>, Kept' = Kept, back'.syms = back.syms,
         pc' = "sections" => back.syms = << >>,
         pc' = "symbols" => i' <= Len(obj.syms) + 1 /\ Len(back.syms) = i' - 1,
         pc' \in {"relas", "read"} => i' <= Len(shdrs) + 1 /\ Len(back.syms) = Len(obj.syms),
         pc' = "read" => i' = Len(shdrs) + 1
  PROVE  SymbolsRead'
<1>1. obj' = obj /\ slot' = slot /\ shdrs' = shdrs
  BY DEF objVars, symVars, fileVars, tabVars
<1>2. IsList(back'.syms) /\ pc' = "sections" => back'.syms = << >>
  BY <1>1 DEF SymbolsRead
<1>3. \A j \in DOMAIN obj.syms : slot[j] <= Len(back.syms) =>
        back.syms[slot[j]] = SymbolBack(obj.syms[j], Kept)
  BY DEF SymbolsRead
<1>4. \A j \in DOMAIN obj'.syms : slot'[j] <= Len(back'.syms) =>
        back'.syms[slot'[j]] = SymbolBack(obj'.syms[j], Kept')
  BY <1>1, <1>3
<1>5. /\ pc' = "symbols" => i' <= Len(obj'.syms) + 1 /\ Len(back'.syms) = i' - 1
      /\ pc' \in {"relas", "read"} => i' <= Len(shdrs') + 1 /\ Len(back'.syms) = Len(obj'.syms)
      /\ pc' = "read" => i' = Len(shdrs') + 1
  BY <1>1
<1>6. IsList(back'.syms)
  BY DEF SymbolsRead
<1>7. pc' = "sections" => back'.syms = << >>
  BY <1>1
<1> QED
  BY <1>4, <1>5, <1>6, <1>7, Zenon DEF SymbolsRead

LEMMA SkipsSection ==
  ASSUME FileInv, SkipSection
  PROVE  FileInv'
<1>1. /\ pc = "sections" /\ pc' = "sections" /\ i <= file.shnum - 1 /\ Headers[i].type # "PROGBITS" /\ i' = i + 1
      /\ back' = back /\ secmap' = secmap /\ UNCHANGED <<objVars, symVars, fileVars>>
  BY DEF SkipSection, AtHeader, readVars
<1>2. file = FileOf(shdrs, bodies, shstrndx) /\ SectionsRead /\ SymbolsRead /\ pc \in Placed
  BY <1>1 DEF FileInv, PlacesInv, ReadInv, Reading, Placed
<1>3. ReadState
  BY <1>2, ReadStateHolds
<1>4. /\ Len(shdrs) \in Nat /\ DOMAIN shdrs = 1..Len(shdrs) /\ i \in DOMAIN shdrs /\ shdrs[i].type # "PROGBITS"
      /\ i \in Nat \ {0} /\ Len(obj.secs) \in Nat /\ DOMAIN obj.secs = 1..Len(obj.secs)
  BY <1>1, <1>3 DEF ReadState, FoundAgain
<1>5. back' = [secs |-> back.secs, syms |-> back'.syms] /\ back'.syms = back.syms
  BY <1>1, <1>2 DEF SectionsRead
<1>6. \A d \in DOMAIN obj.secs : RelasBack(d)' <=> RelasBack(d)
  BY <1>1 DEF RelasBack
<1>7. \A k \in DOMAIN shdrs :
        shdrs[k].type = "PROGBITS" => ((pc = "sections" => k < i) <=> (pc' = "sections" => k < i'))
  <2> SUFFICES ASSUME NEW k \in DOMAIN shdrs, shdrs[k].type = "PROGBITS"
               PROVE  k < i <=> k < i + 1
    BY <1>1
  <2>1. k # i
    BY <1>4
  <2> QED
    BY <1>4, <2>1
<1>8. ~foreign => ~(i' <= Len(obj.secs) + 1)
  <2> SUFFICES ASSUME ~foreign, i <= Len(obj.secs)
               PROVE  FALSE
    BY <1>1, <1>4
  <2>1. i \in DOMAIN obj.secs /\ HeaderOf[i] = i /\ lost = {}
    BY <1>3, <1>4 DEF ReadState, Identity
  <2>2. shdrs[i].type = "PROGBITS"
    BY <1>3, <2>1 DEF ReadState, Arranged
  <2> QED
    BY <1>4, <2>2
<1>9. i' <= Len(shdrs) + 1
  BY <1>1, <1>4
<1>10. SectionsRead' /\ Kept' = Kept
  BY <1>1, <1>2, <1>3, <1>5, <1>6, <1>7, <1>8, <1>9, KeepsSections
<1>11. SymbolsRead'
  <2>1. back.syms = << >>
    BY <1>1, <1>2 DEF SymbolsRead
  <2> QED
    BY <1>1, <1>2, <1>3, <1>5, <1>10, <2>1, KeepsSymbols
<1>12. ReadInv'
  BY <1>10, <1>11 DEF ReadInv
<1> QED
  <2>1. pc' \in Reading /\ i' \in Nat \ {0}
    BY <1>1, <1>4 DEF Reading
  <2> QED
    BY <1>1, <1>2, <1>12, <2>1, ReadStep

LEMMA EndsSections ==
  ASSUME FileInv, SectionsDone
  PROVE  FileInv'
<1>1. /\ pc = "sections" /\ pc' = "symbols" /\ ~(i <= file.shnum - 1) /\ i' = 1
      /\ back' = back /\ secmap' = secmap /\ UNCHANGED <<objVars, symVars, fileVars>>
  BY DEF SectionsDone, AtHeader, readVars
<1>2. file = FileOf(shdrs, bodies, shstrndx) /\ SectionsRead /\ SymbolsRead /\ pc \in Placed
  BY <1>1 DEF FileInv, PlacesInv, ReadInv, Reading, Placed
<1>3. ReadState
  BY <1>2, ReadStateHolds
<1>4. /\ Len(shdrs) \in Nat /\ DOMAIN shdrs = 1..Len(shdrs) /\ ~(i <= Len(shdrs)) /\ i \in Nat \ {0}
      /\ Len(obj.syms) \in Nat
  BY <1>1, <1>3 DEF ReadState, FoundAgain
<1>5. back' = [secs |-> back.secs, syms |-> back'.syms] /\ back'.syms = back.syms
  BY <1>1, <1>2 DEF SectionsRead
<1>6. \A d \in DOMAIN obj.secs : RelasBack(d)' <=> RelasBack(d)
  BY <1>1 DEF RelasBack
<1>7. \A k \in DOMAIN shdrs :
        shdrs[k].type = "PROGBITS" => ((pc = "sections" => k < i) <=> (pc' = "sections" => k < i'))
  BY <1>1, <1>4
<1>8. SectionsRead' /\ Kept' = Kept
  BY <1>1, <1>2, <1>3, <1>5, <1>6, <1>7, KeepsSections
<1>9. SymbolsRead'
  <2>1. back.syms = << >> /\ Len(back.syms) = 0
    BY <1>1, <1>2, EmptyIsList DEF SymbolsRead
  <2>2. 1 <= Len(obj.syms) + 1 /\ 0 = 1 - 1
    BY <1>4
  <2> QED
    BY <1>1, <1>2, <1>3, <1>5, <1>8, <2>1, <2>2, KeepsSymbols
<1>10. ReadInv'
  BY <1>8, <1>9 DEF ReadInv
<1> QED
  <2>1. pc' \in Reading /\ i' \in Nat \ {0}
    BY <1>1 DEF Reading
  <2> QED
    BY <1>1, <1>2, <1>10, <2>1, ReadStep

(* The symbol table and its strings are read from where they were written. *)
LEMMA SymtabFound ==
  ASSUME ReadState
  PROVE  /\ NSyms = Len(obj.syms) + 1
         /\ \A j \in DOMAIN obj.syms :
              /\ At(Headers[SymtabHeader].off)[slot[j]] =
                   DiskSymbol(obj.syms[j], slot[j], Image(HeaderOf, obj.syms[j].sec))
              /\ NameAt(Headers[Headers[SymtabHeader].link].off, 2 * slot[j] - 1) = obj.syms[j].name
<1>1. PICK k \in DOMAIN shdrs :
       /\ \A l \in DOMAIN shdrs : shdrs[l].type = "SYMTAB" <=> l = k
       /\ TableOf(obj.syms, slot, HeaderOf, bodies[k])
       /\ shdrs[k].link \in DOMAIN shdrs /\ shdrs[shdrs[k].link].type = "STRTAB"
       /\ StringsOf(obj.syms, slot, bodies[shdrs[k].link])
  BY DEF ReadState, Arranged
<1>2. /\ Headers = shdrs /\ Len(shdrs) \in Nat /\ DOMAIN shdrs = 1..Len(shdrs)
      /\ Len(obj.syms) \in Nat /\ DOMAIN obj.syms = 1..Len(obj.syms)
      /\ slot \in [DOMAIN obj.syms -> 1..Len(obj.syms)]
  BY DEF ReadState, FoundAgain, Slotted
<1>3. SymtabHeader = k
  <2> DEFINE S == {l \in DOMAIN Headers : Headers[l].type = "SYMTAB"}
  <2>1. S = {k}
    BY <1>1, <1>2
  <2>2. k \in Nat \ {0}
    BY <1>2
  <2>3. SymtabHeader = First(S)
    BY DEF SymtabHeader
  <2> HIDE DEF S
  <2>4. First(S) \in S
    BY <2>1, <2>2, FirstIsLeast
  <2> QED
    BY <2>1, <2>3, <2>4
<1>4. DiskSize("SYMTAB", bodies[k]) = 24 * (Len(obj.syms) + 1)
  <2>1. IsList(bodies[k]) /\ Len(bodies[k]) = Len(obj.syms)
    BY <1>1 DEF TableOf
  <2>2. DiskSize("SYMTAB", bodies[k]) = 24 * (Len(bodies[k]) + 1)
    BY <1>2, <2>1, DiskSizes
  <2> QED
    BY <2>1, <2>2, Zenon
<1>5. shdrs[k].size = 24 * (Len(obj.syms) + 1) /\ BodySize(shdrs, bodies, k) = 24 * (Len(obj.syms) + 1)
  <2>1. shdrs[k].type = "SYMTAB"
    BY <1>1
  <2>2. shdrs[k].size = DiskSize(shdrs[k].type, bodies[k])
    BY <2>1 DEF ReadState, Arranged
  <2> QED
    BY <1>4, <2>1, <2>2 DEF BodySize
<1>6. NSyms = Len(obj.syms) + 1
  <2>1. NSyms = shdrs[k].size \div 24
    BY <1>1, <1>2, <1>3 DEF NSyms, SymSize
  <2>2. \A n \in Nat : (24 * (n + 1)) \div 24 = n + 1
    OBVIOUS
  <2> QED
    <3>1. NSyms = (24 * (Len(obj.syms) + 1)) \div 24
      BY <1>5, <2>1, Zenon
    <3> QED
      BY <1>2, <2>2, <3>1, Zenon
<1>7. At(shdrs[k].off) = bodies[k]
  <2>1. BodySize(shdrs, bodies, k) > 0
    BY <1>2, <1>5
  <2> QED
    BY <1>1, <2>1 DEF ReadState, FoundAgain
<1> DEFINE l == shdrs[k].link
<1>8. At(shdrs[l].off) = bodies[l]
  <2>1. IsList(bodies[l]) /\ Len(bodies[l]) = 1 + 2 * Len(obj.syms) /\ l \in DOMAIN shdrs /\ shdrs[l].type = "STRTAB"
    BY <1>1 DEF StringsOf
  <2>2. DiskSize("STRTAB", bodies[l]) = 1 + 2 * Len(obj.syms)
    BY <2>1, DiskSizes
  <2>3. BodySize(shdrs, bodies, l) > 0
    BY <1>2, <2>1, <2>2 DEF BodySize
  <2> QED
    BY <2>1, <2>3 DEF ReadState, FoundAgain
<1> HIDE DEF l
<1>9. ASSUME NEW j \in DOMAIN obj.syms
      PROVE  /\ At(Headers[SymtabHeader].off)[slot[j]] =
                  DiskSymbol(obj.syms[j], slot[j], Image(HeaderOf, obj.syms[j].sec))
             /\ NameAt(Headers[Headers[SymtabHeader].link].off, 2 * slot[j] - 1) = obj.syms[j].name
  <2>1. At(Headers[SymtabHeader].off)[slot[j]] =
                  DiskSymbol(obj.syms[j], slot[j], Image(HeaderOf, obj.syms[j].sec))
    BY <1>1, <1>2, <1>3, <1>7 DEF TableOf
  <2>2. NameAt(Headers[Headers[SymtabHeader].link].off, 2 * slot[j] - 1) = At(shdrs[l].off)[2 * slot[j] - 1 + 1]
    BY <1>2, <1>3 DEF NameAt, l
  <2>3. 2 * slot[j] - 1 + 1 = 2 * slot[j]
    <3>1. slot[j] \in Int
      BY <1>2
    <3> QED
      BY <3>1
  <2>4. bodies[l][2 * slot[j]] = obj.syms[j].name
    BY <1>1 DEF StringsOf, l
  <2> QED
    BY <1>8, <2>1, <2>2, <2>3, <2>4
<1> QED
  BY <1>6, <1>9

LEMMA SymbolFound ==
  ASSUME ReadState, SectionsRead, NEW j \in DOMAIN obj.syms
  PROVE  SymbolIn(At(Headers[SymtabHeader].off)[slot[j]]) = SymbolBack(obj.syms[j], Kept)
<1> DEFINE sym == obj.syms[j]
           k == Image(HeaderOf, sym.sec)
           s == DiskSymbol(sym, slot[j], k)
<1>1. At(Headers[SymtabHeader].off)[slot[j]] = s
      /\ NameAt(Headers[Headers[SymtabHeader].link].off, 2 * slot[j] - 1) = sym.name
  BY SymtabFound
<1>2. sym.sec \in 0..Len(obj.secs) /\ DOMAIN obj.secs = 1..Len(obj.secs) /\ Len(obj.secs) \in Nat
  BY ObjectFacts DEF ReadState
<1>3. Mapped(k) = Image(Kept, sym.sec)
  <2>1. DOMAIN secmap = 1..Len(shdrs) /\ HeaderOf \in [DOMAIN obj.secs -> DOMAIN shdrs] /\ DOMAIN shdrs = 1..Len(shdrs)
    BY DEF SectionsRead, ReadState
  <2>2. CASE sym.sec = 0
    <3>1. k = 0 /\ Image(Kept, sym.sec) = 0
      BY <2>2 DEF Image
    <3>2. 0 \notin DOMAIN secmap
      BY <2>1
    <3> QED
      BY <3>1, <3>2 DEF Mapped
  <2>3. CASE sym.sec # 0
    <3>1. sym.sec \in DOMAIN obj.secs
      BY <1>2, <2>3
    <3>2. k = HeaderOf[sym.sec] /\ Image(Kept, sym.sec) = Kept[sym.sec]
      BY <2>3 DEF Image
    <3>3. k \in DOMAIN secmap /\ Kept[sym.sec] = secmap[k]
      BY <2>1, <3>1, <3>2 DEF Kept
    <3> QED
      BY <3>2, <3>3 DEF Mapped
  <2> QED
    BY <2>2, <2>3
<1>4. s = [name |-> 2 * slot[j] - 1, bind |-> sym.bind, type |-> sym.type, shndx |-> k,
           value |-> IF sym.sec # 0 THEN sym.value ELSE 0]
  BY DEF DiskSymbol
<1> HIDE DEF sym, k
<1>5. /\ s.name = 2 * slot[j] - 1 /\ s.bind = sym.bind /\ s.type = sym.type /\ s.shndx = k
      /\ s.value = IF sym.sec = 0 THEN 0 ELSE sym.value
  <2> HIDE DEF s
  <2> QED
    BY <1>4
<1> HIDE DEF s
<1>6. SymbolIn(s) = SymbolBack(sym, Kept)
  BY <1>1, <1>3, <1>5 DEF SymbolIn, SymbolBack
<1> QED
  BY <1>1, <1>6 DEF sym

LEMMA ReadsSymbol ==
  ASSUME FileInv, ReadSymbol
  PROVE  FileInv'
<1> DEFINE syms == back.syms
           s == SymbolIn(At(Headers[SymtabHeader].off)[i])
<1>1. /\ pc = "symbols" /\ pc' = "symbols" /\ i < NSyms /\ i' = i + 1 /\ secmap' = secmap
      /\ back' = [back EXCEPT !.syms = Append(@, s)] /\ UNCHANGED <<objVars, symVars, fileVars>>
  BY DEF ReadSymbol
<1>2. file = FileOf(shdrs, bodies, shstrndx) /\ SectionsRead /\ SymbolsRead /\ pc \in Placed
  BY <1>1 DEF FileInv, PlacesInv, ReadInv, Reading, Placed
<1>3. ReadState
  BY <1>2, ReadStateHolds
<1>4. /\ Len(obj.syms) \in Nat /\ DOMAIN obj.syms = 1..Len(obj.syms) /\ i \in Nat \ {0} /\ i <= Len(obj.syms)
      /\ Len(shdrs) \in Nat /\ DOMAIN shdrs = 1..Len(shdrs)
      /\ slot \in [DOMAIN obj.syms -> 1..Len(obj.syms)]
  <2>1. NSyms = Len(obj.syms) + 1
    BY <1>3, SymtabFound
  <2> QED
    BY <1>1, <1>3, <2>1 DEF ReadState, Slotted
<1>5. obj' = obj /\ slot' = slot /\ shdrs' = shdrs
  BY <1>1 DEF objVars, symVars, fileVars, tabVars
<1> HIDE DEF s
<1>6. IsList(syms) /\ Len(syms) = i - 1 /\ back = [secs |-> back.secs, syms |-> syms]
  BY <1>1, <1>2 DEF SectionsRead, SymbolsRead
<1>7. PICK more : more = Append(syms, s)
  OBVIOUS
<1>8. Extended(syms, s, more)
  BY <1>6, <1>7, AppendExtends
<1>9. back' = [secs |-> back.secs, syms |-> more]
  BY <1>1, <1>6, <1>7
<1>10. back'.syms = more /\ back' = [secs |-> back.secs, syms |-> back'.syms]
  BY <1>9
<1> HIDE DEF syms
<1>11. IsList(more) /\ Len(more) = i /\ more[i] = s /\ \A x \in 1..(i - 1) : more[x] = syms[x]
  <2>1. Len(syms) + 1 = i
    BY <1>4, <1>6
  <2> QED
    BY <1>6, <1>8, <2>1, Zenon DEF Extended
<1>12. \A d \in DOMAIN obj.secs : RelasBack(d)' <=> RelasBack(d)
  BY <1>1 DEF RelasBack
<1>13. SectionsRead' /\ Kept' = Kept
  BY <1>1, <1>2, <1>3, <1>10, <1>12, KeepsSections
<1>14. ASSUME NEW j \in DOMAIN obj.syms, slot[j] <= i
       PROVE  more[slot[j]] = SymbolBack(obj.syms[j], Kept)
  <2>1. CASE slot[j] = i
    <3>1. s = SymbolBack(obj.syms[j], Kept)
      BY <1>2, <1>3, <2>1, SymbolFound DEF s
    <3> QED
      BY <1>11, <2>1, <3>1
  <2>2. CASE slot[j] # i
    <3>1. slot[j] \in 1..(i - 1) /\ slot[j] <= Len(syms)
      BY <1>4, <1>6, <1>14, <2>2
    <3>2. syms[slot[j]] = SymbolBack(obj.syms[j], Kept)
      BY <1>2, <3>1 DEF SymbolsRead, syms
    <3> QED
      BY <1>11, <3>1, <3>2
  <2> QED
    BY <2>1, <2>2
<1>15. SymbolsRead'
  <2>1. i + 1 <= Len(obj.syms) + 1 /\ i = i + 1 - 1
    BY <1>4
  <2>2. \A j \in DOMAIN obj'.syms : slot'[j] <= Len(back'.syms) =>
          back'.syms[slot'[j]] = SymbolBack(obj'.syms[j], Kept')
    BY <1>5, <1>10, <1>11, <1>13, <1>14
  <2>3. i' <= Len(obj'.syms) + 1 /\ Len(back'.syms) = i' - 1
    BY <1>1, <1>5, <1>10, <1>11, <2>1
  <2>4. IsList(back'.syms)
    BY <1>10, <1>11
  <2>5. pc' = "symbols"
    BY <1>1
  <2> HIDE DEF s
  <2> QED
    BY <2>2, <2>3, <2>4, <2>5 DEF SymbolsRead
<1>16. ReadInv'
  BY <1>13, <1>15 DEF ReadInv
<1> QED
  <2>1. pc' \in Reading /\ i' \in Nat \ {0}
    BY <1>1, <1>4 DEF Reading
  <2> QED
    BY <1>1, <1>2, <1>16, <2>1, ReadStep

LEMMA EndsSymbols ==
  ASSUME FileInv, SymbolsDone
  PROVE  FileInv'
<1>1. /\ pc = "symbols" /\ pc' = "relas" /\ i >= NSyms /\ i' = 1
      /\ back' = back /\ secmap' = secmap /\ UNCHANGED <<objVars, symVars, fileVars>>
  BY DEF SymbolsDone, readVars
<1>2. file = FileOf(shdrs, bodies, shstrndx) /\ SectionsRead /\ SymbolsRead /\ pc \in Placed
  BY <1>1 DEF FileInv, PlacesInv, ReadInv, Reading, Placed
<1>3. ReadState
  BY <1>2, ReadStateHolds
<1>4. /\ Len(shdrs) \in Nat /\ DOMAIN shdrs = 1..Len(shdrs) /\ i \in Nat \ {0} /\ Len(obj.syms) \in Nat
  BY <1>3 DEF ReadState
<1>5. back' = [secs |-> back.secs, syms |-> back'.syms] /\ back'.syms = back.syms
  BY <1>1, <1>2 DEF SectionsRead
<1>6. Len(back.syms) = Len(obj.syms)
  <2>1. NSyms = Len(obj.syms) + 1
    BY <1>3, SymtabFound
  <2>2. i <= Len(obj.syms) + 1 /\ Len(back.syms) = i - 1
    BY <1>1, <1>2 DEF SymbolsRead
  <2> QED
    BY <1>1, <1>4, <2>1, <2>2
<1>7. \A d \in DOMAIN obj.secs : RelasBack(d)' <=> RelasBack(d)
  <2>1. \A k \in DOMAIN shdrs' : ~(k < 1)
    <3>1. shdrs' = shdrs
      BY <1>1 DEF fileVars, tabVars
    <3> QED
      BY <1>4, <3>1
  <2> QED
    BY <1>1, <2>1 DEF RelasBack
<1>8. SectionsRead' /\ Kept' = Kept
  BY <1>1, <1>2, <1>3, <1>5, <1>7, KeepsSections
<1>9. SymbolsRead'
  <2>1. 1 <= Len(shdrs) + 1
    BY <1>4
  <2> QED
    BY <1>1, <1>2, <1>3, <1>5, <1>6, <1>8, <2>1, KeepsSymbols
<1>10. ReadInv'
  BY <1>8, <1>9 DEF ReadInv
<1> QED
  <2>1. pc' \in Reading /\ i' \in Nat \ {0}
    BY <1>1 DEF Reading
  <2> QED
    BY <1>1, <1>2, <1>10, <2>1, ReadStep

LEMMA EndsReading ==
  ASSUME FileInv, ReadDone
  PROVE  FileInv'
<1>1. /\ pc = "relas" /\ pc' = "read" /\ ~(i <= file.shnum - 1) /\ i' = i
      /\ back' = back /\ secmap' = secmap /\ UNCHANGED <<objVars, symVars, fileVars>>
  BY DEF ReadDone, AtHeader, readVars
<1>2. file = FileOf(shdrs, bodies, shstrndx) /\ SectionsRead /\ SymbolsRead /\ pc \in Placed
  BY <1>1 DEF FileInv, PlacesInv, ReadInv, Reading, Placed
<1>3. ReadState
  BY <1>2, ReadStateHolds
<1>4. /\ Len(shdrs) \in Nat /\ i \in Nat \ {0} /\ ~(i <= Len(shdrs))
  BY <1>1, <1>3 DEF ReadState, FoundAgain
<1>5. back' = [secs |-> back.secs, syms |-> back'.syms] /\ back'.syms = back.syms
  BY <1>1, <1>2 DEF SectionsRead
<1>6. Len(back.syms) = Len(obj.syms) /\ i = Len(shdrs) + 1
  BY <1>1, <1>2, <1>4 DEF SymbolsRead
<1>7. \A d \in DOMAIN obj.secs : RelasBack(d)' <=> RelasBack(d)
  <2>1. HeaderOf' = HeaderOf /\ shdrs' = shdrs
    BY <1>1 DEF HeaderOf, HeaderIn, objVars, symVars, fileVars, tabVars
  <2> QED
    BY <1>1, <2>1 DEF RelasBack
<1>8. SectionsRead' /\ Kept' = Kept
  BY <1>1, <1>2, <1>3, <1>5, <1>7, KeepsSections
<1>9. SymbolsRead'
  <2>1. Len(shdrs) + 1 <= Len(shdrs) + 1
    BY <1>4
  <2> QED
    BY <1>1, <1>2, <1>3, <1>5, <1>6, <1>8, <2>1, KeepsSymbols
<1>10. ReadInv'
  BY <1>8, <1>9 DEF ReadInv
<1> QED
  <2>1. pc' \in Reading /\ i' \in Nat \ {0}
    BY <1>1, <1>4 DEF Reading
  <2> QED
    BY <1>1, <1>2, <1>10, <2>1, ReadStep

(* What the reader makes of the relocations of header k. *)
RelasIn(k) ==
  LET relas == SubSeq(At(shdrs[k].off), 1, shdrs[k].size \div RelaSize)
  IN [q \in DOMAIN relas |-> RelaIn(relas[q])]

LEMMA RelasFound ==
  ASSUME ReadState, SectionsRead, NEW k \in DOMAIN shdrs, shdrs[k].type = "RELA"
  PROVE  \E d \in DOMAIN obj.secs :
           /\ shdrs[k].info = HeaderOf[d] /\ RelaTarget(shdrs[k]) = Kept[d] /\ obj.secs[d].relas # << >>
           /\ IsList(RelasIn(k)) /\ RelasIn(k) = SectionBack(obj.secs[d], slot, TRUE).relas
<1>1. PICK d \in DOMAIN obj.secs :
        shdrs[k].info = HeaderOf[d] /\ obj.secs[d].relas # << >> /\ bodies[k] = RelasOf(obj.secs[d].relas, slot)
  BY DEF ReadState, Arranged
<1> DEFINE relas == obj.secs[d].relas
           body == bodies[k]
<1>2. /\ IsList(relas) /\ Len(relas) \in Nat /\ DOMAIN relas = 1..Len(relas)
      /\ \A q \in DOMAIN relas : relas[q] \in Rela /\ relas[q].sym \in 0..Len(obj.syms)
  <2>1. obj.secs[d] \in Section(Names)
    BY ObjectFacts DEF ReadState
  <2> QED
    BY <2>1, ObjectFacts, SectionFacts DEF ReadState
<1>3. Len(relas) > 0
  BY <1>1, <1>2, NoElements
<1>4. IsList(body) /\ Len(body) = Len(relas)
  BY <1>1, <1>2, RelasOfIsList
<1>5. DiskSize("RELA", body) = 24 * Len(relas)
  <2>1. DiskSize("RELA", body) = 24 * Len(body)
    BY <1>2, <1>4, DiskSizes
  <2> QED
    BY <1>4, <2>1, Zenon
<1>6. shdrs[k].size = 24 * Len(relas) /\ BodySize(shdrs, bodies, k) = 24 * Len(relas)
  <2>1. shdrs[k].size = DiskSize(shdrs[k].type, bodies[k])
    BY DEF ReadState, Arranged
  <2> QED
    BY <1>5, <2>1 DEF BodySize
<1>7. At(shdrs[k].off) = body
  <2>1. BodySize(shdrs, bodies, k) > 0
    BY <1>2, <1>3, <1>6
  <2> QED
    BY <2>1 DEF ReadState, FoundAgain
<1>8. shdrs[k].size \div RelaSize = Len(body)
  <2>1. \A n \in Nat : (24 * n) \div 24 = n
    OBVIOUS
  <2>2. shdrs[k].size \div RelaSize = (24 * Len(relas)) \div 24
    BY <1>6, Zenon DEF RelaSize
  <2> QED
    BY <1>2, <1>4, <2>1, <2>2, Zenon
<1>9. RelasIn(k) = [q \in DOMAIN body |-> RelaIn(body[q])]
  <2>1. SubSeq(At(shdrs[k].off), 1, shdrs[k].size \div RelaSize) = body
    <3>1. SubSeq(body, 1, Len(body)) = body
      BY <1>4, WholeList
    <3> QED
      BY <1>7, <1>8, <3>1, Zenon
  <2> HIDE DEF body
  <2> QED
    BY <2>1, Zenon DEF RelasIn
<1>10. DOMAIN body = DOMAIN relas
       /\ \A q \in DOMAIN relas : body[q] = RelaOut(relas[q], Image(slot, relas[q].sym))
  BY <1>1 DEF RelasOf
<1> HIDE DEF relas, body
<1>11. ASSUME NEW q \in DOMAIN relas
       PROVE  RelaIn(body[q]) = [off |-> relas[q].off, sym |-> Image(slot, relas[q].sym),
                                 type |-> relas[q].type, addend |-> relas[q].addend]
  <2> DEFINE s == Image(slot, relas[q].sym)
  <2>1. s < NSyms
    <3>1. relas[q].sym \in 0..Len(obj.syms) /\ NSyms = Len(obj.syms) + 1
      BY <1>2, SymtabFound
    <3>2. /\ slot \in [DOMAIN obj.syms -> 1..Len(obj.syms)] /\ DOMAIN obj.syms = 1..Len(obj.syms)
          /\ Len(obj.syms) \in Nat
      BY DEF ReadState, Slotted
    <3>3. s \in 0..Len(obj.syms)
      <4>1. CASE relas[q].sym = 0
        BY <3>2, <4>1 DEF Image
      <4>2. CASE relas[q].sym # 0
        <5>1. relas[q].sym \in DOMAIN obj.syms
          BY <3>1, <3>2, <4>2
        <5> QED
          BY <3>2, <4>2, <5>1 DEF Image
      <4> QED
        BY <4>1, <4>2
    <3> QED
      BY <3>1, <3>2, <3>3
  <2> HIDE DEF s
  <2>2. body[q] = [off |-> relas[q].off, symi |-> s, type |-> relas[q].type, addend |-> relas[q].addend]
    BY <1>10 DEF RelaOut, s
  <2>3. /\ body[q].off = relas[q].off /\ body[q].symi = s /\ body[q].type = relas[q].type
        /\ body[q].addend = relas[q].addend
    BY <2>2
  <2>4. RelaIn(body[q]) = [off |-> relas[q].off, sym |-> s, type |-> relas[q].type, addend |-> relas[q].addend]
    BY <2>1, <2>3 DEF RelaIn
  <2> QED
    BY <2>4 DEF s
<1>12. RelasIn(k) = [q \in DOMAIN relas |-> [off |-> relas[q].off, sym |-> Image(slot, relas[q].sym),
                                            type |-> relas[q].type, addend |-> relas[q].addend]]
  BY <1>9, <1>10, <1>11
<1>13. RelasIn(k) = SectionBack(obj.secs[d], slot, TRUE).relas
  BY <1>12 DEF SectionBack, relas
<1>14. IsList(RelasIn(k))
  <2>1. PICK f : f = RelasIn(k)
    OBVIOUS
  <2>2. DOMAIN f = 1..Len(relas) /\ f = [q \in 1..Len(relas) |-> f[q]]
    BY <1>2, <1>12, <2>1
  <2>3. IsList(f)
    BY <1>2, <2>2, FunctionIsList
  <2> QED
    BY <2>1, <2>3
<1>15. RelaTarget(shdrs[k]) = Kept[d]
  <2>1. DOMAIN secmap = DOMAIN shdrs /\ HeaderOf[d] \in DOMAIN shdrs /\ Kept[d] = secmap[HeaderOf[d]]
    BY <1>1 DEF SectionsRead, ReadState, Kept
  <2> QED
    BY <1>1, <2>1 DEF RelaTarget, Mapped
<1> QED
  BY <1>1, <1>13, <1>14, <1>15

LEMMA NothingBefore ==
  ASSUME NEW s, IsList(s)
  PROVE  << >> \o s = s
BY ConcatEmptySeq DEF IsList

LEMMA ReadsRelas ==
  ASSUME FileInv, ReadRelas
  PROVE  FileInv'
<1> DEFINE secs == back.secs
<1>1. /\ pc = "relas" /\ pc' = "relas" /\ i <= file.shnum - 1 /\ RelaTarget(Headers[i]) # 0 /\ i' = i + 1
      /\ secmap' = secmap /\ UNCHANGED <<objVars, symVars, fileVars>>
  BY DEF ReadRelas, AtHeader
<1>2. file = FileOf(shdrs, bodies, shstrndx) /\ SectionsRead /\ SymbolsRead /\ pc \in Placed
  BY <1>1 DEF FileInv, PlacesInv, ReadInv, Reading, Placed
<1>3. ReadState
  BY <1>2, ReadStateHolds
<1>4. /\ Headers = shdrs /\ Len(shdrs) \in Nat /\ DOMAIN shdrs = 1..Len(shdrs) /\ i \in DOMAIN shdrs
      /\ i \in Nat \ {0} /\ shdrs[i].type = "RELA"
  BY <1>1, <1>3 DEF ReadState, FoundAgain, RelaTarget
<1>5. /\ obj' = obj /\ slot' = slot /\ shdrs' = shdrs /\ bodies' = bodies /\ shstrndx' = shstrndx
      /\ lost' = lost /\ foreign' = foreign /\ HeaderOf' = HeaderOf
  BY <1>1 DEF objVars, symVars, fileVars, tabVars, HeaderOf, HeaderIn
<1>6. PICK d \in DOMAIN obj.secs :
           /\ shdrs[i].info = HeaderOf[d] /\ RelaTarget(shdrs[i]) = Kept[d] /\ obj.secs[d].relas # << >>
           /\ IsList(RelasIn(i)) /\ RelasIn(i) = SectionBack(obj.secs[d], slot, TRUE).relas
  BY <1>2, <1>3, <1>4, RelasFound
<1> DEFINE t == Kept[d]
<1>7. t # 0 /\ t \in DOMAIN secs /\ IsList(secs) /\ back = [secs |-> secs, syms |-> back.syms]
      /\ Len(secs) \in Nat /\ DOMAIN secs = 1..Len(secs)
  <2>1. t # 0
    BY <1>1, <1>4, <1>6
  <2>2. HeaderOf[d] \in DOMAIN shdrs /\ t = secmap[HeaderOf[d]]
    BY <1>3 DEF ReadState, Kept
  <2> HIDE DEF t
  <2>3. IsList(secs) /\ back = [secs |-> secs, syms |-> back.syms] /\ t \in 0..Len(secs)
    BY <1>2, <2>2 DEF SectionsRead
  <2> QED
    BY <2>1, <2>3, ListProperties
<1>8. secs[t] = SectionBack(obj.secs[d], slot, FALSE)
  <2>1. ~RelasBack(d)
    <3>1. \A k, l \in DOMAIN shdrs : shdrs[k].type = "RELA" /\ shdrs[l].type = "RELA"
                                     /\ shdrs[k].info = shdrs[l].info => k = l
      BY <1>3, Zenon DEF ReadState, Arranged
    <3>2. \A k \in DOMAIN shdrs : shdrs[k].type = "RELA" /\ shdrs[k].info = HeaderOf[d] => k = i
      BY <1>4, <1>6, <3>1, Zenon
    <3>3. ~(i < i)
      BY <1>4
    <3> QED
      BY <3>2, <3>3, Zenon DEF RelasBack
  <2>2. \E whole \in BOOLEAN : /\ whole <=> RelasBack(d)
                               /\ back.secs[Kept[d]] = SectionBack(obj.secs[d], slot, whole)
    BY <1>2, <1>7 DEF SectionsRead
  <2>3. PICK whole \in BOOLEAN : (whole <=> RelasBack(d)) /\ secs[t] = SectionBack(obj.secs[d], slot, whole)
    BY <2>2
  <2>4. whole = FALSE
    BY <2>1, <2>3
  <2> QED
    BY <2>3, <2>4
<1> DEFINE ns == [secs[t] EXCEPT !.relas = @ \o RelasIn(i)]
<1>9. ns = SectionBack(obj.secs[d], slot, TRUE)
  <2>1. << >> \o RelasIn(i) = RelasIn(i)
    BY <1>6, NothingBefore
  <2>2. SectionBack(obj.secs[d], slot, FALSE).relas = << >>
    BY DEF SectionBack
  <2>3. ns = [SectionBack(obj.secs[d], slot, FALSE) EXCEPT !.relas = SectionBack(obj.secs[d], slot, TRUE).relas]
    BY <1>6, <1>8, <2>1, <2>2
  <2> HIDE DEF ns
  <2> QED
    BY <2>3 DEF SectionBack
<1>10. back' = [back EXCEPT !.secs = [@ EXCEPT ![t] = ns]]
  BY <1>4, <1>6 DEF ReadRelas, RelasIn
<1> HIDE DEF ns
<1>11. PICK more : more = [secs EXCEPT ![t] = ns]
  OBVIOUS
<1>12. /\ IsList(more) /\ Len(more) = Len(secs) /\ DOMAIN more = DOMAIN secs /\ more[t] = ns
       /\ \A x \in DOMAIN secs : x # t => more[x] = secs[x]
  BY <1>7, <1>11, ExceptIsList
<1>13. back' = [secs |-> more, syms |-> back.syms]
  BY <1>7, <1>10, <1>11
<1>14. back'.secs = more /\ back'.syms = back.syms /\ back' = [secs |-> back'.secs, syms |-> back'.syms]
  BY <1>13
<1>15. Kept' = Kept
  BY <1>1, <1>5 DEF Kept
<1> HIDE DEF secs, t
<1>16. ASSUME NEW e \in DOMAIN obj.secs, Kept[e] # 0
       PROVE  \E whole \in BOOLEAN : /\ whole <=> RelasBack(e)'
                                     /\ more[Kept[e]] = SectionBack(obj.secs[e], slot, whole)
  <2>1. CASE e = d
    <3>1. RelasBack(e)'
      <4>1. i < i'
        BY <1>1, <1>4
      <4>2. pc' \in {"relas", "read"}
        BY <1>1
      <4> QED
        BY <1>4, <1>5, <1>6, <2>1, <4>1, <4>2 DEF RelasBack
    <3>2. more[Kept[e]] = SectionBack(obj.secs[e], slot, TRUE)
      BY <1>9, <1>12, <2>1 DEF t
    <3> QED
      BY <3>1, <3>2
  <2>2. CASE e # d
    <3>1. HeaderOf[e] # HeaderOf[d] /\ HeaderOf[e] \in DOMAIN shdrs /\ HeaderOf[d] \in DOMAIN shdrs
      BY <1>3, <2>2 DEF ReadState, Arranged
    <3>2. Kept[e] # t /\ Kept[e] \in DOMAIN secs
      <4>1. Kept[e] = secmap[HeaderOf[e]] /\ t = secmap[HeaderOf[d]]
        BY DEF Kept, t
      <4>2. secmap[HeaderOf[e]] # secmap[HeaderOf[d]]
        BY <1>2, <1>7, <3>1, <4>1 DEF SectionsRead
      <4>3. Kept[e] \in 0..Len(secs)
        BY <1>2, <3>1, <4>1 DEF SectionsRead, secs
      <4> QED
        BY <1>7, <1>16, <4>1, <4>2, <4>3
    <3>3. RelasBack(e)' <=> RelasBack(e)
      <4>1. \A k \in DOMAIN shdrs : shdrs[k].info = HeaderOf[e] => (k < i + 1 <=> k < i)
        <5> SUFFICES ASSUME NEW k \in DOMAIN shdrs, shdrs[k].info = HeaderOf[e]
                     PROVE  k < i + 1 <=> k < i
          OBVIOUS
        <5>1. k # i
          BY <1>6, <3>1
        <5> QED
          BY <1>4, <5>1
      <4>2. RelasBack(e)' <=> \E k \in DOMAIN shdrs : k < i + 1 /\ shdrs[k].type = "RELA" /\ shdrs[k].info = HeaderOf[e]
        BY <1>1, <1>5 DEF RelasBack
      <4>3. RelasBack(e) <=> \E k \in DOMAIN shdrs : k < i /\ shdrs[k].type = "RELA" /\ shdrs[k].info = HeaderOf[e]
        BY <1>1 DEF RelasBack
      <4> QED
        BY <4>1, <4>2, <4>3
    <3>4. PICK whole \in BOOLEAN : (whole <=> RelasBack(e)) /\ secs[Kept[e]] = SectionBack(obj.secs[e], slot, whole)
      BY <1>2, <1>16 DEF SectionsRead, secs
    <3>5. more[Kept[e]] = secs[Kept[e]]
      BY <1>12, <3>2
    <3>6. whole <=> RelasBack(e)'
      BY <3>3, <3>4
    <3> QED
      BY <3>4, <3>5, <3>6, Zenon
  <2> QED
    BY <2>1, <2>2
<1>17. SectionsRead'
  <2>1. \A e \in DOMAIN obj'.secs : Kept'[e] # 0 =>
          \E whole \in BOOLEAN : /\ whole <=> RelasBack(e)'
                                 /\ back'.secs[Kept'[e]] = SectionBack(obj'.secs[e], slot', whole)
    BY <1>5, <1>14, <1>15, <1>16
  <2>2. secmap' \in [DOMAIN shdrs' -> 0..Len(back'.secs)]
    BY <1>1, <1>2, <1>5, <1>12, <1>14 DEF SectionsRead, secs
  <2>3. /\ \A k \in DOMAIN shdrs' : secmap'[k] # 0 <=> shdrs'[k].type = "PROGBITS" /\ (pc' = "sections" => k < i')
        /\ \A k, l \in DOMAIN shdrs' : secmap'[k] = secmap'[l] /\ secmap'[k] # 0 => k = l
    BY <1>1, <1>2, <1>5 DEF SectionsRead
  <2>4. \A x \in DOMAIN back'.secs : \E k \in DOMAIN shdrs' : secmap'[k] = x
    BY <1>1, <1>2, <1>5, <1>12, <1>14 DEF SectionsRead, secs
  <2>5. ~foreign' => \A k \in DOMAIN shdrs' : secmap'[k] \in {0, k}
    <3>1. ~foreign' => ~foreign
      BY <1>5
    <3> QED
      BY <1>1, <1>2, <1>5, <3>1 DEF SectionsRead
  <2>6. IsList(back'.secs) /\ pc' # "sections"
    BY <1>1, <1>12, <1>14
  <2> QED
    BY <1>14, <2>1, <2>2, <2>3, <2>4, <2>5, <2>6, Zenon DEF SectionsRead
<1>18. SymbolsRead'
  <2>1. i + 1 <= Len(shdrs) + 1
    BY <1>4
  <2>2. Len(back.syms) = Len(obj.syms)
    BY <1>1, <1>2 DEF SymbolsRead
  <2> QED
    BY <1>1, <1>2, <1>3, <1>14, <1>15, <2>1, <2>2, KeepsSymbols
<1>19. ReadInv'
  BY <1>17, <1>18 DEF ReadInv
<1> QED
  <2>1. pc' \in Reading /\ i' \in Nat \ {0}
    BY <1>1, <1>4 DEF Reading
  <2> QED
    BY <1>1, <1>2, <1>19, <2>1, ReadStep

LEMMA SkipsRelas ==
  ASSUME FileInv, SkipRelas
  PROVE  FileInv'
<1>1. /\ pc = "relas" /\ pc' = "relas" /\ i <= file.shnum - 1 /\ RelaTarget(Headers[i]) = 0 /\ i' = i + 1
      /\ back' = back /\ secmap' = secmap /\ UNCHANGED <<objVars, symVars, fileVars>>
  BY DEF SkipRelas, AtHeader, readVars
<1>2. file = FileOf(shdrs, bodies, shstrndx) /\ SectionsRead /\ SymbolsRead /\ pc \in Placed
  BY <1>1 DEF FileInv, PlacesInv, ReadInv, Reading, Placed
<1>3. ReadState
  BY <1>2, ReadStateHolds
<1>4. /\ Headers = shdrs /\ Len(shdrs) \in Nat /\ DOMAIN shdrs = 1..Len(shdrs) /\ i \in DOMAIN shdrs
      /\ i \in Nat \ {0}
  BY <1>1, <1>3 DEF ReadState, FoundAgain
<1>5. back' = [secs |-> back.secs, syms |-> back'.syms] /\ back'.syms = back.syms
  BY <1>1, <1>2 DEF SectionsRead
<1>6. HeaderOf' = HeaderOf /\ shdrs' = shdrs /\ obj' = obj /\ slot' = slot /\ lost' = lost
      /\ foreign' = foreign
  BY <1>1 DEF HeaderOf, HeaderIn, objVars, symVars, fileVars, tabVars
<1>7. i' <= Len(shdrs) + 1
  BY <1>1, <1>4
<1>8. CASE \E d \in DOMAIN obj.secs : shdrs[i].type = "RELA" /\ shdrs[i].info = HeaderOf[d] /\ Kept[d] # 0
  <2>1. PICK d \in DOMAIN obj.secs : shdrs[i].type = "RELA" /\ shdrs[i].info = HeaderOf[d] /\ Kept[d] # 0
    BY <1>8
  <2>2. HeaderOf[d] \in DOMAIN secmap /\ Kept[d] = secmap[HeaderOf[d]]
    BY <1>2, <1>3, <2>1 DEF SectionsRead, ReadState, Kept
  <2>3. RelaTarget(shdrs[i]) = Kept[d]
    BY <2>1, <2>2 DEF RelaTarget, Mapped
  <2> QED
    BY <1>1, <1>4, <2>1, <2>3
<1>9. CASE ~\E d \in DOMAIN obj.secs : shdrs[i].type = "RELA" /\ shdrs[i].info = HeaderOf[d] /\ Kept[d] # 0
  <2>1. Kept' = Kept
    BY <1>1, <1>6 DEF Kept
  <2>2. ASSUME NEW d \in DOMAIN obj.secs, Kept[d] # 0
        PROVE  RelasBack(d)' <=> RelasBack(d)
    <3>1. \A k \in DOMAIN shdrs : shdrs[k].type = "RELA" /\ shdrs[k].info = HeaderOf[d] => (k < i + 1 <=> k < i)
      <4> SUFFICES ASSUME NEW k \in DOMAIN shdrs, shdrs[k].type = "RELA", shdrs[k].info = HeaderOf[d]
                   PROVE  k < i + 1 <=> k < i
        OBVIOUS
      <4>1. k # i
        BY <1>9, <2>2
      <4> QED
        BY <1>4, <4>1
    <3>2. RelasBack(d)' <=> \E k \in DOMAIN shdrs : k < i + 1 /\ shdrs[k].type = "RELA" /\ shdrs[k].info = HeaderOf[d]
      BY <1>1, <1>6 DEF RelasBack
    <3>3. RelasBack(d) <=> \E k \in DOMAIN shdrs : k < i /\ shdrs[k].type = "RELA" /\ shdrs[k].info = HeaderOf[d]
      BY <1>1 DEF RelasBack
    <3> QED
      BY <3>1, <3>2, <3>3
  <2>3. SectionsRead' /\ Kept' = Kept
    BY <1>1, <1>2, <1>3, <1>5, <2>2, KeepsSections
  <2>4. SymbolsRead'
    <3>1. Len(back.syms) = Len(obj.syms)
      BY <1>1, <1>2 DEF SymbolsRead
    <3> QED
      BY <1>1, <1>2, <1>3, <1>5, <1>7, <2>3, <3>1, KeepsSymbols
  <2>5. ReadInv'
    BY <2>3, <2>4 DEF ReadInv
  <2> QED
    <3>1. pc' \in Reading /\ i' \in Nat \ {0}
      BY <1>1, <1>4 DEF Reading
    <3> QED
      BY <1>1, <1>2, <2>5, <3>1, ReadStep
<1> QED
  BY <1>8, <1>9

-----------------------------------------------------------------------------
(* What was read.                                                          *)

ReadBack ==
  /\ back = [secs |-> back.secs, syms |-> back.syms]
  /\ IsList(back.secs) /\ Len(back.secs) \in Nat /\ DOMAIN back.secs = 1..Len(back.secs)
  /\ IsList(back.syms) /\ Len(back.syms) = Len(obj.syms) /\ DOMAIN back.syms = DOMAIN obj.syms
  /\ Kept \in [DOMAIN obj.secs -> 0..Len(back.secs)]
  /\ \A d \in DOMAIN obj.secs : Kept[d] = 0 <=> d \in lost
  /\ \A d, e \in DOMAIN obj.secs : Kept[d] = Kept[e] /\ Kept[d] # 0 => d = e
  /\ \A x \in DOMAIN back.secs : \E d \in DOMAIN obj.secs : Kept[d] = x
  /\ \A d \in DOMAIN obj.secs \ lost : back.secs[Kept[d]] = SectionBack(obj.secs[d], slot, TRUE)
  /\ \A j \in DOMAIN obj.syms : back.syms[slot[j]] = SymbolBack(obj.syms[j], Kept)

(* The relocations of a section the reader kept. *)
LEMMA BackIsList ==
  ASSUME NEW sec, IsList(sec.relas), NEW sl
  PROVE  LET relas == SectionBack(sec, sl, TRUE).relas
         IN /\ IsList(relas) /\ Len(relas) = Len(sec.relas) /\ DOMAIN relas = DOMAIN sec.relas
            /\ \A q \in DOMAIN sec.relas :
                 relas[q] = [off |-> sec.relas[q].off, sym |-> Image(sl, sec.relas[q].sym),
                             type |-> sec.relas[q].type, addend |-> sec.relas[q].addend]
<1> DEFINE x(q) == [off |-> sec.relas[q].off, sym |-> Image(sl, sec.relas[q].sym),
                    type |-> sec.relas[q].type, addend |-> sec.relas[q].addend]
<1>1. Len(sec.relas) \in Nat /\ DOMAIN sec.relas = 1..Len(sec.relas)
  BY ListProperties
<1>2. PICK f : f = SectionBack(sec, sl, TRUE).relas
  OBVIOUS
<1>3. f = [q \in DOMAIN sec.relas |-> x(q)]
  BY <1>2 DEF SectionBack
<1> HIDE DEF x
<1>4. DOMAIN f = 1..Len(sec.relas) /\ f = [q \in 1..Len(sec.relas) |-> f[q]]
  BY <1>1, <1>3
<1>5. IsList(f) /\ Len(f) = Len(sec.relas)
  BY <1>1, <1>4, FunctionIsList
<1>6. \A q \in DOMAIN sec.relas : f[q] = x(q)
  BY <1>3
<1>7. DOMAIN f = DOMAIN sec.relas
  BY <1>1, <1>4
<1> QED
  BY <1>2, <1>5, <1>6, <1>7, Zenon DEF x

LEMMA AllRead ==
  ASSUME FileInv, pc = "read"
  PROVE  ReadState /\ ReadBack
<1>1. /\ SectionsRead /\ SymbolsRead /\ file = FileOf(shdrs, bodies, shstrndx) /\ pc \in Placed
  BY DEF FileInv, PlacesInv, ReadInv, Reading, Placed
<1>2. ReadState
  BY <1>1, ReadStateHolds
<1>3. /\ back = [secs |-> back.secs, syms |-> back.syms]
      /\ IsList(back.secs) /\ Len(back.secs) \in Nat /\ DOMAIN back.secs = 1..Len(back.secs)
      /\ IsList(back.syms) /\ Len(back.syms) = Len(obj.syms) /\ DOMAIN back.syms = DOMAIN obj.syms
  <2>1. /\ back = [secs |-> back.secs, syms |-> back.syms]
        /\ IsList(back.secs) /\ IsList(back.syms) /\ Len(back.syms) = Len(obj.syms)
    BY <1>1 DEF SectionsRead, SymbolsRead
  <2>2. DOMAIN obj.syms = 1..Len(obj.syms)
    BY <1>2 DEF ReadState
  <2> QED
    BY <2>1, <2>2, ListProperties
<1>4. /\ HeaderOf \in [DOMAIN obj.secs -> DOMAIN shdrs] /\ secmap \in [DOMAIN shdrs -> 0..Len(back.secs)]
      /\ \A d \in DOMAIN obj.secs : Kept[d] = secmap[HeaderOf[d]]
      /\ Kept = [d \in DOMAIN obj.secs |-> Kept[d]]
  BY <1>1, <1>2 DEF ReadState, SectionsRead, Kept
<1>5. Kept \in [DOMAIN obj.secs -> 0..Len(back.secs)]
  <2>1. \A d \in DOMAIN obj.secs : Kept[d] \in 0..Len(back.secs)
    BY <1>4
  <2> HIDE DEF Kept
  <2> QED
    BY <1>4, <2>1
<1>6. \A k \in DOMAIN shdrs : secmap[k] # 0 <=> shdrs[k].type = "PROGBITS"
  BY <1>1 DEF SectionsRead
<1>7. /\ \A d \in DOMAIN obj.secs \ lost : shdrs[HeaderOf[d]].type = "PROGBITS"
      /\ \A d \in lost : shdrs[HeaderOf[d]].type = "NOBITS"
      /\ \A k \in DOMAIN shdrs : shdrs[k].type = "PROGBITS" => \E d \in DOMAIN obj.secs : HeaderOf[d] = k
      /\ \A d, e \in DOMAIN obj.secs : HeaderOf[d] = HeaderOf[e] => d = e
      /\ \A d \in DOMAIN obj.secs : obj.secs[d].relas # << >> =>
           \E k \in DOMAIN shdrs : shdrs[k].type = "RELA" /\ shdrs[k].info = HeaderOf[d]
  <2>1. Arranged(obj, slot, shdrs, bodies, shstrndx, lost, HeaderOf)
    BY <1>2 DEF ReadState
  <2>2. /\ \A d \in DOMAIN obj.secs \ lost : shdrs[HeaderOf[d]].type = "PROGBITS"
        /\ \A d \in lost : shdrs[HeaderOf[d]].type = "NOBITS"
    BY <2>1 DEF Arranged
  <2>3. /\ \A k \in DOMAIN shdrs : shdrs[k].type = "PROGBITS" => \E d \in DOMAIN obj.secs : HeaderOf[d] = k
        /\ \A d, e \in DOMAIN obj.secs : HeaderOf[d] = HeaderOf[e] => d = e
    BY <2>1 DEF Arranged
  <2>4. \A d \in DOMAIN obj.secs : obj.secs[d].relas # << >> =>
           \E k \in DOMAIN shdrs : shdrs[k].type = "RELA" /\ shdrs[k].info = HeaderOf[d]
    BY <2>1 DEF Arranged
  <2> QED
    BY <2>2, <2>3, <2>4, Zenon
<1>8. \A d \in DOMAIN obj.secs : Kept[d] = 0 <=> d \in lost
  <2> SUFFICES ASSUME NEW d \in DOMAIN obj.secs
               PROVE  Kept[d] = 0 <=> d \in lost
    OBVIOUS
  <2>1. HeaderOf[d] \in DOMAIN shdrs /\ Kept[d] = secmap[HeaderOf[d]]
    BY <1>4
  <2>2. d \in lost => shdrs[HeaderOf[d]].type = "NOBITS"
    BY <1>7, Zenon
  <2>3. d \notin lost => shdrs[HeaderOf[d]].type = "PROGBITS"
    BY <1>7, Zenon
  <2> QED
    BY <1>6, <2>1, <2>2, <2>3
<1>9. \A d, e \in DOMAIN obj.secs : Kept[d] = Kept[e] /\ Kept[d] # 0 => d = e
  <2> SUFFICES ASSUME NEW d \in DOMAIN obj.secs, NEW e \in DOMAIN obj.secs, Kept[d] = Kept[e], Kept[d] # 0
               PROVE  d = e
    OBVIOUS
  <2>1. \A k, l \in DOMAIN shdrs : secmap[k] = secmap[l] /\ secmap[k] # 0 => k = l
    BY <1>1 DEF SectionsRead
  <2>2. HeaderOf[d] = HeaderOf[e]
    BY <1>4, <2>1
  <2> QED
    BY <1>7, <2>2
<1>10. \A x \in DOMAIN back.secs : \E d \in DOMAIN obj.secs : Kept[d] = x
  <2> SUFFICES ASSUME NEW x \in DOMAIN back.secs
               PROVE  \E d \in DOMAIN obj.secs : Kept[d] = x
    OBVIOUS
  <2>1. PICK k \in DOMAIN shdrs : secmap[k] = x
    BY <1>1 DEF SectionsRead
  <2>2. x # 0
    BY <1>3
  <2>3. PICK d \in DOMAIN obj.secs : HeaderOf[d] = k
    BY <1>6, <1>7, <2>1, <2>2
  <2> QED
    BY <1>4, <2>1, <2>3
<1>11. ASSUME NEW d \in DOMAIN obj.secs \ lost
       PROVE  back.secs[Kept[d]] = SectionBack(obj.secs[d], slot, TRUE)
  <2>1. Kept[d] # 0
    BY <1>8
  <2>2. PICK whole \in BOOLEAN : /\ whole <=> RelasBack(d)
                                 /\ back.secs[Kept[d]] = SectionBack(obj.secs[d], slot, whole)
    BY <1>1, <2>1 DEF SectionsRead
  <2>3. CASE obj.secs[d].relas = << >>
    <3>1. IsList(obj.secs[d].relas) /\ Len(obj.secs[d].relas) = 0
      BY <2>3, EmptyIsList
    <3>2. SectionBack(obj.secs[d], slot, TRUE).relas = << >>
      <4>1. PICK r : r = SectionBack(obj.secs[d], slot, TRUE).relas
        OBVIOUS
      <4>2. IsList(r) /\ Len(r) = 0
        BY <3>1, <4>1, BackIsList, Zenon
      <4>3. r = << >>
        BY <4>2, NoElements
      <4> QED
        BY <4>1, <4>3, Zenon
    <3>3. SectionBack(obj.secs[d], slot, FALSE).relas = << >>
      BY DEF SectionBack
    <3>4. SectionBack(obj.secs[d], slot, TRUE) = SectionBack(obj.secs[d], slot, FALSE)
      <4>1. \A b \in BOOLEAN : SectionBack(obj.secs[d], slot, b) =
               [name |-> obj.secs[d].name, alloc |-> obj.secs[d].alloc, addr |-> 0,
                align |-> obj.secs[d].align, data |-> obj.secs[d].data,
                relas |-> SectionBack(obj.secs[d], slot, b).relas]
        BY DEF SectionBack
      <4> QED
        BY <3>2, <3>3, <4>1
    <3> QED
      BY <2>2, <3>4
  <2>4. CASE obj.secs[d].relas # << >>
    <3>1. PICK k \in DOMAIN shdrs : shdrs[k].type = "RELA" /\ shdrs[k].info = HeaderOf[d]
      BY <1>7, <2>4
    <3>2. k < i
      <4>1. i = Len(shdrs) + 1
        BY <1>1 DEF SymbolsRead
      <4>2. k \in 1..Len(shdrs) /\ Len(shdrs) \in Nat
        BY <1>2 DEF ReadState
      <4> QED
        BY <4>1, <4>2
    <3>3. RelasBack(d)
      BY <3>1, <3>2 DEF RelasBack
    <3>4. whole = TRUE
      BY <2>2, <3>3
    <3> QED
      BY <2>2, <3>4
  <2> QED
    BY <2>3, <2>4
<1>12. ASSUME NEW j \in DOMAIN obj.syms
       PROVE  back.syms[slot[j]] = SymbolBack(obj.syms[j], Kept)
  <2>1. slot[j] \in 1..Len(obj.syms) /\ Len(obj.syms) \in Nat
    BY <1>2 DEF ReadState, Slotted
  <2>2. slot[j] <= Len(back.syms)
    BY <1>3, <2>1
  <2> QED
    BY <1>1, <2>2 DEF SymbolsRead
<1>13. ReadBack
  BY <1>3, <1>5, <1>8, <1>9, <1>10, <1>11, <1>12, Zenon DEF ReadBack
<1> QED
  BY <1>2, <1>13

LEMMA BackIsObject ==
  ASSUME ReadState, ReadBack
  PROVE  back \in Object(Names) /\ Aligned(back)
<1>1. /\ obj \in Object(Names) /\ Aligned(obj)
      /\ Len(obj.secs) \in Nat /\ DOMAIN obj.secs = 1..Len(obj.secs)
      /\ Len(obj.syms) \in Nat /\ DOMAIN obj.syms = 1..Len(obj.syms)
      /\ slot \in [DOMAIN obj.syms -> 1..Len(obj.syms)]
      /\ \A s \in 1..Len(obj.syms) : \E j \in DOMAIN obj.syms : slot[j] = s
  BY DEF ReadState, Slotted
<1>2. ASSUME NEW x \in DOMAIN back.secs
      PROVE  /\ back.secs[x] \in Section(Names) /\ back.secs[x].align # 0
             /\ \A q \in DOMAIN back.secs[x].relas : back.secs[x].relas[q].sym \in 0..Len(back.syms)
  <2>1. PICK d \in DOMAIN obj.secs : Kept[d] = x
    BY DEF ReadBack
  <2>2. x # 0
    BY DEF ReadBack
  <2>3. back.secs[x] = SectionBack(obj.secs[d], slot, TRUE)
    BY <2>1, <2>2 DEF ReadBack
  <2> DEFINE sec == obj.secs[d]
  <2>4. sec \in Section(Names) /\ sec.align # 0
    BY <1>1, ObjectFacts DEF Aligned
  <2>5. \A q \in DOMAIN sec.relas : sec.relas[q] \in Rela /\ sec.relas[q].sym \in 0..Len(obj.syms)
    BY <1>1, ObjectFacts
  <2> HIDE DEF sec
  <2>6. /\ sec.name \in Names /\ sec.alloc \in BOOLEAN /\ sec.align \in Nat
        /\ sec.data \in Seq(Seq(Nat)) /\ IsList(sec.relas)
    <3>1. sec.data \in Seq(Seq(Nat))
      BY <2>4 DEF Section
    <3> QED
      BY <2>4, <3>1, SectionFacts
  <2>7. PICK relas : relas = SectionBack(sec, slot, TRUE).relas
    OBVIOUS
  <2>8. /\ IsList(relas) /\ Len(relas) = Len(sec.relas) /\ DOMAIN relas = DOMAIN sec.relas
        /\ \A q \in DOMAIN sec.relas :
             relas[q] = [off |-> sec.relas[q].off, sym |-> Image(slot, sec.relas[q].sym),
                         type |-> sec.relas[q].type, addend |-> sec.relas[q].addend]
    BY <2>6, <2>7, BackIsList, Zenon
  <2>9. ASSUME NEW q \in DOMAIN relas
        PROVE  relas[q] \in Rela /\ relas[q].sym \in 0..Len(obj.syms)
    <3>1. sec.relas[q] \in Rela /\ sec.relas[q].sym \in 0..Len(obj.syms)
      BY <2>5, <2>8
    <3>2. Image(slot, sec.relas[q].sym) \in 0..Len(obj.syms)
      <4>1. CASE sec.relas[q].sym = 0
        BY <1>1, <4>1 DEF Image
      <4>2. CASE sec.relas[q].sym # 0
        <5>1. sec.relas[q].sym \in DOMAIN obj.syms
          BY <1>1, <3>1, <4>2
        <5> QED
          BY <1>1, <4>2, <5>1 DEF Image
      <4> QED
        BY <4>1, <4>2
    <3>3. PICK s : s = Image(slot, sec.relas[q].sym)
      OBVIOUS
    <3>4. relas[q] = [off |-> sec.relas[q].off, sym |-> s,
                      type |-> sec.relas[q].type, addend |-> sec.relas[q].addend]
      BY <2>8, <3>3
    <3>5. s \in Nat /\ s \in 0..Len(obj.syms)
      BY <1>1, <3>2, <3>3
    <3>6. sec.relas[q].off \in Nat /\ sec.relas[q].type \in STRING /\ sec.relas[q].addend \in Int
      BY <3>1 DEF Rela
    <3> QED
      BY <3>4, <3>5, <3>6 DEF Rela
  <2>10. relas \in Seq(Rela)
    <3>1. Len(relas) \in Nat /\ DOMAIN relas = 1..Len(relas) /\ relas = [q \in DOMAIN relas |-> relas[q]]
      BY <2>8, ListProperties DEF IsList
    <3>2. relas \in [1..Len(relas) -> Rela]
      BY <2>9, <3>1
    <3> QED
      BY <3>1, <3>2, FunctionIsSeq
  <2>11. SectionBack(sec, slot, TRUE) = [name |-> sec.name, alloc |-> sec.alloc, addr |-> 0,
                                         align |-> sec.align, data |-> sec.data, relas |-> relas]
    BY <2>7 DEF SectionBack
  <2>12. back.secs[x] = [name |-> sec.name, alloc |-> sec.alloc, addr |-> 0,
                         align |-> sec.align, data |-> sec.data, relas |-> relas]
    BY <2>3, <2>11 DEF sec
  <2>13. back.secs[x] \in Section(Names)
    BY <2>6, <2>10, <2>12 DEF Section
  <2>14. back.secs[x].align # 0 /\ back.secs[x].relas = relas
    BY <2>4, <2>12
  <2> QED
    BY <2>9, <2>13, <2>14 DEF ReadBack
<1>3. ASSUME NEW s \in DOMAIN back.syms
      PROVE  back.syms[s] \in Symbol(Names) /\ back.syms[s].sec \in 0..Len(back.secs)
  <2>1. PICK j \in DOMAIN obj.syms : slot[j] = s
    BY <1>1 DEF ReadBack
  <2>2. back.syms[s] = SymbolBack(obj.syms[j], Kept)
    BY <2>1 DEF ReadBack
  <2>3. obj.syms[j] \in Symbol(Names) /\ obj.syms[j].sec \in 0..Len(obj.secs)
    BY <1>1, ObjectFacts
  <2>4. PICK k : k = Image(Kept, obj.syms[j].sec)
    OBVIOUS
  <2>5. k \in 0..Len(back.secs) /\ k \in Nat
    <3>1. Kept \in [DOMAIN obj.secs -> 0..Len(back.secs)] /\ Len(back.secs) \in Nat
      BY DEF ReadBack
    <3>2. CASE obj.syms[j].sec = 0
      BY <2>4, <3>1, <3>2 DEF Image
    <3>3. CASE obj.syms[j].sec # 0
      <4>1. obj.syms[j].sec \in DOMAIN obj.secs
        BY <1>1, <2>3, <3>3
      <4>2. k = Kept[obj.syms[j].sec]
        BY <2>4, <3>3 DEF Image
      <4> QED
        BY <3>1, <4>1, <4>2
    <3> QED
      BY <3>2, <3>3
  <2> DEFINE sym == obj.syms[j]
             v == IF sym.sec = 0 THEN 0 ELSE sym.value
  <2>6. back.syms[s] = [name |-> sym.name, sec |-> k, value |-> v, bind |-> sym.bind, type |-> sym.type]
    BY <2>2, <2>4 DEF SymbolBack
  <2>7. sym.name \in Names /\ v \in Nat /\ sym.bind \in Binds /\ sym.type \in STRING
    BY <2>3, SymbolFacts
  <2> HIDE DEF v, sym
  <2> QED
    BY <2>5, <2>6, <2>7 DEF Symbol
<1>4. back.secs \in Seq(Section(Names)) /\ back.syms \in Seq(Symbol(Names))
  <2>1. /\ back.secs = [x \in DOMAIN back.secs |-> back.secs[x]]
        /\ back.syms = [x \in DOMAIN back.syms |-> back.syms[x]]
    BY DEF ReadBack, IsList
  <2>2. /\ Len(back.secs) \in Nat /\ DOMAIN back.secs = 1..Len(back.secs)
        /\ Len(back.syms) \in Nat /\ DOMAIN back.syms = 1..Len(back.syms)
    BY ListProperties DEF ReadBack
  <2>3. back.secs \in [1..Len(back.secs) -> Section(Names)]
    BY <1>2, <2>1, <2>2
  <2>4. back.syms \in [1..Len(back.syms) -> Symbol(Names)]
    BY <1>3, <2>1, <2>2
  <2> QED
    BY <2>2, <2>3, <2>4, FunctionIsSeq
<1>5. back \in [secs : Seq(Section(Names)), syms : Seq(Symbol(Names))]
  <2>1. back = [secs |-> back.secs, syms |-> back.syms]
    BY DEF ReadBack
  <2>2. PICK a, b : a = back.secs /\ b = back.syms
    OBVIOUS
  <2>3. [secs |-> a, syms |-> b] \in [secs : Seq(Section(Names)), syms : Seq(Symbol(Names))]
    BY <1>4, <2>2
  <2> QED
    BY <2>1, <2>2, <2>3
<1>6. back \in Object(Names)
  BY <1>2, <1>3, <1>5, Zenon DEF Object
<1> QED
  BY <1>2, <1>6 DEF Aligned

(* A file of this writer gives back the object with its symbols in the     *)
(* order of the file.                                                      *)
Reproduced ==
  /\ IsList(back.secs) /\ Len(back.secs) = Len(obj.secs) /\ DOMAIN back.secs = DOMAIN obj.secs
  /\ IsList(back.syms) /\ Len(back.syms) = Len(obj.syms) /\ DOMAIN back.syms = DOMAIN obj.syms
  /\ \A d \in DOMAIN obj.secs : back.secs[d] = SectionBack(obj.secs[d], slot, TRUE)
  /\ \A j \in DOMAIN obj.syms : back.syms[slot[j]] = SymbolBack(obj.syms[j], Identity(Len(obj.secs)))

LEMMA OwnIsReproduced ==
  ASSUME FileInv, pc = "read", ~foreign
  PROVE  Reproduced
<1>1. ReadState /\ ReadBack
  BY AllRead
<1>2. /\ HeaderOf = Identity(Len(obj.secs)) /\ lost = {}
      /\ Len(obj.secs) \in Nat /\ DOMAIN obj.secs = 1..Len(obj.secs)
      /\ \A d \in DOMAIN obj.secs : HeaderOf[d] \in DOMAIN shdrs
  BY <1>1 DEF ReadState
<1>3. \A k \in DOMAIN shdrs : secmap[k] \in {0, k}
  BY DEF FileInv, ReadInv, Reading, SectionsRead
<1>4. \A d \in DOMAIN obj.secs : Kept[d] = d
  <2> SUFFICES ASSUME NEW d \in DOMAIN obj.secs
               PROVE  Kept[d] = d
    OBVIOUS
  <2>1. HeaderOf[d] = d /\ Kept[d] = secmap[HeaderOf[d]]
    BY <1>2 DEF Identity, Kept
  <2>2. Kept[d] # 0
    BY <1>1, <1>2 DEF ReadBack
  <2> QED
    BY <1>2, <1>3, <2>1, <2>2
<1>5. Kept = Identity(Len(obj.secs))
  <2>1. Kept = [d \in DOMAIN obj.secs |-> Kept[d]]
    BY DEF Kept
  <2> HIDE DEF Kept
  <2> QED
    BY <1>2, <1>4, <2>1 DEF Identity
<1>6. DOMAIN back.secs = DOMAIN obj.secs /\ Len(back.secs) = Len(obj.secs)
  <2>1. /\ Len(back.secs) \in Nat /\ DOMAIN back.secs = 1..Len(back.secs)
        /\ \A x \in DOMAIN back.secs : \E d \in DOMAIN obj.secs : Kept[d] = x
        /\ \A d \in DOMAIN obj.secs : Kept[d] \in 0..Len(back.secs)
    BY <1>1 DEF ReadBack
  <2>2. \A x \in 1..Len(back.secs) : x \in 1..Len(obj.secs)
    BY <1>2, <1>4, <2>1
  <2>3. \A x \in 1..Len(obj.secs) : x \in 1..Len(back.secs)
    BY <1>2, <1>4, <2>1
  <2>4. Len(back.secs) = Len(obj.secs)
    <3>1. \A a, b \in Nat : (\A x \in 1..a : x \in 1..b) /\ a # 0 => a <= b
      <4> SUFFICES ASSUME NEW a \in Nat, NEW b \in Nat, \A x \in 1..a : x \in 1..b, a # 0
                   PROVE  a <= b
        OBVIOUS
      <4>1. a \in 1..a
        OBVIOUS
      <4> QED
        BY <4>1
    <3>2. Len(back.secs) <= Len(obj.secs) /\ Len(obj.secs) <= Len(back.secs)
      <4>1. Len(back.secs) # 0 => Len(back.secs) <= Len(obj.secs)
        BY <1>2, <2>1, <2>2, <3>1, Zenon
      <4>2. Len(obj.secs) # 0 => Len(obj.secs) <= Len(back.secs)
        BY <1>2, <2>1, <2>3, <3>1, Zenon
      <4> QED
        BY <1>2, <2>1, <4>1, <4>2
    <3> QED
      BY <1>2, <2>1, <3>2
  <2> QED
    BY <1>2, <2>1, <2>4
<1>7. \A d \in DOMAIN obj.secs : back.secs[d] = SectionBack(obj.secs[d], slot, TRUE)
  <2> SUFFICES ASSUME NEW d \in DOMAIN obj.secs
               PROVE  back.secs[d] = SectionBack(obj.secs[d], slot, TRUE)
    OBVIOUS
  <2>1. back.secs[Kept[d]] = SectionBack(obj.secs[d], slot, TRUE)
    BY <1>1, <1>2 DEF ReadBack
  <2> QED
    BY <1>4, <2>1
<1>8. \A j \in DOMAIN obj.syms : back.syms[slot[j]] = SymbolBack(obj.syms[j], Identity(Len(obj.secs)))
  BY <1>1, <1>5 DEF ReadBack
<1>9. /\ IsList(back.secs) /\ IsList(back.syms) /\ Len(back.syms) = Len(obj.syms)
      /\ DOMAIN back.syms = DOMAIN obj.syms
  BY <1>1 DEF ReadBack
<1> QED
  BY <1>6, <1>7, <1>8, <1>9, Zenon DEF Reproduced

LEMMA IdentityIsSlotted ==
  ASSUME ReadState, Reproduced
  PROVE  Slotted(back.syms, Identity(Len(obj.syms)), firstGlobal)
<1> DEFINE n == Len(obj.syms)
           id == Identity(n)
<1>1. /\ n \in Nat /\ DOMAIN obj.syms = 1..n /\ slot \in [1..n -> 1..n]
      /\ \A s \in 1..n : \E j \in DOMAIN obj.syms : slot[j] = s
      /\ firstGlobal \in 1..(n + 1)
      /\ \A j \in DOMAIN obj.syms : slot[j] < firstGlobal <=> obj.syms[j].bind \in Locals
  BY DEF ReadState, Slotted
<1>2. DOMAIN back.syms = 1..n /\ Len(back.syms) = n
  BY <1>1 DEF Reproduced
<1>3. id \in [1..n -> 1..n] /\ \A j \in 1..n : id[j] = j
  BY DEF Identity
<1> HIDE DEF id
<1>4. Ordered(back.syms, id)
  BY <1>2, <1>3 DEF Ordered
<1>5. ASSUME NEW s \in 1..n
      PROVE  id[s] < firstGlobal <=> back.syms[s].bind \in Locals
  <2>1. PICK j \in DOMAIN obj.syms : slot[j] = s
    BY <1>1
  <2>2. back.syms[s] = SymbolBack(obj.syms[j], Identity(Len(obj.secs)))
    BY <2>1 DEF Reproduced
  <2>3. back.syms[s].bind = obj.syms[j].bind
    BY <2>2 DEF SymbolBack
  <2> QED
    BY <1>1, <1>3, <2>1, <2>3
<1>6. Slotted(back.syms, id, firstGlobal)
  <2>1. \A s \in 1..Len(back.syms) : \E j \in DOMAIN back.syms : id[j] = s
    BY <1>2, <1>3
  <2>2. id \in [DOMAIN back.syms -> 1..Len(back.syms)] /\ firstGlobal \in 1..(Len(back.syms) + 1)
    BY <1>1, <1>2, <1>3
  <2>3. \A j \in DOMAIN back.syms : id[j] < firstGlobal <=> back.syms[j].bind \in Locals
    BY <1>2, <1>5
  <2> QED
    BY <1>4, <2>1, <2>2, <2>3 DEF Slotted
<1> QED
  BY <1>6 DEF id

LEMMA RelasAreSame ==
  ASSUME ReadState, Reproduced, NEW d \in DOMAIN obj.secs
  PROVE  /\ RelasOf(back.secs[d].relas, Identity(Len(obj.syms))) = RelasOf(obj.secs[d].relas, slot)
         /\ back.secs[d].relas # << >> <=> obj.secs[d].relas # << >>
<1> DEFINE was == obj.secs[d].relas
           is == back.secs[d].relas
           id == Identity(Len(obj.syms))
<1>1. /\ IsList(was) /\ Len(was) \in Nat /\ DOMAIN was = 1..Len(was)
      /\ \A q \in DOMAIN was : was[q].sym \in 0..Len(obj.syms)
  <2>1. obj.secs[d] \in Section(Names)
    BY ObjectFacts DEF ReadState
  <2> QED
    BY <2>1, ObjectFacts, SectionFacts DEF ReadState
<1>2. /\ IsList(is) /\ Len(is) = Len(was) /\ DOMAIN is = DOMAIN was
      /\ \A q \in DOMAIN was :
           is[q] = [off |-> was[q].off, sym |-> Image(slot, was[q].sym),
                    type |-> was[q].type, addend |-> was[q].addend]
  <2>1. is = SectionBack(obj.secs[d], slot, TRUE).relas
    BY DEF Reproduced
  <2>2. PICK sec : sec = obj.secs[d]
    OBVIOUS
  <2>3. PICK r : r = SectionBack(sec, slot, TRUE).relas
    OBVIOUS
  <2>4. IsList(sec.relas) /\ was = sec.relas /\ is = r
    BY <1>1, <2>1, <2>2, <2>3
  <2>5. /\ IsList(r) /\ Len(r) = Len(sec.relas) /\ DOMAIN r = DOMAIN sec.relas
        /\ \A q \in DOMAIN sec.relas :
             r[q] = [off |-> sec.relas[q].off, sym |-> Image(slot, sec.relas[q].sym),
                     type |-> sec.relas[q].type, addend |-> sec.relas[q].addend]
    <3>1. IsList(sec.relas)
      BY <2>4
    <3> QED
      BY <2>3, <3>1, BackIsList, Zenon
  <2> HIDE DEF is, was
  <2> QED
    BY <2>4, <2>5, Zenon
<1>3. \A s \in 0..Len(obj.syms) : Image(id, Image(slot, s)) = Image(slot, s)
  <2>1. slot \in [DOMAIN obj.syms -> 1..Len(obj.syms)] /\ DOMAIN obj.syms = 1..Len(obj.syms) /\ Len(obj.syms) \in Nat
    BY DEF ReadState, Slotted
  <2>2. \A s \in 1..Len(obj.syms) : id[s] = s
    BY DEF Identity
  <2> HIDE DEF id
  <2> SUFFICES ASSUME NEW s \in 0..Len(obj.syms)
               PROVE  Image(id, Image(slot, s)) = Image(slot, s)
    OBVIOUS
  <2>3. CASE s = 0
    BY <2>3 DEF Image
  <2>4. CASE s # 0
    <3>1. slot[s] \in 1..Len(obj.syms) /\ slot[s] # 0
      BY <2>1, <2>4
    <3>2. Image(slot, s) = slot[s]
      BY <2>4 DEF Image
    <3> QED
      BY <2>2, <3>1, <3>2 DEF Image
  <2> QED
    BY <2>3, <2>4
<1> HIDE DEF was, is, id
<1>4. ASSUME NEW q \in DOMAIN was
      PROVE  RelaOut(is[q], Image(id, is[q].sym)) = RelaOut(was[q], Image(slot, was[q].sym))
  <2>1. /\ is[q].off = was[q].off /\ is[q].sym = Image(slot, was[q].sym) /\ is[q].type = was[q].type
        /\ is[q].addend = was[q].addend
    BY <1>2
  <2>2. Image(id, is[q].sym) = Image(slot, was[q].sym)
    BY <1>1, <1>3, <2>1
  <2> QED
    BY <2>1, <2>2 DEF RelaOut
<1>5. RelasOf(is, id) = RelasOf(was, slot)
  BY <1>2, <1>4 DEF RelasOf
<1>6. is # << >> <=> was # << >>
  <2>1. is = << >> => Len(is) = 0
    BY EmptyIsList, Zenon
  <2>2. was = << >> => Len(was) = 0
    BY EmptyIsList, Zenon
  <2>3. (Len(is) = 0 => is = << >>) /\ (Len(was) = 0 => was = << >>)
    BY <1>1, <1>2, NoElements
  <2> QED
    BY <1>2, <2>1, <2>2, <2>3, Zenon
<1> QED
  BY <1>5, <1>6 DEF was, is, id

LEMMA SymbolsAreSame ==
  ASSUME ReadState, Reproduced, NEW n, n = Len(obj.secs), NEW table
  PROVE  /\ TableOf(obj.syms, slot, Identity(n), table)
            => TableOf(back.syms, Identity(Len(obj.syms)), Identity(n), table)
         /\ StringsOf(obj.syms, slot, table) => StringsOf(back.syms, Identity(Len(obj.syms)), table)
<1> DEFINE L == Len(obj.syms)
           id == Identity(L)
<1>1. /\ L \in Nat /\ DOMAIN obj.syms = 1..L /\ slot \in [1..L -> 1..L]
      /\ \A s \in 1..L : \E j \in DOMAIN obj.syms : slot[j] = s
      /\ DOMAIN back.syms = 1..L /\ Len(back.syms) = L
  BY DEF ReadState, Slotted, Reproduced
<1>2. \A s \in 1..L : id[s] = s
  BY DEF Identity
<1> HIDE DEF id
<1>3. ASSUME NEW s \in DOMAIN back.syms
      PROVE  \E j \in DOMAIN obj.syms : slot[j] = s /\ back.syms[s] = SymbolBack(obj.syms[j], Identity(n))
  <2>1. PICK j \in DOMAIN obj.syms : slot[j] = s
    BY <1>1
  <2> QED
    BY <2>1 DEF Reproduced
<1>4. ASSUME NEW j \in DOMAIN obj.syms, NEW s, NEW sym, sym = SymbolBack(obj.syms[j], Identity(n))
      PROVE  /\ DiskSymbol(sym, s, Image(Identity(n), sym.sec))
                  = DiskSymbol(obj.syms[j], s, Image(Identity(n), obj.syms[j].sec))
             /\ sym.name = obj.syms[j].name
  <2>1. obj.syms[j].sec \in 0..n /\ n \in Nat
    BY ObjectFacts DEF ReadState
  <2>2. \A k \in 0..n : Image(Identity(n), k) = k
    BY DEF Image, Identity
  <2> DEFINE o == obj.syms[j]
  <2>3. /\ sym.name = o.name /\ sym.sec = o.sec /\ sym.bind = o.bind /\ sym.type = o.type
        /\ sym.value = IF o.sec = 0 THEN 0 ELSE o.value
    BY <1>4, <2>1, <2>2 DEF SymbolBack
  <2>4. Image(Identity(n), sym.sec) = Image(Identity(n), o.sec)
    BY <2>3
  <2> HIDE DEF o
  <2>5. (IF sym.sec # 0 THEN sym.value ELSE 0) = (IF o.sec # 0 THEN o.value ELSE 0)
    BY <2>3
  <2>6. DiskSymbol(sym, s, Image(Identity(n), sym.sec)) = DiskSymbol(o, s, Image(Identity(n), o.sec))
    BY <2>3, <2>4, <2>5 DEF DiskSymbol
  <2> QED
    BY <2>3, <2>6 DEF o
<1>5. ASSUME TableOf(obj.syms, slot, Identity(n), table)
      PROVE  TableOf(back.syms, id, Identity(n), table)
  <2>1. ASSUME NEW s \in DOMAIN back.syms
        PROVE  table[id[s]] = DiskSymbol(back.syms[s], id[s], Image(Identity(n), back.syms[s].sec))
    <3>1. PICK j \in DOMAIN obj.syms : slot[j] = s /\ back.syms[s] = SymbolBack(obj.syms[j], Identity(n))
      BY <1>3
    <3>2. table[slot[j]] = DiskSymbol(obj.syms[j], slot[j], Image(Identity(n), obj.syms[j].sec))
      BY <1>5 DEF TableOf
    <3>3. DiskSymbol(back.syms[s], s, Image(Identity(n), back.syms[s].sec))
            = DiskSymbol(obj.syms[j], s, Image(Identity(n), obj.syms[j].sec))
      BY <1>4, <3>1, Zenon
    <3>4. id[s] = s
      BY <1>1, <1>2
    <3> QED
      BY <3>1, <3>2, <3>3, <3>4
  <2>2. IsList(table) /\ Len(table) = Len(back.syms)
    BY <1>1, <1>5 DEF TableOf
  <2> QED
    BY <2>1, <2>2 DEF TableOf
<1>6. ASSUME StringsOf(obj.syms, slot, table)
      PROVE  StringsOf(back.syms, id, table)
  <2>1. ASSUME NEW s \in DOMAIN back.syms
        PROVE  table[2 * id[s]] = back.syms[s].name /\ table[2 * id[s] + 1] = Nul
    <3>1. PICK j \in DOMAIN obj.syms : slot[j] = s /\ back.syms[s] = SymbolBack(obj.syms[j], Identity(n))
      BY <1>3
    <3>2. table[2 * slot[j]] = obj.syms[j].name /\ table[2 * slot[j] + 1] = Nul
      BY <1>6 DEF StringsOf
    <3>3. back.syms[s].name = obj.syms[j].name
      BY <1>4, <3>1, Zenon
    <3>4. id[s] = s
      BY <1>1, <1>2
    <3> QED
      BY <3>1, <3>2, <3>3, <3>4
  <2>2. IsList(table) /\ Len(table) = 1 + 2 * Len(back.syms) /\ table[1] = Nul
    BY <1>1, <1>6 DEF StringsOf
  <2> QED
    BY <2>1, <2>2 DEF StringsOf
<1> QED
  BY <1>5, <1>6 DEF id

LEMMA TablesAreSame ==
  ASSUME ReadState, Reproduced, OwnTables(obj, slot, firstGlobal, shdrs, bodies, shstrndx)
  PROVE  OwnTables(back, Identity(Len(obj.syms)), firstGlobal, shdrs, bodies, shstrndx)
<1> DEFINE id == Identity(Len(obj.syms))
           m == Len(shdrs)
           n == Len(obj.secs)
<1>1. /\ m \in Nat /\ n \in Nat /\ DOMAIN obj.secs = 1..n /\ Len(back.secs) = n /\ DOMAIN back.secs = 1..n
      /\ m >= n + 3
      /\ OwnHeaders(obj, slot, firstGlobal, shdrs, bodies, m - 1)
      /\ RelasAmong(obj, shdrs, m - 1, n + 1)
      /\ NamesOf(obj, bodies[m], m - 1)
  BY DEF ReadState, Reproduced, OwnTables
<1>2. \A d \in 1..n : /\ back.secs[d].name = obj.secs[d].name /\ back.secs[d].alloc = obj.secs[d].alloc
                      /\ back.secs[d].align = obj.secs[d].align /\ back.secs[d].data = obj.secs[d].data
  <2> SUFFICES ASSUME NEW d \in 1..n
               PROVE  /\ back.secs[d].name = obj.secs[d].name /\ back.secs[d].alloc = obj.secs[d].alloc
                      /\ back.secs[d].align = obj.secs[d].align /\ back.secs[d].data = obj.secs[d].data
    OBVIOUS
  <2>1. back.secs[d] = SectionBack(obj.secs[d], slot, TRUE)
    BY <1>1 DEF Reproduced
  <2> QED
    BY <2>1 DEF SectionBack
<1>3. \A d \in 1..n : /\ RelasOf(back.secs[d].relas, id) = RelasOf(obj.secs[d].relas, slot)
                      /\ back.secs[d].relas # << >> <=> obj.secs[d].relas # << >>
  BY <1>1, RelasAreSame
<1> HIDE DEF id, m, n
<1>4. ASSUME NEW k \in 1..(m - 1)
      PROVE  OwnHeader(back, id, firstGlobal, k, shdrs[k], bodies[k])
  <2> DEFINE h == shdrs[k]
             b == bodies[k]
  <2>1. OwnHeader(obj, slot, firstGlobal, k, h, b)
    BY <1>1 DEF OwnHeaders
  <2>2. Len(obj.secs) = n /\ k \in Nat \ {0}
    BY <1>1 DEF n
  <2> HIDE DEF h, b
  <2>3. h \in HeaderType /\ h.name = 2 * k - 1 /\ h.size = DiskSize(h.type, b)
    BY <2>1 DEF OwnHeader
  <2>4. k <= n => /\ HeaderSays(h, "PROGBITS", back.secs[k].alloc, back.secs[k].align, 0, 0)
                  /\ b = back.secs[k].data
    <3> SUFFICES ASSUME k <= n
                 PROVE  /\ HeaderSays(h, "PROGBITS", back.secs[k].alloc, back.secs[k].align, 0, 0)
                        /\ b = back.secs[k].data
      OBVIOUS
    <3>1. HeaderSays(h, "PROGBITS", obj.secs[k].alloc, obj.secs[k].align, 0, 0) /\ b = obj.secs[k].data
      BY <2>1, <2>2 DEF OwnHeader
    <3>2. k \in 1..n
      BY <1>1, <2>2
    <3> QED
      BY <1>2, <3>1, <3>2, Zenon
  <2>5. k = n + 1 => /\ HeaderSays(h, "SYMTAB", FALSE, 8, n + 2, firstGlobal)
                     /\ TableOf(back.syms, id, Identity(n), b)
    <3>1. k = n + 1 => /\ HeaderSays(h, "SYMTAB", FALSE, 8, n + 2, firstGlobal)
                       /\ TableOf(obj.syms, slot, Identity(n), b)
      BY <2>1, <2>2, Zenon DEF OwnHeader
    <3> QED
      BY <2>2, <3>1, SymbolsAreSame, Zenon DEF id
  <2>6. k = n + 2 => HeaderSays(h, "STRTAB", FALSE, 1, 0, 0) /\ StringsOf(back.syms, id, b)
    <3>1. k = n + 2 => HeaderSays(h, "STRTAB", FALSE, 1, 0, 0) /\ StringsOf(obj.syms, slot, b)
      BY <2>1, <2>2, Zenon DEF OwnHeader
    <3> QED
      BY <2>2, <3>1, SymbolsAreSame, Zenon DEF id
  <2>7. k > n + 2 => /\ HeaderSays(h, "RELA", FALSE, 8, n + 1, h.info)
                     /\ h.info \in 1..n /\ back.secs[h.info].relas # << >>
                     /\ b = RelasOf(back.secs[h.info].relas, id)
    <3>1. k > n + 2 => /\ HeaderSays(h, "RELA", FALSE, 8, n + 1, h.info)
                       /\ h.info \in 1..n /\ obj.secs[h.info].relas # << >>
                       /\ b = RelasOf(obj.secs[h.info].relas, slot)
      BY <2>1, <2>2, Zenon DEF OwnHeader
    <3> QED
      BY <1>3, <3>1, Zenon
  <2>8. OwnHeader(back, id, firstGlobal, k, h, b)
    BY <1>1, <2>3, <2>4, <2>5, <2>6, <2>7, Zenon DEF OwnHeader
  <2> QED
    BY <2>8 DEF h, b
<1>5. OwnHeaders(back, id, firstGlobal, shdrs, bodies, m - 1)
  <2>1. Len(back.secs) = Len(obj.secs)
    BY <1>1 DEF n
  <2>2. \A k, l \in 1..(m - 1) : Len(back.secs) + 2 < k /\ k < l => shdrs[k].info < shdrs[l].info
    BY <1>1, <2>1, Zenon DEF OwnHeaders
  <2>3. IsList(shdrs) /\ IsList(bodies) /\ Len(bodies) = Len(shdrs) /\ m - 1 \in 0..Len(shdrs)
    BY <1>1, Zenon DEF OwnHeaders
  <2> QED
    BY <1>4, <2>2, <2>3, Zenon DEF OwnHeaders
<1>6. RelasAmong(back, shdrs, m - 1, n + 1)
  <2> SUFFICES ASSUME NEW e \in 1..n, e < n + 1, back.secs[e].relas # << >>
               PROVE  \E k \in 1..(m - 1) : n + 2 < k /\ shdrs[k].info = e
    BY <1>1 DEF RelasAmong
  <2>1. obj.secs[e].relas # << >> /\ e \in DOMAIN obj.secs /\ Len(obj.secs) = n
    BY <1>1, <1>3 DEF n
  <2> QED
    BY <1>1, <2>1, Zenon DEF RelasAmong
<1>7. NamesOf(back, bodies[m], m - 1)
  <2>1. ASSUME NEW k \in 1..(m - 1)
        PROVE  HeaderName(back, k) = HeaderName(obj, k)
    <3>1. k <= n => back.secs[k].name = obj.secs[k].name
      BY <1>1, <1>2
    <3> QED
      BY <1>1, <3>1, Zenon DEF HeaderName, n
  <2> QED
    BY <1>1, <2>1, Zenon DEF NamesOf
<1>8. OwnTables(back, id, firstGlobal, shdrs, bodies, shstrndx)
  <2>1. /\ m = shstrndx /\ shdrs[m] \in HeaderType /\ shdrs[m].name = 2 * m - 1 /\ shdrs[m].size = Len(bodies[m])
        /\ HeaderSays(shdrs[m], "STRTAB", FALSE, 1, 0, 0)
        /\ Len(bodies[m]) = 1 + 2 * m /\ bodies[m][2 * m] = "shstrtab" /\ bodies[m][2 * m + 1] = Nul
    BY DEF OwnTables, m
  <2>2. Len(back.secs) = n
    BY <1>1
  <2> QED
    BY <1>1, <1>5, <1>6, <1>7, <2>1, <2>2, Zenon DEF OwnTables, m
<1> QED
  BY <1>8 DEF id

LEMMA MadeOfBack ==
  ASSUME FileInv, pc = "read", ~foreign
  PROVE  MadeOf(back, file)
<1>1. ReadState /\ Reproduced
  BY AllRead, OwnIsReproduced
<1>2. /\ OwnTables(obj, slot, firstGlobal, shdrs, bodies, shstrndx) /\ file = FileOf(shdrs, bodies, shstrndx)
  BY <1>1 DEF ReadState
<1>3. Laid(shdrs, bodies, Len(shdrs))
  BY DEF FileInv, PlacesInv, Placed, Reading
<1> QED
  BY <1>1, <1>2, <1>3, IdentityIsSlotted, TablesAreSame, Zenon DEF MadeOf

LEMMA WritesAgain ==
  ASSUME FileInv, WriteAgain
  PROVE  FileInv'
<1>1. /\ pc = "read" /\ pc' = "open" /\ i' = 1 /\ round' = round + 1 /\ obj' = back /\ earlier' = file
      /\ lost' = {} /\ symtab' = << >> /\ strtab' = <<Nul>> /\ pos' = EhdrSize
      /\ shdrs' = << >> /\ bodies' = << >> /\ shstr' = <<Nul>>
      /\ room' = room /\ foreign' = foreign
  BY DEF WriteAgain, NewStrtab
<1>2. ReadState /\ ReadBack
  BY <1>1, AllRead
<1>3. back \in Object(Names) /\ Aligned(back)
  BY <1>2, BackIsObject
<1>4. FileTyped'
  <2>1. Aligned(obj')
    BY <1>1, <1>3
  <2>2. /\ pc' \in Ordering /\ obj' \in Object(Names) /\ lost' \subseteq DOMAIN obj'.secs /\ lost' = {}
        /\ i' \in Nat \ {0}
    BY <1>1, <1>3 DEF Ordering
  <2>3. room' \in Nat /\ round' \in Nat \ {0} /\ foreign' \in BOOLEAN
    BY <1>1 DEF FileInv, FileTyped
  <2>4. Aligned(obj)'
    BY <2>1 DEF Aligned
  <2> QED
    BY <2>2, <2>3, <2>4 DEF FileTyped
<1>5. SymbolsInv'
  BY <1>1 DEF SymbolsInv, Heading
<1>6. TablesInv'
  BY <1>1 DEF TablesInv, Ordering, Heading
<1>7. PlacesInv'
  BY <1>1 DEF PlacesInv, Ordering, Placed, Reading
<1>8. ReadInv'
  BY <1>1 DEF ReadInv, Reading
<1>9. EarlierInv'
  <2>1. ASSUME ~foreign'
        PROVE  MadeOf(obj', earlier')
    <3>1. ~foreign
      BY <1>1, <2>1
    <3>2. MadeOf(back, file)
      BY <1>1, <3>1, MadeOfBack
    <3> QED
      BY <1>1, <3>2, Zenon
  <2> QED
    BY <2>1 DEF EarlierInv, MadeOf
<1> QED
  BY <1>4, <1>5, <1>6, <1>7, <1>8, <1>9 DEF FileInv

-----------------------------------------------------------------------------
(* An object has one file.                                                 *)

LEMMA SlotsAreOrdered ==
  ASSUME NEW ss, Len(ss) \in Nat, DOMAIN ss = 1..Len(ss), NEW sl, NEW fg, Slotted(ss, sl, fg),
         NEW a \in DOMAIN ss, NEW b \in DOMAIN ss
  PROVE  sl[a] < sl[b] <=> \/ (ss[a].bind \in Locals <=> ss[b].bind \in Locals) /\ a < b
                           \/ ss[a].bind \in Locals /\ ss[b].bind \notin Locals
<1> DEFINE L == Len(ss)
           loc(j) == ss[j].bind \in Locals
           Before(x, y) == \/ (loc(x) <=> loc(y)) /\ x < y
                           \/ loc(x) /\ ~loc(y)
<1>1. /\ sl \in [1..L -> 1..L] /\ fg \in 1..(L + 1)
      /\ \A j \in 1..L : sl[j] < fg <=> loc(j)
      /\ \A x, y \in 1..L : x < y /\ (loc(x) <=> loc(y)) => sl[x] < sl[y]
  BY DEF Slotted, Ordered
<1> HIDE DEF loc
<1>2. ASSUME NEW x \in 1..L, NEW y \in 1..L, Before(x, y)
      PROVE  sl[x] < sl[y]
  <2>1. CASE (loc(x) <=> loc(y)) /\ x < y
    BY <1>1, <2>1
  <2>2. CASE loc(x) /\ ~loc(y)
    <3>1. sl[x] < fg /\ ~(sl[y] < fg)
      BY <1>1, <2>2
    <3>2. sl[x] \in Int /\ sl[y] \in Int /\ fg \in Int
      BY <1>1
    <3> QED
      BY <3>1, <3>2
  <2> QED
    BY <1>2, <2>1, <2>2
<1>3. \A x, y \in 1..L : Before(x, y) \/ Before(y, x) \/ x = y
  <2> SUFFICES ASSUME NEW x \in 1..L, NEW y \in 1..L
               PROVE  Before(x, y) \/ Before(y, x) \/ x = y
    OBVIOUS
  <2>1. x < y \/ y < x \/ x = y
    BY <1>1
  <2> QED
    BY <2>1, Zenon
<1> HIDE DEF Before
<1>4. sl[a] < sl[b] <=> Before(a, b)
  <2>1. sl[a] \in Int /\ sl[b] \in Int
    BY <1>1
  <2>2. Before(a, b) => sl[a] < sl[b]
    BY <1>2
  <2>3. Before(b, a) => sl[b] < sl[a]
    BY <1>2
  <2>4. Before(a, b) \/ Before(b, a) \/ a = b
    BY <1>3
  <2> QED
    BY <2>1, <2>2, <2>3, <2>4
<1> QED
  BY <1>4 DEF Before, loc

LEMMA SlotsAreUnique ==
  ASSUME NEW ss, Len(ss) \in Nat, DOMAIN ss = 1..Len(ss),
         NEW sl, NEW fg, Slotted(ss, sl, fg), NEW sl2, NEW fg2, Slotted(ss, sl2, fg2)
  PROVE  sl = sl2 /\ fg = fg2
<1> DEFINE L == Len(ss)
           S == {s \in 1..L : \E j \in 1..L : sl[j] = s /\ sl2[j] # s}
<1>1. /\ sl \in [1..L -> 1..L] /\ sl2 \in [1..L -> 1..L] /\ fg \in 1..(L + 1) /\ fg2 \in 1..(L + 1)
      /\ \A s \in 1..L : (\E j \in 1..L : sl[j] = s) /\ (\E j \in 1..L : sl2[j] = s)
      /\ \A x, y \in 1..L : sl2[x] = sl2[y] => x = y
      /\ \A j \in 1..L : (sl[j] < fg <=> ss[j].bind \in Locals) /\ (sl2[j] < fg2 <=> ss[j].bind \in Locals)
  BY DEF Slotted, Ordered
<1>2. \A x, y \in 1..L : sl[x] < sl[y] <=> sl2[x] < sl2[y]
  <2> SUFFICES ASSUME NEW x \in DOMAIN ss, NEW y \in DOMAIN ss
               PROVE  sl[x] < sl[y] <=> sl2[x] < sl2[y]
    OBVIOUS
  <2>1. sl[x] < sl[y] <=> \/ (ss[x].bind \in Locals <=> ss[y].bind \in Locals) /\ x < y
                          \/ ss[x].bind \in Locals /\ ss[y].bind \notin Locals
    BY SlotsAreOrdered, Zenon
  <2>2. sl2[x] < sl2[y] <=> \/ (ss[x].bind \in Locals <=> ss[y].bind \in Locals) /\ x < y
                            \/ ss[x].bind \in Locals /\ ss[y].bind \notin Locals
    BY SlotsAreOrdered, Zenon
  <2> QED
    BY <2>1, <2>2, Zenon
<1>8. \A j \in 1..L : sl[j] \in Int /\ sl2[j] \in Int
  <2>1. sl \in [1..L -> 1..L] /\ sl2 \in [1..L -> 1..L]
    BY <1>1, Zenon
  <2> QED
    BY <2>1
<1>3. ASSUME S # {}
      PROVE  FALSE
  <2>1. S \in SUBSET Nat
    BY <1>1
  <2>2. PICK s \in S : \A y \in S : s <= y
    <3> HIDE DEF S
    <3> QED
      BY <1>3, <2>1, LeastExists
  <2>3. PICK j \in 1..L : sl[j] = s /\ sl2[j] # s /\ s \in 1..L
    BY <2>2
  <2>4. \A x \in 1..L : sl[x] < s => sl2[x] = sl[x]
    <3> SUFFICES ASSUME NEW x \in 1..L, sl[x] < s, sl2[x] # sl[x]
                 PROVE  FALSE
      OBVIOUS
    <3>1. sl[x] \in S
      <4>1. sl[x] \in 1..L
        BY <1>1
      <4>2. \E y \in 1..L : sl[y] = sl[x] /\ sl2[y] # sl[x]
        OBVIOUS
      <4> QED
        BY <4>1, <4>2, Zenon
    <3>2. s <= sl[x]
      <4> HIDE DEF S
      <4> QED
        BY <2>2, <3>1, Zenon
    <3>3. sl[x] \in Int /\ s \in Int
      BY <1>8, <2>3
    <3> QED
      BY <3>2, <3>3
  <2>5. sl2[j] \in 1..L
    BY <1>1
  <2>6. CASE sl2[j] < s
    <3>1. PICK x \in 1..L : sl[x] = sl2[j]
      BY <1>1, <2>5
    <3>2. sl2[x] = sl2[j]
      BY <2>4, <2>6, <3>1
    <3>3. x = j
      BY <1>1, <3>2
    <3> QED
      BY <2>3, <3>1, <3>3
  <2>7. CASE s < sl2[j]
    <3>1. PICK x \in 1..L : sl2[x] = s
      BY <1>1, <2>3
    <3>2. sl[x] < sl[j]
      <4>1. sl2[x] < sl2[j]
        BY <2>7, <3>1
      <4> QED
        BY <1>2, <4>1, Zenon
    <3>5. sl[x] < s
      BY <2>3, <3>2
    <3>3. sl2[x] = sl[x]
      BY <2>4, <3>5, Zenon
    <3>4. sl[x] \in Int /\ s \in Int
      BY <1>8, <2>3
    <3> QED
      BY <2>3, <3>1, <3>2, <3>3, <3>4
  <2>8. s \in Int /\ sl2[j] \in Int
    BY <2>3, <2>5
  <2> QED
    BY <2>3, <2>6, <2>7, <2>8
<1>4. \A j \in 1..L : sl[j] = sl2[j]
  <2> SUFFICES ASSUME NEW j \in 1..L, sl[j] # sl2[j]
               PROVE  FALSE
    OBVIOUS
  <2>1. sl[j] \in S
    BY <1>1
  <2> QED
    BY <1>3, <2>1
<1>5. sl = sl2
  BY <1>1, <1>4
<1>6. \A x, y \in 1..(L + 1) : (\A j \in 1..L : sl[j] < x <=> sl[j] < y) => ~(x < y)
  <2> SUFFICES ASSUME NEW x \in 1..(L + 1), NEW y \in 1..(L + 1), x < y,
                      \A j \in 1..L : sl[j] < x <=> sl[j] < y
               PROVE  FALSE
    OBVIOUS
  <2>1. x \in 1..L /\ ~(x < x)
    BY <1>1
  <2>2. PICK j \in 1..L : sl[j] = x
    BY <1>1, <2>1
  <2> QED
    BY <2>1, <2>2
<1>7. fg = fg2
  <2>1. \A j \in 1..L : sl[j] < fg <=> sl[j] < fg2
    BY <1>1, <1>4, Zenon
  <2>2. ~(fg < fg2) /\ ~(fg2 < fg)
    BY <1>1, <1>6, <2>1, Zenon
  <2>3. fg \in Int /\ fg2 \in Int
    BY <1>1
  <2> QED
    BY <2>2, <2>3
<1> QED
  BY <1>5, <1>7

(* f at the positions after a up to m are the elements of R, ascending. *)
Enumerates(R, f, a, m) ==
  /\ \A k \in (a + 1)..m : f[k] \in R
  /\ \A k, l \in (a + 1)..m : k < l => f[k] < f[l]
  /\ \A e \in R : \E k \in (a + 1)..m : f[k] = e

SameUpTo(f, g, a, m, p, k) == \A l \in Nat : a < l /\ l < k => l <= m /\ l <= p /\ f[l] = g[l]

LEMMA NextIsNoLater ==
  ASSUME NEW R \in SUBSET Nat, NEW f, NEW g, NEW a \in Nat, NEW m \in Nat, NEW p \in Nat,
         Enumerates(R, f, a, m), Enumerates(R, g, a, p),
         NEW k \in (a + 1)..m, SameUpTo(f, g, a, m, p, k)
  PROVE  k <= p /\ g[k] <= f[k]
<1>1. f[k] \in R
  BY DEF Enumerates
<1>2. PICK l \in (a + 1)..p : g[l] = f[k]
  BY <1>1 DEF Enumerates
<1>3. k \in Nat /\ l \in Nat /\ a < k /\ a < l /\ k <= m /\ l <= p
  BY <1>2
<1>4. ~(l < k)
  <2> SUFFICES ASSUME l < k
               PROVE  FALSE
    OBVIOUS
  <2>1. f[l] = g[l] /\ l <= m
    BY <1>3 DEF SameUpTo
  <2>2. f[l] < f[k]
    <3>1. l \in (a + 1)..m
      BY <1>3, <2>1
    <3> QED
      BY <3>1 DEF Enumerates
  <2>3. f[k] \in Nat /\ f[l] = f[k]
    BY <1>1, <1>2, <2>1
  <2> QED
    BY <2>2, <2>3
<1>5. k <= p
  BY <1>3, <1>4
<1>6. g[k] <= g[l]
  <2>1. k \in (a + 1)..p
    BY <1>3, <1>5
  <2>2. g[k] \in Nat /\ g[l] \in Nat
    BY <2>1 DEF Enumerates
  <2>3. k < l => g[k] < g[l]
    BY <2>1 DEF Enumerates
  <2>4. k < l \/ k = l
    BY <1>3, <1>4
  <2> QED
    BY <2>2, <2>3, <2>4
<1> QED
  BY <1>2, <1>5, <1>6

LEMMA EnumerationIsUnique ==
  ASSUME NEW R \in SUBSET Nat, NEW f, NEW g, NEW a \in Nat, NEW m \in Nat, NEW p \in Nat, a <= m, a <= p,
         Enumerates(R, f, a, m), Enumerates(R, g, a, p)
  PROVE  m = p /\ \A k \in (a + 1)..m : f[k] = g[k]
<1> DEFINE Same(k) == k <= m /\ k <= p /\ f[k] = g[k]
           S == {k \in Nat : a < k /\ (k <= m \/ k <= p) /\ ~Same(k)}
<1>1. S = {}
  <2> SUFFICES ASSUME S # {}
               PROVE  FALSE
    OBVIOUS
  <2>1. PICK k \in S : \A l \in S : k <= l
    <3>1. S \in SUBSET Nat
      OBVIOUS
    <3> HIDE DEF S
    <3> QED
      BY <3>1, LeastExists
  <2>2. k \in Nat /\ a < k /\ (k <= m \/ k <= p) /\ ~Same(k)
    OBVIOUS
  <2>3. ASSUME NEW l \in Nat, a < l, l < k
        PROVE  Same(l)
    <3>1. l \notin S
      <4>1. ~(k <= l)
        BY <2>2, <2>3
      <4> HIDE DEF S
      <4> QED
        BY <2>1, <4>1
    <3>2. l <= m \/ l <= p
      BY <2>2, <2>3
    <3> HIDE DEF Same
    <3> QED
      BY <2>3, <3>1, <3>2
  <2> HIDE DEF S
  <2>4. SameUpTo(f, g, a, m, p, k) /\ SameUpTo(g, f, a, p, m, k)
    BY <2>3 DEF SameUpTo
  <2>5. k <= m => k <= p /\ g[k] <= f[k]
    <3> SUFFICES ASSUME k <= m
                 PROVE  k <= p /\ g[k] <= f[k]
      OBVIOUS
    <3>1. k \in (a + 1)..m
      BY <2>2
    <3> QED
      BY <2>4, <3>1, NextIsNoLater, Zenon
  <2>6. k <= p => k <= m /\ f[k] <= g[k]
    <3> SUFFICES ASSUME k <= p
                 PROVE  k <= m /\ f[k] <= g[k]
      OBVIOUS
    <3>1. k \in (a + 1)..p
      BY <2>2
    <3> QED
      BY <2>4, <3>1, NextIsNoLater, Zenon
  <2>7. k <= m /\ k <= p
    BY <2>2, <2>5, <2>6, Zenon
  <2>8. f[k] \in Nat /\ g[k] \in Nat
    <3>1. k \in (a + 1)..m /\ k \in (a + 1)..p
      BY <2>2, <2>7
    <3> QED
      BY <3>1 DEF Enumerates
  <2>9. f[k] = g[k]
    BY <2>5, <2>6, <2>7, <2>8
  <2> QED
    BY <2>2, <2>7, <2>9
<1>2. \A k \in Nat : a < k /\ (k <= m \/ k <= p) => Same(k)
  BY <1>1
<1>3. m <= p
  <2>1. a < m => m <= p
    BY <1>2
  <2> QED
    BY <2>1
<1>4. p <= m
  <2>1. a < p => p <= m
    BY <1>2
  <2> QED
    BY <2>1
<1>5. \A k \in (a + 1)..m : f[k] = g[k]
  <2> SUFFICES ASSUME NEW k \in (a + 1)..m
               PROVE  f[k] = g[k]
    OBVIOUS
  <2>1. k \in Nat /\ a < k /\ k <= m
    OBVIOUS
  <2> QED
    BY <1>2, <2>1
<1> QED
  BY <1>3, <1>4, <1>5

(* Strings of two elements each, as in strtab and shstrtab. *)
SameStrings(t, u, n) ==
  /\ IsList(t) /\ IsList(u) /\ Len(t) = 1 + 2 * n /\ Len(u) = 1 + 2 * n
  /\ t[1] = u[1] /\ \A k \in 1..n : t[2 * k] = u[2 * k] /\ t[2 * k + 1] = u[2 * k + 1]

LEMMA StringsAreUnique ==
  ASSUME NEW t, NEW u, NEW n \in Nat, SameStrings(t, u, n)
  PROVE  t = u
<1>3. /\ IsList(t) /\ IsList(u) /\ Len(t) = 1 + 2 * n /\ Len(u) = 1 + 2 * n
      /\ t[1] = u[1] /\ \A k \in 1..n : t[2 * k] = u[2 * k] /\ t[2 * k + 1] = u[2 * k + 1]
  BY DEF SameStrings
<1>1. DOMAIN t = 1..(1 + 2 * n)
  BY <1>3, ListProperties
<1>2. ASSUME NEW x \in 1..(1 + 2 * n)
      PROVE  t[x] = u[x]
  <2>1. CASE x = 1
    BY <1>3, <2>1
  <2>2. CASE x # 1
    <3>1. PICK k \in 1..n : x = 2 * k \/ x = 2 * k + 1
      <4>1. x \div 2 \in 1..n /\ (x = 2 * (x \div 2) \/ x = 2 * (x \div 2) + 1)
        BY <2>2
      <4> QED
        BY <4>1
    <3> QED
      BY <1>3, <3>1
  <2> QED
    BY <2>1, <2>2
<1> QED
  BY <1>1, <1>2, <1>3, ListElements

Infos(hs) == [k \in DOMAIN hs |-> hs[k].info]

WithRelas(o) == {d \in DOMAIN o.secs : o.secs[d].relas # << >>}

LEMMA RelasInOrder ==
  ASSUME NEW o \in Object(Names), NEW sl, NEW fg, NEW hs, NEW bs, NEW nx, OwnTables(o, sl, fg, hs, bs, nx)
  PROVE  Enumerates(WithRelas(o), Infos(hs), Len(o.secs) + 2, Len(hs) - 1)
<1> DEFINE n == Len(o.secs)
           m == Len(hs)
           f == Infos(hs)
<1>1. /\ m \in Nat /\ DOMAIN hs = 1..m /\ n \in Nat /\ DOMAIN o.secs = 1..n /\ m >= n + 3
  BY ObjectFacts, ListProperties DEF OwnTables, OwnHeaders
<1>2. \A k \in 1..(m - 1) : n + 2 < k => hs[k].info \in 1..n /\ o.secs[hs[k].info].relas # << >>
  <2> SUFFICES ASSUME NEW k \in 1..(m - 1), n + 2 < k
               PROVE  hs[k].info \in 1..n /\ o.secs[hs[k].info].relas # << >>
    OBVIOUS
  <2>1. OwnHeader(o, sl, fg, k, hs[k], bs[k])
    BY DEF OwnTables, OwnHeaders
  <2>2. k > Len(o.secs) + 2
    BY <1>1
  <2> QED
    BY <2>1, <2>2, Zenon DEF OwnHeader
<1>3. \A k, l \in 1..(m - 1) : n + 2 < k /\ k < l => hs[k].info < hs[l].info
  BY Zenon DEF OwnTables, OwnHeaders
<1>4. \A e \in 1..n : o.secs[e].relas # << >> => \E k \in 1..(m - 1) : n + 2 < k /\ hs[k].info = e
  <2> SUFFICES ASSUME NEW e \in 1..n, o.secs[e].relas # << >>
               PROVE  \E k \in 1..(m - 1) : n + 2 < k /\ hs[k].info = e
    OBVIOUS
  <2>1. e < n + 1
    BY <1>1
  <2>2. RelasAmong(o, hs, m - 1, n + 1)
    BY DEF OwnTables
  <2> QED
    BY <1>1, <2>1, <2>2, Zenon DEF RelasAmong
<1>5. \A k \in (n + 2 + 1)..(m - 1) : k \in 1..(m - 1) /\ k \in 1..m /\ n + 2 < k
  BY <1>1
<1>6. \A k \in 1..(m - 1) : n + 2 < k => k \in (n + 2 + 1)..(m - 1)
  BY <1>1
<1>7. \A k \in 1..m : f[k] = hs[k].info
  BY <1>1 DEF Infos
<1> HIDE DEF f, m, n
<1>8. \A k \in (n + 2 + 1)..(m - 1) : f[k] \in WithRelas(o)
  BY <1>1, <1>2, <1>5, <1>7 DEF WithRelas
<1>9. \A k, l \in (n + 2 + 1)..(m - 1) : k < l => f[k] < f[l]
  BY <1>3, <1>5, <1>7
<1>10. \A e \in WithRelas(o) : \E k \in (n + 2 + 1)..(m - 1) : f[k] = e
  <2> SUFFICES ASSUME NEW e \in WithRelas(o)
               PROVE  \E k \in (n + 2 + 1)..(m - 1) : f[k] = e
    OBVIOUS
  <2>1. e \in 1..n /\ o.secs[e].relas # << >>
    BY <1>1 DEF WithRelas
  <2>2. PICK k \in 1..(m - 1) : n + 2 < k /\ hs[k].info = e
    BY <1>4, <2>1
  <2>3. k \in (n + 2 + 1)..(m - 1)
    BY <1>6, <2>2
  <2>4. f[k] = e
    BY <1>5, <1>7, <2>2, <2>3
  <2> QED
    BY <2>3, <2>4
<1>11. Enumerates(WithRelas(o), f, n + 2, m - 1)
  BY <1>8, <1>9, <1>10, Zenon DEF Enumerates
<1> QED
  BY <1>11 DEF f, m, n

LEMMA InfosAreUnique ==
  ASSUME NEW o \in Object(Names), NEW sl, NEW fg, NEW hs, NEW bs, NEW nx, OwnTables(o, sl, fg, hs, bs, nx),
         NEW hs2, NEW bs2, NEW nx2, OwnTables(o, sl, fg, hs2, bs2, nx2)
  PROVE  Len(hs2) = Len(hs) /\ \A k \in 1..(Len(hs) - 1) : Len(o.secs) + 2 < k => hs2[k].info = hs[k].info
<1> DEFINE a == Len(o.secs) + 2
           m == Len(hs) - 1
           p == Len(hs2) - 1
           R == WithRelas(o)
           f == Infos(hs)
           g == Infos(hs2)
<1>1. /\ Len(hs) \in Nat /\ Len(hs2) \in Nat /\ Len(o.secs) \in Nat /\ DOMAIN o.secs = 1..Len(o.secs)
      /\ DOMAIN hs = 1..Len(hs) /\ DOMAIN hs2 = 1..Len(hs2)
      /\ Len(hs) >= Len(o.secs) + 3 /\ Len(hs2) >= Len(o.secs) + 3
  BY ObjectFacts, ListProperties DEF OwnTables, OwnHeaders
<1>2. a \in Nat /\ m \in Nat /\ p \in Nat /\ a <= m /\ a <= p
  BY <1>1
<1>3. R \in SUBSET Nat
  BY <1>1 DEF WithRelas
<1>4. Enumerates(R, f, a, m)
  BY RelasInOrder
<1>5. Enumerates(R, g, a, p)
  BY RelasInOrder
<1>6. \A k \in DOMAIN hs : f[k] = hs[k].info
  BY DEF Infos
<1>7. \A k \in DOMAIN hs2 : g[k] = hs2[k].info
  BY DEF Infos
<1> HIDE DEF R, f, g
<1>8. m = p /\ \A k \in (a + 1)..m : f[k] = g[k]
  <2> HIDE DEF a, m, p
  <2> QED
    BY <1>2, <1>3, <1>4, <1>5, EnumerationIsUnique
<1>9. Len(hs2) = Len(hs)
  <2>1. Len(hs) - 1 = Len(hs2) - 1
    BY <1>8, Zenon
  <2>2. \A x, y \in Nat : x - 1 = y - 1 => y = x
    OBVIOUS
  <2> QED
    BY <1>1, <2>1, <2>2, Zenon
<1>10. ASSUME NEW k \in 1..(Len(hs) - 1), Len(o.secs) + 2 < k
       PROVE  hs2[k].info = hs[k].info
  <2>1. k \in (a + 1)..m /\ k \in DOMAIN hs /\ k \in DOMAIN hs2
    BY <1>1, <1>9, <1>10
  <2> QED
    BY <1>6, <1>7, <1>8, <2>1, Zenon
<1> QED
  BY <1>9, <1>10

(* All that a header says, but for its place. *)
SameHeader(h, g) ==
  /\ h.type = g.type /\ h.name = g.name /\ h.alloc = g.alloc /\ h.align = g.align
  /\ h.link = g.link /\ h.info = g.info /\ h.size = g.size

(* The bodies of one slot assignment. *)
LEMMA TableIsUnique ==
  ASSUME NEW o \in Object(Names), NEW sl, NEW fg, Slotted(o.syms, sl, fg), NEW w, NEW t, NEW u
  PROVE  /\ TableOf(o.syms, sl, w, t) /\ TableOf(o.syms, sl, w, u) => t = u
         /\ StringsOf(o.syms, sl, t) /\ StringsOf(o.syms, sl, u) => t = u
<1> DEFINE L == Len(o.syms)
<1>1. L \in Nat /\ DOMAIN o.syms = 1..L /\ \A s \in 1..L : \E j \in DOMAIN o.syms : sl[j] = s
  BY ObjectFacts DEF Slotted
<1>2. ASSUME TableOf(o.syms, sl, w, t), TableOf(o.syms, sl, w, u)
      PROVE  t = u
  <2>1. IsList(t) /\ IsList(u) /\ Len(t) = L /\ Len(u) = L
    BY <1>2 DEF TableOf
  <2>2. DOMAIN t = 1..L
    BY <2>1, ListProperties
  <2>3. ASSUME NEW s \in 1..L
        PROVE  t[s] = u[s]
    <3>1. PICK j \in DOMAIN o.syms : sl[j] = s
      BY <1>1
    <3>2. t[sl[j]] = u[sl[j]]
      BY <1>2 DEF TableOf
    <3> QED
      BY <3>1, <3>2
  <2> QED
    BY <2>1, <2>2, <2>3, ListElements
<1>3. ASSUME StringsOf(o.syms, sl, t), StringsOf(o.syms, sl, u)
      PROVE  t = u
  <2>1. /\ IsList(t) /\ IsList(u) /\ Len(t) = 1 + 2 * L /\ Len(u) = 1 + 2 * L /\ t[1] = u[1]
    BY <1>3 DEF StringsOf
  <2>2. ASSUME NEW s \in 1..L
        PROVE  t[2 * s] = u[2 * s] /\ t[2 * s + 1] = u[2 * s + 1]
    <3>1. PICK j \in DOMAIN o.syms : sl[j] = s
      BY <1>1
    <3>2. t[2 * sl[j]] = u[2 * sl[j]] /\ t[2 * sl[j] + 1] = u[2 * sl[j] + 1]
      BY <1>3, Zenon DEF StringsOf
    <3> QED
      BY <3>1, <3>2
  <2> HIDE DEF L
  <2>3. SameStrings(t, u, L)
    BY <2>1, <2>2, Zenon DEF SameStrings
  <2> QED
    BY <1>1, <2>3, StringsAreUnique
<1> QED
  BY <1>2, <1>3

OwnTwice(o, sl, fg, k, h, b, g, c) ==
  /\ OwnHeader(o, sl, fg, k, h, b) /\ OwnHeader(o, sl, fg, k, g, c)
  /\ Len(o.secs) + 2 < k => g.info = h.info

LEMMA HeaderIsUnique ==
  ASSUME NEW o \in Object(Names), NEW sl, NEW fg, Slotted(o.syms, sl, fg), NEW k \in Nat \ {0},
         NEW h, NEW b, NEW g, NEW c, OwnTwice(o, sl, fg, k, h, b, g, c)
  PROVE  SameHeader(h, g) /\ b = c
<1> DEFINE n == Len(o.secs)
<1>1. n \in Nat
  BY ObjectFacts
<1>2. OwnHeader(o, sl, fg, k, h, b) /\ OwnHeader(o, sl, fg, k, g, c) /\ (n + 2 < k => g.info = h.info)
  BY DEF OwnTwice
<1>3. /\ h.name = g.name /\ h.size = DiskSize(h.type, b) /\ g.size = DiskSize(g.type, c)
  BY <1>2 DEF OwnHeader
<1>4. CASE k <= n
  <2>1. /\ HeaderSays(h, "PROGBITS", o.secs[k].alloc, o.secs[k].align, 0, 0) /\ b = o.secs[k].data
        /\ HeaderSays(g, "PROGBITS", o.secs[k].alloc, o.secs[k].align, 0, 0) /\ c = o.secs[k].data
    BY <1>2, <1>4, Zenon DEF OwnHeader
  <2> QED
    BY <1>3, <2>1, Zenon DEF HeaderSays, SameHeader
<1>5. CASE k = n + 1
  <2>1. /\ HeaderSays(h, "SYMTAB", FALSE, 8, n + 2, fg) /\ TableOf(o.syms, sl, Identity(n), b)
        /\ HeaderSays(g, "SYMTAB", FALSE, 8, n + 2, fg) /\ TableOf(o.syms, sl, Identity(n), c)
    BY <1>2, <1>5, Zenon DEF OwnHeader
  <2>2. b = c
    BY <2>1, TableIsUnique, Zenon
  <2> QED
    BY <1>3, <2>1, <2>2, Zenon DEF HeaderSays, SameHeader
<1>6. CASE k = n + 2
  <2>1. /\ HeaderSays(h, "STRTAB", FALSE, 1, 0, 0) /\ StringsOf(o.syms, sl, b)
        /\ HeaderSays(g, "STRTAB", FALSE, 1, 0, 0) /\ StringsOf(o.syms, sl, c)
    BY <1>2, <1>6, Zenon DEF OwnHeader
  <2>2. b = c
    BY <2>1, TableIsUnique, Zenon
  <2> QED
    BY <1>3, <2>1, <2>2, Zenon DEF HeaderSays, SameHeader
<1>7. CASE k > n + 2
  <2>1. /\ HeaderSays(h, "RELA", FALSE, 8, n + 1, h.info) /\ b = RelasOf(o.secs[h.info].relas, sl)
        /\ HeaderSays(g, "RELA", FALSE, 8, n + 1, g.info) /\ c = RelasOf(o.secs[g.info].relas, sl)
    BY <1>2, <1>7, Zenon DEF OwnHeader
  <2>2. g.info = h.info
    BY <1>1, <1>2, <1>7
  <2> QED
    BY <1>3, <2>1, <2>2, Zenon DEF HeaderSays, SameHeader
<1> QED
  BY <1>1, <1>4, <1>5, <1>6, <1>7

(* The headers and the bodies of one object, written twice. *)
Twice(o, sl, fg, hs, bs, nx, hs2, bs2, nx2) ==
  /\ Slotted(o.syms, sl, fg) /\ OwnTables(o, sl, fg, hs, bs, nx) /\ OwnTables(o, sl, fg, hs2, bs2, nx2)
  /\ Laid(hs, bs, Len(hs)) /\ Laid(hs2, bs2, Len(hs2))

LEMMA TablesAreUnique ==
  ASSUME NEW o \in Object(Names), NEW sl, NEW fg, NEW hs, NEW bs, NEW nx, NEW hs2, NEW bs2, NEW nx2,
         Twice(o, sl, fg, hs, bs, nx, hs2, bs2, nx2)
  PROVE  /\ Len(hs) = Len(hs2) /\ bs = bs2 /\ nx = nx2
         /\ \A k \in 1..Len(hs) : SameHeader(hs[k], hs2[k])
<1> DEFINE n == Len(o.secs)
           m == Len(hs)
<1>1. OwnTables(o, sl, fg, hs, bs, nx) /\ OwnTables(o, sl, fg, hs2, bs2, nx2) /\ Slotted(o.syms, sl, fg)
  BY DEF Twice
<1>2. /\ IsList(hs) /\ IsList(bs) /\ Len(bs) = Len(hs) /\ IsList(hs2) /\ IsList(bs2) /\ Len(bs2) = Len(hs2)
      /\ nx = Len(hs) /\ nx2 = Len(hs2) /\ Len(hs) >= n + 3
  BY <1>1 DEF OwnTables, OwnHeaders
<1>3. m \in Nat /\ DOMAIN bs = 1..m /\ n \in Nat
  BY <1>2, ListProperties, ObjectFacts
<1>4. Len(hs2) = m /\ \A k \in 1..(m - 1) : n + 2 < k => hs2[k].info = hs[k].info
  BY <1>1, InfosAreUnique
<1>5. ASSUME NEW k \in 1..(m - 1)
      PROVE  SameHeader(hs[k], hs2[k]) /\ bs[k] = bs2[k]
  <2>1. OwnHeader(o, sl, fg, k, hs[k], bs[k])
    BY <1>1, Zenon DEF OwnTables, OwnHeaders
  <2>2. OwnHeader(o, sl, fg, k, hs2[k], bs2[k])
    BY <1>1, <1>4, Zenon DEF OwnTables, OwnHeaders
  <2>3. OwnTwice(o, sl, fg, k, hs[k], bs[k], hs2[k], bs2[k])
    BY <1>4, <2>1, <2>2, Zenon DEF OwnTwice
  <2>4. k \in Nat \ {0}
    OBVIOUS
  <2> QED
    BY <1>1, <2>3, <2>4, HeaderIsUnique, Zenon
<1>6. SameHeader(hs[m], hs2[m]) /\ bs[m] = bs2[m]
  <2> DEFINE h == hs[m]
             g == hs2[m]
             t == bs[m]
             u == bs2[m]
  <2>1. /\ h.name = 2 * m - 1 /\ h.size = Len(t) /\ HeaderSays(h, "STRTAB", FALSE, 1, 0, 0)
        /\ NamesOf(o, t, m - 1) /\ Len(t) = 1 + 2 * m /\ t[2 * m] = "shstrtab" /\ t[2 * m + 1] = Nul
    BY <1>1, Zenon DEF OwnTables
  <2>2. /\ g.name = 2 * m - 1 /\ g.size = Len(u) /\ HeaderSays(g, "STRTAB", FALSE, 1, 0, 0)
        /\ NamesOf(o, u, m - 1) /\ Len(u) = 1 + 2 * m /\ u[2 * m] = "shstrtab" /\ u[2 * m + 1] = Nul
    BY <1>1, <1>4, Zenon DEF OwnTables
  <2> HIDE DEF h, g, t, u
  <2>3. IsList(t) /\ IsList(u) /\ t[1] = u[1]
    BY <2>1, <2>2, Zenon DEF NamesOf
  <2>4. ASSUME NEW k \in 1..m
        PROVE  t[2 * k] = u[2 * k] /\ t[2 * k + 1] = u[2 * k + 1]
    <3>1. CASE k = m
      BY <2>1, <2>2, <3>1, Zenon
    <3>2. CASE k # m
      <4>1. k \in 1..(m - 1)
        BY <1>3, <3>2
      <4> QED
        BY <2>1, <2>2, <4>1, Zenon DEF NamesOf
    <3> QED
      BY <3>1, <3>2
  <2>5. t = u
    <3> HIDE DEF m
    <3>1. SameStrings(t, u, m)
      BY <2>1, <2>2, <2>3, <2>4, Zenon DEF SameStrings
    <3> QED
      BY <1>3, <3>1, StringsAreUnique
  <2>6. SameHeader(h, g)
    BY <2>1, <2>2, <2>5, Zenon DEF HeaderSays, SameHeader
  <2> QED
    BY <2>5, <2>6, Zenon DEF h, g, t, u
<1>7. ASSUME NEW k \in 1..m
      PROVE  SameHeader(hs[k], hs2[k]) /\ bs[k] = bs2[k]
  <2>1. CASE k = m
    BY <1>6, <2>1, Zenon
  <2>2. CASE k # m
    <3>1. k \in 1..(m - 1)
      BY <1>3, <2>2
    <3> QED
      BY <1>5, <3>1, Zenon
  <2> QED
    BY <2>1, <2>2
<1>8. bs = bs2
  <2> HIDE DEF m
  <2>1. Len(bs) = Len(bs2)
    BY <1>2, <1>4, Zenon DEF m
  <2> QED
    BY <1>2, <1>3, <1>7, <2>1, ListElements, Zenon
<1>9. nx = nx2
  BY <1>2, <1>4, Zenon
<1> QED
  BY <1>4, <1>7, <1>8, <1>9, Zenon

LEMMA HeadersAreTyped ==
  ASSUME NEW o \in Object(Names), NEW sl, NEW fg, NEW hs, NEW bs, NEW nx, OwnTables(o, sl, fg, hs, bs, nx)
  PROVE  /\ IsList(hs) /\ Len(hs) \in Nat /\ DOMAIN hs = 1..Len(hs)
         /\ \A k \in 1..Len(hs) : hs[k] \in HeaderType
<1>1. IsList(hs) /\ \A k \in 1..(Len(hs) - 1) : OwnHeader(o, sl, fg, k, hs[k], bs[k])
  BY Zenon DEF OwnTables, OwnHeaders
<1>2. Len(hs) \in Nat /\ DOMAIN hs = 1..Len(hs)
  BY <1>1, ListProperties
<1>3. ASSUME NEW k \in 1..Len(hs)
      PROVE  hs[k] \in HeaderType
  <2>1. CASE k = Len(hs)
    BY <2>1, Zenon DEF OwnTables
  <2>2. CASE k # Len(hs)
    <3>1. k \in 1..(Len(hs) - 1)
      <4>1. \A n \in Nat : \A x \in 1..n : x # n => x \in 1..(n - 1)
        OBVIOUS
      <4> QED
        BY <1>2, <2>2, <4>1, Zenon
    <3> QED
      BY <1>1, <3>1, Zenon DEF OwnHeader
  <2> QED
    BY <2>1, <2>2
<1> QED
  BY <1>1, <1>2, <1>3

LEMMA FileIsUnique ==
  ASSUME NEW o \in Object(Names), NEW sl, NEW fg, NEW hs, NEW bs, NEW nx, NEW hs2, NEW bs2, NEW nx2,
         Twice(o, sl, fg, hs, bs, nx, hs2, bs2, nx2)
  PROVE  FileOf(hs, bs, nx) = FileOf(hs2, bs2, nx2)
<1> DEFINE m == Len(hs)
           Same(k) == hs[k].off = hs2[k].off
           S == {k \in 1..m : ~Same(k)}
<1>1. Len(hs) = Len(hs2) /\ bs = bs2 /\ nx = nx2 /\ \A k \in 1..m : SameHeader(hs[k], hs2[k])
  BY TablesAreUnique
<1>2. /\ IsList(hs) /\ m \in Nat /\ DOMAIN hs = 1..m /\ \A k \in 1..m : hs[k] \in HeaderType
  BY HeadersAreTyped DEF Twice
<1>3. /\ IsList(hs2) /\ \A k \in 1..Len(hs2) : hs2[k] \in HeaderType
  BY HeadersAreTyped DEF Twice
<1>4. /\ \A k \in 1..m : hs[k].off = RoundUp(EndOf(hs, bs, k - 1), hs[k].align)
      /\ \A k \in 1..m : hs2[k].off = RoundUp(EndOf(hs2, bs, k - 1), hs2[k].align)
  BY <1>1 DEF Twice, Laid
<1>5. \A k \in 1..m : BodySize(hs, bs, k) = BodySize(hs2, bs, k) /\ hs[k].align = hs2[k].align
  BY <1>1 DEF BodySize, SameHeader
<1> HIDE DEF m
<1>6. S = {}
  <2> SUFFICES ASSUME S # {}
               PROVE  FALSE
    OBVIOUS
  <2>1. PICK k \in S : \A l \in S : k <= l
    <3>1. S \in SUBSET Nat
      BY <1>2
    <3> HIDE DEF S
    <3> QED
      BY <3>1, LeastExists
  <2>2. k \in 1..m /\ ~Same(k)
    OBVIOUS
  <2>3. \A l \in 1..m : l < k => Same(l)
    <3> SUFFICES ASSUME NEW l \in 1..m, l < k, ~Same(l)
                 PROVE  FALSE
      OBVIOUS
    <3>1. l \in S
      OBVIOUS
    <3>2. k <= l
      <4> HIDE DEF S
      <4> QED
        BY <2>1, <3>1
    <3> QED
      BY <1>2, <2>2, <3>2
  <2>4. EndOf(hs, bs, k - 1) = EndOf(hs2, bs, k - 1)
    <3>1. CASE k - 1 = 0
      BY <3>1, Zenon DEF EndOf
    <3>2. CASE k - 1 # 0
      <4>1. k - 1 \in 1..m /\ k - 1 < k
        BY <1>2, <2>2, <3>2
      <4>2. Same(k - 1) /\ BodySize(hs, bs, k - 1) = BodySize(hs2, bs, k - 1)
        BY <1>5, <2>3, <4>1, Zenon
      <4> QED
        BY <3>2, <4>2, Zenon DEF EndOf
    <3> QED
      BY <3>1, <3>2
  <2>5. Same(k)
    <3>1. hs[k].off = RoundUp(EndOf(hs, bs, k - 1), hs[k].align)
      BY <1>4, <2>2, Zenon
    <3>2. hs2[k].off = RoundUp(EndOf(hs2, bs, k - 1), hs2[k].align)
      BY <1>4, <2>2, Zenon
    <3>3. hs[k].align = hs2[k].align
      BY <1>5, <2>2, Zenon
    <3> QED
      BY <2>4, <3>1, <3>2, <3>3, Zenon
  <2> QED
    BY <2>2, <2>5
<1>7. \A k \in 1..m : hs[k].off = hs2[k].off
  BY <1>6
<1>8. \A k \in 1..m : hs[k] = hs2[k]
  <2> SUFFICES ASSUME NEW k \in 1..m
               PROVE  hs[k] = hs2[k]
    OBVIOUS
  <2>1. PICK h, g : h = hs[k] /\ g = hs2[k]
    OBVIOUS
  <2>2. SameHeader(h, g) /\ h.off = g.off
    BY <1>1, <1>7, <2>1, Zenon DEF m
  <2>3. h \in HeaderType /\ g \in HeaderType
    BY <1>1, <1>2, <1>3, <2>1, Zenon DEF m
  <2>4. h = g
    BY <2>2, <2>3 DEF SameHeader, HeaderType
  <2> QED
    BY <2>1, <2>4
<1>9. hs = hs2
  BY <1>1, <1>2, <1>3, <1>8, ListElements DEF m
<1> QED
  BY <1>1, <1>9, Zenon

LEMMA OneFile ==
  ASSUME NEW o \in Object(Names), NEW f, NEW g, MadeOf(o, f), MadeOf(o, g)
  PROVE  f = g
<1>1. PICK sl, fg, hs, bs, nx :
        /\ Slotted(o.syms, sl, fg) /\ OwnTables(o, sl, fg, hs, bs, nx) /\ Laid(hs, bs, Len(hs))
        /\ f = FileOf(hs, bs, nx)
  BY Zenon DEF MadeOf
<1>2. PICK sl2, fg2, hs2, bs2, nx2 :
        /\ Slotted(o.syms, sl2, fg2) /\ OwnTables(o, sl2, fg2, hs2, bs2, nx2) /\ Laid(hs2, bs2, Len(hs2))
        /\ g = FileOf(hs2, bs2, nx2)
  BY Zenon DEF MadeOf
<1>3. sl = sl2 /\ fg = fg2
  <2>1. Len(o.syms) \in Nat /\ DOMAIN o.syms = 1..Len(o.syms)
    BY ObjectFacts
  <2> QED
    BY <1>1, <1>2, <2>1, SlotsAreUnique
<1>4. Twice(o, sl, fg, hs, bs, nx, hs2, bs2, nx2)
  BY <1>1, <1>2, <1>3, Zenon DEF Twice
<1>5. FileOf(hs, bs, nx) = FileOf(hs2, bs2, nx2)
  BY <1>4, FileIsUnique
<1> QED
  BY <1>1, <1>2, <1>5, Zenon

-----------------------------------------------------------------------------
(* The theorems.                                                           *)

LEMMA FileInitially == Init => FileInv
<1> SUFFICES ASSUME Init
             PROVE  FileInv
  OBVIOUS
<1>1. /\ pc = "open" /\ i = 1 /\ symtab = << >> /\ strtab = <<Nul>>
      /\ shdrs = << >> /\ bodies = << >> /\ shstr = <<Nul>> /\ pos = EhdrSize
      /\ obj \in Objects /\ room \in Rooms /\ lost = {} /\ foreign = FALSE /\ round = 1
  BY DEF Init, WriteInit
<1>2. FileTyped
  <2>0. obj \in Objects /\ room \in Rooms
    BY <1>1
  <2>1. obj \in Object(Names) /\ \A d \in DOMAIN obj.secs : obj.secs[d].align # 0
    <3>1. obj \in Object(Names)
      BY <2>0, ObjectsAssumption
    <3>2. \A d \in DOMAIN obj.secs : obj.secs[d].align # 0
      BY <2>0, ObjectsAssumption, Zenon
    <3> QED
      BY <3>1, <3>2
  <2>2. room \in Nat
    BY <2>0, RoomsAssumption
  <2>3. pc = "open" /\ i = 1 /\ round = 1 /\ foreign = FALSE /\ lost = {}
    BY <1>1, Zenon
  <2>4. Aligned(obj)
    BY <2>1, Zenon DEF Aligned
  <2>5. pc \in Ordering
    BY <2>3 DEF Ordering
  <2>6. /\ i \in Nat \ {0} /\ round \in Nat \ {0}
        /\ foreign \in BOOLEAN
    <3>1. i \in Nat \ {0} /\ round \in Nat \ {0}
      <4>1. i = 1 /\ round = 1
        BY <2>3, Zenon
      <4> QED
        BY <4>1, SMT
    <3>2. foreign \in BOOLEAN
      BY <2>3, Zenon
    <3> QED
      BY <3>1, <3>2, Zenon
  <2>7. lost \subseteq DOMAIN obj.secs
    BY <2>3
  <2>8. pc \in Ordering \union {"place"} \union Placed
    BY <2>5
  <2> QED
    BY <2>1, <2>2, <2>3, <2>4, <2>6, <2>7, <2>8 DEF FileTyped
<1>3. SymbolsInv
  BY <1>1 DEF SymbolsInv, Heading
<1>4. TablesInv
  BY <1>1 DEF TablesInv, Ordering, Heading
<1>5. PlacesInv
  BY <1>1 DEF PlacesInv, Ordering, Placed, Reading
<1>6. ReadInv /\ EarlierInv
  BY <1>1 DEF ReadInv, Reading, EarlierInv
<1> QED
  BY <1>2, <1>3, <1>4, <1>5, <1>6 DEF FileInv

LEMMA FileStutters ==
  ASSUME FileInv, UNCHANGED vars
  PROVE  FileInv'
<1> USE DEF vars, objVars, symVars, fileVars, tabVars, readVars
<1>1. FileTyped'
  BY DEF FileInv, FileTyped
<1>2. SymbolsInv'
  BY DEF FileInv, SymbolsInv, SymbolDone
<1>3. TablesInv'
  BY DEF FileInv, TablesInv
<1>4. PlacesInv'
  BY DEF FileInv, PlacesInv, Whole
<1>5. ReadInv'
  <2>1. HeaderOf' = HeaderOf
    BY DEF HeaderOf, HeaderIn
  <2>2. Kept' = Kept
    BY <2>1 DEF Kept
  <2>3. \A d \in DOMAIN obj.secs : RelasBack(d)' <=> RelasBack(d)
    BY <2>1 DEF RelasBack
  <2>4. SectionsRead => SectionsRead'
    BY <2>2, <2>3 DEF SectionsRead
  <2>5. SymbolsRead => SymbolsRead'
    BY <2>2 DEF SymbolsRead
  <2> QED
    BY <2>4, <2>5 DEF FileInv, ReadInv
<1>6. EarlierInv'
  BY DEF FileInv, EarlierInv
<1> QED
  BY <1>1, <1>2, <1>3, <1>4, <1>5, <1>6 DEF FileInv

LEMMA FileSteps ==
  ASSUME FileInv, [Next]_vars
  PROVE  FileInv'
<1>1. CASE OpenFile \/ OpenFails \/ WriteSymbol \/ SkipSymbol \/ SecondPass \/ SymbolsWritten
  BY <1>1, OpensFile, FileIsNotOpened, WritesSymbol, SkipsSymbol, StartsSecondPass, WritesSymbols, Zenon
<1>2. CASE SectionHeader \/ SymtabHead \/ StrtabHead \/ RelaHead \/ NoRelaHead \/ NamesHead
  BY <1>2, AddsSectionHeader, AddsSymtabHeader, AddsStrtabHeader, AddsRelaHeader, AddsNoRelaHeader,
     AddsNamesHeader, Zenon
<1>3. CASE OtherProducer \/ OwnFile \/ PlaceBody \/ PlacingDone \/ EmitBody \/ EmitHeaders
  BY <1>3, OrdersOtherFile, OrdersOwnFile, PlacesBody, EndsPlacing, EmitsBody, EmitsHeaders, Zenon
<1>4. CASE ReadRefused \/ StartRead \/ ReadSection \/ SkipSection \/ SectionsDone
  BY <1>4, RefusesFile, StartsReading, ReadsSection, SkipsSection, EndsSections, Zenon
<1>5. CASE ReadSymbol \/ SymbolsDone \/ ReadRelas \/ SkipRelas \/ ReadDone \/ WriteAgain
  BY <1>5, ReadsSymbol, EndsSymbols, ReadsRelas, SkipsRelas, EndsReading, WritesAgain, Zenon
<1>6. CASE UNCHANGED vars
  BY <1>6, FileStutters
<1> QED
  BY <1>1, <1>2, <1>3, <1>4, <1>5, <1>6, Zenon DEF Next

(* What the writer has put into its tables, and where, and what the reader *)
(* of elf.c has made of them so far, at every step of Elf_Write and        *)
(* Elf_Read, for objects of any size: the inductive invariant of this      *)
(* module.                                                                 *)
THEOREM FileInvariant == Spec => []FileInv
<1>1. Init => FileInv
  BY FileInitially
<1>2. FileInv /\ [Next]_vars => FileInv'
  BY FileSteps
<1> QED
  BY <1>1, <1>2, PTL DEF Spec

(* Elf_WriteRel writes the locals before the others, sh_info is where they *)
(* part, and no symbol is lost, doubled or overtaken (elf.c:335-371).      *)
THEOREM SymbolTableIsOrdered == Spec => []SymtabOrdered
<1>1. FileInv => SymtabOrdered
  <2> SUFFICES ASSUME FileInv, pc = "layout"
               PROVE  /\ \A s \in DOMAIN symtab : (s < firstGlobal) <=> (symtab[s].bind = "LOCAL")
                      /\ {slot[j] : j \in DOMAIN slot} = 1..Len(obj.syms)
                      /\ Ordered(obj.syms, slot)
    BY DEF SymtabOrdered
  <2>1. obj \in Object(Names) /\ Slotted(obj.syms, slot, firstGlobal)
        /\ TableOf(obj.syms, slot, Identity(Len(obj.secs)), symtab)
    BY DEF FileInv, FileTyped, SymbolsInv, Heading
  <2>2. Len(obj.syms) \in Nat /\ DOMAIN obj.syms = 1..Len(obj.syms)
    BY <2>1, ObjectFacts
  <2>3. /\ slot \in [DOMAIN obj.syms -> 1..Len(obj.syms)] /\ Ordered(obj.syms, slot)
        /\ \A s \in 1..Len(obj.syms) : \E j \in DOMAIN obj.syms : slot[j] = s
        /\ \A j \in DOMAIN obj.syms : slot[j] < firstGlobal <=> obj.syms[j].bind \in Locals
    BY <2>1 DEF Slotted
  <2>4. DOMAIN symtab = 1..Len(obj.syms)
    BY <2>1, ListProperties DEF TableOf
  <2>5. ASSUME NEW s \in DOMAIN symtab
        PROVE  (s < firstGlobal) <=> (symtab[s].bind = "LOCAL")
    <3>1. PICK j \in DOMAIN obj.syms : slot[j] = s
      BY <2>3, <2>4
    <3>2. symtab[s].bind = obj.syms[j].bind
      <4>1. symtab[slot[j]] = DiskSymbol(obj.syms[j], slot[j], Image(Identity(Len(obj.secs)), obj.syms[j].sec))
        BY <2>1, Zenon DEF TableOf
      <4>2. symtab[slot[j]].bind = obj.syms[j].bind
        BY <4>1 DEF DiskSymbol
      <4> QED
        BY <3>1, <4>2
    <3> QED
      BY <2>3, <3>1, <3>2 DEF Locals
  <2>6. {slot[j] : j \in DOMAIN slot} = 1..Len(obj.syms)
    <3>1. DOMAIN slot = DOMAIN obj.syms
      BY <2>3
    <3>2. \A j \in DOMAIN obj.syms : slot[j] \in 1..Len(obj.syms)
      BY <2>3
    <3> QED
      BY <2>3, <3>1, <3>2
  <2> QED
    BY <2>3, <2>5, <2>6
<1> QED
  BY <1>1, FileInvariant, PTL

(* The offsets Elf_WriteRel gives the bodies (elf.c:504-511) are where     *)
(* they end up, aligned and apart, whatever their sizes and alignments.    *)
THEOREM BodiesLieApart == Spec => []BodiesApart
<1>1. FileInv => BodiesApart
  <2> SUFFICES ASSUME FileInv, pc = "written", Whole
               PROVE  /\ shoff % 8 = 0
                      /\ \A k \in DOMAIN shdrs :
                           /\ file.pieces[k].at = shdrs[k].off
                           /\ shdrs[k].align > 1 => shdrs[k].off % shdrs[k].align = 0
                           /\ shdrs[k].off >= EhdrSize
                           /\ shdrs[k].off + SizeOf(k) <= shoff
                           /\ \A j \in 1..(k - 1) : shdrs[j].off + SizeOf(j) <= shdrs[k].off
    BY DEF BodiesApart
  <2> DEFINE m == Len(shdrs)
             end(k) == EndOf(shdrs, bodies, k)
  <2>1. /\ file = FileOf(shdrs, bodies, shstrndx) /\ Laid(shdrs, bodies, m) /\ shoff = RoundUp(end(m), 8)
        /\ pc \in Placed /\ pc \notin Ordering
    BY DEF FileInv, PlacesInv, HeadersAt, Placed, Ordering, Heading
  <2>2. Drawn(shdrs, bodies) /\ m \in Nat /\ DOMAIN shdrs = 1..m
    BY <2>1, ArrangedIsDrawn DEF Drawn
  <2>3. /\ \A k \in 1..m : BodySize(shdrs, bodies, k) \in Nat /\ shdrs[k].off \in Nat /\ shdrs[k].align \in Nat
        /\ \A k \in 0..m : end(k) \in Nat
    BY <2>2, EndIsNat
  <2>4. /\ \A k \in 1..m : end(k) = shdrs[k].off + SizeOf(k) /\ SizeOf(k) = BodySize(shdrs, bodies, k)
        /\ end(0) = EhdrSize
    BY <2>2 DEF EndOf, SizeOf, BodySize
  <2>5. /\ \A k \in 1..m : shdrs[k].off = RoundUp(end(k - 1), shdrs[k].align)
        /\ \A k \in 0..m, j \in 1..m : k < j => end(k) <= shdrs[j].off
    BY <2>1 DEF Laid
  <2> HIDE DEF end, m
  <2>6. shoff % 8 = 0 /\ shoff \in Nat /\ end(m) <= shoff
    <3>1. m \in 0..m
      BY <2>2
    <3>2. end(m) \in Nat
      BY <2>3, <3>1
    <3> QED
      BY <2>1, <3>2, RoundUpAligns
  <2>7. ASSUME NEW k \in 1..m
        PROVE  /\ file.pieces[k].at = shdrs[k].off
               /\ shdrs[k].align > 1 => shdrs[k].off % shdrs[k].align = 0
               /\ shdrs[k].off >= EhdrSize
               /\ shdrs[k].off + SizeOf(k) <= shoff
               /\ \A j \in 1..(k - 1) : shdrs[j].off + SizeOf(j) <= shdrs[k].off
    <3>1. k \in 1..(m + 1) /\ k <= m /\ 0 \in 0..m /\ 0 < k /\ k - 1 \in 0..m /\ m \in 1..m
      BY <2>2
    <3>2. file.pieces[k].at = shdrs[k].off
      <4>1. file.pieces[k] = PieceOf(shdrs, bodies, k)
        BY <2>1, <3>1, PiecesApart DEF m
      <4> QED
        BY <3>1, <4>1 DEF PieceOf, m
    <3>3. shdrs[k].align > 1 => shdrs[k].off % shdrs[k].align = 0
      <4>1. end(k - 1) \in Nat /\ shdrs[k].align \in Nat /\ shdrs[k].off = RoundUp(end(k - 1), shdrs[k].align)
        BY <2>3, <2>5, <3>1
      <4> QED
        BY <4>1, RoundUpAligns
    <3>4. shdrs[k].off >= EhdrSize
      <4>1. end(0) <= shdrs[k].off /\ shdrs[k].off \in Nat
        BY <2>3, <2>5, <3>1
      <4> QED
        BY <2>4, <4>1 DEF EhdrSize
    <3>5. shdrs[k].off + SizeOf(k) <= shoff
      <4>1. end(k) <= end(m)
        <5>1. CASE k = m
          <6>1. end(m) \in Nat
            BY <2>2, <2>3
          <6> QED
            BY <5>1, <6>1
        <5>2. CASE k # m
          <6>1. k < m /\ k \in 0..m
            BY <2>2, <5>2
          <6>2. end(k) <= shdrs[m].off /\ end(k) \in Nat
            BY <2>3, <2>5, <3>1, <6>1
          <6>3. shdrs[m].off \in Nat /\ BodySize(shdrs, bodies, m) \in Nat
                /\ end(m) = shdrs[m].off + BodySize(shdrs, bodies, m)
            BY <2>3, <2>4, <3>1
          <6> QED
            BY <6>2, <6>3
        <5> QED
          BY <5>1, <5>2
      <4>2. end(k) \in Nat /\ end(m) \in Nat /\ end(k) = shdrs[k].off + SizeOf(k)
        BY <2>2, <2>3, <2>4, <3>1
      <4> QED
        BY <2>6, <4>1, <4>2
    <3>6. \A j \in 1..(k - 1) : shdrs[j].off + SizeOf(j) <= shdrs[k].off
      <4> SUFFICES ASSUME NEW j \in 1..(k - 1)
                   PROVE  shdrs[j].off + SizeOf(j) <= shdrs[k].off
        OBVIOUS
      <4>1. j \in 1..m /\ j \in 0..m /\ j < k
        BY <2>2
      <4>2. end(j) <= shdrs[k].off
        BY <2>5, <4>1
      <4> QED
        BY <2>4, <4>1, <4>2
    <3> QED
      BY <3>2, <3>3, <3>4, <3>5, <3>6
  <2> QED
    BY <2>2, <2>6, <2>7 DEF m
<1> QED
  BY <1>1, FileInvariant, PTL

(* Elf_ReadMem finds the object again in any file of this writer, and in   *)
(* one whose headers another producer ordered or emptied: sections and     *)
(* relocations by what the headers say (elf.c:664-739), symbols by the     *)
(* table's order, which the relocations follow.                            *)
THEOREM ReadingFindsTheObject == Spec => []RoundTrip
<1>1. FileInv => RoundTrip
  <2> SUFFICES ASSUME FileInv, pc = "read"
               PROVE  /\ Len(back.syms) = Len(obj.syms)
                      /\ \E at \in [DOMAIN obj.syms -> DOMAIN back.syms] :
                           /\ Ordered(obj.syms, at)
                           /\ \E to \in [DOMAIN obj.secs -> 0..Len(back.secs)] :
                                SameObject(obj, back, lost, to, at)
    BY DEF RoundTrip
  <2>1. ReadState /\ ReadBack
    BY AllRead
  <2>2. /\ Len(back.syms) = Len(obj.syms) /\ DOMAIN back.syms = DOMAIN obj.syms
        /\ Kept \in [DOMAIN obj.secs -> 0..Len(back.secs)]
        /\ \A d \in DOMAIN obj.secs : Kept[d] = 0 <=> d \in lost
        /\ \A d, e \in DOMAIN obj.secs : Kept[d] = Kept[e] /\ Kept[d] # 0 => d = e
        /\ \A x \in DOMAIN back.secs : \E d \in DOMAIN obj.secs : Kept[d] = x
    BY <2>1 DEF ReadBack
  <2>3. slot \in [DOMAIN obj.syms -> DOMAIN back.syms] /\ Ordered(obj.syms, slot)
    BY <2>1, <2>2 DEF ReadState, Slotted
  <2>4. ASSUME NEW d \in DOMAIN obj.secs, d \notin lost
        PROVE  SameSection(obj.secs[d], back.secs[Kept[d]], slot)
    <3>1. PICK sec, is : sec = obj.secs[d] /\ is = back.secs[Kept[d]]
      OBVIOUS
    <3>2. is = SectionBack(sec, slot, TRUE)
      BY <2>1, <2>4, <3>1, Zenon DEF ReadBack
    <3>3. is.name = sec.name /\ is.alloc = sec.alloc /\ is.align = sec.align /\ is.data = sec.data
      BY <3>2 DEF SectionBack
    <3>4. IsList(sec.relas)
      BY <2>1, <3>1, ObjectFacts, SectionFacts DEF ReadState
    <3>5. PICK r : r = SectionBack(sec, slot, TRUE).relas
      OBVIOUS
    <3>6. /\ DOMAIN r = DOMAIN sec.relas
          /\ \A q \in DOMAIN sec.relas :
               r[q] = [off |-> sec.relas[q].off, sym |-> Image(slot, sec.relas[q].sym),
                       type |-> sec.relas[q].type, addend |-> sec.relas[q].addend]
      BY <3>4, <3>5, BackIsList, Zenon
    <3>7. is.relas = r
      BY <3>2, <3>5
    <3>8. SameSection(sec, is, slot)
      BY <3>3, <3>6, <3>7, Zenon DEF SameSection, SameRela
    <3> QED
      BY <3>1, <3>8
  <2>5. ASSUME NEW j \in DOMAIN obj.syms
        PROVE  SameSymbol(obj.syms[j], back.syms[slot[j]], Kept)
    <3>1. back.syms[slot[j]] = SymbolBack(obj.syms[j], Kept)
      BY <2>1 DEF ReadBack
    <3> QED
      BY <3>1, Zenon DEF SymbolBack, SameSymbol
  <2> HIDE DEF Kept
  <2>6. SameObject(obj, back, lost, Kept, slot)
    BY <2>2, <2>4, <2>5, Zenon DEF SameObject
  <2> QED
    BY <2>2, <2>3, <2>6, Zenon
<1> QED
  BY <1>1, FileInvariant, PTL

(* Writing an object that Elf_Read made of this writer's own file makes    *)
(* that file again, byte for byte: reading and writing are stable after    *)
(* one round.                                                              *)
THEOREM WritingAgainIsTheSame == Spec => []AgainTheSame
<1>1. FileInv => AgainTheSame
  <2> SUFFICES ASSUME FileInv, pc = "written", round > 1, ~foreign, Whole
               PROVE  file = earlier
    BY DEF AgainTheSame
  <2>1. pc \notin {"open", "failed", "locals", "globals"} /\ pc \notin Ordering /\ pc \in Placed
    BY DEF Ordering, Heading, Placed
  <2>2. /\ obj \in Object(Names) /\ Slotted(obj.syms, slot, firstGlobal)
        /\ OwnTables(obj, slot, firstGlobal, shdrs, bodies, shstrndx)
        /\ Laid(shdrs, bodies, Len(shdrs)) /\ file = FileOf(shdrs, bodies, shstrndx)
    BY <2>1 DEF FileInv, FileTyped, SymbolsInv, TablesInv, PlacesInv
  <2>3. MadeOf(obj, file)
    BY <2>2, Zenon DEF MadeOf
  <2>4. MadeOf(obj, earlier)
    BY DEF FileInv, EarlierInv
  <2> QED
    BY <2>2, <2>3, <2>4, OneFile
<1> QED
  BY <1>1, FileInvariant, PTL
=============================================================================
