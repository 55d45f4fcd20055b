----------------------------- MODULE LinkMerge -----------------------------
(***************************************************************************)
(* Link_MergeFiles and Link_Merge of src/util/link.c: the objects of a     *)
(* link are merged, one after the other, into the object `secs', `syms'.   *)
(*                                                                         *)
(* units[1] is the object the link starts from: an empty one in ivan-ld,   *)
(* the unit just encoded in ivan-cc, which Link_MergeFiles adds to without *)
(* merging it.  units[2], units[3], ... are the objects read from files.   *)
(*                                                                         *)
(* One step is one iteration of a loop of Link_Merge, or one exit from it. *)
(***************************************************************************)
EXTENDS ElfObject

CONSTANTS
  Names,       \* section and symbol names
  UnitSeqs,    \* the sequences of objects that may be linked
  Unreadable   \* what Elf_Read yields for a file that is not an object

Objects == Object(Names)

ASSUME UnitSeqsAssumption ==
  /\ Unreadable \notin Objects
  /\ UnitSeqs \subseteq Seq(Objects \union {Unreadable})
  /\ \A us \in UnitSeqs : us # << >> /\ us[1] # Unreadable

VARIABLES
  units,   \* the objects of this link; never changes
  k,       \* which of them is being merged
  pc,      \* the loop Link_Merge is in, or where the link has got to
  i,       \* the index of that loop
  r,       \* the index of the inner loop over a section's relocations
  secs,    \* out's sections
  syms,    \* out's symbols
  maps,    \* maps[k]: secmap, secbase and symmap of the k-th Link_Merge
  err      \* what was reported before exit(1)

mergeVars == <<units, k, pc, i, r, secs, syms, maps, err>>

(* Link_Merge frees its three arrays when it returns.  The model keeps     *)
(* those of the finished calls so that properties can speak of them; no    *)
(* action reads any but the last.                                          *)
Identity(u) == [sec  |-> [s \in DOMAIN u.secs |-> s],
                base |-> [s \in DOMAIN u.secs |-> 0],
                sym  |-> [s \in DOMAIN u.syms |-> s]]

MergeInit ==
  /\ units \in UnitSeqs
  /\ k = 1 /\ i = 1 /\ r = 1
  /\ pc = "read"
  /\ secs = units[1].secs
  /\ syms = units[1].syms
  /\ maps = <<Identity(units[1])>>
  /\ err = "none"

(* The object being merged, and the section, relocation and symbol the     *)
(* loops are at.                                                           *)
In == units[k]
InSec == In.secs[i]
InSym == In.syms[i]
InRel == InSec.relas[r]

Fail(reason) == pc' = "failed" /\ err' = reason

(***************************************************************************)
(* Link_MergeFiles                                                         *)
(***************************************************************************)
ReadObject ==
  /\ pc = "read" /\ k < Len(units)
  /\ units[k + 1] # Unreadable
  /\ k' = k + 1
  /\ pc' = "sections" /\ i' = 1
  /\ maps' = Append(maps, [sec |-> << >>, base |-> << >>, sym |-> << >>])
  /\ UNCHANGED <<units, r, secs, syms, err>>

CannotRead ==
  /\ pc = "read" /\ k < Len(units)
  /\ units[k + 1] = Unreadable
  /\ Fail("cannot read object")
  /\ UNCHANGED <<units, k, i, r, secs, syms, maps>>

MergeDone ==
  /\ pc = "read" /\ k = Len(units)
  /\ pc' = "merged"
  /\ UNCHANGED <<units, k, i, r, secs, syms, maps, err>>

(***************************************************************************)
(* First phase: append each section to out's section of the same name.     *)
(***************************************************************************)
MergeSection ==
  /\ pc = "sections" /\ i <= Len(In.secs)
  /\ LET got  == SectionGet(secs, InSec.name, InSec.alloc)
         d    == SectionFind(got, InSec.name)
         room == BufAlign(got[d].data, InSec.align)
     IN /\ secs' = [got EXCEPT ![d].align = IF InSec.align > @ THEN InSec.align ELSE @,
                               ![d].data = room \o InSec.data]
        /\ maps' = [maps EXCEPT ![k].sec  = Append(@, d),
                                ![k].base = Append(@, Len(room))]
  /\ i' = i + 1
  /\ UNCHANGED <<units, k, pc, r, syms, err>>

SectionsDone ==
  /\ pc = "sections" /\ i > Len(In.secs)
  /\ pc' = "symbols" /\ i' = 1
  /\ UNCHANGED <<units, k, r, secs, syms, maps, err>>

(***************************************************************************)
(* Second phase: copy symbols, unifying globals.                           *)
(***************************************************************************)
(* A symbol moved to its section but not rebased in it. *)
MovedUnbased(sym) ==
  [sym EXCEPT !.sec = IF sym.sec # 0 THEN maps[k].sec[sym.sec] ELSE 0]

Moved(sym) ==
  [sym EXCEPT !.sec   = IF sym.sec # 0 THEN maps[k].sec[sym.sec] ELSE 0,
              !.value = IF sym.sec # 0 THEN maps[k].base[sym.sec] + sym.value ELSE 0]

(* A search that overlooks the symbols nobody defined yet. *)
FindGlobalDefined(ss, name) ==
  First({j \in DOMAIN ss : ss[j].bind # "LOCAL" /\ ss[j].name = name /\ ss[j].sec # 0})

FindGlobal(ss, name) ==
  First({j \in DOMAIN ss : ss[j].bind # "LOCAL" /\ ss[j].name = name})

Existing == FindGlobal(syms, InSym.name)

(* symmap[i] becomes out's symbol j, and the loop goes on. *)
MapSymbol(j) ==
  /\ maps' = [maps EXCEPT ![k].sym = Append(@, j)]
  /\ i' = i + 1
  /\ UNCHANGED <<units, k, pc, r, secs, err>>

AtSymbol == pc = "symbols" /\ i <= Len(In.syms)

AddSymbol ==
  /\ AtSymbol
  /\ InSym.bind = "LOCAL" \/ Existing = 0
  /\ syms' = Append(syms, Moved(InSym))
  /\ MapSymbol(Len(syms) + 1)

ReferGlobal ==
  /\ AtSymbol
  /\ InSym.bind # "LOCAL" /\ Existing # 0
  /\ InSym.sec = 0
  /\ MapSymbol(Existing)
  /\ UNCHANGED syms

(* A definition that replaces an earlier one. *)
DefineGlobalAgain ==
  /\ AtSymbol
  /\ InSym.bind # "LOCAL" /\ Existing # 0
  /\ InSym.sec # 0
  /\ syms' = [syms EXCEPT ![Existing].sec   = Moved(InSym).sec,
                          ![Existing].value = Moved(InSym).value,
                          ![Existing].type  = InSym.type]
  /\ MapSymbol(Existing)

DefineGlobal ==
  /\ AtSymbol
  /\ InSym.bind # "LOCAL" /\ Existing # 0
  /\ InSym.sec # 0 /\ syms[Existing].sec = 0
  /\ syms' = [syms EXCEPT ![Existing].sec   = Moved(InSym).sec,
                          ![Existing].value = Moved(InSym).value,
                          ![Existing].type  = InSym.type]
  /\ MapSymbol(Existing)

MultipleDefinition ==
  /\ AtSymbol
  /\ InSym.bind # "LOCAL" /\ Existing # 0
  /\ InSym.sec # 0 /\ syms[Existing].sec # 0
  /\ Fail("multiple definition")
  /\ UNCHANGED <<units, k, i, r, secs, syms, maps>>

SymbolsDone ==
  /\ pc = "symbols" /\ i > Len(In.syms)
  /\ pc' = "relocs" /\ i' = 1 /\ r' = 1
  /\ UNCHANGED <<units, k, secs, syms, maps, err>>

(***************************************************************************)
(* Third phase: rebase relocations onto out's sections and symbols.        *)
(***************************************************************************)
(* Carry the current relocation over at offset off, for symbol sym. *)
CarryReloc(off, sym) ==
  /\ pc = "relocs" /\ i <= Len(In.secs)
  /\ r <= Len(InSec.relas)
  /\ secs' = IF InRel.sym = 0 THEN secs   \* Link_SymbolIndex found no symbol
             ELSE [secs EXCEPT ![maps[k].sec[i]].relas =
                     Append(@, [InRel EXCEPT !.off = off, !.sym = sym])]
  /\ r' = r + 1
  /\ UNCHANGED <<units, k, pc, i, syms, maps, err>>

(* Relocations not rebased in their section, or rebased past every symbol. *)
MergeRelocUnbased == CarryReloc(InRel.off, maps[k].sym[InRel.sym])
MergeRelocPastSymbols == CarryReloc(maps[k].base[i] + InRel.off, Len(syms) + InRel.sym)

MergeReloc == CarryReloc(maps[k].base[i] + InRel.off, maps[k].sym[InRel.sym])

NextRelocSection ==
  /\ pc = "relocs" /\ i <= Len(In.secs)
  /\ r > Len(InSec.relas)
  /\ i' = i + 1 /\ r' = 1
  /\ UNCHANGED <<units, k, pc, secs, syms, maps, err>>

RelocsDone ==
  /\ pc = "relocs" /\ i > Len(In.secs)
  /\ pc' = "read"
  /\ UNCHANGED <<units, k, i, r, secs, syms, maps, err>>

MergeNext ==
  \/ ReadObject \/ CannotRead \/ MergeDone
  \/ MergeSection \/ SectionsDone
  \/ AddSymbol \/ ReferGlobal \/ DefineGlobal \/ MultipleDefinition \/ SymbolsDone
  \/ MergeReloc \/ NextRelocSection \/ RelocsDone

MergeSpec == MergeInit /\ [][MergeNext]_mergeVars

-----------------------------------------------------------------------------
(* Properties.                                                             *)

(* A global name is one symbol of the output, however many objects define  *)
(* or mention it and in whatever order, if that is so in the object the    *)
(* link starts from: what symmap, and every relocation, relies on.         *)
GlobalsUnique == UniqueGlobals(units[1].syms) => UniqueGlobals(syms)

(* A symbol keeps its index, name and binding for good, and its place once *)
(* it has one: a later object never moves what an earlier reloc refers to. *)
DefinitionsStable ==
  [][\A j \in DOMAIN syms :
       /\ j \in DOMAIN syms'
       /\ syms'[j].name = syms[j].name /\ syms'[j].bind = syms[j].bind
       /\ syms[j].sec # 0 => syms'[j] = syms[j]]_mergeVars

(* Input sections whose place in the output is settled. *)
Settled == UNION {{o} \X DOMAIN maps[o].sec : o \in DOMAIN maps}
OutOf(p)  == maps[p[1]].sec[p[2]]
BaseOf(p) == maps[p[1]].base[p[2]]
DataOf(p) == units[p[1]].secs[p[2]].data

(* From the moment it is merged, an input section's bytes stand at its     *)
(* base in the output section, aligned as it asked, apart from every other *)
(* input section's bytes.                                                  *)
ContentsKept ==
  \A p \in Settled :
    /\ SubSeq(secs[OutOf(p)].data, BaseOf(p) + 1, BaseOf(p) + Len(DataOf(p))) = DataOf(p)
    /\ LET align == units[p[1]].secs[p[2]].align IN
         p[1] # 1 /\ align > 1 =>
           BaseOf(p) % align = 0 /\ secs[OutOf(p)].align >= align
    /\ \A q \in Settled :
         p # q /\ OutOf(p) = OutOf(q) =>
           \/ BaseOf(p) + Len(DataOf(p)) <= BaseOf(q)
           \/ BaseOf(q) + Len(DataOf(q)) <= BaseOf(p)

Defs(name) ==
  {l \in UNION {{o} \X DOMAIN units[o].syms : o \in DOMAIN maps} :
     /\ units[l[1]].syms[l[2]].bind # "LOCAL"
     /\ units[l[1]].syms[l[2]].name = name
     /\ units[l[1]].syms[l[2]].sec # 0}

MovedFrom(l, sym) ==
  LET old == units[l[1]].syms[l[2]]
  IN sym.sec = maps[l[1]].sec[old.sec] /\ sym.value = maps[l[1]].base[old.sec] + old.value

(* After the merge every input symbol stands for the right thing: a local  *)
(* one for itself and shared with no other, a global one for the one       *)
(* definition of its name in the whole link, be it in an earlier or a      *)
(* later object, or for nothing if there is none.  As in GlobalsUnique,    *)
(* the object the link starts from has one symbol for a global name.       *)
SymbolsResolve ==
  pc = "merged" /\ UniqueGlobals(units[1].syms) =>
    \A o \in DOMAIN maps : \A q \in DOMAIN units[o].syms :
      LET old == units[o].syms[q]
          new == syms[maps[o].sym[q]]
      IN /\ new.name = old.name
         /\ new.bind = "LOCAL" <=> old.bind = "LOCAL"
         /\ old.bind = "LOCAL" =>
              /\ IF old.sec # 0 THEN MovedFrom(<<o, q>>, new) ELSE new.sec = 0
              /\ \A o2 \in DOMAIN maps : \A q2 \in DOMAIN units[o2].syms :
                   maps[o2].sym[q2] = maps[o].sym[q] => o2 = o /\ q2 = q
         /\ old.bind # "LOCAL" =>
              IF Defs(old.name) = {} THEN new.sec = 0
              ELSE \A l \in Defs(old.name) :
                     MovedFrom(l, new) /\ new.type = units[l[1]].syms[l[2]].type

(* Each relocation of an input that has a symbol is carried over once,     *)
(* patching the same byte of its section and meaning its own symbol, and   *)
(* the output holds no other.                                              *)
Carried == {f \in UNION {{<<p[1], p[2], q>> : q \in DOMAIN units[p[1]].secs[p[2]].relas} : p \in Settled} :
              f[1] = 1 \/ units[f[1]].secs[f[2]].relas[f[3]].sym # 0}

CarriedAs(f) ==
  LET rela == units[f[1]].secs[f[2]].relas[f[3]]
  IN [rela EXCEPT !.off = BaseOf(f) + rela.off,
                  !.sym = IF rela.sym = 0 THEN 0 ELSE maps[f[1]].sym[rela.sym]]

RelocsKept ==
  pc = "merged" =>
    \A d \in DOMAIN secs :
      LET inputs == {f \in Carried : OutOf(f) = d}
          relas  == secs[d].relas
      IN /\ Len(relas) = Cardinality(inputs)
         /\ \A f \in inputs : \E q \in DOMAIN relas : relas[q] = CarriedAs(f)
         /\ \A q \in DOMAIN relas : \E f \in inputs : relas[q] = CarriedAs(f)

(* Every variable of Link_Merge has its type, and every pointer it holds   *)
(* points into the object being built.                                     *)
MergeTypeOK ==
  /\ units \in Seq(Objects \union {Unreadable}) /\ units[1] \in Objects
  /\ k \in 1..Len(units)
  /\ pc \in {"read", "sections", "symbols", "relocs", "merged", "failed"}
  /\ i \in Nat \ {0} /\ r \in Nat \ {0}
  /\ [secs |-> secs, syms |-> syms] \in Objects
  /\ maps \in Seq([sec : Seq(Nat), base : Seq(Nat), sym : Seq(Nat)])
  /\ Len(maps) = k
  /\ err \in {"none", "cannot read object", "multiple definition"}
=============================================================================
