----------------------------- MODULE ElfObject -----------------------------
(***************************************************************************)
(* The in-memory object of src/util/elf.c: an Elf is a list of sections    *)
(* and a list of symbols.  A pointer to a section or a symbol is its index *)
(* in the list of its owner, and 0 is NULL.  Offsets count from 0, as in   *)
(* the code.                                                               *)
(*                                                                         *)
(* Of a section's flags the linker and the writer test ELF_SHF_ALLOC only, *)
(* so a section keeps that bit alone; its type is PROGBITS, the only one   *)
(* that generated code has and the reader keeps.  A byte is a tuple: <<v>> *)
(* is the literal value v, any other tuple is an opaque byte of an input   *)
(* object.                                                                 *)
(***************************************************************************)
EXTENDS Integers, Sequences, FiniteSets, FiniteSetsExt

Locals  == {"LOCAL"}
Globals == {"GLOBAL", "WEAK"}
Binds   == Locals \union Globals

Byte(v) == <<v>>

(* The index of the first element whose index is in S, or NULL. *)
First(S) == IF S = {} THEN 0 ELSE Min(S)

SectionFind(secs, name) == First({i \in DOMAIN secs : secs[i].name = name})

SymbolFind(syms, name) == First({i \in DOMAIN syms : syms[i].name = name})

NewSection(name, alloc) ==
  [name |-> name, alloc |-> alloc, addr |-> 0, align |-> 1, data |-> << >>, relas |-> << >>]

(* The sections after a call of Elf_SectionGet; the section it returns is  *)
(* then the one SectionFind finds.                                         *)
SectionGet(secs, name, alloc) ==
  IF SectionFind(secs, name) # 0 THEN secs ELSE Append(secs, NewSection(name, alloc))

Zeros(n) == [j \in 1..n |-> Byte(0)]

(* A wrong count of padding bytes. *)
PaddingOfRemainder(len, align) == IF align > 1 THEN len % align ELSE 0

(* The number of zero bytes that bring len up to a multiple of align. *)
Padding(len, align) == IF align > 1 THEN (-len) % align ELSE 0

BufAlign(data, align) == data \o Zeros(Padding(Len(data), align))

(* Types of the object model, for the type invariants. *)
Rela == [off : Nat, sym : Nat, type : STRING, addend : Int]

Section(Names) ==
  [name : Names, alloc : BOOLEAN, addr : Nat, align : Nat,
   data : Seq(Seq(Nat)), relas : Seq(Rela)]

Symbol(Names) ==
  [name : Names, sec : Nat, value : Nat, bind : Binds, type : STRING]

(* Objects whose every pointer stays inside the object. *)
Object(Names) ==
  {u \in [secs : Seq(Section(Names)), syms : Seq(Symbol(Names))] :
     /\ \A j \in DOMAIN u.syms : u.syms[j].sec \in 0..Len(u.secs)
     /\ \A d \in DOMAIN u.secs : \A q \in DOMAIN u.secs[d].relas :
           u.secs[d].relas[q].sym \in 0..Len(u.syms)}

(* A global name is one symbol. *)
UniqueGlobals(ss) ==
  \A a, b \in DOMAIN ss :
    ss[a].bind # "LOCAL" /\ ss[b].bind # "LOCAL" /\ ss[a].name = ss[b].name => a = b
=============================================================================
