------------------------------ MODULE Assembly ------------------------------
(***************************************************************************)
(* From instructions to an object, by both ways the tools offer.  ivan-cc  *)
(* -c encodes the list it generated; ivan-cc -S writes the list as text,   *)
(* which ivan-as parses and encodes.  A list takes the first way and then  *)
(* the second; a text somebody wrote takes what ivan-as does of the second.*)
(***************************************************************************)
EXTENDS Text

CONSTANTS
  Lists,      \* instruction lists, each under a key
  Texts,      \* hand-written texts, each under a key
  Literals,   \* byte sequences for the strings of texts
  Addresses   \* where a linker may put a section

ASSUME LiteralsAssumption == Literals \subseteq Seq(0..255)
ASSUME AddressesAssumption == Addresses \subseteq Nat

VARIABLES
  stage,   \* compile, parse, assemble, done or failed
  lines,   \* the text
  line,    \* the line the parser is at
  first    \* the object of ivan-cc -c, if any

vars == <<encVars, stage, lines, line, first>>

D == INSTANCE Decode

NoObject == [secs |-> << >>, syms |-> << >>]

Init ==
  /\ EncodeInit
  /\ line = 1 /\ first = NoObject
  /\ \/ \E key \in DOMAIN Lists : items = Lists[key] /\ lines = << >> /\ stage = "compile"
     \/ \E key \in DOMAIN Texts : items = << >> /\ lines = Texts[key] /\ stage = "parse"

Encoding ==
  /\ stage \in {"compile", "assemble"}
  /\ EncodeNext
  /\ UNCHANGED <<stage, lines, line, first>>

(* The list was encoded; now it is written as text, and ivan-as starts.    *)
WriteText ==
  /\ stage = "compile" /\ pass = "encoded"
  /\ first' = Object
  /\ lines' = Write(items)
  /\ stage' = "parse"
  /\ items' = << >> /\ pass' = "reset"
  /\ UNCHANGED <<at, cur, secs, syms, labels, globls, fixes, line>>

(* A line with something the parser does not know ends ivan-as. *)
ParseNext ==
  /\ stage = "parse" /\ line <= Len(lines)
  /\ LET parsed == ParseLine(lines[line])
     IN IF \E j \in DOMAIN parsed : parsed[j].kind = "REFUSED"
        THEN stage' = "failed" /\ UNCHANGED <<items, line>>
        ELSE items' = items \o parsed /\ line' = line + 1 /\ UNCHANGED stage
  /\ UNCHANGED <<pass, at, cur, secs, syms, labels, globls, fixes, lines, first>>

ParsedAll ==
  /\ stage = "parse" /\ line > Len(lines)
  /\ stage' = "assemble"
  /\ UNCHANGED <<encVars, lines, line, first>>

Assembled ==
  /\ stage = "assemble" /\ pass = "encoded"
  /\ stage' = "done"
  /\ UNCHANGED <<encVars, lines, line, first>>

Next == Encoding \/ WriteText \/ ParseNext \/ ParsedAll \/ Assembled

Spec == Init /\ [][Next]_vars

-----------------------------------------------------------------------------
(* The lists and texts the theorems are about: ones asm.c could have       *)
(* built, and texts in which the parser reads nothing else.                *)
ReadsEncodable(text) ==
  /\ Len(text) \in Nat
  /\ \A l \in 1..Len(text) :
       LET parsed == ParseLine(text[l])
       IN EncodableList(parsed) \/ \E j \in DOMAIN parsed : parsed[j].kind = "REFUSED"

InputsEncodable ==
  /\ \A key \in DOMAIN Lists : EncodableList(Lists[key]) /\ ReadsEncodable(Write(Lists[key]))
  /\ \A key \in DOMAIN Texts : ReadsEncodable(Texts[key])

-----------------------------------------------------------------------------
(* What the items say, and where a processor finds them in the object.     *)

Form(opnd) == <<opnd.kind, opnd.width>>
R(width) == <<"REG", width>>
M(width) == <<"MEM", width>>
NoForm   == <<"NONE", 0>>
ImmForm  == <<"IMM", 0>>

(* The operands asm.c gives each operation. *)
Forms ==
  ((DOMAIN OpcodeRR) \X {R(8)} \X {R(8), ImmForm})
  \union ({"MOV"} \X {R(8)} \X {R(8), M(0), M(8), ImmForm}) \union ({"MOV"} \X {R(1)} \X {ImmForm})
  \union ({"MOV"} \X {M(0)} \X {R(1), R(4), R(8)})
  \union ({"IMUL"} \X {R(8)} \X {R(8)}) \union ({"MOVZB"} \X {R(8)} \X {R(1)})
  \union ({"MOVSX"} \X {R(8)} \X {R(1), R(4), M(1), M(4)})
  \union ({"LEA"} \X {R(8)} \X {M(0), <<"RIP", 0>>})
  \union ({"NEG", "IDIV", "PUSH", "POP"} \X {R(8)} \X {NoForm}) \union ((DOMAIN SetByte) \X {R(1)} \X {NoForm})
  \union ((DOMAIN Branch) \X {<<"LABEL", 0>>} \X {NoForm}) \union ((DOMAIN Fixed) \X {NoForm} \X {NoForm})

Built(it) ==
  it.kind = "INSTR" =>
    /\ <<it.op, Form(it.dst), Form(it.src)>> \in Forms
    /\ it.src.kind = "IMM" => InRange(it.src.val, IF it.op = "MOV" THEN it.dst.width ELSE 4)

AllBuilt == \A j \in DOMAIN items : Built(items[j])

DecodedAt(place) == D!Decoded(secs[place.sec].data, place.off)

(* The place of each item: items follow one another in their sections, and *)
(* an instruction ends where a processor ends it.                          *)
After(acc, it) ==
  LET here == [sec |-> acc.sec, off |-> acc.off[acc.sec]]
      end  == CASE it.kind = "INSTR" -> DecodedAt(here).end
                [] it.kind = "BYTES" -> here.off + Len(it.dst.val)
                [] OTHER -> here.off
  IN [sec |-> IF it.kind = "SECTION" THEN Elf!SectionFind(secs, it.dst.val[1]) ELSE acc.sec,
      off |-> [acc.off EXCEPT ![acc.sec] = end],
      places |-> Append(acc.places, [sec |-> here.sec, off |-> here.off, end |-> end])]

(* The places of the first n items, and of what comes after them. *)
Walked[n \in 0..Len(items)] ==
  IF n = 0 THEN [sec |-> 1, off |-> [s \in DOMAIN secs |-> 0], places |-> << >>]
  ELSE After(Walked[n - 1], items[n])

Walk == Walked[Len(items)]

(* A processor reads the same operation and operands; a name it reads as a *)
(* displacement, and the width of a load in its register.                  *)
SameOperand(said, read) ==
  /\ said.kind = read.kind
  /\ said.kind \notin {"LABEL", "RIP"} => said = read

Says(it, ins) ==
  /\ ins.op = it.op
  /\ SameOperand(it.dst, ins.dst)
  /\ SameOperand(IF it.op = "MOV" /\ it.src.kind = "MEM" THEN [it.src EXCEPT !.width = 0] ELSE it.src, ins.src)

ItemSaid(it, p) ==
  /\ it.kind = "INSTR" => Says(it, DecodedAt(p).ins)
  /\ it.kind = "BYTES" => SubSeq(secs[p.sec].data, p.off + 1, p.end) = Op(it.dst.val)
  /\ it.kind = "LABEL" =>
       \E s \in DOMAIN syms : syms[s].name = it.dst.val /\ syms[s].sec = p.sec /\ syms[s].value = p.off

AllSaid(walk) ==
  /\ \A s \in DOMAIN secs : walk.off[s] = Len(secs[s].data)
  /\ \A j \in DOMAIN items : ItemSaid(items[j], walk.places[j])

EachSaid == AllSaid(Walk)

NamingItems == {j \in DOMAIN items : items[j].kind = "INSTR" /\ Names(items[j])}

Definitions(name) == {j \in DOMAIN items : items[j].kind = "LABEL" /\ items[j].dst.val = name}

DeclaredGlobal(name) == \E j \in DOMAIN items : items[j].kind = "GLOBL" /\ items[j].dst.val = name

(* The sections at the addresses a linker gave them.                      *)
PlacedAt(addr) == [s \in DOMAIN secs |-> [secs[s] EXCEPT !.addr = addr[s]]]

(* Section s once rel.c has applied its relocations, one after another;    *)
(* they write nowhere else.                                                *)
Filled(addr, s) ==
  LET relas == secs[s].relas
      after[q \in 0..Len(relas)] ==
        IF q = 0 THEN PlacedAt(addr) ELSE Rel!Relocated(after[q - 1], syms, s, relas[q])
  IN after[Len(relas)][s]

Linked(addr) == [s \in DOMAIN secs |-> Filled(addr, s)]

(* What a processor at place p makes of the name there, in the image, is   *)
(* the address of the place of the label.                                  *)
Displacement(ins) == IF ins.op = "LEA" THEN ins.src.val ELSE ins.dst.val

Arrives(image, p, label, read) ==
  LET distance == image[label.sec].addr + label.off - (image[p.sec].addr + read.end)
  IN InRange(distance, 4) => Displacement(read.ins) = distance

AllArrive(places, image) ==
  \A j \in NamingItems :
    Arrives(image, places[j], places[Elf!First(Definitions(NameIn(items[j])))],
            D!Decoded(image[places[j].sec].data, places[j].off))

(* The relocation of a reference to name, and the symbol it is for. *)
Resolved(places, name, rela, defs) ==
  LET sym == syms[rela.sym]
  IN /\ sym.name = name /\ rela.addend = -4
     /\ defs # {} => sym.sec = places[Elf!First(defs)].sec /\ sym.value = places[Elf!First(defs)].off
     /\ defs = {} =>
          /\ sym.sec = 0 /\ sym.bind = "GLOBAL"
          /\ Cardinality({s \in DOMAIN syms : syms[s].name = name}) = 1

AllResolved(places) ==
  \A j \in NamingItems :
    LET relas == secs[places[j].sec].relas
        sites == {q \in DOMAIN relas : relas[q].off = places[j].end - 4}
    IN /\ Cardinality(sites) = 1
       /\ \A q \in sites : Resolved(places, NameIn(items[j]), relas[q], Definitions(NameIn(items[j])))

-----------------------------------------------------------------------------
(* Properties.                                                             *)

(* The bytes of an object are the instructions and the data of its items,  *)
(* in their order in each section, and no others: decoded from the start   *)
(* of a section, whatever registers and displacements select prefixes, SIB *)
(* bytes and displacement sizes, each instruction is the one the item says *)
(* and ends where the next starts.  Labels are where their items stand.    *)
SaysItsItems == Encoded /\ AllBuilt => EachSaid

(* A branch, a call or an address taken arrives at its label, in whatever  *)
(* section, on whichever side of it and wherever a linker puts the two,    *)
(* once rel.c has filled its field: the site enc.c noted, the addend it    *)
(* put there and the end of the instruction a processor counts from agree. *)
BranchesArrive ==
  Encoded /\ AllBuilt /\ (\A j \in NamingItems : Definitions(NameIn(items[j])) # {}) =>
    \A addr \in [DOMAIN secs -> Addresses] : AllArrive(Walk.places, Linked(addr))

(* Every reference has one relocation, in the last four bytes of its       *)
(* instruction, for a symbol of its name: the first label of that name, or *)
(* the one undefined symbol it shares with every other reference to it.  A *)
(* label is global when any .globl names it, before or after.              *)
NamesResolve ==
  Encoded /\ AllBuilt =>
    /\ AllResolved(Walk.places)
    /\ \A s \in DOMAIN syms : syms[s].sec # 0 => (syms[s].bind = "GLOBAL") = DeclaredGlobal(syms[s].name)

(* The section is there for what its name says, and holds nothing.         *)
Note(sec) == sec.flags = {} /\ sec.data = << >> /\ sec.relas = << >>

(* ivan-as makes of the text of a program the object ivan-cc -c makes of   *)
(* the program: what the writer prints, the parser reads back.  Only the   *)
(* directive gen.c:429 ends a program with, which the encoder skips, comes *)
(* back as a section: one of its own, and empty.                           *)
SameObject ==
  stage = "done" /\ first # NoObject =>
    LET more == SelectSeq(secs, LAMBDA sec : Note(sec))
    IN /\ secs = first.secs \o more /\ Len(more) <= 1
       /\ syms = first.syms

(* The spelling of bytes between quotes. *)
Spelled(byte) ==
  CASE byte \in {Quote, Backslash} -> <<Backslash, byte>>
    [] byte \in {0, 10} -> <<Backslash, IF byte = 0 THEN 48 ELSE 110>>
    [] OTHER -> <<byte>>

Spell(bytes) == FlattenSeq([j \in DOMAIN bytes |-> Spelled(bytes[j])])

(* A string with escapes arrives in the object byte for byte, with a       *)
(* comment after it or without, and a # inside its quotes is no comment.   *)
(* Not so after an escaped quote, which txt.c:430 takes for the closing    *)
(* one: such a string is cut short.                                        *)
StringsKept ==
  stage = "done" =>
    \A bytes \in Literals : \A comment \in {<< >>, <<Hash, Quote>>} : \A nul \in BOOLEAN :
      lines = <<Line(<< >>, String(Spell(bytes) \o <<Quote>> \o comment, nul))>>
        /\ ~({Quote, Hash} \subseteq Range(bytes)) =>
      secs[1].data = Op(bytes \o (IF nul THEN <<0>> ELSE << >>))
=============================================================================
