------------------------------- MODULE Encode -------------------------------
(***************************************************************************)
(* The encoder of src/arch/x86_64/enc.c: it walks the items of a unit,     *)
(* appending bytes to the current section and noting labels, .globl names  *)
(* and the sites of references; then it makes a symbol of every label, an  *)
(* undefined symbol of every other name, and a relocation of every site.   *)
(*                                                                         *)
(* A register is a name, its number the place of that name in Registers.   *)
(* Opcode bytes are the real ones; displacements, immediates and data have *)
(* ByteBase values in a byte, 256 in the code.                             *)
(***************************************************************************)
EXTENDS Asm, FiniteSets, TLC

CONSTANT ByteBase   \* values of a byte of data

Elf == INSTANCE ElfObject
Rel == INSTANCE Relocate

ASSUME EncodeAssumption ==
  /\ ByteBase \in 2..256
  /\ \A n \in 0..8 : Rel!Modulus(n) \in Nat \ {0}
  /\ Rel!Modulus(0) = 1
  /\ \A n \in 0..7 : Rel!Modulus(n + 1) = ByteBase * Rel!Modulus(n)

Registers == <<"rax", "rcx", "rdx", "rbx", "rsp", "rbp", "rsi", "rdi",
               "r8", "r9", "r10", "r11", "r12", "r13", "r14", "r15">>

(* An operand without a register has 0 in its place. *)
Num(reg) == IF reg = "none" THEN 0 ELSE (CHOOSE n \in DOMAIN Registers : Registers[n] = reg) - 1

RegHigh(reg) == Num(reg) \div 8
RegLow(reg)  == Num(reg) % 8

-----------------------------------------------------------------------------
(* The bytes of an instruction.                                            *)

Op(bytes) == [j \in DOMAIN bytes |-> Elf!Byte(bytes[j])]

(* val in n little-endian bytes, cut to their width. *)
Emit(val, n) == [j \in 1..n |-> Elf!Byte((val \div Rel!Modulus(j - 1)) % ByteBase)]

InRange(val, n) == -(Rel!Modulus(n) \div 2) <= val /\ val < Rel!Modulus(n) \div 2

RexW(regHigh, rmHigh) == Op(<<\h48 + 4 * regHigh + rmHigh>>)

(* %spl, %bpl, %sil and %dil forgotten. *)
RexOfHighRegisters(width, reg, rm) ==
  LET bits == (IF width = 8 THEN 8 ELSE 0) + 4 * RegHigh(reg) + RegHigh(rm)
  IN IF bits # 0 THEN Op(<<\h40 + bits>>) ELSE << >>

Rex(width, reg, rm) ==
  LET bits == (IF width = 8 THEN 8 ELSE 0) + 4 * RegHigh(reg) + RegHigh(rm)
  IN IF bits # 0 \/ (width = 1 /\ Num(reg) \in 4..7) THEN Op(<<\h40 + bits>>) ELSE << >>

(* The prefix of an instruction with one register, of 8 bits or implicit.  *)
RexB(reg, lowbyte) ==
  IF Num(reg) >= 8 THEN Op(<<\h41>>) ELSE IF lowbyte /\ Num(reg) >= 4 THEN Op(<<\h40>>) ELSE << >>

ModRM(mod, reg, rm) == Op(<<mod * 64 + reg * 8 + rm>>)
ModRR(reg, rm) == ModRM(3, reg, RegLow(rm))

(* %rbp and %r13 taken for bases that need no displacement. *)
EmitMemShort(reg, base, disp) ==
  LET mod == IF disp = 0 THEN 0 ELSE IF InRange(disp, 1) THEN 1 ELSE 2
  IN ModRM(mod, reg, RegLow(base))
     \o (IF RegLow(base) = 4 THEN Op(<<\h24>>) ELSE << >>)
     \o (CASE mod = 0 -> << >> [] mod = 1 -> Emit(disp, 1) [] mod = 2 -> Emit(disp, 4))

(* ModRM, SIB and displacement of disp(%base). *)
EmitMem(reg, base, disp) ==
  LET mod == IF disp = 0 /\ RegLow(base) # 5 THEN 0 ELSE IF InRange(disp, 1) THEN 1 ELSE 2
  IN ModRM(mod, reg, RegLow(base))
     \o (IF RegLow(base) = 4 THEN Op(<<\h24>>) ELSE << >>)
     \o (CASE mod = 0 -> << >> [] mod = 1 -> Emit(disp, 1) [] mod = 2 -> Emit(disp, 4))

EmitRR(opcode, src, dst) == RexW(RegHigh(src), RegHigh(dst)) \o Op(opcode) \o ModRR(RegLow(src), dst)

(* The same with the register that is read in r/m. *)
EmitRM(opcode, src, dst) == RexW(RegHigh(dst), RegHigh(src)) \o Op(opcode) \o ModRR(RegLow(dst), src)

EmitGrpImm(grp, imm, dst) == RexW(0, RegHigh(dst)) \o Op(<<\h81>>) \o ModRR(grp, dst) \o Emit(imm, 4)

EmitGrpUnary(grp, reg) == RexW(0, RegHigh(reg)) \o Op(<<\hF7>>) \o ModRR(grp, reg)

EmitMovImm(imm, dst) ==
  RexW(0, RegHigh(dst))
  \o (IF InRange(imm, 4) THEN Op(<<\hC7>>) \o ModRR(0, dst) \o Emit(imm, 4)
      ELSE Op(<<\hB8 + RegLow(dst)>>) \o Emit(imm, 8))

EmitMovImm8(imm, dst) == RexB(dst, TRUE) \o Op(<<\hB0 + RegLow(dst)>>) \o Emit(imm, 1)

EmitMemForm(opcode, reg, base, disp, width) ==
  Rex(width, reg, base) \o Op(opcode) \o EmitMem(RegLow(reg), base, disp)

EmitMovsx(dst, src) ==
  RexW(RegHigh(dst.reg), RegHigh(src.reg))
  \o Op(IF src.width = 1 THEN <<\h0F, \hBE>> ELSE <<\h63>>)
  \o (IF src.kind = "REG" THEN ModRR(RegLow(dst.reg), src.reg) ELSE EmitMem(RegLow(dst.reg), src.reg, src.val))

EmitMov(dst, src) ==
  CASE src.kind = "IMM" /\ dst.width = 1 -> EmitMovImm8(src.val, dst.reg)
    [] src.kind = "IMM" /\ dst.width # 1 -> EmitMovImm(src.val, dst.reg)
    [] src.kind = "MEM" -> EmitMemForm(<<\h8B>>, dst.reg, src.reg, src.val, 8)
    [] src.kind = "REG" /\ dst.kind = "MEM" ->
         EmitMemForm(IF src.width = 1 THEN <<\h88>> ELSE <<\h89>>, src.reg, dst.reg, dst.val, src.width)
    [] src.kind = "REG" /\ dst.kind # "MEM" -> EmitRR(<<\h89>>, src.reg, dst.reg)
    [] OTHER -> << >>

GrpOf    == [ADD |-> 0, SUB |-> 5, CMP |-> 7, NEG |-> 3, IDIV |-> 7]
OpcodeRR == [ADD |-> <<\h01>>, SUB |-> <<\h29>>, CMP |-> <<\h39>>]
OpcodeRM == [IMUL |-> <<\h0F, \hAF>>, MOVZB |-> <<\h0F, \hB6>>]
SetByte  == [SETE |-> \h94, SETNE |-> \h95, SETL |-> \h9C, SETLE |-> \h9E]
Branch   == [JMP |-> <<\hE9>>, CALL |-> <<\hE8>>, JE |-> <<\h0F, \h84>>, JNE |-> <<\h0F, \h85>>]
Fixed    == [CQO |-> <<\h48, \h99>>, RET |-> <<\hC3>>, SYSCALL |-> <<\h0F, \h05>>]

(* An instruction that names a label ends in four bytes for the linker.    *)
Names(ins)  == ins.op \in DOMAIN Branch \/ (ins.op = "LEA" /\ ins.src.kind = "RIP")
NameIn(ins) == IF ins.op = "LEA" THEN ins.src.val ELSE ins.dst.val

(* The bytes of an instruction, up to the field of a name. *)
EmitInstr(ins) ==
  LET dst == ins.dst
      src == ins.src
      op  == ins.op
  IN CASE op = "MOVSX" -> EmitMovsx(dst, src)
       [] op = "MOV"   -> EmitMov(dst, src)
       [] op \in DOMAIN OpcodeRR /\ src.kind = "IMM" -> EmitGrpImm(GrpOf[op], src.val, dst.reg)
       [] op \in DOMAIN OpcodeRR /\ src.kind # "IMM" -> EmitRR(OpcodeRR[op], src.reg, dst.reg)
       [] op \in DOMAIN OpcodeRM -> EmitRM(OpcodeRM[op], src.reg, dst.reg)
       [] op = "LEA" /\ Names(ins)  -> RexW(RegHigh(dst.reg), 0) \o Op(<<\h8D>>) \o ModRM(0, RegLow(dst.reg), 5)
       [] op = "LEA" /\ ~Names(ins) -> EmitMemForm(<<\h8D>>, dst.reg, src.reg, src.val, 8)
       [] op \in {"NEG", "IDIV"}    -> EmitGrpUnary(GrpOf[op], dst.reg)
       [] op \in DOMAIN SetByte     -> RexB(dst.reg, TRUE) \o Op(<<\h0F, SetByte[op]>>) \o ModRR(0, dst.reg)
       [] op = "PUSH" -> RexB(dst.reg, FALSE) \o Op(<<\h50 + RegLow(dst.reg)>>)
       [] op = "POP"  -> RexB(dst.reg, FALSE) \o Op(<<\h58 + RegLow(dst.reg)>>)
       [] op \in DOMAIN Branch -> Op(Branch[op])
       [] op \in DOMAIN Fixed  -> Op(Fixed[op])

-----------------------------------------------------------------------------
VARIABLES
  items,    \* the instruction list
  pass,     \* reset, items, labels, names, relocs, encoded: where BuildObject is
  at,       \* the item, label or fixup the loop of that pass is at
  cur,      \* the section that writes append to
  secs,     \* the object's sections
  syms,     \* the object's symbols
  labels,   \* labels in the order met: name, section, offset
  globls,   \* names declared .globl
  fixes     \* references in the order met: section, offset, name, type

encVars == <<items, pass, at, cur, secs, syms, labels, globls, fixes>>

EncodeInit ==
  /\ pass = "reset" /\ at = 1 /\ cur = 0
  /\ secs = << >> /\ syms = << >>
  /\ labels = << >> /\ globls = {} /\ fixes = << >>

(* Elf!NewSection, with the type and all the flags. *)
SectionAdd(name, type, flags) ==
  [name |-> name, type |-> type, flags |-> flags, alloc |-> "ALLOC" \in flags,
   addr |-> 0, align |-> 1, data |-> << >>, relas |-> << >>]

(* Only the section appended last is looked at. *)
WithSectionLast(ss, name, type, flags) ==
  IF ss # << >> /\ ss[Len(ss)].name = name THEN ss
  ELSE Append(ss, SectionAdd(name, type, flags))

(* The sections with one of this name, made on first use.                  *)
WithSection(ss, name, type, flags) ==
  IF Elf!SectionFind(ss, name) # 0 THEN ss
  ELSE Append(ss, SectionAdd(name, type, flags))

SelectSection(ss, name, type, flags) ==
  /\ secs' = WithSection(ss, name, type, flags)
  /\ cur' = Elf!SectionFind(secs', name)

Reset ==
  /\ pass = "reset"
  /\ SelectSection(<< >>, ".text", "PROGBITS", {"ALLOC", "EXECINSTR"})
  /\ syms' = << >> /\ labels' = << >> /\ globls' = {} /\ fixes' = << >>
  /\ pass' = "items" /\ at' = 1
  /\ UNCHANGED items

(* The item the walk is at; the walk goes on to the next one. *)
item == items[at]

AtItem(kind) ==
  /\ pass = "items" /\ at <= Len(items) /\ item.kind = kind
  /\ at' = at + 1
  /\ UNCHANGED <<items, pass, syms>>

Room == Len(secs[cur].data)

Grow(bytes) == secs' = [secs EXCEPT ![cur].data = @ \o bytes]

PlainInstr ==
  /\ AtItem("INSTR") /\ ~Names(item)
  /\ Grow(EmitInstr(item))
  /\ UNCHANGED <<cur, labels, globls, fixes>>

(* A reference noted after the bytes it is to fill. *)
NamingInstrLate ==
  /\ AtItem("INSTR") /\ Names(item)
  /\ fixes' = Append(fixes, [sec |-> cur, off |-> Room + Len(EmitInstr(item)) + 4, name |-> NameIn(item),
                             type |-> IF item.op = "CALL" THEN "PLT32" ELSE "PC32"])
  /\ Grow(EmitInstr(item) \o Emit(0, 4))
  /\ UNCHANGED <<cur, labels, globls>>

NamingInstr ==
  /\ AtItem("INSTR") /\ Names(item)
  /\ fixes' = Append(fixes, [sec |-> cur, off |-> Room + Len(EmitInstr(item)), name |-> NameIn(item),
                             type |-> IF item.op = "CALL" THEN "PLT32" ELSE "PC32"])
  /\ Grow(EmitInstr(item) \o Emit(0, 4))
  /\ UNCHANGED <<cur, labels, globls>>

RecordLabel ==
  /\ AtItem("LABEL")
  /\ labels' = Append(labels, [name |-> item.dst.val, sec |-> cur, off |-> Room])
  /\ UNCHANGED <<cur, secs, globls, fixes>>

RecordGlobl ==
  /\ AtItem("GLOBL")
  /\ globls' = globls \union {item.dst.val}
  /\ UNCHANGED <<cur, secs, labels, fixes>>

ChangeSection ==
  /\ AtItem("SECTION")
  /\ SelectSection(secs, item.dst.val[1], item.op, item.src.val)
  /\ UNCHANGED <<labels, globls, fixes>>

EmitRaw ==
  /\ AtItem("BYTES")
  /\ Grow(Op(item.dst.val))
  /\ UNCHANGED <<cur, labels, globls, fixes>>

SkipDirective ==
  /\ AtItem("DIRECTIVE")
  /\ UNCHANGED <<cur, secs, labels, globls, fixes>>

(* The loop of a pass is over, and the next one starts. *)
NextPass(from, list, to) ==
  /\ pass = from /\ at > Len(list)
  /\ pass' = to /\ at' = 1
  /\ UNCHANGED <<items, cur, secs, syms, labels, globls, fixes>>

Done(from, list) ==
  /\ pass = from /\ at <= Len(list)
  /\ at' = at + 1
  /\ UNCHANGED <<items, pass, cur, labels, globls, fixes>>

Symbol(name, sec, value, bind, type) ==
  [name |-> name, sec |-> sec, value |-> value, bind |-> bind, type |-> type]

LabelSymbol ==
  /\ Done("labels", labels)
  /\ LET l      == labels[at]
         global == l.name \in globls
         type   == IF ~global THEN "NOTYPE" ELSE IF "EXECINSTR" \in secs[l.sec].flags THEN "FUNC" ELSE "OBJECT"
     IN syms' = Append(syms, Symbol(l.name, l.sec, l.off, IF global THEN "GLOBAL" ELSE "LOCAL", type))
  /\ UNCHANGED secs

(* A symbol for each reference that meets no label, again and again. *)
UndefinedSymbolEach ==
  /\ Done("names", fixes)
  /\ syms' = IF fixes[at].name \in {labels[j].name : j \in DOMAIN labels} THEN syms
             ELSE Append(syms, Symbol(fixes[at].name, 0, 0, "GLOBAL", "NOTYPE"))
  /\ UNCHANGED secs

UndefinedSymbol ==
  /\ Done("names", fixes)
  /\ syms' = IF Elf!SymbolFind(syms, fixes[at].name) # 0 THEN syms
             ELSE Append(syms, Symbol(fixes[at].name, 0, 0, "GLOBAL", "NOTYPE"))
  /\ UNCHANGED secs

BuildReloc ==
  /\ Done("relocs", fixes)
  /\ LET f == fixes[at]
     IN secs' = [secs EXCEPT ![f.sec].relas =
                   Append(@, [off |-> f.off, sym |-> Elf!SymbolFind(syms, f.name), type |-> f.type, addend |-> -4])]
  /\ UNCHANGED syms

EncodeNext ==
  \/ Reset
  \/ PlainInstr \/ NamingInstr \/ RecordLabel \/ RecordGlobl \/ ChangeSection \/ EmitRaw \/ SkipDirective
  \/ NextPass("items", items, "labels")
  \/ LabelSymbol \/ NextPass("labels", labels, "names")
  \/ UndefinedSymbol \/ NextPass("names", fixes, "relocs")
  \/ BuildReloc \/ NextPass("relocs", fixes, "encoded")

-----------------------------------------------------------------------------
(* The items asm.c builds, and those txt.c makes of a text that asm.c could *)
(* have built: operands are such as its constructors make, a displacement  *)
(* is an int, and data are bytes.                                          *)
Operations ==
  {"MOV", "MOVSX", "LEA", "PUSH", "POP", "NEG", "IDIV"} \union DOMAIN OpcodeRR \union DOMAIN OpcodeRM
  \union DOMAIN SetByte \union DOMAIN Branch \union DOMAIN Fixed

Made(opnd) ==
  CASE opnd.kind = "REG" -> opnd \in {RegWidth(Registers[n], w) : n \in DOMAIN Registers, w \in {1, 4, 8}}
    [] opnd.kind = "MEM" ->
         /\ \E n \in DOMAIN Registers, w \in {0, 1, 4, 8} :
              opnd = [Mem(Registers[n], opnd.val) EXCEPT !.width = w]
         /\ opnd.val \in Int /\ InRange(opnd.val, 4)
    [] opnd.kind = "IMM" -> opnd = Imm(opnd.val) /\ opnd.val \in Int
    [] OTHER -> opnd \in {Rip(opnd.val), Target(opnd.val), NoOperand}

Encodable(it) ==
  /\ it.kind \in {"INSTR", "LABEL", "GLOBL", "SECTION", "BYTES", "DIRECTIVE"}
  /\ it.kind = "INSTR" =>
       /\ it.op \in Operations
       /\ Made(it.dst) /\ Made(it.src)
       /\ it.op = "MOVSX" => it.src.kind \in {"REG", "MEM"}
       /\ it.op = "LEA" => it.src.kind \in {"MEM", "RIP"}
  /\ it.kind = "BYTES" => it.dst.val \in Seq(0..255)

(* A sequence of such items. *)
EncodableList(its) ==
  /\ Len(its) \in Nat /\ its = [j \in 1..Len(its) |-> its[j]]
  /\ \A j \in 1..Len(its) : Encodable(its[j])

-----------------------------------------------------------------------------
(* Properties.                                                             *)

Encoded == pass = "encoded"

(* What the encoder notes stays inside the sections it wrote: the current  *)
(* section, labels, the four bytes of every reference, and the symbols and *)
(* relocations made of them (enc.c:55, enc.c:79, enc.c:436).               *)
EncodeTypeOK ==
  /\ pass \in {"reset", "items", "labels", "names", "relocs", "encoded"}
  /\ at \in Nat \ {0}
  /\ cur \in 0..Len(secs) /\ (pass = "items" => cur # 0)
  /\ \A s \in DOMAIN secs : \A b \in DOMAIN secs[s].data : secs[s].data[b][1] \in 0..255
  /\ pass # "reset" =>
       /\ \A l \in DOMAIN labels : labels[l].sec \in DOMAIN secs /\ labels[l].off \in 0..Len(secs[labels[l].sec].data)
       /\ \A f \in DOMAIN fixes :
            fixes[f].sec \in DOMAIN secs /\ fixes[f].off \in 0..(Len(secs[fixes[f].sec].data) - 4)
       /\ \A s \in DOMAIN syms : syms[s].sec \in 0..Len(secs)
       /\ \A s \in DOMAIN secs : \A q \in DOMAIN secs[s].relas : secs[s].relas[q].sym \in DOMAIN syms

Object == [secs |-> secs, syms |-> syms]

(* An encoded object is what the linker takes for granted of the one it    *)
(* starts from: no two references want the same bytes, however the list    *)
(* goes back and forth between sections, a section is one for all that     *)
(* name it, and so is a global symbol if no label is there twice, which    *)
(* nothing rejects (link.c:44, rel.c:41).                                  *)
ReadyToLink ==
  Encoded =>
    /\ Rel!FieldsWithin(Object)
    /\ (\A l, m \in DOMAIN labels : labels[l].name = labels[m].name => l = m) =>
         Rel!FreshlyEncoded(Object)

(* The encoder keeps its notes inside the object, at every step, and makes *)
(* an object the linker may start from.                                    *)
ObjectSound == EncodeTypeOK /\ ReadyToLink
=============================================================================
