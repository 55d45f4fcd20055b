--------------------------- MODULE AssemblyProofs ---------------------------
(***************************************************************************)
(* Proofs about the encoder: whatever items a list has, in whatever order, *)
(* what it notes stays inside the object, the object is one the linker may *)
(* start from, a processor that reads it finds the items, every name in    *)
(* them is resolved, and once the fields are filled every reference        *)
(* arrives at its label; and about the text: a string arrives in the       *)
(* object byte for byte.                                                   *)
(*                                                                         *)
(* The first part is about the notes of enc.c (EncoderInv). The second is  *)
(* about one instruction: a processor takes apart what enc.c put together  *)
(* (InstructionRight). The third is about the list: the walk over the      *)
(* items leaves a trace, which the decoder walks again (WalkIs), and which *)
(* every step of the encoder keeps (TraceInv); relocations are behind the  *)
(* bytes it is made of, so it is there in the linked sections too          *)
(* (StillHolding). The last is about strings: the parser undoes what the   *)
(* spelling of a string does to its bytes (UnescapeIs), and takes nothing  *)
(* in front of the closing quote for a comment (CommentIsBehind).          *)
(***************************************************************************)
EXTENDS Assembly, SequenceTheorems, FiniteSetTheorems, TLAPS

EP == INSTANCE ElfObjectProofs

-----------------------------------------------------------------------------
(* The bytes of an instruction.                                            *)

Cells == {<<n>> : n \in 0..255}

(* Opcode bytes written by hand are byte cells. *)
LEMMA OpIsCells ==
  ASSUME NEW bytes \in Seq(0..255)
  PROVE  Op(bytes) \in Seq(Cells) /\ Len(Op(bytes)) = Len(bytes)
<1>1. bytes \in [1..Len(bytes) -> 0..255] /\ Len(bytes) \in Nat /\ DOMAIN bytes = 1..Len(bytes)
  BY LenProperties
<1>2. \A j \in 1..Len(bytes) : Elf!Byte(bytes[j]) \in Cells
  BY <1>1 DEF Cells, Elf!Byte
<1>3. Op(bytes) \in [1..Len(bytes) -> Cells]
  BY <1>1, <1>2 DEF Op
<1> QED
  BY <1>1, <1>3, EP!FunctionIsSeq

(* The n bytes of a number are byte cells, whatever its sign. *)
LEMMA EmitIsCells ==
  ASSUME NEW val \in Int, NEW n \in 1..8
  PROVE  Emit(val, n) \in Seq(Cells) /\ Len(Emit(val, n)) = n
<1>1. ASSUME NEW j \in 1..n
      PROVE  (val \div Rel!Modulus(j - 1)) % ByteBase \in 0..255
  <2>1. j - 1 \in 0..8
    OBVIOUS
  <2>2. Rel!Modulus(j - 1) \in Nat \ {0}
    BY <2>1, EncodeAssumption
  <2>3. PICK m \in Nat \ {0} : m = Rel!Modulus(j - 1)
    BY <2>2
  <2>4. PICK b \in 2..256 : b = ByteBase
    BY EncodeAssumption
  <2>5. (val \div m) % b \in 0..(b - 1)
    OBVIOUS
  <2> QED
    BY <2>3, <2>4, <2>5
<1>2. \A j \in 1..n : Elf!Byte((val \div Rel!Modulus(j - 1)) % ByteBase) \in Cells
  BY <1>1 DEF Cells, Elf!Byte
<1>3. Emit(val, n) \in [1..n -> Cells]
  BY <1>2 DEF Emit
<1> QED
  BY <1>3, EP!FunctionIsSeq

(* Cells after cells are cells. *)
LEMMA Joined ==
  ASSUME NEW s \in Seq(Cells), NEW t \in Seq(Cells)
  PROVE  s \o t \in Seq(Cells)
BY ConcatProperties

(* No bytes are cells. *)
LEMMA NoBytes == << >> \in Seq(Cells)
BY EmptySeq

RegisterNames == {"none"} \union {Registers[n] : n \in DOMAIN Registers}

(* A register number has four bits, the fourth of them for the prefix. *)
LEMMA NumIsNumber ==
  ASSUME NEW reg \in RegisterNames
  PROVE  Num(reg) \in 0..15 /\ RegHigh(reg) \in 0..1 /\ RegLow(reg) \in 0..7
<1>1. DOMAIN Registers = 1..16
  BY DEF Registers
<1>2. Num(reg) \in 0..15
  <2>1. CASE reg = "none"
    BY <2>1 DEF Num
  <2>2. CASE reg # "none"
    <3>1. PICK n \in 1..16 : reg = Registers[n]
      BY <1>1, <2>2 DEF RegisterNames
    <3>2. (CHOOSE m \in DOMAIN Registers : Registers[m] = reg) \in 1..16
      <4> HIDE DEF Registers
      <4> QED
        BY <1>1, <3>1
    <3> QED
      BY <2>2, <3>2 DEF Num
  <2> QED
    BY <2>1, <2>2
<1>3. PICK n \in 0..15 : n = Num(reg)
  BY <1>2
<1>4. n \div 8 \in 0..1 /\ n % 8 \in 0..7
  OBVIOUS
<1> QED
  BY <1>3, <1>4 DEF RegHigh, RegLow

(* One byte. *)
LEMMA OneByte ==
  ASSUME NEW n \in 0..255
  PROVE  Op(<<n>>) \in Seq(Cells)
<1>1. <<n>> \in Seq(0..255)
  OBVIOUS
<1> QED
  BY <1>1, OpIsCells

(* An opcode after the 0F escape is cells. *)
LEMMA TwoBytes == \A n, m \in 0..255 : Op(<<n, m>>) \in Seq(Cells)
<1>1. \A n, m \in 0..255 : <<n, m>> \in Seq(0..255)
  OBVIOUS
<1> QED
  BY <1>1, OpIsCells, Zenon

(* Each prefix the encoder makes is cells. *)
LEMMA PrefixIsCells ==
  /\ \A a, b \in 0..1 : RexW(a, b) \in Seq(Cells)
  /\ \A width : \A a, b \in RegisterNames : Rex(width, a, b) \in Seq(Cells)
  /\ \A a \in RegisterNames : \A low \in BOOLEAN : RexB(a, low) \in Seq(Cells)
<1>1. ASSUME NEW a \in 0..1, NEW b \in 0..1
      PROVE  RexW(a, b) \in Seq(Cells)
  <2>1. 72 + 4 * a + b \in 0..255
    OBVIOUS
  <2> QED
    BY <2>1, OneByte DEF RexW
<1>2. ASSUME NEW width, NEW a \in RegisterNames, NEW b \in RegisterNames
      PROVE  Rex(width, a, b) \in Seq(Cells)
  <2>1. RegHigh(a) \in 0..1 /\ RegHigh(b) \in 0..1
    BY NumIsNumber
  <2> DEFINE bits == (IF width = 8 THEN 8 ELSE 0) + 4 * RegHigh(a) + RegHigh(b)
  <2>2. \h40 + bits \in 0..255
    BY <2>1
  <2>3. Op(<<\h40 + bits>>) \in Seq(Cells)
    BY <2>2, OneByte
  <2>4. Rex(width, a, b) = Op(<<\h40 + bits>>) \/ Rex(width, a, b) = << >>
    BY Zenon DEF Rex
  <2> QED
    BY <2>3, <2>4, NoBytes
<1>3. ASSUME NEW a \in RegisterNames, NEW low \in BOOLEAN
      PROVE  RexB(a, low) \in Seq(Cells)
  <2>1. Op(<<65>>) \in Seq(Cells) /\ Op(<<64>>) \in Seq(Cells)
    BY OneByte
  <2> QED
    BY <2>1, NoBytes, Zenon DEF RexB
<1> QED
  BY <1>1, <1>2, <1>3

(* Each ModRM byte is cells. *)
LEMMA ModIsCells ==
  /\ \A mod \in 0..3 : \A reg, rm \in 0..7 : ModRM(mod, reg, rm) \in Seq(Cells)
  /\ \A reg \in 0..7 : \A rm \in RegisterNames : ModRR(reg, rm) \in Seq(Cells)
<1>1. ASSUME NEW mod \in 0..3, NEW reg \in 0..7, NEW rm \in 0..7
      PROVE  ModRM(mod, reg, rm) \in Seq(Cells)
  <2>1. mod * 64 + reg * 8 + rm \in 0..255
    OBVIOUS
  <2> QED
    BY <2>1, OneByte DEF ModRM
<1>2. 3 \in 0..3
  OBVIOUS
<1> QED
  BY <1>1, <1>2, NumIsNumber DEF ModRR

(* A memory operand is cells, with the SIB byte or without. *)
LEMMA MemIsCells ==
  ASSUME NEW reg \in 0..7, NEW base \in RegisterNames, NEW disp \in Int
  PROVE  EmitMem(reg, base, disp) \in Seq(Cells)
<1> DEFINE mod == IF disp = 0 /\ RegLow(base) # 5 THEN 0 ELSE IF InRange(disp, 1) THEN 1 ELSE 2
           sib == IF RegLow(base) = 4 THEN Op(<<\h24>>) ELSE << >>
           rest == CASE mod = 0 -> << >> [] mod = 1 -> Emit(disp, 1) [] mod = 2 -> Emit(disp, 4)
<1>1. EmitMem(reg, base, disp) = ModRM(mod, reg, RegLow(base)) \o sib \o rest
  BY DEF EmitMem
<1>2. mod \in {0, 1, 2}
  OBVIOUS
<1>3. ModRM(mod, reg, RegLow(base)) \in Seq(Cells)
  <2>1. mod \in 0..3
    BY <1>2
  <2> QED
    BY <2>1, NumIsNumber, ModIsCells
<1>4. sib \in Seq(Cells)
  <2>1. Op(<<\h24>>) \in Seq(Cells)
    BY OneByte
  <2> QED
    BY <2>1, NoBytes, Zenon
<1>5. rest \in Seq(Cells)
  <2>1. Emit(disp, 1) \in Seq(Cells) /\ Emit(disp, 4) \in Seq(Cells)
    BY EmitIsCells
  <2> HIDE DEF mod
  <2> QED
    BY <1>2, <2>1, NoBytes
<1> HIDE DEF mod, sib, rest
<1> QED
  BY <1>1, <1>3, <1>4, <1>5, Joined

(* The forms that instructions come in. *)
LEMMA FormsAreCells ==
  ASSUME NEW a \in RegisterNames, NEW b \in RegisterNames, NEW val \in Int,
         NEW opcode \in Seq(0..255), NEW grp \in 0..7, NEW width
  PROVE  /\ EmitRR(opcode, a, b) \in Seq(Cells) /\ EmitRM(opcode, a, b) \in Seq(Cells)
         /\ EmitGrpImm(grp, val, a) \in Seq(Cells) /\ EmitGrpUnary(grp, a) \in Seq(Cells)
         /\ EmitMovImm(val, a) \in Seq(Cells) /\ EmitMovImm8(val, a) \in Seq(Cells)
         /\ EmitMemForm(opcode, a, b, val, width) \in Seq(Cells)
<1>1. /\ RegHigh(a) \in 0..1 /\ RegHigh(b) \in 0..1 /\ 0 \in 0..1
      /\ RegLow(a) \in 0..7 /\ RegLow(b) \in 0..7
  BY NumIsNumber
<1>2. /\ RexW(RegHigh(a), RegHigh(b)) \in Seq(Cells) /\ RexW(RegHigh(b), RegHigh(a)) \in Seq(Cells)
      /\ RexW(0, RegHigh(a)) \in Seq(Cells)
      /\ RexB(a, TRUE) \in Seq(Cells) /\ Rex(width, a, b) \in Seq(Cells)
  BY <1>1, PrefixIsCells
<1>3. /\ ModRR(RegLow(a), b) \in Seq(Cells) /\ ModRR(RegLow(b), a) \in Seq(Cells)
      /\ ModRR(grp, a) \in Seq(Cells) /\ ModRR(0, a) \in Seq(Cells)
  <2>1. 0 \in 0..7
    OBVIOUS
  <2> QED
    BY <1>1, <2>1, ModIsCells
<1>4. Op(opcode) \in Seq(Cells)
  BY OpIsCells
<1>5. Emit(val, 1) \in Seq(Cells) /\ Emit(val, 4) \in Seq(Cells) /\ Emit(val, 8) \in Seq(Cells)
  <2>1. 1 \in 1..8 /\ 4 \in 1..8 /\ 8 \in 1..8
    OBVIOUS
  <2> QED
    BY <2>1, EmitIsCells
<1>6. /\ Op(<<\h81>>) \in Seq(Cells) /\ Op(<<\hF7>>) \in Seq(Cells) /\ Op(<<\hC7>>) \in Seq(Cells)
      /\ Op(<<\hB8 + RegLow(a)>>) \in Seq(Cells) /\ Op(<<\hB0 + RegLow(a)>>) \in Seq(Cells)
  <2>1. PICK n \in 0..7 : n = RegLow(a)
    BY <1>1
  <2>2. /\ \hB8 + n \in 0..255 /\ \hB0 + n \in 0..255
        /\ \h81 \in 0..255 /\ \hF7 \in 0..255 /\ \hC7 \in 0..255
    OBVIOUS
  <2>3. Op(<<\hB8 + n>>) \in Seq(Cells) /\ Op(<<\hB0 + n>>) \in Seq(Cells)
    BY <2>2, OneByte
  <2>4. Op(<<\h81>>) \in Seq(Cells) /\ Op(<<\hF7>>) \in Seq(Cells) /\ Op(<<\hC7>>) \in Seq(Cells)
    BY <2>2, OneByte
  <2> QED
    BY <2>1, <2>3, <2>4
<1>7. EmitRR(opcode, a, b) \in Seq(Cells) /\ EmitRM(opcode, a, b) \in Seq(Cells)
  BY <1>2, <1>3, <1>4, Joined DEF EmitRR, EmitRM
<1>8. EmitGrpImm(grp, val, a) \in Seq(Cells) /\ EmitGrpUnary(grp, a) \in Seq(Cells)
  BY <1>2, <1>3, <1>5, <1>6, Joined DEF EmitGrpImm, EmitGrpUnary
<1>9. EmitMovImm(val, a) \in Seq(Cells)
  <2>1. /\ Op(<<\hC7>>) \o ModRR(0, a) \o Emit(val, 4) \in Seq(Cells)
        /\ Op(<<\hB8 + RegLow(a)>>) \o Emit(val, 8) \in Seq(Cells)
    BY <1>3, <1>5, <1>6, Joined
  <2>2. (IF InRange(val, 4) THEN Op(<<\hC7>>) \o ModRR(0, a) \o Emit(val, 4)
         ELSE Op(<<\hB8 + RegLow(a)>>) \o Emit(val, 8)) \in Seq(Cells)
    BY <2>1, Zenon
  <2> QED
    BY <1>2, <2>2, Joined DEF EmitMovImm
<1>10. EmitMovImm8(val, a) \in Seq(Cells)
  BY <1>2, <1>5, <1>6, Joined DEF EmitMovImm8
<1>11. EmitMemForm(opcode, a, b, val, width) \in Seq(Cells)
  BY <1>1, <1>2, <1>4, MemIsCells, Joined DEF EmitMemForm
<1> QED
  BY <1>7, <1>8, <1>9, <1>10, <1>11

(* The bytes of a MOVSX are cells. *)
LEMMA MovsxIsCells ==
  ASSUME NEW dst, NEW src, dst.reg \in RegisterNames, src.reg \in RegisterNames,
         src.kind = "REG" \/ src.val \in Int
  PROVE  EmitMovsx(dst, src) \in Seq(Cells)
<1>1. RexW(RegHigh(dst.reg), RegHigh(src.reg)) \in Seq(Cells)
  BY NumIsNumber, PrefixIsCells
<1>2. Op(IF src.width = 1 THEN <<\h0F, \hBE>> ELSE <<\h63>>) \in Seq(Cells)
  <2>1. Op(<<\h63>>) \in Seq(Cells)
    BY OneByte
  <2>2. Op(<<\h0F, \hBE>>) \in Seq(Cells)
    <3>1. \h0F \in 0..255 /\ \hBE \in 0..255
      OBVIOUS
    <3> QED
      BY <3>1, TwoBytes, Zenon
  <2> QED
    BY <2>1, <2>2, Zenon
<1>3. RegLow(dst.reg) \in 0..7
  BY NumIsNumber
<1>4. ModRR(RegLow(dst.reg), src.reg) \in Seq(Cells)
  BY <1>3, ModIsCells
<1>5. src.kind # "REG" => EmitMem(RegLow(dst.reg), src.reg, src.val) \in Seq(Cells)
  BY <1>3, MemIsCells
<1>6. (IF src.kind = "REG" THEN ModRR(RegLow(dst.reg), src.reg)
       ELSE EmitMem(RegLow(dst.reg), src.reg, src.val)) \in Seq(Cells)
  BY <1>4, <1>5, Zenon
<1> QED
  BY <1>1, <1>2, <1>6, Joined DEF EmitMovsx

(* What EmitMov writes, by the kinds of its operands (enc.c:282). *)
LEMMA MovForms ==
  ASSUME NEW dst, NEW src
  PROVE  /\ src.kind = "IMM" /\ dst.width = 1 => EmitMov(dst, src) = EmitMovImm8(src.val, dst.reg)
         /\ src.kind = "IMM" /\ dst.width # 1 => EmitMov(dst, src) = EmitMovImm(src.val, dst.reg)
         /\ src.kind = "MEM" => EmitMov(dst, src) = EmitMemForm(<<\h8B>>, dst.reg, src.reg, src.val, 8)
         /\ src.kind = "REG" /\ dst.kind = "MEM" =>
              EmitMov(dst, src) = EmitMemForm(IF src.width = 1 THEN <<\h88>> ELSE <<\h89>>,
                                              src.reg, dst.reg, dst.val, src.width)
         /\ src.kind = "REG" /\ dst.kind # "MEM" => EmitMov(dst, src) = EmitRR(<<\h89>>, src.reg, dst.reg)
         /\ src.kind \notin {"IMM", "MEM", "REG"} => EmitMov(dst, src) = << >>
BY DEF EmitMov

(* The bytes of a MOV are cells. *)
LEMMA MovIsCells ==
  ASSUME NEW dst, NEW src, dst.reg \in RegisterNames, src.reg \in RegisterNames,
         src.kind \in {"IMM", "MEM"} => src.val \in Int,
         dst.kind = "MEM" => dst.val \in Int
  PROVE  EmitMov(dst, src) \in Seq(Cells)
<1>1. /\ <<\h8B>> \in Seq(0..255) /\ <<\h88>> \in Seq(0..255) /\ <<\h89>> \in Seq(0..255)
      /\ 0 \in 0..7 /\ 0 \in Int
  OBVIOUS
<1>2. CASE src.kind = "IMM"
  <2>1. src.val \in Int
    BY <1>2
  <2>2. EmitMovImm8(src.val, dst.reg) \in Seq(Cells) /\ EmitMovImm(src.val, dst.reg) \in Seq(Cells)
    BY <2>1, <1>1, FormsAreCells
  <2> QED
    BY <1>2, <2>2, MovForms
<1>3. CASE src.kind = "MEM"
  <2>1. src.val \in Int
    BY <1>3
  <2>2. EmitMemForm(<<\h8B>>, dst.reg, src.reg, src.val, 8) \in Seq(Cells)
    BY <1>1, <2>1, FormsAreCells
  <2> QED
    BY <1>3, <2>2, MovForms
<1>4. CASE src.kind = "REG" /\ dst.kind = "MEM"
  <2>1. dst.val \in Int
    BY <1>4
  <2>2. /\ EmitMemForm(<<\h88>>, src.reg, dst.reg, dst.val, src.width) \in Seq(Cells)
        /\ EmitMemForm(<<\h89>>, src.reg, dst.reg, dst.val, src.width) \in Seq(Cells)
    BY <1>1, <2>1, FormsAreCells
  <2>3. EmitMemForm(IF src.width = 1 THEN <<\h88>> ELSE <<\h89>>, src.reg, dst.reg, dst.val, src.width) \in Seq(Cells)
    BY <2>2, Zenon
  <2> QED
    BY <1>4, <2>3, MovForms
<1>5. CASE src.kind = "REG" /\ dst.kind # "MEM"
  <2>1. EmitRR(<<\h89>>, src.reg, dst.reg) \in Seq(Cells)
    BY <1>1, FormsAreCells
  <2> QED
    BY <1>5, <2>1, MovForms
<1>6. CASE src.kind \notin {"IMM", "MEM", "REG"}
  BY <1>6, MovForms, NoBytes
<1> QED
  BY <1>2, <1>3, <1>4, <1>5, <1>6

(* The operations of the opcode tables (enc.h:48). *)
LEMMA OperationSets ==
  /\ DOMAIN OpcodeRR = {"ADD", "SUB", "CMP"} /\ DOMAIN OpcodeRM = {"IMUL", "MOVZB"}
  /\ DOMAIN SetByte = {"SETE", "SETNE", "SETL", "SETLE"}
  /\ DOMAIN Branch = {"JMP", "CALL", "JE", "JNE"} /\ DOMAIN Fixed = {"CQO", "RET", "SYSCALL"}
BY DEF OpcodeRR, OpcodeRM, SetByte, Branch, Fixed

(* The opcodes of the tables are bytes. *)
LEMMA OpcodesAreBytes ==
  /\ \A o \in DOMAIN OpcodeRR : OpcodeRR[o] \in Seq(0..255) /\ GrpOf[o] \in 0..7
  /\ \A o \in DOMAIN OpcodeRM : OpcodeRM[o] \in Seq(0..255)
  /\ \A o \in DOMAIN SetByte : SetByte[o] \in 0..255
  /\ \A o \in DOMAIN Branch : Branch[o] \in Seq(0..255)
  /\ \A o \in DOMAIN Fixed : Fixed[o] \in Seq(0..255)
  /\ \A o \in {"NEG", "IDIV"} : GrpOf[o] \in 0..7
<1>1. /\ OpcodeRR["ADD"] = <<1>> /\ OpcodeRR["SUB"] = <<41>> /\ OpcodeRR["CMP"] = <<57>>
      /\ GrpOf["ADD"] = 0 /\ GrpOf["SUB"] = 5 /\ GrpOf["CMP"] = 7
      /\ GrpOf["NEG"] = 3 /\ GrpOf["IDIV"] = 7
  BY DEF OpcodeRR, GrpOf
<1>2. OpcodeRM["IMUL"] = <<15, 175>> /\ OpcodeRM["MOVZB"] = <<15, 182>>
  BY DEF OpcodeRM
<1>3. SetByte["SETE"] = 148 /\ SetByte["SETNE"] = 149 /\ SetByte["SETL"] = 156 /\ SetByte["SETLE"] = 158
  BY DEF SetByte
<1>4. Branch["JMP"] = <<233>> /\ Branch["CALL"] = <<232>> /\ Branch["JE"] = <<15, 132>> /\ Branch["JNE"] = <<15, 133>>
  BY DEF Branch
<1>5. Fixed["CQO"] = <<72, 153>> /\ Fixed["RET"] = <<195>> /\ Fixed["SYSCALL"] = <<15, 5>>
  BY DEF Fixed
<1>7. /\ <<1>> \in Seq(0..255) /\ <<41>> \in Seq(0..255) /\ <<57>> \in Seq(0..255)
      /\ <<15, 175>> \in Seq(0..255) /\ <<15, 182>> \in Seq(0..255)
  OBVIOUS
<1>8. /\ <<233>> \in Seq(0..255) /\ <<232>> \in Seq(0..255) /\ <<15, 132>> \in Seq(0..255) /\ <<15, 133>> \in Seq(0..255)
      /\ <<72, 153>> \in Seq(0..255) /\ <<195>> \in Seq(0..255) /\ <<15, 5>> \in Seq(0..255)
  OBVIOUS
<1>9. \A o \in DOMAIN OpcodeRR : OpcodeRR[o] \in Seq(0..255) /\ GrpOf[o] \in 0..7
  <2>1. /\ OpcodeRR["ADD"] \in Seq(0..255) /\ OpcodeRR["SUB"] \in Seq(0..255) /\ OpcodeRR["CMP"] \in Seq(0..255)
        /\ GrpOf["ADD"] \in 0..7 /\ GrpOf["SUB"] \in 0..7 /\ GrpOf["CMP"] \in 0..7
    BY <1>1, <1>7
  <2> QED
    BY <2>1, OperationSets
<1>10. \A o \in DOMAIN OpcodeRM : OpcodeRM[o] \in Seq(0..255)
  <2>1. OpcodeRM["IMUL"] \in Seq(0..255) /\ OpcodeRM["MOVZB"] \in Seq(0..255)
    BY <1>2, <1>7
  <2> QED
    BY <2>1, OperationSets
<1>11. \A o \in DOMAIN SetByte : SetByte[o] \in 0..255
  BY <1>3, OperationSets
<1>12. \A o \in DOMAIN Branch : Branch[o] \in Seq(0..255)
  <2>1. /\ Branch["JMP"] \in Seq(0..255) /\ Branch["CALL"] \in Seq(0..255)
        /\ Branch["JE"] \in Seq(0..255) /\ Branch["JNE"] \in Seq(0..255)
    BY <1>4, <1>8
  <2> QED
    BY <2>1, OperationSets
<1>13. \A o \in DOMAIN Fixed : Fixed[o] \in Seq(0..255)
  <2>1. Fixed["CQO"] \in Seq(0..255) /\ Fixed["RET"] \in Seq(0..255) /\ Fixed["SYSCALL"] \in Seq(0..255)
    BY <1>5, <1>8
  <2> QED
    BY <2>1, OperationSets
<1> QED
  BY <1>1, <1>9, <1>10, <1>11, <1>12, <1>13

(* The bytes of each kind of instruction. *)
LEMMA InstrForms ==
  ASSUME NEW ins
  PROVE  /\ ins.op = "MOVSX" => EmitInstr(ins) = EmitMovsx(ins.dst, ins.src)
         /\ ins.op = "MOV" => EmitInstr(ins) = EmitMov(ins.dst, ins.src)
         /\ ins.op \in DOMAIN OpcodeRR /\ ins.src.kind = "IMM" =>
              EmitInstr(ins) = EmitGrpImm(GrpOf[ins.op], ins.src.val, ins.dst.reg)
         /\ ins.op \in DOMAIN OpcodeRR /\ ins.src.kind # "IMM" =>
              EmitInstr(ins) = EmitRR(OpcodeRR[ins.op], ins.src.reg, ins.dst.reg)
         /\ ins.op \in DOMAIN OpcodeRM => EmitInstr(ins) = EmitRM(OpcodeRM[ins.op], ins.src.reg, ins.dst.reg)
<1>1. ins.op = "MOVSX" => EmitInstr(ins) = EmitMovsx(ins.dst, ins.src)
  BY OperationSets DEF EmitInstr
<1>2. ins.op = "MOV" => EmitInstr(ins) = EmitMov(ins.dst, ins.src)
  BY OperationSets DEF EmitInstr
<1>3. /\ ins.op \in DOMAIN OpcodeRR /\ ins.src.kind = "IMM" =>
           EmitInstr(ins) = EmitGrpImm(GrpOf[ins.op], ins.src.val, ins.dst.reg)
      /\ ins.op \in DOMAIN OpcodeRR /\ ins.src.kind # "IMM" =>
           EmitInstr(ins) = EmitRR(OpcodeRR[ins.op], ins.src.reg, ins.dst.reg)
  BY OperationSets DEF EmitInstr
<1>4. ins.op \in DOMAIN OpcodeRM => EmitInstr(ins) = EmitRM(OpcodeRM[ins.op], ins.src.reg, ins.dst.reg)
  BY OperationSets DEF EmitInstr
<1> QED
  BY <1>1, <1>2, <1>3, <1>4

(* What EmitInstr writes for the operations with a form of their own       *)
(* (enc.c:315).                                                            *)
LEMMA MoreInstrForms ==
  ASSUME NEW ins
  PROVE  /\ ins.op = "LEA" /\ Names(ins) =>
              EmitInstr(ins) = RexW(RegHigh(ins.dst.reg), 0) \o Op(<<\h8D>>) \o ModRM(0, RegLow(ins.dst.reg), 5)
         /\ ins.op = "LEA" /\ ~Names(ins) =>
              EmitInstr(ins) = EmitMemForm(<<\h8D>>, ins.dst.reg, ins.src.reg, ins.src.val, 8)
         /\ ins.op \in {"NEG", "IDIV"} => EmitInstr(ins) = EmitGrpUnary(GrpOf[ins.op], ins.dst.reg)
         /\ ins.op \in DOMAIN SetByte =>
              EmitInstr(ins) = RexB(ins.dst.reg, TRUE) \o Op(<<\h0F, SetByte[ins.op]>>) \o ModRR(0, ins.dst.reg)
         /\ ins.op = "PUSH" => EmitInstr(ins) = RexB(ins.dst.reg, FALSE) \o Op(<<\h50 + RegLow(ins.dst.reg)>>)
         /\ ins.op = "POP" => EmitInstr(ins) = RexB(ins.dst.reg, FALSE) \o Op(<<\h58 + RegLow(ins.dst.reg)>>)
         /\ ins.op \in DOMAIN Branch => EmitInstr(ins) = Op(Branch[ins.op])
         /\ ins.op \in DOMAIN Fixed => EmitInstr(ins) = Op(Fixed[ins.op])
<1>1. /\ ins.op = "LEA" /\ Names(ins) =>
           EmitInstr(ins) = RexW(RegHigh(ins.dst.reg), 0) \o Op(<<\h8D>>) \o ModRM(0, RegLow(ins.dst.reg), 5)
      /\ ins.op = "LEA" /\ ~Names(ins) =>
           EmitInstr(ins) = EmitMemForm(<<\h8D>>, ins.dst.reg, ins.src.reg, ins.src.val, 8)
  BY OperationSets DEF EmitInstr
<1>2. /\ ins.op \in {"NEG", "IDIV"} => EmitInstr(ins) = EmitGrpUnary(GrpOf[ins.op], ins.dst.reg)
      /\ ins.op \in DOMAIN SetByte =>
           EmitInstr(ins) = RexB(ins.dst.reg, TRUE) \o Op(<<\h0F, SetByte[ins.op]>>) \o ModRR(0, ins.dst.reg)
  BY OperationSets, ZenonT(30) DEF EmitInstr
<1>3. /\ ins.op = "PUSH" => EmitInstr(ins) = RexB(ins.dst.reg, FALSE) \o Op(<<\h50 + RegLow(ins.dst.reg)>>)
      /\ ins.op = "POP" => EmitInstr(ins) = RexB(ins.dst.reg, FALSE) \o Op(<<\h58 + RegLow(ins.dst.reg)>>)
      /\ ins.op \in DOMAIN Branch => EmitInstr(ins) = Op(Branch[ins.op])
      /\ ins.op \in DOMAIN Fixed => EmitInstr(ins) = Op(Fixed[ins.op])
  BY OperationSets, ZenonT(30) DEF EmitInstr
<1> QED
  BY <1>1, <1>2, <1>3

(* An operand asm.c made names a register or none, and its value is a      *)
(* number where it is one.                                                 *)
LEMMA MadeOperands ==
  ASSUME NEW opnd, Made(opnd)
  PROVE  /\ opnd.reg \in RegisterNames
         /\ opnd.kind \in {"IMM", "MEM"} => opnd.val \in Int
<1>1. CASE opnd.kind = "REG"
  <2>1. PICK n \in DOMAIN Registers, w \in {1, 4, 8} : opnd = RegWidth(Registers[n], w)
    BY <1>1 DEF Made
  <2>2. opnd.reg = Registers[n]
    BY <2>1 DEF RegWidth, Operand
  <2> QED
    BY <1>1, <2>2 DEF RegisterNames
<1>2. CASE opnd.kind = "MEM"
  <2>1. PICK n \in DOMAIN Registers, w \in {0, 1, 4, 8} :
          opnd = [Mem(Registers[n], opnd.val) EXCEPT !.width = w]
    BY <1>2 DEF Made
  <2>2. opnd.reg = Registers[n]
    BY <2>1 DEF Mem, Operand
  <2> QED
    BY <1>2, <2>2 DEF RegisterNames, Made
<1>3. CASE opnd.kind = "IMM"
  <2>1. opnd = Imm(opnd.val) /\ opnd.val \in Int
    BY <1>3 DEF Made
  <2>2. opnd.reg = "none"
    BY <2>1 DEF Imm, Operand
  <2> QED
    BY <2>1, <2>2 DEF RegisterNames
<1>4. CASE opnd.kind \notin {"REG", "MEM", "IMM"}
  <2>1. opnd \in {Rip(opnd.val), Target(opnd.val), NoOperand}
    BY <1>4 DEF Made
  <2>2. opnd.reg = "none"
    BY <2>1 DEF Rip, Target, NoOperand, Operand
  <2> QED
    BY <1>4, <2>2 DEF RegisterNames
<1> QED
  BY <1>1, <1>2, <1>3, <1>4

(* Whatever its operands, an instruction is a sequence of bytes. *)
LEMMA InstrIsCells ==
  ASSUME NEW ins, Encodable(ins), ins.kind = "INSTR"
  PROVE  EmitInstr(ins) \in Seq(Cells)
<1>1. /\ ins.dst.reg \in RegisterNames /\ ins.src.reg \in RegisterNames
      /\ ins.dst.kind \in {"IMM", "MEM"} => ins.dst.val \in Int
      /\ ins.src.kind \in {"IMM", "MEM"} => ins.src.val \in Int
      /\ ins.op = "MOVSX" => ins.src.kind \in {"REG", "MEM"}
      /\ ins.op = "LEA" => ins.src.kind \in {"MEM", "RIP"}
  BY MadeOperands DEF Encodable
<1>2. ins.op \in Operations
  BY DEF Encodable
<1>3. RegLow(ins.dst.reg) \in 0..7 /\ RegHigh(ins.dst.reg) \in 0..1
  BY <1>1, NumIsNumber
<1>4. 0 \in Int /\ 0 \in 0..7 /\ 0 \in 0..3 /\ 5 \in 0..7 /\ 0 \in 0..1 /\ << >> \in Seq(0..255)
  OBVIOUS
<1>5. CASE ins.op = "MOVSX"
  BY <1>1, <1>5, MovsxIsCells, InstrForms
<1>6. CASE ins.op = "MOV"
  BY <1>1, <1>6, MovIsCells, InstrForms
<1>7. CASE ins.op \in DOMAIN OpcodeRR /\ ins.src.kind = "IMM"
  <2>1. ins.src.val \in Int /\ GrpOf[ins.op] \in 0..7
    BY <1>1, <1>7, OpcodesAreBytes
  <2>2. EmitGrpImm(GrpOf[ins.op], ins.src.val, ins.dst.reg) \in Seq(Cells)
    BY <1>1, <1>4, <2>1, FormsAreCells
  <2> QED
    BY <1>7, <2>2, InstrForms
<1>8. CASE ins.op \in DOMAIN OpcodeRR /\ ins.src.kind # "IMM"
  <2>0. OpcodeRR[ins.op] \in Seq(0..255)
    BY <1>8, OpcodesAreBytes
  <2>1. EmitRR(OpcodeRR[ins.op], ins.src.reg, ins.dst.reg) \in Seq(Cells)
    BY <1>1, <1>4, <2>0, FormsAreCells
  <2> QED
    BY <1>8, <2>1, InstrForms
<1>9. CASE ins.op \in DOMAIN OpcodeRM
  <2>1. EmitRM(OpcodeRM[ins.op], ins.src.reg, ins.dst.reg) \in Seq(Cells)
    BY <1>1, <1>4, <1>9, OpcodesAreBytes, FormsAreCells
  <2> QED
    BY <1>9, <2>1, InstrForms
<1>10. CASE ins.op = "LEA" /\ Names(ins)
  <2>1. RexW(RegHigh(ins.dst.reg), 0) \in Seq(Cells)
    BY <1>3, <1>4, PrefixIsCells
  <2>2. Op(<<\h8D>>) \in Seq(Cells)
    BY OneByte
  <2>3. ModRM(0, RegLow(ins.dst.reg), 5) \in Seq(Cells)
    BY <1>3, <1>4, ModIsCells
  <2>4. RexW(RegHigh(ins.dst.reg), 0) \o Op(<<\h8D>>) \o ModRM(0, RegLow(ins.dst.reg), 5) \in Seq(Cells)
    BY <2>1, <2>2, <2>3, Joined
  <2> QED
    BY <1>10, <2>4, MoreInstrForms
<1>11. CASE ins.op = "LEA" /\ ~Names(ins)
  <2>1. ins.src.kind = "MEM"
    BY <1>1, <1>11 DEF Names
  <2>2. <<\h8D>> \in Seq(0..255)
    OBVIOUS
  <2>3. EmitMemForm(<<\h8D>>, ins.dst.reg, ins.src.reg, ins.src.val, 8) \in Seq(Cells)
    BY <1>1, <1>4, <2>1, <2>2, FormsAreCells
  <2> QED
    BY <1>11, <2>3, MoreInstrForms
<1>12. CASE ins.op \in {"NEG", "IDIV"}
  <2>1. GrpOf[ins.op] \in 0..7
    BY <1>12, OpcodesAreBytes
  <2>2. PICK grp \in 0..7 : grp = GrpOf[ins.op]
    BY <2>1
  <2>3. PICK a \in RegisterNames : a = ins.dst.reg
    BY <1>1
  <2>4. EmitGrpUnary(grp, a) \in Seq(Cells)
    BY <1>4, FormsAreCells
  <2>5. EmitGrpUnary(GrpOf[ins.op], ins.dst.reg) \in Seq(Cells)
    BY <2>2, <2>3, <2>4
  <2> QED
    BY <1>12, <2>5, MoreInstrForms
<1>13. CASE ins.op \in DOMAIN SetByte
  <2>1. RexB(ins.dst.reg, TRUE) \in Seq(Cells)
    BY <1>1, PrefixIsCells
  <2>4. Op(<<\h0F, SetByte[ins.op]>>) \in Seq(Cells)
    <3>1. \h0F \in 0..255 /\ SetByte[ins.op] \in 0..255
      BY <1>13, OpcodesAreBytes
    <3> QED
      BY <3>1, TwoBytes, Zenon
  <2>2. ModRR(0, ins.dst.reg) \in Seq(Cells)
    BY <1>1, <1>4, ModIsCells
  <2>3. RexB(ins.dst.reg, TRUE) \o Op(<<\h0F, SetByte[ins.op]>>) \o ModRR(0, ins.dst.reg) \in Seq(Cells)
    BY <2>1, <2>2, <2>4, Joined
  <2> QED
    BY <1>13, <2>3, MoreInstrForms
<1>14. CASE ins.op \in {"PUSH", "POP"}
  <2>1. PICK n \in 0..7 : n = RegLow(ins.dst.reg)
    BY <1>3
  <2>2. \h50 + n \in 0..255 /\ \h58 + n \in 0..255
    OBVIOUS
  <2>3. Op(<<\h50 + n>>) \in Seq(Cells) /\ Op(<<\h58 + n>>) \in Seq(Cells)
    BY <2>2, OneByte
  <2>4. RexB(ins.dst.reg, FALSE) \in Seq(Cells)
    BY <1>1, PrefixIsCells
  <2>5. /\ RexB(ins.dst.reg, FALSE) \o Op(<<\h50 + RegLow(ins.dst.reg)>>) \in Seq(Cells)
        /\ RexB(ins.dst.reg, FALSE) \o Op(<<\h58 + RegLow(ins.dst.reg)>>) \in Seq(Cells)
    BY <2>1, <2>3, <2>4, Joined
  <2> QED
    BY <1>14, <2>5, MoreInstrForms
<1>15. CASE ins.op \in DOMAIN Branch
  BY <1>15, OpcodesAreBytes, OpIsCells, MoreInstrForms
<1>16. CASE ins.op \in DOMAIN Fixed
  BY <1>16, OpcodesAreBytes, OpIsCells, MoreInstrForms
<1> QED
  BY <1>2, <1>5, <1>6, <1>7, <1>8, <1>9, <1>10, <1>11, <1>12, <1>13, <1>14, <1>15, <1>16 DEF Operations

-----------------------------------------------------------------------------
(* Sections.                                                               *)

SectionFields == {"name", "type", "flags", "alloc", "addr", "align", "data", "relas"}

IsSection(sec) ==
  DOMAIN sec = SectionFields /\ sec.addr = 0 /\ sec.data \in Seq(Cells) /\ EP!IsList(sec.relas)

Sectioned(ss) == EP!IsList(ss) /\ \A d \in DOMAIN ss : IsSection(ss[d])

(* What a section was found to be, it stays, with more in it. *)
Grown(ss, tt) ==
  /\ Len(ss) <= Len(tt) /\ DOMAIN ss \subseteq DOMAIN tt
  /\ \A d \in DOMAIN ss : tt[d].name = ss[d].name /\ Len(ss[d].data) <= Len(tt[d].data)

NamesApart(list) == \A a, b \in DOMAIN list : list[a].name = list[b].name => a = b

NoRelocs(ss) == \A d \in DOMAIN ss : ss[d].relas = << >>

(* A section has a length. *)
LEMMA DataLength ==
  ASSUME NEW ss, Sectioned(ss), NEW d \in DOMAIN ss
  PROVE  Len(ss[d].data) \in Nat
BY DEF Sectioned, IsSection

(* Bytes appended to a section leave the rest as it was. *)
LEMMA WriteGrows ==
  ASSUME Sectioned(secs), cur \in DOMAIN secs, NEW bytes \in Seq(Cells), Grow(bytes)
  PROVE  /\ Sectioned(secs') /\ Grown(secs, secs') /\ DOMAIN secs' = DOMAIN secs /\ Len(secs') = Len(secs)
         /\ Len(secs'[cur].data) = Len(secs[cur].data) + Len(bytes)
         /\ \A d \in DOMAIN secs : secs'[d].name = secs[d].name /\ secs'[d].relas = secs[d].relas
<1> DEFINE new == [secs[cur] EXCEPT !.data = secs[cur].data \o bytes]
<1>1. IsSection(secs[cur]) /\ EP!IsList(secs)
  BY DEF Sectioned
<1>2. /\ DOMAIN new = SectionFields /\ new.data = secs[cur].data \o bytes
      /\ new.name = secs[cur].name /\ new.relas = secs[cur].relas /\ new.addr = secs[cur].addr
  BY <1>1 DEF IsSection, SectionFields
<1>3. secs' = [secs EXCEPT ![cur] = new]
  BY DEF Grow
<1> HIDE DEF new
<1>4. secs[cur].data \in Seq(Cells) /\ secs[cur].data \o bytes \in Seq(Cells)
  BY <1>1, Joined DEF IsSection
<1>5. Len(new.data) = Len(secs[cur].data) + Len(bytes) /\ Len(secs[cur].data) \in Nat /\ Len(bytes) \in Nat
  BY <1>2, <1>4, ConcatProperties
<1>6. IsSection(new)
  BY <1>1, <1>2, <1>4 DEF IsSection
<1>7. /\ EP!IsList(secs') /\ Len(secs') = Len(secs) /\ DOMAIN secs' = DOMAIN secs
      /\ secs'[cur] = new /\ \A j \in DOMAIN secs : j # cur => secs'[j] = secs[j]
  <2>1. PICK uu : uu = [secs EXCEPT ![cur] = new]
    OBVIOUS
  <2>2. /\ EP!IsList(uu) /\ Len(uu) = Len(secs) /\ DOMAIN uu = DOMAIN secs
        /\ uu[cur] = new /\ \A j \in DOMAIN secs : j # cur => uu[j] = secs[j]
    BY <1>1, <2>1, EP!ExceptIsList, Zenon
  <2>3. secs' = uu
    BY <1>3, <2>1, Zenon
  <2> QED
    BY <2>2, <2>3
<1>8. Sectioned(secs')
  BY <1>6, <1>7 DEF Sectioned
<1>9. \A d \in DOMAIN secs : secs'[d].name = secs[d].name /\ secs'[d].relas = secs[d].relas
  BY <1>2, <1>7
<1>10. \A d \in DOMAIN secs : Len(secs[d].data) <= Len(secs'[d].data)
  <2> SUFFICES ASSUME NEW d \in DOMAIN secs PROVE Len(secs[d].data) <= Len(secs'[d].data)
    OBVIOUS
  <2>1. CASE d = cur
    BY <1>5, <1>7, <2>1
  <2>2. CASE d # cur
    <3>1. Len(secs[d].data) \in Nat
      BY DataLength
    <3> QED
      BY <1>7, <2>2, <3>1
  <2> QED
    BY <2>1, <2>2
<1>11. Len(secs) \in Nat
  BY <1>1, EP!ListProperties
<1> QED
  BY <1>5, <1>7, <1>8, <1>9, <1>10, <1>11 DEF Grown

(* And so does a relocation. *)
LEMMA RelocGrows ==
  ASSUME Sectioned(secs), NEW c \in DOMAIN secs, NEW rela,
         secs' = [secs EXCEPT ![c].relas = Append(@, rela)]
  PROVE  /\ Sectioned(secs') /\ Grown(secs, secs') /\ Grown(secs', secs) /\ DOMAIN secs' = DOMAIN secs /\ Len(secs') = Len(secs)
         /\ secs'[c].relas = Append(secs[c].relas, rela)
         /\ \A d \in DOMAIN secs : secs'[d].name = secs[d].name /\ secs'[d].data = secs[d].data
         /\ \A d \in DOMAIN secs : d # c => secs'[d].relas = secs[d].relas
<1> DEFINE new == [secs[c] EXCEPT !.relas = Append(secs[c].relas, rela)]
<1>1. IsSection(secs[c]) /\ EP!IsList(secs)
  BY DEF Sectioned
<1>2. /\ DOMAIN new = SectionFields /\ new.relas = Append(secs[c].relas, rela)
      /\ new.name = secs[c].name /\ new.data = secs[c].data /\ new.addr = secs[c].addr
  BY <1>1 DEF IsSection, SectionFields
<1>3. secs' = [secs EXCEPT ![c] = new]
  OBVIOUS
<1> HIDE DEF new
<1>4. EP!IsList(secs[c].relas) /\ EP!IsList(Append(secs[c].relas, rela))
  BY <1>1, EP!AppendIsList DEF IsSection
<1>6. IsSection(new)
  BY <1>1, <1>2, <1>4 DEF IsSection
<1>7. /\ EP!IsList(secs') /\ Len(secs') = Len(secs) /\ DOMAIN secs' = DOMAIN secs
      /\ secs'[c] = new /\ \A j \in DOMAIN secs : j # c => secs'[j] = secs[j]
  <2>1. PICK uu : uu = [secs EXCEPT ![c] = new]
    OBVIOUS
  <2>2. /\ EP!IsList(uu) /\ Len(uu) = Len(secs) /\ DOMAIN uu = DOMAIN secs
        /\ uu[c] = new /\ \A j \in DOMAIN secs : j # c => uu[j] = secs[j]
    BY <1>1, <2>1, EP!ExceptIsList, Zenon
  <2>3. secs' = uu
    BY <1>3, <2>1, Zenon
  <2> QED
    BY <2>2, <2>3
<1>8. Sectioned(secs')
  BY <1>6, <1>7 DEF Sectioned
<1>9. \A d \in DOMAIN secs : secs'[d].name = secs[d].name /\ secs'[d].data = secs[d].data
  BY <1>2, <1>7
<1>10. \A d \in DOMAIN secs : Len(secs[d].data) \in Nat
  BY DataLength
<1>11. Len(secs) \in Nat
  BY <1>1, EP!ListProperties
<1>12. Grown(secs, secs') /\ Grown(secs', secs)
  BY <1>7, <1>9, <1>10, <1>11 DEF Grown
<1> QED
  BY <1>2, <1>7, <1>8, <1>9, <1>12

(* The first of a set is the same in every instance of the object model. *)
LEMMA SameFirst == \A S : Elf!First(S) = EP!First(S)
BY DEF Elf!First, EP!First, Elf!Min, EP!Min

(* What is found by its name has the name, and it is found if it is there. *)
LEMMA NameFound ==
  ASSUME NEW list, EP!IsList(list), NEW name
  PROVE  LET found == Elf!First({j \in DOMAIN list : list[j].name = name})
         IN /\ found # 0 => found \in DOMAIN list /\ list[found].name = name
            /\ \A j \in DOMAIN list : list[j].name = name => found # 0
<1> DEFINE hits == {j \in DOMAIN list : list[j].name = name}
<1>1. DOMAIN list = 1..Len(list) /\ Len(list) \in Nat
  BY EP!ListProperties
<1>2. hits \in SUBSET (Nat \ {0})
  BY <1>1
<1>3. /\ hits = {} => Elf!First(hits) = 0
      /\ hits # {} => Elf!First(hits) \in hits
  <2> HIDE DEF hits
  <2> QED
    BY <1>2, SameFirst, EP!FirstIsLeast
<1>4. CASE hits = {}
  BY <1>3, <1>4, Zenon
<1>5. CASE hits # {}
  <2>1. Elf!First(hits) \in hits
    BY <1>3, <1>5
  <2>2. Elf!First(hits) # 0
    BY <1>2, <2>1
  <2> QED
    BY <2>1, <2>2, Zenon
<1> QED
  BY <1>4, <1>5

(* SectionFind gives a section there is, if one has the name. *)
LEMMA SectionFound ==
  ASSUME NEW list, EP!IsList(list), NEW name
  PROVE  /\ Elf!SectionFind(list, name) # 0 => Elf!SectionFind(list, name) \in DOMAIN list
         /\ \A j \in DOMAIN list : list[j].name = name => Elf!SectionFind(list, name) # 0
BY NameFound, Zenon DEF Elf!SectionFind

(* SymbolFind gives a symbol of the name, if one has it. *)
LEMMA SymbolFound ==
  ASSUME NEW list, EP!IsList(list), NEW name
  PROVE  /\ Elf!SymbolFind(list, name) # 0 =>
              Elf!SymbolFind(list, name) \in DOMAIN list /\ list[Elf!SymbolFind(list, name)].name = name
         /\ \A j \in DOMAIN list : list[j].name = name => Elf!SymbolFind(list, name) # 0
BY NameFound, Zenon DEF Elf!SymbolFind

(* A section is made once for its name. *)
LEMMA SelectGrows ==
  ASSUME NEW ss, Sectioned(ss), NEW name, NEW type, NEW flags,
         NEW tt, tt = WithSection(ss, name, type, flags)
  PROVE  /\ Sectioned(tt) /\ Grown(ss, tt)
         /\ NamesApart(ss) => NamesApart(tt)
         /\ NoRelocs(ss) => NoRelocs(tt)
         /\ Elf!SectionFind(tt, name) \in DOMAIN tt
<1> DEFINE new == SectionAdd(name, type, flags)
<1>1. EP!IsList(ss) /\ Len(ss) \in Nat /\ DOMAIN ss = 1..Len(ss)
  BY EP!ListProperties DEF Sectioned
<1>2. \A d \in DOMAIN ss : Len(ss[d].data) \in Nat
  BY DataLength
<1>3. CASE Elf!SectionFind(ss, name) # 0
  <2>1. tt = ss
    BY <1>3 DEF WithSection
  <2>2. Grown(ss, ss)
    BY <1>1, <1>2 DEF Grown
  <2>3. Elf!SectionFind(ss, name) \in DOMAIN ss
    BY <1>1, <1>3, SectionFound
  <2> QED
    BY <2>1, <2>2, <2>3
<1>4. CASE Elf!SectionFind(ss, name) = 0
  <2>1. tt = Append(ss, new)
    BY <1>4 DEF WithSection
  <2>2. /\ EP!IsList(tt) /\ Len(tt) = Len(ss) + 1 /\ DOMAIN tt = (DOMAIN ss) \union {Len(tt)}
        /\ tt[Len(tt)] = new
        /\ \A j \in DOMAIN ss : tt[j] = ss[j]
    <3>1. PICK uu : uu = Append(ss, new)
      OBVIOUS
    <3>2. /\ EP!IsList(uu) /\ Len(uu) = Len(ss) + 1 /\ DOMAIN uu = (DOMAIN ss) \union {Len(uu)}
          /\ uu[Len(uu)] = new
          /\ \A j \in DOMAIN ss : uu[j] = ss[j]
      <4> HIDE DEF new
      <4>1. EP!IsList(ss)
        BY <1>1
      <4> QED
        BY <3>1, <4>1, EP!AppendIsList, SMT
    <3>3. tt = uu
      BY <2>1, <3>1, Zenon
    <3> QED
      BY <3>2, <3>3
  <2>3. DOMAIN new = SectionFields /\ new.addr = 0 /\ new.data = << >> /\ new.relas = << >> /\ new.name = name
    BY DEF SectionAdd, SectionFields
  <2> HIDE DEF new
  <2>4. IsSection(new)
    BY <2>3, NoBytes, EP!EmptyIsList DEF IsSection
  <2>5. Sectioned(tt)
    BY <2>2, <2>4 DEF Sectioned
  <2>6. Grown(ss, tt)
    BY <1>1, <1>2, <2>2 DEF Grown
  <2>7. \A j \in DOMAIN ss : ss[j].name # name
    BY <1>1, <1>4, SectionFound
  <2>8. NamesApart(ss) => NamesApart(tt)
    BY <2>2, <2>3, <2>7 DEF NamesApart
  <2>9. NoRelocs(ss) => NoRelocs(tt)
    BY <2>2, <2>3 DEF NoRelocs
  <2>10. Elf!SectionFind(tt, name) \in DOMAIN tt
    <3>1. Len(tt) \in DOMAIN tt /\ tt[Len(tt)].name = name
      BY <2>2, <2>3
    <3> QED
      BY <2>2, <3>1, SectionFound, Zenon
  <2> QED
    BY <2>5, <2>6, <2>8, <2>9, <2>10
<1> QED
  BY <1>3, <1>4

-----------------------------------------------------------------------------
(* The inductive invariant.                                                *)

LabelsInside(ls, ss) ==
  /\ EP!IsList(ls)
  /\ \A l \in DOMAIN ls : ls[l].sec \in DOMAIN ss /\ ls[l].off \in 0..Len(ss[ls[l].sec].data)

(* References are met in the order of their fields in each section. *)
FixesInside(fs, ss) ==
  /\ EP!IsList(fs)
  /\ \A f \in DOMAIN fs :
       /\ fs[f].type \in Rel!PcRelative /\ fs[f].sec \in DOMAIN ss
       /\ fs[f].off \in Nat /\ fs[f].off + 4 <= Len(ss[fs[f].sec].data)
  /\ \A f, g \in DOMAIN fs : f < g /\ fs[f].sec = fs[g].sec => fs[f].off + 4 <= fs[g].off

SymbolsInside(ys, ss) == EP!IsList(ys) /\ \A y \in DOMAIN ys : ys[y].sec \in 0..Len(ss)

RelocsIn(sec, ys) ==
  /\ \A q \in DOMAIN sec.relas :
       /\ sec.relas[q].sym \in DOMAIN ys /\ sec.relas[q].type \in Rel!PcRelative
       /\ sec.relas[q].off \in Nat /\ sec.relas[q].off + 4 <= Len(sec.data)
  /\ \A q, x \in DOMAIN sec.relas : q < x => sec.relas[q].off + 4 <= sec.relas[x].off

RelocsInside(ss, ys) == \A d \in DOMAIN ss : RelocsIn(ss[d], ys)

Inside ==
  /\ NamesApart(secs)
  /\ LabelsInside(labels, secs) /\ FixesInside(fixes, secs)
  /\ SymbolsInside(syms, secs) /\ RelocsInside(secs, syms)

Passes == {"reset", "items", "labels", "names", "relocs", "encoded"}

Walking == at \in Nat \ {0} /\ cur \in 0..Len(secs) /\ Sectioned(secs)

Writing == cur # 0 /\ syms = << >>

(* The symbols so far are those of the labels so far. *)
LabelsMade ==
  /\ Len(syms) = at - 1 /\ Len(syms) <= Len(labels)
  /\ \A y \in DOMAIN syms : y \in DOMAIN labels /\ syms[y].name = labels[y].name

HasSymbol(ys, name) == \E y \in DOMAIN ys : ys[y].name = name

NamesMade == \A f \in DOMAIN fixes : f < at => HasSymbol(syms, fixes[f].name)

(* The relocations so far are those of the references so far. *)
RelocsMade ==
  /\ \A f \in DOMAIN fixes : HasSymbol(syms, fixes[f].name)
  /\ \A d \in DOMAIN secs : \A q \in DOMAIN secs[d].relas :
       \E f \in DOMAIN fixes : f < at /\ fixes[f].sec = d /\ fixes[f].off = secs[d].relas[q].off

EncoderInv ==
  /\ pass \in Passes /\ Walking
  /\ pass # "reset" => Inside
  /\ pass = "items" => Writing
  /\ pass \in {"items", "labels", "names"} => NoRelocs(secs)
  /\ pass = "labels" => LabelsMade
  /\ pass \in {"names", "relocs", "encoded"} => (NamesApart(labels) => NamesApart(syms))
  /\ pass = "names" => NamesMade
  /\ pass = "relocs" => RelocsMade

(* Notes that are inside the sections are inside when these have grown.    *)
LEMMA GrownKeeps ==
  ASSUME NEW ss, NEW tt, Sectioned(ss), Sectioned(tt), Grown(ss, tt)
  PROVE  /\ \A ls : LabelsInside(ls, ss) => LabelsInside(ls, tt)
         /\ \A fs : FixesInside(fs, ss) => FixesInside(fs, tt)
         /\ \A ys : SymbolsInside(ys, ss) => SymbolsInside(ys, tt)
<1>1. \A d \in DOMAIN ss : /\ Len(ss[d].data) \in Nat /\ d \in DOMAIN tt /\ Len(tt[d].data) \in Nat
                           /\ Len(ss[d].data) <= Len(tt[d].data)
  BY DataLength DEF Grown
<1>2. Len(ss) \in Nat /\ Len(tt) \in Nat /\ Len(ss) <= Len(tt)
  BY EP!ListProperties DEF Sectioned, Grown
<1>3. ASSUME NEW ls, LabelsInside(ls, ss) PROVE LabelsInside(ls, tt)
  BY <1>1, <1>3 DEF LabelsInside
<1>4. ASSUME NEW fs, FixesInside(fs, ss) PROVE FixesInside(fs, tt)
  <2>1. ASSUME NEW f \in DOMAIN fs
        PROVE  /\ fs[f].sec \in DOMAIN tt
               /\ fs[f].off \in Nat /\ fs[f].off + 4 <= Len(tt[fs[f].sec].data)
    <3>1. fs[f].sec \in DOMAIN ss /\ fs[f].off \in Nat /\ fs[f].off + 4 <= Len(ss[fs[f].sec].data)
      BY <1>4 DEF FixesInside
    <3>2. /\ Len(ss[fs[f].sec].data) \in Nat /\ fs[f].sec \in DOMAIN tt /\ Len(tt[fs[f].sec].data) \in Nat
          /\ Len(ss[fs[f].sec].data) <= Len(tt[fs[f].sec].data)
      BY <1>1, <3>1
    <3> QED
      BY <3>1, <3>2
  <2> QED
    BY <1>4, <2>1 DEF FixesInside
<1>5. ASSUME NEW ys, SymbolsInside(ys, ss) PROVE SymbolsInside(ys, tt)
  BY <1>2, <1>5 DEF SymbolsInside
<1> QED
  BY <1>3, <1>4, <1>5

(* Sections without relocations have them all inside. *)
LEMMA NoRelocsInside ==
  ASSUME NEW ss, NoRelocs(ss), NEW ys
  PROVE  RelocsInside(ss, ys)
<1>1. \A d \in DOMAIN ss : DOMAIN ss[d].relas = {}
  BY EP!EmptyIsList DEF NoRelocs
<1> QED
  BY <1>1 DEF RelocsInside, RelocsIn

(* Where nothing is noted, nothing is noted outside. *)
LEMMA NoNotesInside ==
  ASSUME NEW ss
  PROVE  LabelsInside(<< >>, ss) /\ FixesInside(<< >>, ss) /\ SymbolsInside(<< >>, ss)
BY EP!EmptyIsList DEF LabelsInside, FixesInside, SymbolsInside

(* What every step of the walk over the items does. *)
LEMMA ItemStep ==
  ASSUME EncoderInv, pass' = "items", at' \in Nat \ {0}, syms' = << >>,
         Sectioned(secs'), NamesApart(secs'), NoRelocs(secs'), cur' \in DOMAIN secs',
         LabelsInside(labels', secs'), FixesInside(fixes', secs')
  PROVE  EncoderInv'
<1>1. cur' \in 0..Len(secs') /\ cur' # 0
  <2>1. Len(secs') \in Nat /\ DOMAIN secs' = 1..Len(secs')
    BY EP!ListProperties DEF Sectioned
  <2> QED
    BY <2>1
<1>2. Walking' /\ Writing'
  BY <1>1 DEF Walking, Writing
<1>3. Inside'
  BY NoRelocsInside, NoNotesInside DEF Inside
<1> QED
  BY <1>2, <1>3 DEF EncoderInv, Passes

(* The item the walk is at. *)
LEMMA ItemHere ==
  ASSUME EncoderInv, EncodableList(items), NEW kind, AtItem(kind)
  PROVE  /\ Encodable(item) /\ item.kind = kind
         /\ at' \in Nat \ {0} /\ pass' = "items" /\ syms' = << >>
         /\ cur \in DOMAIN secs /\ Sectioned(secs) /\ NoRelocs(secs)
         /\ NamesApart(secs) /\ LabelsInside(labels, secs) /\ FixesInside(fixes, secs)
<1>1. at \in 1..Len(items)
  BY DEF EncoderInv, Walking, AtItem, EncodableList
<1>2. Encodable(item) /\ item.kind = kind
  BY <1>1 DEF EncodableList, AtItem, item
<1>3. at' \in Nat \ {0} /\ pass = "items" /\ pass' = "items" /\ syms' = << >>
  BY DEF EncoderInv, Walking, Writing, AtItem
<1>4. Sectioned(secs) /\ NoRelocs(secs) /\ Inside
  BY <1>3 DEF EncoderInv, Walking
<1>5. cur \in DOMAIN secs
  <2>1. Len(secs) \in Nat /\ DOMAIN secs = 1..Len(secs)
    BY <1>4, EP!ListProperties DEF Sectioned
  <2>2. cur \in 0..Len(secs) /\ cur # 0
    BY <1>3 DEF EncoderInv, Walking, Writing
  <2> QED
    BY <2>1, <2>2
<1> QED
  BY <1>2, <1>3, <1>4, <1>5 DEF Inside

(* Writing bytes moves no note. *)
LEMMA WriteStep ==
  ASSUME Sectioned(secs), cur \in DOMAIN secs, NoRelocs(secs), NamesApart(secs),
         NEW bytes \in Seq(Cells), Grow(bytes)
  PROVE  /\ Sectioned(secs') /\ Grown(secs, secs') /\ NoRelocs(secs') /\ NamesApart(secs')
         /\ DOMAIN secs' = DOMAIN secs
         /\ Len(secs'[cur].data) = Len(secs[cur].data) + Len(bytes)
BY WriteGrows DEF NoRelocs, NamesApart

(* An instruction without a name keeps the invariant. *)
LEMMA PlainInstrKeeps ==
  ASSUME EncoderInv, EncodableList(items), PlainInstr
  PROVE  EncoderInv'
<1>1. AtItem("INSTR") /\ Grow(EmitInstr(item)) /\ UNCHANGED <<cur, labels, globls, fixes>>
  BY DEF PlainInstr
<1>2. EmitInstr(item) \in Seq(Cells)
  BY <1>1, ItemHere, InstrIsCells
<1>3. /\ Sectioned(secs') /\ Grown(secs, secs') /\ NoRelocs(secs') /\ NamesApart(secs')
      /\ DOMAIN secs' = DOMAIN secs
  BY <1>1, <1>2, ItemHere, WriteStep
<1>4. LabelsInside(labels', secs') /\ FixesInside(fixes', secs')
  BY <1>1, <1>3, ItemHere, GrownKeeps
<1>5. cur' \in DOMAIN secs' /\ pass' = "items" /\ at' \in Nat \ {0} /\ syms' = << >>
  BY <1>1, <1>3, ItemHere
<1> QED
  BY <1>3, <1>4, <1>5, ItemStep

(* So do data. *)
LEMMA EmitRawKeeps ==
  ASSUME EncoderInv, EncodableList(items), EmitRaw
  PROVE  EncoderInv'
<1>1. AtItem("BYTES") /\ Grow(Op(item.dst.val)) /\ UNCHANGED <<cur, labels, globls, fixes>>
  BY DEF EmitRaw
<1>2. Op(item.dst.val) \in Seq(Cells)
  <2>1. item.dst.val \in Seq(0..255)
    BY <1>1, ItemHere DEF Encodable
  <2> QED
    BY <2>1, OpIsCells
<1>3. /\ Sectioned(secs') /\ Grown(secs, secs') /\ NoRelocs(secs') /\ NamesApart(secs')
      /\ DOMAIN secs' = DOMAIN secs
  BY <1>1, <1>2, ItemHere, WriteStep
<1>4. LabelsInside(labels', secs') /\ FixesInside(fixes', secs')
  BY <1>1, <1>3, ItemHere, GrownKeeps
<1>5. cur' \in DOMAIN secs' /\ pass' = "items" /\ at' \in Nat \ {0} /\ syms' = << >>
  BY <1>1, <1>3, ItemHere
<1> QED
  BY <1>3, <1>4, <1>5, ItemStep

(* The field of a reference is the last four bytes written, after those of *)
(* every reference met before in the section.                              *)
LEMMA NamingInstrKeeps ==
  ASSUME EncoderInv, EncodableList(items), NamingInstr
  PROVE  EncoderInv'
<1> DEFINE fix == [sec |-> cur, off |-> Room + Len(EmitInstr(item)), name |-> NameIn(item),
                   type |-> IF item.op = "CALL" THEN "PLT32" ELSE "PC32"]
<1>1. /\ AtItem("INSTR") /\ Grow(EmitInstr(item) \o Emit(0, 4)) /\ UNCHANGED <<cur, labels, globls>>
      /\ fixes' = Append(fixes, fix)
  BY DEF NamingInstr
<1>2. EmitInstr(item) \in Seq(Cells)
  BY <1>1, ItemHere, InstrIsCells
<1>3. /\ EmitInstr(item) \o Emit(0, 4) \in Seq(Cells)
      /\ Len(EmitInstr(item) \o Emit(0, 4)) = Len(EmitInstr(item)) + 4
      /\ Len(EmitInstr(item)) \in Nat
  <2>1. 0 \in Int /\ 4 \in 1..8
    OBVIOUS
  <2>2. Emit(0, 4) \in Seq(Cells) /\ Len(Emit(0, 4)) = 4
    BY <2>1, EmitIsCells
  <2>3. Len(EmitInstr(item)) \in Nat
    BY <1>2, LenProperties
  <2>4. /\ EmitInstr(item) \o Emit(0, 4) \in Seq(Cells)
        /\ Len(EmitInstr(item) \o Emit(0, 4)) = Len(EmitInstr(item)) + Len(Emit(0, 4))
    BY <1>2, <2>2, ConcatProperties
  <2> QED
    BY <2>2, <2>3, <2>4
<1>4. /\ Sectioned(secs') /\ Grown(secs, secs') /\ NoRelocs(secs') /\ NamesApart(secs')
      /\ DOMAIN secs' = DOMAIN secs
      /\ Len(secs'[cur].data) = Len(secs[cur].data) + Len(EmitInstr(item)) + 4
  <2>1. Len(secs[cur].data) \in Nat
    BY <1>1, ItemHere, DataLength
  <2>2. PICK bytes \in Seq(Cells) : /\ bytes = EmitInstr(item) \o Emit(0, 4)
                                    /\ Len(bytes) = Len(EmitInstr(item)) + 4
    BY <1>3
  <2>3. Grow(bytes)
    BY <1>1, <2>2
  <2>4. /\ Sectioned(secs) /\ cur \in DOMAIN secs /\ NoRelocs(secs) /\ NamesApart(secs)
    BY <1>1, ItemHere
  <2>5. /\ Sectioned(secs') /\ Grown(secs, secs') /\ NoRelocs(secs') /\ NamesApart(secs')
        /\ DOMAIN secs' = DOMAIN secs
        /\ Len(secs'[cur].data) = Len(secs[cur].data) + Len(bytes)
    BY <2>3, <2>4, WriteStep
  <2>6. Len(bytes) = Len(EmitInstr(item)) + 4 /\ Len(EmitInstr(item)) \in Nat
    BY <1>3, <2>2
  <2>7. Len(secs'[cur].data) = Len(secs[cur].data) + Len(EmitInstr(item)) + 4
    <3>1. PICK room \in Nat, len \in Nat : room = Len(secs[cur].data) /\ len = Len(EmitInstr(item))
      BY <2>1, <2>6
    <3>2. Len(bytes) = len + 4
      BY <2>6, <3>1
    <3>3. Len(secs'[cur].data) = room + (len + 4)
      BY <2>5, <3>1, <3>2, Zenon
    <3>4. room + (len + 4) = room + len + 4
      OBVIOUS
    <3> QED
      BY <3>1, <3>3, <3>4, Zenon
  <2> QED
    BY <2>5, <2>7
<1>5. LabelsInside(labels', secs') /\ FixesInside(fixes, secs')
  BY <1>1, <1>4, ItemHere, GrownKeeps
<1>6. /\ fix.sec = cur /\ fix.off = Len(secs[cur].data) + Len(EmitInstr(item)) /\ fix.type \in Rel!PcRelative
      /\ Len(secs[cur].data) \in Nat
  <2>0. Sectioned(secs) /\ cur \in DOMAIN secs
    BY <1>1, ItemHere
  <2>1. Len(secs[cur].data) \in Nat
    BY <2>0, DataLength
  <2> QED
    BY <2>1 DEF Room, Rel!PcRelative
<1>7. \A f \in DOMAIN fixes : fixes[f].sec = cur => fixes[f].off + 4 <= fix.off /\ fixes[f].off \in Nat
  BY <1>1, <1>3, <1>6, ItemHere DEF FixesInside
<1> HIDE DEF fix
<1>8. FixesInside(fixes', secs')
  <2>1. EP!IsList(fixes)
    BY <1>5 DEF FixesInside
  <2>2. /\ EP!IsList(fixes') /\ Len(fixes') = Len(fixes) + 1 /\ DOMAIN fixes' = (DOMAIN fixes) \union {Len(fixes')}
        /\ fixes'[Len(fixes')] = fix
        /\ \A j \in DOMAIN fixes : fixes'[j] = fixes[j]
    BY <1>1, <2>1, EP!AppendIsList, SMT
  <2>3. Len(fixes) \in Nat /\ DOMAIN fixes = 1..Len(fixes)
    BY <2>1, EP!ListProperties
  <2>4. /\ fix.sec \in DOMAIN secs' /\ fix.off \in Nat /\ fix.off + 4 <= Len(secs'[fix.sec].data)
    BY <1>1, <1>3, <1>4, <1>6, ItemHere
  <2>5. ASSUME NEW f \in DOMAIN fixes'
        PROVE  /\ fixes'[f].type \in Rel!PcRelative /\ fixes'[f].sec \in DOMAIN secs'
               /\ fixes'[f].off \in Nat /\ fixes'[f].off + 4 <= Len(secs'[fixes'[f].sec].data)
    BY <1>5, <1>6, <2>2, <2>4 DEF FixesInside
  <2>6. ASSUME NEW f \in DOMAIN fixes', NEW g \in DOMAIN fixes', f < g, fixes'[f].sec = fixes'[g].sec
        PROVE  fixes'[f].off + 4 <= fixes'[g].off
    <3>1. f \in DOMAIN fixes
      BY <2>2, <2>3, <2>6
    <3>2. CASE g \in DOMAIN fixes
      BY <1>5, <2>2, <2>6, <3>1, <3>2 DEF FixesInside
    <3>3. CASE g = Len(fixes')
      BY <1>6, <1>7, <2>2, <2>6, <3>1, <3>3
    <3> QED
      BY <2>2, <3>2, <3>3
  <2> QED
    BY <2>2, <2>5, <2>6 DEF FixesInside
<1>9. cur' \in DOMAIN secs' /\ pass' = "items" /\ at' \in Nat \ {0} /\ syms' = << >>
  BY <1>1, <1>4, ItemHere
<1> QED
  BY <1>4, <1>5, <1>8, <1>9, ItemStep

(* A label stands at the end of the section so far. *)
LEMMA RecordLabelKeeps ==
  ASSUME EncoderInv, EncodableList(items), RecordLabel
  PROVE  EncoderInv'
<1> DEFINE label == [name |-> item.dst.val, sec |-> cur, off |-> Room]
<1>1. /\ AtItem("LABEL") /\ UNCHANGED <<cur, secs, globls, fixes>>
      /\ labels' = Append(labels, label)
  BY DEF RecordLabel
<1>2. label.sec = cur /\ label.off = Len(secs[cur].data)
  BY DEF Room
<1> HIDE DEF label
<1>3. Len(secs[cur].data) \in Nat
  <2>1. Sectioned(secs) /\ cur \in DOMAIN secs
    BY <1>1, ItemHere, Zenon
  <2> QED
    BY <2>1, DataLength, Zenon
<1>4. LabelsInside(labels', secs')
  <2>1. EP!IsList(labels)
    BY <1>1, ItemHere DEF LabelsInside
  <2>2. /\ EP!IsList(labels') /\ DOMAIN labels' = (DOMAIN labels) \union {Len(labels')}
        /\ labels'[Len(labels')] = label
        /\ \A j \in DOMAIN labels : labels'[j] = labels[j]
    BY <1>1, <2>1, EP!AppendIsList, SMT
  <2>0. cur \in DOMAIN secs
    BY <1>1, ItemHere, Zenon
  <2>3. label.sec \in DOMAIN secs /\ label.off \in 0..Len(secs[label.sec].data)
    BY <1>2, <1>3, <2>0
  <2>4. \A l \in DOMAIN labels : labels[l].sec \in DOMAIN secs /\ labels[l].off \in 0..Len(secs[labels[l].sec].data)
    BY <1>1, ItemHere DEF LabelsInside
  <2>5. secs' = secs
    BY <1>1
  <2> QED
    BY <2>2, <2>3, <2>4, <2>5 DEF LabelsInside
<1>5. /\ Sectioned(secs') /\ NamesApart(secs') /\ NoRelocs(secs') /\ cur' \in DOMAIN secs'
      /\ FixesInside(fixes', secs') /\ pass' = "items" /\ at' \in Nat \ {0} /\ syms' = << >>
  BY <1>1, ItemHere, Zenon
<1> QED
  BY <1>4, <1>5, ItemStep

(* A .globl and a skipped directive write nothing. *)
LEMMA NothingWrittenKeeps ==
  ASSUME EncoderInv, EncodableList(items), RecordGlobl \/ SkipDirective
  PROVE  EncoderInv'
<1>1. /\ AtItem("GLOBL") \/ AtItem("DIRECTIVE")
      /\ UNCHANGED <<cur, secs, labels, fixes>>
  BY DEF RecordGlobl, SkipDirective
<1>2. /\ Sectioned(secs') /\ NamesApart(secs') /\ NoRelocs(secs') /\ cur' \in DOMAIN secs'
      /\ LabelsInside(labels', secs') /\ FixesInside(fixes', secs')
      /\ pass' = "items" /\ at' \in Nat \ {0} /\ syms' = << >>
  BY <1>1, ItemHere
<1> QED
  BY <1>2, ItemStep

(* A section selected anew starts empty. *)
LEMMA ChangeSectionKeeps ==
  ASSUME EncoderInv, EncodableList(items), ChangeSection
  PROVE  EncoderInv'
<1>1. /\ AtItem("SECTION") /\ UNCHANGED <<labels, globls, fixes>>
      /\ SelectSection(secs, item.dst.val[1], item.op, item.src.val)
  BY DEF ChangeSection
<1>2. /\ secs' = WithSection(secs, item.dst.val[1], item.op, item.src.val)
      /\ cur' = Elf!SectionFind(secs', item.dst.val[1])
  BY <1>1 DEF SelectSection
<1>3. /\ Sectioned(secs') /\ Grown(secs, secs') /\ NamesApart(secs') /\ NoRelocs(secs')
      /\ cur' \in DOMAIN secs'
  BY <1>1, <1>2, ItemHere, SelectGrows
<1>4. LabelsInside(labels', secs') /\ FixesInside(fixes', secs')
  BY <1>1, <1>3, ItemHere, GrownKeeps
<1>5. pass' = "items" /\ at' \in Nat \ {0} /\ syms' = << >>
  BY <1>1, ItemHere
<1> QED
  BY <1>3, <1>4, <1>5, ItemStep

(* The sections an encoder starts with are empty. *)
LEMMA ResetKeeps ==
  ASSUME EncoderInv, Reset
  PROVE  EncoderInv'
<1>1. /\ secs' = WithSection(<< >>, ".text", "PROGBITS", {"ALLOC", "EXECINSTR"})
      /\ cur' = Elf!SectionFind(secs', ".text")
      /\ syms' = << >> /\ labels' = << >> /\ fixes' = << >> /\ pass' = "items" /\ at' = 1
  BY DEF Reset, SelectSection
<1>2. Sectioned(<< >>) /\ NamesApart(<< >>) /\ NoRelocs(<< >>)
  BY EP!EmptyIsList DEF Sectioned, NamesApart, NoRelocs
<1>3. /\ Sectioned(secs') /\ NamesApart(secs') /\ NoRelocs(secs') /\ cur' \in DOMAIN secs'
  BY <1>1, <1>2, SelectGrows
<1>4. LabelsInside(labels', secs') /\ FixesInside(fixes', secs')
  BY <1>1, NoNotesInside
<1> QED
  BY <1>1, <1>3, <1>4, ItemStep

(* What the passes after the walk leave alone. *)
LEMMA LoopGoesOn ==
  ASSUME EncoderInv, NEW from, NEW list, Done(from, list), from \in {"labels", "names", "relocs"}
  PROVE  /\ pass = from /\ pass' = from /\ at \in Nat \ {0} /\ at' = at + 1
         /\ labels' = labels /\ fixes' = fixes /\ cur' = cur
         /\ at <= Len(list) /\ Inside /\ Walking
BY DEF EncoderInv, Done, Walking

(* The symbol of a label stands where its label does. *)
LEMMA LabelSymbolKeeps ==
  ASSUME EncoderInv, LabelSymbol
  PROVE  EncoderInv'
<1>1. /\ Done("labels", labels) /\ secs' = secs
      /\ \E bind, type : syms' = Append(syms, Symbol(labels[at].name, labels[at].sec, labels[at].off, bind, type))
  BY DEF LabelSymbol
<1>2. PICK bind, type : syms' = Append(syms, Symbol(labels[at].name, labels[at].sec, labels[at].off, bind, type))
  BY <1>1
<1>3. /\ pass = "labels" /\ pass' = "labels" /\ at \in Nat \ {0} /\ at' = at + 1
      /\ labels' = labels /\ fixes' = fixes /\ cur' = cur
      /\ at <= Len(labels) /\ Inside /\ Walking
  BY <1>1, LoopGoesOn
<1>4. EP!IsList(labels) /\ Len(labels) \in Nat /\ DOMAIN labels = 1..Len(labels) /\ at \in DOMAIN labels
  BY <1>3, EP!ListProperties DEF Inside, LabelsInside
<1>5. LabelsMade /\ NoRelocs(secs)
  BY <1>3 DEF EncoderInv
<1> DEFINE new == Symbol(labels[at].name, labels[at].sec, labels[at].off, bind, type)
<1>6. new.name = labels[at].name /\ new.sec = labels[at].sec
  BY DEF Symbol
<1>7. EP!IsList(syms)
  BY <1>3 DEF Inside, SymbolsInside
<1> HIDE DEF new
<1>8. /\ EP!IsList(syms') /\ Len(syms') = Len(syms) + 1 /\ DOMAIN syms' = (DOMAIN syms) \union {Len(syms')}
      /\ syms'[Len(syms')] = new
      /\ \A j \in DOMAIN syms : syms'[j] = syms[j]
  <2>1. syms' = Append(syms, new)
    BY <1>2 DEF new
  <2> QED
    BY <1>7, <2>1, EP!AppendIsList, SMT
<1>9. Len(syms') = at
  BY <1>3, <1>5, <1>8 DEF LabelsMade
<1>10. LabelsMade'
  BY <1>3, <1>4, <1>5, <1>6, <1>8, <1>9 DEF LabelsMade
<1>11. SymbolsInside(syms', secs')
  <2>1. labels[at].sec \in 0..Len(secs)
    <3>1. Len(secs) \in Nat /\ DOMAIN secs = 1..Len(secs)
      BY <1>3, EP!ListProperties DEF Walking, Sectioned
    <3> QED
      BY <1>3, <1>4, <3>1 DEF Inside, LabelsInside
  <2> QED
    BY <1>1, <1>3, <1>6, <1>8, <2>1 DEF Inside, SymbolsInside
<1>12. Inside'
  BY <1>1, <1>3, <1>5, <1>11, NoRelocsInside DEF Inside
<1>13. Walking' /\ NoRelocs(secs')
  BY <1>1, <1>3, <1>5 DEF Walking
<1> QED
  BY <1>3, <1>10, <1>12, <1>13 DEF EncoderInv, Passes

(* The symbol of a name without a label stands nowhere. *)
LEMMA UndefinedSymbolKeeps ==
  ASSUME EncoderInv, UndefinedSymbol
  PROVE  EncoderInv'
<1>0. PICK name : name = fixes[at].name
  OBVIOUS
<1> DEFINE new == Symbol(name, 0, 0, "GLOBAL", "NOTYPE")
<1>1. /\ Done("names", fixes) /\ secs' = secs
      /\ syms' = IF Elf!SymbolFind(syms, name) # 0 THEN syms ELSE Append(syms, new)
  BY <1>0 DEF UndefinedSymbol
<1>2. /\ pass = "names" /\ pass' = "names" /\ at \in Nat \ {0} /\ at' = at + 1
      /\ labels' = labels /\ fixes' = fixes /\ cur' = cur
      /\ at <= Len(fixes) /\ Inside /\ Walking
  BY <1>1, LoopGoesOn
<1>3. NoRelocs(secs) /\ NamesMade /\ (NamesApart(labels) => NamesApart(syms))
  BY <1>2 DEF EncoderInv
<1>4. EP!IsList(syms) /\ SymbolsInside(syms, secs)
  BY <1>2 DEF Inside, SymbolsInside
<1>5. new.name = name /\ new.sec = 0
  BY DEF Symbol
<1> HIDE DEF new
<1>6. /\ SymbolsInside(syms', secs)
      /\ HasSymbol(syms', name)
      /\ \A other : HasSymbol(syms, other) => HasSymbol(syms', other)
      /\ NamesApart(syms) => NamesApart(syms')
  <2>1. CASE Elf!SymbolFind(syms, name) # 0
    <3>1. syms' = syms
      BY <1>1, <2>1
    <3>2. HasSymbol(syms, name)
      BY <1>4, <2>1, SymbolFound DEF HasSymbol
    <3> QED
      BY <1>4, <3>1, <3>2
  <2>2. CASE Elf!SymbolFind(syms, name) = 0
    <3>1. syms' = Append(syms, new)
      BY <1>1, <2>2
    <3>2. /\ EP!IsList(syms') /\ DOMAIN syms' = (DOMAIN syms) \union {Len(syms')}
          /\ syms'[Len(syms')] = new
          /\ \A j \in DOMAIN syms : syms'[j] = syms[j]
      BY <1>4, <3>1, EP!AppendIsList, SMT
    <3>3. \A j \in DOMAIN syms : syms[j].name # name
      BY <1>4, <2>2, SymbolFound
    <3>4. 0 \in 0..Len(secs)
      <4>1. Len(secs) \in Nat
        BY <1>2, EP!ListProperties DEF Walking, Sectioned
      <4> QED
        BY <4>1
    <3>5. SymbolsInside(syms', secs)
      BY <1>4, <1>5, <3>2, <3>4, Zenon DEF SymbolsInside
    <3>6. HasSymbol(syms', name) /\ \A other : HasSymbol(syms, other) => HasSymbol(syms', other)
      BY <1>5, <3>2, Zenon DEF HasSymbol
    <3>7. NamesApart(syms) => NamesApart(syms')
      BY <1>5, <3>2, <3>3, Zenon DEF NamesApart
    <3> QED
      BY <3>5, <3>6, <3>7
  <2> QED
    BY <2>1, <2>2
<1>7. NamesMade'
  <2>1. DOMAIN fixes = 1..Len(fixes) /\ Len(fixes) \in Nat
    BY <1>2, EP!ListProperties DEF Inside, FixesInside
  <2> SUFFICES ASSUME NEW f \in DOMAIN fixes, f < at + 1
               PROVE  HasSymbol(syms', fixes[f].name)
    BY <1>2 DEF NamesMade
  <2>2. CASE f < at
    BY <1>3, <1>6, <2>2 DEF NamesMade
  <2>3. CASE f = at
    BY <1>0, <1>6, <2>3
  <2> QED
    BY <1>2, <2>1, <2>2, <2>3
<1>8. Inside'
  BY <1>1, <1>2, <1>3, <1>6, NoRelocsInside DEF Inside
<1>9. Walking' /\ NoRelocs(secs') /\ (NamesApart(labels') => NamesApart(syms'))
  BY <1>1, <1>2, <1>3, <1>6 DEF Walking
<1> QED
  BY <1>2, <1>7, <1>8, <1>9 DEF EncoderInv, Passes

(* A relocation comes after those of the references met before it.         *)
LEMMA BuildRelocKeeps ==
  ASSUME EncoderInv, BuildReloc
  PROVE  EncoderInv'
<1>0. PICK f : f = fixes[at]
  OBVIOUS
<1> DEFINE rela == [off |-> f.off, sym |-> Elf!SymbolFind(syms, f.name), type |-> f.type, addend |-> -4]
<1>1. /\ Done("relocs", fixes) /\ syms' = syms
      /\ secs' = [secs EXCEPT ![f.sec].relas = Append(@, rela)]
  BY <1>0 DEF BuildReloc
<1>2. /\ pass = "relocs" /\ pass' = "relocs" /\ at \in Nat \ {0} /\ at' = at + 1
      /\ labels' = labels /\ fixes' = fixes /\ cur' = cur
      /\ at <= Len(fixes) /\ Inside /\ Walking
  BY <1>1, LoopGoesOn
<1>3. RelocsMade /\ (NamesApart(labels) => NamesApart(syms)) /\ Sectioned(secs)
  BY <1>2 DEF EncoderInv, Walking
<1>4. DOMAIN fixes = 1..Len(fixes) /\ Len(fixes) \in Nat /\ at \in DOMAIN fixes
  BY <1>2, EP!ListProperties DEF Inside, FixesInside
<1>5. /\ f.sec \in DOMAIN secs /\ f.type \in Rel!PcRelative
      /\ f.off \in Nat /\ f.off + 4 <= Len(secs[f.sec].data)
      /\ \A g \in DOMAIN fixes : g < at /\ fixes[g].sec = f.sec => fixes[g].off + 4 <= f.off
  BY <1>0, <1>2, <1>4 DEF Inside, FixesInside
<1>6. rela.sym \in DOMAIN syms
  <2>1. EP!IsList(syms) /\ HasSymbol(syms, f.name)
    BY <1>0, <1>2, <1>3, <1>4 DEF Inside, SymbolsInside, RelocsMade
  <2>2. Elf!SymbolFind(syms, f.name) # 0
    BY <2>1, SymbolFound DEF HasSymbol
  <2> QED
    BY <2>1, <2>2, SymbolFound
<1>7. rela.off = f.off /\ rela.type = f.type
  OBVIOUS
<1> HIDE DEF rela
<1>8. /\ Sectioned(secs') /\ Grown(secs, secs') /\ Grown(secs', secs) /\ DOMAIN secs' = DOMAIN secs /\ Len(secs') = Len(secs)
      /\ secs'[f.sec].relas = Append(secs[f.sec].relas, rela)
      /\ \A d \in DOMAIN secs : secs'[d].name = secs[d].name /\ secs'[d].data = secs[d].data
      /\ \A d \in DOMAIN secs : d # f.sec => secs'[d].relas = secs[d].relas
  BY <1>1, <1>3, <1>5, RelocGrows
<1> DEFINE old == secs[f.sec].relas
           new == secs'[f.sec].relas
<1>9. /\ EP!IsList(new) /\ Len(new) = Len(old) + 1 /\ DOMAIN new = (DOMAIN old) \union {Len(new)}
      /\ new[Len(new)] = rela
      /\ \A j \in DOMAIN old : new[j] = old[j]
      /\ DOMAIN old = 1..Len(old) /\ Len(old) \in Nat
  <2>1. EP!IsList(old)
    BY <1>3, <1>5 DEF Sectioned, IsSection
  <2>2. new = Append(old, rela)
    BY <1>8
  <2> HIDE DEF old, new
  <2> QED
    BY <2>1, <2>2, EP!AppendIsList, EP!ListProperties, SMT
<1>10. \A q \in DOMAIN old : old[q].off + 4 <= f.off
  BY <1>3, <1>5 DEF RelocsMade
<1>11. RelocsInside(secs, syms)
  BY <1>2 DEF Inside
<1>12. RelocsInside(secs', syms')
  <2> SUFFICES ASSUME NEW d \in DOMAIN secs
               PROVE  RelocsIn(secs'[d], syms)
    BY <1>1, <1>8 DEF RelocsInside
  <2>1. CASE d # f.sec
    BY <1>8, <1>11, <2>1 DEF RelocsInside, RelocsIn
  <2>2. CASE d = f.sec
    <3>1. \A q \in DOMAIN old :
            /\ old[q].sym \in DOMAIN syms /\ old[q].type \in Rel!PcRelative
            /\ old[q].off \in Nat /\ old[q].off + 4 <= Len(secs[d].data)
      BY <1>5, <1>11, <2>2 DEF RelocsInside, RelocsIn
    <3>2. \A q, x \in DOMAIN old : q < x => old[q].off + 4 <= old[x].off
      BY <1>5, <1>11 DEF RelocsInside, RelocsIn
    <3>3. secs'[d].data = secs[d].data
      BY <1>8
    <3> HIDE DEF old, new
    <3>4. ASSUME NEW q \in DOMAIN new
          PROVE  /\ new[q].sym \in DOMAIN syms /\ new[q].type \in Rel!PcRelative
                 /\ new[q].off \in Nat /\ new[q].off + 4 <= Len(secs'[d].data)
      BY <1>5, <1>6, <1>7, <1>9, <2>2, <3>1, <3>3
    <3>5. ASSUME NEW q \in DOMAIN new, NEW x \in DOMAIN new, q < x
          PROVE  new[q].off + 4 <= new[x].off
      <4>1. q \in DOMAIN old
        BY <1>9, <3>5
      <4>2. CASE x \in DOMAIN old
        BY <1>9, <3>2, <3>5, <4>1, <4>2
      <4>3. CASE x = Len(new)
        BY <1>7, <1>9, <1>10, <4>1, <4>3
      <4> QED
        BY <1>9, <4>2, <4>3
    <3> QED
      BY <2>2, <3>4, <3>5 DEF new, RelocsIn
  <2> QED
    BY <2>1, <2>2
<1>13. RelocsMade'
  <2>1. \A g \in DOMAIN fixes' : HasSymbol(syms', fixes'[g].name)
    BY <1>1, <1>2, <1>3 DEF RelocsMade
  <2>2. ASSUME NEW d \in DOMAIN secs, NEW q \in DOMAIN secs'[d].relas
        PROVE  \E g \in DOMAIN fixes : g < at + 1 /\ fixes[g].sec = d /\ fixes[g].off = secs'[d].relas[q].off
    <3>1. CASE d = f.sec /\ q = Len(new)
      BY <1>0, <1>2, <1>4, <1>7, <1>9, <3>1
    <3>2. CASE ~(d = f.sec /\ q = Len(new))
      <4>1. q \in DOMAIN secs[d].relas /\ secs'[d].relas[q] = secs[d].relas[q]
        BY <1>8, <1>9, <3>2
      <4>2. PICK g \in DOMAIN fixes : g < at /\ fixes[g].sec = d /\ fixes[g].off = secs[d].relas[q].off
        BY <1>3, <4>1 DEF RelocsMade
      <4>3. g < at + 1
        BY <1>2, <1>4, <4>2
      <4> QED
        BY <4>1, <4>2, <4>3
    <3> QED
      BY <3>1, <3>2
  <2> QED
    BY <1>2, <1>8, <2>1, <2>2 DEF RelocsMade
<1>14. Inside'
  <2>1. NamesApart(secs')
    BY <1>2, <1>8 DEF Inside, NamesApart
  <2>2. LabelsInside(labels', secs') /\ FixesInside(fixes', secs') /\ SymbolsInside(syms', secs')
    BY <1>1, <1>2, <1>3, <1>8, GrownKeeps DEF Inside
  <2> QED
    BY <1>12, <2>1, <2>2 DEF Inside
<1>15. Walking' /\ (NamesApart(labels') => NamesApart(syms'))
  BY <1>1, <1>2, <1>3, <1>8 DEF Walking
<1> QED
  BY <1>2, <1>13, <1>14, <1>15 DEF EncoderInv, Passes

(* The passes follow one another. *)
LEMMA NextPassKeeps ==
  ASSUME EncoderInv,
         \/ NextPass("items", items, "labels") \/ NextPass("labels", labels, "names")
         \/ NextPass("names", fixes, "relocs") \/ NextPass("relocs", fixes, "encoded")
  PROVE  EncoderInv'
<1>1. /\ pass # "reset" /\ at' = 1 /\ pass' \in {"labels", "names", "relocs", "encoded"}
      /\ cur' = cur /\ secs' = secs /\ syms' = syms /\ labels' = labels /\ fixes' = fixes
  BY DEF NextPass
<1>2. Walking' /\ Inside' /\ Inside
  BY <1>1 DEF EncoderInv, Walking, Inside
<1>3. CASE NextPass("items", items, "labels")
  <2>1. pass = "items" /\ pass' = "labels"
    BY <1>3 DEF NextPass
  <2>2. syms' = << >> /\ Len(labels') \in Nat /\ NoRelocs(secs')
    BY <1>1, <1>2, <2>1, EP!ListProperties DEF EncoderInv, Writing, Inside, LabelsInside
  <2>3. LabelsMade'
    BY <1>1, <2>2, EP!EmptyIsList DEF LabelsMade
  <2> QED
    BY <1>2, <2>1, <2>2, <2>3 DEF EncoderInv, Passes
<1>4. CASE NextPass("labels", labels, "names")
  <2>1. pass = "labels" /\ pass' = "names" /\ at > Len(labels)
    BY <1>4 DEF NextPass
  <2>2. NoRelocs(secs') /\ LabelsMade
    BY <1>1, <2>1 DEF EncoderInv
  <2>3. NamesApart(labels') => NamesApart(syms')
    BY <1>1, <2>2 DEF LabelsMade, NamesApart
  <2>4. NamesMade'
    <3>1. DOMAIN fixes = 1..Len(fixes) /\ Len(fixes) \in Nat
      BY <1>2, EP!ListProperties DEF Inside, FixesInside
    <3> QED
      BY <1>1, <3>1 DEF NamesMade
  <2> QED
    BY <1>2, <2>1, <2>2, <2>3, <2>4 DEF EncoderInv, Passes
<1>5. CASE NextPass("names", fixes, "relocs")
  <2>1. pass = "names" /\ pass' = "relocs" /\ at > Len(fixes)
    BY <1>5 DEF NextPass
  <2>2. NoRelocs(secs) /\ NamesMade /\ (NamesApart(labels) => NamesApart(syms)) /\ at \in Nat
    BY <2>1 DEF EncoderInv, Walking
  <2>3. DOMAIN fixes = 1..Len(fixes) /\ Len(fixes) \in Nat
    BY <1>2, EP!ListProperties DEF Inside, FixesInside
  <2>4. \A f \in DOMAIN fixes : HasSymbol(syms, fixes[f].name)
    BY <2>1, <2>2, <2>3 DEF NamesMade
  <2>5. \A d \in DOMAIN secs : DOMAIN secs[d].relas = {}
    BY <2>2, EP!EmptyIsList DEF NoRelocs
  <2>6. RelocsMade'
    BY <1>1, <2>4, <2>5 DEF RelocsMade
  <2> QED
    BY <1>1, <1>2, <2>1, <2>2, <2>6 DEF EncoderInv, Passes
<1>6. CASE NextPass("relocs", fixes, "encoded")
  <2>1. pass = "relocs" /\ pass' = "encoded"
    BY <1>6 DEF NextPass
  <2>2. NamesApart(labels) => NamesApart(syms)
    BY <2>1 DEF EncoderInv
  <2> QED
    BY <1>1, <1>2, <2>1, <2>2 DEF EncoderInv, Passes
<1> QED
  BY <1>3, <1>4, <1>5, <1>6

(* Every step of the encoder keeps the invariant. *)
LEMMA EncoderStep ==
  ASSUME EncoderInv, EncodableList(items), EncodeNext
  PROVE  EncoderInv'
BY ResetKeeps, PlainInstrKeeps, NamingInstrKeeps, RecordLabelKeeps, NothingWrittenKeeps, ChangeSectionKeeps,
   EmitRawKeeps, LabelSymbolKeeps, UndefinedSymbolKeeps, BuildRelocKeeps, NextPassKeeps, Zenon DEF EncodeNext

-----------------------------------------------------------------------------
(* What the invariant says of an encoded object.                           *)

(* The invariant types the state. *)
LEMMA InvIsTyped ==
  ASSUME EncoderInv
  PROVE  EncodeTypeOK
<1>1. Sectioned(secs) /\ at \in Nat \ {0} /\ cur \in 0..Len(secs)
  BY DEF EncoderInv, Walking
<1>2. \A s \in DOMAIN secs : \A b \in DOMAIN secs[s].data : secs[s].data[b][1] \in 0..255
  <2> SUFFICES ASSUME NEW s \in DOMAIN secs, NEW b \in DOMAIN secs[s].data
               PROVE  secs[s].data[b][1] \in 0..255
    OBVIOUS
  <2>1. secs[s].data[b] \in Cells
    BY <1>1, ElementOfSeq DEF Sectioned, IsSection
  <2> QED
    BY <2>1 DEF Cells
<1>3. pass \in Passes /\ (pass = "items" => cur # 0)
  BY DEF EncoderInv, Writing
<1>4. ASSUME pass # "reset"
      PROVE  /\ \A l \in DOMAIN labels : labels[l].sec \in DOMAIN secs /\ labels[l].off \in 0..Len(secs[labels[l].sec].data)
             /\ \A f \in DOMAIN fixes :
                  fixes[f].sec \in DOMAIN secs /\ fixes[f].off \in 0..(Len(secs[fixes[f].sec].data) - 4)
             /\ \A s \in DOMAIN syms : syms[s].sec \in 0..Len(secs)
             /\ \A s \in DOMAIN secs : \A q \in DOMAIN secs[s].relas : secs[s].relas[q].sym \in DOMAIN syms
  <2>1. Inside
    BY <1>4 DEF EncoderInv
  <2>2. \A l \in DOMAIN labels : labels[l].sec \in DOMAIN secs /\ labels[l].off \in 0..Len(secs[labels[l].sec].data)
    BY <2>1 DEF Inside, LabelsInside
  <2>3. \A f \in DOMAIN fixes :
          fixes[f].sec \in DOMAIN secs /\ fixes[f].off \in 0..(Len(secs[fixes[f].sec].data) - 4)
    <3> SUFFICES ASSUME NEW f \in DOMAIN fixes
                 PROVE  fixes[f].sec \in DOMAIN secs /\ fixes[f].off \in 0..(Len(secs[fixes[f].sec].data) - 4)
      OBVIOUS
    <3>1. /\ fixes[f].sec \in DOMAIN secs /\ fixes[f].off \in Nat
          /\ fixes[f].off + 4 <= Len(secs[fixes[f].sec].data)
      BY <2>1 DEF Inside, FixesInside
    <3>2. Len(secs[fixes[f].sec].data) \in Nat
      BY <1>1, <3>1, DataLength
    <3> QED
      BY <3>1, <3>2
  <2>4. \A s \in DOMAIN syms : syms[s].sec \in 0..Len(secs)
    BY <2>1 DEF Inside, SymbolsInside
  <2>5. \A s \in DOMAIN secs : \A q \in DOMAIN secs[s].relas : secs[s].relas[q].sym \in DOMAIN syms
    BY <2>1 DEF Inside, RelocsInside, RelocsIn
  <2> QED
    BY <2>2, <2>3, <2>4, <2>5
<1> QED
  BY <1>1, <1>2, <1>3, <1>4 DEF EncodeTypeOK, Passes

(* The object of an encoder that is done is one link.c accepts. *)
LEMMA InvIsReady ==
  ASSUME EncoderInv
  PROVE  ReadyToLink
<1> SUFFICES ASSUME Encoded
             PROVE  /\ Rel!FieldsWithin(Object)
                    /\ NamesApart(labels) => Rel!FreshlyEncoded(Object)
  BY DEF ReadyToLink, NamesApart
<1>1. Sectioned(secs) /\ Inside /\ (NamesApart(labels) => NamesApart(syms))
  BY DEF Encoded, EncoderInv, Walking
<1>2. Object.secs = secs /\ Object.syms = syms
  BY DEF Object
<1>3. ASSUME NEW s \in DOMAIN secs
      PROVE  /\ EP!IsList(secs[s].relas) /\ secs[s].data \in Seq(Cells) /\ secs[s].addr = 0
             /\ RelocsIn(secs[s], syms)
  BY <1>1 DEF Sectioned, IsSection, Inside, RelocsInside
<1>4. \A type \in Rel!PcRelative : Rel!Width(type) = 4
  BY DEF Rel!PcRelative, Rel!Width
<1>5. Rel!FieldsWithin(Object)
  <2> SUFFICES ASSUME NEW s \in DOMAIN secs,
                      NEW q \in DOMAIN secs[s].relas
               PROVE  LET relas == secs[s].relas
                          Field(x) == (relas[x].off + 1)..(relas[x].off + Rel!Width(relas[x].type))
                      IN /\ Field(q) \subseteq DOMAIN secs[s].data
                         /\ \A x \in DOMAIN relas : x # q => Field(q) \intersect Field(x) = {}
    BY <1>2 DEF Rel!FieldsWithin
  <2> DEFINE relas == secs[s].relas
  <2>1. DOMAIN relas = 1..Len(relas) /\ Len(relas) \in Nat
    BY <1>3, EP!ListProperties
  <2>2. DOMAIN secs[s].data = 1..Len(secs[s].data) /\ Len(secs[s].data) \in Nat
    BY <1>3
  <2>3. \A x \in DOMAIN relas : /\ Rel!Width(relas[x].type) = 4 /\ relas[x].off \in Nat
                                /\ relas[x].off + 4 <= Len(secs[s].data)
    BY <1>3, <1>4 DEF RelocsIn
  <2>4. \A x, y \in DOMAIN relas : x < y => relas[x].off + 4 <= relas[y].off
    BY <1>3 DEF RelocsIn
  <2> HIDE DEF relas
  <2>5. (relas[q].off + 1)..(relas[q].off + Rel!Width(relas[q].type)) \subseteq DOMAIN secs[s].data
    BY <2>2, <2>3 DEF relas
  <2>6. ASSUME NEW x \in DOMAIN relas, x # q
        PROVE  ((relas[q].off + 1)..(relas[q].off + Rel!Width(relas[q].type)))
                 \intersect ((relas[x].off + 1)..(relas[x].off + Rel!Width(relas[x].type))) = {}
    <3>1. q \in DOMAIN relas
      BY DEF relas
    <3>2. relas[x].off + 4 <= relas[q].off \/ relas[q].off + 4 <= relas[x].off
      BY <2>1, <2>4, <2>6, <3>1
    <3> QED
      BY <2>3, <3>1, <3>2
  <2> QED
    BY <2>5, <2>6 DEF relas
<1>6. ASSUME NamesApart(labels)
      PROVE  Rel!FreshlyEncoded(Object)
  <2>1. NamesApart(syms) /\ NamesApart(secs)
    BY <1>1, <1>6 DEF Inside
  <2>2. Rel!UniqueGlobals(syms)
    BY <2>1 DEF Rel!UniqueGlobals, NamesApart
  <2>3. \A s, t \in DOMAIN secs : secs[s].name = secs[t].name => s = t
    BY <2>1 DEF NamesApart
  <2>4. ASSUME NEW s \in DOMAIN secs, NEW q \in DOMAIN secs[s].relas
        PROVE  secs[s].relas[q].sym # 0
    <3>1. secs[s].relas[q].sym \in DOMAIN syms
      BY <1>3 DEF RelocsIn
    <3>2. DOMAIN syms = 1..Len(syms) /\ Len(syms) \in Nat
      BY <1>1, EP!ListProperties DEF Inside, SymbolsInside
    <3> QED
      BY <3>1, <3>2
  <2> QED
    BY <1>2, <1>3, <2>2, <2>3, <2>4 DEF Rel!FreshlyEncoded
<1> QED
  BY <1>5, <1>6

-----------------------------------------------------------------------------
(* The items that reach the encoder.                                       *)

(* Lists that can be encoded can be joined. *)
LEMMA ConcatIsEncodable ==
  ASSUME NEW s, EncodableList(s), NEW t, EncodableList(t)
  PROVE  EncodableList(s \o t)
<1> DEFINE T == {s[j] : j \in 1..Len(s)} \union {t[j] : j \in 1..Len(t)}
<1>1. Len(s) \in Nat /\ s \in [1..Len(s) -> T]
  BY DEF EncodableList
<1>2. Len(t) \in Nat /\ t \in [1..Len(t) -> T]
  BY DEF EncodableList
<1>3. \A x \in T : Encodable(x)
  BY DEF EncodableList
<1> HIDE DEF T
<1>4. s \in Seq(T) /\ t \in Seq(T)
  BY <1>1, <1>2, SeqDef
<1>5. PICK u : u = s \o t
  OBVIOUS
<1>6. u \in Seq(T)
  BY <1>4, <1>5, ConcatProperties
<1>7. Len(u) \in Nat /\ u \in [1..Len(u) -> T]
  BY <1>6, LenProperties
<1>8. EncodableList(u)
  BY <1>3, <1>7 DEF EncodableList
<1> QED
  BY <1>5, <1>8, Zenon

(* An empty list can be encoded. *)
LEMMA EmptyIsEncodable == EncodableList(<< >>)
<1>1. Len(<< >>) = 0
  OBVIOUS
<1>2. << >> = [j \in 1..0 |-> << >>[j]]
  OBVIOUS
<1> QED
  BY <1>1, <1>2 DEF EncodableList

(* What was read is encodable, and so is all that is still to be read. *)
ReadInv ==
  /\ EncodableList(items) /\ line \in Nat \ {0}
  /\ stage = "compile" => ReadsEncodable(Write(items))
  /\ stage = "parse" => ReadsEncodable(lines)

(* What is read at first can be encoded. *)
LEMMA InitReads ==
  ASSUME InputsEncodable, Init
  PROVE  ReadInv
<1>1. EncodableList(<< >>)
  BY EmptyIsEncodable
<1> QED
  BY <1>1 DEF Init, InputsEncodable, ReadInv

(* Reading keeps it so. *)
LEMMA StepReads ==
  ASSUME ReadInv, [Next]_vars
  PROVE  ReadInv'
<1>1. CASE UNCHANGED <<items, stage, line, lines>>
  BY <1>1 DEF ReadInv
<1>2. CASE EncodeNext /\ UNCHANGED <<stage, lines, line, first>>
  <2>1. items' = items
    BY <1>2 DEF EncodeNext, Reset, AtItem, PlainInstr, NamingInstr, RecordLabel, RecordGlobl, ChangeSection, EmitRaw,
                SkipDirective, NextPass, Done, LabelSymbol, UndefinedSymbol, BuildReloc
  <2> QED
    BY <1>1, <1>2, <2>1
<1>3. CASE WriteText
  <2>1. EncodableList(<< >>)
    BY EmptyIsEncodable
  <2>2. items' = << >> /\ lines' = Write(items) /\ line' = line /\ stage = "compile" /\ stage' = "parse"
    BY <1>3 DEF WriteText
  <2> QED
    BY <2>1, <2>2 DEF ReadInv
<1>4. CASE ParseNext
  <2> DEFINE parsed == ParseLine(lines[line])
  <2>1. /\ stage = "parse" /\ line <= Len(lines) /\ lines' = lines
        /\ IF \E j \in DOMAIN parsed : parsed[j].kind = "REFUSED"
           THEN stage' = "failed" /\ UNCHANGED <<items, line>>
           ELSE items' = items \o parsed /\ line' = line + 1 /\ UNCHANGED stage
    BY <1>4 DEF ParseNext
  <2>2. line \in 1..Len(lines)
    BY <2>1 DEF ReadInv, ReadsEncodable
  <2>3. EncodableList(parsed) \/ \E j \in DOMAIN parsed : parsed[j].kind = "REFUSED"
    BY <2>1, <2>2 DEF ReadInv, ReadsEncodable
  <2> HIDE DEF parsed
  <2>4. CASE \E j \in DOMAIN parsed : parsed[j].kind = "REFUSED"
    BY <2>1, <2>4 DEF ReadInv
  <2>5. CASE ~\E j \in DOMAIN parsed : parsed[j].kind = "REFUSED"
    <3>1. EncodableList(items \o parsed)
      BY <2>3, <2>5, ConcatIsEncodable DEF ReadInv
    <3>2. items' = items \o parsed /\ line' = line + 1 /\ stage' = "parse" /\ lines' = lines
      BY <2>1, <2>5
    <3>3. EncodableList(items')
      BY <3>1, <3>2, Zenon
    <3>4. line' \in Nat \ {0} /\ ReadsEncodable(lines')
      BY <2>1, <3>2 DEF ReadInv
    <3> QED
      BY <3>2, <3>3, <3>4 DEF ReadInv
  <2> QED
    BY <2>4, <2>5
<1>5. CASE ParsedAll \/ Assembled
  <2>1. UNCHANGED <<items, line, lines>> /\ stage' \in {"assemble", "done"}
    BY <1>5 DEF ParsedAll, Assembled, encVars
  <2> QED
    BY <2>1 DEF ReadInv
<1>6. UNCHANGED vars => UNCHANGED <<items, stage, line, lines>>
  BY DEF vars, encVars
<1> QED
  BY <1>1, <1>2, <1>3, <1>4, <1>5, <1>6 DEF Next, Encoding

-----------------------------------------------------------------------------
(* Numbers.                                                                *)

(* The bytes from an offset on are these. *)
Holds(data, off, bytes) == \A j \in 1..Len(bytes) : D!ByteAt(data, off + j - 1) = bytes[j][1]

(* The powers of the base of a byte. *)
LEMMA Moduli ==
  /\ ByteBase \in Nat /\ ByteBase > 0
  /\ \A n \in 0..8 : ByteBase^n \in Nat \ {0}
  /\ ByteBase^0 = 1
  /\ \A n \in 0..7 : ByteBase^(n + 1) = ByteBase * ByteBase^n
BY EncodeAssumption DEF Rel!Modulus

(* A remainder by a greater power has one digit more. *)
LEMMA DigitAdds ==
  ASSUME NEW val \in Int, NEW n \in 0..7
  PROVE  val % ByteBase^(n + 1) = (val % ByteBase^n) + ((val \div ByteBase^n) % ByteBase) * ByteBase^n
<1>1. PICK m \in Nat : m > 0 /\ m = ByteBase^n
  BY Moduli
<1>2. ByteBase^(n + 1) = ByteBase * m
  BY <1>1, Moduli
<1>3. val % (ByteBase * m) = (val % m) + ((val \div m) % ByteBase) * m
  BY <1>1, Moduli, EP!OneDigitMore
<1> QED
  BY <1>1, <1>2, <1>3, Zenon

(* What sums the digits of a number in a width has what is left of it      *)
(* there.                                                                  *)
Sums(f, data, i, n) ==
  f = [j \in 0..n |-> IF j = 0 THEN 0 ELSE f[j - 1] + D!ByteAt(data, i + j - 1) * ByteBase^(j - 1)]

(* Such a sum of the digits of a number is its remainder. *)
LEMMA DigitsSum ==
  ASSUME NEW data, NEW i \in Nat, NEW n \in 1..8, NEW val \in Int, NEW f, Sums(f, data, i, n),
         \A j \in 0..7 : j < n => D!ByteAt(data, i + j) = (val \div ByteBase^j) % ByteBase
  PROVE  f[n] = val % ByteBase^n
<1> DEFINE Right(k) == f[k] = val % ByteBase^k
<1>1. Right(0)
  <2>1. f[0] = 0
    BY DEF Sums
  <2>2. val % 1 = 0
    OBVIOUS
  <2> QED
    BY <2>1, <2>2, Moduli
<1>2. ASSUME NEW k \in 0..7, NEW l, l = k + 1, k < n, Right(k)
      PROVE  Right(l)
  <2>1. l \in 0..n /\ l # 0 /\ l - 1 = k /\ i + l - 1 = i + k
    BY <1>2
  <2>2. f[l] = f[l - 1] + D!ByteAt(data, i + l - 1) * ByteBase^(l - 1)
    BY <2>1, Zenon DEF Sums
  <2>3. f[l] = f[k] + D!ByteAt(data, i + k) * ByteBase^k
    BY <2>1, <2>2, Zenon
  <2>4. D!ByteAt(data, i + k) = (val \div ByteBase^k) % ByteBase
    BY <1>2
  <2>5. val % ByteBase^l = (val % ByteBase^k) + ((val \div ByteBase^k) % ByteBase) * ByteBase^k
    BY <1>2, DigitAdds, Zenon
  <2> QED
    BY <1>2, <2>3, <2>4, <2>5, Zenon
<1> HIDE DEF Right
<1>3. /\ 0 < n /\ Right(0) => Right(1)
      /\ 1 < n /\ Right(1) => Right(2)
      /\ 2 < n /\ Right(2) => Right(3)
      /\ 3 < n /\ Right(3) => Right(4)
      /\ 4 < n /\ Right(4) => Right(5)
      /\ 5 < n /\ Right(5) => Right(6)
      /\ 6 < n /\ Right(6) => Right(7)
      /\ 7 < n /\ Right(7) => Right(8)
  BY <1>2
<1>4. Right(n)
  BY <1>1, <1>3
<1> QED
  BY <1>4 DEF Right

(* There is such a sum. *)
LEMMA SumExists ==
  ASSUME NEW data, NEW i \in Nat, NEW n \in 1..8, NEW val \in Int,
         \A j \in 0..7 : j < n => D!ByteAt(data, i + j) = (val \div ByteBase^j) % ByteBase
  PROVE  Sums([j \in 0..n |-> val % ByteBase^j], data, i, n)
<1> DEFINE G == [j \in 0..n |-> val % ByteBase^j]
<1>1. ASSUME NEW j \in 0..n
      PROVE  G[j] = IF j = 0 THEN 0 ELSE G[j - 1] + D!ByteAt(data, i + j - 1) * ByteBase^(j - 1)
  <2>1. CASE j = 0
    <3>1. val % 1 = 0
      OBVIOUS
    <3> QED
      BY <2>1, <3>1, Moduli
  <2>2. CASE j # 0
    <3>1. PICK k \in 0..7 : j = k + 1 /\ j - 1 = k /\ i + j - 1 = i + k /\ k < n /\ k \in 0..n
      <4>1. j - 1 \in 0..7 /\ j = (j - 1) + 1 /\ i + j - 1 = i + (j - 1) /\ j - 1 < n /\ j - 1 \in 0..n
        BY <2>2
      <4> QED
        BY <4>1
    <3>2. val % ByteBase^(k + 1) = (val % ByteBase^k) + ((val \div ByteBase^k) % ByteBase) * ByteBase^k
      BY DigitAdds
    <3>3. D!ByteAt(data, i + k) = (val \div ByteBase^k) % ByteBase
      BY <3>1
    <3>4. G[j] = val % ByteBase^(k + 1) /\ G[k] = val % ByteBase^k
      BY <3>1
    <3> HIDE DEF G
    <3> QED
      BY <2>2, <3>1, <3>2, <3>3, <3>4, Zenon
  <2> QED
    BY <2>1, <2>2
<1> HIDE DEF G
<1>2. G = [j \in 0..n |-> G[j]]
  BY DEF G
<1>3. Sums(G, data, i, n)
  BY <1>1, <1>2, Zenon DEF Sums
<1> QED
  BY <1>3 DEF G

(* A processor reads the number whose digits are in the bytes, if their    *)
(* width has it.                                                           *)
LEMMA SignedIs ==
  ASSUME NEW data, NEW i \in Nat, NEW n \in 1..8, NEW val \in Int, NEW x \in Int,
         \A j \in 0..7 : j < n => D!ByteAt(data, i + j) = (val \div ByteBase^j) % ByteBase,
         val % ByteBase^n = x % ByteBase^n, InRange(x, n)
  PROVE  D!SignedAt(data, i, n) = x
<1> DEFINE Upto == CHOOSE f : Sums(f, data, i, n)
<1>2. Sums(Upto, data, i, n)
  BY SumExists
<1>3. Upto[n] = val % ByteBase^n
  <2> HIDE DEF Upto
  <2> QED
    BY <1>2, DigitsSum
<1>4. D!SignedAt(data, i, n) =
        IF 2 * Upto[n] >= ByteBase^n THEN Upto[n] - ByteBase^n ELSE Upto[n]
  BY DEF D!SignedAt, Sums
<1> HIDE DEF Upto
<1>5. PICK m \in Nat \ {0} : m = ByteBase^n
  BY Moduli
<1>6. x \in (-(m \div 2))..((m \div 2) - 1)
  BY <1>5 DEF InRange, Rel!Modulus
<1> QED
  BY <1>3, <1>4, <1>5, <1>6, EP!HeldIsExact

(* A processor reads the number the encoder wrote, if its width has it. *)
LEMMA DigitsRead ==
  ASSUME NEW data, NEW i \in Nat, NEW n \in 1..8, NEW val \in Int,
         Holds(data, i, Emit(val, n)), InRange(val, n)
  PROVE  D!SignedAt(data, i, n) = val
<1>1. \A j \in 0..7 : j < n => D!ByteAt(data, i + j) = (val \div ByteBase^j) % ByteBase
  <2> SUFFICES ASSUME NEW j \in 0..7, j < n
               PROVE  D!ByteAt(data, i + j) = (val \div ByteBase^j) % ByteBase
    OBVIOUS
  <2>1. PICK k \in 1..n : k = j + 1 /\ k - 1 = j /\ i + k - 1 = i + j
    <3>1. j + 1 \in 1..n /\ (j + 1) - 1 = j /\ i + (j + 1) - 1 = i + j
      OBVIOUS
    <3> QED
      BY <3>1
  <2>2. Len(Emit(val, n)) = n
    BY EmitIsCells
  <2>3. D!ByteAt(data, i + k - 1) = Emit(val, n)[k][1]
    BY <2>2 DEF Holds
  <2>4. Emit(val, n)[k] = <<(val \div ByteBase^(k - 1)) % ByteBase>>
    BY DEF Emit, Elf!Byte, Rel!Modulus
  <2> QED
    BY <2>1, <2>3, <2>4
<1> QED
  BY <1>1, SignedIs

-----------------------------------------------------------------------------
(* Bytes in place.                                                         *)

(* Where a concatenation is, its parts are. *)
LEMMA HoldsParts ==
  ASSUME NEW data, NEW off \in Nat, NEW s \in Seq(Cells), NEW t \in Seq(Cells), Holds(data, off, s \o t)
  PROVE  Holds(data, off, s) /\ Holds(data, off + Len(s), t) /\ off + Len(s) \in Nat
<1>1. Len(s) \in Nat /\ Len(t) \in Nat /\ Len(s \o t) = Len(s) + Len(t)
  BY ConcatProperties, LenProperties
<1>2. \A j \in 1..Len(s) : j \in 1..Len(s \o t) /\ (s \o t)[j] = s[j]
  BY <1>1
<1>3. \A j \in 1..Len(t) : /\ Len(s) + j \in 1..Len(s \o t)
                           /\ (s \o t)[Len(s) + j] = t[j]
                           /\ off + (Len(s) + j) - 1 = off + Len(s) + j - 1
  BY <1>1
<1>4. Holds(data, off, s)
  BY <1>2 DEF Holds
<1>5. Holds(data, off + Len(s), t)
  BY <1>3, Zenon DEF Holds
<1> QED
  BY <1>1, <1>4, <1>5

(* A concatenation is as long as its parts. *)
LEMMA LenJoined ==
  ASSUME NEW s \in Seq(Cells), NEW t \in Seq(Cells)
  PROVE  Len(s \o t) = Len(s) + Len(t) /\ Len(s) \in Nat /\ Len(t) \in Nat
BY ConcatProperties, LenProperties

(* A byte that is there is read. *)
LEMMA ByteHeld ==
  ASSUME NEW data, NEW off \in Nat, NEW n, Holds(data, off, Op(<<n>>))
  PROVE  D!ByteAt(data, off) = n /\ Len(Op(<<n>>)) = 1
<1>1. Op(<<n>>) = [j \in 1..1 |-> <<<<n>>[j]>>]
  BY DEF Op, Elf!Byte
<1>2. Len(Op(<<n>>)) = 1 /\ Op(<<n>>)[1] = <<n>>
  BY <1>1
<1>3. D!ByteAt(data, off + 1 - 1) = <<n>>[1]
  BY <1>2 DEF Holds
<1>4. off + 1 - 1 = off
  OBVIOUS
<1> QED
  BY <1>2, <1>3, <1>4

(* And so are two. *)
LEMMA BytesHeld ==
  ASSUME NEW data, NEW off \in Nat, NEW n, NEW m, Holds(data, off, Op(<<n, m>>))
  PROVE  D!ByteAt(data, off) = n /\ D!ByteAt(data, off + 1) = m /\ Len(Op(<<n, m>>)) = 2
<1>1. Op(<<n, m>>) = [j \in 1..2 |-> <<<<n, m>>[j]>>]
  BY DEF Op, Elf!Byte
<1>2. Len(Op(<<n, m>>)) = 2 /\ Op(<<n, m>>)[1] = <<n>> /\ Op(<<n, m>>)[2] = <<m>>
  BY <1>1
<1>3. D!ByteAt(data, off + 1 - 1) = n /\ D!ByteAt(data, off + 2 - 1) = m
  BY <1>2 DEF Holds
<1>4. off + 1 - 1 = off /\ off + 2 - 1 = off + 1
  OBVIOUS
<1> QED
  BY <1>2, <1>3, <1>4

-----------------------------------------------------------------------------
(* Prefix and opcode.                                                      *)

(* A REX prefix with these bits, or none if it needs none.                 *)
PrefixOf(w, r, b) == 64 + 8 * w + 4 * r + b

Prefixed(p, w, r, b) ==
  \/ p = Op(<<PrefixOf(w, r, b)>>)
  \/ p = << >> /\ w = 0 /\ r = 0 /\ b = 0

(* What it is read as. *)
RexRead(p, w, r, b) == IF p = << >> THEN 0 ELSE PrefixOf(w, r, b)

(* A prefix is cells. *)
LEMMA PrefixCells ==
  ASSUME NEW w \in 0..1, NEW r \in 0..1, NEW b \in 0..1, NEW p, Prefixed(p, w, r, b)
  PROVE  p \in Seq(Cells)
<1>1. PrefixOf(w, r, b) \in 0..255
  BY DEF PrefixOf
<1>2. Op(<<PrefixOf(w, r, b)>>) \in Seq(Cells)
  BY <1>1, OneByte
<1> QED
  BY <1>2, NoBytes, Zenon DEF Prefixed

OneByteOpcode(n) == n \in 0..255 /\ n \notin 64..79 /\ n # 15

(* A prefix and an opcode of one byte are told apart. *)
LEMMA PrefixRead ==
  ASSUME NEW data, NEW off \in Nat, NEW w \in 0..1, NEW r \in 0..1, NEW b \in 0..1,
         NEW p, Prefixed(p, w, r, b), NEW n, OneByteOpcode(n), Holds(data, off, p \o Op(<<n>>))
  PROVE  /\ D!Rex(data, off) = RexRead(p, w, r, b) /\ D!Opcode(data, off) = n
         /\ D!Rest(data, off) = off + Len(p \o Op(<<n>>))
         /\ p \in Seq(Cells)
<1>1. n \in 0..255 /\ n \notin 64..79 /\ n # 15
  BY DEF OneByteOpcode
<1>2. Op(<<n>>) \in Seq(Cells)
  BY <1>1, OneByte
<1>3. CASE p = Op(<<PrefixOf(w, r, b)>>)
  <2>1. PrefixOf(w, r, b) \in 64..79 /\ PrefixOf(w, r, b) \in 0..255
    BY DEF PrefixOf
  <2>2. p \in Seq(Cells)
    BY <1>3, <2>1, OneByte
  <2>3. Holds(data, off, p) /\ Holds(data, off + Len(p), Op(<<n>>)) /\ off + Len(p) \in Nat
    BY <1>2, <2>2, HoldsParts
  <2>4. D!ByteAt(data, off) = PrefixOf(w, r, b) /\ Len(p) = 1
    BY <1>3, <2>3, ByteHeld
  <2>5. D!ByteAt(data, off + 1) = n /\ Len(Op(<<n>>)) = 1
    BY <2>3, <2>4, ByteHeld
  <2>6. p # << >>
    <3>1. Len(p) # Len(<< >>)
      BY <2>4, EP!EmptyIsList
    <3> QED
      BY <3>1, Zenon
  <2>7. D!Rex(data, off) = PrefixOf(w, r, b) /\ D!Rex(data, off) # 0
    BY <2>1, <2>4 DEF D!Rex
  <2>8. D!OpcodeAt(data, off) = off + 1
    BY <2>7 DEF D!OpcodeAt
  <2>9. ~D!Escaped(data, off)
    BY <1>1, <2>5, <2>8 DEF D!Escaped
  <2>10. Len(p \o Op(<<n>>)) = 2
    <3>1. Len(p \o Op(<<n>>)) = Len(p) + Len(Op(<<n>>))
      BY <1>2, <2>2, LenJoined, Zenon
    <3> QED
      BY <2>4, <2>5, <3>1
  <2>11. D!Opcode(data, off) = n
    BY <2>5, <2>8, <2>9 DEF D!Opcode
  <2>12. D!Rest(data, off) = off + 2
    <3>1. D!Rest(data, off) = off + 1 + 1
      BY <2>8, <2>9 DEF D!Rest
    <3> QED
      BY <3>1
  <2>13. RexRead(p, w, r, b) = PrefixOf(w, r, b)
    BY <2>6 DEF RexRead
  <2> QED
    BY <2>2, <2>7, <2>10, <2>11, <2>12, <2>13
<1>4. CASE p = << >>
  <2>1. p \in Seq(Cells) /\ p \o Op(<<n>>) = Op(<<n>>)
    BY <1>2, <1>4, NoBytes, ConcatEmptySeq
  <2>2. D!ByteAt(data, off) = n /\ Len(Op(<<n>>)) = 1
    BY <2>1, ByteHeld
  <2>3. D!Rex(data, off) = 0
    BY <1>1, <2>2 DEF D!Rex
  <2>4. D!OpcodeAt(data, off) = off
    BY <2>3 DEF D!OpcodeAt
  <2>5. ~D!Escaped(data, off)
    BY <1>1, <2>2, <2>4 DEF D!Escaped
  <2> QED
    BY <1>4, <2>1, <2>2, <2>3, <2>4, <2>5 DEF D!Opcode, D!Rest, RexRead
<1> QED
  BY <1>3, <1>4 DEF Prefixed

TwoByteOpcode(opc, n) == n \in 0..255 /\ opc = <<15, n>>

(* And so are a prefix and an opcode behind 0F. *)
LEMMA EscapedRead ==
  ASSUME NEW data, NEW off \in Nat, NEW w \in 0..1, NEW r \in 0..1, NEW b \in 0..1,
         NEW p, Prefixed(p, w, r, b), NEW n, NEW opc, TwoByteOpcode(opc, n),
         Holds(data, off, p \o Op(opc))
  PROVE  /\ D!Rex(data, off) = RexRead(p, w, r, b) /\ D!Opcode(data, off) = 256 + n
         /\ D!Rest(data, off) = off + Len(p \o Op(opc))
         /\ p \in Seq(Cells)
<1>1. 15 \in 0..255 /\ n \in 0..255 /\ opc = <<15, n>>
  BY DEF TwoByteOpcode
<1>2. Op(opc) \in Seq(Cells)
  BY <1>1, TwoBytes, Zenon
<1>3. CASE p = Op(<<PrefixOf(w, r, b)>>)
  <2>1. PrefixOf(w, r, b) \in 64..79 /\ PrefixOf(w, r, b) \in 0..255
    BY DEF PrefixOf
  <2>2. p \in Seq(Cells)
    BY <1>3, <2>1, OneByte
  <2>3. Holds(data, off, p) /\ Holds(data, off + Len(p), Op(opc)) /\ off + Len(p) \in Nat
    BY <1>2, <2>2, HoldsParts
  <2>4. D!ByteAt(data, off) = PrefixOf(w, r, b) /\ Len(p) = 1
    BY <1>3, <2>3, ByteHeld
  <2>5. D!ByteAt(data, off + 1) = 15 /\ D!ByteAt(data, off + 1 + 1) = n /\ Len(Op(opc)) = 2
    BY <1>1, <2>3, <2>4, BytesHeld
  <2>6. p # << >>
    <3>1. Len(p) # Len(<< >>)
      BY <2>4, EP!EmptyIsList
    <3> QED
      BY <3>1, Zenon
  <2>7. D!Rex(data, off) = PrefixOf(w, r, b) /\ D!Rex(data, off) # 0
    BY <2>1, <2>4 DEF D!Rex
  <2>8. D!OpcodeAt(data, off) = off + 1
    BY <2>7 DEF D!OpcodeAt
  <2>9. D!Escaped(data, off)
    BY <2>5, <2>8 DEF D!Escaped
  <2>10. Len(p \o Op(opc)) = 3
    <3>1. Len(p \o Op(opc)) = Len(p) + Len(Op(opc))
      BY <1>2, <2>2, LenJoined, Zenon
    <3>2. 1 + 2 = 3
      OBVIOUS
    <3> QED
      BY <2>4, <2>5, <3>1, <3>2, Zenon
  <2>11. D!Opcode(data, off) = 256 + n
    BY <2>5, <2>8, <2>9 DEF D!Opcode
  <2>12. D!Rest(data, off) = off + 3
    <3>1. D!Rest(data, off) = off + 1 + 2
      BY <2>8, <2>9 DEF D!Rest
    <3> QED
      BY <3>1
  <2>13. RexRead(p, w, r, b) = PrefixOf(w, r, b)
    BY <2>6 DEF RexRead
  <2> QED
    BY <2>2, <2>7, <2>10, <2>11, <2>12, <2>13
<1>4. CASE p = << >>
  <2>1. p \in Seq(Cells) /\ p \o Op(opc) = Op(opc)
    BY <1>2, <1>4, NoBytes, ConcatEmptySeq
  <2>2. D!ByteAt(data, off) = 15 /\ D!ByteAt(data, off + 1) = n /\ Len(Op(opc)) = 2
    BY <1>1, <2>1, BytesHeld
  <2>3. D!Rex(data, off) = 0
    BY <2>2 DEF D!Rex
  <2>4. D!OpcodeAt(data, off) = off
    BY <2>3 DEF D!OpcodeAt
  <2>5. D!Escaped(data, off)
    BY <2>2, <2>4 DEF D!Escaped
  <2> QED
    BY <1>4, <2>1, <2>2, <2>3, <2>4, <2>5 DEF D!Opcode, D!Rest, RexRead
<1> QED
  BY <1>3, <1>4 DEF Prefixed

(* The bits of a prefix are those it was made of. *)
LEMMA BitsRead ==
  ASSUME NEW w \in 0..1, NEW r \in 0..1, NEW b \in 0..1, NEW p, Prefixed(p, w, r, b)
  PROVE  LET v == RexRead(p, w, r, b)
         IN v \in Nat /\ D!Bit(v, 8) = w /\ D!Bit(v, 4) = r /\ D!Bit(v, 1) = b
<1> DEFINE v == RexRead(p, w, r, b)
<1>1. p = << >> => w = 0 /\ r = 0 /\ b = 0
  <2>1. Op(<<PrefixOf(w, r, b)>>) = [j \in 1..1 |-> <<PrefixOf(w, r, b)>>]
    BY DEF Op, Elf!Byte
  <2>2. Op(<<PrefixOf(w, r, b)>>) # << >>
    BY <2>1
  <2> QED
    BY <2>2 DEF Prefixed
<1>2. v = 64 + 8 * w + 4 * r + b \/ (v = 0 /\ w = 0 /\ r = 0 /\ b = 0)
  BY <1>1, Zenon DEF RexRead, PrefixOf
<1> HIDE DEF v
<1>3. v \in Nat /\ (v \div 8) % 2 = w /\ (v \div 4) % 2 = r /\ (v \div 1) % 2 = b
  BY <1>2
<1>4. D!Bit(v, 8) = w /\ D!Bit(v, 4) = r /\ D!Bit(v, 1) = b
  BY <1>3, Zenon DEF D!Bit
<1> QED
  BY <1>3, <1>4 DEF v

-----------------------------------------------------------------------------
(* Registers and the r/m field.                                            *)

GeneralRegisters == {Registers[n] : n \in DOMAIN Registers}

(* A register is that of its number. *)
LEMMA RegisterNumbers ==
  ASSUME NEW reg \in GeneralRegisters
  PROVE  /\ reg \in RegisterNames /\ reg # "none"
         /\ Num(reg) \in 0..15 /\ Num(reg) = RegLow(reg) + 8 * RegHigh(reg)
         /\ RegLow(reg) \in 0..7 /\ RegHigh(reg) \in 0..1
         /\ D!Numbered[Num(reg)] = reg
<1>1. reg \in RegisterNames
  BY DEF GeneralRegisters, RegisterNames
<1>2. Num(reg) \in 0..15 /\ RegLow(reg) \in 0..7 /\ RegHigh(reg) \in 0..1
  BY <1>1, NumIsNumber
<1>3. Num(reg) = RegLow(reg) + 8 * RegHigh(reg)
  BY <1>2 DEF RegLow, RegHigh
<1>4. reg # "none"
  BY DEF GeneralRegisters, Registers
<1>5. D!Numbered[Num(reg)] = reg
  <2>1. PICK n \in DOMAIN Registers : Registers[n] = reg
    BY DEF GeneralRegisters
  <2> DEFINE m == CHOOSE k \in DOMAIN Registers : Registers[k] = reg
  <2>2. m \in DOMAIN Registers /\ Registers[m] = reg
    <3> HIDE DEF Registers
    <3> QED
      BY <2>1
  <2>3. Num(reg) = m - 1
    BY <1>4 DEF Num
  <2>4. DOMAIN Registers = 1..16
    BY DEF Registers
  <2> HIDE DEF m
  <2>5. m - 1 \in 0..15 /\ (m - 1) + 1 = m
    BY <2>2, <2>4
  <2>6. D!Numbered[m - 1] = Registers[(m - 1) + 1]
    BY <2>5, Zenon DEF D!Numbered, Registers
  <2> QED
    BY <2>2, <2>3, <2>5, <2>6, Zenon
<1> QED
  BY <1>1, <1>2, <1>3, <1>4, <1>5

(* Without a prefix the byte registers 4 to 7 are others. *)
Readable(reg, width, v) == width = 1 /\ Num(reg) \in 4..7 => v # 0

(* A register of a width is read, by its low bits and its bit in the       *)
(* prefix.                                                                 *)
LEMMA RegisterRead ==
  ASSUME NEW reg \in GeneralRegisters, NEW width, NEW v, Readable(reg, width, v)
  PROVE  D!RegOperand(RegLow(reg) + 8 * RegHigh(reg), width, v) = RegWidth(reg, width)
<1>1. ~(width = 1 /\ Num(reg) \in 4..7 /\ v = 0)
  BY DEF Readable
<1>2. RegLow(reg) + 8 * RegHigh(reg) = Num(reg) /\ D!Numbered[Num(reg)] = reg
  BY RegisterNumbers
<1>3. D!RegOperand(Num(reg), width, v) = RegWidth(reg, width)
  BY <1>1, <1>2, Zenon DEF D!RegOperand, D!RegWidth, D!Operand, RegWidth, Operand
<1> QED
  BY <1>2, <1>3, Zenon

(* The three fields of a ModRM byte. *)
LEMMA ModRead ==
  ASSUME NEW data, NEW m, NEW mod \in 0..3, NEW reg \in 0..7, NEW rm \in 0..7,
         D!ByteAt(data, m) = mod * 64 + reg * 8 + rm
  PROVE  D!Field(data, m) = reg /\ D!ByteAt(data, m) \div 64 = mod /\ D!ByteAt(data, m) % 8 = rm
<1>1. PICK n \in 0..255 : n = mod * 64 + reg * 8 + rm
  OBVIOUS
<1>2. n \div 64 = mod /\ (n \div 8) % 8 = reg /\ n % 8 = rm
  BY <1>1
<1> QED
  BY <1>1, <1>2 DEF D!Field

(* A register in r/m is read. *)
LEMMA RegisterOperand ==
  ASSUME NEW data, NEW m \in Nat, NEW reg \in 0..7, NEW rm \in GeneralRegisters, NEW width, NEW v,
         Holds(data, m, ModRR(reg, rm)), D!Bit(v, 1) = RegHigh(rm),
         Readable(rm, width, v)
  PROVE  /\ D!Field(data, m) = reg
         /\ D!RMOperand(data, m, width, v) = [is |-> RegWidth(rm, width), end |-> m + 1]
<1>1. RegLow(rm) \in 0..7 /\ 3 \in 0..3
  BY RegisterNumbers
<1>2. D!ByteAt(data, m) = 3 * 64 + reg * 8 + RegLow(rm)
  BY ByteHeld DEF ModRR, ModRM
<1>3. D!Field(data, m) = reg /\ D!ByteAt(data, m) \div 64 = 3 /\ D!ByteAt(data, m) % 8 = RegLow(rm)
  BY <1>1, <1>2, ModRead
<1>4. D!RegOperand(RegLow(rm) + 8 * D!Bit(v, 1), width, v) = RegWidth(rm, width)
  BY RegisterRead
<1> QED
  BY <1>3, <1>4, Zenon DEF D!RMOperand

(* Mod 0, 1 or 2, with the SIB byte that %rsp and %r12 need. *)
LEMMA MemoryOperand ==
  ASSUME NEW data, NEW m \in Nat, NEW low \in 0..7, NEW mod \in 0..2, NEW width, NEW v,
         D!ByteAt(data, m) \div 64 = mod, D!ByteAt(data, m) % 8 = low,
         low = 4 => D!ByteAt(data, m + 1) = 36, ~(mod = 0 /\ low = 5),
         NEW size, size = IF mod = 0 THEN 0 ELSE IF mod = 1 THEN 1 ELSE 4,
         NEW disp, disp = m + (IF low = 4 THEN 2 ELSE 1),
         NEW val, val = IF size = 0 THEN 0 ELSE D!SignedAt(data, disp, size)
  PROVE  D!RMOperand(data, m, width, v) = [is |-> Mem(D!Numbered[low + 8 * D!Bit(v, 1)], val), end |-> disp + size]
<1> DEFINE sib  == D!ByteAt(data, m + 1)
           base == IF low = 4 THEN sib % 8 ELSE low
<1>1. base = low /\ (low = 4 => (sib \div 8) % 8 = 4)
  <2>1. 36 % 8 = 4 /\ (36 \div 8) % 8 = 4
    OBVIOUS
  <2> QED
    BY <2>1
<1>2. mod # 3 /\ (mod \notin {0, 1} => mod = 2)
  OBVIOUS
<1>3. (CASE mod = 0 /\ base = 5 -> 4 [] mod = 0 /\ base # 5 -> 0 [] mod = 1 -> 1 [] OTHER -> 4) = size
  BY <1>1
<1>4. \A x, y : x = y => D!Mem(x, val) = Mem(y, val)
  BY DEF D!Mem, D!Operand, Mem, Operand
<1>5. (CASE low = 4 /\ ((sib \div 8) % 8 # 4 \/ (mod = 0 /\ base = 5)) -> D!Unknown
         [] low = 5 /\ mod = 0 -> D!Rip(val)
         [] OTHER -> D!Mem(D!Numbered[base + 8 * D!Bit(v, 1)], val)) = Mem(D!Numbered[low + 8 * D!Bit(v, 1)], val)
  <2> HIDE DEF sib, base
  <2>1. ~(low = 4 /\ ((sib \div 8) % 8 # 4 \/ (mod = 0 /\ base = 5)))
    BY <1>1
  <2>2. ~(low = 5 /\ mod = 0)
    OBVIOUS
  <2> QED
    BY <1>1, <1>4, <2>1, <2>2, Zenon
<1> QED
  BY <1>2, <1>3, <1>5, Zenon DEF D!RMOperand

(* A register number and a memory operand are there, and the prefix is v. *)
MemoryAt(data, m, reg, base, val, v) ==
  /\ m \in Nat /\ reg \in 0..7 /\ base \in GeneralRegisters /\ val \in Int /\ InRange(val, 4)
  /\ Holds(data, m, EmitMem(reg, base, val)) /\ D!Bit(v, 1) = RegHigh(base)

(* A memory operand is read, with its displacement, and where it ends. *)
LEMMA NumberOperand ==
  ASSUME NEW data, NEW m, NEW reg, NEW base, NEW val, NEW v, MemoryAt(data, m, reg, base, val, v), NEW width
  PROVE  /\ D!Field(data, m) = reg
         /\ D!RMOperand(data, m, width, v) = [is |-> Mem(base, val), end |-> m + Len(EmitMem(reg, base, val))]
<1> USE DEF MemoryAt
<1> DEFINE mod  == IF val = 0 /\ RegLow(base) # 5 THEN 0 ELSE IF InRange(val, 1) THEN 1 ELSE 2
           sib  == IF RegLow(base) = 4 THEN Op(<<\h24>>) ELSE << >>
           rest == CASE mod = 0 -> << >> [] mod = 1 -> Emit(val, 1) [] mod = 2 -> Emit(val, 4)
           size == IF mod = 0 THEN 0 ELSE IF mod = 1 THEN 1 ELSE 4
           head == ModRM(mod, reg, RegLow(base))
           disp == m + (IF RegLow(base) = 4 THEN 2 ELSE 1)
<1>1. EmitMem(reg, base, val) = (head \o sib) \o rest
  BY DEF EmitMem
<1>2. mod \in {0, 1, 2} /\ mod \in 0..2 /\ mod \in 0..3 /\ ~(mod = 0 /\ RegLow(base) = 5)
  OBVIOUS
<1>3. RegLow(base) \in 0..7 /\ RegHigh(base) \in 0..1 /\ D!Numbered[RegLow(base) + 8 * RegHigh(base)] = base
  BY RegisterNumbers
<1>4. mod = 0 => val = 0
  OBVIOUS
<1>5. mod = 1 => InRange(val, 1)
  OBVIOUS
<1>6. rest = IF mod = 0 THEN << >> ELSE IF mod = 1 THEN Emit(val, 1) ELSE Emit(val, 4)
  <2> HIDE DEF mod
  <2> QED
    BY <1>2
<1>9. rest \in Seq(Cells) /\ Len(rest) = size
  <2>1. Emit(val, 1) \in Seq(Cells) /\ Len(Emit(val, 1)) = 1
    BY EmitIsCells
  <2>2. Emit(val, 4) \in Seq(Cells) /\ Len(Emit(val, 4)) = 4
    BY EmitIsCells
  <2>3. << >> \in Seq(Cells) /\ Len(<< >>) = 0
    BY EP!EmptyIsList, NoBytes
  <2> HIDE DEF mod, rest
  <2>4. CASE mod = 0
    BY <1>6, <2>3, <2>4
  <2>5. CASE mod = 1
    BY <1>6, <2>1, <2>5
  <2>6. CASE mod = 2
    BY <1>6, <2>2, <2>6
  <2> QED
    BY <1>2, <2>4, <2>5, <2>6
<1>7. sib \in Seq(Cells) /\ Len(sib) = IF RegLow(base) = 4 THEN 1 ELSE 0
  <2>1. Op(<<\h24>>) \in Seq(Cells) /\ Len(Op(<<\h24>>)) = 1
    <3>1. <<\h24>> \in Seq(0..255) /\ Len(<<\h24>>) = 1
      OBVIOUS
    <3> QED
      BY <3>1, OpIsCells, Zenon
  <2>2. << >> \in Seq(Cells) /\ Len(<< >>) = 0
    BY EP!EmptyIsList, NoBytes
  <2>3. CASE RegLow(base) = 4
    BY <2>1, <2>3
  <2>4. CASE RegLow(base) # 4
    BY <2>2, <2>4
  <2> QED
    BY <2>3, <2>4
<1>8. head \in Seq(Cells)
  BY <1>2, <1>3, ModIsCells
<1> HIDE DEF mod, sib, rest, size
<1>10. /\ Holds(data, m, head \o sib) /\ Holds(data, m + Len(head \o sib), rest)
       /\ Holds(data, m, head) /\ Holds(data, m + Len(head), sib)
  <2>1. head \o sib \in Seq(Cells)
    BY <1>7, <1>8, Joined
  <2>2. Holds(data, m, (head \o sib) \o rest)
    BY <1>1
  <2> HIDE DEF head
  <2>3. Holds(data, m, head \o sib) /\ Holds(data, m + Len(head \o sib), rest)
    BY <1>9, <2>1, <2>2, HoldsParts
  <2> QED
    BY <1>7, <1>8, <2>3, HoldsParts
<1>11. D!ByteAt(data, m) = mod * 64 + reg * 8 + RegLow(base) /\ Len(head) = 1
  BY <1>10, ByteHeld DEF ModRM
<1>12. D!Field(data, m) = reg /\ D!ByteAt(data, m) \div 64 = mod /\ D!ByteAt(data, m) % 8 = RegLow(base)
  BY <1>2, <1>3, <1>11, ModRead
<1>13. RegLow(base) = 4 => D!ByteAt(data, m + 1) = 36
  <2>1. RegLow(base) = 4 => sib = Op(<<36>>)
    BY DEF sib
  <2> QED
    BY <1>10, <1>11, <2>1, ByteHeld
<1>14. m + Len(head \o sib) = disp /\ disp \in Nat
  <2>1. Len(head \o sib) = Len(head) + Len(sib)
    BY <1>7, <1>8, LenJoined
  <2> HIDE DEF head
  <2> QED
    BY <1>7, <1>11, <2>1
<1>15. val = IF size = 0 THEN 0 ELSE D!SignedAt(data, disp, size)
  <2>1. mod = 1 => D!SignedAt(data, disp, 1) = val
    BY <1>5, <1>6, <1>10, <1>14, DigitsRead
  <2>2. mod = 2 => D!SignedAt(data, disp, 4) = val
    BY <1>6, <1>10, <1>14, DigitsRead
  <2> HIDE DEF disp
  <2> QED
    BY <1>2, <1>4, <2>1, <2>2 DEF size
<1>16. D!RMOperand(data, m, width, v) = [is |-> Mem(D!Numbered[RegLow(base) + 8 * D!Bit(v, 1)], val), end |-> disp + size]
  <2>1. size = IF mod = 0 THEN 0 ELSE IF mod = 1 THEN 1 ELSE 4
    BY DEF size
  <2> HIDE DEF head
  <2> QED
    BY <1>2, <1>3, <1>12, <1>13, <1>15, <2>1, MemoryOperand
<1>17. disp + size = m + Len(EmitMem(reg, base, val))
  <2>1. head \o sib \in Seq(Cells)
    BY <1>7, <1>8, Joined
  <2>2. Len((head \o sib) \o rest) = Len(head \o sib) + Len(rest)
    BY <1>9, <2>1, LenJoined
  <2>3. Len(head \o sib) \in Nat /\ size \in Nat
    BY <1>9, <2>1, LenJoined
  <2> HIDE DEF head, disp
  <2> QED
    BY <1>1, <1>9, <1>14, <2>2, <2>3
<1> QED
  BY <1>3, <1>12, <1>16, <1>17

(* An operand relative to the next instruction is read. *)
LEMMA RipOperand ==
  ASSUME NEW data, NEW m \in Nat, NEW reg \in 0..7, Holds(data, m, ModRM(0, reg, 5)), NEW width, NEW v
  PROVE  /\ D!Field(data, m) = reg
         /\ D!RMOperand(data, m, width, v).is = Rip(D!SignedAt(data, m + 1, 4))
         /\ D!RMOperand(data, m, width, v).end = m + 5
<1>1. D!ByteAt(data, m) = 0 * 64 + reg * 8 + 5 /\ 0 \in 0..3 /\ 5 \in 0..7
  BY ByteHeld DEF ModRM
<1>2. D!Field(data, m) = reg /\ D!ByteAt(data, m) \div 64 = 0 /\ D!ByteAt(data, m) % 8 = 5
  BY <1>1, ModRead
<1>3. D!RMOperand(data, m, width, v) = [is |-> D!Rip(D!SignedAt(data, m + 1, 4)), end |-> m + 1 + 4]
  <2>1. 5 # 4 /\ 0 # 3 /\ 0 # 1 /\ 4 # 0
    OBVIOUS
  <2> QED
    BY <1>2, <2>1, Zenon DEF D!RMOperand
<1>4. m + 1 + 4 = m + 5
  OBVIOUS
<1>5. D!Rip(D!SignedAt(data, m + 1, 4)) = Rip(D!SignedAt(data, m + 1, 4))
  BY DEF D!Rip, D!Operand, Rip, Operand
<1> QED
  BY <1>2, <1>3, <1>4, <1>5

-----------------------------------------------------------------------------
(* Opcodes.                                                                *)

(* The opcodes of the tables of the processor. *)
LEMMA TableNumbers ==
  /\ \A n : D!In(D!ReadsRM, n) <=> n \in {139, 141, 431}
  /\ \A n : D!In(D!ReadsRM8, n) <=> n \in {446, 438}
  /\ \A n : D!In(D!WritesRM, n) <=> n \in {1, 41, 57, 137}
  /\ \A n : D!In(D!Group1, n) <=> n \in {0, 5, 7}
  /\ \A n : D!In(D!Group3, n) <=> n \in {3, 7}
  /\ \A n : D!In(D!SetsRM8, n) <=> n \in {404, 405, 412, 414}
  /\ \A n : D!In(D!Jumps, n) <=> n \in {232, 233, 388, 389}
<1>1. \A n : D!In(D!ReadsRM, n) <=> n \in {139, 141, 431}
  BY DEF D!In, D!ReadsRM
<1>2. \A n : D!In(D!ReadsRM8, n) <=> n \in {446, 438}
  BY DEF D!In, D!ReadsRM8
<1>3. \A n : D!In(D!WritesRM, n) <=> n \in {1, 41, 57, 137}
  BY DEF D!In, D!WritesRM
<1>4. \A n : D!In(D!Group1, n) <=> n \in {0, 5, 7}
  BY DEF D!In, D!Group1
<1>5. \A n : D!In(D!Group3, n) <=> n \in {3, 7}
  BY DEF D!In, D!Group3
<1>6. \A n : D!In(D!SetsRM8, n) <=> n \in {404, 405, 412, 414}
  BY DEF D!In, D!SetsRM8
<1>7. \A n : D!In(D!Jumps, n) <=> n \in {232, 233, 388, 389}
  BY DEF D!In, D!Jumps
<1> QED
  BY <1>1, <1>2, <1>3, <1>4, <1>5, <1>6, <1>7, Zenon

(* The operations these opcodes stand for. *)
LEMMA TableOperations ==
  /\ D!OpOf(D!ReadsRM, 139) = "MOV" /\ D!OpOf(D!ReadsRM, 141) = "LEA" /\ D!OpOf(D!ReadsRM, 431) = "IMUL"
  /\ D!OpOf(D!ReadsRM8, 446) = "MOVSX" /\ D!OpOf(D!ReadsRM8, 438) = "MOVZB"
  /\ D!OpOf(D!WritesRM, 1) = "ADD" /\ D!OpOf(D!WritesRM, 41) = "SUB" /\ D!OpOf(D!WritesRM, 57) = "CMP" /\ D!OpOf(D!WritesRM, 137) = "MOV"
  /\ D!OpOf(D!Group1, 0) = "ADD" /\ D!OpOf(D!Group1, 5) = "SUB" /\ D!OpOf(D!Group1, 7) = "CMP"
  /\ D!OpOf(D!Group3, 3) = "NEG" /\ D!OpOf(D!Group3, 7) = "IDIV"
  /\ D!OpOf(D!SetsRM8, 404) = "SETE" /\ D!OpOf(D!SetsRM8, 405) = "SETNE" /\ D!OpOf(D!SetsRM8, 412) = "SETL" /\ D!OpOf(D!SetsRM8, 414) = "SETLE"
  /\ D!OpOf(D!Jumps, 232) = "CALL" /\ D!OpOf(D!Jumps, 233) = "JMP" /\ D!OpOf(D!Jumps, 388) = "JE" /\ D!OpOf(D!Jumps, 389) = "JNE"
<1>1. D!OpOf(D!ReadsRM, 139) = "MOV" /\ D!OpOf(D!ReadsRM, 141) = "LEA" /\ D!OpOf(D!ReadsRM, 431) = "IMUL"
  BY DEF D!OpOf, D!ReadsRM
<1>2. D!OpOf(D!ReadsRM8, 446) = "MOVSX" /\ D!OpOf(D!ReadsRM8, 438) = "MOVZB"
  BY DEF D!OpOf, D!ReadsRM8
<1>3. D!OpOf(D!WritesRM, 1) = "ADD" /\ D!OpOf(D!WritesRM, 41) = "SUB" /\ D!OpOf(D!WritesRM, 57) = "CMP" /\ D!OpOf(D!WritesRM, 137) = "MOV"
  BY DEF D!OpOf, D!WritesRM
<1>4. D!OpOf(D!Group1, 0) = "ADD" /\ D!OpOf(D!Group1, 5) = "SUB" /\ D!OpOf(D!Group1, 7) = "CMP"
  BY DEF D!OpOf, D!Group1
<1>5. D!OpOf(D!Group3, 3) = "NEG" /\ D!OpOf(D!Group3, 7) = "IDIV"
  BY DEF D!OpOf, D!Group3
<1>6. D!OpOf(D!SetsRM8, 404) = "SETE" /\ D!OpOf(D!SetsRM8, 405) = "SETNE" /\ D!OpOf(D!SetsRM8, 412) = "SETL" /\ D!OpOf(D!SetsRM8, 414) = "SETLE"
  BY DEF D!OpOf, D!SetsRM8
<1>7. D!OpOf(D!Jumps, 232) = "CALL" /\ D!OpOf(D!Jumps, 233) = "JMP" /\ D!OpOf(D!Jumps, 388) = "JE" /\ D!OpOf(D!Jumps, 389) = "JNE"
  BY DEF D!OpOf, D!Jumps
<1> QED
  BY <1>1, <1>2, <1>3, <1>4, <1>5, <1>6, <1>7

(* The arms of Meaning, by the opcodes they are for. *)
LEMMA Meanings ==
  ASSUME NEW data, NEW m, NEW rex, NEW opcode \in Nat
  PROVE  LET width     == IF D!Bit(rex, 8) = 1 THEN 8 ELSE 4
             field     == D!Field(data, m)
             reg(size)   == D!RegOperand(field + 8 * D!Bit(rex, 4), size, rex)
             RM(size)  == D!RMOperand(data, m, size, rex).is
             end       == D!RMOperand(data, m, 8, rex).end
             low(size) == D!RegOperand((opcode % 8) + 8 * D!Bit(rex, 1), size, rex)
         IN /\ opcode \in {139, 141, 431} =>
                 D!Meaning(data, m, rex, opcode) = D!Is(D!Instr(D!OpOf(D!ReadsRM, opcode), reg(width), RM(width)), end)
            /\ opcode \in {446, 438} =>
                 D!Meaning(data, m, rex, opcode) = D!Is(D!Instr(D!OpOf(D!ReadsRM8, opcode), reg(width), D!Sized(RM(1), 1)), end)
            /\ opcode = 99 =>
                 D!Meaning(data, m, rex, opcode) = D!Is(D!Instr("MOVSX", reg(width), D!Sized(RM(4), 4)), end)
            /\ opcode \in {1, 41, 57, 137} =>
                 D!Meaning(data, m, rex, opcode) = D!Is(D!Instr(D!OpOf(D!WritesRM, opcode), RM(width), reg(width)), end)
            /\ opcode = 136 =>
                 D!Meaning(data, m, rex, opcode) = D!Is(D!Instr("MOV", RM(1), reg(1)), end)
            /\ opcode = 129 /\ field \in {0, 5, 7} =>
                 D!Meaning(data, m, rex, opcode) = D!Is(D!Instr(D!OpOf(D!Group1, field), D!Sized(RM(width), width), D!Imm(D!SignedAt(data, end, 4))), end + 4)
            /\ opcode = 199 /\ field = 0 =>
                 D!Meaning(data, m, rex, opcode) = D!Is(D!Instr("MOV", D!Sized(RM(width), width), D!Imm(D!SignedAt(data, end, 4))), end + 4)
            /\ opcode \in 184..191 =>
                 D!Meaning(data, m, rex, opcode) = D!Is(D!Instr("MOV", low(width), D!Imm(D!SignedAt(data, m, width))), m + width)
            /\ opcode \in 176..183 =>
                 D!Meaning(data, m, rex, opcode) = D!Is(D!Instr("MOV", low(1), D!Imm(D!SignedAt(data, m, 1))), m + 1)
            /\ opcode = 247 /\ field \in {3, 7} =>
                 D!Meaning(data, m, rex, opcode) = D!Is(D!One(D!OpOf(D!Group3, field), D!Sized(RM(width), width)), end)
            /\ opcode \in {404, 405, 412, 414} =>
                 D!Meaning(data, m, rex, opcode) = D!Is(D!One(D!OpOf(D!SetsRM8, opcode), RM(1)), end)
            /\ opcode \in 80..87 =>
                 D!Meaning(data, m, rex, opcode) = D!Is(D!One("PUSH", low(8)), m)
            /\ opcode \in 88..95 =>
                 D!Meaning(data, m, rex, opcode) = D!Is(D!One("POP", low(8)), m)
            /\ opcode \in {232, 233, 388, 389} =>
                 D!Meaning(data, m, rex, opcode) = D!Is(D!One(D!OpOf(D!Jumps, opcode), D!Target(D!SignedAt(data, m, 4))), m + 4)
            /\ opcode = 153 /\ D!Bit(rex, 8) = 1 =>
                 D!Meaning(data, m, rex, opcode) = D!Is(D!One("CQO", D!NoOperand), m)
            /\ opcode = 195 =>
                 D!Meaning(data, m, rex, opcode) = D!Is(D!One("RET", D!NoOperand), m)
            /\ opcode = 261 =>
                 D!Meaning(data, m, rex, opcode) = D!Is(D!One("SYSCALL", D!NoOperand), m)
<1> DEFINE width     == IF D!Bit(rex, 8) = 1 THEN 8 ELSE 4
           field     == D!Field(data, m)
           reg(size)   == D!RegOperand(field + 8 * D!Bit(rex, 4), size, rex)
           RM(size)  == D!RMOperand(data, m, size, rex).is
           end       == D!RMOperand(data, m, 8, rex).end
           low(size) == D!RegOperand((opcode % 8) + 8 * D!Bit(rex, 1), size, rex)
<1>1. ASSUME opcode \in {139, 141, 431}
      PROVE  D!Meaning(data, m, rex, opcode) = D!Is(D!Instr(D!OpOf(D!ReadsRM, opcode), reg(width), RM(width)), end)
  BY <1>1, TableNumbers DEF D!Meaning
<1>2. ASSUME opcode \in {446, 438}
      PROVE  D!Meaning(data, m, rex, opcode) = D!Is(D!Instr(D!OpOf(D!ReadsRM8, opcode), reg(width), D!Sized(RM(1), 1)), end)
  BY <1>2, TableNumbers DEF D!Meaning
<1>3. ASSUME opcode = 99
      PROVE  D!Meaning(data, m, rex, opcode) = D!Is(D!Instr("MOVSX", reg(width), D!Sized(RM(4), 4)), end)
  BY <1>3, TableNumbers DEF D!Meaning
<1>4. ASSUME opcode \in {1, 41, 57, 137}
      PROVE  D!Meaning(data, m, rex, opcode) = D!Is(D!Instr(D!OpOf(D!WritesRM, opcode), RM(width), reg(width)), end)
  BY <1>4, TableNumbers DEF D!Meaning
<1>5. ASSUME opcode = 136
      PROVE  D!Meaning(data, m, rex, opcode) = D!Is(D!Instr("MOV", RM(1), reg(1)), end)
  BY <1>5, TableNumbers DEF D!Meaning
<1>6. ASSUME opcode = 129 /\ field \in {0, 5, 7}
      PROVE  D!Meaning(data, m, rex, opcode) = D!Is(D!Instr(D!OpOf(D!Group1, field), D!Sized(RM(width), width), D!Imm(D!SignedAt(data, end, 4))), end + 4)
  BY <1>6, TableNumbers DEF D!Meaning
<1>7. ASSUME opcode = 199 /\ field = 0
      PROVE  D!Meaning(data, m, rex, opcode) = D!Is(D!Instr("MOV", D!Sized(RM(width), width), D!Imm(D!SignedAt(data, end, 4))), end + 4)
  BY <1>7, TableNumbers DEF D!Meaning
<1>8. ASSUME opcode \in 184..191
      PROVE  D!Meaning(data, m, rex, opcode) = D!Is(D!Instr("MOV", low(width), D!Imm(D!SignedAt(data, m, width))), m + width)
  BY <1>8, TableNumbers DEF D!Meaning
<1>9. ASSUME opcode \in 176..183
      PROVE  D!Meaning(data, m, rex, opcode) = D!Is(D!Instr("MOV", low(1), D!Imm(D!SignedAt(data, m, 1))), m + 1)
  BY <1>9, TableNumbers DEF D!Meaning
<1>10. ASSUME opcode = 247 /\ field \in {3, 7}
      PROVE  D!Meaning(data, m, rex, opcode) = D!Is(D!One(D!OpOf(D!Group3, field), D!Sized(RM(width), width)), end)
  BY <1>10, TableNumbers DEF D!Meaning
<1>11. ASSUME opcode \in {404, 405, 412, 414}
      PROVE  D!Meaning(data, m, rex, opcode) = D!Is(D!One(D!OpOf(D!SetsRM8, opcode), RM(1)), end)
  BY <1>11, TableNumbers DEF D!Meaning
<1>12. ASSUME opcode \in 80..87
      PROVE  D!Meaning(data, m, rex, opcode) = D!Is(D!One("PUSH", low(8)), m)
  BY <1>12, TableNumbers DEF D!Meaning
<1>13. ASSUME opcode \in 88..95
      PROVE  D!Meaning(data, m, rex, opcode) = D!Is(D!One("POP", low(8)), m)
  BY <1>13, TableNumbers DEF D!Meaning
<1>14. ASSUME opcode \in {232, 233, 388, 389}
      PROVE  D!Meaning(data, m, rex, opcode) = D!Is(D!One(D!OpOf(D!Jumps, opcode), D!Target(D!SignedAt(data, m, 4))), m + 4)
  BY <1>14, TableNumbers DEF D!Meaning
<1>15. ASSUME opcode = 153 /\ D!Bit(rex, 8) = 1
      PROVE  D!Meaning(data, m, rex, opcode) = D!Is(D!One("CQO", D!NoOperand), m)
  BY <1>15, TableNumbers DEF D!Meaning
<1>16. ASSUME opcode = 195
      PROVE  D!Meaning(data, m, rex, opcode) = D!Is(D!One("RET", D!NoOperand), m)
  BY <1>16, TableNumbers DEF D!Meaning
<1>17. ASSUME opcode = 261
      PROVE  D!Meaning(data, m, rex, opcode) = D!Is(D!One("SYSCALL", D!NoOperand), m)
  BY <1>17, TableNumbers DEF D!Meaning
<1> QED
  BY <1>1, <1>2, <1>3, <1>4, <1>5, <1>6, <1>7, <1>8, <1>9, <1>10, <1>11, <1>12, <1>13, <1>14, <1>15, <1>16, <1>17

-----------------------------------------------------------------------------
(* Prefix, opcode and what follows them.                                   *)

Opcoded(opc, o) ==
  \/ opc = <<o>> /\ OneByteOpcode(o)
  \/ \E n : o = 256 + n /\ TwoByteOpcode(opc, n)

(* Bytes at off begin with a prefix of these bits and an opcode, and are   *)
(* read so: the rest is at m, and what ends there ends the instruction.    *)
ReadSo(data, off, bytes, o, rest, m, v, w, r, b) ==
  /\ D!Decoded(data, off) = D!Meaning(data, m, v, o)
  /\ D!Bit(v, 8) = w /\ D!Bit(v, 4) = r /\ D!Bit(v, 1) = b
  /\ Holds(data, m, rest) /\ off + Len(bytes) = m + Len(rest)

(* What the encoder puts together, the processor takes apart. *)
LEMMA InstructionParts ==
  ASSUME NEW data, NEW off \in Nat, NEW w \in 0..1, NEW r \in 0..1, NEW b \in 0..1,
         NEW p, Prefixed(p, w, r, b), NEW o, NEW opc, Opcoded(opc, o), NEW rest \in Seq(Cells),
         Holds(data, off, p \o Op(opc) \o rest)
  PROVE  \E m, v \in Nat : /\ ReadSo(data, off, p \o Op(opc) \o rest, o, rest, m, v, w, r, b)
                           /\ p # << >> => v # 0
<1> DEFINE v == RexRead(p, w, r, b)
           m == off + Len(p \o Op(opc))
<1>1. Op(opc) \in Seq(Cells) /\ p \in Seq(Cells)
  <2>1. CASE opc = <<o>> /\ OneByteOpcode(o)
    <3>1. o \in 0..255
      BY <2>1 DEF OneByteOpcode
    <3> QED
      BY <2>1, <3>1, OneByte, PrefixCells
  <2>2. ASSUME NEW n, TwoByteOpcode(opc, n)
        PROVE  Op(opc) \in Seq(Cells)
    <3>1. n \in 0..255 /\ 15 \in 0..255 /\ opc = <<15, n>>
      BY <2>2 DEF TwoByteOpcode
    <3> QED
      BY <3>1, TwoBytes, Zenon
  <2> QED
    BY <2>1, <2>2, PrefixCells DEF Opcoded
<1>2. p \o Op(opc) \in Seq(Cells)
  BY <1>1, Joined
<1>3. /\ Holds(data, off, p \o Op(opc)) /\ Holds(data, m, rest) /\ m \in Nat
  BY <1>2, HoldsParts
<1>4. D!Rex(data, off) = v /\ D!Opcode(data, off) = o /\ D!Rest(data, off) = m
  <2>1. CASE opc = <<o>> /\ OneByteOpcode(o)
    <3>1. Holds(data, off, p \o Op(<<o>>)) /\ m = off + Len(p \o Op(<<o>>)) /\ OneByteOpcode(o)
      BY <1>3, <2>1, Zenon
    <3>2. /\ D!Rex(data, off) = RexRead(p, w, r, b) /\ D!Opcode(data, off) = o
          /\ D!Rest(data, off) = off + Len(p \o Op(<<o>>))
      <4> HIDE DEF m, v
      <4> QED
        BY <3>1, PrefixRead
    <3> QED
      BY <3>1, <3>2, Zenon
  <2>2. ASSUME NEW n, o = 256 + n, TwoByteOpcode(opc, n)
        PROVE  D!Rex(data, off) = v /\ D!Opcode(data, off) = o /\ D!Rest(data, off) = m
    <3> HIDE DEF m, v
    <3>1. /\ D!Rex(data, off) = RexRead(p, w, r, b) /\ D!Opcode(data, off) = 256 + n
          /\ D!Rest(data, off) = off + Len(p \o Op(opc))
      BY <1>3, <2>2, EscapedRead
    <3> QED
      BY <2>2, <3>1 DEF m, v
  <2> QED
    BY <2>1, <2>2 DEF Opcoded
<1>5. off + Len(p \o Op(opc) \o rest) = m + Len(rest)
  <2>1. /\ Len(p \o Op(opc) \o rest) = Len(p \o Op(opc)) + Len(rest)
        /\ Len(p \o Op(opc)) \in Nat /\ Len(rest) \in Nat
    BY <1>2, LenJoined
  <2> QED
    BY <2>1
<1>6. v \in Nat /\ D!Bit(v, 8) = w /\ D!Bit(v, 4) = r /\ D!Bit(v, 1) = b
  BY BitsRead
<1>7. p # << >> => v # 0
  BY DEF RexRead, PrefixOf
<1> HIDE DEF v, m
<1>8. ReadSo(data, off, p \o Op(opc) \o rest, o, rest, m, v, w, r, b)
  BY <1>3, <1>4, <1>5, <1>6, Zenon DEF ReadSo, D!Decoded
<1> QED
  BY <1>3, <1>6, <1>7, <1>8

(* One byte is some bytes. *)
LEMMA OneByteIsSome == \A n : Op(<<n>>) # << >>
<1> SUFFICES ASSUME NEW n
             PROVE  Op(<<n>>) # << >>
  OBVIOUS
<1>1. Op(<<n>>) = [j \in 1..1 |-> <<<<n>>[j]>>]
  BY DEF Op, Elf!Byte
<1> QED
  BY <1>1

(* The prefixes of enc.c. *)
LEMMA WidePrefix ==
  ASSUME NEW r \in 0..1, NEW b \in 0..1
  PROVE  Prefixed(RexW(r, b), 1, r, b) /\ RexW(r, b) # << >>
<1>1. PrefixOf(1, r, b) = \h48 + 4 * r + b
  BY DEF PrefixOf
<1>2. RexW(r, b) = Op(<<PrefixOf(1, r, b)>>)
  BY <1>1 DEF RexW
<1> QED
  BY <1>2, OneByteIsSome DEF Prefixed

(* EmitRex sets W for eight bytes, and R and B for high registers. *)
LEMMA RegisterPrefix ==
  ASSUME NEW width, NEW reg \in GeneralRegisters, NEW rm \in GeneralRegisters
  PROVE  /\ Prefixed(Rex(width, reg, rm), IF width = 8 THEN 1 ELSE 0, RegHigh(reg), RegHigh(rm))
         /\ width = 1 /\ Num(reg) \in 4..7 => Rex(width, reg, rm) # << >>
<1> DEFINE w == IF width = 8 THEN 1 ELSE 0
           bits == (IF width = 8 THEN 8 ELSE 0) + 4 * RegHigh(reg) + RegHigh(rm)
<1>1. w \in 0..1 /\ RegHigh(reg) \in 0..1 /\ RegHigh(rm) \in 0..1
  BY RegisterNumbers
<1>2. PrefixOf(w, RegHigh(reg), RegHigh(rm)) = \h40 + bits
  BY <1>1 DEF PrefixOf
<1>3. bits = 0 => w = 0 /\ RegHigh(reg) = 0 /\ RegHigh(rm) = 0
  BY <1>1
<1>4. Rex(width, reg, rm) = IF bits # 0 \/ (width = 1 /\ Num(reg) \in 4..7) THEN Op(<<\h40 + bits>>) ELSE << >>
  BY DEF Rex
<1> HIDE DEF w, bits
<1>5. Rex(width, reg, rm) = Op(<<PrefixOf(w, RegHigh(reg), RegHigh(rm))>>) \/ (Rex(width, reg, rm) = << >> /\ bits = 0)
  BY <1>2, <1>4
<1>6. width = 1 /\ Num(reg) \in 4..7 => Rex(width, reg, rm) # << >>
  BY <1>4, OneByteIsSome, Zenon
<1>7. Prefixed(Rex(width, reg, rm), w, RegHigh(reg), RegHigh(rm))
  BY <1>3, <1>5, Zenon DEF Prefixed
<1> QED
  BY <1>6, <1>7 DEF w

(* Where there is no width, B is set for a high register. *)
LEMMA OneRegisterPrefix ==
  ASSUME NEW reg \in GeneralRegisters, NEW low \in BOOLEAN
  PROVE  /\ Prefixed(RexB(reg, low), 0, 0, RegHigh(reg))
         /\ low /\ Num(reg) \in 4..7 => RexB(reg, low) # << >>
<1>1. Num(reg) \in 0..15 /\ RegHigh(reg) \in 0..1 /\ Num(reg) = RegLow(reg) + 8 * RegHigh(reg) /\ RegLow(reg) \in 0..7
  BY RegisterNumbers
<1>2. CASE Num(reg) >= 8
  <2>1. RegHigh(reg) = 1
    BY <1>1, <1>2
  <2>2. PrefixOf(0, 0, 1) = \h41
    BY DEF PrefixOf
  <2>3. RexB(reg, low) = Op(<<\h41>>)
    BY <1>2 DEF RexB
  <2>4. ~(Num(reg) \in 4..7)
    BY <1>2
  <2> QED
    BY <2>1, <2>2, <2>3, <2>4 DEF Prefixed
<1>3. CASE ~(Num(reg) >= 8)
  <2>1. RegHigh(reg) = 0
    BY <1>1, <1>3
  <2>2. PrefixOf(0, 0, 0) = \h40
    BY DEF PrefixOf
  <2>3. RexB(reg, low) = IF low /\ Num(reg) >= 4 THEN Op(<<\h40>>) ELSE << >>
    BY <1>3 DEF RexB
  <2>4. Num(reg) \in 4..7 => Num(reg) >= 4
    OBVIOUS
  <2>5. Prefixed(RexB(reg, low), 0, 0, 0)
    BY <2>2, <2>3, Zenon DEF Prefixed
  <2>6. low /\ Num(reg) \in 4..7 => RexB(reg, low) # << >>
    BY <2>3, <2>4, OneByteIsSome, Zenon
  <2> QED
    BY <2>1, <2>5, <2>6
<1> QED
  BY <1>2, <1>3

(* The constructors of asm.c are the same for a processor. *)
LEMMA SameItems ==
  /\ \A op, dst, src : D!Instr(op, dst, src) = Instr(op, dst, src)
  /\ \A op, dst : D!One(op, dst) = Instr(op, dst, NoOperand)
  /\ \A ins, end : D!Is(ins, end) = [ins |-> ins, end |-> end]
  /\ \A val : D!Imm(val) = Imm(val)
  /\ \A val : D!Target(val) = Target(val)
  /\ D!NoOperand = NoOperand
BY DEF D!Instr, D!Item, Instr, Item, D!One, D!NoOperand, D!Operand, NoOperand, Operand, D!Is, D!Imm, Imm,
       D!Target, Target

(* A size said of memory changes no register. *)
LEMMA SizedRegister ==
  ASSUME NEW reg, NEW width, NEW size
  PROVE  D!Sized(RegWidth(reg, width), size) = RegWidth(reg, width)
BY DEF D!Sized, RegWidth, Operand

(* A size said of memory is its width. *)
LEMMA SizedMemory ==
  ASSUME NEW base, NEW val, NEW size
  PROVE  D!Sized(Mem(base, val), size) = [Mem(base, val) EXCEPT !.width = size]
BY DEF D!Sized, Mem, Operand

-----------------------------------------------------------------------------
(* The forms of instructions.                                              *)

ReadAs(data, off, bytes, ins) == D!Decoded(data, off) = [ins |-> ins, end |-> off + Len(bytes)]

(* A ModRM byte is one byte. *)
LEMMA ModPart ==
  ASSUME NEW reg \in 0..7, NEW rm \in GeneralRegisters
  PROVE  ModRR(reg, rm) \in Seq(Cells) /\ Len(ModRR(reg, rm)) = 1
<1>1. Op(<<3 * 64 + reg * 8 + RegLow(rm)>>) = [j \in 1..1 |-> <<<<3 * 64 + reg * 8 + RegLow(rm)>>[j]>>]
  BY DEF Op, Elf!Byte
<1>2. Len(ModRR(reg, rm)) = 1
  BY <1>1 DEF ModRR, ModRM
<1>3. rm \in RegisterNames
  BY RegisterNumbers
<1> QED
  BY <1>2, <1>3, ModIsCells

(* An instruction with a register in r/m and a number in reg, and one with *)
(* registers in both.                                                      *)
OneRegister(data, off, bytes, o, m, v, w, r, grp, rm, width) ==
  /\ off \in Nat /\ m \in Nat /\ grp \in 0..7 /\ rm \in GeneralRegisters
  /\ ReadSo(data, off, bytes, o, ModRR(grp, rm), m, v, w, r, RegHigh(rm))
  /\ Readable(rm, width, v)

BothRegisters(data, off, bytes, o, m, v, w, reg, rm, width) ==
  /\ OneRegister(data, off, bytes, o, m, v, w, RegHigh(reg), RegLow(reg), rm, width)
  /\ reg \in GeneralRegisters /\ Readable(reg, width, v)

(* What is read of an instruction with one register. *)
LEMMA GroupRegister ==
  ASSUME NEW data, NEW off, NEW bytes, NEW o, NEW m, NEW v, NEW w, NEW r, NEW grp, NEW rm, NEW width,
         OneRegister(data, off, bytes, o, m, v, w, r, grp, rm, width)
  PROVE  /\ D!Field(data, m) = grp
         /\ D!RMOperand(data, m, width, v).is = RegWidth(rm, width)
         /\ D!RMOperand(data, m, width, v).end = off + Len(bytes)
<1>1. /\ off \in Nat /\ m \in Nat /\ grp \in 0..7 /\ rm \in GeneralRegisters
      /\ Holds(data, m, ModRR(grp, rm)) /\ D!Bit(v, 1) = RegHigh(rm)
      /\ off + Len(bytes) = m + Len(ModRR(grp, rm)) /\ Readable(rm, width, v)
  BY DEF OneRegister, ReadSo
<1>2. /\ D!Field(data, m) = grp
      /\ D!RMOperand(data, m, width, v) = [is |-> RegWidth(rm, width), end |-> m + 1]
  BY <1>1, RegisterOperand
<1>3. off + Len(bytes) = m + 1
  BY <1>1, ModPart
<1>4. /\ [is |-> RegWidth(rm, width), end |-> m + 1].is = RegWidth(rm, width)
      /\ [is |-> RegWidth(rm, width), end |-> m + 1].end = m + 1
  OBVIOUS
<1> QED
  BY <1>2, <1>3, <1>4, Zenon

(* What is read of an instruction between two registers. *)
LEMMA TwoRegisters ==
  ASSUME NEW data, NEW off, NEW bytes, NEW o, NEW m, NEW v, NEW w, NEW reg, NEW rm, NEW width,
         BothRegisters(data, off, bytes, o, m, v, w, reg, rm, width)
  PROVE  /\ D!RegOperand(D!Field(data, m) + 8 * D!Bit(v, 4), width, v) = RegWidth(reg, width)
         /\ D!RMOperand(data, m, width, v).is = RegWidth(rm, width)
         /\ D!RMOperand(data, m, width, v).end = off + Len(bytes)
<1>1. OneRegister(data, off, bytes, o, m, v, w, RegHigh(reg), RegLow(reg), rm, width)
  BY DEF BothRegisters
<1>2. /\ D!Field(data, m) = RegLow(reg)
      /\ D!RMOperand(data, m, width, v).is = RegWidth(rm, width)
      /\ D!RMOperand(data, m, width, v).end = off + Len(bytes)
  BY <1>1, GroupRegister
<1>3. D!RegOperand(RegLow(reg) + 8 * RegHigh(reg), width, v) = RegWidth(reg, width)
  BY RegisterRead DEF BothRegisters
<1>4. D!Bit(v, 4) = RegHigh(reg)
  BY <1>1 DEF OneRegister, ReadSo
<1> QED
  BY <1>2, <1>3, <1>4, Zenon

(* An instruction decoded at its place was read. *)
LEMMA InstructionRead ==
  ASSUME NEW data, NEW off, NEW bytes, NEW op, NEW dst, NEW src,
         D!Decoded(data, off) = D!Is(D!Instr(op, dst, src), off + Len(bytes))
  PROVE  ReadAs(data, off, bytes, Instr(op, dst, src))
BY SameItems, Zenon DEF ReadAs

(* Between registers, the one read in reg. *)
LEMMA RRIsRead ==
  ASSUME NEW data, NEW off \in Nat, NEW src \in GeneralRegisters, NEW dst \in GeneralRegisters,
         NEW n \in {1, 41, 57, 137}, Holds(data, off, EmitRR(<<n>>, src, dst))
  PROVE  ReadAs(data, off, EmitRR(<<n>>, src, dst), Instr(D!OpOf(D!WritesRM, n), Reg64(dst), Reg64(src)))
<1> DEFINE rest == ModRR(RegLow(src), dst)
           p == RexW(RegHigh(src), RegHigh(dst))
           bytes == EmitRR(<<n>>, src, dst)
<1>1. RegLow(src) \in 0..7 /\ RegHigh(src) \in 0..1 /\ RegHigh(dst) \in 0..1
  BY RegisterNumbers
<1>2. rest \in Seq(Cells)
  BY <1>1, ModPart
<1>3. PICK opc : opc = <<n>>
  OBVIOUS
<1>4. Opcoded(opc, n)
  BY <1>3 DEF Opcoded, OneByteOpcode
<1>5. bytes = p \o Op(opc) \o rest /\ Holds(data, off, p \o Op(opc) \o rest)
  BY <1>3, Zenon DEF EmitRR
<1>6. Prefixed(p, 1, RegHigh(src), RegHigh(dst)) /\ p # << >> /\ 1 \in 0..1
  BY <1>1, WidePrefix
<1> HIDE DEF rest, bytes, p
<1>7. PICK m, v \in Nat : ReadSo(data, off, bytes, n, rest, m, v, 1, RegHigh(src), RegHigh(dst)) /\ v # 0
  BY <1>1, <1>2, <1>4, <1>5, <1>6, InstructionParts
<1>8. /\ D!RegOperand(D!Field(data, m) + 8 * D!Bit(v, 4), 8, v) = RegWidth(src, 8)
      /\ D!RMOperand(data, m, 8, v).is = RegWidth(dst, 8)
      /\ D!RMOperand(data, m, 8, v).end = off + Len(bytes)
  <2>1. BothRegisters(data, off, bytes, n, m, v, 1, src, dst, 8)
    BY <1>1, <1>7, Zenon DEF rest, BothRegisters, OneRegister, Readable
  <2> QED
    BY <2>1, TwoRegisters
<1>9. D!Decoded(data, off) = D!Meaning(data, m, v, n) /\ D!Bit(v, 8) = 1
  BY <1>7 DEF ReadSo
<1>10. D!Meaning(data, m, v, n) =
        D!Is(D!Instr(D!OpOf(D!WritesRM, n), D!RMOperand(data, m, 8, v).is,
                     D!RegOperand(D!Field(data, m) + 8 * D!Bit(v, 4), 8, v)), D!RMOperand(data, m, 8, v).end)
  BY <1>9, Meanings
<1> QED
  BY <1>8, <1>9, <1>10, SameItems, Zenon DEF ReadAs, Reg64, bytes

(* Between registers, the one read in r/m: IMUL and MOVZB. *)
LEMMA RMIsRead ==
  ASSUME NEW data, NEW off \in Nat, NEW src \in GeneralRegisters, NEW dst \in GeneralRegisters,
         NEW n \in {175, 182}, Holds(data, off, EmitRM(<<15, n>>, src, dst))
  PROVE  ReadAs(data, off, EmitRM(<<15, n>>, src, dst),
                IF n = 175 THEN Instr("IMUL", Reg64(dst), Reg64(src)) ELSE Instr("MOVZB", Reg64(dst), Reg8(src)))
<1> DEFINE rest == ModRR(RegLow(dst), src)
           p == RexW(RegHigh(dst), RegHigh(src))
           bytes == EmitRM(<<15, n>>, src, dst)
<1>1. RegLow(dst) \in 0..7 /\ RegHigh(src) \in 0..1 /\ RegHigh(dst) \in 0..1
  BY RegisterNumbers
<1>2. rest \in Seq(Cells)
  BY <1>1, ModPart
<1>3. PICK opc, o : opc = <<15, n>> /\ o = 256 + n
  OBVIOUS
<1>4. Opcoded(opc, o) /\ o \in Nat
  <2>1. TwoByteOpcode(opc, n)
    BY <1>3 DEF TwoByteOpcode
  <2> QED
    BY <1>3, <2>1 DEF Opcoded
<1>5. bytes = p \o Op(opc) \o rest /\ Holds(data, off, p \o Op(opc) \o rest)
  BY <1>3, Zenon DEF EmitRM
<1>6. Prefixed(p, 1, RegHigh(dst), RegHigh(src)) /\ p # << >> /\ 1 \in 0..1
  BY <1>1, WidePrefix
<1> HIDE DEF rest, bytes, p
<1>7. PICK m, v \in Nat : ReadSo(data, off, bytes, o, rest, m, v, 1, RegHigh(dst), RegHigh(src)) /\ v # 0
  BY <1>1, <1>2, <1>4, <1>5, <1>6, InstructionParts
<1>8. /\ D!RegOperand(D!Field(data, m) + 8 * D!Bit(v, 4), 8, v) = RegWidth(dst, 8)
      /\ D!RMOperand(data, m, 8, v).is = RegWidth(src, 8)
      /\ D!RMOperand(data, m, 1, v).is = RegWidth(src, 1)
      /\ D!RMOperand(data, m, 8, v).end = off + Len(bytes)
  <2>1. /\ BothRegisters(data, off, bytes, o, m, v, 1, dst, src, 8)
        /\ BothRegisters(data, off, bytes, o, m, v, 1, dst, src, 1)
    BY <1>1, <1>7, Zenon DEF rest, BothRegisters, OneRegister, Readable
  <2> QED
    BY <2>1, TwoRegisters
<1>9. D!Decoded(data, off) = D!Meaning(data, m, v, o) /\ D!Bit(v, 8) = 1
  BY <1>7 DEF ReadSo
<1>10. CASE n = 175
  <2>1. o = 431
    BY <1>3, <1>10
  <2>2. D!Meaning(data, m, v, o) =
          D!Is(D!Instr(D!OpOf(D!ReadsRM, o), D!RegOperand(D!Field(data, m) + 8 * D!Bit(v, 4), 8, v),
                       D!RMOperand(data, m, 8, v).is), D!RMOperand(data, m, 8, v).end)
    BY <1>4, <1>9, <2>1, Meanings
  <2>3. D!OpOf(D!ReadsRM, o) = "IMUL"
    BY <2>1, TableOperations
  <2> QED
    BY <1>8, <1>9, <1>10, <2>2, <2>3, SameItems, Zenon DEF ReadAs, Reg64, bytes
<1>11. CASE n = 182
  <2>1. o = 438
    BY <1>3, <1>11
  <2>2. D!Meaning(data, m, v, o) =
          D!Is(D!Instr(D!OpOf(D!ReadsRM8, o), D!RegOperand(D!Field(data, m) + 8 * D!Bit(v, 4), 8, v),
                       D!Sized(D!RMOperand(data, m, 1, v).is, 1)), D!RMOperand(data, m, 8, v).end)
    BY <1>4, <1>9, <2>1, Meanings
  <2>3. D!OpOf(D!ReadsRM8, o) = "MOVZB" /\ 182 # 175
    BY <2>1, TableOperations
  <2>4. D!Sized(D!RMOperand(data, m, 1, v).is, 1) = RegWidth(src, 1)
    <3>1. D!Sized(RegWidth(src, 1), 1) = RegWidth(src, 1)
      BY SizedRegister
    <3> QED
      BY <1>8, <3>1, Zenon
  <2>5. D!Decoded(data, off) = D!Is(D!Instr("MOVZB", RegWidth(dst, 8), RegWidth(src, 1)), off + Len(bytes))
    BY <1>8, <1>9, <2>2, <2>3, <2>4, Zenon
  <2> QED
    BY <1>11, <2>3, <2>5, InstructionRead, Zenon DEF Reg64, Reg8, bytes
<1> QED
  BY <1>10, <1>11

(* A register and a number. *)
LEMMA GrpImmIsRead ==
  ASSUME NEW data, NEW off \in Nat, NEW dst \in GeneralRegisters, NEW grp \in {0, 5, 7},
         NEW imm \in Int, InRange(imm, 4), Holds(data, off, EmitGrpImm(grp, imm, dst))
  PROVE  ReadAs(data, off, EmitGrpImm(grp, imm, dst), Instr(D!OpOf(D!Group1, grp), Reg64(dst), Imm(imm)))
<1> DEFINE rest == ModRR(grp, dst)
           p == RexW(0, RegHigh(dst))
           head == p \o Op(<<129>>) \o rest
           bytes == EmitGrpImm(grp, imm, dst)
<1>1. RegHigh(dst) \in 0..1 /\ grp \in 0..7 /\ 0 \in 0..1 /\ 1 \in 0..1 /\ 129 \in Nat
  BY RegisterNumbers
<1>2. rest \in Seq(Cells) /\ Len(rest) = 1
  BY <1>1, ModPart
<1>3. Opcoded(<<129>>, 129) /\ Op(<<129>>) \in Seq(Cells)
  BY OneByte DEF Opcoded, OneByteOpcode
<1>4. bytes = head \o Emit(imm, 4) /\ Holds(data, off, head \o Emit(imm, 4))
  BY DEF EmitGrpImm
<1>5. Prefixed(p, 1, 0, RegHigh(dst)) /\ p # << >> /\ p \in Seq(Cells)
  BY <1>1, WidePrefix, PrefixCells
<1>6. Emit(imm, 4) \in Seq(Cells) /\ Len(Emit(imm, 4)) = 4
  BY EmitIsCells
<1> HIDE DEF rest, bytes, p
<1>7. head \in Seq(Cells)
  BY <1>2, <1>3, <1>5, Joined
<1>8. Holds(data, off, head) /\ Holds(data, off + Len(head), Emit(imm, 4)) /\ off + Len(head) \in Nat
  BY <1>4, <1>6, <1>7, HoldsParts
<1>9. PICK m, v \in Nat : ReadSo(data, off, head, 129, rest, m, v, 1, 0, RegHigh(dst)) /\ v # 0
  BY <1>1, <1>2, <1>3, <1>5, <1>8, InstructionParts
<1> HIDE DEF head
<1>10. ReadSo(data, off, head, 129, ModRR(grp, dst), m, v, 1, 0, RegHigh(dst))
  BY <1>9 DEF rest
<1>11. /\ D!Field(data, m) = grp
       /\ D!RMOperand(data, m, 8, v).is = RegWidth(dst, 8)
       /\ D!RMOperand(data, m, 8, v).end = off + Len(head)
  <2>1. OneRegister(data, off, head, 129, m, v, 1, 0, grp, dst, 8)
    BY <1>1, <1>9, <1>10, Zenon DEF OneRegister, Readable
  <2> QED
    BY <2>1, GroupRegister
<1>12. D!SignedAt(data, off + Len(head), 4) = imm
  BY <1>8, DigitsRead
<1>13. D!Decoded(data, off) = D!Meaning(data, m, v, 129) /\ D!Bit(v, 8) = 1
  BY <1>9 DEF ReadSo
<1>14. D!Meaning(data, m, v, 129) =
         D!Is(D!Instr(D!OpOf(D!Group1, D!Field(data, m)), D!Sized(D!RMOperand(data, m, 8, v).is, 8),
                      D!Imm(D!SignedAt(data, D!RMOperand(data, m, 8, v).end, 4))), D!RMOperand(data, m, 8, v).end + 4)
  BY <1>1, <1>11, <1>13, Meanings
<1>15. off + Len(bytes) = off + Len(head) + 4
  <2>1. Len(bytes) = Len(head) + 4 /\ Len(head) \in Nat
    BY <1>4, <1>6, <1>7, LenJoined
  <2> QED
    BY <2>1
<1>16. D!Sized(D!RMOperand(data, m, 8, v).is, 8) = RegWidth(dst, 8)
  <2>1. D!Sized(RegWidth(dst, 8), 8) = RegWidth(dst, 8)
    BY SizedRegister
  <2> QED
    BY <1>11, <2>1, Zenon
<1>17. D!Decoded(data, off) = D!Is(D!Instr(D!OpOf(D!Group1, grp), RegWidth(dst, 8), Imm(imm)), off + Len(bytes))
  <2>1. D!Imm(D!SignedAt(data, off + Len(head), 4)) = Imm(imm)
    BY <1>12, SameItems, Zenon
  <2> QED
    BY <1>11, <1>13, <1>14, <1>15, <1>16, <2>1, Zenon
<1> QED
  BY <1>17, InstructionRead, Zenon DEF Reg64, bytes

(* And so was one with a single operand. *)
LEMMA OneRead ==
  ASSUME NEW data, NEW off, NEW bytes, NEW op, NEW dst, D!Decoded(data, off) = D!Is(D!One(op, dst), off + Len(bytes))
  PROVE  ReadAs(data, off, bytes, Instr(op, dst, NoOperand))
BY SameItems, Zenon DEF ReadAs

(* NEG and IDIV (enc.c:232). *)
LEMMA GrpUnaryIsRead ==
  ASSUME NEW data, NEW off \in Nat, NEW dst \in GeneralRegisters, NEW grp \in {3, 7},
         Holds(data, off, EmitGrpUnary(grp, dst))
  PROVE  ReadAs(data, off, EmitGrpUnary(grp, dst), Instr(D!OpOf(D!Group3, grp), Reg64(dst), NoOperand))
<1> DEFINE rest == ModRR(grp, dst)
           p == RexW(0, RegHigh(dst))
           bytes == EmitGrpUnary(grp, dst)
<1>1. RegHigh(dst) \in 0..1 /\ grp \in 0..7 /\ 0 \in 0..1 /\ 1 \in 0..1 /\ 247 \in Nat
  BY RegisterNumbers
<1>2. rest \in Seq(Cells)
  BY <1>1, ModPart
<1>3. Opcoded(<<247>>, 247)
  BY DEF Opcoded, OneByteOpcode
<1>4. bytes = p \o Op(<<247>>) \o rest /\ Holds(data, off, p \o Op(<<247>>) \o rest)
  BY DEF EmitGrpUnary
<1>5. Prefixed(p, 1, 0, RegHigh(dst)) /\ p # << >>
  BY <1>1, WidePrefix
<1> HIDE DEF rest, bytes, p
<1>6. PICK m, v \in Nat : ReadSo(data, off, bytes, 247, rest, m, v, 1, 0, RegHigh(dst)) /\ v # 0
  BY <1>1, <1>2, <1>3, <1>4, <1>5, InstructionParts
<1>7. /\ D!Field(data, m) = grp
      /\ D!RMOperand(data, m, 8, v).is = RegWidth(dst, 8)
      /\ D!RMOperand(data, m, 8, v).end = off + Len(bytes)
  <2>1. OneRegister(data, off, bytes, 247, m, v, 1, 0, grp, dst, 8)
    BY <1>1, <1>6, Zenon DEF rest, OneRegister, Readable
  <2> QED
    BY <2>1, GroupRegister
<1>8. D!Decoded(data, off) = D!Meaning(data, m, v, 247) /\ D!Bit(v, 8) = 1
  BY <1>6 DEF ReadSo
<1>9. D!Meaning(data, m, v, 247) =
        D!Is(D!One(D!OpOf(D!Group3, D!Field(data, m)), D!Sized(D!RMOperand(data, m, 8, v).is, 8)),
             D!RMOperand(data, m, 8, v).end)
  BY <1>1, <1>7, <1>8, Meanings
<1>10. D!Sized(RegWidth(dst, 8), 8) = RegWidth(dst, 8)
  BY SizedRegister
<1>11. D!Decoded(data, off) = D!Is(D!One(D!OpOf(D!Group3, grp), RegWidth(dst, 8)), off + Len(bytes))
  BY <1>7, <1>8, <1>9, <1>10, Zenon
<1> QED
  BY <1>11, OneRead, Zenon DEF Reg64, bytes

(* The register of a byte register in r/m alone. *)
SetBytes(n, dst) == RexB(dst, TRUE) \o Op(<<15, n>>) \o ModRR(0, dst)

(* SETcc (enc.c:240). *)
LEMMA SetIsRead ==
  ASSUME NEW data, NEW off \in Nat, NEW dst \in GeneralRegisters, NEW n \in {148, 149, 156, 158},
         Holds(data, off, SetBytes(n, dst))
  PROVE  ReadAs(data, off, SetBytes(n, dst),
                Instr(D!OpOf(D!SetsRM8, 256 + n), Reg8(dst), NoOperand))
<1> DEFINE rest == ModRR(0, dst)
           p == RexB(dst, TRUE)
           bytes == SetBytes(n, dst)
<1>1. RegHigh(dst) \in 0..1 /\ 0 \in 0..7 /\ 0 \in 0..1 /\ TRUE \in BOOLEAN
  BY RegisterNumbers
<1>2. rest \in Seq(Cells)
  BY <1>1, ModPart
<1>3. PICK opc, o : opc = <<15, n>> /\ o = 256 + n
  OBVIOUS
<1>4. Opcoded(opc, o) /\ o \in {404, 405, 412, 414} /\ o \in Nat
  <2>1. TwoByteOpcode(opc, n)
    BY <1>3 DEF TwoByteOpcode
  <2> QED
    BY <1>3, <2>1 DEF Opcoded
<1>5. bytes = p \o Op(opc) \o rest /\ Holds(data, off, p \o Op(opc) \o rest)
  BY <1>3, Zenon DEF SetBytes
<1>6. Prefixed(p, 0, 0, RegHigh(dst)) /\ (Num(dst) \in 4..7 => p # << >>)
  BY <1>1, OneRegisterPrefix
<1> HIDE DEF rest, bytes, p
<1>7. PICK m, v \in Nat : ReadSo(data, off, bytes, o, rest, m, v, 0, 0, RegHigh(dst)) /\ (p # << >> => v # 0)
  BY <1>1, <1>2, <1>4, <1>5, <1>6, InstructionParts
<1>8. /\ D!RMOperand(data, m, 1, v).is = RegWidth(dst, 1)
      /\ D!RMOperand(data, m, 8, v).end = off + Len(bytes)
  <2>1. Readable(dst, 1, v) /\ Readable(dst, 8, v)
    BY <1>6, <1>7 DEF Readable
  <2>2. OneRegister(data, off, bytes, o, m, v, 0, 0, 0, dst, 1) /\ OneRegister(data, off, bytes, o, m, v, 0, 0, 0, dst, 8)
    BY <1>1, <1>7, <2>1, Zenon DEF rest, OneRegister
  <2> QED
    BY <2>2, GroupRegister
<1>9. D!Decoded(data, off) = D!Meaning(data, m, v, o)
  BY <1>7 DEF ReadSo
<1>10. D!Meaning(data, m, v, o) =
        D!Is(D!One(D!OpOf(D!SetsRM8, o), D!RMOperand(data, m, 1, v).is), D!RMOperand(data, m, 8, v).end)
  BY <1>4, Meanings
<1>11. D!Decoded(data, off) = D!Is(D!One(D!OpOf(D!SetsRM8, o), RegWidth(dst, 1)), off + Len(bytes))
  BY <1>8, <1>9, <1>10, Zenon
<1> QED
  BY <1>3, <1>11, OneRead, Zenon DEF Reg8, bytes

(* The register in the opcode. *)
LEMMA LowRegister ==
  ASSUME NEW dst \in GeneralRegisters, NEW v, D!Bit(v, 1) = RegHigh(dst), NEW width, Readable(dst, width, v),
         NEW n \in Nat, n % 8 = 0
  PROVE  D!RegOperand(((n + RegLow(dst)) % 8) + 8 * D!Bit(v, 1), width, v) = RegWidth(dst, width)
<1>1. RegLow(dst) \in 0..7
  BY RegisterNumbers
<1>2. (n + RegLow(dst)) % 8 = RegLow(dst)
  BY <1>1
<1>3. D!RegOperand(RegLow(dst) + 8 * RegHigh(dst), width, v) = RegWidth(dst, width)
  BY RegisterRead
<1> QED
  BY <1>2, <1>3, Zenon

(* A byte moved into a register (enc.c:182). *)
LEMMA MovImm8IsRead ==
  ASSUME NEW data, NEW off \in Nat, NEW dst \in GeneralRegisters, NEW imm \in Int, InRange(imm, 1),
         Holds(data, off, EmitMovImm8(imm, dst))
  PROVE  ReadAs(data, off, EmitMovImm8(imm, dst), Instr("MOV", Reg8(dst), Imm(imm)))
<1> DEFINE rest == Emit(imm, 1)
           p == RexB(dst, TRUE)
           o == 176 + RegLow(dst)
           bytes == EmitMovImm8(imm, dst)
<1>1. RegHigh(dst) \in 0..1 /\ RegLow(dst) \in 0..7 /\ 0 \in 0..1 /\ TRUE \in BOOLEAN
  BY RegisterNumbers
<1>2. rest \in Seq(Cells) /\ Len(rest) = 1
  BY EmitIsCells
<1>3. o \in 176..183 /\ o \in Nat /\ 176 \in Nat /\ 176 % 8 = 0
  BY <1>1
<1>4. bytes = p \o Op(<<o>>) \o rest /\ Holds(data, off, p \o Op(<<o>>) \o rest)
  BY DEF EmitMovImm8
<1>5. Prefixed(p, 0, 0, RegHigh(dst)) /\ (Num(dst) \in 4..7 => p # << >>)
  BY <1>1, OneRegisterPrefix
<1> HIDE DEF rest, bytes, p, o
<1>6. Opcoded(<<o>>, o)
  BY <1>3 DEF Opcoded, OneByteOpcode
<1>7. PICK m, v \in Nat : ReadSo(data, off, bytes, o, rest, m, v, 0, 0, RegHigh(dst)) /\ (p # << >> => v # 0)
  BY <1>1, <1>2, <1>4, <1>5, <1>6, InstructionParts
<1>8. Holds(data, m, Emit(imm, 1)) /\ D!Bit(v, 1) = RegHigh(dst) /\ off + Len(bytes) = m + 1
  BY <1>2, <1>7 DEF ReadSo, rest
<1>9. D!SignedAt(data, m, 1) = imm
  BY <1>8, DigitsRead
<1>10. D!RegOperand((o % 8) + 8 * D!Bit(v, 1), 1, v) = RegWidth(dst, 1)
  <2>1. Readable(dst, 1, v)
    BY <1>5, <1>7 DEF Readable
  <2> QED
    BY <1>3, <1>8, <2>1, LowRegister DEF o
<1>11. D!Meaning(data, m, v, o) =
         D!Is(D!Instr("MOV", D!RegOperand((o % 8) + 8 * D!Bit(v, 1), 1, v), D!Imm(D!SignedAt(data, m, 1))), m + 1)
  BY <1>3, Meanings
<1>12. D!Decoded(data, off) = D!Meaning(data, m, v, o)
  BY <1>7 DEF ReadSo
<1>13. D!Decoded(data, off) = D!Is(D!Instr("MOV", RegWidth(dst, 1), Imm(imm)), off + Len(bytes))
  BY <1>8, <1>9, <1>10, <1>11, <1>12, SameItems, Zenon
<1> QED
  BY <1>13, InstructionRead, Zenon DEF Reg8, bytes

StackBytes(n, dst) == RexB(dst, FALSE) \o Op(<<n + RegLow(dst)>>)

(* PUSH and POP (enc.c:390). *)
LEMMA StackIsRead ==
  ASSUME NEW data, NEW off \in Nat, NEW dst \in GeneralRegisters, NEW n \in {80, 88},
         Holds(data, off, StackBytes(n, dst))
  PROVE  ReadAs(data, off, StackBytes(n, dst),
                Instr(IF n = 80 THEN "PUSH" ELSE "POP", Reg64(dst), NoOperand))
<1> DEFINE p == RexB(dst, FALSE)
           o == n + RegLow(dst)
           bytes == StackBytes(n, dst)
<1>1. RegHigh(dst) \in 0..1 /\ RegLow(dst) \in 0..7 /\ 0 \in 0..1 /\ FALSE \in BOOLEAN
  BY RegisterNumbers
<1>2. << >> \in Seq(Cells) /\ Len(<< >>) = 0
  BY NoBytes, EP!EmptyIsList
<1>3. (n = 80 => o \in 80..87) /\ (n = 88 => o \in 88..95) /\ o \in Nat /\ o \in 0..255 /\ n \in Nat /\ n % 8 = 0
  BY <1>1
<1>4. Prefixed(p, 0, 0, RegHigh(dst))
  BY <1>1, OneRegisterPrefix
<1>5. bytes = p \o Op(<<o>>) \o << >>
  <2>1. p \in Seq(Cells) /\ Op(<<o>>) \in Seq(Cells)
    <3> HIDE DEF p, o
    <3> QED
      BY <1>1, <1>3, <1>4, OneByte, PrefixCells
  <2>2. p \o Op(<<o>>) \in Seq(Cells)
    <3> HIDE DEF p, o
    <3> QED
      BY <2>1, Joined
  <2>3. bytes = p \o Op(<<o>>)
    BY DEF StackBytes
  <2> HIDE DEF p, o, bytes
  <2> QED
    BY <2>2, <2>3, ConcatEmptySeq
<1>6. Holds(data, off, bytes)
  OBVIOUS
<1> HIDE DEF bytes, p, o
<1>7. Opcoded(<<o>>, o)
  BY <1>3 DEF Opcoded, OneByteOpcode
<1>8. PICK m, v \in Nat : ReadSo(data, off, bytes, o, << >>, m, v, 0, 0, RegHigh(dst))
  BY <1>1, <1>2, <1>4, <1>5, <1>6, <1>7, InstructionParts
<1>9. D!Bit(v, 1) = RegHigh(dst) /\ off + Len(bytes) = m /\ D!Decoded(data, off) = D!Meaning(data, m, v, o)
  BY <1>2, <1>8 DEF ReadSo
<1>10. D!RegOperand((o % 8) + 8 * D!Bit(v, 1), 8, v) = RegWidth(dst, 8)
  <2>1. Readable(dst, 8, v)
    BY DEF Readable
  <2> QED
    BY <1>3, <1>9, <2>1, LowRegister DEF o
<1>11. CASE n = 80
  <2>1. D!Meaning(data, m, v, o) = D!Is(D!One("PUSH", D!RegOperand((o % 8) + 8 * D!Bit(v, 1), 8, v)), m)
    BY <1>3, <1>11, Meanings
  <2>2. D!Decoded(data, off) = D!Is(D!One("PUSH", RegWidth(dst, 8)), off + Len(bytes))
    BY <1>9, <1>10, <2>1, Zenon
  <2> QED
    BY <1>11, <2>2, OneRead, Zenon DEF Reg64, bytes
<1>12. CASE n = 88
  <2>1. D!Meaning(data, m, v, o) = D!Is(D!One("POP", D!RegOperand((o % 8) + 8 * D!Bit(v, 1), 8, v)), m)
    BY <1>3, <1>12, Meanings
  <2>2. D!Decoded(data, off) = D!Is(D!One("POP", RegWidth(dst, 8)), off + Len(bytes))
    BY <1>9, <1>10, <2>1, Zenon
  <2>3. 88 # 80
    OBVIOUS
  <2> QED
    BY <1>12, <2>2, <2>3, OneRead, Zenon DEF Reg64, bytes
<1> QED
  BY <1>11, <1>12

(* Concatenation may be grouped. *)
LEMMA Grouping ==
  ASSUME NEW s \in Seq(Cells), NEW t \in Seq(Cells), NEW u \in Seq(Cells)
  PROVE  s \o (t \o u) = (s \o t) \o u
BY ConcatAssociative

(* The two forms of EmitMovImm. *)
ShortMov(imm, dst) == RexW(0, RegHigh(dst)) \o Op(<<199>>) \o ModRR(0, dst) \o Emit(imm, 4)
LongMov(imm, dst)  == RexW(0, RegHigh(dst)) \o Op(<<184 + RegLow(dst)>>) \o Emit(imm, 8)

(* The form with four bytes, which the processor extends. *)
LEMMA ShortMovIsRead ==
  ASSUME NEW data, NEW off \in Nat, NEW dst \in GeneralRegisters, NEW imm \in Int, InRange(imm, 4),
         Holds(data, off, ShortMov(imm, dst))
  PROVE  ReadAs(data, off, ShortMov(imm, dst), Instr("MOV", Reg64(dst), Imm(imm)))
<1> DEFINE rest == ModRR(0, dst)
           p == RexW(0, RegHigh(dst))
           head == p \o Op(<<199>>) \o rest
           bytes == ShortMov(imm, dst)
<1>1. RegHigh(dst) \in 0..1 /\ 0 \in 0..7 /\ 0 \in 0..1 /\ 1 \in 0..1 /\ 199 \in Nat
  BY RegisterNumbers
<1>2. rest \in Seq(Cells)
  BY <1>1, ModPart
<1>3. Opcoded(<<199>>, 199) /\ Op(<<199>>) \in Seq(Cells)
  BY OneByte DEF Opcoded, OneByteOpcode
<1>4. bytes = head \o Emit(imm, 4) /\ Holds(data, off, head \o Emit(imm, 4))
  BY DEF ShortMov
<1>5. Prefixed(p, 1, 0, RegHigh(dst)) /\ p # << >> /\ p \in Seq(Cells)
  BY <1>1, WidePrefix, PrefixCells
<1>6. Emit(imm, 4) \in Seq(Cells) /\ Len(Emit(imm, 4)) = 4
  BY EmitIsCells
<1> HIDE DEF rest, p, bytes
<1>7. head \in Seq(Cells)
  BY <1>2, <1>3, <1>5, Joined
<1>8. Holds(data, off, head) /\ Holds(data, off + Len(head), Emit(imm, 4)) /\ off + Len(head) \in Nat
  BY <1>4, <1>6, <1>7, HoldsParts
<1>9. PICK m, v \in Nat : ReadSo(data, off, head, 199, rest, m, v, 1, 0, RegHigh(dst)) /\ v # 0
  BY <1>1, <1>2, <1>3, <1>5, <1>8, InstructionParts
<1> HIDE DEF head
<1>11. /\ D!Field(data, m) = 0
       /\ D!RMOperand(data, m, 8, v).is = RegWidth(dst, 8)
       /\ D!RMOperand(data, m, 8, v).end = off + Len(head)
  <2>1. OneRegister(data, off, head, 199, m, v, 1, 0, 0, dst, 8)
    BY <1>1, <1>9, Zenon DEF OneRegister, Readable, rest
  <2> QED
    BY <2>1, GroupRegister
<1>12. D!SignedAt(data, off + Len(head), 4) = imm
  BY <1>8, DigitsRead
<1>13. D!Decoded(data, off) = D!Meaning(data, m, v, 199) /\ D!Bit(v, 8) = 1
  BY <1>9 DEF ReadSo
<1>14. D!Meaning(data, m, v, 199) =
         D!Is(D!Instr("MOV", D!Sized(D!RMOperand(data, m, 8, v).is, 8),
                      D!Imm(D!SignedAt(data, D!RMOperand(data, m, 8, v).end, 4))), D!RMOperand(data, m, 8, v).end + 4)
  BY <1>1, <1>11, <1>13, Meanings
<1>15. off + Len(bytes) = off + Len(head) + 4
  <2>1. Len(bytes) = Len(head) + 4 /\ Len(head) \in Nat
    BY <1>4, <1>6, <1>7, LenJoined
  <2> QED
    BY <2>1
<1>16. D!Sized(D!RMOperand(data, m, 8, v).is, 8) = RegWidth(dst, 8)
  <2>1. D!Sized(RegWidth(dst, 8), 8) = RegWidth(dst, 8)
    BY SizedRegister
  <2> QED
    BY <1>11, <2>1, Zenon
<1>17. D!Decoded(data, off) = D!Is(D!Instr("MOV", RegWidth(dst, 8), Imm(imm)), off + Len(bytes))
  <2>1. D!Imm(D!SignedAt(data, off + Len(head), 4)) = Imm(imm)
    BY <1>12, SameItems, Zenon
  <2> QED
    BY <1>11, <1>13, <1>14, <1>15, <1>16, <2>1, Zenon
<1> QED
  BY <1>17, InstructionRead, Zenon DEF Reg64, bytes

(* The form with eight bytes. *)
LEMMA LongMovIsRead ==
  ASSUME NEW data, NEW off \in Nat, NEW dst \in GeneralRegisters, NEW imm \in Int, InRange(imm, 8),
         Holds(data, off, LongMov(imm, dst))
  PROVE  ReadAs(data, off, LongMov(imm, dst), Instr("MOV", Reg64(dst), Imm(imm)))
<1> DEFINE rest == Emit(imm, 8)
           p == RexW(0, RegHigh(dst))
           o == 184 + RegLow(dst)
           bytes == LongMov(imm, dst)
<1>1. RegHigh(dst) \in 0..1 /\ RegLow(dst) \in 0..7 /\ 0 \in 0..1 /\ 1 \in 0..1
  BY RegisterNumbers
<1>2. rest \in Seq(Cells) /\ Len(rest) = 8
  BY EmitIsCells
<1>3. o \in 184..191 /\ o \in Nat /\ 184 \in Nat /\ 184 % 8 = 0
  BY <1>1
<1>4. bytes = p \o Op(<<o>>) \o rest /\ Holds(data, off, p \o Op(<<o>>) \o rest)
  BY DEF LongMov
<1>5. Prefixed(p, 1, 0, RegHigh(dst)) /\ p # << >>
  BY <1>1, WidePrefix
<1> HIDE DEF rest, p, o, bytes
<1>6. Opcoded(<<o>>, o)
  BY <1>3 DEF Opcoded, OneByteOpcode
<1>7. PICK m, v \in Nat : ReadSo(data, off, bytes, o, rest, m, v, 1, 0, RegHigh(dst))
  BY <1>1, <1>2, <1>4, <1>5, <1>6, InstructionParts
<1>8. /\ Holds(data, m, Emit(imm, 8)) /\ D!Bit(v, 1) = RegHigh(dst) /\ D!Bit(v, 8) = 1
      /\ off + Len(bytes) = m + 8
  BY <1>2, <1>7 DEF ReadSo, rest
<1>9. D!SignedAt(data, m, 8) = imm
  BY <1>8, DigitsRead
<1>10. D!RegOperand((o % 8) + 8 * D!Bit(v, 1), 8, v) = RegWidth(dst, 8)
  <2>1. Readable(dst, 8, v)
    BY DEF Readable
  <2> QED
    BY <1>3, <1>8, <2>1, LowRegister DEF o
<1>11. D!Meaning(data, m, v, o) =
         D!Is(D!Instr("MOV", D!RegOperand((o % 8) + 8 * D!Bit(v, 1), 8, v), D!Imm(D!SignedAt(data, m, 8))), m + 8)
  BY <1>3, <1>8, Meanings
<1>12. D!Decoded(data, off) = D!Meaning(data, m, v, o)
  BY <1>7 DEF ReadSo
<1>13. D!Decoded(data, off) = D!Is(D!Instr("MOV", RegWidth(dst, 8), Imm(imm)), off + Len(bytes))
  BY <1>8, <1>9, <1>10, <1>11, <1>12, SameItems, Zenon
<1> QED
  BY <1>13, InstructionRead, Zenon DEF Reg64, bytes

(* A number moved into a register, in whichever form has room for it       *)
(* (enc.c:152).                                                            *)
LEMMA MovImmIsRead ==
  ASSUME NEW data, NEW off \in Nat, NEW dst \in GeneralRegisters, NEW imm \in Int, InRange(imm, 8),
         Holds(data, off, EmitMovImm(imm, dst))
  PROVE  ReadAs(data, off, EmitMovImm(imm, dst), Instr("MOV", Reg64(dst), Imm(imm)))
<1> DEFINE p == RexW(0, RegHigh(dst))
           short == Op(<<199>>)
           long == Op(<<184 + RegLow(dst)>>)
           mod == ModRR(0, dst)
           four == Emit(imm, 4)
           eight == Emit(imm, 8)
<1>1. p \in Seq(Cells) /\ short \in Seq(Cells) /\ long \in Seq(Cells) /\ mod \in Seq(Cells)
  <2>1. RegHigh(dst) \in 0..1 /\ RegLow(dst) \in 0..7 /\ 0 \in 0..7 /\ 0 \in 0..1 /\ 199 \in 0..255
    BY RegisterNumbers
  <2>2. PICK n \in 0..255 : n = 184 + RegLow(dst)
    BY <2>1
  <2>3. p \in Seq(Cells)
    BY <2>1, PrefixIsCells
  <2>4. short \in Seq(Cells)
    BY <2>1, OneByte
  <2>5. long \in Seq(Cells)
    <3>1. Op(<<n>>) \in Seq(Cells)
      BY OneByte
    <3> QED
      BY <2>2, <3>1, Zenon
  <2>6. mod \in Seq(Cells)
    BY <2>1, ModPart
  <2> QED
    BY <2>3, <2>4, <2>5, <2>6
<1>2. four \in Seq(Cells) /\ eight \in Seq(Cells)
  BY EmitIsCells
<1>3. /\ InRange(imm, 4) => EmitMovImm(imm, dst) = p \o (short \o mod \o four)
      /\ ~InRange(imm, 4) => EmitMovImm(imm, dst) = p \o (long \o eight)
  BY Zenon DEF EmitMovImm
<1>4. ShortMov(imm, dst) = p \o short \o mod \o four /\ LongMov(imm, dst) = p \o long \o eight
  BY Zenon DEF ShortMov, LongMov
<1> HIDE DEF p, short, long, mod, four, eight
<1>5. short \o mod \in Seq(Cells)
  BY <1>1, Joined
<1>6. /\ p \o (short \o mod \o four) = p \o short \o mod \o four
      /\ p \o (long \o eight) = p \o long \o eight
  <2>1. p \o ((short \o mod) \o four) = (p \o (short \o mod)) \o four
    <3>1. PICK both \in Seq(Cells) : both = short \o mod
      BY <1>5
    <3>2. p \o (both \o four) = (p \o both) \o four
      BY <1>1, <1>2, Grouping
    <3> QED
      BY <3>1, <3>2, Zenon
  <2>2. p \o (short \o mod) = (p \o short) \o mod
    BY <1>1, Grouping
  <2>3. p \o (long \o eight) = (p \o long) \o eight
    BY <1>1, <1>2, Grouping
  <2> QED
    BY <2>1, <2>2, <2>3, Zenon
<1>7. CASE InRange(imm, 4)
  <2>1. EmitMovImm(imm, dst) = ShortMov(imm, dst)
    BY <1>3, <1>4, <1>6, <1>7, Zenon
  <2> QED
    BY <1>7, <2>1, ShortMovIsRead
<1>8. CASE ~InRange(imm, 4)
  <2>1. EmitMovImm(imm, dst) = LongMov(imm, dst)
    BY <1>3, <1>4, <1>6, <1>8, Zenon
  <2> QED
    BY <2>1, LongMovIsRead
<1> QED
  BY <1>7, <1>8

(* A register and a memory operand, read from bytes at off. *)
ReadsMemory(data, off, bytes, o, m, v, w, reg, base, disp, width) ==
  /\ D!Decoded(data, off) = D!Meaning(data, m, v, o) /\ D!Bit(v, 8) = w
  /\ D!RegOperand(D!Field(data, m) + 8 * D!Bit(v, 4), width, v) = RegWidth(reg, width)
  /\ \A size : /\ D!RMOperand(data, m, size, v).is = Mem(base, disp)
               /\ D!RMOperand(data, m, size, v).end = off + Len(bytes)

(* A memory operand is read at every size. *)
LEMMA MemoryRead ==
  ASSUME NEW data, NEW m, NEW reg, NEW base, NEW val, NEW v, MemoryAt(data, m, reg, base, val, v)
  PROVE  /\ D!Field(data, m) = reg
         /\ \A size : D!RMOperand(data, m, size, v) =
                       [is |-> Mem(base, val), end |-> m + Len(EmitMem(reg, base, val))]
BY NumberOperand

(* The parts of an instruction with a register and a memory operand. *)
LEMMA MemoryParts ==
  ASSUME NEW data, NEW off \in Nat, NEW w \in 0..1, NEW reg \in GeneralRegisters, NEW base \in GeneralRegisters,
         NEW p, Prefixed(p, w, RegHigh(reg), RegHigh(base)), NEW o, NEW opc, Opcoded(opc, o),
         NEW disp \in Int, InRange(disp, 4), NEW width, width = 1 /\ Num(reg) \in 4..7 => p # << >>,
         Holds(data, off, p \o Op(opc) \o EmitMem(RegLow(reg), base, disp))
  PROVE  \E m, v \in Nat :
           ReadsMemory(data, off, p \o Op(opc) \o EmitMem(RegLow(reg), base, disp), o, m, v, w, reg, base, disp, width)
<1> DEFINE rest == EmitMem(RegLow(reg), base, disp)
           bytes == p \o Op(opc) \o rest
<1>1. /\ RegLow(reg) \in 0..7 /\ RegHigh(reg) \in 0..1 /\ RegHigh(base) \in 0..1
      /\ base \in RegisterNames
  BY RegisterNumbers
<1>2. rest \in Seq(Cells)
  BY <1>1, MemIsCells
<1>3. Holds(data, off, bytes)
  OBVIOUS
<1> HIDE DEF rest
<1>4. PICK m, v \in Nat : ReadSo(data, off, bytes, o, rest, m, v, w, RegHigh(reg), RegHigh(base)) /\ (p # << >> => v # 0)
  BY <1>1, <1>2, <1>3, InstructionParts
<1> HIDE DEF bytes
<1>5. /\ D!Decoded(data, off) = D!Meaning(data, m, v, o) /\ D!Bit(v, 8) = w
      /\ D!Bit(v, 4) = RegHigh(reg) /\ D!Bit(v, 1) = RegHigh(base)
      /\ Holds(data, m, EmitMem(RegLow(reg), base, disp))
      /\ off + Len(bytes) = m + Len(EmitMem(RegLow(reg), base, disp))
  BY <1>4, Zenon DEF ReadSo, rest
<1>6. Readable(reg, width, v)
  BY <1>4, Zenon DEF Readable
<1>7. /\ D!Field(data, m) = RegLow(reg)
      /\ \A size : D!RMOperand(data, m, size, v) = [is |-> Mem(base, disp), end |-> off + Len(bytes)]
  <2>1. MemoryAt(data, m, RegLow(reg), base, disp, v)
    BY <1>1, <1>5, Zenon DEF MemoryAt
  <2> QED
    <3>1. /\ D!Field(data, m) = RegLow(reg)
          /\ \A size : D!RMOperand(data, m, size, v) =
                        [is |-> Mem(base, disp), end |-> m + Len(EmitMem(RegLow(reg), base, disp))]
      BY <2>1, MemoryRead
    <3> QED
      BY <1>5, <3>1, Zenon
<1>8. D!RegOperand(RegLow(reg) + 8 * RegHigh(reg), width, v) = RegWidth(reg, width)
  BY <1>6, RegisterRead
<1>9. /\ [is |-> Mem(base, disp), end |-> off + Len(bytes)].is = Mem(base, disp)
      /\ [is |-> Mem(base, disp), end |-> off + Len(bytes)].end = off + Len(bytes)
  OBVIOUS
<1>10. ReadsMemory(data, off, bytes, o, m, v, w, reg, base, disp, width)
  BY <1>5, <1>7, <1>8, <1>9, Zenon DEF ReadsMemory
<1> QED
  BY <1>10 DEF bytes, rest

(* A load, a store or an address, of a width: MOV and LEA. *)
Stored(width) == IF width = 1 THEN 136 ELSE 137

(* Those of EmitMemForm (enc.c:194). *)
LEMMA MemFormParts ==
  ASSUME NEW data, NEW off \in Nat, NEW reg \in GeneralRegisters, NEW base \in GeneralRegisters,
         NEW disp \in Int, InRange(disp, 4), NEW width, NEW n, OneByteOpcode(n),
         Holds(data, off, EmitMemForm(<<n>>, reg, base, disp, width))
  PROVE  \E m, v \in Nat :
           ReadsMemory(data, off, EmitMemForm(<<n>>, reg, base, disp, width), n, m, v,
                       IF width = 8 THEN 1 ELSE 0, reg, base, disp, width)
<1> DEFINE p == Rex(width, reg, base)
           w == IF width = 8 THEN 1 ELSE 0
           bytes == EmitMemForm(<<n>>, reg, base, disp, width)
<1>1. PICK opc : opc = <<n>>
  OBVIOUS
<1>2. Opcoded(opc, n)
  BY <1>1 DEF Opcoded
<1>3. bytes = p \o Op(opc) \o EmitMem(RegLow(reg), base, disp)
  BY <1>1, Zenon DEF EmitMemForm
<1>4. Prefixed(p, w, RegHigh(reg), RegHigh(base)) /\ (width = 1 /\ Num(reg) \in 4..7 => p # << >>)
  BY RegisterPrefix
<1>5. w \in 0..1 /\ Holds(data, off, bytes)
  OBVIOUS
<1> HIDE DEF p, w, bytes
<1>6. \E m, v \in Nat : ReadsMemory(data, off, bytes, n, m, v, w, reg, base, disp, width)
  BY <1>2, <1>3, <1>4, <1>5, MemoryParts
<1> QED
  BY <1>6 DEF w, bytes

(* A load and an address. *)
LEMMA LoadIsRead ==
  ASSUME NEW data, NEW off \in Nat, NEW reg \in GeneralRegisters, NEW base \in GeneralRegisters,
         NEW disp \in Int, InRange(disp, 4), NEW n \in {139, 141},
         Holds(data, off, EmitMemForm(<<n>>, reg, base, disp, 8))
  PROVE  ReadAs(data, off, EmitMemForm(<<n>>, reg, base, disp, 8),
                Instr(IF n = 139 THEN "MOV" ELSE "LEA", Reg64(reg), Mem(base, disp)))
<1> DEFINE bytes == EmitMemForm(<<n>>, reg, base, disp, 8)
           op == IF n = 139 THEN "MOV" ELSE "LEA"
<1>1. OneByteOpcode(n) /\ n \in Nat /\ n \in {139, 141, 431}
  BY DEF OneByteOpcode
<1>2. PICK m, v \in Nat : ReadsMemory(data, off, bytes, n, m, v, 1, reg, base, disp, 8)
  BY <1>1, MemFormParts
<1> HIDE DEF bytes
<1>3. /\ D!Decoded(data, off) = D!Meaning(data, m, v, n) /\ D!Bit(v, 8) = 1
      /\ D!RegOperand(D!Field(data, m) + 8 * D!Bit(v, 4), 8, v) = RegWidth(reg, 8)
      /\ D!RMOperand(data, m, 8, v).is = Mem(base, disp)
      /\ D!RMOperand(data, m, 8, v).end = off + Len(bytes)
  BY <1>2 DEF ReadsMemory
<1>4. D!OpOf(D!ReadsRM, n) = op
  BY TableOperations
<1> HIDE DEF op
<1>5. D!Meaning(data, m, v, n) =
        D!Is(D!Instr(D!OpOf(D!ReadsRM, n), D!RegOperand(D!Field(data, m) + 8 * D!Bit(v, 4), 8, v),
                     D!RMOperand(data, m, 8, v).is), D!RMOperand(data, m, 8, v).end)
  BY <1>1, <1>3, Meanings
<1>6. D!Decoded(data, off) = D!Is(D!Instr(op, RegWidth(reg, 8), Mem(base, disp)), off + Len(bytes))
  BY <1>3, <1>4, <1>5, Zenon
<1> QED
  BY <1>6, InstructionRead DEF Reg64, bytes, op

(* A store of one, four or eight bytes. *)
LEMMA StoreIsRead ==
  ASSUME NEW data, NEW off \in Nat, NEW reg \in GeneralRegisters, NEW base \in GeneralRegisters,
         NEW disp \in Int, InRange(disp, 4), NEW width \in {1, 4, 8},
         Holds(data, off, EmitMemForm(<<Stored(width)>>, reg, base, disp, width))
  PROVE  ReadAs(data, off, EmitMemForm(<<Stored(width)>>, reg, base, disp, width),
                Instr("MOV", Mem(base, disp), RegWidth(reg, width)))
<1> DEFINE n == Stored(width)
           w == IF width = 8 THEN 1 ELSE 0
           bytes == EmitMemForm(<<n>>, reg, base, disp, width)
<1>1. OneByteOpcode(n) /\ n \in Nat /\ (width = 1 => n = 136) /\ (width # 1 => n = 137)
  BY DEF OneByteOpcode, Stored
<1>2. Holds(data, off, bytes)
  OBVIOUS
<1>3. PICK m, v \in Nat : ReadsMemory(data, off, bytes, n, m, v, w, reg, base, disp, width)
  <2> HIDE DEF n
  <2> QED
    BY <1>1, <1>2, MemFormParts
<1> HIDE DEF bytes, n
<1>4. /\ D!Decoded(data, off) = D!Meaning(data, m, v, n) /\ D!Bit(v, 8) = w
      /\ D!RegOperand(D!Field(data, m) + 8 * D!Bit(v, 4), width, v) = RegWidth(reg, width)
      /\ D!RMOperand(data, m, width, v).is = Mem(base, disp)
      /\ D!RMOperand(data, m, 8, v).end = off + Len(bytes)
  BY <1>3, Zenon DEF ReadsMemory
<1>5. D!Meaning(data, m, v, n) =
        D!Is(D!Instr("MOV", D!RMOperand(data, m, width, v).is,
                     D!RegOperand(D!Field(data, m) + 8 * D!Bit(v, 4), width, v)), D!RMOperand(data, m, 8, v).end)
  <2>1. CASE width = 1
    BY <1>1, <2>1, Meanings
  <2>2. CASE width = 4
    <3>1. n \in {1, 41, 57, 137} /\ n = 137 /\ D!Bit(v, 8) # 1 /\ D!OpOf(D!WritesRM, 137) = "MOV"
      BY <1>1, <1>4, <2>2, TableOperations
    <3> QED
      BY <1>1, <2>2, <3>1, Meanings
  <2>3. CASE width = 8
    <3>1. n \in {1, 41, 57, 137} /\ n = 137 /\ D!Bit(v, 8) = 1 /\ D!OpOf(D!WritesRM, 137) = "MOV"
      BY <1>1, <1>4, <2>3, TableOperations
    <3> QED
      BY <1>1, <2>3, <3>1, Meanings
  <2> QED
    BY <2>1, <2>2, <2>3
<1>6. D!Decoded(data, off) = D!Is(D!Instr("MOV", Mem(base, disp), RegWidth(reg, width)), off + Len(bytes))
  BY <1>4, <1>5, Zenon
<1> QED
  BY <1>6, InstructionRead, Zenon DEF bytes, n

(* A narrower operand extended. *)
Extends(width) == IF width = 1 THEN <<15, 190>> ELSE <<99>>
ExtendsCode(width) == IF width = 1 THEN 446 ELSE 99

(* The opcodes of MOVSX. *)
LEMMA ExtendsOpcoded ==
  ASSUME NEW width \in {1, 4}
  PROVE  Opcoded(Extends(width), ExtendsCode(width))
<1>1. CASE width = 1
  <2>1. PICK opc, o : opc = <<15, 190>> /\ o = 446
    BY Zenon
  <2>2. TwoByteOpcode(opc, 190) /\ o = 256 + 190
    BY <2>1 DEF TwoByteOpcode
  <2>3. Opcoded(opc, o)
    BY <2>2, Zenon DEF Opcoded
  <2>4. Extends(width) = opc /\ ExtendsCode(width) = o
    BY <1>1, <2>1 DEF Extends, ExtendsCode
  <2> QED
    BY <2>3, <2>4, Zenon
<1>2. CASE width = 4
  <2>1. OneByteOpcode(99)
    BY DEF OneByteOpcode
  <2>2. Extends(width) = <<99>> /\ ExtendsCode(width) = 99
    BY <1>2 DEF Extends, ExtendsCode
  <2> QED
    BY <2>1, <2>2, Zenon DEF Opcoded
<1> QED
  BY <1>1, <1>2

(* Both of them mean MOVSX. *)
LEMMA ExtendsMeans ==
  ASSUME NEW data, NEW m, NEW v, NEW width \in {1, 4}, D!Bit(v, 8) = 1
  PROVE  D!Meaning(data, m, v, ExtendsCode(width)) =
           D!Is(D!Instr("MOVSX", D!RegOperand(D!Field(data, m) + 8 * D!Bit(v, 4), 8, v),
                        D!Sized(D!RMOperand(data, m, width, v).is, width)), D!RMOperand(data, m, 8, v).end)
<1>1. CASE width = 1
  <2>1. ExtendsCode(width) = 446 /\ D!OpOf(D!ReadsRM8, 446) = "MOVSX" /\ 446 \in Nat
    BY <1>1, TableOperations DEF ExtendsCode
  <2> QED
    BY <1>1, <2>1, Meanings
<1>2. CASE width = 4
  <2>1. ExtendsCode(width) = 99 /\ 99 \in Nat
    BY <1>2 DEF ExtendsCode
  <2> QED
    BY <1>2, <2>1, Meanings
<1> QED
  BY <1>1, <1>2

(* MOVSX of a register (enc.c:202). *)
LEMMA MovsxRegisterIsRead ==
  ASSUME NEW data, NEW off \in Nat, NEW src \in GeneralRegisters, NEW dst \in GeneralRegisters,
         NEW width \in {1, 4}, Holds(data, off, EmitMovsx(Reg64(dst), RegWidth(src, width)))
  PROVE  ReadAs(data, off, EmitMovsx(Reg64(dst), RegWidth(src, width)),
                Instr("MOVSX", Reg64(dst), RegWidth(src, width)))
<1> DEFINE rest == ModRR(RegLow(dst), src)
           p == RexW(RegHigh(dst), RegHigh(src))
           bytes == EmitMovsx(Reg64(dst), RegWidth(src, width))
           opc == Extends(width)
           o == ExtendsCode(width)
<1>1. RegLow(dst) \in 0..7 /\ RegHigh(src) \in 0..1 /\ RegHigh(dst) \in 0..1
  BY RegisterNumbers
<1>2. rest \in Seq(Cells)
  BY <1>1, ModPart
<1>3. Opcoded(opc, o)
  BY ExtendsOpcoded
<1>4. Holds(data, off, bytes)
  OBVIOUS
<1>5. bytes = p \o Op(opc) \o rest
  <2>1. /\ Reg64(dst).reg = dst /\ RegWidth(src, width).reg = src
        /\ RegWidth(src, width).width = width /\ RegWidth(src, width).kind = "REG"
    BY DEF Reg64, RegWidth, Operand
  <2> QED
    BY <2>1, Zenon DEF EmitMovsx, Extends
<1>6. Prefixed(p, 1, RegHigh(dst), RegHigh(src)) /\ p # << >> /\ 1 \in 0..1
  BY <1>1, WidePrefix
<1> HIDE DEF rest, bytes, p, opc, o
<1>7. PICK m, v \in Nat : ReadSo(data, off, bytes, o, rest, m, v, 1, RegHigh(dst), RegHigh(src)) /\ v # 0
  BY <1>1, <1>2, <1>3, <1>4, <1>5, <1>6, InstructionParts
<1>8. /\ D!RegOperand(D!Field(data, m) + 8 * D!Bit(v, 4), 8, v) = RegWidth(dst, 8)
      /\ D!RMOperand(data, m, width, v).is = RegWidth(src, width)
      /\ D!RMOperand(data, m, 8, v).end = off + Len(bytes)
  <2>1. /\ BothRegisters(data, off, bytes, o, m, v, 1, dst, src, 8)
        /\ BothRegisters(data, off, bytes, o, m, v, 1, dst, src, width)
    BY <1>1, <1>7, Zenon DEF rest, BothRegisters, OneRegister, Readable
  <2> QED
    BY <2>1, TwoRegisters
<1>9. D!Decoded(data, off) = D!Meaning(data, m, v, o) /\ D!Bit(v, 8) = 1
  BY <1>7 DEF ReadSo
<1>10. D!Meaning(data, m, v, o) =
          D!Is(D!Instr("MOVSX", D!RegOperand(D!Field(data, m) + 8 * D!Bit(v, 4), 8, v),
                       D!Sized(D!RMOperand(data, m, width, v).is, width)), D!RMOperand(data, m, 8, v).end)
  BY <1>9, ExtendsMeans DEF o
<1>11. D!Sized(D!RMOperand(data, m, width, v).is, width) = RegWidth(src, width)
  <2>1. D!Sized(RegWidth(src, width), width) = RegWidth(src, width)
    BY SizedRegister
  <2> QED
    BY <1>8, <2>1, Zenon
<1>12. D!Decoded(data, off) = D!Is(D!Instr("MOVSX", RegWidth(dst, 8), RegWidth(src, width)), off + Len(bytes))
  BY <1>8, <1>9, <1>10, <1>11, Zenon
<1> QED
  BY <1>12, InstructionRead, Zenon DEF Reg64, bytes

(* MOVSX of memory. *)
LEMMA MovsxMemoryIsRead ==
  ASSUME NEW data, NEW off \in Nat, NEW base \in GeneralRegisters, NEW dst \in GeneralRegisters,
         NEW disp \in Int, InRange(disp, 4), NEW width \in {1, 4},
         NEW src, src = [Mem(base, disp) EXCEPT !.width = width],
         Holds(data, off, EmitMovsx(Reg64(dst), src))
  PROVE  ReadAs(data, off, EmitMovsx(Reg64(dst), src), Instr("MOVSX", Reg64(dst), src))
<1> DEFINE p == RexW(RegHigh(dst), RegHigh(base))
           bytes == EmitMovsx(Reg64(dst), src)
           opc == Extends(width)
           o == ExtendsCode(width)
<1>1. RegHigh(dst) \in 0..1 /\ RegHigh(base) \in 0..1 /\ 1 \in 0..1
  BY RegisterNumbers
<1>2. Opcoded(opc, o)
  BY ExtendsOpcoded
<1>3. bytes = p \o Op(opc) \o EmitMem(RegLow(dst), base, disp)
  <2>1. Reg64(dst).reg = dst /\ src.reg = base /\ src.width = width /\ src.val = disp /\ src.kind = "MEM"
    BY DEF Reg64, RegWidth, Mem, Operand
  <2> QED
    BY <2>1, Zenon DEF EmitMovsx, Extends
<1>4. Prefixed(p, 1, RegHigh(dst), RegHigh(base)) /\ p # << >>
  BY <1>1, WidePrefix
<1>5. Holds(data, off, bytes)
  OBVIOUS
<1> HIDE DEF bytes, p, opc, o
<1>6. PICK m, v \in Nat : ReadsMemory(data, off, bytes, o, m, v, 1, dst, base, disp, 8)
  BY <1>1, <1>2, <1>3, <1>4, <1>5, MemoryParts
<1>7. /\ D!Decoded(data, off) = D!Meaning(data, m, v, o) /\ D!Bit(v, 8) = 1
      /\ D!RegOperand(D!Field(data, m) + 8 * D!Bit(v, 4), 8, v) = RegWidth(dst, 8)
      /\ D!RMOperand(data, m, width, v).is = Mem(base, disp)
      /\ D!RMOperand(data, m, 8, v).end = off + Len(bytes)
  BY <1>6 DEF ReadsMemory
<1>8. D!Meaning(data, m, v, o) =
          D!Is(D!Instr("MOVSX", D!RegOperand(D!Field(data, m) + 8 * D!Bit(v, 4), 8, v),
                       D!Sized(D!RMOperand(data, m, width, v).is, width)), D!RMOperand(data, m, 8, v).end)
  BY <1>7, ExtendsMeans DEF o
<1>9. D!Sized(D!RMOperand(data, m, width, v).is, width) = src
  <2>1. D!Sized(Mem(base, disp), width) = src
    BY SizedMemory
  <2> QED
    BY <1>7, <2>1, Zenon
<1>10. D!Decoded(data, off) = D!Is(D!Instr("MOVSX", RegWidth(dst, 8), src), off + Len(bytes))
  BY <1>7, <1>8, <1>9, Zenon
<1> QED
  BY <1>10, InstructionRead, Zenon DEF Reg64, bytes

(* A field for a name follows the bytes of the instruction. *)
Reaches(data, off, bytes, ins) == D!Decoded(data, off) = [ins |-> ins, end |-> off + Len(bytes) + 4]

FieldAfter(data, off, bytes) == D!SignedAt(data, off + Len(bytes), 4)

LeaRipBytes(dst) == RexW(RegHigh(dst), 0) \o Op(<<141>>) \o ModRM(0, RegLow(dst), 5)

(* LEA of a name, up to the field of the name. *)
LEMMA LeaRipIsRead ==
  ASSUME NEW data, NEW off \in Nat, NEW dst \in GeneralRegisters, Holds(data, off, LeaRipBytes(dst))
  PROVE  Reaches(data, off, LeaRipBytes(dst), Instr("LEA", Reg64(dst), Rip(FieldAfter(data, off, LeaRipBytes(dst)))))
<1> DEFINE rest == ModRM(0, RegLow(dst), 5)
           p == RexW(RegHigh(dst), 0)
           bytes == LeaRipBytes(dst)
<1>1. RegLow(dst) \in 0..7 /\ RegHigh(dst) \in 0..1 /\ 0 \in 0..1 /\ 1 \in 0..1 /\ 0 \in 0..3 /\ 5 \in 0..7
  BY RegisterNumbers
<1>2. rest \in Seq(Cells) /\ Len(rest) = 1
  <2>1. rest \in Seq(Cells)
    BY <1>1, ModIsCells
  <2>2. Op(<<0 * 64 + RegLow(dst) * 8 + 5>>) = [j \in 1..1 |-> <<<<0 * 64 + RegLow(dst) * 8 + 5>>[j]>>]
    BY DEF Op, Elf!Byte
  <2>3. Len(rest) = 1
    BY <2>2 DEF ModRM
  <2> QED
    BY <2>1, <2>3
<1>3. PICK opc : opc = <<141>>
  OBVIOUS
<1>4. Opcoded(opc, 141) /\ 141 \in Nat
  <2>1. OneByteOpcode(141)
    BY DEF OneByteOpcode
  <2> QED
    BY <1>3, <2>1 DEF Opcoded
<1>5. bytes = p \o Op(opc) \o rest /\ Holds(data, off, bytes)
  BY <1>3, Zenon DEF LeaRipBytes
<1>6. Prefixed(p, 1, RegHigh(dst), 0) /\ p # << >>
  BY <1>1, WidePrefix
<1> HIDE DEF p, bytes
<1>7. PICK m, v \in Nat : ReadSo(data, off, bytes, 141, rest, m, v, 1, RegHigh(dst), 0) /\ v # 0
  <2> HIDE DEF rest
  <2> QED
    BY <1>1, <1>2, <1>4, <1>5, <1>6, InstructionParts
<1>8. /\ D!Decoded(data, off) = D!Meaning(data, m, v, 141)
      /\ D!Bit(v, 8) = 1 /\ D!Bit(v, 4) = RegHigh(dst)
      /\ Holds(data, m, rest) /\ off + Len(bytes) = m + Len(rest)
  BY <1>7, Zenon DEF ReadSo
<1>9. off + Len(bytes) = m + 1
  BY <1>2, <1>8, Zenon
<1>10. /\ D!Field(data, m) = RegLow(dst)
       /\ D!RMOperand(data, m, 8, v).is = Rip(D!SignedAt(data, m + 1, 4))
       /\ D!RMOperand(data, m, 8, v).end = m + 5
  BY <1>1, <1>8, RipOperand
<1> HIDE DEF rest
<1>11. D!RegOperand(RegLow(dst) + 8 * RegHigh(dst), 8, v) = RegWidth(dst, 8)
  <2>1. Readable(dst, 8, v)
    BY DEF Readable
  <2> QED
    BY <2>1, RegisterRead
<1>12. D!Meaning(data, m, v, 141) =
        D!Is(D!Instr(D!OpOf(D!ReadsRM, 141), D!RegOperand(D!Field(data, m) + 8 * D!Bit(v, 4), 8, v),
                     D!RMOperand(data, m, 8, v).is), D!RMOperand(data, m, 8, v).end)
  BY <1>4, <1>8, Meanings
<1>13. m + 5 = m + 1 + 4 /\ D!OpOf(D!ReadsRM, 141) = "LEA"
  BY TableOperations
<1>14. D!Decoded(data, off) = D!Is(D!Instr("LEA", RegWidth(dst, 8), Rip(FieldAfter(data, off, bytes))), off + Len(bytes) + 4)
  BY <1>8, <1>9, <1>10, <1>11, <1>12, <1>13, Zenon DEF FieldAfter
<1> QED
  BY <1>14, SameItems, Zenon DEF Reaches, Reg64, bytes

(* The opcode alone. *)
LEMMA OpcodeAlone ==
  ASSUME NEW data, NEW off \in Nat, NEW opc, NEW o, Opcoded(opc, o), Holds(data, off, Op(opc)), Op(opc) \in Seq(Cells)
  PROVE  \E m, v \in Nat : D!Decoded(data, off) = D!Meaning(data, m, v, o) /\ off + Len(Op(opc)) = m
<1>1. << >> \in Seq(Cells) /\ Len(<< >>) = 0 /\ 0 \in 0..1
  BY NoBytes, EP!EmptyIsList
<1>2. Prefixed(<< >>, 0, 0, 0)
  BY DEF Prefixed
<1>3. << >> \o Op(opc) \o << >> = Op(opc)
  BY ConcatEmptySeq
<1>4. PICK m, v \in Nat : ReadSo(data, off, << >> \o Op(opc) \o << >>, o, << >>, m, v, 0, 0, 0)
  BY <1>1, <1>2, <1>3, InstructionParts
<1> QED
  BY <1>1, <1>3, <1>4 DEF ReadSo

BranchCode == [JMP |-> 233, CALL |-> 232, JE |-> 388, JNE |-> 389]

(* An opcode behind 0F is cells. *)
LEMMA EscapedIsCells ==
  ASSUME NEW n \in 0..255
  PROVE  Op(<<15, n>>) \in Seq(Cells)
<1>1. 15 \in 0..255
  OBVIOUS
<1> QED
  BY <1>1, TwoBytes, Zenon

(* The opcodes of the branches. *)
LEMMA BranchOpcodes ==
  ASSUME NEW op \in DOMAIN Branch
  PROVE  /\ Opcoded(Branch[op], BranchCode[op]) /\ Op(Branch[op]) \in Seq(Cells)
         /\ BranchCode[op] \in {232, 233, 388, 389} /\ D!OpOf(D!Jumps, BranchCode[op]) = op
<1>1. ASSUME NEW n \in {232, 233}
      PROVE  Opcoded(<<n>>, n) /\ Op(<<n>>) \in Seq(Cells)
  <2>1. OneByteOpcode(n)
    BY DEF OneByteOpcode
  <2>2. PICK k \in 0..255 : k = n
    OBVIOUS
  <2>3. Op(<<k>>) \in Seq(Cells)
    BY OneByte
  <2> QED
    BY <2>1, <2>2, <2>3, Zenon DEF Opcoded
<1>2. ASSUME NEW n \in {132, 133}, NEW o, o = 256 + n
      PROVE  Opcoded(<<15, n>>, o) /\ Op(<<15, n>>) \in Seq(Cells)
  <2>1. PICK opc : opc = <<15, n>>
    OBVIOUS
  <2>2. TwoByteOpcode(opc, n)
    BY <2>1 DEF TwoByteOpcode
  <2>3. Opcoded(opc, o)
    BY <1>2, <2>2 DEF Opcoded
  <2>4. PICK k \in 0..255 : k = n
    OBVIOUS
  <2>5. Op(<<15, n>>) \in Seq(Cells)
    <3>2. Op(<<15, k>>) \in Seq(Cells)
      BY EscapedIsCells
    <3> QED
      BY <2>4, <3>2, Zenon
  <2>6. Opcoded(<<15, n>>, o)
    BY <2>1, <2>3, Zenon
  <2> QED
    BY <2>5, <2>6
<1>3. CASE op = "JMP"
  <2>1. Branch[op] = <<233>> /\ BranchCode[op] = 233
    BY <1>3 DEF Branch, BranchCode
  <2>2. D!OpOf(D!Jumps, 233) = "JMP" /\ 233 \in {232, 233, 388, 389}
    BY TableOperations
  <2>3. 233 \in {232, 233}
    OBVIOUS
  <2>4. Opcoded(<<233>>, 233) /\ Op(<<233>>) \in Seq(Cells)
    BY <1>1, <2>3, Zenon
  <2> QED
    BY <1>3, <2>1, <2>2, <2>4, Zenon
<1>4. CASE op = "CALL"
  <2>1. Branch[op] = <<232>> /\ BranchCode[op] = 232
    BY <1>4 DEF Branch, BranchCode
  <2>2. D!OpOf(D!Jumps, 232) = "CALL" /\ 232 \in {232, 233, 388, 389}
    BY TableOperations
  <2>3. 232 \in {232, 233}
    OBVIOUS
  <2>4. Opcoded(<<232>>, 232) /\ Op(<<232>>) \in Seq(Cells)
    BY <1>1, <2>3, Zenon
  <2> QED
    BY <1>4, <2>1, <2>2, <2>4, Zenon
<1>5. CASE op = "JE"
  <2>1. Branch[op] = <<15, 132>> /\ BranchCode[op] = 388
    BY <1>5 DEF Branch, BranchCode
  <2>2. D!OpOf(D!Jumps, 388) = "JE" /\ 388 \in {232, 233, 388, 389}
    BY TableOperations
  <2>3. 388 = 256 + 132 /\ 132 \in {132, 133}
    OBVIOUS
  <2>4. Opcoded(<<15, 132>>, 388) /\ Op(<<15, 132>>) \in Seq(Cells)
    BY <1>2, <2>3, Zenon
  <2> QED
    BY <1>5, <2>1, <2>2, <2>4, Zenon
<1>6. CASE op = "JNE"
  <2>1. Branch[op] = <<15, 133>> /\ BranchCode[op] = 389
    BY <1>6 DEF Branch, BranchCode
  <2>2. D!OpOf(D!Jumps, 389) = "JNE" /\ 389 \in {232, 233, 388, 389}
    BY TableOperations
  <2>3. 389 = 256 + 133 /\ 133 \in {132, 133}
    OBVIOUS
  <2>4. Opcoded(<<15, 133>>, 389) /\ Op(<<15, 133>>) \in Seq(Cells)
    BY <1>2, <2>3, Zenon
  <2> QED
    BY <1>6, <2>1, <2>2, <2>4, Zenon
<1> QED
  BY <1>3, <1>4, <1>5, <1>6 DEF Branch

(* A branch, up to the field of the name (enc.c:253). *)
LEMMA BranchIsRead ==
  ASSUME NEW data, NEW off \in Nat, NEW op \in DOMAIN Branch, Holds(data, off, Op(Branch[op]))
  PROVE  Reaches(data, off, Op(Branch[op]), Instr(op, Target(FieldAfter(data, off, Op(Branch[op]))), NoOperand))
<1> DEFINE o == BranchCode[op]
           bytes == Op(Branch[op])
<1>1. Opcoded(Branch[op], o) /\ bytes \in Seq(Cells) /\ o \in {232, 233, 388, 389} /\ D!OpOf(D!Jumps, o) = op
  BY BranchOpcodes
<1> HIDE DEF o
<1>2. PICK m, v \in Nat : D!Decoded(data, off) = D!Meaning(data, m, v, o) /\ off + Len(bytes) = m
  BY <1>1, OpcodeAlone
<1>3. D!Meaning(data, m, v, o) = D!Is(D!One(D!OpOf(D!Jumps, o), D!Target(D!SignedAt(data, m, 4))), m + 4)
  BY <1>1, Meanings
<1> HIDE DEF bytes
<1>4. D!Decoded(data, off) = D!Is(D!One(op, D!Target(FieldAfter(data, off, bytes))), off + Len(bytes) + 4)
  BY <1>1, <1>2, <1>3, Zenon DEF FieldAfter
<1> QED
  BY <1>4, SameItems, Zenon DEF Reaches, bytes

(* An instruction without operands (enc.c:408). *)
LEMMA FixedIsRead ==
  ASSUME NEW data, NEW off \in Nat, NEW op \in DOMAIN Fixed, Holds(data, off, Op(Fixed[op]))
  PROVE  ReadAs(data, off, Op(Fixed[op]), Instr(op, NoOperand, NoOperand))
<1>1. CASE op = "CQO"
  <2>1. Fixed[op] = <<72, 153>>
    BY <1>1 DEF Fixed
  <2>2. D!ByteAt(data, off) = 72 /\ D!ByteAt(data, off + 1) = 153 /\ Len(Op(<<72, 153>>)) = 2
    BY <2>1, BytesHeld
  <2>3. D!Rex(data, off) = 72 /\ D!Opcode(data, off) = 153 /\ D!Rest(data, off) = off + 2
    BY <2>2 DEF D!Rex, D!Opcode, D!Rest, D!Escaped, D!OpcodeAt
  <2>4. D!Bit(72, 8) = 1
    BY DEF D!Bit
  <2>5. D!Meaning(data, off + 2, 72, 153) = D!Is(D!One("CQO", D!NoOperand), off + 2)
    BY <2>4, Meanings
  <2>6. D!Decoded(data, off) = D!Is(D!One("CQO", D!NoOperand), off + Len(Op(Fixed[op])))
    BY <2>1, <2>2, <2>3, <2>5, Zenon DEF D!Decoded
  <2> QED
    BY <1>1, <2>6, SameItems, Zenon DEF ReadAs
<1>2. CASE op = "RET"
  <2>1. Fixed[op] = <<195>> /\ OneByteOpcode(195) /\ 195 \in 0..255
    BY <1>2 DEF Fixed, OneByteOpcode
  <2>2. Opcoded(Fixed[op], 195) /\ Op(Fixed[op]) \in Seq(Cells)
    BY <2>1, OneByte, Zenon DEF Opcoded
  <2>3. PICK m, v \in Nat : D!Decoded(data, off) = D!Meaning(data, m, v, 195) /\ off + Len(Op(Fixed[op])) = m
    BY <2>2, OpcodeAlone
  <2>4. D!Meaning(data, m, v, 195) = D!Is(D!One("RET", D!NoOperand), m)
    BY Meanings
  <2> QED
    BY <1>2, <2>3, <2>4, SameItems, Zenon DEF ReadAs
<1>3. CASE op = "SYSCALL"
  <2>1. PICK opc : opc = Fixed[op]
    OBVIOUS
  <2>2. TwoByteOpcode(opc, 5) /\ opc = <<15, 5>>
    BY <1>3, <2>1 DEF Fixed, TwoByteOpcode
  <2>3. 261 = 256 + 5 /\ 15 \in 0..255 /\ 5 \in 0..255 /\ 261 \in Nat
    OBVIOUS
  <2>4. Opcoded(opc, 261) /\ Op(opc) \in Seq(Cells)
    BY <2>2, <2>3, TwoBytes, Zenon DEF Opcoded
  <2>5. PICK m, v \in Nat : D!Decoded(data, off) = D!Meaning(data, m, v, 261) /\ off + Len(Op(opc)) = m
    BY <2>1, <2>4, OpcodeAlone
  <2>6. D!Meaning(data, m, v, 261) = D!Is(D!One("SYSCALL", D!NoOperand), m)
    BY <2>3, Meanings
  <2> QED
    BY <1>3, <2>1, <2>5, <2>6, SameItems, Zenon DEF ReadAs
<1> QED
  BY <1>1, <1>2, <1>3 DEF Fixed

-----------------------------------------------------------------------------
(* The operands of the forms asm.c gives.                                  *)

(* An operand of a register form is a register of that width. *)
LEMMA RegisterMade ==
  ASSUME NEW opnd, Made(opnd), NEW width, Form(opnd) = R(width)
  PROVE  \E reg \in GeneralRegisters : opnd = RegWidth(reg, width)
<1>1. opnd.kind = "REG" /\ opnd.width = width
  BY DEF Form, R
<1>2. PICK n \in DOMAIN Registers, w \in {1, 4, 8} : opnd = RegWidth(Registers[n], w)
  BY <1>1 DEF Made
<1>3. opnd.width = w
  BY <1>2 DEF RegWidth, Operand
<1>4. Registers[n] \in GeneralRegisters
  BY DEF GeneralRegisters
<1> QED
  BY <1>1, <1>2, <1>3, <1>4, Zenon

(* An operand of a memory form is a displacement from a register. *)
LEMMA MemoryMade ==
  ASSUME NEW opnd, Made(opnd), NEW width, Form(opnd) = M(width)
  PROVE  \E base \in GeneralRegisters, disp \in Int :
           InRange(disp, 4) /\ opnd = [Mem(base, disp) EXCEPT !.width = width]
<1>1. opnd.kind = "MEM" /\ opnd.width = width
  BY DEF Form, M
<1>2. PICK n \in DOMAIN Registers, w \in {0, 1, 4, 8} : opnd = [Mem(Registers[n], opnd.val) EXCEPT !.width = w]
  BY <1>1 DEF Made
<1>3. opnd.val \in Int /\ InRange(opnd.val, 4)
  BY <1>1 DEF Made
<1>4. opnd.width = w
  BY <1>2 DEF Mem, Operand
<1>5. Registers[n] \in GeneralRegisters
  BY DEF GeneralRegisters
<1> QED
  BY <1>1, <1>2, <1>3, <1>4, <1>5, Zenon

(* asm.c leaves the width of memory open, and sets it for MOVSX. *)
LEMMA UnsizedMemory ==
  ASSUME NEW base, NEW disp
  PROVE  /\ [Mem(base, disp) EXCEPT !.width = 0] = Mem(base, disp)
         /\ \A opnd, width : opnd = [Mem(base, disp) EXCEPT !.width = width] =>
              [opnd EXCEPT !.width = 0] = Mem(base, disp)
<1>1. [Mem(base, disp) EXCEPT !.width = 0] = Mem(base, disp)
  BY DEF Mem, Operand
<1>2. ASSUME NEW opnd, NEW width, opnd = [Mem(base, disp) EXCEPT !.width = width]
      PROVE  [opnd EXCEPT !.width = 0] = Mem(base, disp)
  <2>1. opnd = [kind |-> "MEM", reg |-> base, val |-> disp, width |-> width]
    BY <1>2 DEF Mem, Operand
  <2> QED
    BY <2>1 DEF Mem, Operand
<1> QED
  BY <1>1, <1>2

(* An operand of the immediate form is a number. *)
LEMMA ImmMade ==
  ASSUME NEW opnd, Made(opnd), Form(opnd) = ImmForm
  PROVE  opnd = Imm(opnd.val) /\ opnd.val \in Int /\ opnd.kind = "IMM"
<1>1. opnd.kind = "IMM"
  BY DEF Form, ImmForm
<1> QED
  BY <1>1 DEF Made

(* The form of no operand is that of no operand. *)
LEMMA NoneMade ==
  ASSUME NEW opnd, Made(opnd), Form(opnd) = NoForm
  PROVE  opnd = NoOperand
<1>1. opnd.kind = "NONE"
  BY DEF Form, NoForm
<1>2. opnd \in {Rip(opnd.val), Target(opnd.val), NoOperand}
  BY <1>1 DEF Made
<1> QED
  BY <1>1, <1>2 DEF Rip, Target, Operand

(* The forms there are, by operation. *)
LEMMA FormCases ==
  ASSUME NEW op, NEW d, NEW s, <<op, d, s>> \in Forms
  PROVE  \/ op \in DOMAIN OpcodeRR /\ d \in {R(8)} /\ s \in {R(8), ImmForm}
         \/ op \in {"MOV"} /\ d \in {R(8)} /\ s \in {R(8), M(0), M(8), ImmForm}
         \/ op \in {"MOV"} /\ d \in {R(1)} /\ s \in {ImmForm}
         \/ op \in {"MOV"} /\ d \in {M(0)} /\ s \in {R(1), R(4), R(8)}
         \/ op \in {"IMUL"} /\ d \in {R(8)} /\ s \in {R(8)}
         \/ op \in {"MOVZB"} /\ d \in {R(8)} /\ s \in {R(1)}
         \/ op \in {"MOVSX"} /\ d \in {R(8)} /\ s \in {R(1), R(4), M(1), M(4)}
         \/ op \in {"LEA"} /\ d \in {R(8)} /\ s \in {M(0), <<"RIP", 0>>}
         \/ op \in {"NEG", "IDIV", "PUSH", "POP"} /\ d \in {R(8)} /\ s \in {NoForm}
         \/ op \in DOMAIN SetByte /\ d \in {R(1)} /\ s \in {NoForm}
         \/ op \in DOMAIN Branch /\ d \in {<<"LABEL", 0>>} /\ s \in {NoForm}
         \/ op \in DOMAIN Fixed /\ d \in {NoForm} /\ s \in {NoForm}
<1> DEFINE t == <<op, d, s>>
<1>1. \/ t \in (DOMAIN OpcodeRR) \X {R(8)} \X {R(8), ImmForm}
      \/ t \in {"MOV"} \X {R(8)} \X {R(8), M(0), M(8), ImmForm}
      \/ t \in {"MOV"} \X {R(1)} \X {ImmForm}
      \/ t \in {"MOV"} \X {M(0)} \X {R(1), R(4), R(8)}
      \/ t \in {"IMUL"} \X {R(8)} \X {R(8)}
      \/ t \in {"MOVZB"} \X {R(8)} \X {R(1)}
      \/ t \in {"MOVSX"} \X {R(8)} \X {R(1), R(4), M(1), M(4)}
      \/ t \in {"LEA"} \X {R(8)} \X {M(0), <<"RIP", 0>>}
      \/ t \in {"NEG", "IDIV", "PUSH", "POP"} \X {R(8)} \X {NoForm}
      \/ t \in (DOMAIN SetByte) \X {R(1)} \X {NoForm}
      \/ t \in (DOMAIN Branch) \X {<<"LABEL", 0>>} \X {NoForm}
      \/ t \in (DOMAIN Fixed) \X {NoForm} \X {NoForm}
  <2> HIDE DEF t
  <2>1. t \in Forms
    BY DEF t
  <2> QED
    BY <2>1, Zenon DEF Forms
<1>2. ASSUME NEW A, NEW B, NEW C, t \in A \X B \X C
      PROVE  op \in A /\ d \in B /\ s \in C
  BY <1>2
<1> HIDE DEF t
<1>3. t \in (DOMAIN OpcodeRR) \X {R(8)} \X {R(8), ImmForm} => op \in DOMAIN OpcodeRR /\ d \in {R(8)} /\ s \in {R(8), ImmForm}
  BY <1>2, Zenon
<1>4. t \in {"MOV"} \X {R(8)} \X {R(8), M(0), M(8), ImmForm} => op \in {"MOV"} /\ d \in {R(8)} /\ s \in {R(8), M(0), M(8), ImmForm}
  BY <1>2, Zenon
<1>5. t \in {"MOV"} \X {R(1)} \X {ImmForm} => op \in {"MOV"} /\ d \in {R(1)} /\ s \in {ImmForm}
  BY <1>2, Zenon
<1>6. t \in {"MOV"} \X {M(0)} \X {R(1), R(4), R(8)} => op \in {"MOV"} /\ d \in {M(0)} /\ s \in {R(1), R(4), R(8)}
  BY <1>2, Zenon
<1>7. t \in {"IMUL"} \X {R(8)} \X {R(8)} => op \in {"IMUL"} /\ d \in {R(8)} /\ s \in {R(8)}
  BY <1>2, Zenon
<1>8. t \in {"MOVZB"} \X {R(8)} \X {R(1)} => op \in {"MOVZB"} /\ d \in {R(8)} /\ s \in {R(1)}
  BY <1>2, Zenon
<1>9. t \in {"MOVSX"} \X {R(8)} \X {R(1), R(4), M(1), M(4)} => op \in {"MOVSX"} /\ d \in {R(8)} /\ s \in {R(1), R(4), M(1), M(4)}
  BY <1>2, Zenon
<1>10. t \in {"LEA"} \X {R(8)} \X {M(0), <<"RIP", 0>>} => op \in {"LEA"} /\ d \in {R(8)} /\ s \in {M(0), <<"RIP", 0>>}
  BY <1>2, Zenon
<1>11. t \in {"NEG", "IDIV", "PUSH", "POP"} \X {R(8)} \X {NoForm} => op \in {"NEG", "IDIV", "PUSH", "POP"} /\ d \in {R(8)} /\ s \in {NoForm}
  BY <1>2, Zenon
<1>12. t \in (DOMAIN SetByte) \X {R(1)} \X {NoForm} => op \in DOMAIN SetByte /\ d \in {R(1)} /\ s \in {NoForm}
  BY <1>2, Zenon
<1>13. t \in (DOMAIN Branch) \X {<<"LABEL", 0>>} \X {NoForm} => op \in DOMAIN Branch /\ d \in {<<"LABEL", 0>>} /\ s \in {NoForm}
  BY <1>2, Zenon
<1>14. t \in (DOMAIN Fixed) \X {NoForm} \X {NoForm} => op \in DOMAIN Fixed /\ d \in {NoForm} /\ s \in {NoForm}
  BY <1>2, Zenon
<1> QED
  BY <1>1, <1>3, <1>4, <1>5, <1>6, <1>7, <1>8, <1>9, <1>10, <1>11, <1>12, <1>13, <1>14, Zenon

-----------------------------------------------------------------------------
(* An instruction is read as what its item says.                           *)

(* The bytes of an instruction asm.c could have built are at off. *)
Candidate(data, off, it) ==
  /\ off \in Nat /\ it.kind = "INSTR" /\ Encodable(it) /\ Built(it)
  /\ Holds(data, off, EmitInstr(it))

Right(data, off, it) ==
  /\ Says(it, D!Decoded(data, off).ins)
  /\ D!Decoded(data, off).end = off + Len(EmitInstr(it)) + (IF Names(it) THEN 4 ELSE 0)

(* What is assumed of an instruction in place. *)
LEMMA CandidateParts ==
  ASSUME NEW data, NEW off, NEW it, Candidate(data, off, it)
  PROVE  /\ off \in Nat /\ Holds(data, off, EmitInstr(it)) /\ Made(it.dst) /\ Made(it.src)
         /\ it.src.kind = "IMM" => InRange(it.src.val, IF it.op = "MOV" THEN it.dst.width ELSE 4)
         /\ Len(EmitInstr(it)) \in Nat
<1>1. EmitInstr(it) \in Seq(Cells)
  BY InstrIsCells DEF Candidate
<1>2. Len(EmitInstr(it)) \in Nat
  BY <1>1
<1> QED
  BY <1>2 DEF Candidate, Encodable, Built

(* An instruction without a name is read as its item, if it is read as it  *)
(* was written.                                                            *)
LEMMA PlainRight ==
  ASSUME NEW data, NEW off, NEW it, Candidate(data, off, it), ~Names(it), NEW src,
         ReadAs(data, off, EmitInstr(it), Instr(it.op, it.dst, src)),
         src = IF it.op = "MOV" /\ it.src.kind = "MEM" THEN [it.src EXCEPT !.width = 0] ELSE it.src
  PROVE  Right(data, off, it)
<1> DEFINE ins == Instr(it.op, it.dst, src)
           d == D!Decoded(data, off)
<1>1. ins.op = it.op /\ ins.dst = it.dst /\ ins.src = src
  BY DEF Instr, Item
<1>2. d = [ins |-> ins, end |-> off + Len(EmitInstr(it))]
  BY DEF ReadAs
<1> HIDE DEF d, ins
<1>3. d.ins = ins /\ d.end = off + Len(EmitInstr(it))
  BY <1>2
<1>4. Says(it, ins)
  BY <1>1, Zenon DEF Says, SameOperand
<1>5. off + Len(EmitInstr(it)) = off + Len(EmitInstr(it)) + 0
  <2>1. off \in Nat /\ Len(EmitInstr(it)) \in Nat
    BY CandidateParts
  <2> QED
    BY <2>1
<1> QED
  BY <1>3, <1>4, <1>5, Zenon DEF Right, d

(* An instruction with a name is, whatever the field of the name holds. *)
LEMMA NamingRight ==
  ASSUME NEW data, NEW off, NEW it, Names(it), NEW dst, NEW src,
         Reaches(data, off, EmitInstr(it), Instr(it.op, dst, src)),
         SameOperand(it.dst, dst), SameOperand(it.src, src), it.op # "MOV"
  PROVE  Right(data, off, it)
<1> DEFINE ins == Instr(it.op, dst, src)
           d == D!Decoded(data, off)
<1>1. ins.op = it.op /\ ins.dst = dst /\ ins.src = src
  BY DEF Instr, Item
<1>2. d = [ins |-> ins, end |-> off + Len(EmitInstr(it)) + 4]
  BY DEF Reaches
<1> HIDE DEF d, ins
<1>3. d.ins = ins /\ d.end = off + Len(EmitInstr(it)) + 4
  BY <1>2
<1>4. Says(it, ins)
  BY <1>1, Zenon DEF Says
<1> QED
  BY <1>3, <1>4, Zenon DEF Right, d

(* What each operation is not. *)
LEMMA NamesNothing ==
  ASSUME NEW it, it.op \notin DOMAIN Branch, it.op = "LEA" => it.src.kind # "RIP"
  PROVE  ~Names(it)
BY DEF Names

(* ADD, SUB and CMP. *)
LEMMA ArithmeticRight ==
  ASSUME NEW data, NEW off, NEW it, Candidate(data, off, it),
         it.op \in DOMAIN OpcodeRR, Form(it.dst) = R(8), Form(it.src) \in {R(8), ImmForm}
  PROVE  Right(data, off, it)
<1>1. it.op \in {"ADD", "SUB", "CMP"}
  BY DEF OpcodeRR
<1>2. ~Names(it) /\ it.op # "MOV"
  BY <1>1, NamesNothing DEF Branch
<1>3. /\ off \in Nat /\ Holds(data, off, EmitInstr(it)) /\ Made(it.dst) /\ Made(it.src)
      /\ it.src.kind = "IMM" => InRange(it.src.val, 4)
  BY <1>2, CandidateParts
<1>4. PICK dst \in GeneralRegisters : it.dst = RegWidth(dst, 8)
  BY <1>3, RegisterMade
<1>5. it.dst.reg = dst /\ it.dst = Reg64(dst)
  BY <1>4 DEF RegWidth, Operand, Reg64
<1>6. CASE Form(it.src) = R(8)
  <2>1. PICK src \in GeneralRegisters : it.src = RegWidth(src, 8)
    BY <1>3, <1>6, RegisterMade
  <2>2. it.src.reg = src /\ it.src = Reg64(src) /\ it.src.kind # "IMM"
    BY <2>1 DEF RegWidth, Operand, Reg64
  <2>3. PICK n \in {1, 41, 57} : OpcodeRR[it.op] = <<n>> /\ D!OpOf(D!WritesRM, n) = it.op
    BY <1>1, TableOperations DEF OpcodeRR
  <2>4. EmitInstr(it) = EmitRR(<<n>>, src, dst)
    BY <1>5, <2>2, <2>3, InstrForms
  <2>5. ReadAs(data, off, EmitRR(<<n>>, src, dst), Instr(D!OpOf(D!WritesRM, n), Reg64(dst), Reg64(src)))
    <3>1. n \in {1, 41, 57, 137} /\ Holds(data, off, EmitRR(<<n>>, src, dst))
      BY <1>3, <2>4
    <3> QED
      BY <1>3, <3>1, RRIsRead
  <2>6. ReadAs(data, off, EmitInstr(it), Instr(it.op, it.dst, it.src))
    BY <1>5, <2>2, <2>3, <2>4, <2>5, Zenon
  <2> QED
    BY <1>2, <2>6, PlainRight
<1>7. CASE Form(it.src) = ImmForm
  <2>1. it.src = Imm(it.src.val) /\ it.src.val \in Int /\ it.src.kind = "IMM" /\ InRange(it.src.val, 4)
    BY <1>3, <1>7, ImmMade
  <2>2. PICK grp \in {0, 5, 7} : GrpOf[it.op] = grp /\ D!OpOf(D!Group1, grp) = it.op
    BY <1>1, TableOperations DEF GrpOf
  <2>3. EmitInstr(it) = EmitGrpImm(grp, it.src.val, dst)
    BY <1>5, <2>1, <2>2, InstrForms
  <2>4. ReadAs(data, off, EmitGrpImm(grp, it.src.val, dst), Instr(D!OpOf(D!Group1, grp), Reg64(dst), Imm(it.src.val)))
    BY <1>3, <2>1, <2>3, GrpImmIsRead
  <2>5. ReadAs(data, off, EmitInstr(it), Instr(it.op, it.dst, it.src))
    BY <1>5, <2>1, <2>2, <2>3, <2>4, Zenon
  <2> QED
    BY <1>2, <2>5, PlainRight
<1> QED
  BY <1>6, <1>7

(* MOV to a register. *)
LEMMA MovToRegisterRight ==
  ASSUME NEW data, NEW off, NEW it, Candidate(data, off, it), it.op = "MOV",
         Form(it.dst) = R(8), Form(it.src) \in {R(8), M(0), M(8), ImmForm}
  PROVE  Right(data, off, it)
<1>1. ~Names(it)
  BY NamesNothing DEF Branch
<1>2. /\ off \in Nat /\ Holds(data, off, EmitInstr(it)) /\ Made(it.dst) /\ Made(it.src)
      /\ it.src.kind = "IMM" => InRange(it.src.val, it.dst.width)
  BY CandidateParts
<1>3. PICK dst \in GeneralRegisters : it.dst = RegWidth(dst, 8)
  BY <1>2, RegisterMade
<1>4. it.dst.reg = dst /\ it.dst.width = 8 /\ it.dst.kind = "REG" /\ it.dst = Reg64(dst)
  BY <1>3 DEF RegWidth, Operand, Reg64
<1>5. EmitInstr(it) = EmitMov(it.dst, it.src)
  BY InstrForms
<1>6. CASE Form(it.src) = R(8)
  <2>1. PICK src \in GeneralRegisters : it.src = RegWidth(src, 8)
    BY <1>2, <1>6, RegisterMade
  <2>2. it.src.reg = src /\ it.src = Reg64(src) /\ it.src.kind = "REG"
    BY <2>1 DEF RegWidth, Operand, Reg64
  <2>3. EmitInstr(it) = EmitRR(<<137>>, src, dst)
    BY <1>4, <1>5, <2>2 DEF EmitMov
  <2>4. ReadAs(data, off, EmitRR(<<137>>, src, dst), Instr(D!OpOf(D!WritesRM, 137), Reg64(dst), Reg64(src)))
    <3>1. 137 \in {1, 41, 57, 137} /\ Holds(data, off, EmitRR(<<137>>, src, dst))
      BY <1>2, <2>3
    <3> QED
      BY <1>2, <3>1, RRIsRead
  <2>5. D!OpOf(D!WritesRM, 137) = "MOV"
    BY TableOperations
  <2>6. ReadAs(data, off, EmitInstr(it), Instr(it.op, it.dst, it.src)) /\ it.src.kind # "MEM"
    BY <1>4, <2>2, <2>3, <2>4, <2>5, Zenon
  <2> QED
    BY <1>1, <2>6, PlainRight
<1>7. ASSUME NEW width, Form(it.src) = M(width)
      PROVE  Right(data, off, it)
  <2>1. PICK base \in GeneralRegisters, disp \in Int :
          InRange(disp, 4) /\ it.src = [Mem(base, disp) EXCEPT !.width = width]
    BY <1>2, <1>7, MemoryMade
  <2>2. it.src.reg = base /\ it.src.val = disp /\ it.src.kind = "MEM"
    BY <2>1 DEF Mem, Operand
  <2>3. EmitInstr(it) = EmitMemForm(<<139>>, dst, base, disp, 8)
    BY <1>4, <1>5, <2>2 DEF EmitMov
  <2>4. ReadAs(data, off, EmitMemForm(<<139>>, dst, base, disp, 8),
               Instr(IF 139 = 139 THEN "MOV" ELSE "LEA", Reg64(dst), Mem(base, disp)))
    <3>1. 139 \in {139, 141} /\ Holds(data, off, EmitMemForm(<<139>>, dst, base, disp, 8))
      BY <1>2, <2>3
    <3> QED
      BY <1>2, <2>1, <3>1, LoadIsRead
  <2>5. [it.src EXCEPT !.width = 0] = Mem(base, disp)
    <3>1. PICK opnd : opnd = it.src
      OBVIOUS
    <3>2. opnd = [Mem(base, disp) EXCEPT !.width = width]
      BY <2>1, <3>1, Zenon
    <3>3. [opnd EXCEPT !.width = 0] = Mem(base, disp)
      BY <3>2, UnsizedMemory
    <3> QED
      BY <3>1, <3>3, Zenon
  <2>6. ReadAs(data, off, EmitInstr(it), Instr(it.op, it.dst, Mem(base, disp)))
    BY <1>4, <2>3, <2>4, Zenon
  <2>7. Mem(base, disp) = IF it.op = "MOV" /\ it.src.kind = "MEM" THEN [it.src EXCEPT !.width = 0] ELSE it.src
    BY <2>2, <2>5
  <2> QED
    BY <1>1, <2>6, <2>7, PlainRight
<1>8. CASE Form(it.src) = ImmForm
  <2>1. it.src = Imm(it.src.val) /\ it.src.val \in Int /\ it.src.kind = "IMM" /\ InRange(it.src.val, 8)
    BY <1>2, <1>4, <1>8, ImmMade
  <2>2. EmitInstr(it) = EmitMovImm(it.src.val, dst)
    BY <1>4, <1>5, <2>1 DEF EmitMov
  <2>3. ReadAs(data, off, EmitMovImm(it.src.val, dst), Instr("MOV", Reg64(dst), Imm(it.src.val)))
    BY <1>2, <2>1, <2>2, MovImmIsRead
  <2>4. ReadAs(data, off, EmitInstr(it), Instr(it.op, it.dst, it.src)) /\ it.src.kind # "MEM"
    BY <1>4, <2>1, <2>2, <2>3, Zenon
  <2> QED
    BY <1>1, <2>4, PlainRight
<1> QED
  BY <1>6, <1>7, <1>8

(* MOV of a byte. *)
LEMMA MovByteRight ==
  ASSUME NEW data, NEW off, NEW it, Candidate(data, off, it), it.op = "MOV",
         Form(it.dst) = R(1), Form(it.src) = ImmForm
  PROVE  Right(data, off, it)
<1>1. ~Names(it)
  BY NamesNothing DEF Branch
<1>2. /\ off \in Nat /\ Holds(data, off, EmitInstr(it)) /\ Made(it.dst) /\ Made(it.src)
      /\ it.src.kind = "IMM" => InRange(it.src.val, it.dst.width)
  BY CandidateParts
<1>3. PICK dst \in GeneralRegisters : it.dst = RegWidth(dst, 1)
  BY <1>2, RegisterMade
<1>4. it.dst.reg = dst /\ it.dst.width = 1 /\ it.dst.kind = "REG" /\ it.dst = Reg8(dst)
  BY <1>3 DEF RegWidth, Operand, Reg8
<1>5. it.src = Imm(it.src.val) /\ it.src.val \in Int /\ it.src.kind = "IMM" /\ InRange(it.src.val, 1)
  BY <1>2, <1>4, ImmMade
<1>6. EmitInstr(it) = EmitMovImm8(it.src.val, dst)
  <2>1. EmitInstr(it) = EmitMov(it.dst, it.src)
    BY InstrForms
  <2> QED
    BY <1>4, <1>5, <2>1 DEF EmitMov
<1>7. ReadAs(data, off, EmitMovImm8(it.src.val, dst), Instr("MOV", Reg8(dst), Imm(it.src.val)))
  BY <1>2, <1>5, <1>6, MovImm8IsRead
<1>8. ReadAs(data, off, EmitInstr(it), Instr(it.op, it.dst, it.src)) /\ it.src.kind # "MEM"
  BY <1>4, <1>5, <1>6, <1>7, Zenon
<1> QED
  BY <1>1, <1>8, PlainRight

(* MOV to memory. *)
LEMMA MovToMemoryRight ==
  ASSUME NEW data, NEW off, NEW it, Candidate(data, off, it), it.op = "MOV",
         Form(it.dst) = M(0), NEW width \in {1, 4, 8}, Form(it.src) = R(width)
  PROVE  Right(data, off, it)
<1>1. ~Names(it)
  BY NamesNothing DEF Branch
<1>2. off \in Nat /\ Holds(data, off, EmitInstr(it)) /\ Made(it.dst) /\ Made(it.src)
  BY CandidateParts
<1>3. PICK base \in GeneralRegisters, disp \in Int :
        InRange(disp, 4) /\ it.dst = [Mem(base, disp) EXCEPT !.width = 0]
  BY <1>2, MemoryMade
<1>4. it.dst.reg = base /\ it.dst.val = disp /\ it.dst.kind = "MEM" /\ it.dst = Mem(base, disp)
  BY <1>3, UnsizedMemory DEF Mem, Operand
<1>5. PICK src \in GeneralRegisters : it.src = RegWidth(src, width)
  BY <1>2, RegisterMade
<1>6. it.src.reg = src /\ it.src.kind = "REG" /\ it.src.width = width
  BY <1>5 DEF RegWidth, Operand
<1>7. EmitInstr(it) = EmitMemForm(<<Stored(width)>>, src, base, disp, width)
  <2>1. EmitInstr(it) = EmitMov(it.dst, it.src)
    BY InstrForms
  <2>2. EmitMov(it.dst, it.src) = EmitMemForm(IF width = 1 THEN <<136>> ELSE <<137>>, src, base, disp, width)
    BY <1>4, <1>6 DEF EmitMov
  <2>3. (IF width = 1 THEN <<136>> ELSE <<137>>) = <<Stored(width)>>
    BY DEF Stored
  <2> QED
    BY <2>1, <2>2, <2>3, Zenon
<1>8. ReadAs(data, off, EmitMemForm(<<Stored(width)>>, src, base, disp, width),
             Instr("MOV", Mem(base, disp), RegWidth(src, width)))
  BY <1>2, <1>3, <1>7, StoreIsRead
<1>9. ReadAs(data, off, EmitInstr(it), Instr(it.op, it.dst, it.src)) /\ it.src.kind # "MEM"
  BY <1>4, <1>5, <1>6, <1>7, <1>8, Zenon
<1> QED
  BY <1>1, <1>9, PlainRight

(* IMUL and MOVZB. *)
LEMMA MultiplyRight ==
  ASSUME NEW data, NEW off, NEW it, Candidate(data, off, it), Form(it.dst) = R(8),
         \/ it.op = "IMUL" /\ Form(it.src) = R(8)
         \/ it.op = "MOVZB" /\ Form(it.src) = R(1)
  PROVE  Right(data, off, it)
<1>1. ~Names(it) /\ it.op # "MOV" /\ it.op \in DOMAIN OpcodeRM
  BY NamesNothing, OperationSets
<1>2. off \in Nat /\ Holds(data, off, EmitInstr(it)) /\ Made(it.dst) /\ Made(it.src)
  BY CandidateParts
<1>3. PICK dst \in GeneralRegisters : it.dst = RegWidth(dst, 8)
  BY <1>2, RegisterMade
<1>4. it.dst.reg = dst /\ it.dst = Reg64(dst)
  BY <1>3 DEF RegWidth, Operand, Reg64
<1>5. EmitInstr(it) = EmitRM(OpcodeRM[it.op], it.src.reg, it.dst.reg)
  BY <1>1, InstrForms
<1>6. CASE it.op = "IMUL" /\ Form(it.src) = R(8)
  <2>1. PICK src \in GeneralRegisters : it.src = RegWidth(src, 8)
    BY <1>2, <1>6, RegisterMade
  <2>2. it.src.reg = src /\ it.src = Reg64(src)
    BY <2>1 DEF RegWidth, Operand, Reg64
  <2>3. OpcodeRM[it.op] = <<15, 175>>
    BY <1>6 DEF OpcodeRM
  <2>4. EmitInstr(it) = EmitRM(<<15, 175>>, src, dst)
    BY <1>4, <1>5, <2>2, <2>3, Zenon
  <2>5. ReadAs(data, off, EmitRM(<<15, 175>>, src, dst),
               IF 175 = 175 THEN Instr("IMUL", Reg64(dst), Reg64(src)) ELSE Instr("MOVZB", Reg64(dst), Reg8(src)))
    <3>1. 175 \in {175, 182} /\ Holds(data, off, EmitRM(<<15, 175>>, src, dst))
      BY <1>2, <2>4, Zenon
    <3> QED
      BY <1>2, <3>1, RMIsRead
  <2>6. ReadAs(data, off, EmitInstr(it), Instr(it.op, it.dst, it.src))
    BY <1>4, <1>6, <2>2, <2>4, <2>5, Zenon
  <2> QED
    BY <1>1, <2>6, PlainRight
<1>7. CASE it.op = "MOVZB" /\ Form(it.src) = R(1)
  <2>1. PICK src \in GeneralRegisters : it.src = RegWidth(src, 1)
    BY <1>2, <1>7, RegisterMade
  <2>2. it.src.reg = src /\ it.src = Reg8(src)
    BY <2>1 DEF RegWidth, Operand, Reg8
  <2>3. OpcodeRM[it.op] = <<15, 182>>
    BY <1>7 DEF OpcodeRM
  <2>4. EmitInstr(it) = EmitRM(<<15, 182>>, src, dst)
    BY <1>4, <1>5, <2>2, <2>3, Zenon
  <2>5. ReadAs(data, off, EmitRM(<<15, 182>>, src, dst),
               IF 182 = 175 THEN Instr("IMUL", Reg64(dst), Reg64(src)) ELSE Instr("MOVZB", Reg64(dst), Reg8(src)))
    <3>1. 182 \in {175, 182} /\ Holds(data, off, EmitRM(<<15, 182>>, src, dst))
      BY <1>2, <2>4, Zenon
    <3> QED
      BY <1>2, <3>1, RMIsRead
  <2>6. ReadAs(data, off, EmitInstr(it), Instr(it.op, it.dst, it.src))
    <3>1. 182 # 175
      OBVIOUS
    <3> QED
      BY <1>4, <1>7, <2>2, <2>4, <2>5, <3>1, Zenon
  <2> QED
    BY <1>1, <2>6, PlainRight
<1> QED
  BY <1>6, <1>7

(* MOVSX. *)
LEMMA ExtendRight ==
  ASSUME NEW data, NEW off, NEW it, Candidate(data, off, it), it.op = "MOVSX", Form(it.dst) = R(8),
         NEW width \in {1, 4}, Form(it.src) \in {R(width), M(width)}
  PROVE  Right(data, off, it)
<1>1. ~Names(it) /\ it.op # "MOV"
  BY NamesNothing, OperationSets
<1>2. off \in Nat /\ Holds(data, off, EmitInstr(it)) /\ Made(it.dst) /\ Made(it.src)
  BY CandidateParts
<1>3. PICK dst \in GeneralRegisters : it.dst = RegWidth(dst, 8)
  BY <1>2, RegisterMade
<1>4. it.dst = Reg64(dst)
  BY <1>3 DEF Reg64
<1>5. EmitInstr(it) = EmitMovsx(it.dst, it.src)
  BY InstrForms
<1>6. CASE Form(it.src) = R(width)
  <2>1. PICK src \in GeneralRegisters : it.src = RegWidth(src, width)
    BY <1>2, <1>6, RegisterMade
  <2>2. EmitInstr(it) = EmitMovsx(Reg64(dst), RegWidth(src, width))
    BY <1>4, <1>5, <2>1, Zenon
  <2>3. ReadAs(data, off, EmitMovsx(Reg64(dst), RegWidth(src, width)), Instr("MOVSX", Reg64(dst), RegWidth(src, width)))
    BY <1>2, <2>2, MovsxRegisterIsRead
  <2>4. ReadAs(data, off, EmitInstr(it), Instr(it.op, it.dst, it.src))
    BY <1>4, <2>1, <2>2, <2>3, Zenon
  <2> QED
    BY <1>1, <2>4, PlainRight
<1>7. CASE Form(it.src) = M(width)
  <2>1. PICK base \in GeneralRegisters, disp \in Int :
          InRange(disp, 4) /\ it.src = [Mem(base, disp) EXCEPT !.width = width]
    BY <1>2, <1>7, MemoryMade
  <2>2. EmitInstr(it) = EmitMovsx(Reg64(dst), it.src)
    BY <1>4, <1>5, Zenon
  <2>3. PICK src : src = it.src
    OBVIOUS
  <2>4. ReadAs(data, off, EmitMovsx(Reg64(dst), src), Instr("MOVSX", Reg64(dst), src))
    <3>1. src = [Mem(base, disp) EXCEPT !.width = width] /\ Holds(data, off, EmitMovsx(Reg64(dst), src))
      BY <1>2, <2>1, <2>2, <2>3, Zenon
    <3> QED
      BY <1>2, <2>1, <3>1, MovsxMemoryIsRead
  <2>5. ReadAs(data, off, EmitInstr(it), Instr(it.op, it.dst, it.src))
    BY <1>4, <2>2, <2>3, <2>4, Zenon
  <2> QED
    BY <1>1, <2>5, PlainRight
<1> QED
  BY <1>6, <1>7

(* LEA. *)
LEMMA AddressRight ==
  ASSUME NEW data, NEW off, NEW it, Candidate(data, off, it), it.op = "LEA", Form(it.dst) = R(8),
         Form(it.src) \in {M(0), <<"RIP", 0>>}
  PROVE  Right(data, off, it)
<1>2. off \in Nat /\ Holds(data, off, EmitInstr(it)) /\ Made(it.dst) /\ Made(it.src)
  BY CandidateParts
<1>3. PICK dst \in GeneralRegisters : it.dst = RegWidth(dst, 8)
  BY <1>2, RegisterMade
<1>4. it.dst.reg = dst /\ it.dst = Reg64(dst)
  BY <1>3 DEF RegWidth, Operand, Reg64
<1>6. CASE Form(it.src) = M(0)
  <2>1. PICK base \in GeneralRegisters, disp \in Int :
          InRange(disp, 4) /\ it.src = [Mem(base, disp) EXCEPT !.width = 0]
    BY <1>2, <1>6, MemoryMade
  <2>2. it.src.reg = base /\ it.src.val = disp /\ it.src.kind = "MEM" /\ it.src = Mem(base, disp)
    BY <2>1, UnsizedMemory DEF Mem, Operand
  <2>3. ~Names(it)
    BY <2>2, NamesNothing, OperationSets
  <2>4. EmitInstr(it) = EmitMemForm(<<141>>, dst, base, disp, 8)
    BY <1>4, <2>2, <2>3, MoreInstrForms
  <2>5. ReadAs(data, off, EmitMemForm(<<141>>, dst, base, disp, 8),
               Instr(IF 141 = 139 THEN "MOV" ELSE "LEA", Reg64(dst), Mem(base, disp)))
    <3>1. 141 \in {139, 141} /\ Holds(data, off, EmitMemForm(<<141>>, dst, base, disp, 8))
      BY <1>2, <2>4
    <3> QED
      BY <1>2, <2>1, <3>1, LoadIsRead
  <2>6. ReadAs(data, off, EmitInstr(it), Instr(it.op, it.dst, it.src))
    <3>1. 141 # 139
      OBVIOUS
    <3> QED
      BY <1>4, <2>2, <2>4, <2>5, <3>1, Zenon
  <2>7. it.op # "MOV"
    OBVIOUS
  <2> QED
    BY <2>3, <2>6, <2>7, PlainRight
<1>7. CASE Form(it.src) = <<"RIP", 0>>
  <2>1. it.src.kind = "RIP"
    BY <1>7 DEF Form
  <2>2. Names(it)
    BY <2>1 DEF Names
  <2>3. EmitInstr(it) = LeaRipBytes(dst)
    BY <1>4, <2>2, MoreInstrForms DEF LeaRipBytes
  <2>4. Reaches(data, off, LeaRipBytes(dst), Instr("LEA", Reg64(dst), Rip(FieldAfter(data, off, LeaRipBytes(dst)))))
    BY <1>2, <2>3, LeaRipIsRead
  <2>5. PICK src : src = Rip(FieldAfter(data, off, LeaRipBytes(dst)))
    OBVIOUS
  <2>6. src.kind = "RIP"
    BY <2>5 DEF Rip, Operand
  <2>7. SameOperand(it.src, src) /\ SameOperand(it.dst, it.dst)
    BY <2>1, <2>6, Zenon DEF SameOperand
  <2>8. Reaches(data, off, EmitInstr(it), Instr(it.op, it.dst, src))
    BY <1>4, <2>3, <2>4, <2>5, Zenon
  <2>9. it.op # "MOV"
    OBVIOUS
  <2> QED
    BY <2>2, <2>7, <2>8, <2>9, NamingRight
<1> QED
  BY <1>6, <1>7

(* NEG, IDIV, PUSH and POP. *)
LEMMA OneOperandRight ==
  ASSUME NEW data, NEW off, NEW it, Candidate(data, off, it), it.op \in {"NEG", "IDIV", "PUSH", "POP"},
         Form(it.dst) = R(8), Form(it.src) = NoForm
  PROVE  Right(data, off, it)
<1>1. ~Names(it) /\ it.op # "MOV"
  BY NamesNothing, OperationSets
<1>2. off \in Nat /\ Holds(data, off, EmitInstr(it)) /\ Made(it.dst) /\ Made(it.src)
  BY CandidateParts
<1>3. PICK dst \in GeneralRegisters : it.dst = RegWidth(dst, 8)
  BY <1>2, RegisterMade
<1>4. it.dst.reg = dst /\ it.dst = Reg64(dst)
  BY <1>3 DEF RegWidth, Operand, Reg64
<1>5. it.src = NoOperand
  BY <1>2, NoneMade
<1>6. CASE it.op \in {"NEG", "IDIV"}
  <2>1. PICK grp \in {3, 7} : GrpOf[it.op] = grp /\ D!OpOf(D!Group3, grp) = it.op
    BY <1>6, TableOperations DEF GrpOf
  <2>2. EmitInstr(it) = EmitGrpUnary(grp, dst)
    BY <1>4, <1>6, <2>1, MoreInstrForms
  <2>3. ReadAs(data, off, EmitGrpUnary(grp, dst), Instr(D!OpOf(D!Group3, grp), Reg64(dst), NoOperand))
    BY <1>2, <2>2, GrpUnaryIsRead
  <2>4. ReadAs(data, off, EmitInstr(it), Instr(it.op, it.dst, it.src))
    BY <1>4, <1>5, <2>1, <2>2, <2>3, Zenon
  <2> QED
    BY <1>1, <2>4, PlainRight
<1>7. CASE it.op \in {"PUSH", "POP"}
  <2>1. PICK n \in {80, 88} : it.op = IF n = 80 THEN "PUSH" ELSE "POP"
    BY <1>7
  <2>2. EmitInstr(it) = StackBytes(n, dst)
    <3>1. it.op = "PUSH" => EmitInstr(it) = RexB(dst, FALSE) \o Op(<<80 + RegLow(dst)>>)
      BY <1>4, MoreInstrForms
    <3>2. it.op = "POP" => EmitInstr(it) = RexB(dst, FALSE) \o Op(<<88 + RegLow(dst)>>)
      BY <1>4, MoreInstrForms
    <3> QED
      BY <2>1, <3>1, <3>2 DEF StackBytes
  <2>3. ReadAs(data, off, StackBytes(n, dst),
               Instr(IF n = 80 THEN "PUSH" ELSE "POP", Reg64(dst), NoOperand))
    <3>1. Holds(data, off, StackBytes(n, dst))
      BY <1>2, <2>2, Zenon
    <3> QED
      BY <1>2, <3>1, StackIsRead
  <2>4. ReadAs(data, off, EmitInstr(it), Instr(it.op, it.dst, it.src))
    BY <1>4, <1>5, <2>1, <2>2, <2>3, Zenon
  <2> QED
    BY <1>1, <2>4, PlainRight
<1> QED
  BY <1>6, <1>7

(* SETcc. *)
LEMMA SetRight ==
  ASSUME NEW data, NEW off, NEW it, Candidate(data, off, it), it.op \in DOMAIN SetByte,
         Form(it.dst) = R(1), Form(it.src) = NoForm
  PROVE  Right(data, off, it)
<1>1. ~Names(it) /\ it.op # "MOV"
  BY NamesNothing, OperationSets
<1>2. off \in Nat /\ Holds(data, off, EmitInstr(it)) /\ Made(it.dst) /\ Made(it.src)
  BY CandidateParts
<1>3. PICK dst \in GeneralRegisters : it.dst = RegWidth(dst, 1)
  BY <1>2, RegisterMade
<1>4. it.dst.reg = dst /\ it.dst = Reg8(dst)
  BY <1>3 DEF RegWidth, Operand, Reg8
<1>5. it.src = NoOperand
  BY <1>2, NoneMade
<1>6. PICK n \in {148, 149, 156, 158} : SetByte[it.op] = n /\ D!OpOf(D!SetsRM8, 256 + n) = it.op
  <2>1. 256 + 148 = 404 /\ 256 + 149 = 405 /\ 256 + 156 = 412 /\ 256 + 158 = 414
    OBVIOUS
  <2> QED
    BY <2>1, TableOperations DEF SetByte
<1>7. EmitInstr(it) = SetBytes(n, dst)
  <2>1. EmitInstr(it) = RexB(it.dst.reg, TRUE) \o Op(<<15, SetByte[it.op]>>) \o ModRR(0, it.dst.reg)
    BY MoreInstrForms
  <2> QED
    BY <1>4, <1>6, <2>1, Zenon DEF SetBytes
<1>8. ReadAs(data, off, SetBytes(n, dst),
             Instr(D!OpOf(D!SetsRM8, 256 + n), Reg8(dst), NoOperand))
  <2>1. Holds(data, off, SetBytes(n, dst))
    BY <1>2, <1>7, Zenon
  <2> QED
    BY <1>2, <2>1, SetIsRead
<1>9. ReadAs(data, off, EmitInstr(it), Instr(it.op, it.dst, it.src))
  BY <1>4, <1>5, <1>6, <1>7, <1>8, Zenon
<1> QED
  BY <1>1, <1>9, PlainRight

(* JMP, CALL, JE and JNE. *)
LEMMA BranchRight ==
  ASSUME NEW data, NEW off, NEW it, Candidate(data, off, it), it.op \in DOMAIN Branch,
         Form(it.dst) = <<"LABEL", 0>>, Form(it.src) = NoForm
  PROVE  Right(data, off, it)
<1>1. Names(it) /\ it.op # "MOV"
  BY OperationSets DEF Names
<1>2. off \in Nat /\ Holds(data, off, EmitInstr(it)) /\ Made(it.src)
  BY CandidateParts
<1>3. it.dst.kind = "LABEL"
  BY DEF Form
<1>4. it.src = NoOperand
  BY <1>2, NoneMade
<1>5. EmitInstr(it) = Op(Branch[it.op])
  BY MoreInstrForms
<1>6. Reaches(data, off, Op(Branch[it.op]), Instr(it.op, Target(FieldAfter(data, off, Op(Branch[it.op]))), NoOperand))
  BY <1>2, <1>5, BranchIsRead
<1>7. PICK dst : dst = Target(FieldAfter(data, off, Op(Branch[it.op])))
  OBVIOUS
<1>8. dst.kind = "LABEL"
  BY <1>7 DEF Target, Operand
<1>9. SameOperand(it.dst, dst) /\ SameOperand(it.src, it.src)
  BY <1>3, <1>8, Zenon DEF SameOperand
<1>10. Reaches(data, off, EmitInstr(it), Instr(it.op, dst, it.src))
  BY <1>4, <1>5, <1>6, <1>7, Zenon
<1> QED
  BY <1>1, <1>9, <1>10, NamingRight

(* CQO, RET and SYSCALL. *)
LEMMA FixedRight ==
  ASSUME NEW data, NEW off, NEW it, Candidate(data, off, it), it.op \in DOMAIN Fixed,
         Form(it.dst) = NoForm, Form(it.src) = NoForm
  PROVE  Right(data, off, it)
<1>1. ~Names(it) /\ it.op # "MOV"
  BY NamesNothing, OperationSets
<1>2. off \in Nat /\ Holds(data, off, EmitInstr(it)) /\ Made(it.dst) /\ Made(it.src)
  BY CandidateParts
<1>3. it.dst = NoOperand /\ it.src = NoOperand
  BY <1>2, NoneMade
<1>4. EmitInstr(it) = Op(Fixed[it.op])
  BY MoreInstrForms
<1>5. ReadAs(data, off, Op(Fixed[it.op]), Instr(it.op, NoOperand, NoOperand))
  BY <1>2, <1>4, FixedIsRead
<1>6. ReadAs(data, off, EmitInstr(it), Instr(it.op, it.dst, it.src))
  BY <1>3, <1>4, <1>5, Zenon
<1> QED
  BY <1>1, <1>6, PlainRight

(* Every instruction asm.c could have built is read as its item. *)
LEMMA InstructionRight ==
  ASSUME NEW data, NEW off, NEW it, Candidate(data, off, it)
  PROVE  Right(data, off, it)
<1> DEFINE d == Form(it.dst)
           s == Form(it.src)
<1>1. <<it.op, d, s>> \in Forms
  BY DEF Candidate, Built
<1> HIDE DEF d, s
<1>2. CASE it.op \in DOMAIN OpcodeRR /\ d \in {R(8)} /\ s \in {R(8), ImmForm}
  BY <1>2, ArithmeticRight DEF d, s
<1>3. CASE it.op \in {"MOV"} /\ d \in {R(8)} /\ s \in {R(8), M(0), M(8), ImmForm}
  BY <1>3, MovToRegisterRight DEF d, s
<1>4. CASE it.op \in {"MOV"} /\ d \in {R(1)} /\ s \in {ImmForm}
  BY <1>4, MovByteRight DEF d, s
<1>5. CASE it.op \in {"MOV"} /\ d \in {M(0)} /\ s \in {R(1), R(4), R(8)}
  <2>1. PICK width \in {1, 4, 8} : s = R(width)
    BY <1>5
  <2> QED
    BY <1>5, <2>1, MovToMemoryRight DEF d, s
<1>6. CASE \/ it.op \in {"IMUL"} /\ d \in {R(8)} /\ s \in {R(8)}
           \/ it.op \in {"MOVZB"} /\ d \in {R(8)} /\ s \in {R(1)}
  BY <1>6, MultiplyRight DEF d, s
<1>7. CASE it.op \in {"MOVSX"} /\ d \in {R(8)} /\ s \in {R(1), R(4), M(1), M(4)}
  <2>1. PICK width \in {1, 4} : s \in {R(width), M(width)}
    BY <1>7
  <2> QED
    BY <1>7, <2>1, ExtendRight DEF d, s
<1>8. CASE it.op \in {"LEA"} /\ d \in {R(8)} /\ s \in {M(0), <<"RIP", 0>>}
  BY <1>8, AddressRight DEF d, s
<1>9. CASE it.op \in {"NEG", "IDIV", "PUSH", "POP"} /\ d \in {R(8)} /\ s \in {NoForm}
  BY <1>9, OneOperandRight DEF d, s
<1>10. CASE it.op \in DOMAIN SetByte /\ d \in {R(1)} /\ s \in {NoForm}
  BY <1>10, SetRight DEF d, s
<1>11. CASE it.op \in DOMAIN Branch /\ d \in {<<"LABEL", 0>>} /\ s \in {NoForm}
  BY <1>11, BranchRight DEF d, s
<1>12. CASE it.op \in DOMAIN Fixed /\ d \in {NoForm} /\ s \in {NoForm}
  BY <1>12, FixedRight DEF d, s
<1> QED
  BY <1>1, <1>2, <1>3, <1>4, <1>5, <1>6, <1>7, <1>8, <1>9, <1>10, <1>11, <1>12, FormCases, Zenon

-----------------------------------------------------------------------------
(* The walk over the items, as it was: T[n] is the section it is in after  *)
(* n items, and how far each section is filled.                            *)

(* The bytes of an item, up to the field of a name, and the room it takes. *)
Wrote(it) == CASE it.kind = "INSTR" -> EmitInstr(it) [] it.kind = "BYTES" -> Op(it.dst.val) [] OTHER -> << >>

Size(it) == Len(Wrote(it)) + (IF it.kind = "INSTR" /\ Names(it) THEN 4 ELSE 0)

Holding(data, off, it) ==
  off + Size(it) <= Len(data) /\ \A b \in 1..Len(Wrote(it)) : data[off + b] = Wrote(it)[b]

(* The walk comes from p by the item to q. *)
Follows(p, q, it, ss) ==
  /\ q.off = [p.off EXCEPT ![p.sec] = p.off[p.sec] + Size(it)]
  /\ IF it.kind = "SECTION" THEN ss[q.sec].name = it.dst.val[1] ELSE q.sec = p.sec
  /\ Holding(ss[p.sec].data, p.off[p.sec], it)

Stands(ss) == [sec : DOMAIN ss, off : [Nat -> Nat]]

IsTrace(T, n, its, ss) ==
  /\ T \in [0..n -> Stands(ss)]
  /\ T[0].sec = 1 /\ T[0].off = [s \in Nat |-> 0]
  /\ \A j \in 1..n : Follows(T[j - 1], T[j], its[j], ss)

Start(T, j) == T[j - 1].off[T[j - 1].sec]

FilledTo(off, ss) == \A d \in Nat : off[d] = IF d \in DOMAIN ss THEN Len(ss[d].data) ELSE 0

(* What an item writes is cells, and takes no more than its room. *)
LEMMA WroteCells ==
  ASSUME NEW it, Encodable(it)
  PROVE  Wrote(it) \in Seq(Cells) /\ Len(Wrote(it)) \in Nat /\ Size(it) \in Nat /\ Len(Wrote(it)) <= Size(it)
<1>1. Wrote(it) \in Seq(Cells)
  <2>1. CASE it.kind = "INSTR"
    BY <2>1, InstrIsCells DEF Wrote
  <2>2. CASE it.kind = "BYTES"
    <3>1. Op(it.dst.val) \in Seq(Cells)
      BY <2>2, OpIsCells DEF Encodable
    <3> QED
      BY <2>2, <3>1 DEF Wrote
  <2>3. CASE it.kind \notin {"INSTR", "BYTES"}
    BY <2>3, NoBytes DEF Wrote
  <2> QED
    BY <2>1, <2>2, <2>3
<1>2. Len(Wrote(it)) \in Nat
  BY <1>1
<1> QED
  BY <1>1, <1>2 DEF Size

(* The room of an item, by its kind. *)
LEMMA SizeIs ==
  ASSUME NEW it
  PROVE  /\ it.kind = "INSTR" => Wrote(it) = EmitInstr(it)
         /\ it.kind = "BYTES" => Wrote(it) = Op(it.dst.val) /\ Size(it) = Len(Wrote(it)) + 0
         /\ it.kind \notin {"INSTR", "BYTES"} => Wrote(it) = << >> /\ Size(it) = 0
<1>1. Len(<< >>) = 0 /\ 0 + 0 = 0
  BY EP!EmptyIsList
<1>2. /\ it.kind = "INSTR" => Wrote(it) = EmitInstr(it)
      /\ it.kind = "BYTES" => Wrote(it) = Op(it.dst.val)
  BY DEF Wrote
<1>3. it.kind # "INSTR" /\ it.kind # "BYTES" => Wrote(it) = << >>
  BY DEF Wrote
<1>4. it.kind # "INSTR" => Size(it) = Len(Wrote(it)) + 0
  BY DEF Size
<1>5. ASSUME it.kind \notin {"INSTR", "BYTES"}
      PROVE  Wrote(it) = << >> /\ Size(it) = 0
  <2>1. it.kind # "INSTR" /\ it.kind # "BYTES"
    BY <1>5
  <2>2. Wrote(it) = << >>
    BY <1>3, <2>1, Zenon
  <2> QED
    BY <1>1, <1>4, <2>1, <2>2, Zenon
<1>6. it.kind = "BYTES" => Size(it) = Len(Wrote(it)) + 0
  BY <1>4
<1> QED
  BY <1>2, <1>5, <1>6, Zenon

(* The walk as the decoder makes it: Walked. *)
Place(T, j) == [sec |-> T[j - 1].sec, off |-> Start(T, j), end |-> Start(T, j) + Size(items[j])]

AccOf(T, n) ==
  [sec |-> T[n].sec, off |-> [s \in DOMAIN secs |-> T[n].off[s]], places |-> [j \in 1..n |-> Place(T, j)]]

(* The object is made of the items, and the trace is of the walk over      *)
(* them.                                                                   *)
WholeTrace(T) ==
  /\ EncodableList(items) /\ AllBuilt /\ Sectioned(secs) /\ NamesApart(secs)
  /\ IsTrace(T, Len(items), items, secs)

(* Each step of a trace is between two of its places. *)
LEMMA TraceAt ==
  ASSUME NEW T, NEW n \in Nat, NEW its, NEW ss, IsTrace(T, n, its, ss), NEW j \in 1..n
  PROVE  /\ j - 1 \in 0..n /\ j \in 0..n
         /\ T[j - 1].sec \in DOMAIN ss /\ T[j].sec \in DOMAIN ss
         /\ T[j - 1].off \in [Nat -> Nat] /\ T[j].off \in [Nat -> Nat]
         /\ T[j - 1] \in Stands(ss) /\ T[j] \in Stands(ss)
         /\ Follows(T[j - 1], T[j], its[j], ss)
<1>1. j - 1 \in 0..n /\ j \in 0..n
  OBVIOUS
<1>2. T[j - 1] \in Stands(ss) /\ T[j] \in Stands(ss)
  BY <1>1 DEF IsTrace
<1> QED
  BY <1>1, <1>2 DEF Stands, IsTrace

(* What stands at an offset of a section, a processor that reads there     *)
(* finds.                                                                  *)
LEMMA ContainsHolds ==
  ASSUME NEW data, Len(data) \in Nat, NEW off \in Nat, NEW it, Encodable(it), Holding(data, off, it)
  PROVE  Holds(data, off, Wrote(it))
<1>1. PICK n \in Nat : n = Len(Wrote(it)) /\ n <= Size(it) /\ Size(it) \in Nat
  BY WroteCells
<1>2. off + n <= Len(data)
  BY <1>1 DEF Holding
<1> SUFFICES ASSUME NEW j \in 1..n
             PROVE  D!ByteAt(data, off + j - 1) = Wrote(it)[j][1]
  BY <1>1 DEF Holds
<1>3. data[off + j] = Wrote(it)[j]
  BY <1>1 DEF Holding
<1>4. off + j - 1 < Len(data) /\ (off + j - 1) + 1 = off + j
  BY <1>2
<1> QED
  BY <1>3, <1>4, Zenon DEF D!ByteAt

(* The positions of a list that can be encoded. *)
LEMMA ItemsDomain ==
  ASSUME NEW its, EncodableList(its)
  PROVE  DOMAIN its = 1..Len(its) /\ Len(its) \in Nat
<1>1. its = [j \in 1..Len(its) |-> its[j]]
  BY DEF EncodableList
<1>2. DOMAIN [j \in 1..Len(its) |-> its[j]] = 1..Len(its)
  OBVIOUS
<1> QED
  BY <1>1, <1>2, Zenon DEF EncodableList

(* At its place, a processor finds each item, and after it the next. *)
LEMMA AtPlace ==
  ASSUME NEW T, WholeTrace(T), NEW j \in 1..Len(items)
  PROVE  /\ items[j].kind = "INSTR" =>
              /\ Says(items[j], DecodedAt(Place(T, j)).ins)
              /\ DecodedAt(Place(T, j)).end = Start(T, j) + Size(items[j])
         /\ Place(T, j).sec \in DOMAIN secs /\ Start(T, j) \in Nat
         /\ Holding(secs[Place(T, j).sec].data, Start(T, j), items[j])
         /\ Encodable(items[j])
<1>1. Len(items) \in Nat /\ Encodable(items[j]) /\ Built(items[j])
  <2>1. EncodableList(items) /\ AllBuilt
    BY Zenon DEF WholeTrace
  <2>2. DOMAIN items = 1..Len(items) /\ Len(items) \in Nat
    BY <2>1, ItemsDomain, Zenon
  <2>3. Encodable(items[j])
    BY <2>1, Zenon DEF EncodableList
  <2> QED
    BY <2>1, <2>2, <2>3, Zenon DEF AllBuilt
<1>2. /\ T[j - 1].sec \in DOMAIN secs /\ T[j - 1].off \in [Nat -> Nat]
      /\ Follows(T[j - 1], T[j], items[j], secs)
  BY <1>1, TraceAt DEF WholeTrace
<1>3. DOMAIN secs = 1..Len(secs) /\ Len(secs) \in Nat /\ Sectioned(secs)
  <2>1. Sectioned(secs)
    BY Zenon DEF WholeTrace
  <2> QED
    BY <2>1, EP!ListProperties, Zenon DEF Sectioned
<1>4. PICK d \in DOMAIN secs, off \in Nat : d = T[j - 1].sec /\ off = Start(T, j)
  <2>1. PICK off \in [Nat -> Nat], d \in DOMAIN secs : off = T[j - 1].off /\ d = T[j - 1].sec
    BY <1>2, Zenon
  <2>2. d \in Nat
    BY <1>3
  <2>3. off[d] \in Nat
    BY <2>2
  <2> QED
    BY <2>1, <2>3, Zenon DEF Start
<1>5. Place(T, j).sec = d /\ Place(T, j).off = off
  BY <1>4 DEF Place
<1>6. Holding(secs[d].data, off, items[j]) /\ Len(secs[d].data) \in Nat
  <2>1. Len(secs[d].data) \in Nat
    BY <1>3, DataLength, Zenon
  <2> QED
    BY <1>2, <1>4, <2>1, Zenon DEF Follows, Start
<1>7. Holds(secs[d].data, off, Wrote(items[j]))
  BY <1>1, <1>6, ContainsHolds
<1>8. ASSUME items[j].kind = "INSTR"
      PROVE  Right(secs[d].data, off, items[j]) /\ Wrote(items[j]) = EmitInstr(items[j])
  <2>1. Wrote(items[j]) = EmitInstr(items[j])
    BY <1>8 DEF Wrote
  <2>2. Candidate(secs[d].data, off, items[j])
    BY <1>1, <1>7, <1>8, <2>1 DEF Candidate
  <2> QED
    BY <2>1, <2>2, InstructionRight
<1>9. DecodedAt(Place(T, j)) = D!Decoded(secs[d].data, off)
  BY <1>5 DEF DecodedAt
<1>10. ASSUME items[j].kind = "INSTR"
       PROVE  DecodedAt(Place(T, j)).end = off + Size(items[j])
  <2>1. DecodedAt(Place(T, j)).end = off + Len(EmitInstr(items[j])) + (IF Names(items[j]) THEN 4 ELSE 0)
    BY <1>8, <1>9, <1>10 DEF Right
  <2>2. Size(items[j]) = Len(EmitInstr(items[j])) + (IF Names(items[j]) THEN 4 ELSE 0)
    BY <1>8, <1>10 DEF Size
  <2>3. PICK n \in Nat, m \in {0, 4} : n = Len(EmitInstr(items[j])) /\ m = IF Names(items[j]) THEN 4 ELSE 0
    BY <1>1, <1>8, <1>10, WroteCells
  <2> QED
    BY <2>1, <2>2, <2>3
<1> QED
  BY <1>1, <1>4, <1>5, <1>6, <1>8, <1>9, <1>10 DEF Right

(* Where names are apart, the section of a name is found. *)
LEMMA FoundIsIt ==
  ASSUME NEW ss, Sectioned(ss), NamesApart(ss), NEW d \in DOMAIN ss
  PROVE  Elf!SectionFind(ss, ss[d].name) = d
<1>1. EP!IsList(ss)
  BY Zenon DEF Sectioned
<1>2. PICK name : name = ss[d].name
  OBVIOUS
<1>3. PICK e : e = Elf!First({j \in DOMAIN ss : ss[j].name = name})
  OBVIOUS
<1>4. /\ e # 0 => e \in DOMAIN ss /\ ss[e].name = name
      /\ \A j \in DOMAIN ss : ss[j].name = name => e # 0
  BY <1>1, <1>3, NameFound, Zenon
<1>5. e = d
  BY <1>2, <1>4 DEF NamesApart
<1> QED
  BY <1>2, <1>3, <1>5, Zenon DEF Elf!SectionFind

(* One step of the decoder is one step of the trace. *)
LEMMA WalkStep ==
  ASSUME NEW T, WholeTrace(T), NEW j \in 1..Len(items)
  PROVE  After(AccOf(T, j - 1), items[j]) = AccOf(T, j)
<1> DEFINE k    == j - 1
           it   == items[j]
           acc  == AccOf(T, k)
           here == [sec |-> acc.sec, off |-> acc.off[acc.sec]]
           end  == CASE it.kind = "INSTR" -> DecodedAt(here).end
                     [] it.kind = "BYTES" -> here.off + Len(it.dst.val)
                     [] OTHER -> here.off
<1>1. Len(items) \in Nat /\ Sectioned(secs) /\ NamesApart(secs) /\ IsTrace(T, Len(items), items, secs)
  <2>1. EncodableList(items) /\ Sectioned(secs) /\ NamesApart(secs) /\ IsTrace(T, Len(items), items, secs)
    BY Zenon DEF WholeTrace
  <2> QED
    BY <2>1, ItemsDomain, Zenon
<1>2. /\ T[k].sec \in DOMAIN secs /\ T[k].off \in [Nat -> Nat]
      /\ T[j].sec \in DOMAIN secs /\ T[j].off \in [Nat -> Nat]
      /\ Follows(T[k], T[j], it, secs)
  BY <1>1, TraceAt, Zenon
<1>3. DOMAIN secs = 1..Len(secs) /\ Len(secs) \in Nat
  BY <1>1, EP!ListProperties, Zenon DEF Sectioned
<1>4. acc.sec = T[k].sec /\ acc.off = [s \in DOMAIN secs |-> T[k].off[s]] /\ acc.places = [i \in 1..k |-> Place(T, i)]
  BY DEF AccOf
<1>5. here.sec = T[k].sec /\ here.off = Start(T, j)
  BY <1>2, <1>4 DEF Start
<1>6. Place(T, j) = [sec |-> T[k].sec, off |-> Start(T, j), end |-> Start(T, j) + Size(it)]
  BY DEF Place
<1>7. end = Start(T, j) + Size(it)
  <2>1. Start(T, j) \in Nat /\ Encodable(it)
    BY AtPlace
  <2>2. CASE it.kind = "INSTR"
    <3>1. DecodedAt(Place(T, j)).end = Start(T, j) + Size(it)
      BY <2>2, AtPlace, Zenon
    <3>2. DecodedAt(here) = DecodedAt(Place(T, j))
      <4>1. here.sec = Place(T, j).sec /\ here.off = Place(T, j).off
        BY <1>5, <1>6
      <4> QED
        BY <4>1, Zenon DEF DecodedAt
    <3> QED
      BY <2>2, <3>1, <3>2
  <2>3. CASE it.kind = "BYTES"
    <3>1. it.dst.val \in Seq(0..255)
      BY <2>1, <2>3 DEF Encodable
    <3>2. Size(it) = Len(it.dst.val)
      <4>1. Len(Op(it.dst.val)) = Len(it.dst.val) /\ Len(it.dst.val) \in Nat
        BY <3>1, OpIsCells
      <4>2. Wrote(it) = Op(it.dst.val)
        BY <2>3 DEF Wrote
      <4> QED
        BY <2>3, <4>1, <4>2 DEF Size
    <3>3. end = here.off + Len(it.dst.val)
      <4> HIDE DEF here, it
      <4> QED
        BY <2>3
    <3> QED
      BY <1>5, <3>2, <3>3, Zenon
  <2>4. CASE it.kind \notin {"INSTR", "BYTES"}
    <3>1. Size(it) = 0
      BY <2>4, SizeIs
    <3>2. end = here.off
      <4>1. it.kind # "INSTR" /\ it.kind # "BYTES"
        BY <2>4
      <4> HIDE DEF here, it
      <4> QED
        BY <4>1
    <3> HIDE DEF end, here, it
    <3>3. Start(T, j) + 0 = Start(T, j)
      BY <2>1
    <3> QED
      BY <1>5, <3>1, <3>2, <3>3, Zenon
  <2> QED
    BY <2>2, <2>3, <2>4
<1>8. After(acc, it) = [sec |-> IF it.kind = "SECTION" THEN Elf!SectionFind(secs, it.dst.val[1]) ELSE acc.sec,
                        off |-> [acc.off EXCEPT ![acc.sec] = end],
                        places |-> Append(acc.places, [sec |-> here.sec, off |-> here.off, end |-> end])]
  BY DEF After
<1> HIDE DEF end, here, acc
<1>9. (IF it.kind = "SECTION" THEN Elf!SectionFind(secs, it.dst.val[1]) ELSE acc.sec) = T[j].sec
  <2>1. CASE it.kind = "SECTION"
    <3>1. secs[T[j].sec].name = it.dst.val[1]
      BY <1>2, <2>1, Zenon DEF Follows
    <3>2. Elf!SectionFind(secs, it.dst.val[1]) = T[j].sec
      BY <1>1, <1>2, <3>1, FoundIsIt, Zenon
    <3> QED
      BY <2>1, <3>2
  <2>2. CASE it.kind # "SECTION"
    BY <1>2, <1>4, <2>2, Zenon DEF Follows
  <2> QED
    BY <2>1, <2>2
<1>10. [acc.off EXCEPT ![acc.sec] = end] = [s \in DOMAIN secs |-> T[j].off[s]]
  <2>1. PICK p \in [Nat -> Nat], q \in [Nat -> Nat], d \in DOMAIN secs : p = T[k].off /\ q = T[j].off /\ d = T[k].sec
    BY <1>2, Zenon
  <2>2. q = [p EXCEPT ![d] = p[d] + Size(it)]
    BY <1>2, <2>1, Zenon DEF Follows
  <2>3. end = p[d] + Size(it)
    BY <1>7, <2>1, Zenon DEF Start
  <2>4. acc.off = [s \in DOMAIN secs |-> p[s]] /\ acc.sec = d
    BY <1>4, <2>1, Zenon
  <2>5. [[s \in DOMAIN secs |-> p[s]] EXCEPT ![d] = end] = [s \in DOMAIN secs |-> q[s]]
    <3>1. \A s \in DOMAIN secs : s \in Nat
      BY <1>3
    <3>2. \A s \in DOMAIN secs : q[s] = IF s = d THEN end ELSE p[s]
      BY <2>2, <2>3, <3>1
    <3> HIDE DEF k, it
    <3> QED
      BY <3>2
  <2> QED
    BY <2>1, <2>4, <2>5, Zenon
<1>11. Append(acc.places, [sec |-> here.sec, off |-> here.off, end |-> end]) = [i \in 1..j |-> Place(T, i)]
  <2>1. k \in Nat /\ j = k + 1
    BY <1>1
  <2>2. [sec |-> here.sec, off |-> here.off, end |-> end] = Place(T, j)
    BY <1>5, <1>6, <1>7, Zenon
  <2> DEFINE s == [i \in 1..j |-> Place(T, i)]
  <2>3. DOMAIN s = 1..(k + 1) /\ s = [i \in 1..(k + 1) |-> s[i]] /\ s[k + 1] = Place(T, j)
    BY <2>1
  <2>4. acc.places = [i \in 1..k |-> s[i]]
    BY <1>4, <2>1
  <2> HIDE DEF s, k
  <2>5. Append(acc.places, s[k + 1]) = s
    BY <2>1, <2>3, <2>4, EP!AppendNext
  <2>6. Append(acc.places, Place(T, j)) = s
    BY <2>3, <2>5, Zenon
  <2> QED
    BY <2>2, <2>6, Zenon DEF s
<1>12. AccOf(T, j) = [sec |-> T[j].sec, off |-> [s \in DOMAIN secs |-> T[j].off[s]], places |-> [i \in 1..j |-> Place(T, i)]]
  BY DEF AccOf
<1> QED
  BY <1>8, <1>9, <1>10, <1>11, <1>12, Zenon DEF acc

(* Both begin at the start of the first section. *)
LEMMA WalkBegins ==
  ASSUME NEW T, WholeTrace(T)
  PROVE  AccOf(T, 0) = [sec |-> 1, off |-> [s \in DOMAIN secs |-> 0], places |-> << >>]
<1>1. Sectioned(secs) /\ IsTrace(T, Len(items), items, secs)
  BY Zenon DEF WholeTrace
<1>2. T[0].sec = 1 /\ T[0].off = [s \in Nat |-> 0]
  BY <1>1, Zenon DEF IsTrace
<1>3. DOMAIN secs = 1..Len(secs) /\ Len(secs) \in Nat
  BY <1>1, EP!ListProperties, Zenon DEF Sectioned
<1>4. [s \in DOMAIN secs |-> T[0].off[s]] = [s \in DOMAIN secs |-> 0]
  <2>1. \A s \in DOMAIN secs : T[0].off[s] = 0
    BY <1>2, <1>3
  <2> QED
    BY <2>1
<1>5. [j \in 1..0 |-> Place(T, j)] = << >>
  OBVIOUS
<1> QED
  BY <1>2, <1>4, <1>5, Zenon DEF AccOf

(* What walks as the decoder does. *)
Walks(f) ==
  f = [n \in 0..Len(items) |->
         IF n = 0 THEN [sec |-> 1, off |-> [s \in DOMAIN secs |-> 0], places |-> << >>]
         ELSE After(f[n - 1], items[n])]

(* The trace is a walk of the decoder. *)
LEMMA WalkExists ==
  ASSUME NEW T, WholeTrace(T)
  PROVE  Walks([n \in 0..Len(items) |-> AccOf(T, n)])
<1> DEFINE F == [n \in 0..Len(items) |-> AccOf(T, n)]
           base == [sec |-> 1, off |-> [s \in DOMAIN secs |-> 0], places |-> << >>]
<1>1. Len(items) \in Nat
  <2>1. EncodableList(items)
    BY Zenon DEF WholeTrace
  <2> QED
    BY <2>1, ItemsDomain, Zenon
<1>2. AccOf(T, 0) = base
  BY WalkBegins, Zenon
<1>3. ASSUME NEW n \in 0..Len(items)
      PROVE  F[n] = IF n = 0 THEN base ELSE After(F[n - 1], items[n])
  <2> HIDE DEF base
  <2>1. CASE n = 0
    BY <1>2, <2>1
  <2>2. CASE n # 0
    <3>1. n \in 1..Len(items) /\ n - 1 \in 0..Len(items)
      BY <1>1, <2>2
    <3>2. F[n] = AccOf(T, n) /\ F[n - 1] = AccOf(T, n - 1)
      BY <3>1
    <3> HIDE DEF F
    <3> QED
      BY <2>2, <3>1, <3>2, WalkStep, Zenon
  <2> QED
    BY <2>1, <2>2, Zenon
<1>4. F = [n \in 0..Len(items) |-> F[n]]
  OBVIOUS
<1> HIDE DEF F, base
<1>5. F = [n \in 0..Len(items) |-> IF n = 0 THEN base ELSE After(F[n - 1], items[n])]
  BY <1>3, <1>4, Zenon
<1> QED
  BY <1>5, Zenon DEF Walks, F, base

(* And it is the only one. *)
LEMMA WalkIs ==
  ASSUME NEW T, WholeTrace(T)
  PROVE  Walk = AccOf(T, Len(items))
<1> DEFINE W == CHOOSE f : Walks(f)
           base == [sec |-> 1, off |-> [s \in DOMAIN secs |-> 0], places |-> << >>]
<1>1. Walks(W)
  BY WalkExists, Zenon
<1>2. Walked = W
  BY Zenon DEF Walked, Walks
<1> HIDE DEF W
<1>3. Len(items) \in Nat
  <2>1. EncodableList(items)
    BY Zenon DEF WholeTrace
  <2> QED
    BY <2>1, ItemsDomain, Zenon
<1>4. \A n \in 0..Len(items) : W[n] = IF n = 0 THEN base ELSE After(W[n - 1], items[n])
  <2>1. W = [n \in 0..Len(items) |-> IF n = 0 THEN base ELSE After(W[n - 1], items[n])]
    BY <1>1, Zenon DEF Walks
  <2> HIDE DEF base
  <2> QED
    BY <2>1, Zenon
<1> DEFINE Wrong == {n \in 0..Len(items) : W[n] # AccOf(T, n)}
<1>5. Wrong = {}
  <2> SUFFICES ASSUME Wrong # {}
               PROVE  FALSE
    OBVIOUS
  <2>1. Wrong \in SUBSET Nat
    OBVIOUS
  <2>2. PICK n \in Wrong : \A m \in Wrong : n <= m
    <3> HIDE DEF Wrong
    <3> QED
      BY <2>1, EP!LeastExists, Zenon
  <2>3. n \in 0..Len(items) /\ W[n] # AccOf(T, n)
    OBVIOUS
  <2> HIDE DEF base
  <2>4. n # 0
    <3>1. AccOf(T, 0) = base
      BY WalkBegins, Zenon DEF base
    <3> QED
      BY <1>4, <2>3, <3>1, Zenon
  <2>5. n \in 1..Len(items) /\ n - 1 \in 0..Len(items) /\ ~(n <= n - 1)
    BY <1>3, <2>3, <2>4
  <2>6. W[n - 1] = AccOf(T, n - 1)
    BY <2>2, <2>5, Zenon
  <2>7. W[n] = After(W[n - 1], items[n])
    BY <1>4, <2>3, <2>4, Zenon
  <2> QED
    BY <2>3, <2>5, <2>6, <2>7, WalkStep, Zenon
<1>6. Len(items) \in 0..Len(items)
  BY <1>3
<1>7. W[Len(items)] = AccOf(T, Len(items))
  BY <1>5, <1>6, Zenon
<1> QED
  BY <1>2, <1>7, Zenon DEF Walk

-----------------------------------------------------------------------------
(* What the encoder noted on the way, and what it made of that.            *)

(* A label stands where its item does. *)
LabelNoted(T, j, label, its) ==
  /\ its[j].kind = "LABEL" /\ label.name = its[j].dst.val
  /\ label.sec = T[j - 1].sec /\ label.off = Start(T, j)

(* Label l is of item L[l], and no item is forgotten. *)
LabelsNoted(T, L, n, its, ls) ==
  /\ L \in [DOMAIN ls -> 1..n]
  /\ \A l \in DOMAIN ls : LabelNoted(T, L[l], ls[l], its)
  /\ \A l, m \in DOMAIN ls : l < m => L[l] < L[m]
  /\ \A j \in 1..n : its[j].kind = "LABEL" => \E l \in DOMAIN ls : L[l] = j

IsNaming(it) == it.kind = "INSTR" /\ Names(it)

FixNoted(T, j, fix, its) ==
  /\ fix.sec = T[j - 1].sec /\ fix.off = Start(T, j) + Len(EmitInstr(its[j]))
  /\ fix.name = NameIn(its[j])

FixesNoted(T, n, its, fs) ==
  /\ \A j \in 1..n : IsNaming(its[j]) => \E f \in DOMAIN fs : FixNoted(T, j, fs[f], its)
  /\ \A f \in DOMAIN fs : \E j \in 1..n : IsNaming(its[j]) /\ FixNoted(T, j, fs[f], its)

GloblsNoted(n, its, gs) ==
  \A name : name \in gs <=> \E j \in 1..n : its[j].kind = "GLOBL" /\ its[j].dst.val = name

(* The first symbols are those of the labels, and the others are of no     *)
(* section.                                                                *)
SymbolOf(y, label, gs) ==
  /\ y.name = label.name /\ y.sec = label.sec /\ y.value = label.off
  /\ (y.bind = "GLOBAL" <=> label.name \in gs)

LabelSymbols(m, ls, ys, gs) ==
  \A y \in 1..m : y \in DOMAIN ys /\ y \in DOMAIN ls /\ SymbolOf(ys[y], ls[y], gs)

OthersUndefined(m, ys) ==
  \A y \in DOMAIN ys : y > m =>
    /\ ys[y].sec = 0 /\ ys[y].bind = "GLOBAL"
    /\ \A x \in DOMAIN ys : x < y => ys[x].name # ys[y].name

(* The relocations are those of the first m references. *)
RelocOf(rela, fix, ys) ==
  rela.off = fix.off /\ rela.sym = Elf!SymbolFind(ys, fix.name) /\ rela.addend = -4

RelocsNoted(m, fs, ss, ys) ==
  /\ \A f \in DOMAIN fs : f <= m => \E q \in DOMAIN ss[fs[f].sec].relas : RelocOf(ss[fs[f].sec].relas[q], fs[f], ys)
  /\ \A d \in DOMAIN ss : \A q \in DOMAIN ss[d].relas :
       \E f \in DOMAIN fs : fs[f].sec = d /\ RelocOf(ss[d].relas[q], fs[f], ys)

(* What holds of an object that was made of the items. *)
MadeOf(T, L) ==
  /\ WholeTrace(T) /\ FilledTo(T[Len(items)].off, secs)
  /\ LabelsNoted(T, L, Len(items), items, labels) /\ FixesNoted(T, Len(items), items, fixes)
  /\ GloblsNoted(Len(items), items, globls)
  /\ EP!IsList(labels) /\ EP!IsList(syms)
  /\ LabelSymbols(Len(labels), labels, syms, globls) /\ OthersUndefined(Len(labels), syms)

(* What MadeOf says, spelt out. *)
LEMMA MadeOfParts ==
  ASSUME NEW T, NEW L, MadeOf(T, L)
  PROVE  /\ Len(items) \in Nat /\ DOMAIN items = 1..Len(items)
         /\ DOMAIN secs = 1..Len(secs) /\ Len(secs) \in Nat /\ Sectioned(secs) /\ NamesApart(secs)
         /\ DOMAIN labels = 1..Len(labels) /\ Len(labels) \in Nat
         /\ DOMAIN syms = 1..Len(syms) /\ Len(syms) \in Nat /\ EP!IsList(syms)
         /\ IsTrace(T, Len(items), items, secs)
         /\ Walk = AccOf(T, Len(items))
<1>1. /\ EncodableList(items) /\ Sectioned(secs) /\ NamesApart(secs) /\ IsTrace(T, Len(items), items, secs)
      /\ WholeTrace(T) /\ EP!IsList(labels) /\ EP!IsList(syms)
  BY Zenon DEF MadeOf, WholeTrace
<1>2. Len(items) \in Nat /\ DOMAIN items = 1..Len(items)
  BY <1>1, ItemsDomain, Zenon
<1>3. DOMAIN secs = 1..Len(secs) /\ Len(secs) \in Nat
  BY <1>1, EP!ListProperties, Zenon DEF Sectioned
<1>4. /\ DOMAIN labels = 1..Len(labels) /\ Len(labels) \in Nat
      /\ DOMAIN syms = 1..Len(syms) /\ Len(syms) \in Nat
  BY <1>1, EP!ListProperties, Zenon
<1>5. Walk = AccOf(T, Len(items))
  BY <1>1, WalkIs, Zenon
<1> QED
  BY <1>1, <1>2, <1>3, <1>4, <1>5, Zenon

(* The bytes of a data item are those of the section from its place to its *)
(* end.                                                                    *)
LEMMA DataStands ==
  ASSUME NEW data \in Seq(Cells), NEW off \in Nat, NEW it, Encodable(it), it.kind = "BYTES", Holding(data, off, it)
  PROVE  SubSeq(data, off + 1, off + Size(it)) = Op(it.dst.val)
<1>1. PICK bytes \in Seq(Cells) : bytes = Op(it.dst.val)
  <2>1. Op(it.dst.val) \in Seq(Cells)
    BY OpIsCells DEF Encodable
  <2> QED
    BY <2>1
<1>2. PICK n \in Nat : n = Len(bytes)
  BY <1>1
<1>3. Wrote(it) = bytes /\ Size(it) = n
  <2>1. Wrote(it) = bytes /\ Size(it) = n + 0
    BY <1>1, <1>2, SizeIs
  <2> QED
    BY <2>1
<1>4. off + n <= Len(data) /\ \A b \in 1..n : data[off + b] = bytes[b]
  BY <1>2, <1>3, Zenon DEF Holding
<1>5. PICK s : s = SubSeq(data, off + 1, off + n)
  OBVIOUS
<1>6. s \in Seq(Cells) /\ Len(s) = n /\ \A b \in 1..n : s[b] = data[off + b]
  <2>1. off + 1 \in 1..(Len(data) + 1) /\ off + n \in 0..Len(data) /\ (off + n) - (off + 1) + 1 = n
    BY <1>4
  <2>2. /\ s \in Seq(Cells) /\ Len(s) = (off + n) - (off + 1) + 1
        /\ \A b \in 1..((off + n) - (off + 1) + 1) : s[b] = data[(off + 1) + b - 1]
    BY <1>5, <2>1, SubSeqProperties
  <2>3. \A b \in 1..n : s[b] = data[(off + 1) + b - 1]
    BY <2>1, <2>2, Zenon
  <2>4. \A b \in 1..n : (off + 1) + b - 1 = off + b
    OBVIOUS
  <2>5. Len(s) = n
    BY <2>1, <2>2, Zenon
  <2> QED
    BY <2>2, <2>3, <2>4, <2>5, Zenon
<1>7. s = bytes
  <2>1. \A b \in 1..n : s[b] = bytes[b]
    BY <1>4, <1>6
  <2> QED
    BY <1>2, <1>6, <2>1
<1> QED
  BY <1>1, <1>3, <1>5, <1>7, Zenon

(* Each item is in the object. *)
LEMMA ItemIsSaid ==
  ASSUME NEW T, NEW L, MadeOf(T, L), NEW j \in 1..Len(items)
  PROVE  ItemSaid(items[j], Place(T, j))
<1>1. /\ Len(items) \in Nat /\ Sectioned(secs) /\ DOMAIN labels = 1..Len(labels) /\ Len(labels) \in Nat
  BY MadeOfParts, Zenon
<1>2. /\ items[j].kind = "INSTR" => Says(items[j], DecodedAt(Place(T, j)).ins)
      /\ Place(T, j).sec \in DOMAIN secs /\ Start(T, j) \in Nat
      /\ Holding(secs[Place(T, j).sec].data, Start(T, j), items[j])
      /\ Encodable(items[j])
  <2>1. WholeTrace(T)
    BY Zenon DEF MadeOf
  <2> QED
    BY <2>1, AtPlace, Zenon
<1>3. Place(T, j).sec = T[j - 1].sec /\ Place(T, j).off = Start(T, j) /\ Place(T, j).end = Start(T, j) + Size(items[j])
  BY DEF Place
<1>4. ASSUME items[j].kind = "BYTES"
      PROVE  SubSeq(secs[Place(T, j).sec].data, Place(T, j).off + 1, Place(T, j).end) = Op(items[j].dst.val)
  <2>1. secs[Place(T, j).sec].data \in Seq(Cells)
    BY <1>1, <1>2, Zenon DEF Sectioned, IsSection
  <2> QED
    BY <1>2, <1>3, <1>4, <2>1, DataStands, Zenon
<1>5. ASSUME items[j].kind = "LABEL"
      PROVE  \E s \in DOMAIN syms : syms[s].name = items[j].dst.val /\ syms[s].sec = Place(T, j).sec
                                    /\ syms[s].value = Place(T, j).off
  <2>1. LabelsNoted(T, L, Len(items), items, labels) /\ LabelSymbols(Len(labels), labels, syms, globls)
    BY Zenon DEF MadeOf
  <2>2. PICK l \in DOMAIN labels : L[l] = j
    BY <1>5, <2>1, Zenon DEF LabelsNoted
  <2>3. LabelNoted(T, j, labels[l], items)
    BY <2>1, <2>2, Zenon DEF LabelsNoted
  <2>4. l \in DOMAIN syms /\ SymbolOf(syms[l], labels[l], globls)
    BY <1>1, <2>1, <2>2, Zenon DEF LabelSymbols
  <2> QED
    BY <1>3, <2>3, <2>4, Zenon DEF LabelNoted, SymbolOf
<1> QED
  BY <1>2, <1>4, <1>5, Zenon DEF ItemSaid

(* So the object says its items. *)
LEMMA MadeOfSays ==
  ASSUME NEW T, NEW L, MadeOf(T, L)
  PROVE  EachSaid
<1>1. /\ Len(items) \in Nat /\ DOMAIN items = 1..Len(items) /\ DOMAIN secs = 1..Len(secs)
      /\ Walk = AccOf(T, Len(items)) /\ Len(secs) \in Nat
  BY MadeOfParts, Zenon
<1>2. ASSUME NEW s \in DOMAIN secs
      PROVE  Walk.off[s] = Len(secs[s].data)
  <2>1. Walk.off = [r \in DOMAIN secs |-> T[Len(items)].off[r]]
    BY <1>1 DEF AccOf
  <2>2. s \in Nat
    BY <1>1
  <2>3. T[Len(items)].off[s] = Len(secs[s].data)
    BY <2>2, Zenon DEF MadeOf, FilledTo
  <2> QED
    BY <2>1, <2>3
<1>3. ASSUME NEW j \in DOMAIN items
      PROVE  ItemSaid(items[j], Walk.places[j])
  <2>1. Walk.places = [i \in 1..Len(items) |-> Place(T, i)]
    BY <1>1 DEF AccOf
  <2>2. j \in 1..Len(items)
    BY <1>1
  <2>3. Walk.places[j] = Place(T, j)
    BY <2>1, <2>2
  <2> QED
    BY <2>2, <2>3, ItemIsSaid, Zenon
<1> QED
  BY <1>2, <1>3, Zenon DEF EachSaid, AllSaid

(* The places the decoder finds are those of the trace. *)
LEMMA PlacesOf ==
  ASSUME NEW T, NEW L, MadeOf(T, L)
  PROVE  \A j \in 1..Len(items) : Walk.places[j] = Place(T, j)
<1>1. Walk = AccOf(T, Len(items))
  BY MadeOfParts, Zenon
<1>2. Walk.places = [i \in 1..Len(items) |-> Place(T, i)]
  BY <1>1 DEF AccOf
<1> QED
  BY <1>2

(* The first of some positions is the least of them. *)
LEMMA FirstLeast ==
  ASSUME NEW S \in SUBSET (Nat \ {0}), S # {}
  PROVE  Elf!First(S) \in S /\ \A x \in S : Elf!First(S) <= x
BY SameFirst, EP!FirstIsLeast, Zenon

(* The labels of a name, and the first of them, are where the symbol of    *)
(* the name says.                                                          *)
LEMMA SymbolIsFirstLabel ==
  ASSUME NEW T, NEW L, MadeOf(T, L), NEW name, Definitions(name) # {},
         NEW y, y = Elf!SymbolFind(syms, name)
  PROVE  LET j == Elf!First(Definitions(name))
         IN y \in DOMAIN syms /\ syms[y].sec = Place(T, j).sec /\ syms[y].value = Place(T, j).off
            /\ j \in 1..Len(items)
<1> DEFINE S == {s \in DOMAIN syms : syms[s].name = name}
           defs == Definitions(name)
<1>1. /\ Len(items) \in Nat /\ DOMAIN items = 1..Len(items)
      /\ DOMAIN labels = 1..Len(labels) /\ Len(labels) \in Nat
      /\ DOMAIN syms = 1..Len(syms) /\ Len(syms) \in Nat
  BY MadeOfParts, Zenon
<1>2. LabelsNoted(T, L, Len(items), items, labels) /\ LabelSymbols(Len(labels), labels, syms, globls)
  BY Zenon DEF MadeOf
<1>3. /\ L \in [DOMAIN labels -> 1..Len(items)]
      /\ \A l \in DOMAIN labels : LabelNoted(T, L[l], labels[l], items)
      /\ \A l, m \in DOMAIN labels : l < m => L[l] < L[m]
      /\ \A j \in 1..Len(items) : items[j].kind = "LABEL" => \E l \in DOMAIN labels : L[l] = j
  BY <1>2, Zenon DEF LabelsNoted
<1>4. \A l \in DOMAIN labels : l \in DOMAIN syms /\ SymbolOf(syms[l], labels[l], globls)
  BY <1>1, <1>2, Zenon DEF LabelSymbols
<1>5. \A j \in DOMAIN items : j \in defs <=> items[j].kind = "LABEL" /\ items[j].dst.val = name
  BY Zenon DEF Definitions
<1>6. defs \subseteq DOMAIN items
  BY DEF Definitions
<1> HIDE DEF defs
<1>7. \A j \in defs : \E l \in DOMAIN labels : L[l] = j /\ l \in S
  <2> SUFFICES ASSUME NEW j \in defs
               PROVE  \E l \in DOMAIN labels : L[l] = j /\ l \in S
    OBVIOUS
  <2>1. j \in 1..Len(items) /\ items[j].kind = "LABEL" /\ items[j].dst.val = name
    BY <1>1, <1>5, <1>6
  <2>2. PICK l \in DOMAIN labels : L[l] = j
    BY <1>3, <2>1, Zenon
  <2>3. labels[l].name = name
    BY <1>3, <2>1, <2>2, Zenon DEF LabelNoted
  <2>4. l \in DOMAIN syms /\ syms[l].name = name
    BY <1>4, <2>3, Zenon DEF SymbolOf
  <2> QED
    BY <2>2, <2>4, Zenon
<1>8. S \in SUBSET (Nat \ {0})
  BY <1>1
<1>9. PICK j \in defs : TRUE
  <2>1. defs # {}
    BY DEF defs
  <2> QED
    BY <2>1
<1>10. S # {}
  BY <1>7, <1>9, Zenon
<1>11. y = Elf!First(S)
  BY Zenon DEF Elf!SymbolFind
<1> HIDE DEF S
<1>12. y \in S /\ \A s \in S : y <= s
  <2>1. Elf!First(S) \in S /\ \A s \in S : Elf!First(S) <= s
    BY <1>8, <1>10, FirstLeast
  <2> QED
    BY <1>11, <2>1
<1>13. y \in DOMAIN syms /\ syms[y].name = name
  BY <1>12 DEF S
<1>14. PICK l0 \in DOMAIN labels : L[l0] = j /\ l0 \in S
  BY <1>7, <1>9, Zenon
<1>15. y \in DOMAIN labels
  <2>1. y <= l0
    BY <1>12, <1>14
  <2> QED
    BY <1>1, <1>13, <1>14, <2>1
<1>16. SymbolOf(syms[y], labels[y], globls) /\ LabelNoted(T, L[y], labels[y], items)
  BY <1>3, <1>4, <1>15, Zenon
<1>17. L[y] \in defs
  <2>1. L[y] \in 1..Len(items)
    BY <1>3, <1>15
  <2>2. items[L[y]].kind = "LABEL" /\ items[L[y]].dst.val = name
    BY <1>13, <1>16, Zenon DEF SymbolOf, LabelNoted
  <2> QED
    BY <1>1, <1>5, <2>1, <2>2, Zenon
<1>18. \A i \in defs : L[y] <= i
  <2> SUFFICES ASSUME NEW i \in defs PROVE L[y] <= i
    OBVIOUS
  <2>1. PICK l \in DOMAIN labels : L[l] = i /\ l \in S
    BY <1>7, Zenon
  <2>2. y <= l
    BY <1>12, <2>1
  <2>3. l \in Nat /\ y \in Nat /\ L[y] \in Nat /\ L[l] \in Nat
    BY <1>1, <1>3, <1>15
  <2>4. y = l \/ y < l
    BY <2>2, <2>3
  <2>5. y < l => L[y] < L[l]
    BY <1>3, <1>15, Zenon
  <2> QED
    BY <2>1, <2>3, <2>4, <2>5
<1>19. Elf!First(defs) = L[y]
  <2>1. defs \in SUBSET (Nat \ {0})
    BY <1>1, <1>6
  <2>2. PICK f : f = Elf!First(defs)
    OBVIOUS
  <2>3. f \in defs /\ \A x \in defs : f <= x
    BY <1>9, <2>1, <2>2, FirstLeast, Zenon
  <2>4. f <= L[y] /\ L[y] <= f
    BY <1>17, <1>18, <2>3, Zenon
  <2>5. f \in Nat /\ L[y] \in Nat
    BY <1>17, <2>1, <2>3
  <2>6. f = L[y]
    BY <2>4, <2>5
  <2> QED
    BY <2>2, <2>6
<1>20. Place(T, L[y]).sec = T[L[y] - 1].sec /\ Place(T, L[y]).off = Start(T, L[y])
  BY DEF Place
<1>21. L[y] \in 1..Len(items)
  BY <1>3, <1>15
<1> QED
  BY <1>13, <1>16, <1>19, <1>20, <1>21, Zenon DEF SymbolOf, LabelNoted, defs

(* A name no label has is that of one symbol, of no section. *)
LEMMA SymbolIsUndefined ==
  ASSUME NEW T, NEW L, MadeOf(T, L), NEW name, Definitions(name) = {},
         NEW y, y = Elf!SymbolFind(syms, name), y # 0
  PROVE  /\ y \in DOMAIN syms /\ syms[y].sec = 0 /\ syms[y].bind = "GLOBAL"
         /\ Cardinality({s \in DOMAIN syms : syms[s].name = name}) = 1
<1>1. /\ Len(items) \in Nat /\ DOMAIN items = 1..Len(items)
      /\ DOMAIN labels = 1..Len(labels) /\ Len(labels) \in Nat
      /\ DOMAIN syms = 1..Len(syms) /\ Len(syms) \in Nat /\ EP!IsList(syms)
  BY MadeOfParts, Zenon
<1>2. /\ LabelsNoted(T, L, Len(items), items, labels) /\ LabelSymbols(Len(labels), labels, syms, globls)
      /\ OthersUndefined(Len(labels), syms)
  BY Zenon DEF MadeOf
<1>3. y \in DOMAIN syms /\ syms[y].name = name
  BY <1>1, SymbolFound, Zenon
<1>4. ASSUME NEW s \in DOMAIN syms, syms[s].name = name
      PROVE  s > Len(labels)
  <2> SUFFICES ASSUME s <= Len(labels) PROVE FALSE
    BY <1>1
  <2>1. s \in DOMAIN labels
    BY <1>1
  <2>2. labels[s].name = name
    BY <1>1, <1>2, <1>4, <2>1, Zenon DEF LabelSymbols, SymbolOf
  <2>3. L[s] \in 1..Len(items) /\ LabelNoted(T, L[s], labels[s], items)
    BY <1>2, <2>1 DEF LabelsNoted
  <2>4. L[s] \in Definitions(name)
    BY <1>1, <2>2, <2>3, Zenon DEF Definitions, LabelNoted
  <2> QED
    BY <2>4
<1>5. syms[y].sec = 0 /\ syms[y].bind = "GLOBAL"
  BY <1>2, <1>3, <1>4, Zenon DEF OthersUndefined
<1>6. ASSUME NEW s \in DOMAIN syms, syms[s].name = name
      PROVE  s = y
  <2>1. s > Len(labels) /\ y > Len(labels)
    BY <1>3, <1>4, <1>6, Zenon
  <2>2. ~(s < y) /\ ~(y < s)
    BY <1>2, <1>3, <1>6, <2>1, Zenon DEF OthersUndefined
  <2> QED
    BY <1>1, <1>3, <2>2
<1>7. {s \in DOMAIN syms : syms[s].name = name} = {y}
  BY <1>3, <1>6
<1>8. Cardinality({y}) = 1
  BY FS_Singleton
<1> QED
  BY <1>3, <1>5, <1>7, <1>8, Zenon

(* Every reference has its relocation. *)
Relocated ==
  /\ RelocsNoted(Len(fixes), fixes, secs, syms)
  /\ FixesInside(fixes, secs) /\ RelocsInside(secs, syms)

(* The reference of a naming item, and the one relocation in its field. *)
LEMMA SiteOf ==
  ASSUME NEW T, NEW L, MadeOf(T, L), Relocated, NEW j \in 1..Len(items), IsNaming(items[j]),
         NEW place, place = Place(T, j)
  PROVE  /\ place.sec \in DOMAIN secs
         /\ \E q \in DOMAIN secs[place.sec].relas :
              /\ \A x \in DOMAIN secs[place.sec].relas :
                   (secs[place.sec].relas[x].off = place.end - 4) <=> x = q
              /\ secs[place.sec].relas[q].sym = Elf!SymbolFind(syms, NameIn(items[j]))
              /\ secs[place.sec].relas[q].addend = -4
<1>1. Encodable(items[j]) /\ place.sec \in DOMAIN secs /\ Start(T, j) \in Nat
  <2>1. WholeTrace(T)
    BY Zenon DEF MadeOf
  <2> QED
    BY <2>1, AtPlace, Zenon
<1>2. PICK n \in Nat : n = Len(EmitInstr(items[j])) /\ Wrote(items[j]) = EmitInstr(items[j])
  <2>1. Wrote(items[j]) = EmitInstr(items[j])
    BY SizeIs DEF IsNaming
  <2> QED
    BY <1>1, <2>1, WroteCells
<1>3. place.sec = T[j - 1].sec /\ place.off = Start(T, j) /\ place.end = Start(T, j) + (n + 4)
  <2>1. Size(items[j]) = n + 4
    BY <1>2 DEF Size, IsNaming
  <2> QED
    BY <2>1 DEF Place
<1>4. place.end - 4 = Start(T, j) + n
  BY <1>1, <1>3
<1>5. PICK f \in DOMAIN fixes : FixNoted(T, j, fixes[f], items)
  BY Zenon DEF MadeOf, FixesNoted
<1>6. fixes[f].sec = place.sec /\ fixes[f].off = place.end - 4 /\ fixes[f].name = NameIn(items[j])
  BY <1>2, <1>3, <1>4, <1>5, Zenon DEF FixNoted
<1>7. DOMAIN fixes = 1..Len(fixes) /\ Len(fixes) \in Nat
  <2>1. EP!IsList(fixes)
    BY Zenon DEF Relocated, FixesInside
  <2> QED
    BY <2>1, EP!ListProperties, Zenon
<1> DEFINE relas == secs[place.sec].relas
<1>8. PICK q \in DOMAIN relas : RelocOf(relas[q], fixes[f], syms)
  <2>1. f <= Len(fixes)
    BY <1>7
  <2> QED
    BY <1>5, <1>6, <2>1, Zenon DEF Relocated, RelocsNoted
<1>9. relas[q].off = place.end - 4 /\ relas[q].sym = Elf!SymbolFind(syms, NameIn(items[j])) /\ relas[q].addend = -4
  BY <1>6, <1>8, Zenon DEF RelocOf
<1>10. RelocsIn(secs[place.sec], syms) /\ EP!IsList(relas)
  <2>1. Sectioned(secs)
    BY MadeOfParts, Zenon
  <2> QED
    BY <1>1, <2>1, Zenon DEF Relocated, RelocsInside, Sectioned, IsSection
<1>11. /\ \A x \in DOMAIN relas : relas[x].off \in Nat
       /\ \A x, z \in DOMAIN relas : x < z => relas[x].off + 4 <= relas[z].off
  BY <1>10, Zenon DEF RelocsIn
<1>12. DOMAIN relas = 1..Len(relas) /\ Len(relas) \in Nat
  BY <1>10, EP!ListProperties, Zenon
<1> HIDE DEF relas
<1>13. ASSUME NEW x \in DOMAIN relas, relas[x].off = place.end - 4
       PROVE  x = q
  <2>1. relas[x].off = relas[q].off /\ relas[x].off \in Nat /\ relas[q].off \in Nat
    BY <1>9, <1>11, <1>13, Zenon
  <2>2. ~(x < q) /\ ~(q < x)
    <3>1. PICK o \in Nat : o = relas[x].off /\ o = relas[q].off
      BY <2>1, Zenon
    <3>2. ~(o + 4 <= o)
      OBVIOUS
    <3> QED
      BY <1>11, <3>1, <3>2, Zenon
  <2>3. x \in Nat /\ q \in Nat
    BY <1>12
  <2> QED
    BY <2>2, <2>3
<1> QED
  BY <1>1, <1>9, <1>13, Zenon DEF relas

(* One relocation, for the symbol of the name (enc.c:457). *)
LEMMA NameIsResolved ==
  ASSUME NEW T, NEW L, MadeOf(T, L), Relocated, NEW j \in NamingItems
  PROVE  LET places == Walk.places
             relas  == secs[places[j].sec].relas
             sites  == {q \in DOMAIN relas : relas[q].off = places[j].end - 4}
         IN /\ Cardinality(sites) = 1
            /\ \A q \in sites : Resolved(places, NameIn(items[j]), relas[q], Definitions(NameIn(items[j])))
<1> DEFINE places == Walk.places
           name   == NameIn(items[j])
<1>1. DOMAIN items = 1..Len(items) /\ EP!IsList(syms) /\ DOMAIN syms = 1..Len(syms) /\ Len(syms) \in Nat
  BY MadeOfParts, Zenon
<1>2. j \in 1..Len(items) /\ IsNaming(items[j])
  BY <1>1 DEF NamingItems, IsNaming
<1>3. PICK place : place = Place(T, j)
  OBVIOUS
<1>4. \A i \in 1..Len(items) : places[i] = Place(T, i)
  BY PlacesOf, Zenon
<1>5. places[j] = place
  BY <1>2, <1>3, <1>4, Zenon
<1> DEFINE relas == secs[place.sec].relas
           sites == {q \in DOMAIN relas : relas[q].off = place.end - 4}
<1> HIDE DEF places, name
<1>6. place.sec \in DOMAIN secs
  BY <1>2, <1>3, SiteOf, Zenon
<1>7. PICK q \in DOMAIN relas :
        /\ \A x \in DOMAIN relas : relas[x].off = place.end - 4 <=> x = q
        /\ relas[q].sym = Elf!SymbolFind(syms, name)
        /\ relas[q].addend = -4
  <2>1. PICK called : called = NameIn(items[j])
    OBVIOUS
  <2>2. \E r \in DOMAIN relas :
          /\ \A x \in DOMAIN relas : relas[x].off = place.end - 4 <=> x = r
          /\ relas[r].sym = Elf!SymbolFind(syms, called)
          /\ relas[r].addend = -4
    BY <1>2, <1>3, <2>1, SiteOf
  <2> QED
    BY <2>1, <2>2, Zenon DEF name
<1>8. sites = {q}
  BY <1>7, Zenon
<1>9. Cardinality(sites) = 1
  BY <1>8, FS_Singleton, Zenon
<1>10. PICK y : y = Elf!SymbolFind(syms, name)
  OBVIOUS
<1>11. y \in DOMAIN syms /\ y # 0 /\ syms[y].name = name
  <2>1. RelocsIn(secs[place.sec], syms)
    BY <1>6, Zenon DEF Relocated, RelocsInside
  <2>2. relas[q].sym \in DOMAIN syms
    BY <2>1, Zenon DEF RelocsIn
  <2>3. y \in DOMAIN syms
    BY <1>7, <1>10, <2>2, Zenon
  <2>4. y # 0
    BY <1>1, <2>3
  <2> QED
    BY <1>1, <1>10, <2>3, <2>4, SymbolFound, Zenon
<1>12. Resolved(places, name, relas[q], Definitions(name))
  <2>0. PICK rela : rela = relas[q] /\ rela.sym = y /\ rela.addend = -4
    BY <1>7, <1>10, Zenon
  <2>1. CASE Definitions(name) # {}
    <3>1. PICK i : i = Elf!First(Definitions(name))
      OBVIOUS
    <3>2. syms[y].sec = Place(T, i).sec /\ syms[y].value = Place(T, i).off /\ i \in 1..Len(items)
      BY <1>10, <2>1, <3>1, SymbolIsFirstLabel, Zenon
    <3>3. places[i] = Place(T, i)
      BY <1>4, <3>2, Zenon
    <3>4. syms[rela.sym].sec = places[i].sec /\ syms[rela.sym].value = places[i].off /\ syms[rela.sym].name = name
      BY <1>11, <2>0, <3>2, <3>3, Zenon
    <3>5. Resolved(places, name, rela, Definitions(name))
      BY <2>0, <2>1, <3>1, <3>4, Zenon DEF Resolved
    <3> QED
      BY <2>0, <3>5, Zenon
  <2>2. CASE Definitions(name) = {}
    <3>1. /\ syms[y].sec = 0 /\ syms[y].bind = "GLOBAL"
          /\ Cardinality({s \in DOMAIN syms : syms[s].name = name}) = 1
      BY <1>10, <1>11, <2>2, SymbolIsUndefined
    <3>2. syms[rela.sym].sec = 0 /\ syms[rela.sym].bind = "GLOBAL" /\ syms[rela.sym].name = name
      BY <1>11, <2>0, <3>1, Zenon
    <3>3. Resolved(places, name, rela, Definitions(name))
      BY <2>0, <2>2, <3>1, <3>2 DEF Resolved
    <3> QED
      BY <2>0, <3>3, Zenon
  <2> QED
    BY <2>1, <2>2
<1> HIDE DEF relas, sites
<1>13. \A x \in sites : Resolved(places, name, relas[x], Definitions(name))
  BY <1>8, <1>12
<1> QED
  BY <1>5, <1>9, <1>13, Zenon DEF relas, sites, places, name

(* A symbol of a section is global when a .globl has its name. *)
LEMMA BindingsAsDeclared ==
  ASSUME NEW T, NEW L, MadeOf(T, L), NEW s \in DOMAIN syms, syms[s].sec # 0
  PROVE  (syms[s].bind = "GLOBAL") = DeclaredGlobal(syms[s].name)
<1>1. /\ Len(items) \in Nat /\ DOMAIN items = 1..Len(items)
      /\ DOMAIN labels = 1..Len(labels) /\ Len(labels) \in Nat
      /\ DOMAIN syms = 1..Len(syms) /\ Len(syms) \in Nat
  BY MadeOfParts, Zenon
<1>2. /\ GloblsNoted(Len(items), items, globls) /\ LabelSymbols(Len(labels), labels, syms, globls)
      /\ OthersUndefined(Len(labels), syms)
  BY Zenon DEF MadeOf
<1>3. ~(s > Len(labels))
  BY <1>2, Zenon DEF OthersUndefined
<1>4. s \in 1..Len(labels)
  BY <1>1, <1>3
<1>5. SymbolOf(syms[s], labels[s], globls)
  BY <1>2, <1>4, Zenon DEF LabelSymbols
<1>6. syms[s].name \in globls <=> DeclaredGlobal(syms[s].name)
  BY <1>1, <1>2, Zenon DEF GloblsNoted, DeclaredGlobal
<1>7. syms[s].bind = "GLOBAL" <=> syms[s].name \in globls
  BY <1>5, Zenon DEF SymbolOf
<1>8. PICK declared \in BOOLEAN : declared = DeclaredGlobal(syms[s].name)
  BY DEF DeclaredGlobal
<1>9. (syms[s].bind = "GLOBAL") = declared
  BY <1>6, <1>7, <1>8
<1> QED
  BY <1>8, <1>9

(* So names resolve. *)
LEMMA MadeOfResolves ==
  ASSUME NEW T, NEW L, MadeOf(T, L), Relocated
  PROVE  /\ AllResolved(Walk.places)
         /\ \A s \in DOMAIN syms : syms[s].sec # 0 => (syms[s].bind = "GLOBAL") = DeclaredGlobal(syms[s].name)
<1>1. AllResolved(Walk.places)
  BY NameIsResolved, Zenon DEF AllResolved
<1> QED
  BY <1>1, BindingsAsDeclared, Zenon

-----------------------------------------------------------------------------
(* What applying the relocations of a section makes of its bytes.          *)

(* Byte b is in the field of a relocation. *)
InField(rela, b) == rela.off < b /\ b <= rela.off + 4

(* What rel.c writes there, whatever it wrote before: the addresses of the *)
(* sections stay as they are.                                              *)
FieldHolds(addr, s, rela) ==
  Rel!FieldValue(rela.type, Rel!SymbolAddr(PlacedAt(addr), syms[rela.sym]), rela.addend, addr[s] + rela.off)

FieldByte(addr, s, rela, b) ==
  Elf!Byte((FieldHolds(addr, s, rela) \div Rel!Modulus(b - rela.off - 1)) % ByteBase)

(* The object a linker may place. *)
Placeable ==
  Sectioned(secs) /\ RelocsInside(secs, syms) /\ SymbolsInside(syms, secs)

(* The bytes of section s after its first q relocations. *)
Among(s, q, b) == {x \in 1..q : InField(secs[s].relas[x], b)}

FilledBytes(addr, s, q) ==
  [b \in DOMAIN secs[s].data |->
     IF Among(s, q, b) # {} THEN FieldByte(addr, s, secs[s].relas[CHOOSE x \in Among(s, q, b) : TRUE], b)
     ELSE secs[s].data[b]]

WithData(ss, s, data) == [ss EXCEPT ![s].data = data]

FilledUpto(addr, s, q) == WithData(PlacedAt(addr), s, FilledBytes(addr, s, q))

(* What is known of a section there. *)
LEMMA PlaceableParts ==
  ASSUME Placeable, NEW s \in DOMAIN secs
  PROVE  LET relas == secs[s].relas
         IN /\ DOMAIN relas = 1..Len(relas) /\ Len(relas) \in Nat
            /\ DOMAIN secs[s].data = 1..Len(secs[s].data) /\ Len(secs[s].data) \in Nat
            /\ secs[s].data = [b \in DOMAIN secs[s].data |-> secs[s].data[b]]
            /\ DOMAIN secs[s] = SectionFields
            /\ \A q \in DOMAIN relas :
                 /\ relas[q].off \in Nat /\ relas[q].off + 4 <= Len(secs[s].data)
                 /\ relas[q].sym \in DOMAIN syms /\ relas[q].type \in Rel!PcRelative
            /\ \A q, x \in DOMAIN relas : q < x => relas[q].off + 4 <= relas[x].off
<1> DEFINE relas == secs[s].relas
           data == secs[s].data
<1>1. IsSection(secs[s]) /\ RelocsIn(secs[s], syms)
  BY Zenon DEF Placeable, Sectioned, RelocsInside
<1>2. DOMAIN relas = 1..Len(relas) /\ Len(relas) \in Nat
  BY <1>1, EP!ListProperties, Zenon DEF IsSection
<1>3. data \in Seq(Cells)
  BY <1>1, Zenon DEF IsSection
<1> HIDE DEF data
<1>4. DOMAIN data = 1..Len(data) /\ Len(data) \in Nat /\ data = [b \in DOMAIN data |-> data[b]]
  BY <1>3
<1> QED
  BY <1>1, <1>2, <1>4, Zenon DEF RelocsIn, IsSection, data

(* No byte is in two fields. *)
LEMMA OneField ==
  ASSUME Placeable, NEW s \in DOMAIN secs, NEW x \in DOMAIN secs[s].relas, NEW y \in DOMAIN secs[s].relas,
         NEW b \in Nat, InField(secs[s].relas[x], b), InField(secs[s].relas[y], b)
  PROVE  x = y
<1>1. PICK o \in Nat, p \in Nat : o = secs[s].relas[x].off /\ p = secs[s].relas[y].off
  BY PlaceableParts
<1>2. o < b /\ b <= o + 4 /\ p < b /\ b <= p + 4
  BY <1>1 DEF InField
<1>3. (x < y => o + 4 <= p) /\ (y < x => p + 4 <= o)
  <2>1. \A q, z \in DOMAIN secs[s].relas : q < z => secs[s].relas[q].off + 4 <= secs[s].relas[z].off
    BY PlaceableParts
  <2> QED
    BY <1>1, <2>1, Zenon
<1>4. x \in Nat /\ y \in Nat
  <2>1. DOMAIN secs[s].relas = 1..Len(secs[s].relas) /\ Len(secs[s].relas) \in Nat
    BY PlaceableParts
  <2> QED
    BY <2>1
<1>5. ~(o + 4 <= p) /\ ~(p + 4 <= o)
  BY <1>1, <1>2
<1>6. ~(x < y) /\ ~(y < x)
  BY <1>3, <1>5, Zenon
<1> QED
  BY <1>4, <1>6

(* Setting one field of one element again forgets what was set. *)
Forgets(P, s, A, B) ==
  LET Q == WithData(P, s, A)
  IN /\ WithData(Q, s, B) = WithData(P, s, B) /\ Q[s].data = A /\ DOMAIN Q = DOMAIN P
     /\ \A t \in DOMAIN P : Q[t].addr = P[t].addr

(* It does. *)
LEMMA SetAgain ==
  ASSUME NEW P, NEW s \in DOMAIN P, NEW A, NEW B, DOMAIN P[s] = SectionFields
  PROVE  Forgets(P, s, A, B)
<1> DEFINE Q == [P EXCEPT ![s].data = A]
<1>1. DOMAIN Q = DOMAIN P /\ Q[s] = [P[s] EXCEPT !.data = A] /\ \A t \in DOMAIN P : t # s => Q[t] = P[t]
  OBVIOUS
<1>2. Q[s].data = A /\ Q[s].addr = P[s].addr
  <2>1. "data" \in DOMAIN P[s] /\ "addr" \in DOMAIN P[s]
    BY DEF SectionFields
  <2> QED
    BY <1>1, <2>1
<1>3. \A t \in DOMAIN P : Q[t].addr = P[t].addr
  BY <1>1, <1>2, Zenon
<1>4. PICK sec : sec = P[s]
  OBVIOUS
<1>5. [[sec EXCEPT !.data = A] EXCEPT !.data = B] = [sec EXCEPT !.data = B]
  OBVIOUS
<1>6. [Q EXCEPT ![s].data = B] = [t \in DOMAIN P |-> IF t = s THEN [Q[s] EXCEPT !.data = B] ELSE P[t]]
  <2> HIDE DEF Q
  <2>1. [Q EXCEPT ![s].data = B] = [t \in DOMAIN Q |-> IF t = s THEN [Q[s] EXCEPT !.data = B] ELSE Q[t]]
    OBVIOUS
  <2> QED
    BY <1>1, <2>1
<1>7. [P EXCEPT ![s].data = B] = [t \in DOMAIN P |-> IF t = s THEN [P[s] EXCEPT !.data = B] ELSE P[t]]
  OBVIOUS
<1>8. [Q EXCEPT ![s].data = B] = [P EXCEPT ![s].data = B]
  BY <1>1, <1>4, <1>5, <1>6, <1>7, Zenon
<1> QED
  BY <1>1, <1>2, <1>3, <1>8, Zenon DEF WithData, Forgets

(* The placed sections. *)
LEMMA PlacedIs ==
  ASSUME Placeable, NEW addr \in [DOMAIN secs -> Nat], NEW s \in DOMAIN secs
  PROVE  /\ DOMAIN PlacedAt(addr) = DOMAIN secs /\ DOMAIN PlacedAt(addr)[s] = SectionFields
         /\ PlacedAt(addr)[s].data = secs[s].data /\ PlacedAt(addr)[s].addr = addr[s]
<1>1. DOMAIN secs[s] = SectionFields
  BY PlaceableParts
<1>2. PlacedAt(addr)[s] = [secs[s] EXCEPT !.addr = addr[s]] /\ DOMAIN PlacedAt(addr) = DOMAIN secs
  BY DEF PlacedAt
<1>3. PICK sec : sec = secs[s]
  OBVIOUS
<1>4. "addr" \in DOMAIN sec /\ "data" \in DOMAIN sec
  BY <1>1, <1>3 DEF SectionFields
<1>5. PICK a : a = addr[s]
  OBVIOUS
<1>6. DOMAIN [sec EXCEPT !.addr = a] = DOMAIN sec /\ [sec EXCEPT !.addr = a].data = sec.data /\ [sec EXCEPT !.addr = a].addr = a
  BY <1>4
<1> QED
  BY <1>1, <1>2, <1>3, <1>5, <1>6, Zenon

(* After no relocation, the sections are as they were placed. *)
LEMMA FilledBegins ==
  ASSUME Placeable, NEW addr \in [DOMAIN secs -> Nat], NEW s \in DOMAIN secs
  PROVE  FilledUpto(addr, s, 0) = PlacedAt(addr)
<1>1. FilledBytes(addr, s, 0) = secs[s].data
  <2>1. \A b : Among(s, 0, b) = {}
    BY DEF Among
  <2>2. \A b \in DOMAIN secs[s].data : FilledBytes(addr, s, 0)[b] = secs[s].data[b]
    BY <2>1 DEF FilledBytes
  <2>3. FilledBytes(addr, s, 0) = [b \in DOMAIN secs[s].data |-> FilledBytes(addr, s, 0)[b]]
    BY DEF FilledBytes
  <2>4. secs[s].data = [b \in DOMAIN secs[s].data |-> secs[s].data[b]]
    BY PlaceableParts
  <2> QED
    BY <2>2, <2>3, <2>4
<1>2. PICK P : P = PlacedAt(addr)
  OBVIOUS
<1>3. /\ DOMAIN P = DOMAIN secs /\ P = [t \in DOMAIN P |-> P[t]] /\ P[s].data = secs[s].data
      /\ P[s] = [f \in DOMAIN P[s] |-> P[s][f]]
  <2>1. DOMAIN P = DOMAIN secs /\ P[s].data = secs[s].data
    BY <1>2, PlacedIs, Zenon
  <2>2. P = [t \in DOMAIN P |-> P[t]]
    BY <1>2 DEF PlacedAt
  <2>3. P[s] = [secs[s] EXCEPT !.addr = addr[s]]
    BY <1>2 DEF PlacedAt
  <2>4. \A x, a : [x EXCEPT !.addr = a] = [f \in DOMAIN [x EXCEPT !.addr = a] |-> [x EXCEPT !.addr = a][f]]
    OBVIOUS
  <2> QED
    BY <2>1, <2>2, <2>3, <2>4, Zenon
<1>4. [P EXCEPT ![s].data = P[s].data] = P
  BY <1>3
<1> QED
  BY <1>1, <1>2, <1>3, <1>4, Zenon DEF FilledUpto, WithData

(* A byte in the field of the next relocation is in no field before, and   *)
(* the others are where they were.                                         *)
LEMMA AmongNext ==
  ASSUME Placeable, NEW s \in DOMAIN secs, NEW q \in 1..Len(secs[s].relas), NEW b \in DOMAIN secs[s].data
  PROVE  /\ InField(secs[s].relas[q], b) => Among(s, q, b) = {q}
         /\ ~InField(secs[s].relas[q], b) => Among(s, q, b) = Among(s, q - 1, b)
<1>1. DOMAIN secs[s].relas = 1..Len(secs[s].relas) /\ Len(secs[s].relas) \in Nat /\ b \in Nat
  <2>1. /\ DOMAIN secs[s].relas = 1..Len(secs[s].relas) /\ Len(secs[s].relas) \in Nat
        /\ DOMAIN secs[s].data = 1..Len(secs[s].data)
    BY PlaceableParts, Zenon
  <2> QED
    BY <2>1
<1>2. 1..q = (1..(q - 1)) \union {q} /\ 1..q \subseteq DOMAIN secs[s].relas
  BY <1>1
<1>3. ASSUME InField(secs[s].relas[q], b)
      PROVE  Among(s, q, b) = {q}
  <2>1. \A x \in 1..q : InField(secs[s].relas[x], b) => x = q
    BY <1>1, <1>2, <1>3, OneField
  <2>2. q \in 1..q
    BY <1>1
  <2> QED
    BY <1>3, <2>1, <2>2, Zenon DEF Among
<1>4. ASSUME ~InField(secs[s].relas[q], b)
      PROVE  Among(s, q, b) = Among(s, q - 1, b)
  BY <1>2, <1>4, Zenon DEF Among
<1> QED
  BY <1>3, <1>4

(* A relocation writes its field, and nothing else. *)
LEMMA PatchFills ==
  ASSUME Placeable, NEW addr \in [DOMAIN secs -> Nat], NEW s \in DOMAIN secs, NEW q \in 1..Len(secs[s].relas)
  PROVE  LET rela == secs[s].relas[q]
         IN Rel!PatchLE(FilledBytes(addr, s, q - 1), rela.off, FieldHolds(addr, s, rela), Rel!Width(rela.type))
              = FilledBytes(addr, s, q)
<1> DEFINE rela == secs[s].relas[q]
           old == FilledBytes(addr, s, q - 1)
           filled == FilledBytes(addr, s, q)
           val == FieldHolds(addr, s, rela)
<1>1. DOMAIN secs[s].relas = 1..Len(secs[s].relas) /\ Len(secs[s].relas) \in Nat /\ DOMAIN secs[s].data \subseteq Nat
  <2>1. /\ DOMAIN secs[s].relas = 1..Len(secs[s].relas) /\ Len(secs[s].relas) \in Nat
        /\ DOMAIN secs[s].data = 1..Len(secs[s].data)
    BY PlaceableParts, Zenon
  <2> QED
    BY <2>1
<1>2. rela.off \in Nat /\ rela.type \in Rel!PcRelative
  BY PlaceableParts
<1>3. Rel!Width(rela.type) = 4
  BY <1>2 DEF Rel!Width, Rel!PcRelative
<1>4. \A b \in DOMAIN secs[s].data : b \in (rela.off + 1)..(rela.off + 4) <=> InField(rela, b)
  BY <1>1, <1>2 DEF InField
<1>5. /\ DOMAIN old = DOMAIN secs[s].data
      /\ filled = [b \in DOMAIN secs[s].data |-> filled[b]]
  BY DEF FilledBytes
<1>6. ASSUME NEW b \in DOMAIN secs[s].data
      PROVE  filled[b] = IF InField(rela, b) THEN FieldByte(addr, s, rela, b) ELSE old[b]
  <2>1. CASE InField(rela, b)
    <3>1. Among(s, q, b) = {q}
      BY <2>1, AmongNext
    <3>2. PICK S : S = Among(s, q, b)
      OBVIOUS
    <3>3. (CHOOSE x \in S : TRUE) = q /\ S # {}
      BY <3>1, <3>2
    <3>4. filled[b] = IF S # {} THEN FieldByte(addr, s, secs[s].relas[CHOOSE x \in S : TRUE], b) ELSE secs[s].data[b]
      BY <3>2 DEF FilledBytes
    <3> HIDE DEF filled
    <3> QED
      BY <2>1, <3>3, <3>4, Zenon
  <2>2. CASE ~InField(rela, b)
    <3>1. Among(s, q, b) = Among(s, q - 1, b)
      BY <2>2, AmongNext
    <3> QED
      BY <2>2, <3>1 DEF FilledBytes
  <2> QED
    BY <2>1, <2>2
<1>7. Rel!PatchLE(old, rela.off, val, 4) =
        [b \in DOMAIN old |-> IF b \in (rela.off + 1)..(rela.off + 4)
                              THEN Elf!Byte((val \div Rel!Modulus(b - rela.off - 1)) % ByteBase) ELSE old[b]]
  BY DEF Rel!PatchLE, Rel!Byte, Elf!Byte
<1> HIDE DEF old, filled
<1>8. \A b \in DOMAIN secs[s].data :
         filled[b] = IF b \in (rela.off + 1)..(rela.off + 4)
                  THEN Elf!Byte((val \div Rel!Modulus(b - rela.off - 1)) % ByteBase) ELSE old[b]
  BY <1>4, <1>6, Zenon DEF FieldByte
<1> HIDE DEF rela, val
<1>9. Rel!PatchLE(old, rela.off, val, 4) = filled
  BY <1>5, <1>7, <1>8
<1> QED
  BY <1>3, <1>9, Zenon DEF old, filled, rela, val

(* So each relocation fills one more field. *)
LEMMA FilledStep ==
  ASSUME Placeable, NEW addr \in [DOMAIN secs -> Nat], NEW s \in DOMAIN secs, NEW q \in 1..Len(secs[s].relas)
  PROVE  Rel!Relocated(FilledUpto(addr, s, q - 1), syms, s, secs[s].relas[q]) = FilledUpto(addr, s, q)
<1> DEFINE rela == secs[s].relas[q]
           old == FilledBytes(addr, s, q - 1)
           filled == FilledBytes(addr, s, q)
           sym == syms[rela.sym]
<1>1. PICK P, u : P = PlacedAt(addr) /\ u = FilledUpto(addr, s, q - 1)
  OBVIOUS
<1>2. /\ DOMAIN P = DOMAIN secs /\ DOMAIN P[s] = SectionFields /\ P[s].addr = addr[s] /\ s \in DOMAIN P
      /\ u = WithData(P, s, old)
  BY <1>1, PlacedIs, Zenon DEF FilledUpto
<1> HIDE DEF old, filled
<1>3. /\ u[s].data = old /\ DOMAIN u = DOMAIN secs /\ \A t \in DOMAIN secs : u[t].addr = P[t].addr
      /\ WithData(u, s, filled) = WithData(P, s, filled)
  <2>1. s \in DOMAIN P /\ DOMAIN P[s] = SectionFields
    BY <1>2
  <2>2. Forgets(P, s, old, filled)
    BY <2>1, SetAgain, Zenon
  <2> QED
    BY <1>2, <2>2, Zenon DEF Forgets
<1>4. Rel!SymbolAddr(u, sym) = Rel!SymbolAddr(P, sym)
  <2>1. rela.sym \in DOMAIN syms
    BY PlaceableParts
  <2>2. sym.sec \in 0..Len(secs) /\ DOMAIN secs = 1..Len(secs) /\ Len(secs) \in Nat
    <3>1. Sectioned(secs) /\ SymbolsInside(syms, secs)
      BY Zenon DEF Placeable
    <3> QED
      BY <2>1, <3>1, EP!ListProperties, Zenon DEF SymbolsInside, Sectioned
  <2>3. sym.sec # 0 => sym.sec \in DOMAIN secs
    BY <2>2
  <2>4. sym.sec # 0 => u[sym.sec].addr = P[sym.sec].addr
    BY <1>3, <2>3, Zenon
  <2> HIDE DEF sym
  <2> QED
    BY <2>4 DEF Rel!SymbolAddr
<1>5. Rel!FieldValue(rela.type, Rel!SymbolAddr(u, sym), rela.addend, u[s].addr + rela.off) = FieldHolds(addr, s, rela)
  BY <1>1, <1>2, <1>3, <1>4, Zenon DEF FieldHolds
<1>6. Rel!PatchLE(old, rela.off, FieldHolds(addr, s, rela), Rel!Width(rela.type)) = filled
  BY PatchFills DEF old, filled
<1>7. Rel!Relocated(u, syms, s, rela) =
        WithData(u, s, Rel!PatchLE(u[s].data, rela.off,
           Rel!FieldValue(rela.type, Rel!SymbolAddr(u, sym), rela.addend, u[s].addr + rela.off), Rel!Width(rela.type)))
  BY Zenon DEF Rel!Relocated, WithData
<1>8. Rel!Relocated(u, syms, s, rela) = WithData(u, s, filled)
  BY <1>3, <1>5, <1>6, <1>7, Zenon
<1> QED
  BY <1>1, <1>3, <1>8, Zenon DEF FilledUpto, filled

(* What applies the relocations one after another. *)
Applies(f, addr, s) ==
  f = [q \in 0..Len(secs[s].relas) |->
         IF q = 0 THEN PlacedAt(addr) ELSE Rel!Relocated(f[q - 1], syms, s, secs[s].relas[q])]

(* Filling one field after another is such. *)
LEMMA AppliedExists ==
  ASSUME Placeable, NEW addr \in [DOMAIN secs -> Nat], NEW s \in DOMAIN secs
  PROVE  Applies([q \in 0..Len(secs[s].relas) |-> FilledUpto(addr, s, q)], addr, s)
<1> DEFINE n == Len(secs[s].relas)
           F == [q \in 0..n |-> FilledUpto(addr, s, q)]
<1>1. n \in Nat
  BY PlaceableParts
<1> HIDE DEF n
<1>2. ASSUME NEW q \in 0..n
      PROVE  F[q] = IF q = 0 THEN PlacedAt(addr) ELSE Rel!Relocated(F[q - 1], syms, s, secs[s].relas[q])
  <2>1. CASE q = 0
    BY <2>1, FilledBegins
  <2>2. CASE q # 0
    <3>1. q \in 1..n /\ q - 1 \in 0..n
      BY <1>1, <2>2
    <3>2. F[q] = FilledUpto(addr, s, q) /\ F[q - 1] = FilledUpto(addr, s, q - 1)
      BY <3>1
    <3> HIDE DEF F
    <3> QED
      BY <2>2, <3>1, <3>2, FilledStep, Zenon DEF n
  <2> QED
    BY <2>1, <2>2, Zenon
<1>3. F = [q \in 0..n |-> F[q]]
  OBVIOUS
<1> HIDE DEF F
<1>4. F = [q \in 0..n |-> IF q = 0 THEN PlacedAt(addr) ELSE Rel!Relocated(F[q - 1], syms, s, secs[s].relas[q])]
  BY <1>2, <1>3, Zenon
<1> QED
  BY <1>4, Zenon DEF Applies, F, n

(* And the only one: so each field is filled, and nothing else. *)
LEMMA FilledIs ==
  ASSUME Placeable, NEW addr \in [DOMAIN secs -> Nat], NEW s \in DOMAIN secs
  PROVE  Filled(addr, s) = FilledUpto(addr, s, Len(secs[s].relas))[s]
<1> DEFINE W == CHOOSE f : Applies(f, addr, s)
           n == Len(secs[s].relas)
<1>1. Applies(W, addr, s)
  BY AppliedExists, Zenon
<1>2. Filled(addr, s) = W[n][s]
  BY Zenon DEF Filled, Applies
<1>3. n \in Nat
  BY PlaceableParts
<1> HIDE DEF W
<1>4. \A q \in 0..n : W[q] = IF q = 0 THEN PlacedAt(addr) ELSE Rel!Relocated(W[q - 1], syms, s, secs[s].relas[q])
  <2>1. W = [q \in 0..n |-> IF q = 0 THEN PlacedAt(addr) ELSE Rel!Relocated(W[q - 1], syms, s, secs[s].relas[q])]
    BY <1>1, Zenon DEF Applies
  <2> QED
    BY <2>1, Zenon
<1> HIDE DEF n
<1> DEFINE Wrong == {q \in 0..n : W[q] # FilledUpto(addr, s, q)}
<1>5. Wrong = {}
  <2> SUFFICES ASSUME Wrong # {}
               PROVE  FALSE
    OBVIOUS
  <2>1. Wrong \in SUBSET Nat
    OBVIOUS
  <2>2. PICK q \in Wrong : \A m \in Wrong : q <= m
    <3> HIDE DEF Wrong
    <3> QED
      BY <2>1, EP!LeastExists, Zenon
  <2>3. q \in 0..n /\ W[q] # FilledUpto(addr, s, q)
    OBVIOUS
  <2>4. q # 0
    BY <1>4, <2>3, FilledBegins, Zenon
  <2>5. q \in 1..n /\ q - 1 \in 0..n /\ ~(q <= q - 1)
    BY <1>3, <2>3, <2>4
  <2>6. W[q - 1] = FilledUpto(addr, s, q - 1)
    BY <2>2, <2>5, Zenon
  <2>7. W[q] = Rel!Relocated(W[q - 1], syms, s, secs[s].relas[q])
    BY <1>4, <2>3, <2>4, Zenon
  <2>8. W[q] = FilledUpto(addr, s, q)
    BY <2>5, <2>6, <2>7, FilledStep, Zenon DEF n
  <2> QED
    BY <2>3, <2>8, Zenon
<1>6. n \in 0..n
  BY <1>3
<1>7. W[n] = FilledUpto(addr, s, n)
  BY <1>5, <1>6, Zenon
<1> QED
  BY <1>2, <1>7, Zenon DEF n

(* A section that was placed and relocated: only its fields are other.     *)
PatchedOnly(addr, s, sec) ==
  /\ sec.addr = addr[s] /\ DOMAIN sec.data = DOMAIN secs[s].data /\ Len(sec.data) = Len(secs[s].data)
  /\ \A b \in DOMAIN secs[s].data :
       (\A q \in DOMAIN secs[s].relas : ~InField(secs[s].relas[q], b)) => sec.data[b] = secs[s].data[b]
  /\ \A q \in DOMAIN secs[s].relas : \A b \in DOMAIN secs[s].data :
       InField(secs[s].relas[q], b) => sec.data[b] = FieldByte(addr, s, secs[s].relas[q], b)

(* So is each section of the linked object. *)
LEMMA LinkedIs ==
  ASSUME Placeable, NEW addr \in [DOMAIN secs -> Nat], NEW s \in DOMAIN secs
  PROVE  PatchedOnly(addr, s, Linked(addr)[s])
<1> DEFINE n == Len(secs[s].relas)
           bytes == FilledBytes(addr, s, n)
<1>1. Linked(addr)[s] = FilledUpto(addr, s, n)[s]
  BY FilledIs DEF Linked
<1>2. PICK P : P = PlacedAt(addr)
  OBVIOUS
<1>3. P[s].addr = addr[s] /\ s \in DOMAIN P /\ DOMAIN P[s] = SectionFields
  BY <1>2, PlacedIs, Zenon
<1>4. Forgets(P, s, bytes, bytes)
  <2> HIDE DEF bytes
  <2> QED
    BY <1>3, SetAgain, Zenon
<1>5. Linked(addr)[s].data = bytes /\ Linked(addr)[s].addr = addr[s]
  BY <1>1, <1>2, <1>3, <1>4, Zenon DEF Forgets, FilledUpto
<1>6. /\ DOMAIN secs[s].data = 1..Len(secs[s].data) /\ Len(secs[s].data) \in Nat
      /\ DOMAIN secs[s].relas = 1..n
  BY PlaceableParts, Zenon
<1>7. DOMAIN bytes = DOMAIN secs[s].data
  BY DEF FilledBytes
<1>8. Len(bytes) = Len(secs[s].data)
  <2>1. bytes = [b \in 1..Len(secs[s].data) |-> bytes[b]]
    BY <1>6 DEF FilledBytes
  <2> HIDE DEF bytes
  <2> QED
    BY <1>6, <2>1, EP!FunctionIsSeq
<1>9. ASSUME NEW b \in DOMAIN secs[s].data, \A q \in DOMAIN secs[s].relas : ~InField(secs[s].relas[q], b)
      PROVE  bytes[b] = secs[s].data[b]
  <2>1. Among(s, n, b) = {}
    BY <1>6, <1>9, Zenon DEF Among
  <2> QED
    BY <2>1 DEF FilledBytes
<1>10. ASSUME NEW q \in DOMAIN secs[s].relas, NEW b \in DOMAIN secs[s].data, InField(secs[s].relas[q], b)
       PROVE  bytes[b] = FieldByte(addr, s, secs[s].relas[q], b)
  <2>1. PICK S : S = Among(s, n, b)
    OBVIOUS
  <2>2. q \in S
    BY <1>6, <1>10, <2>1 DEF Among
  <2>3. \A x \in S : x = q
    <3>1. b \in Nat
      BY <1>6
    <3>2. \A x \in S : x \in DOMAIN secs[s].relas /\ InField(secs[s].relas[x], b)
      BY <1>6, <2>1 DEF Among
    <3> QED
      BY <1>10, <3>1, <3>2, OneField, Zenon
  <2>4. S # {} /\ (CHOOSE x \in S : TRUE) = q
    BY <2>2, <2>3
  <2>5. bytes[b] = IF S # {} THEN FieldByte(addr, s, secs[s].relas[CHOOSE x \in S : TRUE], b) ELSE secs[s].data[b]
    BY <2>1 DEF FilledBytes
  <2> HIDE DEF bytes
  <2> QED
    BY <2>4, <2>5, Zenon
<1> HIDE DEF bytes
<1> QED
  BY <1>5, <1>7, <1>8, <1>9, <1>10, Zenon DEF PatchedOnly

-----------------------------------------------------------------------------
(* The fields are behind the bytes of the instructions.                    *)

(* A step of the walk goes forward in each section. *)
LEMMA ForwardStep ==
  ASSUME NEW T, WholeTrace(T), NEW j \in 1..Len(items), NEW d \in Nat
  PROVE  /\ T[j - 1].off[d] \in Nat /\ T[j].off[d] \in Nat /\ T[j - 1].off[d] <= T[j].off[d]
         /\ T[j - 1].sec \in Nat
         /\ d = T[j - 1].sec => T[j].off[d] = Start(T, j) + Size(items[j])
         /\ Size(items[j]) \in Nat /\ Start(T, j) \in Nat
         /\ Len(Wrote(items[j])) \in Nat /\ Len(Wrote(items[j])) <= Size(items[j])
<1>1. EncodableList(items) /\ Sectioned(secs) /\ IsTrace(T, Len(items), items, secs)
  BY Zenon DEF WholeTrace
<1>2. Len(items) \in Nat /\ DOMAIN items = 1..Len(items)
  BY <1>1, ItemsDomain, Zenon
<1>3. Encodable(items[j])
  BY <1>1, Zenon DEF EncodableList
<1>4. PICK n \in Nat : n = Size(items[j]) /\ Len(Wrote(items[j])) \in Nat /\ Len(Wrote(items[j])) <= n
  BY <1>3, WroteCells
<1>5. /\ T[j - 1].sec \in DOMAIN secs /\ T[j - 1].off \in [Nat -> Nat] /\ T[j].off \in [Nat -> Nat]
      /\ Follows(T[j - 1], T[j], items[j], secs)
  BY <1>1, <1>2, TraceAt
<1>6. DOMAIN secs \subseteq Nat
  <2>1. DOMAIN secs = 1..Len(secs) /\ Len(secs) \in Nat
    BY <1>1, EP!ListProperties, Zenon DEF Sectioned
  <2> QED
    BY <2>1
<1>7. PICK c \in Nat, p \in [Nat -> Nat], q \in [Nat -> Nat] : c = T[j - 1].sec /\ p = T[j - 1].off /\ q = T[j].off
  BY <1>5, <1>6
<1>8. q = [p EXCEPT ![c] = p[c] + n]
  BY <1>4, <1>5, <1>7, Zenon DEF Follows
<1>9. p[d] \in Nat /\ q[d] \in Nat /\ p[d] <= q[d] /\ (d = c => q[d] = p[c] + n) /\ p[c] \in Nat
  <2>1. PICK a \in Nat, b \in Nat : a = p[c] /\ b = p[d]
    OBVIOUS
  <2>2. q[d] = IF d = c THEN p[c] + n ELSE p[d]
    BY <1>8
  <2>3. a + n \in Nat /\ a <= a + n /\ b <= b
    OBVIOUS
  <2>4. CASE d = c
    BY <2>1, <2>2, <2>3, <2>4, Zenon
  <2>5. CASE d # c
    BY <2>1, <2>2, <2>3, <2>5, Zenon
  <2> QED
    BY <2>4, <2>5, Zenon
<1> QED
  BY <1>4, <1>7, <1>9, Zenon DEF Start

(* So the walk goes forward. *)
LEMMA Forward ==
  ASSUME NEW T, WholeTrace(T), NEW j \in 1..Len(items), NEW k \in 1..Len(items), j < k, NEW d \in Nat
  PROVE  T[j].off[d] <= T[k - 1].off[d]
<1> DEFINE Wrong == {m \in (j + 1)..k : ~(T[j].off[d] <= T[m - 1].off[d])}
<1>1. Len(items) \in Nat
  <2>1. EncodableList(items)
    BY Zenon DEF WholeTrace
  <2> QED
    BY <2>1, ItemsDomain, Zenon
<1>2. \A m \in 1..Len(items) : /\ T[m - 1].off[d] \in Nat /\ T[m].off[d] \in Nat
                               /\ T[m - 1].off[d] <= T[m].off[d]
  BY ForwardStep, Zenon
<1>3. Wrong = {}
  <2> SUFFICES ASSUME Wrong # {}
               PROVE  FALSE
    OBVIOUS
  <2>1. Wrong \in SUBSET Nat
    OBVIOUS
  <2>2. PICK m \in Wrong : \A x \in Wrong : m <= x
    <3> HIDE DEF Wrong
    <3> QED
      BY <2>1, EP!LeastExists, Zenon
  <2>3. m \in (j + 1)..k /\ ~(T[j].off[d] <= T[m - 1].off[d])
    OBVIOUS
  <2>4. m - 1 \in 1..Len(items) /\ ~(m <= m - 1) /\ (m - 1 # j => m - 1 \in (j + 1)..k)
    BY <1>1, <2>3
  <2>5. m - 1 # j
    <3>1. PICK o \in Nat : o = T[j].off[d]
      BY <1>2, Zenon
    <3>2. o <= o
      OBVIOUS
    <3> QED
      BY <2>3, <3>1, <3>2, Zenon
  <2>6. T[j].off[d] <= T[m - 1 - 1].off[d]
    BY <2>2, <2>4, <2>5, Zenon
  <2>7. /\ T[m - 1 - 1].off[d] <= T[m - 1].off[d]
        /\ T[m - 1 - 1].off[d] \in Nat /\ T[m - 1].off[d] \in Nat /\ T[j].off[d] \in Nat
    BY <1>2, <2>4, Zenon
  <2>8. PICK x \in Nat, y \in Nat, z \in Nat : x = T[j].off[d] /\ y = T[m - 1 - 1].off[d] /\ z = T[m - 1].off[d]
    BY <2>7, Zenon
  <2>9. x <= y /\ y <= z
    BY <2>6, <2>7, <2>8, Zenon
  <2>10. x <= z
    BY <2>9
  <2> QED
    BY <2>3, <2>8, <2>10, Zenon
<1>4. k \in (j + 1)..k
  OBVIOUS
<1> QED
  BY <1>3, <1>4, Zenon

(* Items in one section are apart. *)
LEMMA ItemsApart ==
  ASSUME NEW T, WholeTrace(T), NEW j \in 1..Len(items), NEW k \in 1..Len(items), j < k, T[j - 1].sec = T[k - 1].sec
  PROVE  Start(T, j) + Size(items[j]) <= Start(T, k)
<1>1. PICK d \in Nat : d = T[j - 1].sec /\ d = T[k - 1].sec
  <2>1. 0 \in Nat
    OBVIOUS
  <2>2. T[j - 1].sec \in Nat
    BY <2>1, ForwardStep, Zenon
  <2> QED
    BY <2>2, Zenon
<1>2. T[j].off[d] = Start(T, j) + Size(items[j])
  BY <1>1, ForwardStep, Zenon
<1>3. T[j].off[d] <= T[k - 1].off[d]
  BY Forward, Zenon
<1> QED
  BY <1>1, <1>2, <1>3, Zenon DEF Start

(* The relocation is in the last bytes of a naming item of the section.    *)
LEMMA FieldIsOfItem ==
  ASSUME NEW T, NEW L, MadeOf(T, L), Relocated, NEW d \in DOMAIN secs, NEW q \in DOMAIN secs[d].relas
  PROVE  \E i \in 1..Len(items) :
           /\ IsNaming(items[i]) /\ T[i - 1].sec = d
           /\ secs[d].relas[q].off = Start(T, i) + Len(Wrote(items[i]))
           /\ Size(items[i]) = Len(Wrote(items[i])) + 4
<1>1. PICK f \in DOMAIN fixes : fixes[f].sec = d /\ RelocOf(secs[d].relas[q], fixes[f], syms)
  BY Zenon DEF Relocated, RelocsNoted
<1>2. PICK i \in 1..Len(items) : IsNaming(items[i]) /\ FixNoted(T, i, fixes[f], items)
  BY <1>1, Zenon DEF MadeOf, FixesNoted
<1>3. Wrote(items[i]) = EmitInstr(items[i]) /\ Size(items[i]) = Len(Wrote(items[i])) + 4
  BY <1>2, SizeIs DEF IsNaming, Size
<1> QED
  BY <1>1, <1>2, <1>3, Zenon DEF FixNoted, RelocOf

(* So it is behind the bytes an item wrote, or before them. *)
LEMMA FieldElsewhere ==
  ASSUME NEW T, NEW L, MadeOf(T, L), Relocated, NEW j \in 1..Len(items), NEW d, d = T[j - 1].sec,
         NEW q \in DOMAIN secs[d].relas, d \in DOMAIN secs, NEW b \in 1..Len(Wrote(items[j]))
  PROVE  ~InField(secs[d].relas[q], Start(T, j) + b)
<1>1. WholeTrace(T) /\ Len(items) \in Nat /\ 0 \in Nat
  BY MadeOfParts, Zenon DEF MadeOf
<1>2. PICK i \in 1..Len(items) :
        /\ T[i - 1].sec = d /\ secs[d].relas[q].off = Start(T, i) + Len(Wrote(items[i]))
        /\ Size(items[i]) = Len(Wrote(items[i])) + 4
  BY FieldIsOfItem, Zenon
<1>3. \A k \in 1..Len(items) : /\ Start(T, k) \in Nat /\ Size(items[k]) \in Nat
                               /\ Len(Wrote(items[k])) \in Nat /\ Len(Wrote(items[k])) <= Size(items[k])
  BY <1>1, ForwardStep, Zenon
<1>4. (i < j => Start(T, i) + Size(items[i]) <= Start(T, j)) /\ (j < i => Start(T, j) + Size(items[j]) <= Start(T, i))
  BY <1>1, <1>2, ItemsApart
<1>5. PICK x \in Nat, m \in Nat, y \in Nat, n \in Nat, l \in Nat :
        /\ x = Start(T, i) /\ m = Len(Wrote(items[i])) /\ y = Start(T, j)
        /\ n = Len(Wrote(items[j])) /\ l = Size(items[j]) /\ n <= l
  BY <1>3, Zenon
<1>6. (i < j => x + (m + 4) <= y) /\ (j < i => y + l <= x) /\ (i = j => x = y /\ m = n)
  BY <1>2, <1>4, <1>5, Zenon
<1>7. PICK o \in Nat : o = secs[d].relas[q].off /\ o = x + m
  <2>1. x + m \in Nat
    OBVIOUS
  <2> QED
    BY <1>2, <1>5, <2>1, Zenon
<1>8. b \in 1..n
  BY <1>5, Zenon
<1>9. ~(o < y + b /\ y + b <= o + 4)
  <2>1. i < j \/ i = j \/ j < i
    BY <1>1
  <2>2. CASE i = j
    BY <1>6, <1>7, <1>8, <2>2
  <2>3. CASE i < j
    <3>1. x + (m + 4) <= y
      BY <1>6, <2>3, Zenon
    <3> QED
      BY <1>7, <1>8, <3>1
  <2>4. CASE j < i
    <3>1. y + l <= x /\ n <= l /\ o = x + m
      BY <1>5, <1>6, <1>7, <2>4, Zenon
    <3>2. ~(o < y + b)
      BY <1>8, <3>1
    <3> QED
      BY <3>2, Zenon
  <2> QED
    BY <2>1, <2>2, <2>3, <2>4, Zenon
<1> QED
  BY <1>5, <1>7, <1>9, Zenon DEF InField

(* So the bytes of an item are there whatever the linker filled in. *)
LEMMA StillHolding ==
  ASSUME NEW T, NEW L, MadeOf(T, L), Relocated, Placeable, NEW addr \in [DOMAIN secs -> Nat],
         NEW j \in 1..Len(items), NEW d, d = T[j - 1].sec
  PROVE  /\ d \in DOMAIN secs /\ Start(T, j) \in Nat /\ Encodable(items[j])
         /\ PatchedOnly(addr, d, Linked(addr)[d]) /\ Len(Linked(addr)[d].data) \in Nat
         /\ Holding(Linked(addr)[d].data, Start(T, j), items[j])
<1>1. WholeTrace(T)
  BY Zenon DEF MadeOf
<1>2. /\ Place(T, j).sec \in DOMAIN secs /\ Start(T, j) \in Nat
      /\ Holding(secs[Place(T, j).sec].data, Start(T, j), items[j]) /\ Encodable(items[j])
  BY <1>1, AtPlace, Zenon
<1>3. Place(T, j).sec = d
  BY DEF Place
<1>4. PICK off, it, data, filled :
        off \in Nat /\ off = Start(T, j) /\ it = items[j] /\ data = secs[d].data /\ filled = Linked(addr)[d].data
  BY <1>2
<1>5. d \in DOMAIN secs /\ Holding(data, off, it) /\ Encodable(it)
  BY <1>2, <1>3, <1>4, Zenon
<1>6. PatchedOnly(addr, d, Linked(addr)[d])
  BY <1>5, LinkedIs
<1>7. /\ Len(filled) = Len(data) /\ DOMAIN data = 1..Len(data) /\ Len(data) \in Nat
      /\ \A b \in DOMAIN data : (\A q \in DOMAIN secs[d].relas : ~InField(secs[d].relas[q], b)) => filled[b] = data[b]
  <2>1. DOMAIN data = 1..Len(data) /\ Len(data) \in Nat
    BY <1>4, <1>5, PlaceableParts, Zenon
  <2> QED
    BY <1>4, <1>6, <2>1, Zenon DEF PatchedOnly
<1>8. PICK n \in Nat, l \in Nat : n = Len(Wrote(it)) /\ l = Size(it) /\ n <= l
  BY <1>5, WroteCells
<1>9. off + l <= Len(data) /\ \A b \in 1..n : data[off + b] = Wrote(it)[b]
  BY <1>5, <1>8, Zenon DEF Holding
<1>10. ASSUME NEW b \in 1..n
       PROVE  filled[off + b] = data[off + b]
  <2>1. off + b \in DOMAIN data
    <3>1. off \in Nat /\ off + l <= Len(data) /\ n <= l /\ DOMAIN data = 1..Len(data) /\ Len(data) \in Nat
      BY <1>4, <1>7, <1>8, <1>9, Zenon
    <3> QED
      BY <3>1
  <2>2. \A q \in DOMAIN secs[d].relas : ~InField(secs[d].relas[q], off + b)
    <3>1. b \in 1..Len(Wrote(items[j])) /\ d \in DOMAIN secs
      BY <1>4, <1>5, <1>8, Zenon
    <3>2. \A q \in DOMAIN secs[d].relas : ~InField(secs[d].relas[q], Start(T, j) + b)
      BY <3>1, FieldElsewhere, Zenon
    <3> QED
      BY <1>4, <3>2, Zenon
  <2> QED
    BY <1>7, <2>1, <2>2, Zenon
<1>11. Holding(filled, off, it)
  BY <1>7, <1>8, <1>9, <1>10, Zenon DEF Holding
<1> QED
  BY <1>4, <1>5, <1>6, <1>7, <1>11, Zenon

-----------------------------------------------------------------------------
(* What a processor reads in a field.                                      *)

(* An address is cut to eight bytes, and the four of a field are among     *)
(* them.                                                                   *)
LEMMA AddressCut ==
  ASSUME NEW x \in Int, NEW c \in Int
  PROVE  ((x % ByteBase^8) - c) % ByteBase^4 = (x - c) % ByteBase^4
<1>1. PICK B \in Nat \ {0}, m \in Nat \ {0} : B = ByteBase /\ m = ByteBase^4
  BY Moduli
<1>2. ByteBase^5 = B * m /\ ByteBase^6 = B * ByteBase^5 /\ ByteBase^7 = B * ByteBase^6 /\ ByteBase^8 = B * ByteBase^7
  <2>1. 4 \in 0..7 /\ 5 \in 0..7 /\ 6 \in 0..7 /\ 7 \in 0..7 /\ 4 + 1 = 5 /\ 5 + 1 = 6 /\ 6 + 1 = 7 /\ 7 + 1 = 8
    OBVIOUS
  <2> QED
    BY <1>1, <2>1, Moduli, Zenon
<1>3. PICK b \in Nat \ {0} : b = B * (B * (B * B))
  <2>1. B * B \in Nat \ {0}
    OBVIOUS
  <2>2. B * (B * B) \in Nat \ {0}
    BY <2>1
  <2>3. B * (B * (B * B)) \in Nat \ {0}
    BY <2>2
  <2> QED
    BY <2>3
<1>4. ByteBase^8 = b * m
  <2>1. B * (B * (B * (B * m))) = (B * (B * (B * B))) * m
    OBVIOUS
  <2> QED
    BY <1>2, <1>3, <2>1
<1>5. ((x % (b * m)) - c) % m = (x - c) % m
  BY EP!RemainderOfRemainder
<1> QED
  BY <1>1, <1>4, <1>5, Zenon

(* Of an instruction with a name it reads the four bytes behind, and goes  *)
(* on after them.                                                          *)
LEMMA NameRead ==
  ASSUME NEW data, NEW off, NEW it, Candidate(data, off, it), IsNaming(it)
  PROVE  /\ Displacement(D!Decoded(data, off).ins) = FieldAfter(data, off, EmitInstr(it))
         /\ D!Decoded(data, off).end = off + Len(EmitInstr(it)) + 4
<1> DEFINE there == FieldAfter(data, off, EmitInstr(it))
<1>1. off \in Nat /\ Holds(data, off, EmitInstr(it)) /\ Made(it.dst) /\ Names(it)
  BY CandidateParts DEF IsNaming
<1>2. <<it.op, Form(it.dst), Form(it.src)>> \in Forms
  BY DEF Candidate, Built
<1>3. CASE it.op = "LEA"
  <2>1. it.src.kind = "RIP"
    BY <1>1, <1>3, OperationSets DEF Names
  <2>2. Form(it.dst) = R(8)
    BY <1>2, <1>3, FormCases, OperationSets
  <2>3. PICK dst \in GeneralRegisters : it.dst = RegWidth(dst, 8)
    BY <1>1, <2>2, RegisterMade
  <2>4. it.dst.reg = dst
    BY <2>3 DEF RegWidth, Operand
  <2>5. EmitInstr(it) = LeaRipBytes(dst)
    BY <1>1, <1>3, <2>4, MoreInstrForms DEF LeaRipBytes
  <2>6. Reaches(data, off, EmitInstr(it), Instr("LEA", Reg64(dst), Rip(there)))
    BY <1>1, <2>5, LeaRipIsRead
  <2> HIDE DEF there
  <2>7. PICK ins : ins = Instr("LEA", Reg64(dst), Rip(there))
    OBVIOUS
  <2>8. Displacement(ins) = there
    BY <2>7 DEF Displacement, Instr, Item, Rip, Operand
  <2>9. D!Decoded(data, off) = [ins |-> ins, end |-> off + Len(EmitInstr(it)) + 4]
    BY <2>6, <2>7, Zenon DEF Reaches
  <2>10. D!Decoded(data, off).ins = ins /\ D!Decoded(data, off).end = off + Len(EmitInstr(it)) + 4
    BY <2>9
  <2> QED
    BY <2>8, <2>10, Zenon DEF there
<1>4. CASE it.op \in DOMAIN Branch
  <2>1. EmitInstr(it) = Op(Branch[it.op])
    BY <1>1, <1>4, MoreInstrForms
  <2>2. Reaches(data, off, EmitInstr(it), Instr(it.op, Target(there), NoOperand))
    BY <1>1, <1>4, <2>1, BranchIsRead
  <2> HIDE DEF there
  <2>3. PICK ins : ins = Instr(it.op, Target(there), NoOperand)
    OBVIOUS
  <2>4. it.op # "LEA"
    BY <1>4, OperationSets
  <2>5. Displacement(ins) = there
    BY <2>3, <2>4 DEF Displacement, Instr, Item, Target, Operand
  <2>6. D!Decoded(data, off) = [ins |-> ins, end |-> off + Len(EmitInstr(it)) + 4]
    BY <2>2, <2>3, Zenon DEF Reaches
  <2>7. D!Decoded(data, off).ins = ins /\ D!Decoded(data, off).end = off + Len(EmitInstr(it)) + 4
    BY <2>6
  <2> QED
    BY <2>5, <2>7, Zenon DEF there
<1> QED
  BY <1>1, <1>3, <1>4 DEF Names

-----------------------------------------------------------------------------
(* So references arrive.                                                   *)

(* How far label i is from the end of item j, once the sections are        *)
(* placed.                                                                 *)
Distance(addr, T, i, j) == addr[Place(T, i).sec] + Start(T, i) - (addr[Place(T, j).sec] + Place(T, j).end)

(* The field of a name ends where the instruction does, so the addend -4   *)
(* makes the distance of what rel.c works out in 64 bits.                  *)
LEMMA FieldArithmetic ==
  ASSUME NEW x \in Int, NEW y \in Int
  PROVE  ((x % ByteBase^8) + (-4) - (y - 4)) % ByteBase^4 = (x - y) % ByteBase^4
<1>1. PICK s \in Int : s = x % ByteBase^8
  <2>1. PICK m \in Nat \ {0} : m = ByteBase^8
    BY Moduli
  <2>2. x % m \in Int
    OBVIOUS
  <2> QED
    BY <2>1, <2>2
<1>2. s + (-4) - (y - 4) = s - y
  OBVIOUS
<1>3. (s - y) % ByteBase^4 = (x - y) % ByteBase^4
  BY <1>1, AddressCut, Zenon
<1> QED
  BY <1>1, <1>2, <1>3, Zenon

(* The numbers of a place. *)
LEMMA PlaceNumbers ==
  ASSUME NEW T, WholeTrace(T), NEW k \in 1..Len(items)
  PROVE  /\ Place(T, k).sec \in DOMAIN secs /\ Place(T, k).sec = T[k - 1].sec
         /\ Start(T, k) \in Nat /\ Place(T, k).off = Start(T, k) /\ Place(T, k).end \in Nat
<1>1. Place(T, k).sec \in DOMAIN secs
  BY AtPlace, Zenon
<1>2. Start(T, k) \in Nat /\ Size(items[k]) \in Nat
  <2>1. 0 \in Nat
    OBVIOUS
  <2> QED
    BY <2>1, ForwardStep, Zenon
<1> QED
  BY <1>1, <1>2 DEF Place

(* Relocation q of section d is of item j, for label i. *)
FieldFor(T, d, q, i, j) ==
  /\ d = Place(T, j).sec /\ q \in DOMAIN secs[d].relas
  /\ secs[d].relas[q].off = Place(T, j).end - 4 /\ secs[d].relas[q].addend = -4
  /\ syms[secs[d].relas[q].sym].sec = Place(T, i).sec /\ syms[secs[d].relas[q].sym].value = Start(T, i)

(* It is filled with how far that is. *)
FilledWith(addr, d, q, distance) ==
  distance \in Int /\ FieldHolds(addr, d, secs[d].relas[q]) = distance % ByteBase^4

(* What rel.c writes for a name is the distance from the end of the field  *)
(* to the label, cut to the width of the field (rel.c:32).                 *)
LEMMA FieldIsDistance ==
  ASSUME NEW T, WholeTrace(T), Placeable, NEW addr \in [DOMAIN secs -> Nat],
         NEW j \in 1..Len(items), NEW i \in 1..Len(items), NEW d, NEW q, FieldFor(T, d, q, i, j)
  PROVE  FilledWith(addr, d, q, Distance(addr, T, i, j))
<1>1. PICK rela, sym, c : /\ rela = secs[d].relas[q] /\ sym = syms[rela.sym] /\ c = Place(T, i).sec
                          /\ d = Place(T, j).sec /\ q \in DOMAIN secs[d].relas
                          /\ rela.off = Place(T, j).end - 4 /\ rela.addend = -4
                          /\ sym.sec = c /\ sym.value = Start(T, i)
  BY Zenon DEF FieldFor
<1>2. c \in DOMAIN secs /\ d \in DOMAIN secs
  BY <1>1, PlaceNumbers, Zenon
<1>3. rela.type \in Rel!PcRelative /\ rela.off = Place(T, j).end - 4 /\ rela.addend = -4
  <2>1. secs[d].relas[q].type \in Rel!PcRelative
    BY <1>1, <1>2, PlaceableParts
  <2> QED
    BY <1>1, <2>1, Zenon
<1>4. PICK x \in Int, y \in Int :
        /\ x = addr[c] + Start(T, i) /\ y = addr[d] + Place(T, j).end /\ addr[d] + rela.off = y - 4
        /\ addr[c] + Start(T, i) - (addr[d] + Place(T, j).end) = x - y
  <2>1. Start(T, i) \in Nat /\ Place(T, j).end \in Nat
    BY PlaceNumbers, Zenon
  <2>2. addr[c] \in Nat /\ addr[d] \in Nat
    BY <1>2
  <2>3. PICK a \in Nat, b \in Nat, e \in Nat, f \in Nat :
          a = addr[c] /\ b = Start(T, i) /\ e = addr[d] /\ f = Place(T, j).end
    BY <2>1, <2>2, Zenon
  <2>4. a + b \in Int /\ e + f \in Int /\ e + (f - 4) = (e + f) - 4 /\ a + b - (e + f) = (a + b) - (e + f)
    OBVIOUS
  <2> QED
    BY <1>3, <2>3, <2>4, Zenon
<1>5. Distance(addr, T, i, j) = x - y
  BY <1>1, <1>4, Zenon DEF Distance
<1>6. sym.sec = c /\ sym.value = Start(T, i) /\ c # 0
  <2>1. c # 0
    <3>1. Sectioned(secs)
      BY Zenon DEF Placeable
    <3>2. DOMAIN secs = 1..Len(secs) /\ Len(secs) \in Nat
      BY <3>1, EP!ListProperties, Zenon DEF Sectioned
    <3> QED
      BY <1>2, <3>2
  <2> QED
    BY <1>1, <2>1, Zenon
<1>7. Rel!SymbolAddr(PlacedAt(addr), sym) = x % ByteBase^8
  <2>1. PlacedAt(addr)[c].addr = addr[c]
    BY <1>2, PlacedIs, Zenon
  <2> QED
    BY <1>4, <1>6, <2>1, Zenon DEF Rel!SymbolAddr, Rel!Modulus
<1>8. FieldHolds(addr, d, rela) = ((x % ByteBase^8) + (-4) - (y - 4)) % ByteBase^4
  <2>1. Rel!Width(rela.type) = 4
    BY <1>3 DEF Rel!Width, Rel!PcRelative
  <2>2. PICK s : s = x % ByteBase^8
    OBVIOUS
  <2>3. FieldHolds(addr, d, rela) = Rel!FieldValue(rela.type, s, -4, y - 4)
    BY <1>1, <1>3, <1>4, <1>7, <2>2, Zenon DEF FieldHolds
  <2> QED
    BY <1>3, <2>1, <2>2, <2>3, Zenon DEF Rel!FieldValue, Rel!Modulus
<1>9. FieldHolds(addr, d, rela) = (x - y) % ByteBase^4
  BY <1>8, FieldArithmetic, Zenon
<1>10. x - y \in Int
  OBVIOUS
<1> QED
  BY <1>1, <1>5, <1>9, <1>10, Zenon DEF FilledWith

(* And that is what a processor reads there. *)
LEMMA FieldIsRead ==
  ASSUME Placeable, NEW addr \in [DOMAIN secs -> Nat], NEW d \in DOMAIN secs, NEW q \in DOMAIN secs[d].relas,
         NEW x \in Int, FieldHolds(addr, d, secs[d].relas[q]) = x % ByteBase^4, InRange(x, 4)
  PROVE  D!SignedAt(Linked(addr)[d].data, secs[d].relas[q].off, 4) = x
<1>1. PICK i \in Nat : i = secs[d].relas[q].off /\ i + 4 <= Len(secs[d].data)
  BY PlaceableParts
<1>2. PICK rela, data : rela = secs[d].relas[q] /\ data = Linked(addr)[d].data
  OBVIOUS
<1>3. PICK n \in Nat : n = Len(secs[d].data) /\ DOMAIN secs[d].data = 1..n
  BY PlaceableParts
<1>4. /\ Len(data) = n
      /\ \A b \in 1..n : InField(rela, b) => data[b] = FieldByte(addr, d, rela, b)
  <2>1. PatchedOnly(addr, d, Linked(addr)[d])
    BY LinkedIs
  <2> QED
    BY <1>2, <1>3, <2>1, Zenon DEF PatchedOnly
<1>5. PICK m \in Nat \ {0}, val \in Int : m = ByteBase^4 /\ val = x % m
  <2>1. PICK m \in Nat \ {0} : m = ByteBase^4
    BY Moduli
  <2>2. x % m \in Int
    OBVIOUS
  <2> QED
    BY <2>1, <2>2
<1>6. FieldHolds(addr, d, rela) = val
  BY <1>2, <1>5, Zenon
<1>7. ASSUME NEW j \in 0..7, j < 4
      PROVE  D!ByteAt(data, i + j) = (val \div ByteBase^j) % ByteBase
  <2>1. PICK b \in 1..n : b = i + j + 1 /\ b - i - 1 = j /\ i < b /\ b <= i + 4 /\ i + j < n
    <3>1. i + 4 <= n
      BY <1>1, <1>3, Zenon
    <3>2. i + j + 1 \in 1..n /\ (i + j + 1) - i - 1 = j /\ i < i + j + 1 /\ i + j + 1 <= i + 4 /\ i + j < n
      BY <1>7, <3>1
    <3> QED
      BY <3>2, Zenon
  <2>2. InField(rela, b)
    BY <1>1, <1>2, <2>1, Zenon DEF InField
  <2>3. data[b] = <<(val \div ByteBase^j) % ByteBase>>
    BY <1>1, <1>2, <1>4, <1>6, <2>1, <2>2, Zenon DEF FieldByte, Elf!Byte, Rel!Modulus
  <2>4. D!ByteAt(data, i + j) = data[b][1]
    BY <1>4, <2>1, Zenon DEF D!ByteAt
  <2> QED
    BY <2>3, <2>4
<1>8. val % ByteBase^4 = x % ByteBase^4
  <2>1. val % m = x % m
    <3>1. x % m \in 0..(m - 1)
      OBVIOUS
    <3> QED
      BY <1>5, <3>1, EP!SmallRemainder, Zenon
  <2> QED
    BY <1>5, <2>1, Zenon
<1>9. 4 \in 1..8
  OBVIOUS
<1>10. D!SignedAt(data, i, 4) = x
  BY <1>7, <1>8, <1>9, SignedIs
<1> QED
  BY <1>1, <1>2, <1>10, Zenon

(* A reference whose name has a label arrives there. *)
LEMMA ReferenceArrives ==
  ASSUME NEW T, NEW L, MadeOf(T, L), Relocated, Placeable, NEW addr \in [DOMAIN secs -> Nat],
         NEW j \in NamingItems, Definitions(NameIn(items[j])) # {}, NEW i, i = Elf!First(Definitions(NameIn(items[j])))
  PROVE  Arrives(Linked(addr), Place(T, j), Place(T, i), D!Decoded(Linked(addr)[Place(T, j).sec].data, Place(T, j).off))
<1>1. j \in 1..Len(items) /\ IsNaming(items[j])
  <2>1. DOMAIN items = 1..Len(items)
    BY MadeOfParts, Zenon
  <2> QED
    BY <2>1 DEF NamingItems, IsNaming
<1>2. PICK place : place = Place(T, j)
  OBVIOUS
<1>3. PICK q \in DOMAIN secs[place.sec].relas :
        /\ secs[place.sec].relas[q].off = place.end - 4
        /\ secs[place.sec].relas[q].sym = Elf!SymbolFind(syms, NameIn(items[j]))
        /\ secs[place.sec].relas[q].addend = -4
  <2>1. PICK called : called = NameIn(items[j])
    OBVIOUS
  <2>2. \E r \in DOMAIN secs[place.sec].relas :
          /\ \A x \in DOMAIN secs[place.sec].relas : (secs[place.sec].relas[x].off = place.end - 4) <=> x = r
          /\ secs[place.sec].relas[r].sym = Elf!SymbolFind(syms, called)
          /\ secs[place.sec].relas[r].addend = -4
    BY <1>1, <1>2, <2>1, SiteOf
  <2> QED
    BY <2>1, <2>2, Zenon
<1>4. WholeTrace(T)
  BY Zenon DEF MadeOf
<1>5. PICK d, rela : /\ d = place.sec /\ d = T[j - 1].sec /\ rela = secs[d].relas[q]
                     /\ rela.off = place.end - 4 /\ rela.addend = -4
                     /\ d \in DOMAIN secs /\ place.off = Start(T, j) /\ q \in DOMAIN secs[d].relas
                     /\ rela.sym = Elf!SymbolFind(syms, NameIn(items[j]))
  <2>1. place.sec = T[j - 1].sec /\ place.sec \in DOMAIN secs /\ place.off = Start(T, j)
    BY <1>1, <1>2, <1>4, PlaceNumbers, Zenon
  <2> QED
    BY <1>3, <2>1, Zenon
<1>6. /\ syms[rela.sym].sec = Place(T, i).sec /\ syms[rela.sym].value = Place(T, i).off
      /\ i \in 1..Len(items)
  BY <1>5, SymbolIsFirstLabel, Zenon
<1>7. Place(T, i).off = Start(T, i) /\ Place(T, i).sec \in DOMAIN secs
  BY <1>4, <1>6, PlaceNumbers, Zenon
<1>8. PICK x \in Int : x = Distance(addr, T, i, j) /\ FieldHolds(addr, d, rela) = x % ByteBase^4
  <2>1. FieldFor(T, d, q, i, j)
    BY <1>2, <1>5, <1>6, <1>7, Zenon DEF FieldFor
  <2>2. j \in 1..Len(items) /\ i \in 1..Len(items)
    BY <1>1, <1>6, Zenon
  <2>3. FilledWith(addr, d, q, Distance(addr, T, i, j))
    BY <1>4, <2>1, <2>2, FieldIsDistance, Zenon
  <2> QED
    BY <1>5, <2>3, Zenon DEF FilledWith
<1>9. PICK data, off, it : /\ data = Linked(addr)[d].data /\ off = Start(T, j) /\ it = items[j] /\ off \in Nat
                           /\ Len(data) \in Nat /\ Encodable(it) /\ Holding(data, off, it)
  <2>1. /\ Start(T, j) \in Nat /\ Encodable(items[j]) /\ Len(Linked(addr)[d].data) \in Nat
        /\ Holding(Linked(addr)[d].data, Start(T, j), items[j])
    <3>1. /\ d \in DOMAIN secs /\ Start(T, j) \in Nat /\ Encodable(items[j])
          /\ PatchedOnly(addr, d, Linked(addr)[d]) /\ Len(Linked(addr)[d].data) \in Nat
          /\ Holding(Linked(addr)[d].data, Start(T, j), items[j])
      <4>1. d = T[j - 1].sec
        BY <1>5, Zenon
      <4> QED
        BY <1>1, <4>1, StillHolding, Zenon
    <3> QED
      BY <3>1, Zenon
  <2> QED
    BY <2>1, Zenon
<1>10. Candidate(data, off, it) /\ IsNaming(it) /\ Wrote(it) = EmitInstr(it)
  <2>1. Holds(data, off, Wrote(it))
    BY <1>9, ContainsHolds
  <2>2. IsNaming(it) /\ it.kind = "INSTR" /\ Wrote(it) = EmitInstr(it)
    BY <1>1, <1>9, SizeIs DEF IsNaming
  <2>3. Built(it)
    <3>1. WholeTrace(T) /\ DOMAIN items = 1..Len(items)
      BY MadeOfParts, Zenon DEF MadeOf
    <3> QED
      BY <1>1, <1>9, <3>1, Zenon DEF WholeTrace, AllBuilt
  <2> QED
    BY <1>9, <2>1, <2>2, <2>3, Zenon DEF Candidate
<1>11. PICK n \in Nat : n = Len(EmitInstr(it)) /\ Size(it) = n + 4
  <2>1. Len(Wrote(it)) \in Nat
    BY <1>9, WroteCells
  <2> QED
    BY <1>10, <2>1 DEF Size, IsNaming
<1>12. place.end = off + n + 4 /\ rela.off = off + n
  <2>1. Place(T, j).end = Start(T, j) + Size(items[j])
    BY DEF Place
  <2>2. place.end = off + (n + 4)
    BY <1>2, <1>9, <1>11, <2>1, Zenon
  <2>3. rela.off = place.end - 4 /\ off \in Nat
    BY <1>5, <1>9, Zenon
  <2> QED
    BY <2>2, <2>3
<1>13. PICK read : read = D!Decoded(data, off)
  OBVIOUS
<1>14. Displacement(read.ins) = D!SignedAt(data, off + n, 4) /\ read.end = place.end
  <2>1. /\ Displacement(D!Decoded(data, off).ins) = FieldAfter(data, off, EmitInstr(it))
        /\ D!Decoded(data, off).end = off + Len(EmitInstr(it)) + 4
    BY <1>10, NameRead, Zenon
  <2> QED
    BY <1>11, <1>12, <1>13, <2>1, Zenon DEF FieldAfter
<1>15. ASSUME InRange(x, 4)
       PROVE  Displacement(read.ins) = x
  <2>1. D!SignedAt(Linked(addr)[d].data, secs[d].relas[q].off, 4) = x
    BY <1>5, <1>8, <1>15, FieldIsRead, Zenon
  <2> QED
    BY <1>5, <1>9, <1>12, <1>14, <2>1, Zenon
<1>16. /\ Linked(addr)[d].addr = addr[d]
       /\ Linked(addr)[Place(T, i).sec].addr = addr[Place(T, i).sec]
  BY <1>5, <1>7, LinkedIs, Zenon DEF PatchedOnly
<1>17. x = Linked(addr)[Place(T, i).sec].addr + Place(T, i).off - (Linked(addr)[place.sec].addr + read.end)
  BY <1>2, <1>5, <1>7, <1>8, <1>14, <1>16, Zenon DEF Distance
<1>18. Arrives(Linked(addr), place, Place(T, i), read)
  BY <1>15, <1>17, Zenon DEF Arrives
<1> QED
  BY <1>2, <1>5, <1>9, <1>13, <1>18, Zenon

-----------------------------------------------------------------------------
(* The trace grows with the walk.                                          *)

(* More bytes behind those of each section, and more sections. *)
Continues(ss, tt) ==
  /\ DOMAIN ss \subseteq DOMAIN tt
  /\ \A d \in DOMAIN ss :
       /\ tt[d].name = ss[d].name /\ Len(ss[d].data) <= Len(tt[d].data)
       /\ \A b \in 1..Len(ss[d].data) : tt[d].data[b] = ss[d].data[b]

(* What a section holds, it holds when it has grown. *)
LEMMA ContainsStill ==
  ASSUME NEW ss, Sectioned(ss), NEW tt, Sectioned(tt), Continues(ss, tt),
         NEW d \in DOMAIN ss, NEW off \in Nat, NEW it, Encodable(it), Holding(ss[d].data, off, it)
  PROVE  Holding(tt[d].data, off, it)
<1>1. PICK n \in Nat, m \in Nat : n = Len(ss[d].data) /\ m = Len(tt[d].data)
  <2>1. d \in DOMAIN tt
    BY DEF Continues
  <2> QED
    BY <2>1, DataLength
<1>2. PICK r \in Nat, w \in Nat : r = Size(it) /\ w = Len(Wrote(it)) /\ w <= r
  BY WroteCells
<1>3. off + r <= n /\ \A b \in 1..w : ss[d].data[off + b] = Wrote(it)[b]
  BY <1>1, <1>2, Zenon DEF Holding
<1>4. n <= m /\ \A b \in 1..n : tt[d].data[b] = ss[d].data[b]
  BY <1>1, Zenon DEF Continues
<1>5. \A b \in 1..w : off + b \in 1..n
  BY <1>2, <1>3
<1>6. \A b \in 1..w : tt[d].data[off + b] = Wrote(it)[b]
  BY <1>3, <1>4, <1>5, Zenon
<1>7. off + r <= m
  BY <1>1, <1>2, <1>3, <1>4
<1> QED
  BY <1>1, <1>2, <1>6, <1>7, Zenon DEF Holding

(* A step of the trace stays one when the sections have grown. *)
LEMMA FollowsStill ==
  ASSUME NEW ss, Sectioned(ss), NEW tt, Sectioned(tt), Continues(ss, tt),
         NEW it, Encodable(it), NEW p \in Stands(ss), NEW q \in Stands(ss), Follows(p, q, it, ss)
  PROVE  Follows(p, q, it, tt) /\ p \in Stands(tt) /\ q \in Stands(tt)
<1>1. /\ p.sec \in DOMAIN ss /\ q.sec \in DOMAIN ss /\ p.off \in [Nat -> Nat] /\ q.off \in [Nat -> Nat]
      /\ p = [sec |-> p.sec, off |-> p.off] /\ q = [sec |-> q.sec, off |-> q.off]
  BY DEF Stands
<1>2. DOMAIN ss = 1..Len(ss) /\ Len(ss) \in Nat
  BY EP!ListProperties, Zenon DEF Sectioned
<1>3. p.sec \in DOMAIN tt /\ q.sec \in DOMAIN tt /\ tt[q.sec].name = ss[q.sec].name
  BY <1>1 DEF Continues
<1>4. p.off[p.sec] \in Nat
  <2>0. p.sec \in DOMAIN ss /\ p.off \in [Nat -> Nat]
    BY <1>1, Zenon
  <2>1. PICK f \in [Nat -> Nat], d \in DOMAIN ss : f = p.off /\ d = p.sec
    BY <2>0, Zenon
  <2>2. f[d] \in Nat
    BY <1>2
  <2> QED
    BY <2>1, <2>2, Zenon
<1>5. Holding(tt[p.sec].data, p.off[p.sec], it)
  BY <1>1, <1>4, ContainsStill DEF Follows
<1>6. Follows(p, q, it, tt)
  BY <1>3, <1>5, Zenon DEF Follows
<1>7. p \in Stands(tt) /\ q \in Stands(tt)
  <2>1. [sec |-> p.sec, off |-> p.off] \in Stands(tt) /\ [sec |-> q.sec, off |-> q.off] \in Stands(tt)
    BY <1>1, <1>3 DEF Stands
  <2> QED
    BY <1>1, <2>1, Zenon
<1> QED
  BY <1>6, <1>7

(* What a step of the walk writes: the item into the section it is in, the *)
(* others left as they were.                                               *)
Written(ss, tt, c, next, it) ==
  /\ Continues(ss, tt) /\ next \in DOMAIN tt
  /\ \A d \in DOMAIN tt : d # c => Len(tt[d].data) = IF d \in DOMAIN ss THEN Len(ss[d].data) ELSE 0
  /\ Len(tt[c].data) = Len(ss[c].data) + Size(it)
  /\ \A b \in 1..Len(Wrote(it)) : tt[c].data[Len(ss[c].data) + b] = Wrote(it)[b]
  /\ IF it.kind = "SECTION" THEN tt[next].name = it.dst.val[1] ELSE next = c

Longer(T, n, q) == [k \in 0..(n + 1) |-> IF k <= n THEN T[k] ELSE q]

(* A trace longer by one. *)
LEMMA LongerIs ==
  ASSUME NEW n \in Nat, NEW T, NEW q, NEW U, U = Longer(T, n, q)
  PROVE  /\ DOMAIN U = 0..(n + 1) /\ U[n + 1] = q
         /\ \A k \in 0..n : U[k] = T[k]
         /\ \A j \in 1..(n + 1) : U[j - 1] = T[j - 1]
         /\ \A j \in 1..(n + 1) : Start(U, j) = Start(T, j)
<1>1. DOMAIN U = 0..(n + 1) /\ U[n + 1] = q /\ \A k \in 0..n : U[k] = T[k]
  BY DEF Longer
<1>2. \A j \in 1..(n + 1) : U[j - 1] = T[j - 1]
  <2>1. \A j \in 1..(n + 1) : j - 1 \in 0..n
    OBVIOUS
  <2> QED
    BY <1>1, <2>1, Zenon
<1>3. \A j \in 1..(n + 1) : Start(U, j) = Start(T, j)
  BY <1>2, Zenon DEF Start
<1> QED
  BY <1>1, <1>2, <1>3

(* The state the walk comes to. *)
Onward(p, next, it) == [sec |-> next, off |-> [p.off EXCEPT ![p.sec] = p.off[p.sec] + Size(it)]]

(* The state the walk comes to follows by the item written. *)
LEMMA OnwardFollows ==
  ASSUME NEW ss, Sectioned(ss), NEW tt, Sectioned(tt), NEW it, Encodable(it),
         NEW p \in Stands(ss), FilledTo(p.off, ss), NEW next, Written(ss, tt, p.sec, next, it),
         NEW q, q = Onward(p, next, it)
  PROVE  Follows(p, q, it, tt) /\ q \in Stands(tt) /\ p \in Stands(tt) /\ FilledTo(q.off, tt) /\ q.sec = next
<1>1. PICK c \in DOMAIN ss, f \in [Nat -> Nat] : c = p.sec /\ f = p.off /\ p = [sec |-> c, off |-> f]
  BY DEF Stands
<1>2. DOMAIN ss = 1..Len(ss) /\ Len(ss) \in Nat /\ DOMAIN tt = 1..Len(tt) /\ Len(tt) \in Nat
  BY EP!ListProperties, Zenon DEF Sectioned
<1>3. PICK r \in Nat : r = Size(it)
  BY WroteCells
<1>4. c \in Nat /\ c \in DOMAIN tt /\ next \in DOMAIN tt
  <2>1. Continues(ss, tt) /\ next \in DOMAIN tt
    BY Zenon DEF Written
  <2>2. c \in DOMAIN tt
    BY <2>1 DEF Continues
  <2> QED
    BY <1>2, <2>1, <2>2
<1>5. f[c] = Len(ss[c].data)
  BY <1>1, <1>4, Zenon DEF FilledTo
<1>6. PICK n \in Nat : n = Len(ss[c].data) /\ f[c] = n
  BY <1>1, <1>5, DataLength
<1>7. q.sec = next /\ q.off = [f EXCEPT ![c] = n + r] /\ q = [sec |-> next, off |-> [f EXCEPT ![c] = n + r]]
  <2>1. q = [sec |-> next, off |-> [f EXCEPT ![c] = n + r]]
    BY <1>1, <1>3, <1>6, Zenon DEF Onward
  <2> QED
    BY <2>1
<1>8. [f EXCEPT ![c] = n + r] \in [Nat -> Nat]
  BY <1>4
<1>9. q \in Stands(tt) /\ p \in Stands(tt)
  BY <1>1, <1>4, <1>7, <1>8 DEF Stands
<1>10. Len(tt[c].data) = n + r /\ \A b \in 1..Len(Wrote(it)) : tt[c].data[n + b] = Wrote(it)[b]
  BY <1>1, <1>3, <1>6, Zenon DEF Written
<1>11. Holding(tt[p.sec].data, p.off[p.sec], it)
  <2>1. n + r <= Len(tt[c].data)
    BY <1>10
  <2> QED
    BY <1>1, <1>3, <1>6, <1>10, <2>1, Zenon DEF Holding
<1>12. Follows(p, q, it, tt)
  <2>1. q.off = [p.off EXCEPT ![p.sec] = p.off[p.sec] + Size(it)]
    BY <1>1, <1>3, <1>6, <1>7, Zenon
  <2>2. IF it.kind = "SECTION" THEN tt[q.sec].name = it.dst.val[1] ELSE q.sec = p.sec
    BY <1>7, Zenon DEF Written
  <2> QED
    BY <1>11, <2>1, <2>2, Zenon DEF Follows
<1>13. FilledTo(q.off, tt)
  <2> SUFFICES ASSUME NEW d \in Nat
               PROVE  q.off[d] = IF d \in DOMAIN tt THEN Len(tt[d].data) ELSE 0
    BY Zenon DEF FilledTo
  <2>1. CASE d = c
    <3>1. q.off[d] = n + r
      BY <1>4, <1>7, <2>1
    <3> QED
      BY <1>4, <1>10, <2>1, <3>1, Zenon
  <2>2. CASE d # c
    <3>1. q.off[d] = f[d]
      BY <1>4, <1>7, <2>2
    <3>2. f[d] = IF d \in DOMAIN ss THEN Len(ss[d].data) ELSE 0
      BY <1>1, Zenon DEF FilledTo
    <3>3. d \in DOMAIN tt => Len(tt[d].data) = IF d \in DOMAIN ss THEN Len(ss[d].data) ELSE 0
      BY <1>1, <2>2, Zenon DEF Written
    <3>4. d \notin DOMAIN tt => d \notin DOMAIN ss
      BY DEF Written, Continues
    <3> QED
      BY <3>1, <3>2, <3>3, <3>4, Zenon
  <2> QED
    BY <2>1, <2>2
<1> QED
  BY <1>7, <1>9, <1>12, <1>13

(* The walk may take one more item. *)
GoesOn(T, n, its, ss, tt, next) ==
  /\ n \in Nat /\ (\A k \in 1..(n + 1) : Encodable(its[k])) /\ Sectioned(ss) /\ Sectioned(tt)
  /\ IsTrace(T, n, its, ss) /\ FilledTo(T[n].off, ss)
  /\ Written(ss, tt, T[n].sec, next, its[n + 1])

(* And the longer trace is one over the sections that have grown. *)
LEMMA TraceGoesOn ==
  ASSUME NEW T, NEW n, NEW its, NEW ss, NEW tt, NEW next, GoesOn(T, n, its, ss, tt, next),
         NEW U, U = Longer(T, n, Onward(T[n], next, its[n + 1]))
  PROVE  IsTrace(U, n + 1, its, tt) /\ FilledTo(U[n + 1].off, tt) /\ U[n + 1].sec = next
<1>0. /\ n \in Nat /\ (\A k \in 1..(n + 1) : Encodable(its[k])) /\ Sectioned(ss) /\ Sectioned(tt)
      /\ IsTrace(T, n, its, ss) /\ FilledTo(T[n].off, ss)
      /\ Written(ss, tt, T[n].sec, next, its[n + 1])
  BY Zenon DEF GoesOn
<1>1. PICK m \in Nat : m = n + 1 /\ m \in 1..(n + 1) /\ m - 1 = n
  BY <1>0
<1>2. PICK it : it = its[n + 1] /\ Encodable(it)
  BY <1>0, <1>1
<1>3. PICK p : p = T[n]
  OBVIOUS
<1>4. n \in 0..n /\ p \in Stands(ss)
  BY <1>0, <1>3 DEF IsTrace
<1>5. PICK q : q = Onward(p, next, it)
  OBVIOUS
<1>6. Follows(p, q, it, tt) /\ q \in Stands(tt) /\ p \in Stands(tt) /\ FilledTo(q.off, tt) /\ q.sec = next
  BY <1>0, <1>2, <1>3, <1>4, <1>5, OnwardFollows
<1>7. U = Longer(T, n, q)
  BY <1>2, <1>3, <1>5, Zenon
<1>8. /\ DOMAIN U = 0..(n + 1) /\ U[n + 1] = q
      /\ \A k \in 0..n : U[k] = T[k]
      /\ \A j \in 1..(n + 1) : U[j - 1] = T[j - 1]
  BY <1>0, <1>7, LongerIs
<1>9. Continues(ss, tt)
  BY <1>0, Zenon DEF Written
<1>10. ASSUME NEW j \in 1..n
       PROVE  Follows(U[j - 1], U[j], its[j], tt) /\ U[j] \in Stands(tt)
  <2>1. j \in 1..(n + 1) /\ j \in 0..n
    BY <1>0
  <2>2. T[j - 1] \in Stands(ss) /\ T[j] \in Stands(ss) /\ Follows(T[j - 1], T[j], its[j], ss)
    BY <1>0, TraceAt
  <2>3. Encodable(its[j])
    BY <1>0, <2>1
  <2>4. Follows(T[j - 1], T[j], its[j], tt) /\ T[j] \in Stands(tt)
    BY <1>0, <1>9, <2>2, <2>3, FollowsStill
  <2> QED
    BY <1>8, <2>1, <2>4, Zenon
<1>11. Follows(U[m - 1], U[m], its[m], tt)
  BY <1>1, <1>2, <1>3, <1>6, <1>8, Zenon
<1>12. T[0].sec = 1 /\ T[0].off = [s \in Nat |-> 0] /\ T[0] \in Stands(ss) /\ 0 \in 0..n
  BY <1>0 DEF IsTrace
<1>13. U[0] = T[0]
  BY <1>8, <1>12, Zenon
<1>14. U[0] \in Stands(tt)
  <2>1. T[0].sec \in DOMAIN ss /\ T[0].off \in [Nat -> Nat] /\ T[0] = [sec |-> T[0].sec, off |-> T[0].off]
    BY <1>12 DEF Stands
  <2>2. T[0].sec \in DOMAIN tt
    BY <1>9, <2>1 DEF Continues
  <2>3. [sec |-> T[0].sec, off |-> T[0].off] \in Stands(tt)
    BY <2>1, <2>2 DEF Stands
  <2> QED
    BY <1>13, <2>1, <2>3, Zenon
<1>15. \A k \in 0..(n + 1) : U[k] \in Stands(tt)
  <2> SUFFICES ASSUME NEW k \in 0..(n + 1) PROVE U[k] \in Stands(tt)
    OBVIOUS
  <2>1. k = 0 \/ k \in 1..n \/ k = n + 1
    BY <1>0
  <2> QED
    BY <1>6, <1>8, <1>10, <1>14, <2>1, Zenon
<1>16. U \in [0..(n + 1) -> Stands(tt)]
  <2>1. U = [k \in 0..(n + 1) |-> U[k]]
    BY <1>7 DEF Longer
  <2> QED
    BY <1>15, <2>1
<1>17. \A j \in 1..(n + 1) : Follows(U[j - 1], U[j], its[j], tt)
  <2> SUFFICES ASSUME NEW j \in 1..(n + 1) PROVE Follows(U[j - 1], U[j], its[j], tt)
    OBVIOUS
  <2>1. j \in 1..n \/ j = m
    BY <1>0, <1>1
  <2> QED
    BY <1>10, <1>11, <2>1, Zenon
<1>18. IsTrace(U, n + 1, its, tt)
  BY <1>12, <1>13, <1>16, <1>17, Zenon DEF IsTrace
<1> QED
  BY <1>6, <1>8, <1>18, Zenon

(* The notes grow with the trace. *)
Agree(U, T, n) == \A j \in 1..(n + 1) : U[j - 1] = T[j - 1]

(* An item that is no label notes none. *)
LEMMA LabelsStay ==
  ASSUME NEW n \in Nat, NEW its, NEW ls, EP!IsList(ls), NEW T, NEW U, Agree(U, T, n),
         NEW L, LabelsNoted(T, L, n, its, ls), its[n + 1].kind # "LABEL"
  PROVE  LabelsNoted(U, L, n + 1, its, ls)
<1>1. /\ L \in [DOMAIN ls -> 1..n]
      /\ \A l \in DOMAIN ls : LabelNoted(T, L[l], ls[l], its)
      /\ \A l, m \in DOMAIN ls : l < m => L[l] < L[m]
      /\ \A j \in 1..n : its[j].kind = "LABEL" => \E l \in DOMAIN ls : L[l] = j
  BY Zenon DEF LabelsNoted
<1>2. L \in [DOMAIN ls -> 1..(n + 1)]
  BY <1>1
<1>3. \A l \in DOMAIN ls : LabelNoted(U, L[l], ls[l], its)
  <2> SUFFICES ASSUME NEW l \in DOMAIN ls PROVE LabelNoted(U, L[l], ls[l], its)
    OBVIOUS
  <2>1. L[l] \in 1..(n + 1)
    BY <1>2
  <2>2. U[L[l] - 1] = T[L[l] - 1]
    BY <2>1, Zenon DEF Agree
  <2> QED
    BY <1>1, <2>2, Zenon DEF LabelNoted, Start
<1>4. ASSUME NEW j \in 1..(n + 1), its[j].kind = "LABEL"
      PROVE  \E l \in DOMAIN ls : L[l] = j
  <2>1. j \in 1..n
    BY <1>4
  <2> QED
    BY <1>1, <1>4, <2>1, Zenon
<1> QED
  BY <1>1, <1>2, <1>3, <1>4, Zenon DEF LabelsNoted

(* A label is noted behind the others. *)
LEMMA LabelsGrow ==
  ASSUME NEW n \in Nat, NEW its, NEW ls, EP!IsList(ls), NEW T, NEW U, Agree(U, T, n),
         NEW L, LabelsNoted(T, L, n, its, ls),
         NEW label, LabelNoted(T, n + 1, label, its), NEW tt, tt = Append(ls, label)
  PROVE  \E K : LabelsNoted(U, K, n + 1, its, tt)
<1>1. /\ L \in [DOMAIN ls -> 1..n]
      /\ \A l \in DOMAIN ls : LabelNoted(T, L[l], ls[l], its)
      /\ \A l, m \in DOMAIN ls : l < m => L[l] < L[m]
      /\ \A j \in 1..n : its[j].kind = "LABEL" => \E l \in DOMAIN ls : L[l] = j
  BY Zenon DEF LabelsNoted
<1>2. /\ DOMAIN tt = (DOMAIN ls) \union {Len(tt)} /\ Len(tt) = Len(ls) + 1
      /\ tt[Len(tt)] = label /\ \A l \in DOMAIN ls : tt[l] = ls[l]
  BY EP!AppendIsList
<1>3. DOMAIN ls = 1..Len(ls) /\ Len(ls) \in Nat
  BY EP!ListProperties, Zenon
<1>4. PICK z \in Nat : z = Len(tt) /\ z \notin DOMAIN ls /\ \A l \in DOMAIN ls : l < z /\ ~(z < l)
  BY <1>2, <1>3
<1> DEFINE K == [l \in DOMAIN tt |-> IF l \in DOMAIN ls THEN L[l] ELSE n + 1]
<1>5. /\ K[z] = n + 1 /\ \A l \in DOMAIN ls : K[l] = L[l]
      /\ K \in [DOMAIN tt -> 1..(n + 1)]
  <2>1. \A l \in DOMAIN ls : L[l] \in 1..(n + 1)
    BY <1>1
  <2>2. n + 1 \in 1..(n + 1)
    OBVIOUS
  <2> QED
    BY <1>2, <1>4, <2>1, <2>2
<1> HIDE DEF K
<1>6. \A l \in DOMAIN tt : l = z \/ l \in DOMAIN ls
  BY <1>2, <1>4
<1>7. \A l \in DOMAIN tt : LabelNoted(U, K[l], tt[l], its)
  <2> SUFFICES ASSUME NEW l \in DOMAIN tt PROVE LabelNoted(U, K[l], tt[l], its)
    OBVIOUS
  <2>1. K[l] \in 1..(n + 1)
    BY <1>5
  <2>2. U[K[l] - 1] = T[K[l] - 1]
    BY <2>1, Zenon DEF Agree
  <2>3. LabelNoted(T, K[l], tt[l], its)
    <3>1. CASE l = z
      BY <1>2, <1>4, <1>5, <3>1, Zenon
    <3>2. CASE l \in DOMAIN ls
      BY <1>1, <1>2, <1>5, <3>2, Zenon
    <3> QED
      BY <1>6, <3>1, <3>2
  <2> QED
    BY <2>2, <2>3, Zenon DEF LabelNoted, Start
<1>8. \A l, m \in DOMAIN tt : l < m => K[l] < K[m]
  <2> SUFFICES ASSUME NEW l \in DOMAIN tt, NEW m \in DOMAIN tt, l < m
               PROVE  K[l] < K[m]
    OBVIOUS
  <2>1. l \in DOMAIN ls
    BY <1>3, <1>4, <1>6
  <2>2. K[l] \in 1..n
    BY <1>1, <1>5, <2>1
  <2>3. CASE m = z
    BY <1>5, <2>2, <2>3
  <2>4. CASE m \in DOMAIN ls
    BY <1>1, <1>5, <2>1, <2>4
  <2> QED
    BY <1>6, <2>3, <2>4
<1>9. ASSUME NEW j \in 1..(n + 1), its[j].kind = "LABEL"
      PROVE  \E l \in DOMAIN tt : K[l] = j
  <2>1. CASE j = n + 1
    BY <1>2, <1>4, <1>5, <2>1
  <2>2. CASE j # n + 1
    <3>1. j \in 1..n
      BY <2>2
    <3>2. PICK l \in DOMAIN ls : L[l] = j
      BY <1>1, <1>9, <3>1, Zenon
    <3> QED
      BY <1>2, <1>5, <3>2
  <2> QED
    BY <2>1, <2>2
<1>10. LabelsNoted(U, K, n + 1, its, tt)
  BY <1>5, <1>7, <1>8, <1>9, Zenon DEF LabelsNoted
<1> QED
  BY <1>10, Zenon

(* An item that names something notes one reference, others none. *)
LEMMA FixesGrow ==
  ASSUME NEW n \in Nat, NEW its, NEW fs, EP!IsList(fs), NEW T, NEW U, Agree(U, T, n),
         FixesNoted(T, n, its, fs), NEW tt,
         \/ tt = fs /\ ~IsNaming(its[n + 1])
         \/ \E fix : tt = Append(fs, fix) /\ FixNoted(T, n + 1, fix, its) /\ IsNaming(its[n + 1])
  PROVE  FixesNoted(U, n + 1, its, tt)
<1>1. ASSUME NEW j \in 1..(n + 1), NEW fix, FixNoted(T, j, fix, its)
      PROVE  FixNoted(U, j, fix, its)
  BY <1>1, Zenon DEF FixNoted, Start, Agree
<1>2. \A f \in DOMAIN fs : f \in DOMAIN tt /\ tt[f] = fs[f]
  BY EP!AppendIsList
<1>3. ASSUME NEW j \in 1..n, IsNaming(its[j])
      PROVE  \E f \in DOMAIN tt : FixNoted(U, j, tt[f], its)
  <2>1. PICK f \in DOMAIN fs : FixNoted(T, j, fs[f], its)
    BY <1>3, Zenon DEF FixesNoted
  <2>2. j \in 1..(n + 1)
    OBVIOUS
  <2> QED
    BY <1>1, <1>2, <2>1, <2>2, Zenon
<1>4. ASSUME IsNaming(its[n + 1])
      PROVE  \E f \in DOMAIN tt : FixNoted(U, n + 1, tt[f], its)
  <2>1. PICK fix : tt = Append(fs, fix) /\ FixNoted(T, n + 1, fix, its)
    BY <1>4
  <2>2. Len(tt) \in DOMAIN tt /\ tt[Len(tt)] = fix
    BY <2>1, EP!AppendIsList
  <2>3. n + 1 \in 1..(n + 1)
    OBVIOUS
  <2> QED
    BY <1>1, <2>1, <2>2, <2>3, Zenon
<1>5. \A j \in 1..(n + 1) : j \in 1..n \/ j = n + 1
  OBVIOUS
<1>6. ASSUME NEW f \in DOMAIN tt
      PROVE  \E j \in 1..(n + 1) : IsNaming(its[j]) /\ FixNoted(U, j, tt[f], its)
  <2>1. CASE f \in DOMAIN fs
    <3>1. PICK j \in 1..n : IsNaming(its[j]) /\ FixNoted(T, j, fs[f], its)
      BY <2>1, Zenon DEF FixesNoted
    <3>2. j \in 1..(n + 1)
      OBVIOUS
    <3> QED
      BY <1>1, <1>2, <2>1, <3>1, <3>2, Zenon
  <2>2. CASE f \notin DOMAIN fs
    <3>1. PICK fix : tt = Append(fs, fix) /\ FixNoted(T, n + 1, fix, its) /\ IsNaming(its[n + 1])
      BY <2>2
    <3>2. f = Len(tt) /\ tt[f] = fix
      BY <2>2, <3>1, EP!AppendIsList
    <3>3. n + 1 \in 1..(n + 1)
      OBVIOUS
    <3> QED
      BY <1>1, <3>1, <3>2, <3>3, Zenon
  <2> QED
    BY <2>1, <2>2
<1> QED
  BY <1>3, <1>4, <1>5, <1>6, Zenon DEF FixesNoted

(* A .globl adds its name, and nothing else does. *)
LEMMA GloblsGrow ==
  ASSUME NEW n \in Nat, NEW its, NEW gs, GloblsNoted(n, its, gs),
         NEW hs, hs = IF its[n + 1].kind = "GLOBL" THEN gs \union {its[n + 1].dst.val} ELSE gs
  PROVE  GloblsNoted(n + 1, its, hs)
<1> SUFFICES ASSUME NEW name
             PROVE  name \in hs <=> \E j \in 1..(n + 1) : its[j].kind = "GLOBL" /\ its[j].dst.val = name
  BY Zenon DEF GloblsNoted
<1>1. name \in gs <=> \E j \in 1..n : its[j].kind = "GLOBL" /\ its[j].dst.val = name
  BY Zenon DEF GloblsNoted
<1>2. \A j : j \in 1..(n + 1) <=> j \in 1..n \/ j = n + 1
  OBVIOUS
<1>3. name \in hs <=> name \in gs \/ (its[n + 1].kind = "GLOBL" /\ its[n + 1].dst.val = name)
  BY Zenon
<1> QED
  BY <1>1, <1>2, <1>3, Zenon

(* Bytes appended go behind those that are there. *)
LEMMA AppendedBehind ==
  ASSUME Sectioned(secs), cur \in DOMAIN secs, NEW bytes \in Seq(Cells), Grow(bytes)
  PROVE  /\ Continues(secs, secs') /\ DOMAIN secs' = DOMAIN secs
         /\ \A d \in DOMAIN secs : d # cur => secs'[d].data = secs[d].data
         /\ Len(secs'[cur].data) = Len(secs[cur].data) + Len(bytes)
         /\ \A b \in 1..Len(bytes) : secs'[cur].data[Len(secs[cur].data) + b] = bytes[b]
<1> DEFINE new == [secs[cur] EXCEPT !.data = secs[cur].data \o bytes]
<1>1. IsSection(secs[cur]) /\ EP!IsList(secs)
  BY DEF Sectioned
<1>2. new.data = secs[cur].data \o bytes /\ new.name = secs[cur].name
  BY <1>1 DEF IsSection, SectionFields
<1>3. secs' = [secs EXCEPT ![cur] = new]
  BY DEF Grow
<1> HIDE DEF new
<1>4. DOMAIN secs' = DOMAIN secs /\ secs'[cur] = new /\ \A d \in DOMAIN secs : d # cur => secs'[d] = secs[d]
  BY <1>1, <1>3 DEF EP!IsList
<1>5. PICK old \in Seq(Cells) : old = secs[cur].data
  BY <1>1 DEF IsSection
<1>6. PICK all : all = old \o bytes
  OBVIOUS
<1>7. /\ Len(all) = Len(old) + Len(bytes) /\ Len(old) \in Nat /\ Len(bytes) \in Nat
      /\ \A b \in 1..Len(old) : all[b] = old[b]
      /\ \A b \in 1..Len(bytes) : all[Len(old) + b] = bytes[b]
  BY <1>6
<1>8. secs'[cur].data = all
  BY <1>2, <1>4, <1>5, <1>6, Zenon
<1>9. ASSUME NEW d \in DOMAIN secs
      PROVE  /\ secs'[d].name = secs[d].name /\ Len(secs[d].data) <= Len(secs'[d].data)
             /\ \A b \in 1..Len(secs[d].data) : secs'[d].data[b] = secs[d].data[b]
  <2>1. CASE d = cur
    <3>1. Len(old) <= Len(all)
      BY <1>7
    <3> QED
      BY <1>2, <1>4, <1>5, <1>7, <1>8, <2>1, <3>1, Zenon
  <2>2. CASE d # cur
    <3>1. secs'[d] = secs[d] /\ Len(secs[d].data) \in Nat
      BY <1>4, <2>2, DataLength
    <3> QED
      BY <3>1
  <2> QED
    BY <2>1, <2>2
<1>10. Continues(secs, secs')
  BY <1>4, <1>9, Zenon DEF Continues
<1>11. \A d \in DOMAIN secs : d # cur => secs'[d].data = secs[d].data
  BY <1>4, Zenon
<1> QED
  BY <1>4, <1>5, <1>7, <1>8, <1>10, <1>11, Zenon

(* Sections left alone have kept their bytes. *)
LEMMA SameExtends ==
  ASSUME NEW ss, Sectioned(ss)
  PROVE  Continues(ss, ss)
<1>1. \A d \in DOMAIN ss : Len(ss[d].data) \in Nat
  BY DataLength
<1> QED
  BY <1>1 DEF Continues

(* The section found has the name. *)
LEMMA SectionNamed ==
  ASSUME NEW list, EP!IsList(list), NEW name, Elf!SectionFind(list, name) # 0
  PROVE  list[Elf!SectionFind(list, name)].name = name
BY NameFound, Zenon DEF Elf!SectionFind

(* A section selected is there already, or new and empty. *)
LEMMA SelectedIsThere ==
  ASSUME NEW ss, Sectioned(ss), NEW name, NEW type, NEW flags,
         NEW tt, tt = WithSection(ss, name, type, flags)
  PROVE  /\ Continues(ss, tt)
         /\ \A d \in DOMAIN ss : tt[d].data = ss[d].data
         /\ \A d \in DOMAIN tt : d \notin DOMAIN ss => Len(tt[d].data) = 0 /\ d = Len(ss) + 1
         /\ Elf!SectionFind(tt, name) \in DOMAIN tt
         /\ tt[Elf!SectionFind(tt, name)].name = name
<1> DEFINE new == SectionAdd(name, type, flags)
<1>1. EP!IsList(ss) /\ Len(ss) \in Nat /\ DOMAIN ss = 1..Len(ss)
  BY EP!ListProperties DEF Sectioned
<1>2. Sectioned(tt) /\ Elf!SectionFind(tt, name) \in DOMAIN tt
  BY SelectGrows
<1>3. tt[Elf!SectionFind(tt, name)].name = name
  <2>1. EP!IsList(tt) /\ DOMAIN tt = 1..Len(tt) /\ Len(tt) \in Nat
    BY <1>2, EP!ListProperties, Zenon DEF Sectioned
  <2>2. Elf!SectionFind(tt, name) # 0
    BY <1>2, <2>1
  <2> QED
    BY <2>1, <2>2, SectionNamed
<1>4. CASE Elf!SectionFind(ss, name) # 0
  <2>1. tt = ss
    BY <1>4 DEF WithSection
  <2>2. Continues(ss, tt)
    BY <2>1, SameExtends
  <2> QED
    BY <1>2, <1>3, <2>1, <2>2, Zenon
<1>5. CASE Elf!SectionFind(ss, name) = 0
  <2>1. tt = Append(ss, new)
    BY <1>5 DEF WithSection
  <2>2. Len(new.data) = 0
    BY EP!EmptyIsList DEF SectionAdd
  <2> HIDE DEF new
  <2>3. /\ Len(tt) = Len(ss) + 1 /\ DOMAIN tt = (DOMAIN ss) \union {Len(tt)}
        /\ tt[Len(tt)] = new
        /\ \A j \in DOMAIN ss : tt[j] = ss[j]
    BY <1>1, <2>1, EP!AppendIsList, SMT
  <2>4. \A d \in DOMAIN ss : Len(ss[d].data) \in Nat
    BY DataLength
  <2>5. Continues(ss, tt)
    BY <2>3, <2>4 DEF Continues
  <2>6. \A d \in DOMAIN tt : d \notin DOMAIN ss => Len(tt[d].data) = 0 /\ d = Len(ss) + 1
    BY <2>2, <2>3
  <2> QED
    BY <1>2, <1>3, <2>3, <2>5, <2>6, Zenon
<1> QED
  BY <1>4, <1>5

-----------------------------------------------------------------------------
(* The inductive invariant: what is in the object is what the items walked *)
(* over so far are, and what was noted is what they say.                   *)

Through(T, L, n, its, ss, ls, fs, gs) ==
  /\ IsTrace(T, n, its, ss) /\ FilledTo(T[n].off, ss)
  /\ LabelsNoted(T, L, n, its, ls) /\ FixesNoted(T, n, its, fs) /\ GloblsNoted(n, its, gs)

Afterwards == {"labels", "names", "relocs", "encoded"}

WalkInv ==
  /\ pass = "items" =>
       /\ at - 1 <= Len(items)
       /\ \E T, L : Through(T, L, at - 1, items, secs, labels, fixes, globls) /\ T[at - 1].sec = cur
  /\ pass \in Afterwards => \E T, L : Through(T, L, Len(items), items, secs, labels, fixes, globls)

(* What an item notes. *)
Notes(it, room) ==
  /\ labels' = IF it.kind = "LABEL" THEN Append(labels, [name |-> it.dst.val, sec |-> cur, off |-> room]) ELSE labels
  /\ \/ fixes' = fixes /\ ~IsNaming(it)
     \/ \E fix : /\ fixes' = Append(fixes, fix) /\ IsNaming(it)
                 /\ fix.sec = cur /\ fix.off = room + Len(EmitInstr(it)) /\ fix.name = NameIn(it)
  /\ globls' = IF it.kind = "GLOBL" THEN globls \union {it.dst.val} ELSE globls

(* An item that is written and noted takes the invariant on. *)
LEMMA ThroughGoesOn ==
  ASSUME NEW n \in Nat, NEW T, NEW L, Through(T, L, n, items, secs, labels, fixes, globls), T[n].sec = cur,
         \A k \in 1..(n + 1) : Encodable(items[k]), Sectioned(secs), Sectioned(secs'),
         EP!IsList(labels), EP!IsList(fixes), cur \in DOMAIN secs,
         Written(secs, secs', cur, cur', items[n + 1]), Notes(items[n + 1], Room)
  PROVE  \E U, K : Through(U, K, n + 1, items, secs', labels', fixes', globls') /\ U[n + 1].sec = cur'
<1>1. PICK it : it = items[n + 1]
  OBVIOUS
<1>2. /\ IsTrace(T, n, items, secs) /\ FilledTo(T[n].off, secs)
      /\ LabelsNoted(T, L, n, items, labels) /\ FixesNoted(T, n, items, fixes) /\ GloblsNoted(n, items, globls)
  BY Zenon DEF Through
<1>3. PICK U : U = Longer(T, n, Onward(T[n], cur', items[n + 1]))
  OBVIOUS
<1>4. IsTrace(U, n + 1, items, secs') /\ FilledTo(U[n + 1].off, secs') /\ U[n + 1].sec = cur'
  <2>1. Written(secs, secs', T[n].sec, cur', items[n + 1])
    BY Zenon
  <2>2. GoesOn(T, n, items, secs, secs', cur')
    BY <1>2, <2>1, Zenon DEF GoesOn
  <2> QED
    BY <1>3, <2>2, TraceGoesOn
<1>5. Agree(U, T, n)
  <2>1. PICK q : U = Longer(T, n, q)
    BY <1>3
  <2>2. \A j \in 1..(n + 1) : U[j - 1] = T[j - 1]
    BY <2>1, LongerIs
  <2> QED
    BY <2>2, Zenon DEF Agree
<1>6. Start(T, n + 1) = Room /\ T[(n + 1) - 1] = T[n]
  <2>1. (n + 1) - 1 = n /\ n \in 0..n
    OBVIOUS
  <2>2. Start(T, n + 1) = T[n].off[cur]
    BY <2>1, Zenon DEF Start
  <2>3. cur \in Nat
    <3>1. DOMAIN secs = 1..Len(secs) /\ Len(secs) \in Nat
      BY EP!ListProperties, Zenon DEF Sectioned
    <3> QED
      BY <3>1
  <2>4. T[n].off[cur] = Len(secs[cur].data)
    BY <1>2, <2>3, Zenon DEF FilledTo
  <2> QED
    BY <2>1, <2>2, <2>4, Zenon DEF Room
<1>7. FixesNoted(U, n + 1, items, fixes')
  <2>1. \/ fixes' = fixes /\ ~IsNaming(items[n + 1])
        \/ \E fix : fixes' = Append(fixes, fix) /\ FixNoted(T, n + 1, fix, items) /\ IsNaming(items[n + 1])
    BY <1>6, Zenon DEF Notes, FixNoted
  <2> QED
    BY <1>2, <1>5, <2>1, FixesGrow
<1>8. GloblsNoted(n + 1, items, globls')
  BY <1>2, GloblsGrow, Zenon DEF Notes
<1>9. \E K : LabelsNoted(U, K, n + 1, items, labels')
  <2>1. CASE it.kind = "LABEL"
    <3>1. PICK label : label = [name |-> it.dst.val, sec |-> cur, off |-> Room]
      OBVIOUS
    <3>2. label.name = it.dst.val /\ label.sec = cur /\ label.off = Room
      BY <3>1
    <3>3. LabelNoted(T, n + 1, label, items)
      BY <1>1, <1>6, <2>1, <3>2, Zenon DEF LabelNoted
    <3>4. labels' = Append(labels, label)
      BY <1>1, <2>1, <3>1, Zenon DEF Notes
    <3> QED
      BY <1>2, <1>5, <3>3, <3>4, LabelsGrow
  <2>2. CASE it.kind # "LABEL"
    <3>1. labels' = labels
      BY <1>1, <2>2, Zenon DEF Notes
    <3>2. LabelsNoted(U, L, n + 1, items, labels)
      BY <1>1, <1>2, <1>5, <2>2, LabelsStay
    <3> QED
      BY <3>1, <3>2, Zenon
  <2> QED
    BY <2>1, <2>2
<1> QED
  BY <1>4, <1>7, <1>8, <1>9, Zenon DEF Through

(* So does a step of the encoder that writes and notes its item. *)
LEMMA ItemTraced ==
  ASSUME EncoderInv, EncodableList(items), WalkInv, NEW kind, AtItem(kind),
         Sectioned(secs'), Written(secs, secs', cur, cur', item), Notes(item, Room)
  PROVE  WalkInv'
<1>1. pass = "items" /\ pass' = "items" /\ at <= Len(items) /\ at' = at + 1 /\ items' = items
  BY DEF AtItem
<1>2. at \in Nat \ {0} /\ Inside /\ Sectioned(secs)
  BY <1>1 DEF EncoderInv, Walking
<1>3. PICK n \in Nat : n = at - 1 /\ at = n + 1 /\ n + 1 <= Len(items)
  <2>1. at - 1 \in Nat /\ at = (at - 1) + 1
    BY <1>2
  <2> QED
    BY <1>1, <2>1
<1>4. PICK T, L : Through(T, L, n, items, secs, labels, fixes, globls) /\ T[n].sec = cur
  BY <1>1, <1>3, Zenon DEF WalkInv
<1>5. EP!IsList(labels) /\ EP!IsList(fixes)
  BY <1>2, Zenon DEF Inside, LabelsInside, FixesInside
<1>6. cur \in DOMAIN secs
  BY ItemHere
<1>7. \A k \in 1..(n + 1) : Encodable(items[k])
  <2>1. \A k \in 1..Len(items) : Encodable(items[k])
    BY Zenon DEF EncodableList
  <2>2. Len(items) \in Nat
    BY Zenon DEF EncodableList
  <2>3. \A k \in 1..(n + 1) : k \in 1..Len(items)
    BY <1>3, <2>2
  <2> QED
    BY <2>1, <2>3, Zenon
<1>8. item = items[n + 1]
  BY <1>3, Zenon DEF item
<1>9. PICK U, K : Through(U, K, n + 1, items, secs', labels', fixes', globls') /\ U[n + 1].sec = cur'
  <2>1. Written(secs, secs', cur, cur', items[n + 1]) /\ Notes(items[n + 1], Room)
    BY <1>8, Zenon
  <2> QED
    BY <1>2, <1>4, <1>5, <1>6, <1>7, <2>1, ThroughGoesOn
<1>10. at' - 1 = n + 1 /\ n + 1 <= Len(items)
  BY <1>1, <1>3
<1>11. pass' \notin Afterwards
  BY <1>1 DEF Afterwards
<1> QED
  BY <1>1, <1>9, <1>10, <1>11, Zenon DEF WalkInv

(* What the actions of the walk write. *)
LEMMA BytesWritten ==
  ASSUME Sectioned(secs), cur \in DOMAIN secs, NEW bytes \in Seq(Cells), Grow(bytes), cur' = cur,
         NEW it, it.kind # "SECTION", Len(bytes) = Size(it),
         \A b \in 1..Len(Wrote(it)) : bytes[b] = Wrote(it)[b], Len(Wrote(it)) \in Nat, Len(Wrote(it)) <= Len(bytes)
  PROVE  Written(secs, secs', cur, cur', it)
<1>1. /\ Continues(secs, secs') /\ DOMAIN secs' = DOMAIN secs
      /\ \A d \in DOMAIN secs : d # cur => secs'[d].data = secs[d].data
      /\ Len(secs'[cur].data) = Len(secs[cur].data) + Len(bytes)
      /\ \A b \in 1..Len(bytes) : secs'[cur].data[Len(secs[cur].data) + b] = bytes[b]
  BY AppendedBehind
<1>2. \A b \in 1..Len(Wrote(it)) : b \in 1..Len(bytes)
  <2>1. PICK n \in Nat, m \in Nat : n = Len(Wrote(it)) /\ m = Len(bytes) /\ n <= m
    OBVIOUS
  <2>2. \A b \in 1..n : b \in 1..m
    BY <2>1
  <2> QED
    BY <2>1, <2>2, Zenon
<1>3. \A b \in 1..Len(Wrote(it)) : secs'[cur].data[Len(secs[cur].data) + b] = Wrote(it)[b]
  BY <1>1, <1>2, Zenon
<1>4. \A d \in DOMAIN secs' : d # cur => Len(secs'[d].data) = IF d \in DOMAIN secs THEN Len(secs[d].data) ELSE 0
  BY <1>1, Zenon
<1>5. cur' \in DOMAIN secs' /\ Len(secs'[cur].data) = Len(secs[cur].data) + Size(it)
  BY <1>1, Zenon
<1> QED
  BY <1>1, <1>3, <1>4, <1>5, Zenon DEF Written

(* Items that are not written leave the sections as they are. *)
LEMMA NothingWritten ==
  ASSUME Sectioned(secs), cur \in DOMAIN secs, secs' = secs, cur' = cur,
         NEW it, it.kind \notin {"INSTR", "BYTES", "SECTION"}
  PROVE  Written(secs, secs', cur, cur', it)
<1>1. Wrote(it) = << >> /\ Size(it) = 0 /\ Len(<< >>) = 0 /\ it.kind # "SECTION"
  BY SizeIs, EP!EmptyIsList
<1>2. Continues(secs, secs)
  BY SameExtends
<1>3. Len(secs[cur].data) \in Nat
  BY DataLength
<1>4. Len(secs[cur].data) = Len(secs[cur].data) + Size(it)
  BY <1>1, <1>3
<1>5. \A b \in 1..Len(Wrote(it)) : secs[cur].data[Len(secs[cur].data) + b] = Wrote(it)[b]
  <2>1. \A b \in 1..0 : FALSE
    OBVIOUS
  <2> QED
    BY <1>1, <2>1, Zenon
<1> QED
  BY <1>1, <1>2, <1>4, <1>5, Zenon DEF Written

(* A section selected is where the walk goes. *)
LEMMA SectionWritten ==
  ASSUME Sectioned(secs), cur \in DOMAIN secs, NEW it, it.kind = "SECTION", NEW type, NEW flags,
         secs' = WithSection(secs, it.dst.val[1], type, flags),
         cur' = Elf!SectionFind(secs', it.dst.val[1])
  PROVE  Written(secs, secs', cur, cur', it)
<1>1. Wrote(it) = << >> /\ Size(it) = 0 /\ Len(<< >>) = 0
  <2>1. it.kind \notin {"INSTR", "BYTES"}
    OBVIOUS
  <2> QED
    BY <2>1, SizeIs, EP!EmptyIsList
<1>2. PICK name : name = it.dst.val[1]
  OBVIOUS
<1>3. PICK tt : tt = WithSection(secs, name, type, flags)
  OBVIOUS
<1>4. /\ Continues(secs, tt)
      /\ \A d \in DOMAIN secs : tt[d].data = secs[d].data
      /\ \A d \in DOMAIN tt : d \notin DOMAIN secs => Len(tt[d].data) = 0
      /\ Elf!SectionFind(tt, name) \in DOMAIN tt
      /\ tt[Elf!SectionFind(tt, name)].name = name
  BY <1>3, SelectedIsThere
<1>5. secs' = tt
  BY <1>2, <1>3, Zenon
<1>6. Len(secs[cur].data) \in Nat
  BY DataLength
<1>7. Len(tt[cur].data) = Len(secs[cur].data) + Size(it)
  <2>1. PICK n \in Nat : n = Len(secs[cur].data)
    BY <1>6
  <2>2. n + 0 = n
    OBVIOUS
  <2> QED
    BY <1>1, <1>4, <2>1, <2>2, Zenon
<1>8. \A b \in 1..Len(Wrote(it)) : tt[cur].data[Len(secs[cur].data) + b] = Wrote(it)[b]
  <2>1. \A b \in 1..0 : FALSE
    OBVIOUS
  <2> QED
    BY <1>1, <2>1, Zenon
<1>9. \A d \in DOMAIN tt : d # cur => Len(tt[d].data) = IF d \in DOMAIN secs THEN Len(secs[d].data) ELSE 0
  BY <1>4, Zenon
<1> QED
  BY <1>2, <1>4, <1>5, <1>7, <1>8, <1>9, Zenon DEF Written

(* An instruction without a name. *)
LEMMA PlainInstrTraced ==
  ASSUME EncoderInv, EncoderInv', EncodableList(items), WalkInv, PlainInstr
  PROVE  WalkInv'
<1>1. AtItem("INSTR") /\ ~Names(item) /\ Grow(EmitInstr(item)) /\ UNCHANGED <<cur, labels, globls, fixes>>
  BY DEF PlainInstr
<1>2. Encodable(item) /\ item.kind = "INSTR" /\ cur \in DOMAIN secs /\ Sectioned(secs) /\ Sectioned(secs')
  <2>1. Sectioned(secs')
    BY DEF EncoderInv, Walking
  <2> QED
    BY <1>1, <2>1, ItemHere
<1>3. Wrote(item) = EmitInstr(item) /\ EmitInstr(item) \in Seq(Cells)
  BY <1>2, SizeIs, InstrIsCells
<1>4. Len(EmitInstr(item)) \in Nat
  BY <1>3, LenProperties
<1>5. Size(item) = Len(EmitInstr(item))
  <2>1. Size(item) = Len(EmitInstr(item)) + 0
    BY <1>1, <1>3 DEF Size
  <2> QED
    BY <1>4, <2>1
<1>6. Written(secs, secs', cur, cur', item)
  <2>1. item.kind # "SECTION" /\ cur' = cur /\ Len(EmitInstr(item)) <= Len(EmitInstr(item))
    BY <1>1, <1>2, <1>4
  <2> QED
    BY <1>1, <1>2, <1>3, <1>4, <1>5, <2>1, BytesWritten
<1>7. Notes(item, Room)
  <2>1. item.kind # "LABEL" /\ item.kind # "GLOBL"
    BY <1>2
  <2> QED
    BY <1>1, <2>1 DEF Notes, IsNaming
<1> QED
  BY <1>1, <1>2, <1>6, <1>7, ItemTraced

(* An instruction with a name, whose field comes last (enc.c:78). *)
LEMMA NamingInstrTraced ==
  ASSUME EncoderInv, EncoderInv', EncodableList(items), WalkInv, NamingInstr
  PROVE  WalkInv'
<1> DEFINE fix == [sec |-> cur, off |-> Room + Len(EmitInstr(item)), name |-> NameIn(item),
                   type |-> IF item.op = "CALL" THEN "PLT32" ELSE "PC32"]
<1>1. /\ AtItem("INSTR") /\ Names(item) /\ Grow(EmitInstr(item) \o Emit(0, 4)) /\ UNCHANGED <<cur, labels, globls>>
      /\ fixes' = Append(fixes, fix)
  BY DEF NamingInstr
<1>2. Encodable(item) /\ item.kind = "INSTR" /\ cur \in DOMAIN secs /\ Sectioned(secs) /\ Sectioned(secs')
  <2>1. Sectioned(secs')
    BY DEF EncoderInv, Walking
  <2> QED
    BY <1>1, <2>1, ItemHere
<1>3. fix.sec = cur /\ fix.off = Room + Len(EmitInstr(item)) /\ fix.name = NameIn(item)
  OBVIOUS
<1> HIDE DEF fix
<1>4. Wrote(item) = EmitInstr(item) /\ EmitInstr(item) \in Seq(Cells)
  BY <1>2, SizeIs, InstrIsCells
<1>5. PICK old \in Seq(Cells) : old = EmitInstr(item)
  BY <1>4
<1>6. PICK field \in Seq(Cells) : field = Emit(0, 4) /\ Len(field) = 4
  <2>1. 0 \in Int /\ 4 \in 1..8
    OBVIOUS
  <2> QED
    BY <2>1, EmitIsCells
<1>7. PICK bytes : bytes = old \o field
  OBVIOUS
<1>8. /\ bytes \in Seq(Cells) /\ Len(bytes) = Len(old) + 4 /\ Len(old) \in Nat /\ Len(old) <= Len(bytes)
      /\ \A b \in 1..Len(old) : bytes[b] = old[b]
  <2>1. /\ bytes \in Seq(Cells) /\ Len(bytes) = Len(old) + Len(field)
        /\ \A b \in 1..Len(old) : bytes[b] = old[b]
    BY <1>7, ConcatProperties
  <2>2. PICK n \in Nat : n = Len(old)
    BY LenProperties
  <2>3. n <= n + 4
    BY <2>2
  <2> QED
    BY <1>6, <2>1, <2>2, <2>3, Zenon
<1>9. Size(item) = Len(old) + 4
  BY <1>1, <1>2, <1>4, <1>5 DEF Size
<1>10. Grow(bytes)
  BY <1>1, <1>5, <1>6, <1>7, Zenon
<1>11. Written(secs, secs', cur, cur', item)
  <2>1. item.kind # "SECTION" /\ cur' = cur
    BY <1>1, <1>2
  <2>2. Wrote(item) = old /\ Len(bytes) = Size(item)
    BY <1>4, <1>5, <1>8, <1>9
  <2> QED
    BY <1>2, <1>8, <1>10, <2>1, <2>2, BytesWritten
<1>12. Notes(item, Room)
  <2>1. item.kind # "LABEL" /\ item.kind # "GLOBL" /\ IsNaming(item)
    BY <1>1, <1>2 DEF IsNaming
  <2> QED
    BY <1>1, <1>3, <2>1, Zenon DEF Notes
<1> QED
  BY <1>1, <1>2, <1>11, <1>12, ItemTraced

(* Data. *)
LEMMA EmitRawTraced ==
  ASSUME EncoderInv, EncoderInv', EncodableList(items), WalkInv, EmitRaw
  PROVE  WalkInv'
<1>1. AtItem("BYTES") /\ Grow(Op(item.dst.val)) /\ UNCHANGED <<cur, labels, globls, fixes>>
  BY DEF EmitRaw
<1>2. Encodable(item) /\ item.kind = "BYTES" /\ cur \in DOMAIN secs /\ Sectioned(secs) /\ Sectioned(secs')
  <2>1. Sectioned(secs')
    BY DEF EncoderInv, Walking
  <2> QED
    BY <1>1, <2>1, ItemHere
<1>3. Wrote(item) = Op(item.dst.val) /\ Size(item) = Len(Wrote(item)) + 0
  BY <1>2, SizeIs
<1>4. Wrote(item) \in Seq(Cells) /\ Len(Wrote(item)) \in Nat
  BY <1>2, WroteCells
<1>5. Size(item) = Len(Wrote(item)) /\ Len(Wrote(item)) <= Len(Wrote(item))
  BY <1>3, <1>4
<1>6. Written(secs, secs', cur, cur', item)
  <2>1. item.kind # "SECTION" /\ cur' = cur /\ Grow(Wrote(item))
    BY <1>1, <1>2, <1>3
  <2> QED
    BY <1>2, <1>4, <1>5, <2>1, BytesWritten
<1>7. Notes(item, Room)
  <2>1. item.kind # "LABEL" /\ item.kind # "GLOBL" /\ item.kind # "INSTR"
    BY <1>2
  <2> QED
    BY <1>1, <2>1 DEF Notes, IsNaming
<1> QED
  BY <1>1, <1>2, <1>6, <1>7, ItemTraced

(* The actions that note something, or nothing, and write nothing. *)
LEMMA NotedTraced ==
  ASSUME EncoderInv, EncoderInv', EncodableList(items), WalkInv, RecordLabel \/ RecordGlobl \/ SkipDirective
  PROVE  WalkInv'
<1>1. PICK kind \in {"LABEL", "GLOBL", "DIRECTIVE"} :
        /\ AtItem(kind) /\ cur' = cur /\ secs' = secs /\ fixes' = fixes
        /\ labels' = IF kind = "LABEL" THEN Append(labels, [name |-> item.dst.val, sec |-> cur, off |-> Room]) ELSE labels
        /\ globls' = IF kind = "GLOBL" THEN globls \union {item.dst.val} ELSE globls
  <2>1. CASE RecordLabel
    BY <2>1 DEF RecordLabel
  <2>2. CASE RecordGlobl
    BY <2>2 DEF RecordGlobl
  <2>3. CASE SkipDirective
    BY <2>3 DEF SkipDirective
  <2> QED
    BY <2>1, <2>2, <2>3
<1>2. item.kind = kind /\ cur \in DOMAIN secs /\ Sectioned(secs) /\ Sectioned(secs')
  <2>1. Sectioned(secs')
    BY DEF EncoderInv, Walking
  <2> QED
    BY <1>1, <2>1, ItemHere
<1>3. item.kind \notin {"INSTR", "BYTES", "SECTION"} /\ item.kind # "INSTR"
  BY <1>1, <1>2
<1>4. Written(secs, secs', cur, cur', item)
  BY <1>1, <1>2, <1>3, NothingWritten
<1>5. Notes(item, Room)
  BY <1>1, <1>2, <1>3, Zenon DEF Notes, IsNaming
<1> QED
  BY <1>1, <1>2, <1>4, <1>5, ItemTraced

(* A section. *)
LEMMA ChangeSectionTraced ==
  ASSUME EncoderInv, EncoderInv', EncodableList(items), WalkInv, ChangeSection
  PROVE  WalkInv'
<1>1. /\ AtItem("SECTION") /\ UNCHANGED <<labels, globls, fixes>>
      /\ secs' = WithSection(secs, item.dst.val[1], item.op, item.src.val)
      /\ cur' = Elf!SectionFind(secs', item.dst.val[1])
  BY DEF ChangeSection, SelectSection
<1>2. item.kind = "SECTION" /\ cur \in DOMAIN secs /\ Sectioned(secs) /\ Sectioned(secs')
  <2>1. Sectioned(secs')
    BY DEF EncoderInv, Walking
  <2> QED
    BY <1>1, <2>1, ItemHere
<1>3. Written(secs, secs', cur, cur', item)
  BY <1>1, <1>2, SectionWritten
<1>4. Notes(item, Room)
  <2>1. item.kind # "LABEL" /\ item.kind # "GLOBL" /\ item.kind # "INSTR"
    BY <1>2
  <2> QED
    BY <1>1, <2>1 DEF Notes, IsNaming
<1> QED
  BY <1>1, <1>2, <1>3, <1>4, ItemTraced

(* An encoder that starts has walked over nothing. *)
LEMMA ResetTraced ==
  ASSUME EncodableList(items), Reset
  PROVE  WalkInv'
<1>1. /\ secs' = WithSection(<< >>, ".text", "PROGBITS", {"ALLOC", "EXECINSTR"})
      /\ cur' = Elf!SectionFind(secs', ".text")
      /\ labels' = << >> /\ globls' = {} /\ fixes' = << >> /\ pass' = "items" /\ at' = 1 /\ items' = items
  BY DEF Reset, SelectSection
<1>2. PICK tt : tt = secs'
  OBVIOUS
<1>3. Sectioned(<< >>) /\ DOMAIN << >> = {} /\ Len(<< >>) = 0
  BY EP!EmptyIsList DEF Sectioned
<1>4. /\ \A d \in DOMAIN tt : Len(tt[d].data) = 0 /\ d = 1
      /\ cur' \in DOMAIN tt
  <2>1. /\ \A d \in DOMAIN tt : d \notin DOMAIN << >> => Len(tt[d].data) = 0 /\ d = Len(<< >>) + 1
        /\ Elf!SectionFind(tt, ".text") \in DOMAIN tt
    <3>1. tt = WithSection(<< >>, ".text", "PROGBITS", {"ALLOC", "EXECINSTR"})
      BY <1>1, <1>2
    <3> QED
      BY <1>3, <3>1, SelectedIsThere
  <2>2. 0 + 1 = 1
    OBVIOUS
  <2>3. \A d \in DOMAIN tt : d \notin DOMAIN << >>
    BY <1>3
  <2> QED
    BY <1>1, <1>2, <1>3, <2>1, <2>2, <2>3
<1>5. cur' = 1 /\ 1 \in DOMAIN tt
  BY <1>4, Zenon
<1>6. PICK none : none = [s \in Nat |-> 0]
  OBVIOUS
<1>7. PICK start : start = [sec |-> 1, off |-> none]
  OBVIOUS
<1>8. start.sec = 1 /\ start.off = none /\ start \in Stands(tt)
  BY <1>5, <1>6, <1>7 DEF Stands
<1>9. PICK T : T = [k \in 0..0 |-> start]
  OBVIOUS
<1>10. T[0] = start /\ T \in [0..0 -> Stands(tt)]
  BY <1>8, <1>9
<1>11. \A j \in 1..0 : FALSE
  OBVIOUS
<1>12. IsTrace(T, 0, items, tt)
  BY <1>6, <1>8, <1>10, <1>11, Zenon DEF IsTrace
<1>13. FilledTo(T[0].off, tt)
  <2>1. \A d \in Nat : none[d] = 0
    BY <1>6
  <2> QED
    BY <1>4, <1>8, <1>10, <2>1, Zenon DEF FilledTo
<1>14. PICK L : L = [l \in {} |-> 1]
  OBVIOUS
<1>15. LabelsNoted(T, L, 0, items, << >>)
  <2>1. L \in [DOMAIN << >> -> 1..0]
    BY <1>3, <1>14
  <2>2. \A l \in DOMAIN << >> : FALSE
    BY <1>3
  <2> QED
    BY <1>11, <2>1, <2>2, Zenon DEF LabelsNoted
<1>16. FixesNoted(T, 0, items, << >>)
  <2>1. DOMAIN << >> = {}
    BY EP!EmptyIsList
  <2> QED
    BY <1>11, <2>1, Zenon DEF FixesNoted
<1>17. GloblsNoted(0, items, {})
  <2>1. \A name : name \notin {}
    OBVIOUS
  <2> QED
    BY <1>11, <2>1, Zenon DEF GloblsNoted
<1>18. Through(T, L, 0, items, tt, << >>, << >>, {})
  BY <1>12, <1>13, <1>15, <1>16, <1>17, Zenon DEF Through
<1>19. at' - 1 = 0 /\ 0 <= Len(items)
  BY <1>1 DEF EncodableList
<1>20. T[0].sec = cur'
  BY <1>5, <1>8, <1>10
<1>21. pass' \notin Afterwards
  BY <1>1 DEF Afterwards
<1> QED
  BY <1>1, <1>2, <1>18, <1>19, <1>20, <1>21, Zenon DEF WalkInv

(* What is noted after the walk leaves the bytes as they are. *)
LEMMA SameIsThrough ==
  ASSUME NEW n \in Nat, NEW its, NEW ss, NEW tt, DOMAIN tt = DOMAIN ss,
         \A d \in DOMAIN ss : tt[d].name = ss[d].name /\ tt[d].data = ss[d].data,
         NEW T, NEW L, NEW ls, NEW fs, NEW gs, Through(T, L, n, its, ss, ls, fs, gs)
  PROVE  Through(T, L, n, its, tt, ls, fs, gs)
<1>1. /\ IsTrace(T, n, its, ss) /\ FilledTo(T[n].off, ss)
      /\ LabelsNoted(T, L, n, its, ls) /\ FixesNoted(T, n, its, fs) /\ GloblsNoted(n, its, gs)
  BY Zenon DEF Through
<1>2. FilledTo(T[n].off, tt)
  BY <1>1, Zenon DEF FilledTo
<1>3. \A j \in 1..n : Follows(T[j - 1], T[j], its[j], tt)
  <2> SUFFICES ASSUME NEW j \in 1..n PROVE Follows(T[j - 1], T[j], its[j], tt)
    OBVIOUS
  <2>1. T[j - 1].sec \in DOMAIN ss /\ T[j].sec \in DOMAIN ss /\ Follows(T[j - 1], T[j], its[j], ss)
    BY <1>1, TraceAt
  <2> QED
    BY <2>1, Zenon DEF Follows
<1>4. Stands(tt) = Stands(ss)
  BY Zenon DEF Stands
<1>5. IsTrace(T, n, its, tt)
  BY <1>1, <1>3, <1>4, Zenon DEF IsTrace
<1> QED
  BY <1>1, <1>2, <1>5, Zenon DEF Through

(* The passes after the walk keep what it left. *)
LEMMA AfterwardsTraced ==
  ASSUME EncodableList(items), WalkInv, pass \in Afterwards, pass' \in Afterwards,
         UNCHANGED <<items, labels, fixes, globls>>, DOMAIN secs' = DOMAIN secs,
         \A d \in DOMAIN secs : secs'[d].name = secs[d].name /\ secs'[d].data = secs[d].data
  PROVE  WalkInv'
<1>1. PICK T, L : Through(T, L, Len(items), items, secs, labels, fixes, globls)
  BY Zenon DEF WalkInv
<1>2. Len(items) \in Nat
  BY DEF EncodableList
<1>3. PICK tt : tt = secs'
  OBVIOUS
<1>4. Through(T, L, Len(items), items, tt, labels, fixes, globls)
  BY <1>1, <1>2, <1>3, SameIsThrough
<1>5. pass' # "items"
  BY DEF Afterwards
<1> QED
  BY <1>3, <1>4, <1>5, Zenon DEF WalkInv

(* Every step of the encoder keeps the trace. *)
LEMMA WalkKeeps ==
  ASSUME EncoderInv, EncoderInv', EncodableList(items), WalkInv, EncodeNext
  PROVE  WalkInv'
<1>1. CASE Reset
  BY <1>1, ResetTraced
<1>2. CASE \/ PlainInstr \/ NamingInstr \/ RecordLabel \/ RecordGlobl \/ ChangeSection \/ EmitRaw \/ SkipDirective
  BY <1>2, PlainInstrTraced, NamingInstrTraced, NotedTraced, ChangeSectionTraced, EmitRawTraced, Zenon
<1>3. CASE NextPass("items", items, "labels")
  <2>1. /\ pass = "items" /\ at > Len(items) /\ pass' = "labels"
        /\ UNCHANGED <<items, cur, secs, syms, labels, globls, fixes>>
    BY <1>3 DEF NextPass
  <2>2. at \in Nat \ {0} /\ Len(items) \in Nat
    BY DEF EncoderInv, Walking, EncodableList
  <2>3. at - 1 <= Len(items) /\ \E T, L : Through(T, L, at - 1, items, secs, labels, fixes, globls)
    BY <2>1, Zenon DEF WalkInv
  <2>4. at - 1 = Len(items)
    BY <2>1, <2>2, <2>3
  <2>5. pass' # "items"
    BY <2>1
  <2> QED
    BY <2>1, <2>3, <2>4, <2>5, Zenon DEF WalkInv
<1>4. CASE \/ LabelSymbol \/ UndefinedSymbol
           \/ NextPass("labels", labels, "names") \/ NextPass("names", fixes, "relocs")
           \/ NextPass("relocs", fixes, "encoded")
  <2>1. pass \in Afterwards /\ pass' \in Afterwards /\ UNCHANGED <<items, secs, labels, fixes, globls>>
    BY <1>4 DEF LabelSymbol, UndefinedSymbol, Done, NextPass, Afterwards
  <2> QED
    BY <2>1, AfterwardsTraced
<1>5. CASE BuildReloc
  <2>1. PICK c, rela : /\ c = fixes[at].sec /\ secs' = [secs EXCEPT ![c].relas = Append(@, rela)]
                       /\ Done("relocs", fixes)
    BY <1>5 DEF BuildReloc
  <2>2. /\ pass = "relocs" /\ pass' = "relocs" /\ at <= Len(fixes)
        /\ UNCHANGED <<items, labels, globls, fixes>>
    BY <2>1 DEF Done
  <2>3. Sectioned(secs) /\ at \in Nat \ {0} /\ FixesInside(fixes, secs)
    BY <2>2 DEF EncoderInv, Walking, Inside
  <2>4. c \in DOMAIN secs
    <3>1. DOMAIN fixes = 1..Len(fixes) /\ Len(fixes) \in Nat
      BY <2>3, EP!ListProperties DEF FixesInside
    <3>2. at \in DOMAIN fixes
      BY <2>2, <2>3, <3>1
    <3> QED
      BY <2>1, <2>3, <3>2, Zenon DEF FixesInside
  <2>5. DOMAIN secs' = DOMAIN secs /\ \A d \in DOMAIN secs : secs'[d].name = secs[d].name /\ secs'[d].data = secs[d].data
    BY <2>1, <2>3, <2>4, RelocGrows
  <2>6. pass \in Afterwards /\ pass' \in Afterwards
    BY <2>2 DEF Afterwards
  <2> QED
    BY <2>2, <2>5, <2>6, AfterwardsTraced
<1> QED
  BY <1>1, <1>2, <1>3, <1>4, <1>5, Zenon DEF EncodeNext

-----------------------------------------------------------------------------
(* The symbols and the relocations that are made of the notes.             *)

WithNames == {"names", "relocs", "encoded"}

SymbolsInv ==
  /\ pass = "labels" => LabelSymbols(at - 1, labels, syms, globls)
  /\ pass \in WithNames => LabelSymbols(Len(labels), labels, syms, globls) /\ OthersUndefined(Len(labels), syms)

RelocsInv ==
  /\ pass = "relocs" => RelocsNoted(at - 1, fixes, secs, syms)
  /\ pass = "encoded" => RelocsNoted(Len(fixes), fixes, secs, syms)

(* One more symbol, of the next label. *)
LEMMA NextLabelSymbol ==
  ASSUME NEW m \in Nat, NEW ls, m + 1 \in DOMAIN ls, NEW ys, EP!IsList(ys), Len(ys) = m, NEW gs,
         LabelSymbols(m, ls, ys, gs), NEW y, SymbolOf(y, ls[m + 1], gs), NEW zs, zs = Append(ys, y)
  PROVE  LabelSymbols(m + 1, ls, zs, gs)
<1>1. /\ DOMAIN zs = (DOMAIN ys) \union {Len(zs)} /\ Len(zs) = m + 1
      /\ zs[Len(zs)] = y /\ \A x \in DOMAIN ys : zs[x] = ys[x]
  BY EP!AppendIsList
<1> SUFFICES ASSUME NEW x \in 1..(m + 1)
             PROVE  x \in DOMAIN zs /\ x \in DOMAIN ls /\ SymbolOf(zs[x], ls[x], gs)
  BY Zenon DEF LabelSymbols
<1>2. CASE x = m + 1
  BY <1>1, <1>2, Zenon
<1>3. CASE x # m + 1
  <2>1. x \in 1..m
    BY <1>3
  <2>2. x \in DOMAIN ys /\ x \in DOMAIN ls /\ SymbolOf(ys[x], ls[x], gs)
    BY <2>1, Zenon DEF LabelSymbols
  <2>3. zs[x] = ys[x] /\ x \in DOMAIN zs
    BY <1>1, <2>2
  <2> QED
    BY <2>2, <2>3, Zenon
<1> QED
  BY <1>2, <1>3

(* The next symbol is that of the next label (enc.c:436). *)
LEMMA LabelSymbolIsOf ==
  ASSUME EncoderInv, SymbolsInv, LabelSymbol
  PROVE  SymbolsInv' /\ RelocsInv'
<1>1. PICK l : l = labels[at]
  OBVIOUS
<1>2. PICK bind, type : /\ bind = IF l.name \in globls THEN "GLOBAL" ELSE "LOCAL"
                        /\ syms' = Append(syms, Symbol(l.name, l.sec, l.off, bind, type))
  BY <1>1 DEF LabelSymbol
<1>3. PICK y : y = Symbol(l.name, l.sec, l.off, bind, type)
  OBVIOUS
<1>4. SymbolOf(y, l, globls)
  <2>1. y.name = l.name /\ y.sec = l.sec /\ y.value = l.off /\ y.bind = bind
    BY <1>3 DEF Symbol
  <2>2. "GLOBAL" # "LOCAL"
    OBVIOUS
  <2> QED
    BY <1>2, <2>1, <2>2, Zenon DEF SymbolOf
<1>5. Done("labels", labels)
  BY DEF LabelSymbol
<1>6. /\ pass = "labels" /\ pass' = "labels" /\ at \in Nat \ {0} /\ at' = at + 1
      /\ labels' = labels /\ at <= Len(labels) /\ Inside
  BY <1>5, LoopGoesOn
<1>7. globls' = globls
  BY <1>5 DEF Done
<1>8. LabelsMade /\ EP!IsList(syms) /\ EP!IsList(labels)
  BY <1>6 DEF EncoderInv, Inside, SymbolsInside, LabelsInside
<1>9. DOMAIN labels = 1..Len(labels) /\ Len(labels) \in Nat
  BY <1>8, EP!ListProperties
<1>10. PICK m \in Nat : m = at - 1 /\ m + 1 = at /\ m + 1 \in DOMAIN labels /\ at' - 1 = m + 1 /\ Len(syms) = m
  <2>1. Len(syms) = at - 1
    BY <1>8 DEF LabelsMade
  <2>2. at - 1 \in Nat /\ (at - 1) + 1 = at /\ at \in DOMAIN labels /\ at' - 1 = at
    BY <1>6, <1>9
  <2> QED
    BY <2>1, <2>2
<1>11. LabelSymbols(m, labels, syms, globls)
  BY <1>6, <1>10, Zenon DEF SymbolsInv
<1>12. SymbolOf(y, labels[m + 1], globls)
  BY <1>1, <1>4, <1>10, Zenon
<1>13. LabelSymbols(m + 1, labels, syms', globls)
  <2>1. PICK zs : zs = Append(syms, y)
    OBVIOUS
  <2>2. LabelSymbols(m + 1, labels, zs, globls)
    BY <1>8, <1>10, <1>11, <1>12, <2>1, NextLabelSymbol
  <2> QED
    BY <1>2, <1>3, <2>1, <2>2, Zenon
<1>14. pass' \notin WithNames /\ pass' # "relocs" /\ pass' # "encoded"
  BY <1>6 DEF WithNames
<1> QED
  BY <1>6, <1>7, <1>10, <1>13, <1>14, Zenon DEF SymbolsInv, RelocsInv

(* A name no label has gets one symbol, of no section (enc.c:449). *)
LEMMA UndefinedSymbolIsOf ==
  ASSUME EncoderInv, SymbolsInv, UndefinedSymbol
  PROVE  SymbolsInv' /\ RelocsInv'
<1>1. PICK name : name = fixes[at].name
  OBVIOUS
<1>2. PICK y : y = Symbol(name, 0, 0, "GLOBAL", "NOTYPE")
  OBVIOUS
<1>3. y.name = name /\ y.sec = 0 /\ y.bind = "GLOBAL"
  BY <1>2 DEF Symbol
<1>4. /\ Done("names", fixes)
      /\ syms' = IF Elf!SymbolFind(syms, name) # 0 THEN syms ELSE Append(syms, y)
  BY <1>1, <1>2 DEF UndefinedSymbol
<1>5. pass = "names" /\ pass' = "names" /\ labels' = labels /\ Inside
  BY <1>4, LoopGoesOn
<1>6. globls' = globls
  BY <1>4 DEF Done
<1>7. EP!IsList(syms) /\ EP!IsList(labels)
  BY <1>5 DEF Inside, SymbolsInside, LabelsInside
<1>8. DOMAIN syms = 1..Len(syms) /\ Len(syms) \in Nat
  BY <1>7, EP!ListProperties
<1>9. LabelSymbols(Len(labels), labels, syms, globls) /\ OthersUndefined(Len(labels), syms)
  <2>1. pass \in WithNames
    BY <1>5 DEF WithNames
  <2> QED
    BY <2>1, Zenon DEF SymbolsInv
<1>10. LabelSymbols(Len(labels), labels, syms', globls) /\ OthersUndefined(Len(labels), syms')
  <2>1. CASE Elf!SymbolFind(syms, name) # 0
    BY <1>4, <1>9, <2>1, Zenon
  <2>2. CASE Elf!SymbolFind(syms, name) = 0
    <3>1. PICK zs : zs = Append(syms, y) /\ zs = syms'
      BY <1>4, <2>2
    <3>2. /\ DOMAIN zs = (DOMAIN syms) \union {Len(zs)} /\ Len(zs) = Len(syms) + 1
          /\ zs[Len(zs)] = y /\ \A x \in DOMAIN syms : zs[x] = syms[x]
      <4>1. zs = Append(syms, y)
        BY <3>1, Zenon
      <4> QED
        BY <1>7, <4>1, EP!AppendIsList
    <3>3. \A x \in DOMAIN syms : syms[x].name # name
      BY <1>7, <2>2, SymbolFound
    <3>4. LabelSymbols(Len(labels), labels, zs, globls)
      <4>1. \A x \in DOMAIN syms : x \in DOMAIN zs /\ zs[x] = syms[x]
        BY <3>2
      <4> QED
        BY <1>9, <4>1, Zenon DEF LabelSymbols
    <3>5. OthersUndefined(Len(labels), zs)
      <4> SUFFICES ASSUME NEW z \in DOMAIN zs, z > Len(labels)
                   PROVE  /\ zs[z].sec = 0 /\ zs[z].bind = "GLOBAL"
                          /\ \A x \in DOMAIN zs : x < z => zs[x].name # zs[z].name
        BY Zenon DEF OthersUndefined
      <4>1. CASE z = Len(zs)
        <5>1. \A x \in DOMAIN zs : x < z => x \in DOMAIN syms
          BY <1>8, <3>2, <4>1
        <5> QED
          BY <1>3, <3>2, <3>3, <4>1, <5>1, Zenon
      <4>2. CASE z # Len(zs)
        <5>1. z \in DOMAIN syms /\ \A x \in DOMAIN zs : x < z => x \in DOMAIN syms
          BY <1>8, <3>2, <4>2
        <5>2. /\ syms[z].sec = 0 /\ syms[z].bind = "GLOBAL"
              /\ \A x \in DOMAIN syms : x < z => syms[x].name # syms[z].name
          BY <1>9, <5>1, Zenon DEF OthersUndefined
        <5> QED
          BY <3>2, <5>1, <5>2, Zenon
      <4> QED
        BY <4>1, <4>2
    <3> QED
      BY <3>1, <3>4, <3>5, Zenon
  <2> QED
    BY <2>1, <2>2
<1>11. pass' # "labels" /\ pass' # "relocs" /\ pass' # "encoded"
  BY <1>5
<1> QED
  BY <1>5, <1>6, <1>10, <1>11, Zenon DEF SymbolsInv, RelocsInv

(* One more relocation, of the next reference. *)
RelocAdded(m, fs, ys, ss, tt, c, rela) ==
  /\ m \in Nat /\ EP!IsList(fs) /\ m + 1 \in DOMAIN fs /\ c = fs[m + 1].sec /\ c \in DOMAIN ss
  /\ RelocsNoted(m, fs, ss, ys) /\ RelocOf(rela, fs[m + 1], ys)
  /\ DOMAIN tt = DOMAIN ss /\ EP!IsList(ss[c].relas) /\ tt[c].relas = Append(ss[c].relas, rela)
  /\ \A d \in DOMAIN ss : d # c => tt[d].relas = ss[d].relas
  /\ \A f \in DOMAIN fs : fs[f].sec \in DOMAIN ss

(* One more reference has its relocation. *)
LEMMA NextReloc ==
  ASSUME NEW m, NEW fs, NEW ys, NEW ss, NEW tt, NEW c, NEW rela, RelocAdded(m, fs, ys, ss, tt, c, rela)
  PROVE  RelocsNoted(m + 1, fs, tt, ys)
<1>0. /\ m \in Nat /\ EP!IsList(fs) /\ m + 1 \in DOMAIN fs /\ c = fs[m + 1].sec /\ c \in DOMAIN ss
      /\ RelocsNoted(m, fs, ss, ys) /\ RelocOf(rela, fs[m + 1], ys)
      /\ DOMAIN tt = DOMAIN ss /\ EP!IsList(ss[c].relas) /\ tt[c].relas = Append(ss[c].relas, rela)
      /\ \A d \in DOMAIN ss : d # c => tt[d].relas = ss[d].relas
      /\ \A f \in DOMAIN fs : fs[f].sec \in DOMAIN ss
  BY Zenon DEF RelocAdded
<1>1. PICK old, new : old = ss[c].relas /\ new = tt[c].relas
  OBVIOUS
<1>2. EP!IsList(old) /\ new = Append(old, rela)
  BY <1>0, <1>1
<1>3. /\ DOMAIN new = (DOMAIN old) \union {Len(new)}
      /\ new[Len(new)] = rela /\ \A q \in DOMAIN old : new[q] = old[q]
  BY <1>2, EP!AppendIsList
<1>4. \A d \in DOMAIN ss : \A q \in DOMAIN ss[d].relas : q \in DOMAIN tt[d].relas /\ tt[d].relas[q] = ss[d].relas[q]
  <2> SUFFICES ASSUME NEW d \in DOMAIN ss, NEW q \in DOMAIN ss[d].relas
               PROVE  q \in DOMAIN tt[d].relas /\ tt[d].relas[q] = ss[d].relas[q]
    OBVIOUS
  <2>1. CASE d = c
    <3>1. q \in DOMAIN old
      BY <1>1, <2>1, Zenon
    <3>2. q \in DOMAIN new /\ new[q] = old[q]
      BY <1>0, <1>3, <3>1, Zenon
    <3> QED
      BY <1>0, <1>1, <2>1, <3>2, Zenon
  <2>2. CASE d # c
    <3>1. tt[d].relas = ss[d].relas
      BY <1>0, <2>2
    <3> QED
      BY <1>0, <3>1, Zenon
  <2> QED
    BY <2>1, <2>2
<1>5. ASSUME NEW f \in DOMAIN fs, f <= m + 1
      PROVE  \E q \in DOMAIN tt[fs[f].sec].relas : RelocOf(tt[fs[f].sec].relas[q], fs[f], ys)
  <2>1. CASE f = m + 1
    <3>1. Len(new) \in DOMAIN new /\ RelocOf(new[Len(new)], fs[m + 1], ys)
      BY <1>0, <1>3, Zenon
    <3> QED
      BY <1>0, <1>1, <2>1, <3>1, Zenon
  <2>2. CASE f # m + 1
    <3>1. f <= m
      <4>1. DOMAIN fs = 1..Len(fs) /\ Len(fs) \in Nat
        BY <1>0, EP!ListProperties
      <4> QED
        BY <1>0, <1>5, <2>2, <4>1
    <3>2. PICK q \in DOMAIN ss[fs[f].sec].relas : RelocOf(ss[fs[f].sec].relas[q], fs[f], ys)
      BY <1>0, <3>1, Zenon DEF RelocsNoted
    <3> QED
      BY <1>0, <1>4, <3>2, Zenon
  <2> QED
    BY <2>1, <2>2
<1>6. ASSUME NEW d \in DOMAIN tt, NEW q \in DOMAIN tt[d].relas
      PROVE  \E f \in DOMAIN fs : fs[f].sec = d /\ RelocOf(tt[d].relas[q], fs[f], ys)
  <2>1. CASE q \in DOMAIN ss[d].relas
    <3>1. PICK f \in DOMAIN fs : fs[f].sec = d /\ RelocOf(ss[d].relas[q], fs[f], ys)
      BY <1>0, <2>1, Zenon DEF RelocsNoted
    <3>2. tt[d].relas[q] = ss[d].relas[q]
      BY <1>0, <1>4, <2>1
    <3> QED
      BY <1>0, <3>1, <3>2, Zenon
  <2>2. CASE q \notin DOMAIN ss[d].relas
    <3>1. d = c
      BY <1>0, <2>2
    <3>2. q \in DOMAIN new /\ q \notin DOMAIN old
      BY <1>1, <2>2, <3>1, Zenon
    <3>3. new[q] = rela
      BY <1>0, <1>3, <3>2, Zenon
    <3>4. tt[d].relas[q] = rela
      BY <1>0, <1>1, <3>1, <3>3, Zenon
    <3> QED
      BY <1>0, <3>1, <3>4, Zenon
  <2> QED
    BY <2>1, <2>2
<1> QED
  BY <1>0, <1>5, <1>6, Zenon DEF RelocsNoted

(* And it is for the symbol of its name (enc.c:457). *)
LEMMA BuildRelocIsOf ==
  ASSUME EncoderInv, SymbolsInv, RelocsInv, BuildReloc
  PROVE  SymbolsInv' /\ RelocsInv'
<1>1. PICK f : f = fixes[at]
  OBVIOUS
<1>2. PICK rela : rela = [off |-> f.off, sym |-> Elf!SymbolFind(syms, f.name), type |-> f.type, addend |-> -4]
  OBVIOUS
<1>3. RelocOf(rela, f, syms)
  BY <1>2 DEF RelocOf
<1>4. /\ Done("relocs", fixes) /\ syms' = syms
      /\ secs' = [secs EXCEPT ![f.sec].relas = Append(@, rela)]
  BY <1>1, <1>2 DEF BuildReloc
<1>5. /\ pass = "relocs" /\ pass' = "relocs" /\ at \in Nat \ {0} /\ at' = at + 1
      /\ labels' = labels /\ fixes' = fixes /\ at <= Len(fixes) /\ Inside /\ Walking
  BY <1>4, LoopGoesOn
<1>6. globls' = globls
  BY <1>4 DEF Done
<1>7. Sectioned(secs) /\ FixesInside(fixes, secs) /\ EP!IsList(fixes)
  BY <1>5 DEF Walking, Inside, FixesInside
<1>8. DOMAIN fixes = 1..Len(fixes) /\ Len(fixes) \in Nat
  BY <1>7, EP!ListProperties
<1>9. PICK m \in Nat : m = at - 1 /\ m + 1 = at /\ m + 1 \in DOMAIN fixes /\ at' - 1 = m + 1
  <2>1. at - 1 \in Nat /\ (at - 1) + 1 = at /\ at \in DOMAIN fixes /\ at' - 1 = at
    BY <1>5, <1>8
  <2> QED
    BY <2>1
<1>10. \A g \in DOMAIN fixes : fixes[g].sec \in DOMAIN secs
  BY <1>7, Zenon DEF FixesInside
<1>11. PICK c \in DOMAIN secs : c = f.sec
  <2>1. f.sec \in DOMAIN secs
    BY <1>1, <1>9, <1>10, Zenon
  <2> QED
    BY <2>1
<1>12. /\ DOMAIN secs' = DOMAIN secs
       /\ secs'[c].relas = Append(secs[c].relas, rela)
       /\ \A d \in DOMAIN secs : d # c => secs'[d].relas = secs[d].relas
  <2>1. secs' = [secs EXCEPT ![c].relas = Append(@, rela)]
    BY <1>4, <1>11, Zenon
  <2> QED
    BY <1>7, <2>1, RelocGrows
<1>13. EP!IsList(secs[c].relas)
  BY <1>7, Zenon DEF Sectioned, IsSection
<1>14. RelocsNoted(m, fixes, secs, syms)
  BY <1>5, <1>9, Zenon DEF RelocsInv
<1>15. PICK tt : tt = secs'
  OBVIOUS
<1>16. f = fixes[m + 1]
  BY <1>1, <1>9, Zenon
<1>17. RelocsNoted(m + 1, fixes, tt, syms)
  <2>1. /\ DOMAIN tt = DOMAIN secs
        /\ tt[c].relas = Append(secs[c].relas, rela)
        /\ \A d \in DOMAIN secs : d # c => tt[d].relas = secs[d].relas
    BY <1>12, <1>15, Zenon
  <2>2. EP!IsList(fixes) /\ m + 1 \in DOMAIN fixes /\ RelocOf(rela, fixes[m + 1], syms) /\ c = fixes[m + 1].sec
    BY <1>3, <1>7, <1>9, <1>11, <1>16, Zenon
  <2>3. RelocAdded(m, fixes, syms, secs, tt, c, rela)
    BY <1>10, <1>13, <1>14, <2>1, <2>2, Zenon DEF RelocAdded
  <2> QED
    BY <2>3, NextReloc
<1>18. SymbolsInv'
  <2>1. pass \in WithNames /\ pass' # "labels"
    BY <1>5 DEF WithNames
  <2> QED
    BY <1>4, <1>5, <1>6, <2>1, Zenon DEF SymbolsInv
<1>19. RelocsInv'
  <2>1. pass' # "encoded"
    BY <1>5
  <2> QED
    BY <1>4, <1>5, <1>9, <1>15, <1>17, <2>1, Zenon DEF RelocsInv
<1> QED
  BY <1>18, <1>19

(* At the end of a pass, everything it was for is made. *)
LEMMA NextPassIsOf ==
  ASSUME EncoderInv, SymbolsInv, RelocsInv,
         \/ NextPass("items", items, "labels") \/ NextPass("labels", labels, "names")
         \/ NextPass("names", fixes, "relocs") \/ NextPass("relocs", fixes, "encoded")
  PROVE  SymbolsInv' /\ RelocsInv'
<1>1. /\ pass # "reset" /\ at' = 1 /\ at' - 1 = 0
      /\ secs' = secs /\ syms' = syms /\ labels' = labels /\ fixes' = fixes /\ globls' = globls
  BY DEF NextPass
<1>2. Inside /\ at \in Nat \ {0}
  BY <1>1 DEF EncoderInv, Walking
<1>3. EP!IsList(labels) /\ EP!IsList(fixes) /\ EP!IsList(syms)
  BY <1>2 DEF Inside, LabelsInside, FixesInside, SymbolsInside
<1>4. /\ DOMAIN labels = 1..Len(labels) /\ Len(labels) \in Nat
      /\ DOMAIN fixes = 1..Len(fixes) /\ Len(fixes) \in Nat
      /\ DOMAIN syms = 1..Len(syms) /\ Len(syms) \in Nat
  BY <1>3, EP!ListProperties
<1>5. \A j \in 1..0 : FALSE
  OBVIOUS
<1>6. CASE NextPass("items", items, "labels")
  <2>1. pass' = "labels" /\ pass' \notin WithNames /\ pass' # "relocs" /\ pass' # "encoded"
    BY <1>6 DEF NextPass, WithNames
  <2>2. LabelSymbols(0, labels, syms, globls)
    BY <1>5, Zenon DEF LabelSymbols
  <2> QED
    BY <1>1, <2>1, <2>2, Zenon DEF SymbolsInv, RelocsInv
<1>7. CASE NextPass("labels", labels, "names")
  <2>1. pass = "labels" /\ at > Len(labels) /\ pass' # "labels" /\ pass' # "relocs" /\ pass' # "encoded"
    BY <1>7 DEF NextPass
  <2>2. LabelsMade
    BY <2>1 DEF EncoderInv
  <2>3. at - 1 = Len(labels) /\ Len(syms) = Len(labels)
    BY <1>2, <1>4, <2>1, <2>2 DEF LabelsMade
  <2>4. LabelSymbols(Len(labels), labels, syms, globls)
    BY <2>1, <2>3, Zenon DEF SymbolsInv
  <2>5. OthersUndefined(Len(labels), syms)
    <3>1. \A y \in DOMAIN syms : ~(y > Len(labels))
      BY <1>4, <2>3
    <3> QED
      BY <3>1, Zenon DEF OthersUndefined
  <2> QED
    BY <1>1, <2>1, <2>4, <2>5, Zenon DEF SymbolsInv, RelocsInv
<1>8. CASE NextPass("names", fixes, "relocs")
  <2>1. pass = "names" /\ pass' = "relocs" /\ pass' # "labels" /\ pass' # "encoded" /\ pass \in WithNames
    BY <1>8 DEF NextPass, WithNames
  <2>2. NoRelocs(secs)
    BY <2>1 DEF EncoderInv
  <2>3. \A d \in DOMAIN secs : DOMAIN secs[d].relas = {}
    BY <2>2, EP!EmptyIsList DEF NoRelocs
  <2>4. \A f \in DOMAIN fixes : ~(f <= 0)
    BY <1>4
  <2>5. RelocsNoted(0, fixes, secs, syms)
    BY <2>3, <2>4 DEF RelocsNoted
  <2> QED
    BY <1>1, <2>1, <2>5, Zenon DEF SymbolsInv, RelocsInv
<1>9. CASE NextPass("relocs", fixes, "encoded")
  <2>1. pass = "relocs" /\ pass' = "encoded" /\ pass' # "labels" /\ pass' # "relocs" /\ at > Len(fixes) /\ pass \in WithNames
    BY <1>9 DEF NextPass, WithNames
  <2>2. RelocsNoted(at - 1, fixes, secs, syms)
    BY <2>1, Zenon DEF RelocsInv
  <2>3. \A f \in DOMAIN fixes : f <= at - 1
    BY <1>2, <1>4, <2>1
  <2>4. RelocsNoted(Len(fixes), fixes, secs, syms)
    BY <2>2, <2>3, Zenon DEF RelocsNoted
  <2> QED
    BY <1>1, <2>1, <2>4, Zenon DEF SymbolsInv, RelocsInv
<1> QED
  BY <1>6, <1>7, <1>8, <1>9

(* Every step of the encoder keeps what the symbols and relocations are    *)
(* of.                                                                     *)
LEMMA NotesKeep ==
  ASSUME EncoderInv, SymbolsInv, RelocsInv, EncodeNext
  PROVE  SymbolsInv' /\ RelocsInv'
<1>1. CASE \/ Reset \/ PlainInstr \/ NamingInstr \/ RecordLabel \/ RecordGlobl \/ ChangeSection \/ EmitRaw
           \/ SkipDirective
  <2>1. pass' = "items"
    BY <1>1 DEF Reset, PlainInstr, NamingInstr, RecordLabel, RecordGlobl, ChangeSection, EmitRaw, SkipDirective, AtItem
  <2>2. pass' # "labels" /\ pass' \notin WithNames /\ pass' # "relocs" /\ pass' # "encoded"
    BY <2>1 DEF WithNames
  <2> QED
    BY <2>2, Zenon DEF SymbolsInv, RelocsInv
<1> QED
  BY <1>1, LabelSymbolIsOf, UndefinedSymbolIsOf, BuildRelocIsOf, NextPassIsOf, Zenon DEF EncodeNext

-----------------------------------------------------------------------------
(* The inductive invariant, and what it says of an encoded object.         *)

TraceInv ==
  /\ WalkInv /\ SymbolsInv /\ RelocsInv
  /\ stage \in {"parse", "failed"} => pass = "reset"

(* An encoder that starts has noted nothing. *)
LEMMA NothingYet ==
  ASSUME pass = "reset"
  PROVE  WalkInv /\ SymbolsInv /\ RelocsInv
BY DEF WalkInv, SymbolsInv, RelocsInv, Afterwards, WithNames

(* Before it starts, there is nothing to be kept. *)
LEMMA NothingYetNext ==
  ASSUME pass' = "reset"
  PROVE  (WalkInv /\ SymbolsInv /\ RelocsInv)'
BY DEF WalkInv, SymbolsInv, RelocsInv, Afterwards, WithNames

(* Nor is there at first. *)
LEMMA TraceInit ==
  ASSUME Init
  PROVE  TraceInv /\ EncoderInv
<1>1. Sectioned(<< >>)
  BY EP!EmptyIsList DEF Sectioned
<1>2. EncoderInv
  BY <1>1, EP!EmptyIsList DEF Init, EncodeInit, EncoderInv, Passes, Walking
<1>3. pass = "reset"
  BY DEF Init, EncodeInit
<1> QED
  BY <1>2, <1>3, NothingYet DEF TraceInv

(* What the tools do between encodings leaves the notes inside. *)
LEMMA EncoderKeeps ==
  ASSUME EncoderInv, EncodableList(items), [Next]_vars
  PROVE  EncoderInv'
<1> DEFINE Kept == UNCHANGED <<at, cur, secs, syms, labels, fixes>>
<1>1. CASE Encoding
  BY <1>1, EncoderStep DEF Encoding
<1>2. CASE Kept /\ UNCHANGED pass
  BY <1>2 DEF EncoderInv, Walking, Inside, Writing, LabelsMade, NamesMade, RelocsMade
<1>3. CASE WriteText
  <2>1. Kept /\ pass' = "reset"
    BY <1>3 DEF WriteText
  <2> QED
    BY <2>1 DEF EncoderInv, Walking, Passes
<1>4. ParseNext \/ ParsedAll \/ Assembled \/ UNCHANGED vars => Kept /\ UNCHANGED pass
  BY DEF ParseNext, ParsedAll, Assembled, vars, encVars
<1> QED
  BY <1>1, <1>2, <1>3, <1>4 DEF Next

(* And leaves the trace. *)
LEMMA TraceKeeps ==
  ASSUME EncoderInv, EncoderInv', EncodableList(items), TraceInv, [Next]_vars
  PROVE  TraceInv'
<1>1. CASE Encoding
  <2>1. EncodeNext /\ stage' = stage /\ stage \notin {"parse", "failed"}
    BY <1>1 DEF Encoding
  <2>2. WalkInv' /\ SymbolsInv' /\ RelocsInv'
    BY <2>1, WalkKeeps, NotesKeep, Zenon DEF TraceInv
  <2>3. stage' \notin {"parse", "failed"}
    BY <2>1
  <2> QED
    BY <2>2, <2>3 DEF TraceInv
<1>2. CASE WriteText
  <2>1. pass' = "reset"
    BY <1>2 DEF WriteText
  <2> QED
    BY <2>1, NothingYetNext DEF TraceInv
<1>3. CASE ParseNext
  <2>1. stage = "parse" /\ pass' = pass
    BY <1>3 DEF ParseNext
  <2>2. pass' = "reset"
    BY <2>1 DEF TraceInv
  <2> QED
    BY <2>2, NothingYetNext DEF TraceInv
<1>4. CASE ParsedAll \/ Assembled \/ UNCHANGED vars
  <2>1. /\ UNCHANGED encVars
        /\ stage' \in {"parse", "failed"} => stage \in {"parse", "failed"}
    BY <1>4 DEF ParsedAll, Assembled, vars
  <2>2. UNCHANGED <<items, pass, at, cur, secs, syms, labels, globls, fixes>>
    BY <2>1 DEF encVars
  <2>3. WalkInv' /\ SymbolsInv' /\ RelocsInv'
    BY <2>2 DEF TraceInv, WalkInv, SymbolsInv, RelocsInv
  <2> QED
    BY <2>1, <2>2, <2>3 DEF TraceInv
<1> QED
  BY <1>1, <1>2, <1>3, <1>4 DEF Next

(* An encoded object is made of its items. *)
LEMMA EncodedIsMade ==
  ASSUME EncoderInv, EncodableList(items), TraceInv, Encoded, AllBuilt
  PROVE  (\E T, L : MadeOf(T, L)) /\ Relocated
<1>1. pass = "encoded" /\ pass \in Afterwards /\ pass \in WithNames
  BY DEF Encoded, Afterwards, WithNames
<1>2. Sectioned(secs) /\ Inside
  BY <1>1 DEF EncoderInv, Walking
<1>3. /\ NamesApart(secs) /\ FixesInside(fixes, secs) /\ RelocsInside(secs, syms)
      /\ EP!IsList(labels) /\ EP!IsList(syms)
  BY <1>2, Zenon DEF Inside, LabelsInside, SymbolsInside
<1>4. PICK T, L : Through(T, L, Len(items), items, secs, labels, fixes, globls)
  BY <1>1, Zenon DEF TraceInv, WalkInv
<1>5. WholeTrace(T)
  BY <1>2, <1>3, <1>4, Zenon DEF WholeTrace, Through
<1>6. LabelSymbols(Len(labels), labels, syms, globls) /\ OthersUndefined(Len(labels), syms)
  BY <1>1, Zenon DEF TraceInv, SymbolsInv
<1>7. MadeOf(T, L)
  BY <1>3, <1>4, <1>5, <1>6, Zenon DEF MadeOf, Through
<1>8. Relocated
  BY <1>1, <1>3, Zenon DEF Relocated, TraceInv, RelocsInv
<1> QED
  BY <1>7, <1>8, Zenon

(* So it says them, and its names resolve. *)
LEMMA EncodedProperties ==
  ASSUME EncoderInv, EncodableList(items), TraceInv
  PROVE  SaysItsItems /\ NamesResolve
<1> SUFFICES ASSUME Encoded, AllBuilt
             PROVE  /\ EachSaid /\ AllResolved(Walk.places)
                    /\ \A s \in DOMAIN syms : syms[s].sec # 0 => (syms[s].bind = "GLOBAL") = DeclaredGlobal(syms[s].name)
  BY Zenon DEF SaysItsItems, NamesResolve
<1>1. PICK T, L : MadeOf(T, L)
  BY EncodedIsMade, Zenon
<1>2. Relocated
  BY EncodedIsMade, Zenon
<1> QED
  BY <1>1, <1>2, MadeOfSays, MadeOfResolves, Zenon

(* So every branch, call and address taken does, wherever the sections     *)
(* are.                                                                    *)
LEMMA EncodedArrives ==
  ASSUME EncoderInv, EncodableList(items), TraceInv
  PROVE  BranchesArrive
<1> SUFFICES ASSUME Encoded, AllBuilt, \A j \in NamingItems : Definitions(NameIn(items[j])) # {},
                    NEW addr \in [DOMAIN secs -> Addresses]
             PROVE  AllArrive(Walk.places, Linked(addr))
  BY Zenon DEF BranchesArrive
<1>1. PICK T, L : MadeOf(T, L)
  BY EncodedIsMade, Zenon
<1>2. Relocated
  BY EncodedIsMade, Zenon
<1>3. Placeable
  <2>1. pass = "encoded"
    BY DEF Encoded
  <2>2. Sectioned(secs) /\ Inside
    BY <2>1 DEF EncoderInv, Walking
  <2> QED
    BY <2>2, Zenon DEF Placeable, Inside
<1>4. addr \in [DOMAIN secs -> Nat]
  BY AddressesAssumption
<1>5. \A k \in 1..Len(items) : Walk.places[k] = Place(T, k)
  BY <1>1, PlacesOf, Zenon
<1>6. ASSUME NEW j \in NamingItems
      PROVE  LET i == Elf!First(Definitions(NameIn(items[j])))
             IN Arrives(Linked(addr), Walk.places[j], Walk.places[i],
                        D!Decoded(Linked(addr)[Walk.places[j].sec].data, Walk.places[j].off))
  <2>1. PICK i : i = Elf!First(Definitions(NameIn(items[j])))
    OBVIOUS
  <2>2. i \in 1..Len(items)
    BY <1>1, <2>1, SymbolIsFirstLabel, Zenon
  <2>3. j \in 1..Len(items)
    <3>1. DOMAIN items = 1..Len(items)
      BY <1>1, MadeOfParts, Zenon
    <3> QED
      BY <3>1 DEF NamingItems
  <2>4. Arrives(Linked(addr), Place(T, j), Place(T, i), D!Decoded(Linked(addr)[Place(T, j).sec].data, Place(T, j).off))
    BY <1>1, <1>2, <1>3, <1>4, <2>1, ReferenceArrives, Zenon
  <2> QED
    BY <1>5, <2>1, <2>2, <2>3, <2>4, Zenon
<1> QED
  BY <1>6, Zenon DEF AllArrive

(* The invariant of everything the tools do from inputs asm.c could have   *)
(* built: the encoder's notes are inside the object, what it wrote so far  *)
(* is the items walked over so far, and what is still to be read encodes   *)
(* (enc.c:436, txt.c:486).                                                 *)
THEOREM AssemblyInvariant == InputsEncodable => (Spec => [](EncoderInv /\ ReadInv /\ TraceInv))
<1> SUFFICES ASSUME InputsEncodable
             PROVE  Spec => [](EncoderInv /\ ReadInv /\ TraceInv)
  OBVIOUS
<1>1. Init => EncoderInv /\ ReadInv /\ TraceInv
  BY TraceInit, InitReads
<1>2. EncoderInv /\ ReadInv /\ TraceInv /\ [Next]_vars => (EncoderInv /\ ReadInv /\ TraceInv)'
  <2> SUFFICES ASSUME EncoderInv, ReadInv, TraceInv, [Next]_vars
               PROVE  EncoderInv' /\ ReadInv' /\ TraceInv'
    OBVIOUS
  <2>1. EncodableList(items)
    BY DEF ReadInv
  <2>2. EncoderInv'
    BY <2>1, EncoderKeeps
  <2>3. TraceInv'
    BY <2>1, <2>2, TraceKeeps
  <2> QED
    BY <2>2, <2>3, StepReads
<1> QED
  BY <1>1, <1>2, PTL DEF Spec

(* Whatever list ivan-cc -c encodes and whatever text ivan-as reads, the   *)
(* bytes of the object are the instructions and the data of the items, one *)
(* after another in each section, and no others, as a processor decodes    *)
(* them, and a symbol stands where each label does (enc.c:66, enc.c:79,    *)
(* enc.c:126, enc.c:164).                                                  *)
THEOREM ObjectSaysItsItems == InputsEncodable => (Spec => []SaysItsItems)
<1>1. EncoderInv /\ ReadInv /\ TraceInv => SaysItsItems
  BY EncodedProperties DEF ReadInv
<1> QED
  BY <1>1, AssemblyInvariant, PTL

(* And every reference has one relocation, in the last four bytes of its   *)
(* instruction, for the symbol of its name: the first label of that name,  *)
(* or the one undefined symbol; a label is global when a .globl names it   *)
(* (enc.c:126, enc.c:436).                                                 *)
THEOREM NamesAreResolved == InputsEncodable => (Spec => []NamesResolve)
<1>1. EncoderInv /\ ReadInv /\ TraceInv => NamesResolve
  BY EncodedProperties DEF ReadInv
<1> QED
  BY <1>1, AssemblyInvariant, PTL

(* Wherever a linker puts the sections of the object of a list asm.c could *)
(* have built, and on whichever side of it the label is, a branch, a call  *)
(* or an address taken arrives at its label once rel.c has filled its      *)
(* field, if the distance fits in it (enc.c:126, rel.c:32).                *)
THEOREM EveryBranchArrives == InputsEncodable => (Spec => []BranchesArrive)
<1>1. EncoderInv /\ ReadInv /\ TraceInv => BranchesArrive
  BY EncodedArrives DEF ReadInv
<1> QED
  BY <1>1, AssemblyInvariant, PTL

(* And what the encoder notes stays inside the object at every step, and   *)
(* each object it makes is one the linker may start from, with no two      *)
(* references in the same bytes, each section once, and each global once   *)
(* if each label is (enc.c:55, enc.c:79, enc.c:436, link.c:44).            *)
THEOREM ObjectIsSound == InputsEncodable => (Spec => []ObjectSound)
<1>1. EncoderInv /\ ReadInv /\ TraceInv => ObjectSound
  BY InvIsTyped, InvIsReady DEF ObjectSound
<1> QED
  BY <1>1, AssemblyInvariant, PTL

-----------------------------------------------------------------------------
(* Strings.                                                                *)

(* The values of a character. *)
Chars == 0..255

(* A byte is spelled as itself or as an escape of it. *)
LEMMA SpelledIs ==
  ASSUME NEW byte \in Chars
  PROVE  /\ Spelled(byte) \in Seq(Chars)
         /\ \/ Spelled(byte) = <<byte>> /\ byte # Quote /\ byte # Backslash
            \/ \E c \in Chars :
                 /\ Spelled(byte) = <<Backslash, c>> /\ c # Hash /\ (c = Quote => byte = Quote)
                 /\ byte = IF c \in DOMAIN Escape THEN Escape[c] ELSE c
<1>1. /\ DOMAIN Escape = {110, 116, 114, 48} /\ Escape[110] = 10 /\ Escape[48] = 0
  BY DEF Escape
<1>2. CASE byte \in {Quote, Backslash}
  <2>1. Spelled(byte) = <<Backslash, byte>>
    BY <1>2 DEF Spelled, Quote, Backslash
  <2>2. <<Backslash, byte>> \in Seq(Chars) /\ byte \in Chars
    <3>1. Backslash \in Chars /\ byte \in Chars
      BY DEF Backslash, Chars
    <3> QED
      BY <3>1
  <2>3. byte = IF byte \in DOMAIN Escape THEN Escape[byte] ELSE byte
    BY <1>1, <1>2 DEF Quote, Backslash
  <2>4. byte # Hash /\ (byte = Quote => byte = Quote)
    BY <1>2 DEF Quote, Backslash, Hash
  <2> QED
    BY <2>1, <2>2, <2>3, <2>4, Zenon
<1>3. CASE byte = 0
  <2>1. Spelled(byte) = <<Backslash, 48>>
    BY <1>3 DEF Spelled, Quote, Backslash
  <2>2. <<Backslash, 48>> \in Seq(Chars) /\ 48 \in Chars
    <3>1. Backslash \in Chars /\ 48 \in Chars
      BY DEF Backslash, Chars
    <3> QED
      BY <3>1
  <2>3. byte = IF 48 \in DOMAIN Escape THEN Escape[48] ELSE 48
    BY <1>1, <1>3 DEF Quote, Backslash
  <2>4. 48 # Hash /\ (48 = Quote => byte = Quote)
    BY <1>3 DEF Quote, Backslash, Hash
  <2> QED
    BY <2>1, <2>2, <2>3, <2>4, Zenon
<1>4. CASE byte = 10
  <2>1. Spelled(byte) = <<Backslash, 110>>
    BY <1>4 DEF Spelled, Quote, Backslash
  <2>2. <<Backslash, 110>> \in Seq(Chars) /\ 110 \in Chars
    <3>1. Backslash \in Chars /\ 110 \in Chars
      BY DEF Backslash, Chars
    <3> QED
      BY <3>1
  <2>3. byte = IF 110 \in DOMAIN Escape THEN Escape[110] ELSE 110
    BY <1>1, <1>4 DEF Quote, Backslash
  <2>4. 110 # Hash /\ (110 = Quote => byte = Quote)
    BY <1>4 DEF Quote, Backslash, Hash
  <2> QED
    BY <2>1, <2>2, <2>3, <2>4, Zenon
<1>5. CASE byte \notin {Quote, Backslash, 0, 10}
  <2>1. Spelled(byte) = <<byte>>
    BY <1>5 DEF Spelled
  <2> QED
    BY <1>5, <2>1
<1> QED
  BY <1>2, <1>3, <1>4, <1>5

(* The characters spell the bytes, byte i at P[i], and a quote follows.    *)
Spells(chars, bytes, P) ==
  /\ P \in [1..(Len(bytes) + 1) -> Nat \ {0}] /\ P[1] = 1
  /\ \A i \in 1..Len(bytes) :
       /\ P[i + 1] = P[i] + Len(Spelled(bytes[i]))
       /\ \A k \in 1..Len(Spelled(bytes[i])) : chars[P[i] + k - 1] = Spelled(bytes[i])[k]
  /\ P[Len(bytes) + 1] <= Len(chars) /\ chars[P[Len(bytes) + 1]] = Quote

(* All characters before that quote are of the spelling of a byte. *)
OnlySpells(chars, bytes, P) ==
  \A x \in Nat \ {0} : x < P[Len(bytes) + 1] =>
    \E i \in 1..Len(bytes) : \E k \in 1..Len(Spelled(bytes[i])) : chars[x] = Spelled(bytes[i])[k]

(* After the characters of s comes a quote. *)
QuoteAfter(chars, s) ==
  /\ chars \in Seq(Chars) /\ Len(s) \in Nat
  /\ Len(s) + 1 <= Len(chars) /\ chars[Len(s) + 1] = Quote
  /\ \A x \in 1..Len(s) : chars[x] = s[x]

(* Whatever comes then. *)
LEMMA QuoteBehind ==
  ASSUME NEW s \in Seq(Chars), NEW rest \in Seq(Chars), Quote \in Chars
  PROVE  QuoteAfter(s \o <<Quote>> \o rest, s)
<1>1. PICK q : q \in Seq(Chars) /\ q = <<Quote>> /\ Len(q) = 1 /\ q[1] = Quote
  <2>1. <<Quote>> \in Seq(Chars)
    OBVIOUS
  <2>2. Len(<<Quote>>) = 1 /\ <<Quote>>[1] = Quote
    OBVIOUS
  <2> QED
    BY <2>1, <2>2, Zenon
<1>2. PICK u : u = s \o q
  OBVIOUS
<1>3. u \in Seq(Chars) /\ EP!Behind(u, s, q)
  BY <1>1, <1>2, EP!BehindIs, Zenon
<1>4. PICK chars : chars = u \o rest
  OBVIOUS
<1>5. chars \in Seq(Chars) /\ EP!Behind(chars, u, rest)
  BY <1>3, <1>4, EP!BehindIs, Zenon
<1>6. Len(s) \in Nat /\ Len(u) = Len(s) + 1 /\ Len(s) + 1 <= Len(chars) /\ 1 \in 1..Len(q)
  BY <1>1, <1>3, <1>5 DEF EP!Behind
<1>7. u[Len(s) + 1] = Quote
  BY <1>1, <1>3, <1>6, Zenon DEF EP!Behind
<1>8. Len(s) + 1 \in 1..Len(u) /\ \A x \in 1..Len(s) : x \in 1..Len(u)
  BY <1>6
<1>9. chars[Len(s) + 1] = Quote
  BY <1>5, <1>7, <1>8, Zenon DEF EP!Behind
<1>10. \A x \in 1..Len(s) : chars[x] = s[x]
  BY <1>3, <1>5, <1>8, Zenon DEF EP!Behind
<1>11. chars = s \o <<Quote>> \o rest
  BY <1>1, <1>2, <1>4, Zenon
<1> QED
  BY <1>5, <1>6, <1>9, <1>10, <1>11, Zenon DEF QuoteAfter

(* FlattenSeq has all of them. *)
LEMMA FlattenIs ==
  ASSUME NEW S, NEW seqs \in Seq(Seq(S)), Len(seqs) # 0
  PROVE  \E f : EP!Collected(f, seqs, S) /\ FlattenSeq(seqs) = f[Len(seqs)]
<1> DEFINE f == CHOOSE f : EP!Flattens(f, seqs)
<1>1. Len(seqs) \in Nat
  OBVIOUS
<1>2. EP!Flattens(f, seqs)
  BY <1>1, EP!FlattenExists, Zenon
<1>3. FlattenSeq(seqs) = f[Len(seqs)]
  BY <1>1 DEF FlattenSeq, EP!Flattens
<1> HIDE DEF f
<1>4. EP!Collected(f, seqs, S)
  BY <1>2, EP!FlattensCollects, Zenon
<1> QED
  BY <1>3, <1>4, Zenon

(* So does what Spell makes of them, whatever comes after the quote. *)
LEMMA SpellSpells ==
  ASSUME NEW bytes \in Seq(Chars), NEW rest \in Seq(Chars),
         NEW chars, chars = Spell(bytes) \o <<Quote>> \o rest
  PROVE  chars \in Seq(Chars) /\ \E P : Spells(chars, bytes, P) /\ OnlySpells(chars, bytes, P)
<1> DEFINE seqs == [j \in DOMAIN bytes |-> Spelled(bytes[j])]
           n == Len(bytes)
<1>1. n \in Nat /\ DOMAIN bytes = 1..n /\ \A j \in 1..n : bytes[j] \in Chars
  BY EP!SeqParts, Zenon
<1>2. \A j \in 1..n : Spelled(bytes[j]) \in Seq(Chars)
  BY <1>1, SpelledIs, Zenon
<1>3. seqs \in Seq(Seq(Chars)) /\ Len(seqs) = n
  <2>1. seqs \in [1..n -> Seq(Chars)]
    BY <1>1, <1>2
  <2> HIDE DEF seqs
  <2> QED
    BY <1>1, <2>1, EP!FunctionIsSeq, Zenon
<1>4. \A j \in 1..n : seqs[j] = Spelled(bytes[j])
  BY <1>1
<1>5. Spell(bytes) = FlattenSeq(seqs)
  BY DEF Spell
<1>6. Quote \in Chars
  BY DEF Quote, Chars
<1> HIDE DEF seqs, n
<1>7. CASE n = 0
  <2>1. Spell(bytes) = << >>
    BY <1>3, <1>5, <1>7 DEF FlattenSeq
  <2>2. chars \in Seq(Chars) /\ Len(chars) \in Nat /\ 1 <= Len(chars) /\ chars[1] = Quote
    BY <1>6, <2>1
  <2> DEFINE P == [i \in 1..(n + 1) |-> 1]
  <2>3. P \in [1..(n + 1) -> Nat \ {0}] /\ P[1] = 1 /\ P[n + 1] = 1
    BY <1>7
  <2> HIDE DEF P
  <2>4. \A i \in 1..n : FALSE
    BY <1>7
  <2>5. Spells(chars, bytes, P)
    BY <2>2, <2>3, <2>4 DEF Spells, n
  <2>6. OnlySpells(chars, bytes, P)
    BY <2>3 DEF OnlySpells, n
  <2> QED
    BY <2>2, <2>5, <2>6, Zenon
<1>8. CASE n # 0
  <2>1. PICK f : EP!Collected(f, seqs, Chars) /\ Spell(bytes) = f[n]
    BY <1>3, <1>5, <1>8, FlattenIs, Zenon
  <2>2. n \in 1..n /\ \A i \in 1..n : i <= n
    BY <1>1, <1>8
  <2>3. \A i \in 1..n : seqs[i] \in Seq(Chars)
    BY <1>2, <1>4
  <2>4. \A i \in 1..n : /\ EP!LenBefore(f, i) \in Nat /\ Len(f[i]) = EP!LenBefore(f, i) + Len(seqs[i]) /\ Len(f[i]) <= Len(f[n])
                        /\ \A x \in 1..Len(seqs[i]) : f[n][EP!LenBefore(f, i) + x] = seqs[i][x]
    <3>1. \A i \in 1..n : EP!Within(f, seqs, i, n)
      BY <1>3, <2>1, <2>2, EP!PieceAt, Zenon
    <3> QED
      BY <3>1, Zenon DEF EP!Within
  <2>5. \A x \in 1..Len(f[n]) : \E i \in 1..n : x - EP!LenBefore(f, i) \in 1..Len(seqs[i]) /\ f[n][x] = seqs[i][x - EP!LenBefore(f, i)]
    <3>1. \A x \in 1..Len(f[n]) : EP!OfPiece(f, seqs, n, x)
      BY <1>3, <2>1, <2>2, EP!OnlyPieces, Zenon
    <3> QED
      BY <3>1, Zenon DEF EP!OfPiece
  <2>6. f[n] \in Seq(Chars) /\ \A i \in 1..n : f[i] \in Seq(Chars) /\ Len(f[i]) \in Nat
    <3>1. \A i \in 1..n : f[i] \in Seq(Chars)
      BY <1>3, <2>1 DEF EP!Collected
    <3> QED
      BY <2>2, <3>1, EP!SeqParts, Zenon
  <2>7. PICK m : m = Len(f[n])
    OBVIOUS
  <2>8. /\ chars \in Seq(Chars) /\ m \in Nat /\ m + 1 <= Len(chars) /\ chars[m + 1] = Quote
        /\ \A x \in 1..m : chars[x] = f[n][x]
    <3>1. QuoteAfter(Spell(bytes) \o <<Quote>> \o rest, Spell(bytes))
      BY <1>6, <2>1, <2>6, QuoteBehind, Zenon
    <3>2. QuoteAfter(chars, f[n])
      BY <2>1, <3>1, Zenon
    <3> QED
      BY <2>7, <3>2, Zenon DEF QuoteAfter
  <2> DEFINE P == [i \in 1..(n + 1) |-> IF i = n + 1 THEN m + 1 ELSE EP!LenBefore(f, i) + 1]
  <2>9. /\ P \in [1..(n + 1) -> Nat \ {0}] /\ P[n + 1] = m + 1
        /\ \A i \in 1..n : P[i] = EP!LenBefore(f, i) + 1
    <3>1. \A i \in 1..n : EP!LenBefore(f, i) \in Nat
      BY <2>4, Zenon
    <3>2. \A i \in 1..n : i # n + 1 /\ i \in 1..(n + 1)
      BY <1>1
    <3>3. \A i \in 1..(n + 1) : i # n + 1 => i \in 1..n
      BY <1>1
    <3>4. n + 1 \in 1..(n + 1) /\ m + 1 \in Nat \ {0}
      BY <1>1, <2>8
    <3>5. \A i \in 1..n : EP!LenBefore(f, i) + 1 \in Nat \ {0}
      BY <3>1
    <3> QED
      BY <3>2, <3>3, <3>4, <3>5, Zenon
  <2> HIDE DEF P
  <2>10. ASSUME NEW i \in 1..n
         PROVE  P[i + 1] = P[i] + Len(Spelled(bytes[i]))
    <3>1. P[i] = EP!LenBefore(f, i) + 1 /\ Len(f[i]) = EP!LenBefore(f, i) + Len(Spelled(bytes[i]))
      BY <1>4, <2>4, <2>9
    <3>2. P[i + 1] = Len(f[i]) + 1
      <4>1. CASE i = n
        BY <2>7, <2>9, <4>1
      <4>2. CASE i # n
        <5>1. i + 1 \in 1..n /\ i + 1 # 1 /\ (i + 1) - 1 = i
          BY <1>1, <4>2
        <5>2. EP!LenBefore(f, i + 1) = Len(f[i])
          BY <5>1 DEF EP!LenBefore
        <5> QED
          BY <2>9, <5>1, <5>2
      <4> QED
        BY <4>1, <4>2
    <3>3. Len(Spelled(bytes[i])) \in Nat
      BY <1>2
    <3> QED
      BY <2>4, <3>1, <3>2, <3>3
  <2>11. ASSUME NEW i \in 1..n, NEW k \in 1..Len(Spelled(bytes[i]))
         PROVE  chars[P[i] + k - 1] = Spelled(bytes[i])[k]
    <3>1. Len(Spelled(bytes[i])) \in Nat /\ seqs[i] = Spelled(bytes[i])
      BY <1>2, <1>4
    <3>2. f[n][EP!LenBefore(f, i) + k] = Spelled(bytes[i])[k]
      BY <2>4, <3>1
    <3>3. P[i] + k - 1 = EP!LenBefore(f, i) + k /\ EP!LenBefore(f, i) + k \in 1..m
      BY <2>4, <2>7, <2>9, <3>1
    <3> QED
      BY <2>8, <3>2, <3>3
  <2>12. P[1] = 1
    BY <2>2, <2>9, <1>8, <1>1 DEF EP!LenBefore
  <2>13. Spells(chars, bytes, P)
    BY <2>8, <2>9, <2>10, <2>11, <2>12, Zenon DEF Spells, n
  <2>14. ASSUME NEW x \in Nat \ {0}, x < P[n + 1]
         PROVE  \E i \in 1..n : \E k \in 1..Len(Spelled(bytes[i])) : chars[x] = Spelled(bytes[i])[k]
    <3>1. x \in 1..m
      BY <2>8, <2>9, <2>14
    <3>2. PICK i \in 1..n : x - EP!LenBefore(f, i) \in 1..Len(seqs[i]) /\ f[n][x] = seqs[i][x - EP!LenBefore(f, i)]
      BY <2>5, <2>7, <3>1
    <3> QED
      BY <1>4, <2>8, <3>1, <3>2
  <2>15. OnlySpells(chars, bytes, P)
    BY <2>14, Zenon DEF OnlySpells, n
  <2> QED
    BY <2>8, <2>13, <2>15, Zenon
<1> QED
  BY <1>7, <1>8

(* Byte i + 1 is spelled behind byte i, and none behind the quote. *)
NextByte(bytes, P, i) ==
  /\ P[i] \in Nat \ {0} /\ P[i + 1] \in Nat \ {0} /\ Len(Spelled(bytes[i])) \in Nat
  /\ P[i + 1] = P[i] + Len(Spelled(bytes[i])) /\ P[i + 1] <= P[Len(bytes) + 1]

(* So the characters of a spelling stand. *)
LEMMA SpellsForward ==
  ASSUME NEW bytes \in Seq(Chars), NEW chars, NEW P, Spells(chars, bytes, P), NEW i \in 1..Len(bytes)
  PROVE  NextByte(bytes, P, i)
<1> DEFINE n == Len(bytes)
           last == P[n + 1]
<1>1. n \in Nat /\ \A k \in 1..n : bytes[k] \in Chars
  BY EP!SeqParts, Zenon
<1> DEFINE Over == {k \in Nat : k + i <= n /\ P[n + 1 - k] > last}
<1>2. \A k \in 1..n : Len(Spelled(bytes[k])) \in Nat
  <2> SUFFICES ASSUME NEW k \in 1..n
               PROVE  Len(Spelled(bytes[k])) \in Nat
    OBVIOUS
  <2>1. Spelled(bytes[k]) \in Seq(Chars)
    BY <1>1, SpelledIs
  <2> QED
    BY <2>1
<1>3. P \in [1..(n + 1) -> Nat \ {0}] /\ \A k \in 1..n : P[k + 1] = P[k] + Len(Spelled(bytes[k]))
  BY Zenon DEF Spells
<1>4. last \in Nat \ {0}
  BY <1>1, <1>3
<1> HIDE DEF n, last
<1>5. Over = {}
  <2> SUFFICES ASSUME Over # {}
               PROVE  FALSE
    OBVIOUS
  <2>1. Over \in SUBSET Nat
    OBVIOUS
  <2>2. PICK k \in Over : \A l \in Over : k <= l
    <3> HIDE DEF Over
    <3> QED
      BY <2>1, EP!LeastExists, Zenon
  <2>3. k \in Nat /\ k + i <= n /\ P[n + 1 - k] > last
    OBVIOUS
  <2>4. k # 0
    <3>1. P[n + 1 - 0] = last
      BY <1>1 DEF last
    <3> QED
      BY <1>4, <2>3, <3>1
  <2>5. k - 1 \in Nat /\ (k - 1) + i <= n /\ ~(k <= k - 1) /\ n + 1 - (k - 1) = (n + 1 - k) + 1 /\ n + 1 - k \in 1..n
    BY <1>1, <2>3, <2>4 DEF n
  <2>6. ~(P[n + 1 - (k - 1)] > last)
    BY <2>2, <2>5
  <2>7. PICK q \in 1..n : q = n + 1 - k
    BY <2>5
  <2>8. P[q] > last /\ ~(P[q + 1] > last)
    BY <2>3, <2>5, <2>6, <2>7, Zenon
  <2>9. q \in 1..(n + 1)
    BY <1>1
  <2>10. P[q] \in Nat
    BY <1>3, <2>9
  <2>11. P[q + 1] = P[q] + Len(Spelled(bytes[q])) /\ Len(Spelled(bytes[q])) \in Nat
    BY <1>2, <1>3, Zenon
  <2> HIDE DEF Over
  <2> QED
    BY <1>4, <2>8, <2>10, <2>11
<1>6. n - i \in Nat /\ (n - i) + i <= n /\ n + 1 - (n - i) = i + 1 /\ i + 1 \in 1..(n + 1) /\ i \in 1..(n + 1) /\ i \in 1..n
  BY <1>1 DEF n
<1>7. ~(P[n + 1 - (n - i)] > last)
  BY <1>5, <1>6
<1>8. P[i + 1] \in Nat \ {0} /\ P[i] \in Nat \ {0}
  BY <1>3, <1>6
<1>9. P[i + 1] <= last
  BY <1>4, <1>6, <1>7, <1>8
<1>10. P[i + 1] = P[i] + Len(Spelled(bytes[i])) /\ Len(Spelled(bytes[i])) \in Nat
  BY <1>2, <1>3, <1>6, Zenon
<1> QED
  BY <1>8, <1>9, <1>10, Zenon DEF NextByte, n, last

(* What txt.c takes for a comment starts behind the quote, unless both a   *)
(* quote and a # are spelled.                                              *)
LEMMA CommentIsBehind ==
  ASSUME NEW bytes \in Seq(Chars), NEW chars \in Seq(Chars), NEW P,
         Spells(chars, bytes, P), OnlySpells(chars, bytes, P),
         ~({Quote, Hash} \subseteq Range(bytes))
  PROVE  StripComment(chars) \in Seq(Chars) /\ Spells(StripComment(chars), bytes, P)
<1> DEFINE n == Len(bytes)
           last == P[n + 1]
           quotes(j) == {l \in 1..j : chars[l] = Quote}
           outside == {j \in DOMAIN chars : chars[j] = Hash /\ Cardinality(quotes(j)) % 2 = 1}
           m == IF outside = {} THEN Len(chars) ELSE Elf!First(outside) - 1
<1>1. n \in Nat /\ \A i \in 1..n : bytes[i] \in Chars /\ bytes[i] \in Range(bytes)
  <2>1. n \in Nat /\ DOMAIN bytes = 1..n /\ \A i \in 1..n : bytes[i] \in Chars
    BY EP!SeqParts, Zenon
  <2>2. \A i \in DOMAIN bytes : bytes[i] \in Range(bytes)
    BY Zenon DEF Range
  <2> QED
    BY <2>1, <2>2, Zenon
<1>2. Len(chars) \in Nat /\ DOMAIN chars = 1..Len(chars) /\ \A x \in 1..Len(chars) : chars[x] \in Chars
  BY EP!SeqParts, Zenon
<1>3. last \in Nat \ {0} /\ last <= Len(chars) /\ chars[last] = Quote
  BY <1>1 DEF Spells
<1>4. \A x \in Nat \ {0} : x < last => \E i \in 1..n : \E k \in 1..Len(Spelled(bytes[i])) : chars[x] = Spelled(bytes[i])[k]
  BY DEF OnlySpells
<1>5. ASSUME NEW x \in Nat \ {0}, x < last
      PROVE  (chars[x] = Hash => Hash \in Range(bytes)) /\ (chars[x] = Quote => Quote \in Range(bytes))
  <2>1. PICK i \in 1..n : \E k \in 1..Len(Spelled(bytes[i])) : chars[x] = Spelled(bytes[i])[k]
    BY <1>4, <1>5
  <2>2. PICK k \in 1..Len(Spelled(bytes[i])) : chars[x] = Spelled(bytes[i])[k]
    BY <2>1
  <2>3. PICK byte \in Chars : byte = bytes[i] /\ byte \in Range(bytes)
    BY <1>1
  <2>4. CASE Spelled(byte) = <<byte>>
    <3>1. chars[x] = byte
      BY <2>2, <2>3, <2>4
    <3> QED
      BY <2>3, <3>1
  <2>5. CASE \E c \in Chars : Spelled(byte) = <<Backslash, c>> /\ c # Hash /\ (c = Quote => byte = Quote)
    <3>1. PICK c \in Chars : Spelled(byte) = <<Backslash, c>> /\ c # Hash /\ (c = Quote => byte = Quote)
      BY <2>5
    <3>2. chars[x] \in {Backslash, c}
      BY <2>2, <2>3, <3>1
    <3> QED
      BY <2>3, <3>1, <3>2 DEF Backslash, Hash, Quote
  <2>6. \/ Spelled(byte) = <<byte>>
        \/ \E c \in Chars : Spelled(byte) = <<Backslash, c>> /\ c # Hash /\ (c = Quote => byte = Quote)
    BY SpelledIs, Zenon
  <2> QED
    BY <2>4, <2>5, <2>6
<1>6. StripComment(chars) = SubSeq(chars, 1, m)
  BY DEF StripComment
<1>7. ASSUME NEW j \in outside
      PROVE  j > last
  <2> SUFFICES ASSUME j <= last
               PROVE  FALSE
    BY <1>2, <1>3
  <2>1. j \in Nat \ {0} /\ chars[j] = Hash /\ Cardinality(quotes(j)) % 2 = 1
    BY <1>2
  <2>2. j < last
    BY <1>3, <2>1 DEF Hash, Quote
  <2>3. Hash \in Range(bytes)
    BY <1>5, <2>1, <2>2
  <2>4. Quote \notin Range(bytes)
    BY <2>3
  <2>5. \A l \in 1..j : l \in Nat \ {0} /\ l < last
    BY <1>3, <2>1, <2>2
  <2>6. quotes(j) = {}
    BY <1>5, <2>4, <2>5
  <2>7. Cardinality(quotes(j)) = 0
    BY <2>6, FS_EmptySet, Zenon
  <2> QED
    BY <2>1, <2>7
<1>8. m \in Nat /\ last <= m /\ m <= Len(chars)
  <2>1. CASE outside = {}
    BY <1>2, <1>3, <2>1
  <2>2. CASE outside # {}
    <3>1. outside \in SUBSET (Nat \ {0})
      BY <1>2
    <3>2. Elf!First(outside) \in outside
      <4> HIDE DEF outside
      <4> QED
        BY <2>2, <3>1, SameFirst, EP!FirstIsLeast, Zenon
    <3>3. Elf!First(outside) > last /\ Elf!First(outside) \in 1..Len(chars)
      BY <1>2, <1>7, <3>2
    <3>4. m = Elf!First(outside) - 1
      BY <2>2
    <3> HIDE DEF outside, m
    <3> QED
      BY <1>2, <1>3, <3>3, <3>4
  <2> QED
    BY <2>1, <2>2
<1> HIDE DEF m, outside
<1>9. PICK s : s = SubSeq(chars, 1, m)
  OBVIOUS
<1>10. s \in Seq(Chars) /\ Len(s) = m /\ \A x \in 1..m : s[x] = chars[x]
  <2>1. /\ s \in Seq(Chars) /\ Len(s) = IF 1 <= m THEN m - 1 + 1 ELSE 0
        /\ \A x \in 1..(m - 1 + 1) : s[x] = chars[1 + x - 1]
    BY <1>2, <1>8, <1>9, SubSeqProperties
  <2> QED
    BY <1>3, <1>8, <2>1
<1>11. \A i \in 1..n : P[i + 1] <= last /\ P[i] \in Nat \ {0}
  <2>1. \A i \in 1..n : NextByte(bytes, P, i)
    BY SpellsForward, Zenon
  <2> QED
    BY <2>1, Zenon DEF NextByte
<1>12. ASSUME NEW i \in 1..n, NEW k \in 1..Len(Spelled(bytes[i]))
       PROVE  s[P[i] + k - 1] = Spelled(bytes[i])[k]
  <2>1. Spelled(bytes[i]) \in Seq(Chars)
    BY <1>1, SpelledIs
  <2>2. P[i + 1] = P[i] + Len(Spelled(bytes[i])) /\ chars[P[i] + k - 1] = Spelled(bytes[i])[k]
    BY DEF Spells
  <2>3. Len(Spelled(bytes[i])) \in Nat /\ P[i + 1] <= last /\ P[i] \in Nat \ {0}
    BY <1>11, <2>1, EP!SeqParts, Zenon
  <2>4. P[i] + k - 1 \in 1..m
    BY <1>3, <1>8, <2>2, <2>3
  <2> QED
    BY <1>10, <2>2, <2>4
<1>13. s[last] = Quote /\ last <= Len(s)
  BY <1>3, <1>8, <1>10
<1>14. /\ P \in [1..(n + 1) -> Nat \ {0}] /\ P[1] = 1
       /\ \A i \in 1..n : P[i + 1] = P[i] + Len(Spelled(bytes[i]))
  BY Zenon DEF Spells
<1>15. Spells(s, bytes, P)
  BY <1>12, <1>13, <1>14, Zenon DEF Spells
<1> QED
  BY <1>6, <1>9, <1>10, <1>15, Zenon

(* What the parser makes of the characters from j on, when F is what it    *)
(* makes of those from later ones on.                                      *)
Taken(F, chars, j) ==
  IF j > Len(chars) \/ chars[j] = Quote THEN << >>
  ELSE IF chars[j] # Backslash \/ j = Len(chars) THEN <<chars[j]>> \o F[j + 1]
  ELSE <<(IF chars[j + 1] \in DOMAIN Escape THEN Escape[chars[j + 1]] ELSE chars[j + 1])>> \o F[j + 2]

(* The one recursive function of Unescape, and such a function from p on. *)
Takes(F, chars) == F = [j \in 1..(Len(chars) + 2) |-> Taken(F, chars, j)]
TakesFrom(F, chars, p) == F = [j \in p..(Len(chars) + 2) |-> Taken(F, chars, j)]

(* There is one. *)
LEMMA UnescapeExists ==
  ASSUME NEW chars, Len(chars) \in Nat
  PROVE  \E F : Takes(F, chars)
<1> DEFINE n == Len(chars)
           Wrong == {d \in Nat : d <= n + 2 /\ ~ \E F : TakesFrom(F, chars, n + 3 - d)}
<1>1. Wrong = {}
  <2> SUFFICES ASSUME Wrong # {}
               PROVE  FALSE
    OBVIOUS
  <2>1. Wrong \in SUBSET Nat
    OBVIOUS
  <2>2. PICK d \in Wrong : \A m \in Wrong : d <= m
    <3> HIDE DEF Wrong
    <3> QED
      BY <2>1, EP!LeastExists, Zenon
  <2>3. d \in Nat /\ d <= n + 2 /\ ~ \E F : TakesFrom(F, chars, n + 3 - d)
    OBVIOUS
  <2>4. PICK p \in Nat : p = n + 3 - d
    BY <2>3
  <2>5. CASE d = 0
    <3> DEFINE g == [j \in p..(n + 2) |-> chars]
    <3>1. \A j \in p..(n + 2) : FALSE
      BY <2>4, <2>5
    <3>2. g = [j \in p..(n + 2) |-> Taken(g, chars, j)]
      BY <3>1
    <3> HIDE DEF g
    <3> QED
      BY <2>3, <2>4, <3>2, Zenon DEF TakesFrom
  <2>6. CASE d # 0
    <3>1. d - 1 \in Nat /\ d - 1 <= n + 2 /\ ~(d <= d - 1) /\ n + 3 - (d - 1) = p + 1 /\ p \in p..(n + 2)
      BY <2>3, <2>4, <2>6
    <3>2. PICK f : TakesFrom(f, chars, p + 1)
      <4>1. d - 1 \notin Wrong
        BY <2>2, <3>1, Zenon
      <4>2. \E f : TakesFrom(f, chars, n + 3 - (d - 1))
        BY <3>1, <4>1
      <4> QED
        BY <3>1, <4>2, Zenon
    <3> DEFINE g == [j \in p..(n + 2) |-> IF j = p THEN Taken(f, chars, p) ELSE f[j]]
    <3>3. \A j \in p..(n + 2) : j # p => j \in (p + 1)..(n + 2)
      BY <2>4
    <3>4. \A j \in p..(n + 2) : ~(j > n) => j + 1 \in p..(n + 2) /\ j + 1 # p /\ (j # n => j + 2 \in p..(n + 2) /\ j + 2 # p)
      BY <2>4
    <3>5. g[p] = Taken(f, chars, p) /\ \A j \in p..(n + 2) : j # p => g[j] = f[j]
      BY <3>1, Zenon
    <3>6. \A j \in (p + 1)..(n + 2) : f[j] = Taken(f, chars, j)
      BY <3>2, Zenon DEF TakesFrom
    <3>7. g = [j \in p..(n + 2) |-> g[j]]
      OBVIOUS
    <3> HIDE DEF g
    <3>8. ASSUME NEW j \in p..(n + 2)
          PROVE  g[j] = Taken(g, chars, j)
      <4>1. ~(j > n) => f[j + 1] = g[j + 1] /\ (j # n => f[j + 2] = g[j + 2])
        BY <3>4, <3>5, Zenon
      <4>2. Taken(f, chars, j) = Taken(g, chars, j)
        BY <4>1, Zenon DEF Taken
      <4>3. CASE j = p
        BY <3>5, <4>2, <4>3, Zenon
      <4>4. CASE j # p
        BY <3>3, <3>5, <3>6, <4>2, <4>4, Zenon
      <4> QED
        BY <4>3, <4>4
    <3>9. g = [j \in p..(n + 2) |-> Taken(g, chars, j)]
      BY <3>7, <3>8, Zenon
    <3> QED
      BY <2>3, <2>4, <3>9, Zenon DEF TakesFrom
  <2> QED
    BY <2>5, <2>6
<1>2. n + 2 \in Nat /\ n + 2 <= n + 2 /\ n + 3 - (n + 2) = 1
  OBVIOUS
<1>3. n + 2 \notin Wrong
  BY <1>1, Zenon
<1>4. \E F : TakesFrom(F, chars, n + 3 - (n + 2))
  BY <1>2, <1>3
<1> QED
  BY <1>2, <1>4, Zenon DEF Takes, TakesFrom

(* The bytes from i on. *)
Rest(bytes, i) == [x \in 1..(Len(bytes) + 1 - i) |-> bytes[x + i - 1]]

(* Before it, byte i and those from the next on. *)
LEMMA RestIs ==
  ASSUME NEW bytes \in Seq(Chars), NEW i \in 1..Len(bytes)
  PROVE  <<bytes[i]>> \o Rest(bytes, i + 1) = Rest(bytes, i)
<1> DEFINE n == Len(bytes)
<1>1. n \in Nat /\ \A x \in 1..n : bytes[x] \in Chars
  BY EP!SeqParts, Zenon
<1>2. PICK r : r = Rest(bytes, i + 1)
  OBVIOUS
<1>3. PICK k \in Nat : k = n - i
  BY <1>1
<1>4. n + 1 - (i + 1) = k /\ n + 1 - i = k + 1 /\ \A x \in 1..k : x + (i + 1) - 1 = x + i
  BY <1>1, <1>3
<1>5. r = [x \in 1..k |-> bytes[x + i]]
  BY <1>2, <1>4 DEF Rest
<1>6. \A x \in 1..k : x + i \in 1..n
  BY <1>1, <1>3
<1>7. r \in [1..k -> Chars] /\ \A x \in 1..k : r[x] = bytes[x + i]
  BY <1>1, <1>5, <1>6
<1>8. r \in Seq(Chars) /\ Len(r) = k
  BY <1>3, <1>7, EP!FunctionIsSeq, Zenon
<1>9. PICK q : q = <<bytes[i]>> /\ q \in Seq(Chars) /\ Len(q) = 1 /\ q[1] = bytes[i]
  <2>1. <<bytes[i]>> \in Seq(Chars)
    BY <1>1
  <2>2. Len(<<bytes[i]>>) = 1 /\ <<bytes[i]>>[1] = bytes[i]
    OBVIOUS
  <2> QED
    BY <2>1, <2>2, Zenon
<1>10. PICK u : u = q \o r
  OBVIOUS
<1>11. u \in Seq(Chars) /\ EP!Behind(u, q, r)
  BY <1>8, <1>9, <1>10, EP!BehindIs, Zenon
<1>12. Len(u) = 1 + k /\ u[1] = bytes[i] /\ \A x \in 1..k : u[1 + x] = bytes[x + i]
  <2>1. 1 \in 1..Len(q)
    BY <1>9
  <2>2. Len(u) = Len(q) + Len(r) /\ u[1] = q[1] /\ \A x \in 1..Len(r) : u[Len(q) + x] = r[x]
    BY <1>11, <2>1, Zenon DEF EP!Behind
  <2> QED
    BY <1>7, <1>8, <1>9, <2>2, Zenon
<1>13. DOMAIN u = 1..(k + 1) /\ u = [x \in 1..(k + 1) |-> u[x]]
  <2>1. DOMAIN u = 1..Len(u) /\ u = [x \in 1..Len(u) |-> u[x]]
    BY <1>11
  <2>2. 1 + k = k + 1
    BY <1>3
  <2> QED
    BY <1>12, <2>1, <2>2, Zenon
<1>14. ASSUME NEW x \in 1..(k + 1)
       PROVE  u[x] = bytes[x + i - 1]
  <2>1. CASE x = 1
    BY <1>12, <2>1
  <2>2. CASE x # 1
    <3>1. PICK y \in 1..k : x = 1 + y
      <4>1. x - 1 \in 1..k /\ x = 1 + (x - 1)
        BY <1>3, <2>2
      <4> QED
        BY <4>1
    <3>2. x + i - 1 = y + i
      BY <3>1
    <3> QED
      BY <1>12, <3>1, <3>2, Zenon
  <2> QED
    BY <2>1, <2>2
<1>15. u = [x \in 1..(k + 1) |-> bytes[x + i - 1]]
  BY <1>13, <1>14, Zenon
<1>16. Rest(bytes, i) = [x \in 1..(k + 1) |-> bytes[x + i - 1]]
  BY <1>4 DEF Rest
<1> QED
  BY <1>2, <1>9, <1>10, <1>15, <1>16, Zenon

(* The parser takes a spelling for the bytes it spells. *)
LEMMA UnescapeIs ==
  ASSUME NEW bytes \in Seq(Chars), NEW chars \in Seq(Chars), NEW P, Spells(chars, bytes, P)
  PROVE  Unescape(chars) = bytes
<1> DEFINE F == CHOOSE F : Takes(F, chars)
           n == Len(bytes)
<1>1. n \in Nat /\ Len(chars) \in Nat /\ \A i \in 1..n : bytes[i] \in Chars
  BY EP!SeqParts, Zenon
<1>2. Takes(F, chars)
  BY <1>1, UnescapeExists, Zenon
<1>3. Unescape(chars) = F[1]
  BY DEF Unescape, Takes, Taken
<1> HIDE DEF F
<1>4. \A j \in 1..(Len(chars) + 2) : F[j] = Taken(F, chars, j)
  BY <1>2, Zenon DEF Takes
<1>5. /\ P \in [1..(n + 1) -> Nat \ {0}] /\ P[1] = 1
      /\ \A i \in 1..n : P[i + 1] = P[i] + Len(Spelled(bytes[i]))
      /\ \A i \in 1..n : \A k \in 1..Len(Spelled(bytes[i])) : chars[P[i] + k - 1] = Spelled(bytes[i])[k]
      /\ P[n + 1] <= Len(chars) /\ chars[P[n + 1]] = Quote
  BY Zenon DEF Spells
<1>6. \A i \in 1..n : NextByte(bytes, P, i)
  BY SpellsForward, Zenon
<1> DEFINE Wrong == {d \in Nat : d <= n /\ F[P[n + 1 - d]] # Rest(bytes, n + 1 - d)}
<1>7. Wrong = {}
  <2> SUFFICES ASSUME Wrong # {}
               PROVE  FALSE
    OBVIOUS
  <2>1. Wrong \in SUBSET Nat
    OBVIOUS
  <2>2. PICK d \in Wrong : \A m \in Wrong : d <= m
    <3> HIDE DEF Wrong
    <3> QED
      BY <2>1, EP!LeastExists, Zenon
  <2>3. d \in Nat /\ d <= n /\ F[P[n + 1 - d]] # Rest(bytes, n + 1 - d)
    OBVIOUS
  <2>4. PICK i \in 1..(n + 1) : i = n + 1 - d
    BY <1>1, <2>3
  <2>5. F[P[i]] # Rest(bytes, i)
    BY <2>3, <2>4, Zenon
  <2>6. CASE d = 0
    <3>1. i = n + 1
      BY <1>1, <2>4, <2>6
    <3>2. P[i] \in 1..(Len(chars) + 2) /\ chars[P[i]] = Quote
      <4>1. n + 1 \in 1..(n + 1)
        BY <1>1
      <4>2. P[n + 1] \in Nat \ {0} /\ P[n + 1] <= Len(chars) /\ chars[P[n + 1]] = Quote
        BY <1>5, <4>1, Zenon
      <4>3. P[n + 1] \in 1..(Len(chars) + 2)
        BY <1>1, <4>2
      <4> QED
        BY <3>1, <4>2, <4>3, Zenon
    <3>3. F[P[i]] = << >>
      BY <1>4, <3>2, Zenon DEF Taken
    <3>4. Rest(bytes, i) = << >>
      BY <1>1, <3>1 DEF Rest
    <3> QED
      BY <2>5, <3>3, <3>4, Zenon
  <2>7. CASE d # 0
    <3>1. d - 1 \in Nat /\ d - 1 <= n /\ ~(d <= d - 1) /\ n + 1 - (d - 1) = i + 1 /\ i \in 1..n
      BY <1>1, <2>3, <2>4, <2>7
    <3>2. F[P[i + 1]] = Rest(bytes, i + 1)
      <4>1. d - 1 \notin Wrong
        BY <2>2, <3>1, Zenon
      <4>2. F[P[n + 1 - (d - 1)]] = Rest(bytes, n + 1 - (d - 1))
        BY <3>1, <4>1
      <4> QED
        BY <3>1, <4>2, Zenon
    <3>3. PICK byte \in Chars : byte = bytes[i]
      BY <1>1, <3>1
    <3>4. /\ P[i] \in Nat \ {0} /\ Len(Spelled(byte)) \in Nat
          /\ P[i + 1] = P[i] + Len(Spelled(byte)) /\ P[i + 1] <= P[n + 1]
      BY <1>6, <3>1, <3>3, Zenon DEF NextByte
    <3>5. P[n + 1] \in Nat /\ P[n + 1] <= Len(chars)
      <4>1. n + 1 \in 1..(n + 1)
        BY <1>1
      <4> QED
        BY <1>5, <4>1
    <3>6. \A k \in 1..Len(Spelled(byte)) : chars[P[i] + k - 1] = Spelled(byte)[k]
      BY <1>5, <3>1, <3>3, Zenon
    <3>7. <<byte>> \o Rest(bytes, i + 1) = Rest(bytes, i)
      BY <3>1, <3>3, RestIs, Zenon
    <3> HIDE DEF Wrong
    <3>8. CASE Spelled(byte) = <<byte>> /\ byte # Quote /\ byte # Backslash
      <4>1. Len(Spelled(byte)) = 1 /\ Spelled(byte)[1] = byte
        BY <3>8
      <4>2. 1 \in 1..Len(Spelled(byte)) /\ P[i] + 1 - 1 = P[i] /\ P[i + 1] = P[i] + 1
        BY <3>4, <4>1
      <4>3. chars[P[i]] = byte
        BY <3>6, <4>1, <4>2, Zenon
      <4>4. P[i] \in 1..(Len(chars) + 2) /\ ~(P[i] > Len(chars))
        BY <1>1, <3>4, <3>5, <4>2
      <4>5. F[P[i]] = <<byte>> \o F[P[i] + 1]
        BY <1>4, <3>8, <4>3, <4>4, Zenon DEF Taken
      <4> QED
        BY <2>5, <3>2, <3>7, <4>2, <4>5, Zenon
    <3>9. CASE \E c \in Chars : Spelled(byte) = <<Backslash, c>> /\ byte = IF c \in DOMAIN Escape THEN Escape[c] ELSE c
      <4>1. PICK c \in Chars : Spelled(byte) = <<Backslash, c>> /\ byte = IF c \in DOMAIN Escape THEN Escape[c] ELSE c
        BY <3>9, Zenon
      <4>2. Len(Spelled(byte)) = 2 /\ Spelled(byte)[1] = Backslash /\ Spelled(byte)[2] = c
        BY <4>1
      <4>3. /\ 1 \in 1..Len(Spelled(byte)) /\ P[i] + 1 - 1 = P[i] /\ P[i + 1] = P[i] + 2
            /\ 2 \in 1..Len(Spelled(byte)) /\ P[i] + 2 - 1 = P[i] + 1
        BY <3>4, <4>2
      <4>4. chars[P[i]] = Backslash /\ chars[P[i] + 1] = c
        BY <3>6, <4>2, <4>3, Zenon
      <4>5. P[i] \in 1..(Len(chars) + 2) /\ ~(P[i] > Len(chars)) /\ P[i] # Len(chars)
        BY <1>1, <3>4, <3>5, <4>3
      <4>6. Backslash # Quote
        BY DEF Backslash, Quote
      <4>7. F[P[i]] = <<byte>> \o F[P[i] + 2]
        BY <1>4, <4>1, <4>4, <4>5, <4>6, Zenon DEF Taken
      <4> QED
        BY <2>5, <3>2, <3>7, <4>3, <4>7, Zenon
    <3> QED
      BY <3>8, <3>9, SpelledIs, Zenon
  <2> QED
    BY <2>6, <2>7
<1>8. n \in Nat /\ n <= n /\ n + 1 - n = 1
  BY <1>1
<1>9. F[P[n + 1 - n]] = Rest(bytes, n + 1 - n)
  <2>1. n \notin Wrong
    BY <1>7, Zenon
  <2> QED
    BY <1>8, <2>1
<1>10. Rest(bytes, 1) = bytes
  <2>1. n + 1 - 1 = n /\ \A x \in 1..n : x + 1 - 1 = x
    BY <1>1
  <2>2. Rest(bytes, 1) = [x \in 1..n |-> bytes[x]]
    BY <2>1 DEF Rest
  <2>3. bytes = [x \in 1..n |-> bytes[x]]
    OBVIOUS
  <2> QED
    BY <2>2, <2>3
<1> QED
  BY <1>3, <1>5, <1>8, <1>9, <1>10, Zenon

(* So a string is read for its bytes, whatever comment follows. *)
LEMMA StringLine ==
  ASSUME NEW bytes \in Literals, NEW comment \in {<< >>, <<Hash, Quote>>}, NEW nul \in BOOLEAN,
         ~({Quote, Hash} \subseteq Range(bytes))
  PROVE  ParseLine(Line(<< >>, String(Spell(bytes) \o <<Quote>> \o comment, nul)))
           = <<Bytes(bytes \o (IF nul THEN <<0>> ELSE << >>))>>
<1>1. bytes \in Seq(Chars)
  BY LiteralsAssumption DEF Chars
<1>2. comment \in Seq(Chars)
  <2>1. << >> \in Seq(Chars)
    BY EmptySeq, Zenon
  <2>2. Hash \in Chars /\ Quote \in Chars
    BY DEF Hash, Quote, Chars
  <2>3. <<Hash, Quote>> \in Seq(Chars)
    BY <2>2
  <2> QED
    BY <2>1, <2>3, Zenon
<1>3. PICK chars : chars = Spell(bytes) \o <<Quote>> \o comment
  OBVIOUS
<1>4. chars \in Seq(Chars) /\ \E P : Spells(chars, bytes, P) /\ OnlySpells(chars, bytes, P)
  BY <1>1, <1>2, <1>3, SpellSpells, Zenon
<1>5. PICK P : Spells(chars, bytes, P) /\ OnlySpells(chars, bytes, P)
  BY <1>4
<1>6. StripComment(chars) \in Seq(Chars) /\ Spells(StripComment(chars), bytes, P)
  BY <1>1, <1>4, <1>5, CommentIsBehind, Zenon
<1>7. Unescape(StripComment(chars)) = bytes
  BY <1>1, <1>6, UnescapeIs, Zenon
<1>8. PICK text : text = String(chars, nul)
  OBVIOUS
<1>9. text.kind = "STRING" /\ text.chars = chars /\ text.nul = nul
  BY <1>8 DEF String
<1>10. ParseDirective(text) = <<Bytes(Unescape(StripComment(text.chars)) \o (IF text.nul THEN <<0>> ELSE << >>))>>
  BY <1>9 DEF ParseDirective
<1>11. PICK it : it = Bytes(bytes \o (IF nul THEN <<0>> ELSE << >>))
  OBVIOUS
<1>12. ParseDirective(text) = <<it>>
  BY <1>7, <1>9, <1>10, <1>11, Zenon
<1>13. ParseLine(Line(<< >>, text)) = << >> \o <<it>>
  <2>1. Line(<< >>, text).names = << >> /\ Line(<< >>, text).body = text
    BY DEF Line
  <2>2. [j \in DOMAIN << >> |-> Label(<< >>[j])] = << >>
    OBVIOUS
  <2>3. text.kind # "INSTR"
    BY <1>9
  <2> QED
    BY <1>12, <2>1, <2>2, <2>3, Zenon DEF ParseLine
<1>14. << >> \o <<it>> = <<it>>
  OBVIOUS
<1> QED
  BY <1>3, <1>8, <1>11, <1>13, <1>14, Zenon

-----------------------------------------------------------------------------
(* A text of one line.                                                     *)

(* The items are those of the lines read so far, as long as they are one   *)
(* at most, and all lines were read before the encoder starts.             *)
LinesInv ==
  /\ stage = "compile" => line = 1
  /\ stage = "done" => pass = "encoded"
  /\ stage \in {"parse", "assemble", "done"} =>
       /\ line <= Len(lines) + 1
       /\ line = 1 => items = << >>
       /\ line = 2 => items = ParseLine(lines[1])
  /\ stage \in {"assemble", "done"} => line > Len(lines)

(* None is read at first. *)
LEMMA LinesInit ==
  ASSUME InputsEncodable, Init
  PROVE  LinesInv
<1>1. line = 1 /\ stage \in {"compile", "parse"}
  BY DEF Init
<1>2. stage = "parse" => items = << >> /\ Len(lines) \in Nat
  BY DEF Init, InputsEncodable, ReadsEncodable
<1> QED
  BY <1>1, <1>2 DEF LinesInv

(* Items behind none. *)
LEMMA NoneBefore ==
  ASSUME NEW its, EncodableList(its)
  PROVE  << >> \o its = its
<1>1. PICK n \in Nat : n = Len(its) /\ its = [j \in 1..n |-> its[j]]
  BY DEF EncodableList
<1> DEFINE S == {its[j] : j \in 1..n}
<1>2. its \in [1..n -> S]
  BY <1>1
<1> HIDE DEF S
<1>3. its \in Seq(S)
  BY <1>2, EP!FunctionIsSeq, Zenon
<1> QED
  BY <1>3

(* Reading goes on so. *)
LEMMA LinesKeep ==
  ASSUME ReadInv, LinesInv, [Next]_vars
  PROVE  LinesInv'
<1>1. CASE UNCHANGED <<stage, pass, items, line, lines>>
  BY <1>1 DEF LinesInv
<1>2. CASE Encoding
  <2>1. /\ UNCHANGED <<stage, lines, line>> /\ stage \in {"compile", "assemble"} /\ EncodeNext
    BY <1>2 DEF Encoding
  <2>2. items' = items
    BY <2>1 DEF EncodeNext, Reset, AtItem, PlainInstr, NamingInstr, RecordLabel, RecordGlobl, ChangeSection, EmitRaw,
                SkipDirective, NextPass, Done, LabelSymbol, UndefinedSymbol, BuildReloc
  <2> QED
    BY <2>1, <2>2 DEF LinesInv
<1>3. CASE WriteText
  <2>1. items' = << >> /\ lines' = Write(items) /\ line' = line /\ stage = "compile" /\ stage' = "parse"
    BY <1>3 DEF WriteText
  <2>2. line' = 1 /\ Len(lines') \in Nat
    BY <2>1 DEF LinesInv, ReadInv, ReadsEncodable
  <2> QED
    BY <2>1, <2>2 DEF LinesInv
<1>4. CASE ParseNext
  <2> DEFINE parsed == ParseLine(lines[line])
  <2>1. /\ stage = "parse" /\ line <= Len(lines) /\ lines' = lines
        /\ IF \E j \in DOMAIN parsed : parsed[j].kind = "REFUSED"
           THEN stage' = "failed" /\ UNCHANGED <<items, line>>
           ELSE items' = items \o parsed /\ line' = line + 1 /\ UNCHANGED stage
    BY <1>4 DEF ParseNext
  <2>2. line \in 1..Len(lines) /\ Len(lines) \in Nat
    BY <2>1 DEF ReadInv, ReadsEncodable
  <2>3. EncodableList(parsed) \/ \E j \in DOMAIN parsed : parsed[j].kind = "REFUSED"
    BY <2>1, <2>2 DEF ReadInv, ReadsEncodable
  <2>4. line = 1 => items = << >> /\ parsed = ParseLine(lines[1])
    BY <2>1 DEF LinesInv
  <2> HIDE DEF parsed
  <2>5. CASE \E j \in DOMAIN parsed : parsed[j].kind = "REFUSED"
    BY <2>1, <2>5 DEF LinesInv
  <2>6. CASE ~\E j \in DOMAIN parsed : parsed[j].kind = "REFUSED"
    <3>1. items' = items \o parsed /\ line' = line + 1 /\ stage' = "parse" /\ lines' = lines
      BY <2>1, <2>6
    <3>2. line' <= Len(lines') + 1 /\ line' # 1 /\ (line' = 2 => line = 1)
      BY <2>2, <3>1
    <3>3. line = 1 => items' = parsed
      <4>1. << >> \o parsed = parsed
        BY <2>3, <2>6, NoneBefore, Zenon
      <4> QED
        BY <2>4, <3>1, <4>1, Zenon
    <3>4. line' = 2 => items' = ParseLine(lines'[1])
      BY <2>4, <3>1, <3>2, <3>3, Zenon
    <3> QED
      BY <3>1, <3>2, <3>4 DEF LinesInv
  <2> QED
    BY <2>5, <2>6
<1>5. CASE ParsedAll
  <2>1. UNCHANGED <<items, line, lines>> /\ stage = "parse" /\ line > Len(lines) /\ stage' = "assemble"
    BY <1>5 DEF ParsedAll, encVars
  <2> QED
    BY <2>1 DEF LinesInv
<1>6. CASE Assembled
  <2>1. UNCHANGED <<items, line, lines, pass>> /\ stage = "assemble" /\ pass = "encoded" /\ stage' = "done"
    BY <1>6 DEF Assembled, encVars
  <2> QED
    BY <2>1 DEF LinesInv
<1>7. UNCHANGED vars => UNCHANGED <<stage, pass, items, line, lines>>
  BY DEF vars, encVars
<1> QED
  BY <1>1, <1>2, <1>3, <1>4, <1>5, <1>6, <1>7 DEF Next

(* The bytes of a program of one data item are its section. *)
LEMMA OneDatum ==
  ASSUME NEW T, NEW L, MadeOf(T, L), Len(items) = 1, items[1].kind = "BYTES"
  PROVE  secs[1].data = Op(items[1].dst.val)
<1>1. 1 \in 1..Len(items) /\ 1 - 1 = 0
  OBVIOUS
<1>2. IsTrace(T, 1, items, secs) /\ Sectioned(secs) /\ FilledTo(T[1].off, secs) /\ WholeTrace(T)
  <2>1. FilledTo(T[Len(items)].off, secs) /\ WholeTrace(T)
    BY Zenon DEF MadeOf
  <2>2. IsTrace(T, Len(items), items, secs) /\ Sectioned(secs)
    BY MadeOfParts, Zenon
  <2> QED
    BY <2>1, <2>2, Zenon
<1>3. T[0].sec = 1 /\ T[0].off[1] = 0
  BY <1>2 DEF IsTrace
<1>4. Follows(T[0], T[1], items[1], secs) /\ T[0].off \in [Nat -> Nat] /\ T[0].sec \in DOMAIN secs
  BY <1>2, TraceAt
<1>5. Start(T, 1) = 0
  BY <1>3 DEF Start
<1>6. Holding(secs[1].data, 0, items[1]) /\ Encodable(items[1])
  <2>1. Holding(secs[Place(T, 1).sec].data, Start(T, 1), items[1]) /\ Encodable(items[1])
    BY <1>1, <1>2, AtPlace, Zenon
  <2>2. Place(T, 1).sec = 1
    BY <1>3 DEF Place
  <2> QED
    BY <1>5, <2>1, <2>2, Zenon
<1>7. T[1].off[1] = 0 + Size(items[1])
  <2>1. T[1].off = [T[0].off EXCEPT ![1] = 0 + Size(items[1])]
    BY <1>3, <1>4, Zenon DEF Follows
  <2> QED
    BY <1>4, <2>1
<1>8. secs[1].data \in Seq(Cells) /\ Len(secs[1].data) = 0 + Size(items[1])
  <2>1. 1 \in DOMAIN secs /\ 1 \in Nat
    BY <1>3, <1>4
  <2> QED
    BY <1>2, <1>7, <2>1, Zenon DEF Sectioned, IsSection, FilledTo
<1>9. PICK data \in Seq(Cells) : data = secs[1].data
  BY <1>8
<1>10. SubSeq(data, 0 + 1, 0 + Size(items[1])) = Op(items[1].dst.val)
  BY <1>6, <1>9, DataStands
<1>11. SubSeq(data, 0 + 1, Len(data)) = data
  <2>1. SubSeq(data, 1, Len(data)) = data
    OBVIOUS
  <2> QED
    BY <2>1
<1>12. Len(data) = 0 + Size(items[1])
  BY <1>8, <1>9, Zenon
<1> QED
  BY <1>9, <1>10, <1>11, <1>12, Zenon

(* The items of a finished text of one line are those of the line. *)
LEMMA OneLine ==
  ASSUME ReadInv, LinesInv, stage = "done", NEW text, lines = <<text>>
  PROVE  items = ParseLine(text) /\ Encoded /\ EncodableList(items)
<1>1. Len(lines) = 1 /\ lines[1] = text
  OBVIOUS
<1>2. line = 2
  BY <1>1 DEF ReadInv, LinesInv
<1> QED
  BY <1>1, <1>2 DEF Encoded, LinesInv, ReadInv

(* The one item of a string. *)
LEMMA DatumItem ==
  ASSUME NEW val, items = <<Bytes(val)>>
  PROVE  Len(items) = 1 /\ items[1].kind = "BYTES" /\ items[1].dst.val = val /\ AllBuilt
<1>1. PICK it : it = Bytes(val)
  OBVIOUS
<1>2. it.kind = "BYTES" /\ it.dst.val = val
  BY <1>1, Zenon DEF Bytes, Item, Imm, Operand
<1>3. items = <<it>>
  BY <1>1, Zenon
<1>4. Len(items) = 1 /\ items[1] = it /\ \A j \in DOMAIN items : items[j] = it
  BY <1>3
<1>5. \A j \in DOMAIN items : items[j].kind # "INSTR"
  BY <1>2, <1>4
<1> QED
  BY <1>2, <1>4, <1>5, Zenon DEF AllBuilt, Built

(* A finished text of one string has its bytes in the object. *)
LEMMA StringStands ==
  ASSUME EncoderInv, ReadInv, TraceInv, LinesInv
  PROVE  StringsKept
<1> SUFFICES ASSUME stage = "done", NEW bytes \in Literals, NEW comment \in {<< >>, <<Hash, Quote>>}, NEW nul \in BOOLEAN,
                    lines = <<Line(<< >>, String(Spell(bytes) \o <<Quote>> \o comment, nul))>>,
                    ~({Quote, Hash} \subseteq Range(bytes))
             PROVE  secs[1].data = Op(bytes \o (IF nul THEN <<0>> ELSE << >>))
  BY Zenon DEF StringsKept
<1>1. PICK text : text = Line(<< >>, String(Spell(bytes) \o <<Quote>> \o comment, nul))
  OBVIOUS
<1>2. lines = <<text>>
  BY <1>1, Zenon
<1>3. items = ParseLine(text) /\ Encoded /\ EncodableList(items)
  BY <1>2, OneLine, Zenon
<1>4. PICK val : val = bytes \o (IF nul THEN <<0>> ELSE << >>)
  OBVIOUS
<1>5. items = <<Bytes(val)>>
  <2>1. ParseLine(text) = <<Bytes(val)>>
    BY <1>1, <1>4, StringLine, Zenon
  <2> QED
    BY <1>3, <2>1, Zenon
<1>6. Len(items) = 1 /\ items[1].kind = "BYTES" /\ items[1].dst.val = val /\ AllBuilt
  BY <1>5, DatumItem, Zenon
<1>7. PICK T, L : MadeOf(T, L)
  BY <1>3, <1>6, EncodedIsMade, Zenon
<1> QED
  BY <1>4, <1>6, <1>7, OneDatum, Zenon

(* A string between quotes, with a comment after it or without, arrives in *)
(* the object byte for byte, whatever its bytes are and however they have  *)
(* to be escaped (txt.c:430, enc.c:66).                                    *)
THEOREM StringsAreKept == InputsEncodable => (Spec => []StringsKept)
<1> SUFFICES ASSUME InputsEncodable
             PROVE  Spec => []StringsKept
  OBVIOUS
<1>1. Init => LinesInv
  BY LinesInit
<1>2. ReadInv /\ LinesInv /\ [Next]_vars => LinesInv'
  BY LinesKeep
<1>3. EncoderInv /\ ReadInv /\ TraceInv /\ LinesInv => StringsKept
  BY StringStands
<1>4. Spec => [](EncoderInv /\ ReadInv /\ TraceInv)
  BY AssemblyInvariant
<1> QED
  BY <1>1, <1>2, <1>3, <1>4, PTL DEF Spec
=============================================================================
