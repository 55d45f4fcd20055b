------------------------------- MODULE Decode -------------------------------
(***************************************************************************)
(* What a processor makes of bytes: the instruction at an offset, as the   *)
(* item of asm.c that says the same.  Of x86-64 it knows the opcodes this  *)
(* compiler uses, each in all its forms: any register, memory or rip       *)
(* relative operand in r/m, with and without a REX prefix.                 *)
(***************************************************************************)
EXTENDS Asm

CONSTANT ByteBase   \* values of a byte of data

Numbered == [n \in 0..15 |->
  <<"rax", "rcx", "rdx", "rbx", "rsp", "rbp", "rsi", "rdi",
    "r8", "r9", "r10", "r11", "r12", "r13", "r14", "r15">>[n + 1]]

ByteAt(data, i) == IF i < Len(data) THEN data[i + 1][1] ELSE 0

(* The signed number in n bytes. *)
SignedAt(data, i, n) ==
  LET Upto[j \in 0..n] == IF j = 0 THEN 0 ELSE Upto[j - 1] + ByteAt(data, i + j - 1) * ByteBase^(j - 1)
  IN IF 2 * Upto[n] >= ByteBase^n THEN Upto[n] - ByteBase^n ELSE Upto[n]

Bit(rex, n) == (rex \div n) % 2

(* Without a REX prefix (0) the byte registers 4 to 7 are high halves. *)
RegOperand(n, width, rex) ==
  RegWidth(IF width = 1 /\ n \in 4..7 /\ rex = 0 THEN <<"ah", "ch", "dh", "bh">>[n - 3] ELSE Numbered[n], width)

Unknown == Operand("UNKNOWN", "none", 0, 0)

(* The reg field of the ModRM byte at m. *)
Field(data, m) == (ByteAt(data, m) \div 8) % 8

(* The operand in the r/m field of the ModRM byte at m, and where it ends. *)
RMOperand(data, m, width, rex) ==
  LET mod  == ByteAt(data, m) \div 64
      rm   == ByteAt(data, m) % 8
      sib  == ByteAt(data, m + 1)
      base == IF rm = 4 THEN sib % 8 ELSE rm
      disp == m + (IF rm = 4 THEN 2 ELSE 1)
      size == CASE mod = 0 /\ base = 5 -> 4 [] mod = 0 /\ base # 5 -> 0 [] mod = 1 -> 1 [] OTHER -> 4
      val  == IF size = 0 THEN 0 ELSE SignedAt(data, disp, size)
  IN IF mod = 3 THEN [is |-> RegOperand(rm + 8 * Bit(rex, 1), width, rex), end |-> m + 1]
     ELSE [is |-> CASE rm = 4 /\ ((sib \div 8) % 8 # 4 \/ (mod = 0 /\ base = 5)) -> Unknown
                    [] rm = 5 /\ mod = 0 -> Rip(val)
                    [] OTHER -> Mem(Numbered[base + 8 * Bit(rex, 1)], val),
           end |-> disp + size]

(* The opcodes of operations, or what is in the reg field for them. *)
ReadsRM  == [MOV |-> \h8B, LEA |-> \h8D, IMUL |-> \h1AF]
ReadsRM8 == [MOVSX |-> \h1BE, MOVZB |-> \h1B6]
WritesRM == [ADD |-> \h01, SUB |-> \h29, CMP |-> \h39, MOV |-> \h89]
Group1   == [ADD |-> 0, SUB |-> 5, CMP |-> 7]
Group3   == [NEG |-> 3, IDIV |-> 7]
SetsRM8  == [SETE |-> \h194, SETNE |-> \h195, SETL |-> \h19C, SETLE |-> \h19E]
Jumps    == [CALL |-> \hE8, JMP |-> \hE9, JE |-> \h184, JNE |-> \h185]

In(table, n)   == \E op \in DOMAIN table : table[op] = n
OpOf(table, n) == CHOOSE op \in DOMAIN table : table[op] = n

(* A memory operand says the width of the access only where no register does. *)
Sized(opnd, width) == IF opnd.kind = "MEM" THEN [opnd EXCEPT !.width = width] ELSE opnd

(* The REX prefix of the instruction at off, if it has one, its opcode, and *)
(* where the bytes after it start.  A two-byte opcode 0F xx is the number  *)
(* 1xx.                                                                    *)
Rex(data, off) == IF ByteAt(data, off) \in \h40..\h4F THEN ByteAt(data, off) ELSE 0

OpcodeAt(data, off) == IF Rex(data, off) = 0 THEN off ELSE off + 1

Escaped(data, off) == ByteAt(data, OpcodeAt(data, off)) = \h0F

Opcode(data, off) ==
  IF Escaped(data, off) THEN \h100 + ByteAt(data, OpcodeAt(data, off) + 1)
  ELSE ByteAt(data, OpcodeAt(data, off))

Rest(data, off) == OpcodeAt(data, off) + (IF Escaped(data, off) THEN 2 ELSE 1)

One(op, opnd) == Instr(op, opnd, NoOperand)
Is(ins, end) == [ins |-> ins, end |-> end]

(* The instruction of this prefix and opcode whose further bytes are those *)
(* from m on, and the offset after it.  A name is its displacement.        *)
Meaning(data, m, rex, opcode) ==
  LET width     == IF Bit(rex, 8) = 1 THEN 8 ELSE 4
      field     == Field(data, m)
      R(size)   == RegOperand(field + 8 * Bit(rex, 4), size, rex)
      RM(size)  == RMOperand(data, m, size, rex).is
      end       == RMOperand(data, m, 8, rex).end
      low(size) == RegOperand((opcode % 8) + 8 * Bit(rex, 1), size, rex)
  IN CASE In(ReadsRM, opcode)  -> Is(Instr(OpOf(ReadsRM, opcode), R(width), RM(width)), end)
       [] In(ReadsRM8, opcode) -> Is(Instr(OpOf(ReadsRM8, opcode), R(width), Sized(RM(1), 1)), end)
       [] opcode = \h63 -> Is(Instr("MOVSX", R(width), Sized(RM(4), 4)), end)
       [] In(WritesRM, opcode) -> Is(Instr(OpOf(WritesRM, opcode), RM(width), R(width)), end)
       [] opcode = \h88 -> Is(Instr("MOV", RM(1), R(1)), end)
       [] opcode = \h81 /\ In(Group1, field) ->
            Is(Instr(OpOf(Group1, field), Sized(RM(width), width), Imm(SignedAt(data, end, 4))), end + 4)
       [] opcode = \hC7 /\ field = 0 ->
            Is(Instr("MOV", Sized(RM(width), width), Imm(SignedAt(data, end, 4))), end + 4)
       [] opcode \in \hB8..\hBF -> Is(Instr("MOV", low(width), Imm(SignedAt(data, m, width))), m + width)
       [] opcode \in \hB0..\hB7 -> Is(Instr("MOV", low(1), Imm(SignedAt(data, m, 1))), m + 1)
       [] opcode = \hF7 /\ In(Group3, field) -> Is(One(OpOf(Group3, field), Sized(RM(width), width)), end)
       [] In(SetsRM8, opcode) -> Is(One(OpOf(SetsRM8, opcode), RM(1)), end)
       [] opcode \in \h50..\h57 -> Is(One("PUSH", low(8)), m)
       [] opcode \in \h58..\h5F -> Is(One("POP", low(8)), m)
       [] In(Jumps, opcode) -> Is(One(OpOf(Jumps, opcode), Target(SignedAt(data, m, 4))), m + 4)
       [] opcode = \h99 /\ Bit(rex, 8) = 1 -> Is(One("CQO", NoOperand), m)
       [] opcode = \hC3 -> Is(One("RET", NoOperand), m)
       [] opcode = \h105 -> Is(One("SYSCALL", NoOperand), m)
       [] OTHER -> Is(One("UNKNOWN", Unknown), m)

Decoded(data, off) == Meaning(data, Rest(data, off), Rex(data, off), Opcode(data, off))
=============================================================================
