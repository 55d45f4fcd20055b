-------------------------------- MODULE Asm --------------------------------
(***************************************************************************)
(* The instruction list of src/arch/x86_64/asm.c: items that gen.c emits   *)
(* in order, and that the encoder, the text writer, and here the machine,  *)
(* walk.  Widths are in bytes.                                             *)
(***************************************************************************)
EXTENDS Integers, Sequences

(* Operands: a register, an immediate, memory at a displacement from a     *)
(* register, or a label.                                                   *)
Operand(kind, reg, val, width) == [kind |-> kind, reg |-> reg, val |-> val, width |-> width]

RegWidth(reg, width) == Operand("REG", reg, 0, width)
Reg64(reg)      == RegWidth(reg, 8)
Reg8(reg)       == RegWidth(reg, 1)
Imm(val)        == Operand("IMM", "none", val, 0)
Mem(base, disp) == Operand("MEM", base, disp, 0)
Rip(label)      == Operand("RIP", "none", label, 0)
Target(label)   == Operand("LABEL", "none", label, 0)
NoOperand       == Operand("NONE", "none", 0, 0)

Item(kind, op, dst, src) == [kind |-> kind, op |-> op, dst |-> dst, src |-> src]
Instr(op, dst, src) == Item("INSTR", op, dst, src)

Label(label)  == Item("LABEL", "", Target(label), NoOperand)
Globl(label)  == Item("GLOBL", "", Target(label), NoOperand)
Section(name, type, flags) == Item("SECTION", type, Target(<<name>>), Imm(flags))
Bytes(data)   == Item("BYTES", "", Imm(data), NoOperand)
Directive(text) == Item("DIRECTIVE", "", Target(text), NoOperand)   \* a line for whoever reads the text

(* Instructions between registers, source first as in the assembly text.   *)
Add(src, dst)   == Instr("ADD", Reg64(dst), Reg64(src))
Sub(src, dst)   == Instr("SUB", Reg64(dst), Reg64(src))
Imul(src, dst)  == Instr("IMUL", Reg64(dst), Reg64(src))
Cmp(src, dst)   == Instr("CMP", Reg64(dst), Reg64(src))
MovRR(src, dst) == Instr("MOV", Reg64(dst), Reg64(src))
Movsx(src, dst, width) == Instr("MOVSX", Reg64(dst), RegWidth(src, width))
Movzb(src, dst) == Instr("MOVZB", Reg64(dst), Reg8(src))
Idiv(reg)       == Instr("IDIV", Reg64(reg), NoOperand)
Neg(reg)        == Instr("NEG", Reg64(reg), NoOperand)
Cqo             == Instr("CQO", NoOperand, NoOperand)
Set(cond, reg)  == Instr(cond, Reg8(reg), NoOperand)   \* SETE, SETNE, SETL, SETLE

(* Instructions with an immediate. *)
CmpImm(imm, dst)  == Instr("CMP", Reg64(dst), Imm(imm))
AddImm(imm, dst)  == Instr("ADD", Reg64(dst), Imm(imm))
SubImm(imm, dst)  == Instr("SUB", Reg64(dst), Imm(imm))
MovImm(imm, dst)  == Instr("MOV", Reg64(dst), Imm(imm))
MovImm8(imm, dst) == Instr("MOV", Reg8(dst), Imm(imm))

(* Memory accesses: a load narrower than a register extends the sign, a    *)
(* store writes the low bytes of its register.                             *)
MovLoad(base, disp, dst, width) ==
  Instr(IF width = 8 THEN "MOV" ELSE "MOVSX", Reg64(dst), [Mem(base, disp) EXCEPT !.width = width])

MovStore(src, base, disp, width) == Instr("MOV", Mem(base, disp), RegWidth(src, width))

Lea(base, disp, dst) == Instr("LEA", Reg64(dst), Mem(base, disp))
LeaRip(dst, label)   == Instr("LEA", Reg64(dst), Rip(label))

PushReg(reg) == Instr("PUSH", Reg64(reg), NoOperand)
PopReg(reg)  == Instr("POP", Reg64(reg), NoOperand)

(* Jumps, calls and returns. *)
Jump(op, label) == Instr(op, Target(label), NoOperand)   \* JMP, JE, JNE
Call(label)     == Instr("CALL", Target(label), NoOperand)
Ret             == Instr("RET", NoOperand, NoOperand)
Syscall         == Instr("SYSCALL", NoOperand, NoOperand)
=============================================================================
