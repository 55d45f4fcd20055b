------------------------------ MODULE Machine ------------------------------
(***************************************************************************)
(* What the items of an instruction list do on an x86-64 processor: the    *)
(* part the code generator relies on, and nothing in src/ says.  A state   *)
(* of the processor is a record m: the registers, as signed integers of    *)
(* WordSize bytes, memory, as a function of the addresses written so far   *)
(* (any other byte holds m.fill), and the operands of the last CMP, which  *)
(* stand for the flags.  A byte has ByteBase values instead of 256.        *)
(***************************************************************************)
EXTENDS Asm, FiniteSets, TLC

CONSTANTS
  ByteBase,     \* bound: values of a byte
  StackLow,     \* lowest address of the stack
  StackHigh,    \* one past its highest address
  RodataBase,   \* address of the string literals
  RodataEnd     \* one past their last byte

Pow == [n \in 0..8 |-> ByteBase ^ n]

Signed(n, width) ==
  LET u == n % Pow[width] IN IF u >= Pow[width] \div 2 THEN u - Pow[width] ELSE u

Low(n) == n % ByteBase

IsMapped(addr, width) ==
  \/ StackLow <= addr /\ addr + width <= StackHigh
  \/ RodataBase <= addr /\ addr + width <= RodataEnd

ByteAt(m, addr) == IF addr \in DOMAIN m.mem THEN m.mem[addr] ELSE m.fill

Load(m, addr, width) ==
  Signed(LET sum[n \in 0..width] ==
               IF n = 0 THEN 0 ELSE sum[n - 1] + ByteAt(m, addr + n - 1) * Pow[n - 1]
         IN sum[width], width)

Store(m, addr, val, width) ==
  [m EXCEPT !.mem = [n \in addr..(addr + width - 1) |-> (val \div Pow[n - addr]) % ByteBase] @@ @]

SetReg(m, reg, val, width) ==
  [m EXCEPT !.regs[reg] = IF width = 1 THEN Signed(@ - Low(@) + Low(val), 8) ELSE Signed(val, 8)]

Addr(m, operand) == m.regs[operand.reg] + operand.val

(* The value of a source operand; `where' gives the address of a label.    *)
Value(m, operand, where) ==
  CASE operand.kind = "REG" -> Signed(m.regs[operand.reg], operand.width)
    [] operand.kind = "IMM" -> operand.val
    [] operand.kind = "MEM" -> Load(m, Addr(m, operand), operand.width)
    [] operand.kind = "RIP" -> where[operand.val]

(* An access out of the stack and the literals is a fault. *)
Reachable(m, operand) == operand.kind = "MEM" => IsMapped(Addr(m, operand), operand.width)

Write(m, operand, val, width) ==
  IF operand.kind = "MEM" THEN Store(m, Addr(m, operand), val, width)
  ELSE SetReg(m, operand.reg, val, operand.width)

(* Integer division of the processor truncates toward zero. *)
Quotient(a, b) ==
  LET q == (IF a < 0 THEN -a ELSE a) \div (IF b < 0 THEN -b ELSE b)
  IN IF (a < 0) = (b < 0) THEN q ELSE -q
Remainder(a, b) == a - b * Quotient(a, b)

(* IDIV divides the double word in %rdx and %rax. *)
Dividend(m) == m.regs["rdx"] * Pow[8] + (m.regs["rax"] % Pow[8])

CanDivide(m, b) == b # 0 /\ Signed(Quotient(Dividend(m), b), 8) = Quotient(Dividend(m), b)

Divided(m, b) ==
  SetReg(SetReg(m, "rax", Quotient(Dividend(m), b), 8), "rdx", Remainder(Dividend(m), b), 8)

Holds(m, cond) ==
  CASE cond \in {"SETE", "JE"}   -> m.cmp[1] = m.cmp[2]
    [] cond \in {"SETNE", "JNE"} -> m.cmp[1] # m.cmp[2]
    [] cond = "SETL"  -> m.cmp[1] < m.cmp[2]
    [] cond = "SETLE" -> m.cmp[1] <= m.cmp[2]
    [] cond = "JMP"   -> TRUE

Push(m, val) ==
  LET rsp == m.regs["rsp"] - 8 IN Store(SetReg(m, "rsp", rsp, 8), rsp, val, 8)

Top(m) == Load(m, m.regs["rsp"], 8)
Drop(m) == SetReg(m, "rsp", m.regs["rsp"] + 8, 8)
=============================================================================
