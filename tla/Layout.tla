------------------------------- MODULE Layout -------------------------------
(***************************************************************************)
(* The arithmetic of a stack frame in src/arch/x86_64/gen.c: where a local *)
(* lies below %rbp and where a caller left an argument above it.  A type   *)
(* matters here for its size and its alignment alone.                      *)
(***************************************************************************)
EXTENDS Integers

CONSTANTS
  MaxRegArgs,   \* MAX_REG_ARGS: arguments passed in registers
  WordSize,     \* WORD_SIZE: bytes of a stack slot and of a register
  StackAlign    \* STACK_ALIGN: alignment of %rsp at a call

ASSUME LayoutAssumption ==
  /\ MaxRegArgs \in Nat
  /\ WordSize \in Nat \ {0}
  /\ StackAlign \in Nat \ {0}
  /\ StackAlign % WordSize = 0

AlignTo(n, align) == ((n + align - 1) \div align) * align

(* Sizes that forget the padding, or pad before they grow. *)
NextOffsetUnaligned(offset, type) == offset + type.size
NextOffsetPadFirst(offset, type) == AlignTo(offset, type.align) + type.size

(* The offset before the local's own size is added. *)
NextOffsetBeforeSize(offset, type) == AlignTo(offset, type.align)

(* The distance below %rbp of a local of that type, when `offset' bytes    *)
(* are taken by the locals before it.                                      *)
NextOffset(offset, type) == AlignTo(offset + type.size, type.align)

StackSize(offset) == AlignTo(offset, StackAlign)

(* A callee that forgets the saved %rbp. *)
StackArgOffsetPastReturn(i) == WordSize + (i - MaxRegArgs) * WordSize

(* Where the callee finds argument i, counted from 0, above %rbp. *)
StackArgOffset(i) == 2 * WordSize + (i - MaxRegArgs) * WordSize
=============================================================================
