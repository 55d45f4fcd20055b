------------------------------ MODULE Compiled ------------------------------
(***************************************************************************)
(* A program, from its tree to its end: sem.c annotates it or rejects it,  *)
(* gen.c writes its instructions, and a processor runs them together with  *)
(* the start-up code of libc/arch/x86_64/crt0.s.  The run is compared with *)
(* what the program means (CSem).                                          *)
(***************************************************************************)
EXTENDS Sem, Gen, Machine

CONSTANTS
  Programs,     \* trees the parser can build, each under a key
  Fills         \* what memory nobody has written may hold, as a byte

C == INSTANCE CSem

(* crt0.s *)
Start ==
  <<Globl(<<"_start">>), Label(<<"_start">>), Call(<<"main">>),
    MovRR("rax", "rdi"), MovImm(60, "rax"), Syscall>>

Putchar ==
  <<Globl(<<"putchar">>), Label(<<"putchar">>),
    PushReg("rbp"), MovRR("rsp", "rbp"), SubImm(8, "rsp"), MovStore("rdi", "rbp", -8, 8),
    MovImm(1, "rax"), MovImm(1, "rdi"), Lea("rbp", -8, "rsi"), MovImm(1, "rdx"), Syscall,
    MovLoad("rbp", -8, "rax", 8), MovRR("rbp", "rsp"), PopReg("rbp"), Ret>>

(* The bytes of the literals among some items. *)
Data(items) ==
  LET literals == SelectSeq(items, LAMBDA x : x.kind = "BYTES")
  IN FlattenSeq([k \in DOMAIN literals |-> literals[k].dst.val])

LabelIndices(code) == {k \in DOMAIN code : code[k].kind = "LABEL"}

(* Where each label is: an item, or the address of a literal. *)
LabelAt(code, l) ==
  LET k == CHOOSE k \in LabelIndices(code) : code[k].dst.val = l
  IN IF l[1] = ".Lstr" THEN RodataBase + Len(Data(SubSeq(code, 1, k - 1))) ELSE k

(* A program and what becomes of it: whether the compiler takes it, its    *)
(* items with those of libc, its literals, its labels, and its meaning.    *)
Build(key) ==
  LET tree == Programs[key]
      ok   == Accepted(tree)
      code == IF ok THEN BuildProgram(Analyze(tree)) \o Start \o Putchar ELSE << >>
  IN [key |-> key, tree |-> tree, accepted |-> ok, code |-> code, data |-> Data(code),
      where |-> [l \in {code[k].dst.val : k \in LabelIndices(code)} |-> LabelAt(code, l)],
      meaning |-> C!Meaning(tree)]

VARIABLES
  prog,     \* the program, built
  status,   \* running, exited, fault, or rejected by the compiler
  pc,       \* the item to execute
  m,        \* the processor
  out,      \* the bytes written to standard output
  calls     \* history: what each call in progress must find when it returns

vars == <<prog, status, pc, m, out, calls>>

Regs == {"rax", "rdi", "rsi", "rdx", "rcx", "r8", "r9", "r11", "rsp", "rbp"}

Init ==
  /\ \E key \in DOMAIN Programs : prog = Build(key)
  /\ status = IF prog.accepted THEN "running" ELSE "rejected"
  /\ pc = IF prog.accepted THEN prog.where[<<"_start">>] ELSE 0
  /\ \E fill \in Fills :
       m = [regs |-> [r \in Regs |-> IF r = "rsp" THEN StackHigh ELSE IF fill = 0 THEN 0 ELSE -1],
            mem |-> [a \in RodataBase..(RodataBase + Len(prog.data) - 1) |-> prog.data[a - RodataBase + 1]],
            fill |-> fill, cmp |-> <<0, 0>>]
  /\ out = << >> /\ calls = << >>

-----------------------------------------------------------------------------
(* One item after another.                                                 *)

item == prog.code[pc]

Goal   == prog.where[item.dst.val]
Source == Value(m, item.src, prog.where)
Dest   == m.regs[item.dst.reg]

CanExecute ==
  /\ Reachable(m, item.src) /\ Reachable(m, [item.dst EXCEPT !.width = item.src.width])
  /\ item.op \in {"PUSH", "CALL"} => IsMapped(m.regs["rsp"] - 8, 8)
  /\ item.op \in {"POP", "RET"} => IsMapped(m.regs["rsp"], 8)
  /\ item.op = "IDIV" => CanDivide(m, Dest)

Running(ops) == status = "running" /\ item.kind = "INSTR" /\ item.op \in ops /\ CanExecute

Step(state) ==
  /\ m' = state
  /\ pc' = pc + 1
  /\ UNCHANGED <<prog, status, out, calls>>

PassLabel == status = "running" /\ item.kind # "INSTR" /\ Step(m)

Move ==
  \/ Running({"MOV", "MOVSX"}) /\ Step(Write(m, item.dst, Source, item.src.width))
  \/ Running({"MOVZB"}) /\ Step(Write(m, item.dst, Low(Source), 8))
  \/ Running({"LEA"}) /\ Step(Write(m, item.dst, IF item.src.kind = "MEM" THEN Addr(m, item.src) ELSE Source, 8))

Compute ==
  \/ Running({"ADD"})  /\ Step(Write(m, item.dst, Dest + Source, 8))
  \/ Running({"SUB"})  /\ Step(Write(m, item.dst, Dest - Source, 8))
  \/ Running({"IMUL"}) /\ Step(Write(m, item.dst, Dest * Source, 8))
  \/ Running({"NEG"})  /\ Step(Write(m, item.dst, -Dest, 8))

Divide ==
  \/ Running({"CQO"})  /\ Step(SetReg(m, "rdx", IF m.regs["rax"] < 0 THEN -1 ELSE 0, 8))
  \/ Running({"IDIV"}) /\ Step(Divided(m, Dest))

Compare == Running({"CMP"}) /\ Step([m EXCEPT !.cmp = <<Dest, Source>>])

SetCondition ==
  Running({"SETE", "SETNE", "SETL", "SETLE"})
  /\ Step(Write(m, item.dst, IF Holds(m, item.op) THEN 1 ELSE 0, 1))

JumpTo ==
  /\ Running({"JMP", "JE", "JNE"})
  /\ pc' = IF Holds(m, item.op) THEN Goal ELSE pc + 1
  /\ UNCHANGED <<prog, status, m, out, calls>>

PushWord == Running({"PUSH"}) /\ Step(Push(m, Dest))
PopWord  == Running({"POP"}) /\ Step(SetReg(Drop(m), item.dst.reg, Top(m), 8))

CallFunction ==
  /\ Running({"CALL"})
  /\ calls' = Append(calls, [callee |-> item.dst.val[1], back |-> pc + 1,
                             rsp |-> m.regs["rsp"], rbp |-> m.regs["rbp"]])
  /\ m' = Push(m, pc + 1)
  /\ pc' = Goal
  /\ UNCHANGED <<prog, status, out>>

ReturnFrom ==
  /\ Running({"RET"})
  /\ pc' = Top(m)
  /\ m' = Drop(m)
  /\ calls' = SubSeq(calls, 1, Len(calls) - 1)
  /\ UNCHANGED <<prog, status, out>>

(* The system calls of crt0.s: write(1, %rsi, 1) and exit(%rdi). *)
WriteByte ==
  /\ Running({"SYSCALL"}) /\ m.regs["rax"] = 1
  /\ out' = Append(out, ByteAt(m, m.regs["rsi"]))
  /\ m' = [m EXCEPT !.regs["rax"] = 1, !.regs["rcx"] = pc + 1, !.regs["r11"] = 0]
  /\ pc' = pc + 1
  /\ UNCHANGED <<prog, status, calls>>

Exit ==
  /\ Running({"SYSCALL"}) /\ m.regs["rax"] = 60
  /\ status' = "exited"
  /\ UNCHANGED <<prog, pc, m, out, calls>>

Fault ==
  /\ status = "running" /\ item.kind = "INSTR" /\ ~CanExecute
  /\ status' = "fault"
  /\ UNCHANGED <<prog, pc, m, out, calls>>

Next ==
  \/ PassLabel \/ Move \/ Compute \/ Divide \/ Compare \/ SetCondition \/ JumpTo
  \/ PushWord \/ PopWord \/ CallFunction \/ ReturnFrom \/ WriteByte \/ Exit \/ Fault

(* A processor goes on until the program exits or is stopped. *)
Spec == Init /\ [][Next]_vars /\ WF_vars(Next)

-----------------------------------------------------------------------------
(* Properties.                                                             *)

(* A program that C gives a meaning ends as it should: main's value is     *)
(* given to exit and putchar wrote what it should, whatever the stack held *)
(* before, however its expressions, calls and loops are nested.            *)
ResultCorrect ==
  status \in {"exited", "fault"} /\ prog.meaning.status = "ok" =>
    /\ status = "exited"
    /\ m.regs["rdi"] = prog.meaning.result
    /\ out = prog.meaning.out

(* At every call %rsp is a multiple of STACK_ALIGN, however many values    *)
(* the expressions around the call have pushed (gen.c:213).                *)
CallsAligned ==
  status = "running" /\ item.op = "CALL" => m.regs["rsp"] % StackAlign = 0

(* A function returns to its caller, and gives back the frame and the      *)
(* stack as they were at the call: no store of the callee reached them.    *)
CallersIntact ==
  [][Len(calls') < Len(calls) =>
       LET last == calls[Len(calls)]
       IN pc' = last.back /\ m'.regs["rsp"] = last.rsp /\ m'.regs["rbp"] = last.rbp]_vars

FrameSize(tree, fname) ==
  StackSize(AssignLvarOffsets(tree.funcs[FuncNamed(tree, fname)]).below)

(* Between statements no temporary is left: at the labels of a loop, of a  *)
(* branch and of the epilogue %rsp is where the prologue put it, so that a *)
(* loop does not grow the stack.                                           *)
TemporariesPopped ==
  status = "running" /\ item.kind = "LABEL"
    /\ item.dst.val[1] \in {".L.begin.", ".L.endfor.", ".L.else.", ".L.endif.", ".L.return."} =>
      m.regs["rsp"] = m.regs["rbp"] - FrameSize(prog.tree, calls[Len(calls)].callee)

(* Each label an instruction names is there, once: the encoder resolves a  *)
(* name to the first item of that name.                                    *)
LabelsResolve ==
  \A i \in DOMAIN prog.code :
    LET operands == {prog.code[i].dst, prog.code[i].src}
    IN \A o \in {o \in operands : o.kind \in {"LABEL", "RIP"}} :
         prog.code[i].kind \in {"INSTR", "LABEL"} =>
           Cardinality({k \in LabelIndices(prog.code) : prog.code[k].dst.val = o.val}) = 1


(* Every program that has a meaning ends. *)
Ends == (prog.meaning.status = "ok") ~> (status = "exited")
=============================================================================
