-------------------------------- MODULE Gen --------------------------------
(***************************************************************************)
(* The code generator of src/arch/x86_64/gen.c: a walk over the annotated  *)
(* tree that appends items to a list.  Its static variables are the fields *)
(* of the state g that the walk threads through: the items so far, how     *)
(* many values are pushed (Depth) and the next label number (LabelId).     *)
(***************************************************************************)
EXTENDS Ast, Asm, Layout

ArgReg == <<"rdi", "rsi", "rdx", "rcx", "r8", "r9">>

Emit(g, items) == [g EXCEPT !.code = @ \o items]

(* next(g), with g worked out first: TLC would come back to it from every  *)
(* depth of next.                                                          *)
After(g, next(_)) == CHOOSE h \in {next(x) : x \in {g}} : TRUE

(* A label number that is used again. *)
CountNever(g) == g

Count(g) == [g EXCEPT !.label = @ + 1]

EmitPush(g)     == [Emit(g, <<PushReg("rax")>>) EXCEPT !.depth = @ + 1]
EmitPop(g, reg) == [Emit(g, <<PopReg(reg)>>) EXCEPT !.depth = @ - 1]

EmitLoad(g, type) ==
  IF type.kind = "ARRAY" THEN g ELSE Emit(g, <<MovLoad("rax", 0, "rax", type.size)>>)

EmitCast(g, type) ==
  IF type.kind \in {"CHAR", "INT"} THEN Emit(g, <<Movsx("rax", "rax", type.size)>>) ELSE g

(* The instructions after both operands of a binary operator are in        *)
(* registers, the left one in %rax and the right one in %rdi.              *)
CompareItems(set) == <<Cmp("rdi", "rax"), Set(set, "rax"), Movzb("rax", "rax")>>

BinaryItems(kind) ==
  CASE kind = "ADD" -> <<Add("rdi", "rax")>>
    [] kind = "SUB" -> <<Sub("rdi", "rax")>>
    [] kind = "MUL" -> <<Imul("rdi", "rax")>>
    [] kind = "DIV" -> <<Cqo, Idiv("rdi")>>
    [] kind = "MOD" -> <<Cqo, Idiv("rdi"), MovRR("rdx", "rax")>>
    [] kind = "EQ"  -> CompareItems("SETE")
    [] kind = "NE"  -> CompareItems("SETNE")
    [] kind = "LT"  -> CompareItems("SETL")
    [] kind = "LE"  -> CompareItems("SETLE")

RECURSIVE EmitExpr(_, _, _)

EmitAddr(g, node, off) ==
  CASE node.kind = "VAR"   -> Emit(g, <<Lea("rbp", off[node.val], "rax")>>)
    [] node.kind = "DEREF" -> EmitExpr(g, Lhs(node), off)

(* && leaves by its label for FALSE, || by the one for TRUE.               *)
EmitLogical(g, node, off, jump, way, taken, fallen) ==
  LET count == g.label
      lhs   == Emit(EmitExpr(Count(g), Lhs(node), off), <<CmpImm(0, "rax"), Jump(jump, <<way, count>>)>>)
      rhs   == EmitExpr(lhs, Rhs(node), off)
  IN Emit(rhs, <<CmpImm(0, "rax"), Jump(jump, <<way, count>>),
                 MovImm(fallen, "rax"), Jump("JMP", <<".L.end.", count>>),
                 Label(<<way, count>>), MovImm(taken, "rax"), Label(<<".L.end.", count>>)>>)

CallPushArgs(g, args, off) ==
  FoldRight(LAMBDA arg, acc : After(acc, LAMBDA h : EmitPush(EmitExpr(h, arg, off))), args, g)

CallPopArgs(g, nReg) ==
  FoldLeft(LAMBDA acc, i : EmitPop(acc, ArgReg[i]), g, [i \in 1..nReg |-> i])

(* Padding decided from the arguments alone, whatever is already pushed. *)
AlignPadOfArgs(depth, nStack) == nStack % (StackAlign \div WordSize)

AlignPad(depth, nStack) == (depth + nStack) % (StackAlign \div WordSize)

(* The stack words of a call are forgotten, and left where they are. *)
DropWordsCounted(g, n) == [g EXCEPT !.depth = @ - n]

DropWords(g, n) ==
  IF n > 0 THEN [Emit(g, <<AddImm(WordSize * n, "rsp")>>) EXCEPT !.depth = @ - n] ELSE g

(* Arguments go on the stack last to first, and those that have a register *)
(* are popped again; a pad word above them aligns %rsp at the call.        *)
EmitCall(g, node, off) ==
  LET nArgs  == Len(node.kids)
      nReg   == IF nArgs < MaxRegArgs THEN nArgs ELSE MaxRegArgs
      nStack == nArgs - nReg
      pad    == AlignPad(g.depth, nStack)
      padded == IF pad # 0
                THEN [Emit(g, <<SubImm(WordSize, "rsp")>>) EXCEPT !.depth = @ + 1] ELSE g
      called == Emit(CallPopArgs(CallPushArgs(padded, node.kids, off), nReg),
                     <<MovImm8(0, "rax"), Call(<<node.val>>)>>)
  IN DropWords(called, nStack + pad)

EmitAssign(g, node, off) ==
  LET value == EmitExpr(EmitPush(EmitAddr(g, Lhs(node), off)), Rhs(node), off)
  IN Emit(EmitPop(value, "rdi"), <<MovStore("rax", "rdi", 0, node.type.size)>>)

(* A binary operator whose operands end up exchanged. *)
EmitBinaryLhsFirst(g, node, off) ==
  LET operands == EmitExpr(EmitPush(EmitExpr(g, Lhs(node), off)), Rhs(node), off)
  IN Emit(EmitPop(operands, "rdi"), BinaryItems(node.kind))

EmitBinary(g, node, off) ==
  LET operands == After(EmitPush(EmitExpr(g, Rhs(node), off)), LAMBDA h : EmitExpr(h, Lhs(node), off))
  IN Emit(EmitPop(operands, "rdi"), BinaryItems(node.kind))

EmitExpr(g, node, off) ==
  CASE node.kind = "NUM" -> Emit(g, <<MovImm(node.val, "rax")>>)
    [] node.kind = "STR" -> Emit(g, <<LeaRip("rax", <<".Lstr", node.val>>)>>)
    [] node.kind \in {"VAR", "DEREF"} -> EmitLoad(EmitAddr(g, node, off), node.type)
    [] node.kind = "ADDR"   -> EmitAddr(g, Lhs(node), off)
    [] node.kind = "CAST"   -> EmitCast(EmitExpr(g, Lhs(node), off), node.type)
    [] node.kind = "ASSIGN" -> EmitAssign(g, node, off)
    [] node.kind = "NEG"    -> Emit(EmitExpr(g, Lhs(node), off), <<Neg("rax")>>)
    [] node.kind = "NOT"    ->
         Emit(EmitExpr(g, Lhs(node), off), <<CmpImm(0, "rax"), Set("SETE", "rax"), Movzb("rax", "rax")>>)
    [] node.kind = "AND"    -> EmitLogical(g, node, off, "JE", ".L.false.", 0, 1)
    [] node.kind = "OR"     -> EmitLogical(g, node, off, "JNE", ".L.true.", 1, 0)
    [] node.kind = "CALL"   -> EmitCall(g, node, off)
    [] OTHER -> EmitBinary(g, node, off)

-----------------------------------------------------------------------------
(* Statements; `fname' is the function they are in.                        *)

RECURSIVE EmitStmt(_, _, _, _)

EmitReturn(g, node, off, fname) ==
  Emit(IF IsNull(Lhs(node)) THEN Emit(g, <<MovImm(0, "rax")>>) ELSE EmitExpr(g, Lhs(node), off),
       <<Jump("JMP", <<".L.return.", fname>>)>>)

EmitIf(g, node, off, fname) ==
  LET count == g.label
      cond  == Emit(EmitExpr(Count(g), node.kids[1], off),
                    <<CmpImm(0, "rax"), Jump("JE", <<".L.else.", count>>)>>)
      then  == Emit(EmitStmt(cond, node.kids[2], off, fname),
                    <<Jump("JMP", <<".L.endif.", count>>), Label(<<".L.else.", count>>)>>)
      els   == EmitStmt(then, node.kids[3], off, fname)
  IN Emit(els, <<Label(<<".L.endif.", count>>)>>)

EmitOpt(g, node, off) == IF IsNull(node) THEN g ELSE EmitExpr(g, node, off)

LoopTest(g, node, off, count) ==
  IF IsNull(node) THEN g
  ELSE Emit(EmitExpr(g, node, off), <<CmpImm(0, "rax"), Jump("JE", <<".L.endfor.", count>>)>>)

(* A loop that tests its condition and goes back before the increment. *)
EmitForSkipsInc(g, node, off, fname) ==
  LET count == g.label
      init  == Emit(EmitOpt(Count(g), node.kids[1], off), <<Label(<<".L.begin.", count>>)>>)
      body  == After(LoopTest(init, node.kids[2], off, count),
                     LAMBDA h : EmitStmt(h, node.kids[4], off, fname))
  IN Emit(EmitOpt(Emit(body, <<Jump("JMP", <<".L.begin.", count>>)>>), node.kids[3], off),
          <<Label(<<".L.endfor.", count>>)>>)

EmitFor(g, node, off, fname) ==
  LET count == g.label
      init  == Emit(EmitOpt(Count(g), node.kids[1], off), <<Label(<<".L.begin.", count>>)>>)
      body  == After(LoopTest(init, node.kids[2], off, count),
                     LAMBDA h : EmitStmt(h, node.kids[4], off, fname))
  IN Emit(EmitOpt(body, node.kids[3], off),
          <<Jump("JMP", <<".L.begin.", count>>), Label(<<".L.endfor.", count>>)>>)

EmitStmt(g, node, off, fname) ==
  CASE node.kind = "RETURN" -> EmitReturn(g, node, off, fname)
    [] node.kind = "IF"     -> EmitIf(g, node, off, fname)
    [] node.kind = "FOR"    -> EmitFor(g, node, off, fname)
    [] node.kind = "BLOCK"  ->
         FoldLeft(LAMBDA acc, stmt : After(acc, LAMBDA h : EmitStmt(h, stmt, off, fname)), g, node.kids)
    [] node.kind = "EXPR_STMT" -> EmitExpr(g, Lhs(node), off)
    [] node.kind = "NULL"      -> g   \* NOP, or no else branch

-----------------------------------------------------------------------------
(* Functions and programs.                                                 *)

(* Distances below %rbp, the newest variable first. *)
AssignLvarOffsets(func) ==
  FoldRight(LAMBDA v, acc : LET below == NextOffset(acc.below, v.type)
                            IN [below |-> below, off |-> (v.name :> -below) @@ acc.off],
            func.vars, [below |-> 0, off |-> << >>])

SpillItems(func, off, i) ==
  LET param == func.vars[i]
      size  == param.type.size
  IN IF i <= MaxRegArgs
     THEN <<MovStore(ArgReg[i], "rbp", off[param.name], size)>>
     ELSE <<MovLoad("rbp", StackArgOffset(i - 1), "rax", WordSize),
            MovStore("rax", "rbp", off[param.name], size)>>

(* The caller's frame is kept, this one is made, and the parameters stored *)
(* into it, from their registers or from the words above it.               *)
Prologue(func, frame) ==
  LET size == StackSize(frame.below)
  IN <<PushReg("rbp"), MovRR("rsp", "rbp")>>
     \o (IF size # 0 THEN <<SubImm(size, "rsp")>> ELSE << >>)
     \o FlattenSeq([i \in 1..func.nparams |-> SpillItems(func, frame.off, i)])

Epilogue(func) ==
  <<MovImm(0, "rax"), Label(<<".L.return.", func.name>>),
    MovRR("rbp", "rsp"), PopReg("rbp"), Ret>>

EmitFunction(g, func) ==
  LET frame == AssignLvarOffsets(func)
      start == Emit(g, <<Globl(<<func.name>>), Label(<<func.name>>)>> \o Prologue(func, frame))
  IN Emit(EmitStmt(start, func.body, frame.off, func.name), Epilogue(func))

(* Each literal under its label, closed by a zero. *)
DataItems(strings) ==
  IF strings = << >> THEN << >>
  ELSE <<Section(".rodata", "PROGBITS", {"ALLOC"})>>
       \o FlattenSeq([s \in DOMAIN strings |-> <<Label(<<".Lstr", s>>), Bytes(Append(strings[s], 0))>>])

(* The items of an annotated program, in one list, between two directives. *)
BuildProgram(prog) ==
  LET before == <<Directive(<<".file", "cc">>)>> \o DataItems(prog.strings)
                \o <<Section(".text", "PROGBITS", {"ALLOC", "EXECINSTR"})>>
      funcs  == FoldLeft(EmitFunction, [code |-> before, depth |-> 0, label |-> 0], prog.funcs)
  IN Append(funcs.code, Directive(<<".section", ".note.GNU-stack">>))
=============================================================================
