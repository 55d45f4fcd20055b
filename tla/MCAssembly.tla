----------------------------- MODULE MCAssembly -----------------------------
(* Every operation with representative registers, displacements and        *)
(* immediates on both sides of each boundary; short lists that change      *)
(* sections and define, declare and name labels in every order; programs   *)
(* that gen.c generates; and texts that nobody generated.                  *)
EXTENDS Assembly

S == INSTANCE Sem
G == INSTANCE Gen WITH MaxRegArgs <- 6, WordSize <- 8, StackAlign <- 16

(* Low and high, the byte registers that need a prefix, and the numbers    *)
(* whose low bits are those of %rsp and %rbp.                              *)
Regs == <<"rax", "rbx", "rsp", "rbp", "rsi", "r8", "r12", "r13", "r15">>

Each(seq, its(_)) == FlattenSeq([j \in DOMAIN seq |-> its(seq[j])])

Pairs(a) == Each(Regs, LAMBDA b :
  <<Add(a, b), Sub(a, b), Imul(a, b), Cmp(a, b), MovRR(a, b), Movsx(a, b, 1), Movsx(a, b, 4), Movzb(a, b)>>)

Accesses(a, disp) == Each(Regs, LAMBDA b :
  <<MovLoad(a, disp, b, 1), MovLoad(a, disp, b, 4), MovLoad(a, disp, b, 8), Lea(a, disp, b),
    MovStore(b, a, disp, 1), MovStore(b, a, disp, 4), MovStore(b, a, disp, 8)>>)

Singles(a) ==
  <<Idiv(a), Neg(a), Set("SETE", a), Set("SETNE", a), Set("SETL", a), Set("SETLE", a), PushReg(a), PopReg(a),
    Cqo, Ret, Syscall, MovImm8(0, a), MovImm8(1, a), MovImm8(-2, a), LeaRip(a, <<"main">>)>>
  \o Each(<<0, 127, -128>>, LAMBDA n : <<AddImm(n, a), SubImm(n, a), CmpImm(n, a)>>)
  \o Each(<<0, 127, -128, 128, -129, 5000, -5000>>, LAMBDA n : <<MovImm(n, a)>>)

RegSet == {Regs[j] : j \in DOMAIN Regs}

(* Lists of up to MaxPieces of these. *)
Rodata == Section(".rodata", "PROGBITS", {"ALLOC"})
Code   == Section(".text", "PROGBITS", {"ALLOC", "EXECINSTR"})
Pieces == <<Rodata, Code, Label(<<"f">>), Label(<<"g">>), Globl(<<"f">>), Call(<<"f">>),
            Jump("JE", <<"g">>), LeaRip("r9", <<"f">>), Bytes(<<1, 2, 3>>)>>
MaxPieces == 4

(* Generated programs: a string, a loop and a library call; a call between *)
(* functions under a branch.                                               *)
IntVar(name) == S!Var(name, S!IntType)
Let(name, expr) == S!Stmt(S!Assign(S!VAR(name), expr))
Main(vars_, body) == S!Func("main", S!IntType, << >>, vars_, body)

Prints == S!Program(<<Main(<<S!Var("s", S!Pointer(S!CharType)), IntVar("i")>>,
  <<Let("s", S!STR(1)),
    S!For(S!Assign(S!VAR("i"), S!NUM(0)), S!Binary("LT", S!VAR("i"), S!NUM(2)),
          S!Assign(S!VAR("i"), S!Binary("ADD", S!VAR("i"), S!NUM(1))),
          S!Stmt(S!CALL("putchar", <<S!Unary("DEREF", S!Binary("ADD", S!VAR("s"), S!VAR("i")))>>))),
    S!Return(S!VAR("i"))>>)>>, <<(<<1, 2>>)>>)

Calls == S!Program(<<S!Func("f", S!IntType, <<IntVar("n")>>, << >>, <<S!Return(S!VAR("n"))>>),
  Main(<< >>, <<S!If(S!CALL("f", <<S!NUM(1)>>), S!Return(S!NUM(2)), S!Null), S!Return(S!NUM(3))>>)>>, << >>)

ListKeys ==
  ({"pairs", "singles"} \X RegSet) \union ({"accesses"} \X RegSet \X {0, 1, -2, 2, -3})
  \union ({"arranged"} \X UNION {[1..n -> DOMAIN Pieces] : n \in 0..MaxPieces})
  \union ({"generated"} \X {1, 2})

ListOf(key) ==
  CASE key[1] = "pairs"     -> Pairs(key[2])
    [] key[1] = "singles"   -> Singles(key[2])
    [] key[1] = "accesses"  -> Accesses(key[2], key[3])
    [] key[1] = "arranged"  -> Append([j \in DOMAIN key[2] |-> Pieces[key[2][j]]],
                                       Directive(<<".section", ".note.GNU-stack">>))
    [] key[1] = "generated" -> G!BuildProgram(S!Analyze(<<Prints, Calls>>[key[2]]))

MCLists == [key \in ListKeys |-> ListOf(key)]

-----------------------------------------------------------------------------
(* Texts. *)

Reg(name, width) == OperandText("%", <<name, width>>, 0)
At(val, name, width) == OperandText("(%)", <<name, width>>, val)
Lit(val) == OperandText("$", << >>, val)
Name(name) == OperandText("name", name, 0)
Does(stem, suffix, opnds) == Line(<< >>, InstrText(stem, suffix, opnds))
Body(body) == Line(<< >>, body)

Crt0 == <<
  Body(SectionText(".text")), Body(GloblText(<<"_start">>)), Line(<<(<<"_start">>)>>, Nothing),
  Does("CALL", "", <<Name(<<"main">>)>>), Does("MOV", "", <<Reg("rax", 8), Reg("rdi", 8)>>),
  Does("MOV", "", <<Lit(60), Reg("rax", 8)>>), Does("SYSCALL", "", << >>), Line(<< >>, Nothing),
  Body(GloblText(<<"putchar">>)), Line(<<(<<"putchar">>)>>, Nothing), Does("PUSH", "", <<Reg("rbp", 8)>>),
  Does("MOV", "", <<Reg("rsp", 8), Reg("rbp", 8)>>), Does("SUB", "", <<Lit(8), Reg("rsp", 8)>>),
  Does("MOV", "", <<Reg("rdi", 8), At(-8, "rbp", 8)>>), Does("MOV", "", <<Lit(1), Reg("rax", 8)>>),
  Does("LEA", "", <<At(-8, "rbp", 8), Reg("rsi", 8)>>), Does("SYSCALL", "", << >>),
  Does("MOV", "", <<At(-8, "rbp", 8), Reg("rax", 8)>>), Does("POP", "", <<Reg("rbp", 8)>>), Does("RET", "", << >>)>>

(* Several labels on a line, suffixes, sections with flags, numbers of     *)
(* every width, a section of zeros, a directive that is not read.          *)
Varied == <<
  Line(<<(<<"a">>), (<<"b">>)>>, InstrText("MOV", "q", <<Lit(5), Reg("r12", 8)>>)),
  Does("MOVSX", "lq", <<At(-3, "r13", 8), Reg("rbx", 8)>>), Does("MOVSX", "", <<Reg("rsi", 1), Reg("r8", 8)>>),
  Does("MOVZB", "l", <<Reg("rbp", 1), Reg("rax", 8)>>), Does("RET", "q", << >>),
  Body(SectionFlags(".tab", {"ALLOC", "WRITE"}, FALSE)), Line(<<(<<"tab">>)>>, Ints(4, <<1, -1, 127, -128>>)),
  Body(SectionText(".data")), Body(Ints(8, <<300, -300>>)), Body(Ints(2, <<7>>)), Body(OtherDirective(<<".align">>)),
  Body(SectionFlags(".bss", {"ALLOC", "WRITE"}, TRUE)), Line(<<(<<"zero">>)>>, Skip(3)),
  Body(SectionText(".tab")), Body(SectionText(".text")), Does("JMP", "", <<Name(<<"b">>)>>),
  Does("LEA", "q", <<OperandText("(%rip)", <<"zero">>, 0), Reg("rdi", 8)>>)>>

(* A text that ends the assembler, after a line that does not. *)
Unread(line_) == <<Does("RET", "", << >>), line_, Does("RET", "", << >>)>>
Refusals == <<
  Does("XCHG", "", << >>), Does("MOV", "x", << >>), Does("PUSH", "", <<Reg("ax", 2)>>),
  Does("CMP", "", <<At(1, "ah", 1), Reg("rax", 8)>>), Does("MOV", "", <<Lit(1), Lit(2), Reg("rax", 8)>>),
  Line(<<(<<"a">>)>>, InstrText("JMP", "", <<OperandText("?", << >>, 0)>>))>>

MCLiterals == UNION {[1..n -> {0, 10, 97, Quote, Hash, Backslash}] : n \in 0..2}
              \union [1..3 -> {97, Quote, Hash, Backslash}]

TextKeys ==
  {<<"crt0">>, <<"varied">>} \union ({"refused"} \X DOMAIN Refusals)
  \union ({"string"} \X MCLiterals \X {<< >>, <<Hash, Quote>>} \X BOOLEAN)

TextOf(key) ==
  CASE key[1] = "crt0"    -> Crt0
    [] key[1] = "varied"  -> Varied
    [] key[1] = "refused" -> Unread(Refusals[key[2]])
    [] key[1] = "string"  -> <<Line(<< >>, String(Spell(key[2]) \o <<Quote>> \o key[3], key[4]))>>

MCTexts == [key \in TextKeys |-> TextOf(key)]

(* The soundness of the objects is proved of every list and text here.     *)
ASSUME MCInputsEncodable == InputsEncodable
=============================================================================
