----------------------------- MODULE MCCompiled -----------------------------
(* Programs like those of tests/*.c, with smaller numbers: an int has -128 *)
(* to 127 here and a char -2 to 1.                                         *)
EXTENDS Compiled

ADD(a, b) == Binary("ADD", a, b)
SUB(a, b) == Binary("SUB", a, b)
MUL(a, b) == Binary("MUL", a, b)
DIV(a, b) == Binary("DIV", a, b)
MOD(a, b) == Binary("MOD", a, b)
EQ(a, b)  == Binary("EQ", a, b)
NE(a, b)  == Binary("NE", a, b)
LT(a, b)  == Binary("LT", a, b)
LE(a, b)  == Binary("LE", a, b)
AND(a, b) == Binary("AND", a, b)
OR(a, b)  == Binary("OR", a, b)
NOT(a)    == Unary("NOT", a)
MINUS(a)  == Unary("NEG", a)
ADDR(a)   == Unary("ADDR", a)
STAR(a)   == Unary("DEREF", a)
SIZEOF(a) == Unary("SIZEOF", a)

Let(name, expr) == Stmt(Assign(VAR(name), expr))
Ints(names) == [k \in DOMAIN names |-> Var(names[k], IntType)]
PtrInt  == Pointer(IntType)
PtrChar == Pointer(CharType)

Main(locals, stmts) == Func("main", IntType, << >>, locals, stmts)
Alone(locals, stmts) == Program(<<Main(locals, stmts)>>, << >>)
a == VAR("a")
b == VAR("b")
c == VAR("c")
i == VAR("i")
j == VAR("j")
n == VAR("n")
p == VAR("p")
r == VAR("r")
s == VAR("s")

(* Operators (test02 to test05): every pair of operands, one operator.     *)
Operands == <<(<<-7, 2>>), (<<7, -2>>), (<<2, 7>>), (<<5, 5>>)>>
Operators == {"ADD", "SUB", "MUL", "DIV", "MOD", "EQ", "NE", "LT", "LE", "AND", "OR"}
OperatorPrograms ==
  [key \in Operators \X DOMAIN Operands |->
     Alone(Ints(<<"a", "b">>),
           <<Let("a", NUM(Operands[key[2]][1])), Let("b", NUM(Operands[key[2]][2])), Return(Binary(key[1], a, b))>>)]

Precedence == Alone(Ints(<<"a", "b">>),
  <<Let("a", NUM(20)), Let("b", NUM(6)),
    Return(ADD(SUB(ADD(a, MUL(b, NUM(2))), DIV(NUM(10), NUM(5))), MOD(NUM(17), NUM(5))))>>)

ShortCircuit == Alone(Ints(<<"a", "r">>),
  <<Let("a", NUM(0)), Let("r", NUM(0)),
    Let("r", ADD(r, MUL(AND(NUM(1), NUM(3)), NUM(2)))),
    Let("r", ADD(r, MUL(OR(NUM(0), NUM(5)), NUM(4)))),
    If(AND(a, DIV(NUM(1), a)), Return(NUM(100)), Null),
    If(OR(NOT(a), DIV(NUM(1), a)), Return(MINUS(r)), Return(NUM(101)))>>)

(* Branches and loops (test06 to test10). *)
Branches == Alone(Ints(<<"a", "r">>),
  <<Let("a", NUM(7)),
    If(GT(a, NUM(5)), Let("r", NUM(1)), Let("r", NUM(2))),
    If(GE(a, NUM(100)), Let("r", ADD(r, NUM(10))), Block(<<Let("r", ADD(r, NUM(20))), Block(<< >>)>>)),
    If(EQ(a, NUM(7)), Block(<<Let("r", ADD(r, NUM(50)))>>), Null),
    Return(r)>>)

Loops == Alone(Ints(<<"i", "j", "n">>),
  <<Let("n", NUM(0)), Let("i", NUM(0)),
    For(Assign(i, NUM(0)), LT(i, NUM(3)), Assign(i, ADD(i, NUM(1))),
        For(Assign(j, NUM(0)), LT(j, i), Assign(j, ADD(j, NUM(1))), Let("n", ADD(n, NUM(1))))),
    While(AND(LT(n, NUM(9)), i), Let("n", ADD(n, i))),
    For(Null, Null, Null, If(LE(NUM(12), n), Return(SUB(n, NUM(1))), Let("n", ADD(n, NUM(1)))))>>)

Chained == Alone(Ints(<<"a", "b", "c">>),
  <<Let("a", Assign(b, NUM(7))), Let("c", ADD(Assign(a, NUM(3)), b)), Return(ADD(MUL(a, b), c))>>)

(* Calls (test11 to test13), and output (libc.c). *)
Params(names) == Ints(names)
AddF == Func("add", IntType, Params(<<"a", "b">>), << >>, <<Return(ADD(a, b))>>)
Square == Func("square", IntType, Params(<<"n">>), << >>, <<Return(MUL(n, n))>>)
NestedCalls == Program(<<AddF, Square,
  Main(<< >>, <<Return(CALL("add", <<CALL("square", <<NUM(3)>>), CALL("add", <<NUM(2), NUM(5)>>)>>))>>)>>, << >>)

Names8 == <<"a", "b", "c", "d", "e", "f", "g", "h">>
Weigh == Program(<<
  Func("weigh", IntType, Params(Names8), << >>,
       <<Return(FoldLeft(LAMBDA acc, k : ADD(acc, MUL(VAR(Names8[k]), NUM(9 - k))), NUM(0), [k \in 1..8 |-> k]))>>),
  Main(<< >>, <<Return(CALL("weigh", [k \in 1..8 |-> NUM(k)]))>>)>>, << >>)

Recursion == Program(<<
  Func("fact", IntType, Params(<<"n">>), << >>,
       <<If(LE(n, NUM(1)), Return(NUM(1)), Null), Return(MUL(n, CALL("fact", <<SUB(n, NUM(1))>>)))>>),
  Func("fib", IntType, Params(<<"n">>), << >>,
       <<If(LT(n, NUM(2)), Return(n), Null),
         Return(ADD(CALL("fib", <<SUB(n, NUM(1))>>), CALL("fib", <<SUB(n, NUM(2))>>)))>>),
  Main(<< >>, <<Return(ADD(CALL("fact", <<NUM(4)>>), CALL("fib", <<NUM(4)>>)))>>)>>, << >>)

Putd == Func("putd", IntType, Params(<<"n">>), << >>,
  <<If(LT(n, NUM(0)), Block(<<Stmt(CALL("putchar", <<NUM(45)>>)), Return(CALL("putd", <<MINUS(n)>>))>>), Null),
    If(GE(n, NUM(10)), Stmt(CALL("putd", <<DIV(n, NUM(10))>>)), Null),
    Stmt(CALL("putchar", <<ADD(MOD(n, NUM(10)), NUM(48))>>)), Return(n)>>)
Decimal == Program(<<Putd, Main(<< >>, <<Return(ADD(NUM(1), CALL("putd", <<NUM(-27)>>)))>>)>>, << >>)

(* A call of n arguments, one of them a call of k arguments, under d       *)
(* operands already pushed.                                                *)
Arity(name, k) == Func(name, IntType, Ints(SubSeq(Names8, 1, k)), << >>,
  <<Return(IF k = 0 THEN NUM(9) ELSE SUB(VAR(Names8[1]), VAR(Names8[k])))>>)
Under(d, expr) == FoldLeft(LAMBDA acc, k : SUB(acc, NUM(k)), expr, [k \in 1..d |-> k])
CallIn(outer, inner, at, d) == Program(<<Arity("f", outer), Arity("g", inner),
  Main(<< >>, <<Return(Under(d,
    CALL("f", [k \in 1..outer |-> IF k = at THEN CALL("g", [l \in 1..inner |-> NUM(l)]) ELSE NUM(2 * k)])))>>)>>, << >>)
CallPrograms ==
  [key \in {1, 6, 7, 8} \X {0, 1, 7, 8} \X {1, 6, 7} \X (0..2) |-> CallIn(key[1], key[2], key[3], key[4])]

(* Types, pointers and arrays (test14 to test23). *)
Chars == Alone(<<Var("a", CharType), Var("b", CharType), Var("n", IntType), Var("c", CharType)>>,
  <<Let("a", NUM(5)), Let("b", NUM(2)), Let("n", NUM(100)), Let("c", NUM(-1)),
    If(GE(b, NUM(0)), Return(NUM(1)), Null), If(NE(n, NUM(100)), Return(NUM(2)), Null),
    Return(ADD(MUL(a, NUM(10)), ADD(b, c)))>>)

Store2 == Func("store", IntType, <<Var("p", PtrInt), Var("n", IntType)>>, << >>,
               <<Stmt(Assign(STAR(p), n)), Return(NUM(0))>>)
Addresses == Program(<<Store2, Main(Ints(<<"a", "b">>) \o <<Var("p", Pointer(PtrInt)), Var("s", PtrInt)>>,
  <<Let("a", NUM(1)), Let("b", NUM(2)), If(EQ(ADDR(a), ADDR(b)), Return(NUM(1)), Null),
    Stmt(CALL("store", <<ADDR(a), NUM(20)>>)), Let("s", ADDR(b)), Let("p", ADDR(s)),
    Stmt(Assign(STAR(STAR(p)), NUM(7))), If(NE(STAR(p), s), Return(NUM(2)), Null),
    Return(ADD(a, STAR(s)))>>)>>, << >>)

PointerArith == Alone(<<Var("a", Array(IntType, 4)), Var("p", PtrInt)>>,
  <<Let("p", a), Stmt(Assign(STAR(p), NUM(10))), Stmt(Assign(STAR(ADD(p, NUM(1))), NUM(20))),
    Stmt(Assign(STAR(ADD(NUM(3), p)), NUM(40))), Stmt(Assign(Subscript(a, NUM(2)), NUM(30))),
    If(NE(SUB(ADD(p, NUM(3)), p), NUM(3)), Return(NUM(3)), Null),
    If(LE(ADD(p, NUM(1)), p), Return(NUM(4)), Null),
    Let("p", ADD(p, NUM(3))), Let("p", SUB(p, NUM(1))),
    Return(ADD(STAR(p), SUB(STAR(SUB(p, NUM(1))), Subscript(p, NUM(1)))))>>)

Rows == Alone(<<Var("a", Array(Array(IntType, 3), 2)), Var("s", Array(CharType, 3))>> \o Ints(<<"i", "j", "n">>),
  <<Let("n", NUM(0)),
    For(Assign(i, NUM(0)), LT(i, NUM(2)), Assign(i, ADD(i, NUM(1))),
        Block(<<Stmt(Assign(Subscript(s, i), NUM(1))),
          For(Assign(j, NUM(0)), LT(j, NUM(3)), Assign(j, ADD(j, NUM(1))),
              Stmt(Assign(Subscript(Subscript(a, i), j), ADD(MUL(i, NUM(4)), j))))>>)),
    Stmt(Assign(Subscript(s, NUM(2)), NUM(-2))),
    Return(ADD(MUL(Subscript(Subscript(a, NUM(1)), NUM(2)), NUM(5)),
               ADD(STAR(ADD(STAR(ADD(a, NUM(1))), NUM(0))), Subscript(s, NUM(2)))))>>)

Third == Func("third", IntType, <<Var("a", PtrInt), Var("s", PtrChar)>>, << >>,
              <<Return(SUB(Subscript(a, NUM(2)), STAR(s)))>>)
ArrayParams == Program(<<Third, Main(<<Var("s", Array(CharType, 3)), Var("b", Array(IntType, 3)), Var("i", IntType)>>,
  <<For(Assign(i, NUM(0)), LT(i, NUM(3)), Assign(i, ADD(i, NUM(1))),
        Block(<<Stmt(Assign(Subscript(b, i), MUL(i, NUM(10)))), Stmt(Assign(Subscript(s, i), SUB(i, NUM(1))))>>)),
    Return(CALL("third", <<b, s>>))>>)>>, << >>)

Sizes == Program(<<Main(<<Var("c", CharType), Var("n", IntType), Var("p", PtrInt), Var("a", Array(IntType, 5))>>,
  <<Let("p", a), Let("n", NUM(1)), Let("c", NUM(1)),
    Return(ADD(ADD(MUL(SIZEOF(c), NUM(64)), ADD(SIZEOF(a), MUL(SIZEOF(Subscript(a, NUM(0))), SIZEOF(p)))),
               SUB(SIZEOF(STR(1)), SUB(SIZEOF(ADD(c, c)), SIZEOF(Assign(n, NUM(3)))))))>>)>>, <<(<<1, 2, 3>>)>>)

Casts == Alone(<<Var("n", IntType), Var("c", CharType), Var("p", PtrInt)>>,
  <<Let("n", NUM(7)), If(NE(CastTo(CharType, n), NUM(-1)), Return(NUM(1)), Null),
    Let("c", NUM(1)), Let("p", CastTo(PtrInt, ADDR(n))),
    If(NE(CastTo(IntType, c), NUM(1)), Return(NUM(2)), Null),
    Return(ADD(STAR(p), MUL(CastTo(CharType, NUM(6)), NUM(10))))>>)

Length == Func("length", IntType, <<Var("s", PtrChar)>>, <<Var("p", PtrChar)>>,
  <<Let("p", s), While(STAR(p), Let("p", ADD(p, NUM(1)))), Return(SUB(p, s))>>)
Walk == Program(<<Length, Main(<<Var("s", PtrChar)>>,
  <<Let("s", STR(2)), If(NE(Subscript(s, NUM(2)), NUM(1)), Return(NUM(1)), Null),
    Return(SUB(MUL(CALL("length", <<s>>), NUM(10)), CALL("length", <<STR(1)>>)))>>)>>,
  <<(<<3>>), (<<2, 3, 1, 1>>)>>)

(* A callee that fills its frame, called between the stores and the loads  *)
(* of a caller that fills its own.                                         *)
Mixed2 == <<Var("c", CharType), Var("p", PtrInt), Var("s", Array(CharType, 3)), Var("n", IntType), Var("r", CharType)>>
FillFrame(k) ==
  <<Let("c", NUM(k)), Let("p", ADDR(n)), Stmt(Assign(Subscript(s, NUM(0)), NUM(-k))),
    Stmt(Assign(Subscript(s, NUM(2)), NUM(k))), Let("n", NUM(50 + k)), Let("r", NUM(-1))>>
SumFrame == ADD(ADD(c, STAR(p)), ADD(MUL(Subscript(s, NUM(0)), NUM(3)), ADD(Subscript(s, NUM(2)), MUL(r, NUM(5)))))
Frames == Program(<<Func("fill", VoidType, << >>, Mixed2, FillFrame(0) \o <<Return(Null)>>),
  Main(Mixed2, FillFrame(1) \o <<Stmt(CALL("fill", << >>)), Return(SumFrame)>>)>>, << >>)

(* A program without a meaning, stopped by the processor. *)
Trap == Alone(Ints(<<"a">>), <<Let("a", NUM(0)), Return(DIV(NUM(1), a))>>)

(* What sem.c is there to reject. *)
Bad(expr) == Alone(Ints(<<"a">>) \o <<Var("p", PtrInt), Var("s", Array(IntType, 2)), Var("r", Pointer(VoidType))>>,
  <<Let("a", NUM(1)), Let("p", ADDR(a)), Let("r", p), Stmt(expr), Return(NUM(0))>>)
Rejected ==
  "deref int" :> Bad(STAR(a)) @@ "deref void" :> Bad(STAR(r)) @@ "address of 5" :> Bad(ADDR(NUM(5)))
  @@ "3 = a" :> Bad(Assign(NUM(3), a)) @@ "a + a = a" :> Bad(Assign(ADD(a, a), a))
  @@ "array = p" :> Bad(Assign(s, p)) @@ "p + array" :> Bad(ADD(p, s)) @@ "3 - p" :> Bad(SUB(NUM(3), p))
  @@ "main(a)" :> Bad(CALL("main", <<a>>))

NamedPrograms ==
  "precedence" :> Precedence @@ "short circuit" :> ShortCircuit @@ "branches" :> Branches @@ "loops" :> Loops
  @@ "chained" :> Chained @@ "nested calls" :> NestedCalls @@ "weigh" :> Weigh @@ "recursion" :> Recursion
  @@ "decimal" :> Decimal @@ "chars" :> Chars @@ "addresses" :> Addresses @@ "pointer arith" :> PointerArith
  @@ "rows" :> Rows @@ "array params" :> ArrayParams @@ "sizes" :> Sizes @@ "casts" :> Casts
  @@ "walk" :> Walk @@ "frames" :> Frames @@ "division by zero" :> Trap

Named(programs) == [key \in {<<k>> : k \in DOMAIN programs} |-> programs[key[1]]]

MCPrograms == OperatorPrograms @@ CallPrograms @@ Named(Rejected @@ NamedPrograms)

MCFills == {0, 3}

-----------------------------------------------------------------------------
(* A program C gives a meaning that the compiler does not give it.         *)

(* n = c = 5 for a char c, which can hold no 5. *)
NarrowPrograms == Named("n = c = 5" :> Alone(<<Var("n", IntType), Var("c", CharType)>>,
  <<Let("n", Assign(c, NUM(5))), Return(n)>>))

(* SYNTAX.md counts assignment among what is done of ISO C99, where the    *)
(* value of an assignment is that of its left operand afterwards.          *)
AssignmentHasValue == ResultCorrect
=============================================================================
