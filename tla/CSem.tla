-------------------------------- MODULE CSem --------------------------------
(***************************************************************************)
(* The meaning of a program, by ISO C99 (SYNTAX.md) and not by the         *)
(* compiler: an evaluator of the tree the parser built, which knows        *)
(* objects and values and neither a frame, a register nor a byte.          *)
(*                                                                         *)
(* A value is of a type; a pointer is an object and a distance into it.    *)
(* Memory is the values of scalars, by object and distance.  Where C       *)
(* leaves a program undefined the evaluation is "undefined", where an      *)
(* operand has no meaning at all it is "stuck".  Of the orders C allows    *)
(* for operands it takes the one of the code generator: the right operand  *)
(* of a binary operator, and the last argument of a call, come first.      *)
(***************************************************************************)
EXTENDS Ast, TLC

CONSTANTS ByteBase  \* bound: values of a byte

Half(size) == ByteBase ^ size \div 2
Fits(n, type) == -Half(type.size) <= n /\ n < Half(type.size)
Narrow(n, type) ==
  LET u == n % (2 * Half(type.size)) IN IF u >= Half(type.size) THEN u - 2 * Half(type.size) ELSE u

Val(type, obj, val) == [type |-> type, obj |-> obj, val |-> val]
IntVal(n) == Val(IntType, 0, n)
NoValue   == Val(VoidType, 0, 0)

IsNumber(v)  == v.type.kind \in {"INT", "CHAR"}
IsAddress(v) == v.type.kind = "PTR"

(* A state: the objects by type, what scalars hold, what was written out,  *)
(* and the value a return statement has given.                             *)
Start(prog) ==
  [status |-> "ok", out |-> << >>, returned |-> << >>,
   objs |-> [s \in DOMAIN prog.strings |-> Array(CharType, Len(prog.strings[s]) + 1)],
   cells |-> [c \in UNION {{s} \X (0..Len(prog.strings[s])) : s \in DOMAIN prog.strings} |->
                Val(CharType, 0, Narrow(Append(prog.strings[c[1]], 0)[c[2] + 1], CharType))]]

Result(v, st) == [v |-> v, st |-> st]
Ends(st, status) == Result(NoValue, [st EXCEPT !.status = status])
Undefined(st) == Ends(st, "undefined")
Stuck(st)     == Ends(st, "stuck")

Then(r, next(_, _)) == IF r.st.status = "ok" THEN next(r.v, r.st) ELSE r

(* The value as another type, where C defines it. *)
Convert(v, type, st) ==
  CASE IsNumber(v) /\ type.kind \in {"INT", "CHAR"} -> Result(Val(type, 0, Narrow(v.val, type)), st)
    [] IsAddress(v) /\ type.kind = "PTR"            -> Result([v EXCEPT !.type = type], st)
    [] IsNumber(v) /\ v.val = 0 /\ type.kind = "PTR" -> Result(Val(type, 0, 0), st)
    [] type.kind = "VOID"                           -> Result(NoValue, st)
    [] OTHER -> Undefined(st)

-----------------------------------------------------------------------------
(* Objects.  A place is where an lvalue lies; an array yields its address. *)

InObject(obj, off, size, st) ==
  obj \in DOMAIN st.objs /\ 0 <= off /\ off + size <= st.objs[obj].size

Read(place, st) ==
  LET at == <<place.obj, place.val>>
  IN IF place.type.kind = "ARRAY" THEN Result([place EXCEPT !.type = Pointer(Base(place.type))], st)
     ELSE IF InObject(place.obj, place.val, place.type.size, st) /\ at \in DOMAIN st.cells
             /\ st.cells[at].type = place.type
     THEN Result(st.cells[at], st)
     ELSE Undefined(st)

Wrote(place, v, st) ==
  IF InObject(place.obj, place.val, place.type.size, st)
  THEN Result(v, [st EXCEPT !.cells = (<<place.obj, place.val>> :> v) @@ @])
  ELSE Undefined(st)

NewObject(type, st) == [st EXCEPT !.objs = Append(@, type)]

-----------------------------------------------------------------------------
(* Operators on values.                                                    *)

Number(n, st) == IF Fits(n, IntType) THEN Result(IntVal(n), st) ELSE Undefined(st)

Truth(b) == IntVal(IF b THEN 1 ELSE 0)
IsTrue(v) == v.obj # 0 \/ v.val # 0

TruncDiv(a, b) ==
  LET q == (IF a < 0 THEN -a ELSE a) \div (IF b < 0 THEN -b ELSE b)
  IN IF (a < 0) = (b < 0) THEN q ELSE -q

Moved(p, n, st) ==
  LET off == p.val + n * Base(p.type).size
  IN IF InObject(p.obj, off, 0, st) THEN Result([p EXCEPT !.val = off], st) ELSE Undefined(st)

Numeric(kind, a, b, st) ==
  CASE kind = "ADD" -> Number(a + b, st)
    [] kind = "SUB" -> Number(a - b, st)
    [] kind = "MUL" -> Number(a * b, st)
    [] kind \in {"DIV", "MOD"} ->
         IF b = 0 THEN Undefined(st)
         ELSE IF kind = "DIV" THEN Number(TruncDiv(a, b), st)
         ELSE Number(a - b * TruncDiv(a, b), st)
    [] kind = "EQ" -> Result(Truth(a = b), st)
    [] kind = "NE" -> Result(Truth(a # b), st)
    [] kind = "LT" -> Result(Truth(a < b), st)
    [] kind = "LE" -> Result(Truth(a <= b), st)

(* Two pointers have an order and a distance within one object only; one   *)
(* past its end, a pointer may equal one to another object.                *)
PastEnd(p, st) == p.obj # 0 /\ p.val = st.objs[p.obj].size

Addresses(kind, p, q, st) ==
  CASE kind \in {"EQ", "NE"} ->
         IF p.obj # q.obj /\ (PastEnd(p, st) \/ PastEnd(q, st)) THEN Undefined(st)
         ELSE Result(Truth((p.obj = q.obj /\ p.val = q.val) = (kind = "EQ")), st)
    [] kind \in {"LT", "LE", "SUB"} ->
         IF p.obj # q.obj THEN Undefined(st)
         ELSE IF kind = "SUB" THEN Number(TruncDiv(p.val - q.val, Base(p.type).size), st)
         ELSE Numeric(kind, p.val, q.val, st)
    [] OTHER -> Stuck(st)

(* A pointer against a number: 0 is the null pointer. *)
Mixed(kind, a, b, st) ==
  CASE kind = "ADD" -> IF IsAddress(a) THEN Moved(a, b.val, st) ELSE Moved(b, a.val, st)
    [] kind = "SUB" -> IF IsAddress(a) THEN Moved(a, -b.val, st) ELSE Stuck(st)
    [] kind \in {"EQ", "NE"} /\ 0 \in {a.val, b.val} -> Result(Truth(kind = "NE"), st)
    [] OTHER -> Undefined(st)

Operate(kind, a, b, st) ==
  CASE IsNumber(a) /\ IsNumber(b)   -> Numeric(kind, a.val, b.val, st)
    [] IsAddress(a) /\ IsAddress(b) -> Addresses(kind, a, b, st)
    [] "VOID" \in {a.type.kind, b.type.kind} -> Undefined(st)
    [] OTHER -> Mixed(kind, a, b, st)

-----------------------------------------------------------------------------
(* Expressions, in the environment env: the program, and the object of     *)
(* each variable of the function.                                          *)

RECURSIVE Eval(_, _, _), CallFunc(_, _, _, _), Args(_, _, _)

(* A function whose address must be computed, or an lvalue, has a place. *)
Place(node, env, st) ==
  CASE node.kind = "VAR" -> Result(Val(st.objs[env.vars[node.val]], env.vars[node.val], 0), st)
    [] node.kind = "STR" -> Result(Val(st.objs[node.val], node.val, 0), st)
    [] node.kind = "DEREF" ->
         Then(Eval(Lhs(node), env, st),
              LAMBDA v, s : IF ~IsAddress(v) \/ Base(v.type).kind = "VOID" THEN Stuck(s)
                            ELSE Result([v EXCEPT !.type = Base(v.type)], s))
    [] OTHER -> Stuck(st)

IsPlace(node) == node.kind \in {"VAR", "STR", "DEREF"}

EvalAssign(node, env, st) ==
  IF Lhs(node).kind \notin {"VAR", "DEREF"} THEN Stuck(st)
  ELSE Then(Place(Lhs(node), env, st), LAMBDA place, s1 :
         IF place.type.kind = "ARRAY" THEN Stuck(s1)
         ELSE Then(Eval(Rhs(node), env, s1), LAMBDA v, s2 :
                Then(Convert(v, place.type, s2), LAMBDA w, s3 : Wrote(place, w, s3))))

EvalLogical(node, env, st) ==
  Then(Eval(Lhs(node), env, st), LAMBDA a, s1 :
    IF IsTrue(a) # (node.kind = "AND") THEN Result(Truth(IsTrue(a)), s1)
    ELSE Then(Eval(Rhs(node), env, s1), LAMBDA b, s2 : Result(Truth(IsTrue(b)), s2)))

(* putchar of crt0.s; any other function is the program's. *)
EvalCall(node, env, st) ==
  Then(Args(node.kids, env, st), LAMBDA vals, s :
    IF node.val = "putchar" /\ FuncNamed(env.prog, "putchar") = 0
    THEN Result(IntVal(vals[1].val), [s EXCEPT !.out = Append(@, vals[1].val % ByteBase)])
    ELSE CallFunc(env.prog, FuncNamed(env.prog, node.val), vals, s))

Args(nodes, env, st) ==
  IF nodes = << >> THEN Result(<< >>, st)
  ELSE Then(Args(Tail(nodes), env, st), LAMBDA vals, s1 :
         Then(Eval(Head(nodes), env, s1), LAMBDA v, s2 : Result(<<v>> \o vals, s2)))

Eval(node, env, st) ==
  CASE node.kind = "NUM"  -> Result(IntVal(node.val), st)
    [] IsPlace(node)      -> Then(Place(node, env, st), LAMBDA place, s : Read(place, s))
    [] node.kind = "ADDR" ->
         IF Lhs(node).kind \notin {"VAR", "DEREF"} THEN Stuck(st)
         ELSE Then(Place(Lhs(node), env, st), LAMBDA p, s : Result([p EXCEPT !.type = Pointer(@)], s))
    [] node.kind = "CAST" -> Then(Eval(Lhs(node), env, st), LAMBDA v, s : Convert(v, node.type, s))
    [] node.kind = "SIZEOF" ->   \* the operand is not evaluated: its effects are dropped
         Then(IF IsPlace(Lhs(node)) THEN Place(Lhs(node), env, st) ELSE Eval(Lhs(node), env, st),
              LAMBDA v, s : Result(IntVal(v.type.size), st))
    [] node.kind = "NEG"  -> Then(Eval(Lhs(node), env, st), LAMBDA v, s : Number(-v.val, s))
    [] node.kind = "NOT"  -> Then(Eval(Lhs(node), env, st), LAMBDA v, s : Result(Truth(~IsTrue(v)), s))
    [] node.kind \in {"AND", "OR"} -> EvalLogical(node, env, st)
    [] node.kind = "ASSIGN" -> EvalAssign(node, env, st)
    [] node.kind = "CALL"   -> EvalCall(node, env, st)
    [] OTHER -> Then(Eval(Rhs(node), env, st), LAMBDA b, s1 :
                  Then(Eval(Lhs(node), env, s1), LAMBDA a, s2 : Operate(node.kind, a, b, s2)))

-----------------------------------------------------------------------------
(* Statements and functions.  A statement yields no value.                 *)

RECURSIVE Exec(_, _, _, _), Loop(_, _, _, _), ExecAll(_, _, _, _)

Opt(node, env, st) == IF IsNull(node) THEN Result(IntVal(1), st) ELSE Eval(node, env, st)

Loop(node, env, ret, st) ==
  Then(Opt(node.kids[2], env, st), LAMBDA c, s1 :
    IF ~IsTrue(c) THEN Result(NoValue, s1)
    ELSE Then(Exec(node.kids[4], env, ret, s1), LAMBDA v, s2 :
           IF s2.returned # << >> THEN Result(NoValue, s2)
           ELSE Then(Opt(node.kids[3], env, s2), LAMBDA w, s3 : Loop(node, env, ret, s3))))

ExecAll(nodes, env, ret, st) ==
  IF nodes = << >> THEN Result(NoValue, st)
  ELSE Then(Exec(Head(nodes), env, ret, st), LAMBDA v, s :
         IF s.returned # << >> THEN Result(NoValue, s) ELSE ExecAll(Tail(nodes), env, ret, s))

Returned(v, st) == Result(NoValue, [st EXCEPT !.returned = <<v>>])

Exec(node, env, ret, st) ==
  CASE node.kind = "RETURN" ->
         IF IsNull(Lhs(node)) THEN Returned(NoValue, st)
         ELSE Then(Eval(Lhs(node), env, st), LAMBDA v, s1 :
                Then(Convert(v, ret, s1), LAMBDA w, s2 : Returned(w, s2)))
    [] node.kind = "IF" ->
         Then(Eval(node.kids[1], env, st), LAMBDA c, s : Exec(node.kids[IF IsTrue(c) THEN 2 ELSE 3], env, ret, s))
    [] node.kind = "FOR" -> Then(Opt(node.kids[1], env, st), LAMBDA v, s : Loop(node, env, ret, s))
    [] node.kind = "BLOCK" -> ExecAll(node.kids, env, ret, st)
    [] node.kind = "EXPR_STMT" -> Then(Eval(Lhs(node), env, st), LAMBDA v, s : Result(NoValue, s))
    [] node.kind = "NULL" -> Result(NoValue, st)

(* The parameters hold their arguments before the body runs, in any order. *)
RECURSIVE Passed(_, _, _)
Passed(vals, first, st) ==
  IF vals = << >> THEN Result(NoValue, st)
  ELSE Then(Convert(Head(vals), st.objs[first], st), LAMBDA v, s1 :
         Then(Wrote(Val(v.type, first, 0), v, s1), LAMBDA w, s2 : Passed(Tail(vals), first + 1, s2)))

(* What a function gives back; its objects are gone. *)
Finished(func, first, st) ==
  Result(IF st.returned # << >> THEN st.returned[1]
         ELSE IF func.name = "main" THEN IntVal(0) ELSE NoValue,
         [st EXCEPT !.returned = << >>,
                    !.objs = [o \in DOMAIN @ |-> IF o < first THEN @[o] ELSE Array(CharType, 0)]])

CallFunc(prog, f, vals, st) ==
  IF f = 0 THEN Undefined(st)
  ELSE LET func  == prog.funcs[f]
           first == Len(st.objs) + 1
           vars  == [name \in {func.vars[k].name : k \in DOMAIN func.vars} |->
                       first - 1 + (CHOOSE k \in DOMAIN func.vars : func.vars[k].name = name)]
           begun == [st EXCEPT !.objs = @ \o [k \in DOMAIN func.vars |-> func.vars[k].type]]
       IN IF Len(vals) # func.nparams THEN Stuck(st)
          ELSE Then(Passed(vals, first, begun), LAMBDA v, s1 :
                 Then(Exec(func.body, [prog |-> prog, vars |-> vars], func.ret, s1),
                      LAMBDA w, s2 : Finished(func, first, s2)))

(* How a program ends, what it wrote and what main returned.               *)
Meaning(prog) ==
  LET r == CallFunc(prog, FuncNamed(prog, "main"), << >>, Start(prog))
  IN [status |-> r.st.status, out |-> r.st.out, result |-> r.v.val]
=============================================================================
