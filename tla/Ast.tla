-------------------------------- MODULE Ast --------------------------------
(***************************************************************************)
(* The types and the tree that parser.y builds through ast.c, and sem.c    *)
(* and gen.c work on.                                                      *)
(*                                                                         *)
(* A node is its kind, its type, a value (the number of a NUM, the name of *)
(* a VAR or a CALL, the string slot of a STR) and the nodes below it, in   *)
(* the order given here for each kind; Null stands for a node left out.    *)
(* Line numbers are not kept.                                              *)
(***************************************************************************)
EXTENDS Integers, Sequences, SequencesExt

Type(kind, size, align, base) == [kind |-> kind, size |-> size, align |-> align, base |-> base]

VoidType == Type("VOID", 1, 1, << >>)
CharType == Type("CHAR", 1, 1, << >>)
IntType  == Type("INT", 4, 4, << >>)

PtrSize == 8
Pointer(base)    == Type("PTR", PtrSize, PtrSize, <<base>>)
Array(base, len) == Type("ARRAY", base.size * len, base.align, <<base>>)

(* What a pointer points at, or the element type of an array. *)
Base(type) == type.base[1]

Node(kind, val, kids) == [kind |-> kind, type |-> VoidType, val |-> val, kids |-> kids, bad |-> ""]

Null == Node("NULL", 0, << >>)
IsNull(node) == node.kind = "NULL"

Lhs(node) == node.kids[1]
Rhs(node) == node.kids[2]

NUM(val)  == Node("NUM", val, << >>)
STR(slot) == Node("STR", slot, << >>)
VAR(name) == Node("VAR", name, << >>)
Unary(kind, lhs)       == Node(kind, 0, <<lhs>>)
Binary(kind, lhs, rhs) == Node(kind, 0, <<lhs, rhs>>)
CALL(name, args)       == Node("CALL", name, args)

(* The parser writes a subscript as a dereference, and > and >= as < and   *)
(* <= with their operands exchanged.                                       *)
Subscript(array, index) == Unary("DEREF", Binary("ADD", array, index))
GT(lhs, rhs) == Binary("LT", rhs, lhs)
GE(lhs, rhs) == Binary("LE", rhs, lhs)
Assign(lhs, rhs) == Binary("ASSIGN", lhs, rhs)

Stmt(expr)               == Unary("EXPR_STMT", expr)
Return(expr)             == Unary("RETURN", expr)
If(cond, then, els)      == Node("IF", 0, <<cond, then, els>>)
For(init, cond, inc, body) == Node("FOR", 0, <<init, cond, inc, body>>)
While(cond, body)        == For(Null, cond, Null, body)
Block(stmts)             == Node("BLOCK", 0, stmts)

CastTo(type, lhs) == [Unary("CAST", lhs) EXCEPT !.type = type]

(* A finished function: its parameters are the first of its variables, all *)
(* in the order of their declaration, and all of different names.  gen.c   *)
(* never learns the type it returns.                                       *)
Func(name, ret, params, locals, stmts) ==
  [name |-> name, ret |-> ret, nparams |-> Len(params), vars |-> params \o locals,
   body |-> Block(stmts)]

Var(name, type) == [name |-> name, type |-> type]

(* A program is its functions and its string literals, as bytes.           *)
Program(funcs, strings) == [funcs |-> funcs, strings |-> strings]

FuncNamed(prog, name) == SelectInSeq(prog.funcs, LAMBDA f : f.name = name)
=============================================================================
