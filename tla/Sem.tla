-------------------------------- MODULE Sem --------------------------------
(***************************************************************************)
(* The semantic pass of src/ast/sem.c: it gives every node its type, turns *)
(* pointer arithmetic into arithmetic on bytes and sizeof into a number,   *)
(* and rejects what the grammar cannot.  The program exits at the first    *)
(* error; here an offending node is marked, and a marked tree is rejected. *)
(***************************************************************************)
EXTENDS Ast

Typed(node, type) == [node EXCEPT !.type = type]
Reject(node, message) == [node EXCEPT !.bad = message, !.type = IntType]

IsPointer(type) == type.kind \in {"PTR", "ARRAY"}
IsLvalue(node)  == node.kind \in {"VAR", "DEREF"}
Decay(type)     == IF type.kind = "ARRAY" THEN Pointer(Base(type)) ELSE type

TypedNum(val) == Typed(NUM(val), IntType)

(* Sem_ScaleBy: steps of whole elements. *)
ScaleBy(node, size) == Typed(Binary("MUL", node, TypedNum(size)), IntType)

(* Sem_Arith: +, - and a pointer difference in elements.                   *)
Arith(node) ==
  LET lhs == Lhs(node).type
      rhs == Rhs(node).type
  IN CASE ~IsPointer(lhs) /\ ~IsPointer(rhs) -> Typed(node, IntType)
       [] IsPointer(lhs) /\ IsPointer(rhs) ->
            IF node.kind # "SUB" THEN Reject(node, "cannot add two pointers")
            ELSE Typed(Binary("DIV", Typed(node, IntType), TypedNum(Base(lhs).size)), IntType)
       [] ~IsPointer(lhs) /\ IsPointer(rhs) ->
            IF node.kind # "ADD" THEN Reject(node, "cannot subtract a pointer from an integer")
            ELSE Typed([node EXCEPT !.kids[1] = ScaleBy(@, Base(rhs).size)], Decay(rhs))
       [] IsPointer(lhs) /\ ~IsPointer(rhs) ->
            Typed([node EXCEPT !.kids[2] = ScaleBy(@, Base(lhs).size)], Decay(lhs))

(* Sem_CheckCall: only calls of functions this program defines.            *)
CheckCall(node, prog) ==
  LET f == FuncNamed(prog, node.val)
  IN IF f # 0 /\ Len(node.kids) # prog.funcs[f].nparams
     THEN Reject(node, "wrong number of arguments") ELSE Typed(node, IntType)


CheckAssign(node) ==
  IF ~IsLvalue(Lhs(node)) THEN Reject(node, "expression is not assignable")
  ELSE IF Lhs(node).type.kind = "ARRAY" THEN Reject(node, "cannot assign to an array")
  ELSE Typed(node, Lhs(node).type)

CheckDeref(node) ==
  LET type == Lhs(node).type
  IN IF ~IsPointer(type) THEN Reject(node, "indirection requires a pointer operand")
     ELSE IF Base(type).kind = "VOID" THEN Reject(node, "cannot dereference a pointer to void")
     ELSE Typed(node, Base(type))

TypeOfVar(name, func) == func.vars[SelectInSeq(func.vars, LAMBDA v : v.name = name)].type

(* What Sem_Node does at a node once everything below it is annotated.     *)
Annotated(node, func, prog) ==
  CASE node.kind \in {"NUM", "MUL", "DIV", "MOD", "NEG", "NOT",
                      "EQ", "NE", "LT", "LE", "AND", "OR"} -> Typed(node, IntType)
    [] node.kind \in {"ADD", "SUB"} -> Arith(node)
    [] node.kind = "STR"    -> Typed(node, Array(CharType, Len(prog.strings[node.val]) + 1))
    [] node.kind = "ADDR"   ->
         IF IsLvalue(Lhs(node)) THEN Typed(node, Pointer(Lhs(node).type))
         ELSE Reject(node, "cannot take the address of this expression")
    [] node.kind = "DEREF"  -> CheckDeref(node)
    [] node.kind = "SIZEOF" -> TypedNum(Lhs(node).type.size)
    [] node.kind = "VAR"    -> Typed(node, TypeOfVar(node.val, func))
    [] node.kind = "ASSIGN" -> CheckAssign(node)
    [] node.kind = "CALL"   -> CheckCall(node, prog)
    [] OTHER -> node   \* a statement, or a cast, which the parser typed

RECURSIVE SemNode(_, _, _), SemList(_, _, _)
SemNode(node, func, prog) ==
  Annotated([node EXCEPT !.kids = SemList(@, func, prog)], func, prog)

SemList(nodes, func, prog) ==
  IF nodes = << >> THEN << >>
  ELSE <<SemNode(Head(nodes), func, prog)>> \o SemList(Tail(nodes), func, prog)

Analyze(prog) ==
  [prog EXCEPT !.funcs =
     [f \in DOMAIN prog.funcs |->
        [prog.funcs[f] EXCEPT !.body = SemNode(@, prog.funcs[f], prog)]]]

RECURSIVE Complaints(_)
Complaints(node) ==
  ({node.bad} \ {""}) \union UNION {Complaints(node.kids[i]) : i \in DOMAIN node.kids}

Accepted(prog) ==
  LET checked == Analyze(prog) IN \A f \in DOMAIN checked.funcs : Complaints(checked.funcs[f].body) = {}
=============================================================================
