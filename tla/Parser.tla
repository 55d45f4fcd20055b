------------------------------- MODULE Parser -------------------------------
(***************************************************************************)
(* The parser of src/ast/parser.y at work: the tables bison makes of its   *)
(* rules, the actions of the rules, and what they keep (the static Par_*   *)
(* and Ast_* variables).  The lexer hands over tokens of a text it has not *)
(* read further than the parser asked.                                     *)
(***************************************************************************)
EXTENDS Bison

CONSTANTS
  Texts,       \* texts, each a sequence of sets of tokens it may have there
  MaxStrings   \* MAX_STRINGS

C == INSTANCE CGrammar
S == INSTANCE Sem

VARIABLES
  text,     \* the text
  read,     \* history: the tokens read of it
  ahead,    \* the token ahead, as a sequence of none or one
  stack,    \* symbols, with their values and the states they lead to
  cur,      \* the function being parsed: its name, parameters and variables
  funcs,    \* the program so far
  strings,  \* interned literals
  status    \* parsing, accepted, or refused

vars == <<text, read, ahead, stack, cur, funcs, strings, status>>
kept == <<cur, funcs, strings>>

NoFunction == [name |-> "", nparams |-> 0, vars |-> << >>]

Init ==
  /\ text \in Texts
  /\ read = << >> /\ ahead = << >> /\ stack = << >>
  /\ cur = NoFunction /\ funcs = << >> /\ strings = << >>
  /\ status = "parsing"

State(entries) == IF entries = << >> THEN StartItems ELSE Last(entries).state
Top == State(stack)
Tok == ahead[1].tok
Parsing == status = "parsing" /\ ahead # << >>

Entry(entries, sym, val) == [sym |-> sym, val |-> val, state |-> Goto(State(entries), sym)]

ReadToken ==
  /\ status = "parsing" /\ ahead = << >>
  /\ \E tok \in IF Len(read) < Len(text) THEN text[Len(read) + 1] ELSE {Token("EOF")} :
       ahead' = <<tok>> /\ read' = Append(read, tok)
  /\ UNCHANGED <<text, stack, kept, status>>

Shift ==
  /\ Parsing /\ Shifts(Top, Tok)
  /\ stack' = Append(stack, Entry(stack, Tok, ahead[1]))
  /\ ahead' = << >>
  /\ status' = IF Tok = "EOF" THEN "accepted" ELSE status
  /\ UNCHANGED <<text, read, kept>>

SyntaxError ==
  /\ Parsing /\ ~Shifts(Top, Tok) /\ Reduces(Top, Tok) = {}
  /\ status' = "refused"
  /\ UNCHANGED <<text, read, ahead, stack, kept>>

-----------------------------------------------------------------------------
(* Reductions.  val[k] is the value of the k-th symbol of the rule.        *)

Below(rule) == SubSeq(stack, 1, Len(stack) - Len(rule.rhs))

Values(rule) == [k \in DOMAIN rule.rhs |-> stack[Len(stack) - Len(rule.rhs) + k].val]

ReduceTo(rule, val) ==
  /\ stack' = Append(Below(rule), Entry(Below(rule), rule.lhs, val))
  /\ UNCHANGED <<text, read, ahead, status>>

(* The dimensions come outermost first. *)
ArrayType(base, dims) == FoldRight(LAMBDA len, type : Array(type, len), dims, base)

ParamType(base, dims) == IF dims = << >> THEN base ELSE Pointer(ArrayType(base, Tail(dims)))

Pointers[n \in Nat, base \in {VoidType, CharType, IntType}] ==
  IF n = 0 THEN base ELSE Pointer(Pointers[n - 1, base])

BinaryNode(op, lhs, rhs) ==
  CASE op = "GT" -> GT(lhs, rhs) [] op = "GE" -> GE(lhs, rhs) [] OTHER -> Binary(op, lhs, rhs)

PrefixNode(op, operand) ==
  Unary(CASE op = "SUB" -> "NEG" [] op = "MUL" -> "DEREF" [] op = "AMP" -> "ADDR" [] OTHER -> op, operand)

(* Values that nothing else depends on. *)
Built(act, val) ==
  CASE act = "null"      -> Null
    [] act = "no list"   -> << >>
    [] act = "first"     -> val[1]
    [] act = "second"    -> val[2]
    [] act = "open dims" -> <<0>> \o val[3]
    [] act = "dims"      -> <<val[2].num>> \o val[4]
    [] act = "pointers"  -> Pointers[val[3], val[2]]
    [] act = "int"       -> IntType
    [] act = "char"      -> CharType
    [] act = "void"      -> VoidType
    [] act = "zero"      -> 0
    [] act = "one more"  -> val[1] + 1
    [] act = "block"          -> Block(val[2])
    [] act = "longer list"    -> <<val[1]>> \o val[2]
    [] act = "return"         -> Return(val[2])
    [] act = "return nothing" -> Return(Null)
    [] act = "if"             -> If(val[3], val[5], Null)
    [] act = "if else"        -> If(val[3], val[5], val[7])
    [] act = "for"            -> For(val[3], val[5], val[7], val[9])
    [] act = "while"          -> While(val[3], val[5])
    [] act = "expr stmt"      -> Stmt(val[1])
    [] act = "binary"    -> BinaryNode(val[2].tok, val[1], val[3])
    [] act = "cast"      -> CastTo(val[2], val[4])
    [] act = "prefix"    -> PrefixNode(val[1].tok, val[2])
    [] act = "size"      -> NUM(val[3].size)
    [] act = "subscript" -> Subscript(val[1], val[3])
    [] act = "number"    -> NUM(val[1].num)
    [] act = "call"      -> CALL(val[1].name, val[3])
    [] act = "one"         -> <<val[1]>>
    [] act = "longer args" -> <<val[1]>> \o val[3]

Affecting == {"begin", "function", "param", "declare", "initialise", "string", "variable"}

Build(rule) ==
  /\ rule.act \notin Affecting
  /\ ReduceTo(rule, Built(rule.act, Values(rule)))
  /\ UNCHANGED kept

(* The name is the second symbol of the rule this is in the middle of, so  *)
(* one below the top.                                                      *)
BeginFunction(rule) ==
  /\ rule.act = "begin"
  /\ cur' = [NoFunction EXCEPT !.name = stack[Len(stack) - 1].val.name]
  /\ ReduceTo(rule, Null)
  /\ UNCHANGED <<funcs, strings>>

AddFunction(rule) ==
  /\ rule.act = "function"
  /\ funcs' = Append(funcs, cur @@ [body |-> Values(rule)[1]])
  /\ ReduceTo(rule, Null)
  /\ UNCHANGED <<cur, strings>>

FindVar(name) == SelectInSeq(cur.vars, LAMBDA v : v.name = name)

(* A name declared again is the variable it was. *)
Declared(name, type) == IF FindVar(name) # 0 THEN cur.vars ELSE Append(cur.vars, Var(name, type))

AddParam(rule) ==
  /\ rule.act = "param"
  /\ LET val == Values(rule)
     IN cur' = [cur EXCEPT !.nparams = @ + 1, !.vars = Declared(val[2].name, ParamType(val[1], val[3]))]
  /\ ReduceTo(rule, Null)
  /\ UNCHANGED <<funcs, strings>>

Declare(rule) ==
  /\ rule.act = "declare"
  /\ LET val == Values(rule)
     IN cur' = [cur EXCEPT !.vars = Declared(val[2].name, ArrayType(val[1], val[3]))]
  /\ ReduceTo(rule, Null)
  /\ UNCHANGED <<funcs, strings>>

(* The variable is declared after its initialiser was parsed. *)
Initialise(rule) ==
  /\ rule.act = "initialise"
  /\ LET val == Values(rule)
     IN /\ cur' = [cur EXCEPT !.vars = Declared(val[2].name, val[1])]
        /\ ReduceTo(rule, Stmt(Assign(VAR(val[2].name), val[4])))
  /\ UNCHANGED <<funcs, strings>>

FindVariable(rule) ==
  /\ rule.act = "variable" /\ FindVar(Values(rule)[1].name) # 0
  /\ ReduceTo(rule, VAR(Values(rule)[1].name))
  /\ UNCHANGED kept

InternString(rule) ==
  /\ rule.act = "string" /\ Len(strings) < MaxStrings
  /\ strings' = Append(strings, Values(rule)[1].data)
  /\ ReduceTo(rule, STR(Len(strings) + 1))
  /\ UNCHANGED <<cur, funcs>>

(* An identifier nobody declared, or one string too many. *)
Refuse(rule) ==
  /\ \/ rule.act = "variable" /\ FindVar(Values(rule)[1].name) = 0
     \/ rule.act = "string" /\ Len(strings) >= MaxStrings
  /\ status' = "refused"
  /\ UNCHANGED <<text, read, ahead, stack, kept>>

Reduce ==
  /\ Parsing /\ ~Shifts(Top, Tok)
  /\ \E r \in Reduces(Top, Tok) :
       \/ Build(Rules[r]) \/ BeginFunction(Rules[r]) \/ AddFunction(Rules[r]) \/ AddParam(Rules[r])
       \/ Declare(Rules[r]) \/ Initialise(Rules[r]) \/ FindVariable(Rules[r]) \/ InternString(Rules[r])
       \/ Refuse(Rules[r])

Next == ReadToken \/ Shift \/ SyntaxError \/ Reduce

Spec == Init /\ [][Next]_vars

-----------------------------------------------------------------------------
(* Properties.                                                             *)

(* The rules leave bison no choice that a precedence does not make: no     *)
(* reduction competes with another one, or with a shift (parser.y:109).    *)
ConflictFree == Parsing => ~Conflict(Top, Tok)

(* A node whose variables are numbers, as in the reference. *)
RECURSIVE Numbered(_, _)
Numbered(node, vs) ==
  [node EXCEPT !.val  = IF node.kind = "VAR" THEN SelectInSeq(vs, LAMBDA v : v.name = @) ELSE @,
               !.kids = [k \in DOMAIN @ |-> Numbered(@[k], vs)]]

Program_ == [f \in DOMAIN funcs |-> [funcs[f] EXCEPT !.body = Numbered(@, funcs[f].vars)]]

SaysTheSame(said) == said.ok => Program_ = said.funcs /\ strings = said.strings

(* The flat rules with their precedences make of every text the tree that  *)
(* the grammar of C makes of it, with an else at its nearest if, sizeof    *)
(* before a parenthesised type (parser.y:7), functions, parameters,        *)
(* variables and literals in their order, and nothing left over from       *)
(* prototypes and earlier functions.  What they accept beyond C, sem.c     *)
(* rejects: assignments to what is no operand of one.  They refuse a text  *)
(* no earlier than C does, unless it has too many literals.                *)
ParsesAsC ==
  status # "parsing" =>
    LET said == C!Said(read, "ivan-cc")
    IN /\ status = "accepted" =>
            /\ SaysTheSame(said)
            /\ S!Accepted([funcs |-> funcs, strings |-> strings]) => said.ok
       /\ status = "refused" => said.at <= Len(read) \/ Len(said.strings) > MaxStrings
=============================================================================
