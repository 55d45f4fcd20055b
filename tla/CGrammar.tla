------------------------------ MODULE CGrammar ------------------------------
(***************************************************************************)
(* The reference for Parser: the grammar of ISO C99 (6.5 to 6.9, as far as *)
(* SYNTAX.md checks it off), read from left to right with a level for each *)
(* kind of operator, and nothing of how parser.y says it.                  *)
(*                                                                         *)
(* A reader s goes through the tokens; its value is the phrase it has just *)
(* read, and it fails at the first token that no phrase goes on with.      *)
(* Variables are numbered in the order of their declarations, and a VAR    *)
(* names a number.  The rules are those of C, or those of ivan-cc: a       *)
(* declaration may be any statement, a name is declared once its           *)
(* initialiser ended, until its function ends, and again is the same       *)
(* variable.                                                               *)
(***************************************************************************)
EXTENDS Grammar

Reader(toks, rules) ==
  [toks |-> toks, rules |-> rules, at |-> 1, ok |-> TRUE, val |-> Null,
   vars |-> << >>, scope |-> << >>, block |-> {}, strings |-> << >>, funcs |-> << >>]

Ahead(s, n)      == IF s.at + n <= Len(s.toks) THEN s.toks[s.at + n].tok ELSE "unread"
Sees(s, tok)     == s.ok /\ Ahead(s, 0) = tok
SeesOne(s, toks) == s.ok /\ Ahead(s, 0) \in toks
Fail(s)          == [s EXCEPT !.ok = FALSE]
Take(s)          == [s EXCEPT !.at = @ + 1]
Expect(s, tok)   == IF Sees(s, tok) THEN Take(s) ELSE Fail(s)
Give(s, val)     == [s EXCEPT !.val = val]

(* next(s, value of s), for a reader that has not failed. *)
Then(s, next(_, _)) ==
  IF ~s.ok THEN s ELSE CHOOSE t \in {next(x, x.val) : x \in {s}} : TRUE

BaseType == [INT |-> IntType, CHAR |-> CharType, VOID |-> VoidType]
TypeTokens == {"CONST", "INT", "CHAR", "VOID"}

RECURSIVE Stars(_)
Stars(s) == IF Sees(s, "MUL") THEN Stars(Give(Take(s), Pointer(s.val))) ELSE s

RECURSIVE TypeName(_)
TypeName(s) ==
  IF Sees(s, "CONST") THEN TypeName(Take(s))
  ELSE IF SeesOne(s, DOMAIN BaseType) THEN Stars(Give(Take(s), BaseType[Ahead(s, 0)]))
  ELSE Fail(s)

(* Array dimensions after a type, innermost last. *)
RECURSIVE Dims(_)
Dims(s) ==
  IF ~Sees(s, "LSQUARE") THEN s
  ELSE IF Ahead(s, 1) # "NUM" THEN Fail(s)
  ELSE Then(Dims(Expect(Take(Take(s)), "RSQUARE")), LAMBDA t, type : Give(t, Array(type, s.toks[s.at + 1].num)))

-----------------------------------------------------------------------------
(* Names.                                                                  *)

Declare(s, name, type) ==
  CASE s.rules = "ivan-cc" /\ name \in DOMAIN s.scope -> s
    [] s.rules = "C" /\ name \in s.block -> Fail(s)
    [] OTHER -> [s EXCEPT !.vars = Append(@, Var(name, type)), !.block = @ \union {name},
                          !.scope = (name :> Len(s.vars) + 1) @@ @]

Enter(s) == [s EXCEPT !.block = {}]
Leave(s, outer) == IF s.rules = "C" THEN [s EXCEPT !.scope = outer.scope, !.block = outer.block] ELSE s

-----------------------------------------------------------------------------
(* Expressions.                                                            *)

(* A phrase of some kind. *)
RECURSIVE Read(_, _)

Expr(s) == Read("assignment", s)

Tower == <<{"OR"}, {"AND"}, {"EQ", "NE"}, {"LT", "GT", "LE", "GE"}, {"ADD", "SUB"}, {"MUL", "DIV", "MOD"}>>

Prefix == [SUB |-> "NEG", NOT |-> "NOT", MUL |-> "DEREF", AMP |-> "ADDR"]

Joined(op, lhs, rhs) ==
  CASE op = "GT" -> GT(lhs, rhs) [] op = "GE" -> GE(lhs, rhs) [] OTHER -> Binary(op, lhs, rhs)

RECURSIVE Tier(_, _), Chain(_, _)

Tier(s, n) == IF n > Len(Tower) THEN Read("cast", s) ELSE Chain(Tier(s, n + 1), n)

Chain(s, n) ==
  IF ~SeesOne(s, Tower[n]) THEN s
  ELSE Chain(Then(Tier(Take(s), n + 1), LAMBDA t, rhs : Give(t, Joined(Ahead(s, 0), s.val, rhs))), n)

(* An assignment takes a unary expression to its left. *)
Assignment(s) ==
  LET lhs == Read("unary", s)
  IN IF Sees(lhs, "ASSIGN") THEN Then(Expr(Take(lhs)), LAMBDA t, rhs : Give(t, Assign(lhs.val, rhs)))
     ELSE Tier(s, 1)

Cast(s) ==
  IF Sees(s, "LPAREN") /\ Ahead(s, 1) \in TypeTokens
  THEN Then(Expect(TypeName(Take(s)), "RPAREN"),
            LAMBDA t, type : Then(Read("cast", t), LAMBDA u, operand : Give(u, CastTo(type, operand))))
  ELSE Read("unary", s)

SizeOf(s) ==
  IF Sees(s, "LPAREN") /\ Ahead(s, 1) \in TypeTokens
  THEN Then(Expect(TypeName(Take(s)), "RPAREN"), LAMBDA t, type : Give(t, NUM(type.size)))
  ELSE Then(Read("unary", s), LAMBDA t, operand : Give(t, Unary("SIZEOF", operand)))

Name(s, name) ==
  IF ~Sees(Take(s), "LPAREN")
  THEN IF name \in DOMAIN s.scope THEN Give(Take(s), VAR(s.scope[name])) ELSE Fail(s)
  ELSE LET args == Take(Take(s))
       IN IF Sees(args, "RPAREN") THEN Give(Take(args), CALL(name, << >>))
          ELSE Then(Expect(Read("arguments", args), "RPAREN"), LAMBDA t, list : Give(t, CALL(name, list)))

Arguments(s) ==
  Then(Expr(s), LAMBDA t, arg :
    IF Sees(t, "COMMA") THEN Then(Read("arguments", Take(t)), LAMBDA u, list : Give(u, <<arg>> \o list))
    ELSE Give(t, <<arg>>))

Primary(s) ==
  CASE Sees(s, "NUM")    -> Give(Take(s), NUM(s.toks[s.at].num))
    [] Sees(s, "STR")    -> Give([Take(s) EXCEPT !.strings = Append(@, s.toks[s.at].data)], STR(Len(s.strings) + 1))
    [] Sees(s, "IDENT")  -> Name(s, s.toks[s.at].name)
    [] Sees(s, "LPAREN") -> Expect(Expr(Take(s)), "RPAREN")
    [] OTHER -> Fail(s)

RECURSIVE Postfix(_)
Postfix(s) ==
  IF ~Sees(s, "LSQUARE") THEN s
  ELSE Postfix(Then(Expect(Expr(Take(s)), "RSQUARE"), LAMBDA t, index : Give(t, Subscript(s.val, index))))

UnaryExpr(s) ==
  CASE SeesOne(s, DOMAIN Prefix) ->
         Then(Read("cast", Take(s)), LAMBDA t, operand : Give(t, Unary(Prefix[Ahead(s, 0)], operand)))
    [] Sees(s, "SIZEOF") -> SizeOf(Take(s))
    [] OTHER -> Postfix(Primary(s))

-----------------------------------------------------------------------------
(* Statements.                                                             *)

Paren(s) == Expect(Expr(Expect(s, "LPAREN")), "RPAREN")

(* An expression that may be left out, before its closing token. *)
Optional(s, close) == IF Sees(s, close) THEN Give(Take(s), Null) ELSE Expect(Expr(s), close)

Declaration(s) ==
  Then(TypeName(s), LAMBDA t, type :
    IF ~Sees(t, "IDENT") THEN Fail(t)
    ELSE LET name == t.toks[t.at].name
             past == Take(t)
             init == Take(IF s.rules = "C" THEN Declare(past, name, type) ELSE past)
         IN IF ~Sees(past, "ASSIGN")
            THEN Then(Dims(past), LAMBDA u, array : Expect(Give(Declare(u, name, array), Null), "SEMI"))
            ELSE Then(Expect(Expr(init), "SEMI"), LAMBDA u, value :
                   LET v == IF s.rules = "C" THEN u ELSE Declare(u, name, type)
                   IN Give(v, Stmt(Assign(VAR(IF s.rules = "C" THEN init.scope[name] ELSE v.scope[name]), value)))))

(* The items of a block, up to its brace. *)
Items(s) ==
  IF ~s.ok THEN s
  ELSE IF Sees(s, "RBRACE") THEN Give(Take(s), << >>)
  ELSE Then(IF SeesOne(s, TypeTokens) THEN Declaration(s) ELSE Read("statement", s),
            LAMBDA t, item : Then(Read("items", t), LAMBDA u, list : Give(u, <<item>> \o list)))

Body(s) == Then(Read("items", Expect(s, "LBRACE")), LAMBDA t, list : Give(t, Block(list)))

CompoundStmt(s) == Then(Body(Enter(s)), LAMBDA t, block : Leave(t, s))

IfStmt(s) ==
  Then(Paren(s), LAMBDA t, cond : Then(Read("statement", t), LAMBDA u, then :
    IF Sees(u, "ELSE") THEN Then(Read("statement", Take(u)), LAMBDA v, els : Give(v, If(cond, then, els)))
    ELSE Give(u, If(cond, then, Null))))

ForStmt(s) ==
  Then(Optional(Expect(s, "LPAREN"), "SEMI"), LAMBDA t, init : Then(Optional(t, "SEMI"), LAMBDA u, cond :
    Then(Optional(u, "RPAREN"), LAMBDA v, inc :
      Then(Read("statement", v), LAMBDA w, body : Give(w, For(init, cond, inc, body))))))

Statement(s) ==
  CASE SeesOne(s, TypeTokens) /\ s.rules = "ivan-cc" -> Declaration(s)
    [] Sees(s, "LBRACE") -> CompoundStmt(s)
    [] Sees(s, "IF")     -> IfStmt(Take(s))
    [] Sees(s, "FOR")    -> ForStmt(Take(s))
    [] Sees(s, "WHILE")  ->
         Then(Paren(Take(s)), LAMBDA t, cond : Then(Read("statement", t), LAMBDA u, body : Give(u, While(cond, body))))
    [] Sees(s, "RETURN") -> Then(Optional(Take(s), "SEMI"), LAMBDA t, value : Give(t, Return(value)))
    [] Sees(s, "SEMI")   -> Give(Take(s), Null)
    [] OTHER -> Then(Expect(Expr(s), "SEMI"), LAMBDA t, value : Give(t, Stmt(value)))

Read(phrase, s) ==
  CASE phrase = "assignment" -> Assignment(s)
    [] phrase = "cast"       -> Cast(s)
    [] phrase = "unary"      -> UnaryExpr(s)
    [] phrase = "arguments"  -> Arguments(s)
    [] phrase = "statement"  -> Statement(s)
    [] phrase = "items"      -> Items(s)

-----------------------------------------------------------------------------
(* Functions and programs.                                                 *)

(* A parameter that is an array is a pointer to its elements.              *)
Adjusted(s, type) ==
  IF ~Sees(s, "LSQUARE") THEN s
  ELSE Then(Dims(Give(Expect(Take(IF Ahead(s, 1) = "NUM" THEN Take(s) ELSE s), "RSQUARE"), type)),
            LAMBDA t, element : Give(t, Pointer(element)))

(* The value of a list of parameters is how many have a name.              *)
Parameter(s, count) ==
  IF Sees(s, "ELLIPSIS") THEN Give(Take(s), count)
  ELSE Then(TypeName(s), LAMBDA t, type :
         IF ~Sees(t, "IDENT") THEN Give(t, count)
         ELSE Then(Adjusted(Take(t), type), LAMBDA u, adjusted :
                Give(Declare(u, t.toks[t.at].name, adjusted), count + 1)))

RECURSIVE Parameters(_, _)
Parameters(s, count) ==
  Then(Parameter(s, count), LAMBDA t, n : IF Sees(t, "COMMA") THEN Parameters(Take(t), n) ELSE Expect(t, "RPAREN"))

External(s, name) ==
  LET fresh == [s EXCEPT !.vars = << >>, !.scope = << >>, !.block = {}]
  IN Then(IF Sees(fresh, "RPAREN") THEN Give(Take(fresh), 0) ELSE Parameters(fresh, 0), LAMBDA t, count :
       IF Sees(t, "SEMI") THEN Take(t)
       ELSE Then(Body(t), LAMBDA u, body :
              [u EXCEPT !.funcs = Append(@, [name |-> name, nparams |-> count, vars |-> u.vars, body |-> body])]))

RECURSIVE Unit(_)
Unit(s) ==
  IF ~s.ok \/ Sees(s, "EOF") THEN s
  ELSE Unit(Then(TypeName(s), LAMBDA t, type :
         IF Sees(t, "IDENT") /\ Ahead(t, 1) = "LPAREN" THEN External(Take(Take(t)), t.toks[t.at].name)
         ELSE Fail(t)))

(* What a text says, if it says something, and how far it could be read.   *)
Said(toks, rules) ==
  LET end == Unit(Reader(toks, rules))
  IN [ok |-> end.ok, at |-> end.at, funcs |-> end.funcs, strings |-> end.strings]
=============================================================================
