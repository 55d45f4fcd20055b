------------------------------ MODULE Grammar ------------------------------
(***************************************************************************)
(* The grammar of src/ast/parser.y: its tokens, precedences and rules.     *)
(* What a rule does with the values of its symbols is named here and said  *)
(* in Parser.                                                              *)
(***************************************************************************)
EXTENDS Ast, FiniteSets

Token(tok) == [tok |-> tok, name |-> "", num |-> 0, data |-> << >>]
Ident(name) == [Token("IDENT") EXCEPT !.name = name]
Num(num)    == [Token("NUM") EXCEPT !.num = num]
Str(data)   == [Token("STR") EXCEPT !.data = data]

Terminals ==
  {"NUM", "IDENT", "STR", "INT", "CHAR", "VOID", "CONST", "RETURN", "IF", "ELSE", "FOR", "WHILE",
   "BREAK", "CONTINUE", "SIZEOF", "ADD", "SUB", "MUL", "DIV", "MOD", "ASSIGN", "NOT", "AMP",
   "EQ", "NE", "LT", "GT", "LE", "GE", "AND", "OR", "LPAREN", "RPAREN", "LSQUARE", "RSQUARE",
   "LBRACE", "RBRACE", "SEMI", "COMMA", "ELLIPSIS", "EOF"}

Level(assoc, toks) == [assoc |-> assoc, toks |-> toks]

(* Both logical operators at one level. *)
PrecedenceOneLogical ==
  <<Level("nonassoc", {"LOWER_THAN_ELSE"}), Level("nonassoc", {"ELSE"}), Level("right", {"ASSIGN"}),
    Level("left", {"OR", "AND"}), Level("left", {"EQ", "NE"}), Level("left", {"LT", "GT", "LE", "GE"}),
    Level("left", {"ADD", "SUB"}), Level("left", {"MUL", "DIV", "MOD"})>>

(* The lowest first. *)
Precedence ==
  <<Level("nonassoc", {"LOWER_THAN_ELSE"}), Level("nonassoc", {"ELSE"}), Level("right", {"ASSIGN"}),
    Level("left", {"OR"}), Level("left", {"AND"}), Level("left", {"EQ", "NE"}),
    Level("left", {"LT", "GT", "LE", "GE"}), Level("left", {"ADD", "SUB"}), Level("left", {"MUL", "DIV", "MOD"})>>

(* A rule has the precedence of its last token, or the one it names.       *)
RuleWith(lhs, rhs, act, prec) == [lhs |-> lhs, rhs |-> rhs, act |-> act, prec |-> prec]

Rule(lhs, rhs, act) ==
  LET toks == SelectSeq(rhs, LAMBDA x : x \in Terminals)
  IN RuleWith(lhs, rhs, act, IF toks = << >> THEN "" ELSE Last(toks))

(* `@' stands for the action in the middle of a rule; the value of a rule  *)
(* without an action is that of its first symbol.                          *)
TopRules == <<
  Rule("$accept", <<"translation_unit", "EOF">>, "first"),
  Rule("translation_unit", << >>, "null"),
  Rule("translation_unit", <<"translation_unit", "external_decl">>, "first"),
  Rule("external_decl", <<"type_name", "IDENT", "LPAREN", "@", "params", "RPAREN", "func_tail">>, "first"),
  Rule("@", << >>, "begin"),
  Rule("func_tail", <<"compound_stmt">>, "function"),
  Rule("func_tail", <<"SEMI">>, "null"),
  Rule("params", << >>, "null"),
  Rule("params", <<"param_list">>, "first"),
  Rule("param_list", <<"param">>, "first"),
  Rule("param_list", <<"param_list", "COMMA", "param">>, "first"),
  Rule("param", <<"type_name", "IDENT", "param_dims">>, "param"),
  Rule("param", <<"type_name">>, "null"),
  Rule("param", <<"ELLIPSIS">>, "null"),
  Rule("param_dims", <<"array_dims">>, "first"),
  Rule("param_dims", <<"LSQUARE", "RSQUARE", "array_dims">>, "open dims")>>

TypeRules == <<
  Rule("type_name", <<"quals", "base", "stars">>, "pointers"),
  Rule("quals", << >>, "null"),
  Rule("quals", <<"quals", "CONST">>, "null"),
  Rule("base", <<"INT">>, "int"),
  Rule("base", <<"CHAR">>, "char"),
  Rule("base", <<"VOID">>, "void"),
  Rule("stars", << >>, "zero"),
  Rule("stars", <<"stars", "MUL">>, "one more")>>

(* An if without an else that binds no weaker than the else. *)
IfRulesNoPrec == <<
  Rule("stmt", <<"IF", "LPAREN", "expr", "RPAREN", "stmt">>, "if"),
  Rule("stmt", <<"IF", "LPAREN", "expr", "RPAREN", "stmt", "ELSE", "stmt">>, "if else")>>

IfRules == <<
  RuleWith("stmt", <<"IF", "LPAREN", "expr", "RPAREN", "stmt">>, "if", "LOWER_THAN_ELSE"),
  Rule("stmt", <<"IF", "LPAREN", "expr", "RPAREN", "stmt", "ELSE", "stmt">>, "if else")>>

StmtRules == <<
  Rule("compound_stmt", <<"LBRACE", "stmt_list", "RBRACE">>, "block"),
  Rule("stmt_list", << >>, "no list"),
  Rule("stmt_list", <<"stmt", "stmt_list">>, "longer list"),
  Rule("stmt", <<"RETURN", "expr", "SEMI">>, "return"),
  Rule("stmt", <<"RETURN", "SEMI">>, "return nothing"),
  Rule("stmt", <<"FOR", "LPAREN", "expr_opt", "SEMI", "expr_opt", "SEMI", "expr_opt", "RPAREN", "stmt">>, "for"),
  Rule("stmt", <<"WHILE", "LPAREN", "expr", "RPAREN", "stmt">>, "while"),
  Rule("stmt", <<"compound_stmt">>, "first"),
  Rule("stmt", <<"decl", "SEMI">>, "first"),
  Rule("stmt", <<"expr", "SEMI">>, "expr stmt"),
  Rule("stmt", <<"SEMI">>, "null"),
  Rule("decl", <<"type_name", "IDENT", "array_dims">>, "declare"),
  Rule("decl", <<"type_name", "IDENT", "ASSIGN", "expr">>, "initialise"),
  Rule("array_dims", << >>, "no list"),
  Rule("array_dims", <<"LSQUARE", "NUM", "RSQUARE", "array_dims">>, "dims"),
  Rule("expr_opt", << >>, "null"),
  Rule("expr_opt", <<"expr">>, "first")>>

BinaryTokens == <<"ADD", "SUB", "MUL", "DIV", "MOD", "EQ", "NE", "LT", "GT", "LE", "GE", "AND", "OR", "ASSIGN">>

ExprRules ==
  <<Rule("expr", <<"cast">>, "first")>>
  \o [k \in DOMAIN BinaryTokens |-> Rule("expr", <<"expr", BinaryTokens[k], "expr">>, "binary")]

(* The operand of sizeof as any cast expression. *)
SizeofOfCast == Rule("unary", <<"SIZEOF", "cast">>, "prefix")

SizeofRule == Rule("unary", <<"SIZEOF", "unary">>, "prefix")

UnaryRules == <<
  Rule("cast", <<"unary">>, "first"),
  Rule("cast", <<"LPAREN", "type_name", "RPAREN", "cast">>, "cast"),
  Rule("unary", <<"postfix">>, "first"),
  Rule("unary", <<"SUB", "cast">>, "prefix"),
  Rule("unary", <<"NOT", "cast">>, "prefix"),
  Rule("unary", <<"MUL", "cast">>, "prefix"),
  Rule("unary", <<"AMP", "cast">>, "prefix"),
  SizeofRule,
  Rule("unary", <<"SIZEOF", "LPAREN", "type_name", "RPAREN">>, "size"),
  Rule("postfix", <<"primary">>, "first"),
  Rule("postfix", <<"postfix", "LSQUARE", "expr", "RSQUARE">>, "subscript"),
  Rule("primary", <<"NUM">>, "number"),
  Rule("primary", <<"STR">>, "string"),
  Rule("primary", <<"IDENT">>, "variable"),
  Rule("primary", <<"IDENT", "LPAREN", "args", "RPAREN">>, "call"),
  Rule("primary", <<"LPAREN", "expr", "RPAREN">>, "second"),
  Rule("args", << >>, "no list"),
  Rule("args", <<"arg_list">>, "first"),
  Rule("arg_list", <<"expr">>, "one"),
  Rule("arg_list", <<"expr", "COMMA", "arg_list">>, "longer args")>>

Rules == TopRules \o TypeRules \o IfRules \o StmtRules \o ExprRules \o UnaryRules
=============================================================================
