------------------------------ MODULE MCParser ------------------------------
(* Texts of a few shapes: every choice of operators between operands, of   *)
(* prefixes before them, of nested statements, and of declarations.        *)
EXTENDS Parser

Toks(names) == [k \in DOMAIN names |-> {Token(names[k])}]

(* int NAME ( PARAMS ) { BODY } *)
Function(name, params, body) ==
  <<{Token("INT")}, {Ident(name)}, {Token("LPAREN")}>> \o params
  \o Toks(<<"RPAREN", "LBRACE">>) \o body \o <<{Token("RBRACE")}>>

IntParam(name) == <<{Token("INT")}, {Ident(name)}>>
Star(params) == <<params[1], {Token("MUL")}, params[2]>>
Comma == Toks(<<"COMMA">>)

(* In a function of an int a and a pointer p. *)
InF(body) == Function("f", IntParam("a") \o Comma \o Star(IntParam("p")), body)
Expr(tokens) == InF(tokens \o Toks(<<"SEMI">>))

Operators == {Token(BinaryTokens[k]) : k \in DOMAIN BinaryTokens}
OfEachLevel == {Token(tok) : tok \in {"OR", "AND", "EQ", "GE", "SUB", "DIV", "ASSIGN"}}
Signs == {Token(tok) : tok \in {"SUB", "NOT", "MUL", "AMP", "SIZEOF"}}
A == {Ident("a")}
P == {Ident("p")}

Binaries == {Expr(<<A, Operators, A, Operators, A, Operators, A>>)}

Cast == Toks(<<"LPAREN", "INT">>) \o <<{Token("MUL"), Token("RPAREN")}>>

Unaries ==
  {Expr(<<Signs, Signs, P, OfEachLevel, A>>),
   Expr(<<Signs, P>> \o Toks(<<"LSQUARE">>) \o <<A, OfEachLevel, A>> \o Toks(<<"RSQUARE">>) \o <<OfEachLevel, A>>),
   Expr(<<Signs>> \o Toks(<<"LPAREN", "CHAR", "RPAREN">>) \o <<Signs \union A, A, OfEachLevel \union Signs, A>>),
   Expr(<<Signs, {Token("LPAREN")}, A, OfEachLevel, A, {Token("RPAREN")}, OfEachLevel \union Signs, A>>),
   Expr(Toks(<<"SIZEOF">>) \o Cast \o <<{Token("RPAREN"), Token("MUL")}, A \union Signs, A>>),
   Expr(<<{Ident("g")}, {Token("LPAREN")}, A, {Token("COMMA"), Token("ADD"), Token("RPAREN")},
          {Num(1), Str(<<1>>), Token("RPAREN")}, {Token("COMMA"), Token("RPAREN"), Token("LPAREN")},
          {Str(<<2>>)}, {Token("RPAREN")}>>),
   Expr(<<{Str(<<1>>)}, {Token("ADD"), Token("LSQUARE")}, {Str(<<2>>), Num(0)}, {Token("ADD"), Token("RSQUARE")}, A>>)}

(* Nested ifs, loops and blocks around empty and returning statements.     *)
IfA == Toks(<<"IF", "LPAREN">>) \o <<A>> \o Toks(<<"RPAREN">>)
WhileA == Toks(<<"WHILE", "LPAREN">>) \o <<A>> \o Toks(<<"RPAREN">>)
Semi == {Token("SEMI")}
Else == {Token("ELSE")}
ForTokens == {Token("SEMI"), Ident("a")}

Statements ==
  {InF(IfA \o IfA \o <<Semi, Else \union Semi, Semi \union Else, Semi \union Else \union {Token("RETURN")}, Semi>>),
   InF(IfA \o WhileA \o IfA \o <<Semi, Else, Semi, Else, Semi>>),
   InF(IfA \o <<{Token("LBRACE")}>> \o IfA \o <<Semi, {Token("RBRACE")}, Else, Semi>>),
   InF(Toks(<<"FOR", "LPAREN">>) \o <<ForTokens, ForTokens, ForTokens, ForTokens \union {Token("RPAREN")},
       ForTokens \union {Token("RPAREN")}, ForTokens \union {Token("RPAREN")}, ForTokens, Semi>>),
   InF(<<{Token("RETURN")}, A \union Semi, {Token("ADD"), Token("SEMI"), Token("BREAK")}, A \union Semi, Semi>>),
   InF(<<{Token("LBRACE"), Token("SEMI")}, {Token("RBRACE"), Token("CONTINUE"), Token("LBRACE")},
         {Token("RBRACE"), Token("SEMI")}, {Token("RBRACE"), Token("SEMI")}>>)}

(* Declarations with and without dimensions and initialisers, in and out   *)
(* of blocks, of parameters too, and uses of a name before and after.      *)
B == {Ident("b")}
TypeTok == {Token("CHAR"), Token("CONST")}

Declarations ==
  {InF(<<TypeTok, {Token("INT"), Token("MUL")}, {Token("MUL"), Ident("b")}, {Ident("b"), Token("SEMI"), Token("ASSIGN")},
         A \union B \union Semi, Semi>>),
   InF(<<{Token("INT")}, B, {Token("LSQUARE")}, {Num(2)}, {Token("RSQUARE")}, {Token("LSQUARE"), Token("SEMI"), Token("ASSIGN")},
         {Num(3), Ident("b")}, {Token("RSQUARE"), Token("SEMI")}, Semi>>),
   InF(<<{Token("INT")}, B, Semi, {Token("LBRACE")}, {Token("CHAR")}, B \union {Ident("c")}, Semi,
         B \union {Ident("c")}, Semi, {Token("RBRACE")}, {Ident("c"), Ident("b")}, Semi>>),
   InF(IfA \o <<{Token("INT")}, B, {Token("ASSIGN")}, A \union B, Semi, B, Semi>>)}

Dims(n) == <<{Token("LSQUARE")}, {Num(n), Token("RSQUARE")}, {Token("RSQUARE"), Token("LSQUARE")}>>

Headers ==
  {Function("f", IntParam("a") \o Dims(2) \o <<{Num(3), Token("COMMA"), Token("RPAREN")}, {Token("RSQUARE"), Token("INT")}>>, << >>),
   Function("f", IntParam("a") \o Comma \o <<{Token("CHAR"), Token("ELLIPSIS"), Token("CONST")}, {Token("INT"), Token("MUL"), Token("RPAREN")}>>, << >>),
   Function("f", <<{Token("VOID")}>>, <<B, Semi>>),
   <<{Token("INT")}, {Ident("g")}, {Token("LPAREN")}, {Token("INT")}, A, {Token("RPAREN")}, {Token("SEMI"), Token("LBRACE")},
     {Token("RBRACE"), Token("INT")}>> \o Function("f", IntParam("b"), <<A \union B, Semi>>),
   <<{Token("INT")}, {Ident("g")}, {Token("LPAREN")}, {Token("INT")}, A, {Token("RPAREN")}, Semi>>
     \o Function("f", IntParam("b"), <<A \union B, Semi>>)}

MCTexts == Binaries \union Unaries \union Statements \union Declarations \union Headers

(* SYNTAX.md:3 and 83 check blocks off against C99, where a declaration is *)
(* one of its block.                                                       *)
BlockScope == status = "accepted" => SaysTheSame(C!Said(read, "C"))
=============================================================================
