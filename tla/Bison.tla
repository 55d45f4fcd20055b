------------------------------- MODULE Bison -------------------------------
(***************************************************************************)
(* What bison makes of the rules and precedences: a parser that shifts or  *)
(* reduces by the rules its stack leaves possible and the token ahead.     *)
(* An item is a rule and how much of it has been seen.                     *)
(*                                                                         *)
(* The tokens a rule may be reduced before are those that may follow its   *)
(* symbol anywhere (SLR), a superset of those bison works with (LALR): a   *)
(* grammar without conflicts here has none there.  Before a token that     *)
(* fits nowhere, bison may reduce more or less than this does; neither     *)
(* shifts it.                                                              *)
(***************************************************************************)
EXTENDS Grammar

RuleNos == DOMAIN Rules
Symbols == Terminals \union {Rules[r].lhs : r \in RuleNos}

(* Everything x reaches in the relation. *)
RECURSIVE Reached(_, _)
Reached(relation, S) ==
  LET more == S \union {pair[2] : pair \in {p \in relation : p[1] \in S}}
  IN IF more = S THEN S ELSE Reached(relation, more)

RECURSIVE NullableFrom(_)
NullableFrom(S) ==
  LET more == S \union {Rules[r].lhs : r \in {q \in RuleNos : Range(Rules[q].rhs) \subseteq S}}
  IN IF more = S THEN S ELSE NullableFrom(more)

Nullable == NullableFrom({})

(* Between two places of a rule there may be nothing. *)
Skips(rhs, from, to) == \A k \in from..to : rhs[k] \in Nullable

Begins == UNION {{<<Rules[r].lhs, Rules[r].rhs[k]>> :
                    k \in {j \in DOMAIN Rules[r].rhs : Skips(Rules[r].rhs, 1, j - 1)}} : r \in RuleNos}
Ends   == UNION {{<<Rules[r].lhs, Rules[r].rhs[k]>> :
                    k \in {j \in DOMAIN Rules[r].rhs : Skips(Rules[r].rhs, j + 1, Len(Rules[r].rhs))}} : r \in RuleNos}
Heads  == {<<Rules[r].lhs, Rules[r].rhs[1]>> : r \in {q \in RuleNos : Rules[q].rhs # << >>}}

First   == [x \in Symbols |-> Reached(Begins, {x}) \intersect Terminals]
LastIn  == [x \in Symbols |-> Reached(Ends, {x})]
HeadsOf == [x \in Symbols |-> Reached(Heads, {x})]

(* The tokens after a symbol, in any sentence. *)
FollowPairs ==
  UNION {LET rhs == Rules[r].rhs
         IN UNION {LastIn[rhs[p[1]]] \X First[rhs[p[2]]] :
                     p \in {q \in (DOMAIN rhs) \X (DOMAIN rhs) : q[1] < q[2] /\ Skips(rhs, q[1] + 1, q[2] - 1)}} :
         r \in RuleNos}

Follow == [x \in Symbols |-> {p[2] : p \in {q \in FollowPairs : q[1] = x}}]

-----------------------------------------------------------------------------
(* Decisions.  A state of the parser is its items before closure.          *)

StartItems == {<<1, 0>>}

AtEnd(item) == item[2] = Len(Rules[item[1]].rhs)
NextIn(item) == Rules[item[1]].rhs[item[2] + 1]

RulesOf == [x \in Symbols |-> {r \in RuleNos : Rules[r].lhs = x}]

Items(kernel) ==
  LET heads == UNION {HeadsOf[NextIn(i)] : i \in {j \in kernel : ~AtEnd(j)}}
  IN kernel \union ((UNION {RulesOf[x] : x \in heads}) \X {0})

(* The state after another symbol. *)
Goto(kernel, x) ==
  {<<i[1], i[2] + 1>> : i \in {j \in Items(kernel) : ~AtEnd(j) /\ NextIn(j) = x}}

CanShift(kernel, tok) == Goto(kernel, tok) # {}

Reducible(kernel, tok) ==
  {i[1] : i \in {j \in Items(kernel) : AtEnd(j) /\ tok \in Follow[Rules[j[1]].lhs]}}

LevelOf(tok) == SelectInSeq(Precedence, LAMBDA level : tok \in level.toks)

(* Between a shift and a reduction the higher precedence wins, and at the  *)
(* same level the side its associativity names; without one, the shift.    *)
ShiftWins(tok, rule) ==
  LET ahead == LevelOf(tok)
      done  == LevelOf(rule.prec)
  IN ahead = 0 \/ done = 0 \/ ahead > done \/ (ahead = done /\ Precedence[ahead].assoc = "right")

ReduceWins(tok, rule) ==
  LET ahead == LevelOf(tok)
      done  == LevelOf(rule.prec)
  IN 0 < ahead /\ (ahead < done \/ (ahead = done /\ Precedence[ahead].assoc = "left"))

Shifts(kernel, tok) ==
  CanShift(kernel, tok) /\ \A r \in Reducible(kernel, tok) : ShiftWins(tok, Rules[r])

Reduces(kernel, tok) ==
  {r \in Reducible(kernel, tok) : CanShift(kernel, tok) => ReduceWins(tok, Rules[r])}

(* No precedence decides here. *)
Conflict(kernel, tok) ==
  \/ Cardinality(Reducible(kernel, tok)) > 1
  \/ CanShift(kernel, tok) /\ \E r \in Reducible(kernel, tok) :
       LevelOf(tok) = 0 \/ LevelOf(Rules[r].prec) = 0
=============================================================================
