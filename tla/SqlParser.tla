------------------------------ MODULE SqlParser ------------------------------
(***************************************************************************)
(* The recursive descent parser of the SQL dialect (wcol-sql-parser).       *)
(* A token is <<kind>> or <<kind, lexeme>>, with keywords, punctuation and   *)
(* operators as kinds of their own; a text is a sequence of tokens.  An      *)
(* expression is a tuple that starts with its variant's name:               *)
(*   <<"star">>  <<"ident", name>>  <<"int", n>>  <<"str", s>>              *)
(*   <<"agg", func, distinct, arg>>        <<"binary", op, left, right>>     *)
(*   <<"compare", op, left, right>>        <<"like", left, pattern, negated>> *)
(*   <<"and", left, right>>  <<"call", name, args>>                         *)
(*   <<"in", left, values, negated>>                                        *)
(***************************************************************************)
EXTENDS Integers, Sequences, SequencesExt

AggFns == {"count", "sum", "avg", "min", "max", "approx_count_distinct"}
CmpOps == {"=", "<>", "<", "<=", ">", ">="}

\* The current token: "eof" after the last.
Kind(s) == IF s = <<>> THEN "eof" ELSE s[1][1]

\* PResult: what was parsed and the tokens left.  On(r, F) goes on with F unless r is an error.
Got(e, rest) == [ok |-> TRUE, e |-> e, rest |-> rest]
ParseError == [ok |-> FALSE, e |-> <<>>, rest |-> <<>>]
On(r, F(_, _)) == IF r.ok THEN F(r.e, r.rest) ELSE ParseError
Expect(s, kind, F(_)) == IF Kind(s) = kind THEN F(Tail(s)) ELSE ParseError

\* parse_ident and parse_u64: one token of that kind.
ParseIdent(s) == IF Kind(s) = "ident" THEN Got(s[1][2], Tail(s)) ELSE ParseError
ParseU64(s) == IF Kind(s) = "int" THEN Got(s[1][2], Tail(s)) ELSE ParseError

RECURSIVE ParseExprBp(_, _), ParseBinary(_, _, _), ParseExprList(_)

\* Only COUNT takes DISTINCT or a star; approx_count_distinct may say DISTINCT as well.
ArgumentAllowed(func, distinct, arg) ==
    /\ distinct => func \in {"count", "approx_count_distinct"}
    /\ arg = <<"star">> => func = "count"
ParseAggregate(s) ==
    Expect(Tail(s), "(", LAMBDA s1 :
      LET distinct == Kind(s1) = "distinct"
          s2 == IF distinct THEN Tail(s1) ELSE s1
          arg == IF Kind(s2) = "*" THEN Got(<<"star">>, Tail(s2)) ELSE ParseExprBp(s2, 0)
      IN  On(arg, LAMBDA e, s3 :
            Expect(s3, ")", LAMBDA s4 :
              IF ArgumentAllowed(Kind(s), distinct, e)
              THEN Got(<<"agg", Kind(s), distinct, e>>, s4) ELSE ParseError)))

\* A name, or a call when a parenthesis follows.
ParseName(s) ==
    On(ParseIdent(s), LAMBDA name, s1 :
      IF Kind(s1) # "(" THEN Got(<<"ident", name>>, s1)
      ELSE On(ParseExprList(Tail(s1)), LAMBDA args, s2 :
             Expect(s2, ")", LAMBDA s3 : Got(<<"call", name, args>>, s3))))

ParsePrimary(s) ==
    CASE Kind(s) = "-" -> On(ParseExprBp(Tail(s), 2), LAMBDA e, rest : Got(<<"binary", "-", <<"int", 0>>, e>>, rest))
      [] Kind(s) = "*" -> Got(<<"star">>, Tail(s))
      [] Kind(s) \in {"int", "str"} -> Got(s[1], Tail(s))
      [] Kind(s) = "ident" -> ParseName(s)
      [] Kind(s) \in AggFns -> ParseAggregate(s)
      [] Kind(s) = "(" -> On(ParseExprBp(Tail(s), 0), LAMBDA e, s1 : Expect(s1, ")", LAMBDA s2 : Got(e, s2)))
      [] OTHER -> ParseError

\* parse_expr_bp: a Pratt parser with + and - as its only operators, which bind to the left.
ParseBinary(lhs, s, minBp) ==
    IF Kind(s) \notin {"+", "-"} \/ 1 < minBp THEN Got(lhs, s)
    ELSE On(ParseExprBp(Tail(s), 2), LAMBDA rhs, rest : ParseBinary(<<"binary", Kind(s), lhs, rhs>>, rest, minBp))
ParseExprBp(s, minBp) == On(ParsePrimary(s), LAMBDA lhs, rest : ParseBinary(lhs, rest, minBp))

ParseExprList(s) ==
    On(ParseExprBp(s, 0), LAMBDA e, s1 :
      IF Kind(s1) # "," THEN Got(<<e>>, s1)
      ELSE On(ParseExprList(Tail(s1)), LAMBDA es, rest : Got(<<e>> \o es, rest)))

\* An expression, then [NOT] LIKE, [NOT] IN or a comparison.
ParsePredicate(s) ==
    On(ParseExprBp(s, 0), LAMBDA left, s1 :
      LET negated == Kind(s1) = "not"
          s2 == IF negated THEN Tail(s1) ELSE s1
      IN  CASE Kind(s2) = "like" ->
                 On(ParseExprBp(Tail(s2), 0), LAMBDA pattern, rest : Got(<<"like", left, pattern, negated>>, rest))
            [] Kind(s2) = "in" ->
                 Expect(Tail(s2), "(", LAMBDA s3 :
                   On(ParseExprList(s3), LAMBDA values, s4 :
                     Expect(s4, ")", LAMBDA rest : Got(<<"in", left, values, negated>>, rest))))
            [] Kind(s2) \in CmpOps /\ ~negated ->
                 On(ParseExprBp(Tail(s2), 0), LAMBDA right, rest : Got(<<"compare", Kind(s2), left, right>>, rest))
            [] OTHER -> ParseError)

RECURSIVE ParseAnds(_, _), ParseSelectList(_), ParseOrderList(_)
ParseAnds(left, s) ==
    IF Kind(s) # "and" THEN Got(left, s)
    ELSE On(ParsePredicate(Tail(s)), LAMBDA right, rest : ParseAnds(<<"and", left, right>>, rest))
ParseAndPredicate(s) == On(ParsePredicate(s), LAMBDA e, rest : ParseAnds(e, rest))

\* The aliases of SELECT have no use beyond the parser.
ParseSelectList(s) ==
    LET More(e, s1) ==
            IF Kind(s1) # "," THEN Got(<<e>>, s1)
            ELSE On(ParseSelectList(Tail(s1)), LAMBDA es, rest : Got(<<e>> \o es, rest))
    IN  On(ParseExprBp(s, 0), LAMBDA e, s1 :
          IF Kind(s1) # "as" THEN More(e, s1) ELSE On(ParseIdent(Tail(s1)), LAMBDA alias, s2 : More(e, s2)))

ParseOrderList(s) ==
    On(ParseExprBp(s, 0), LAMBDA e, s1 :
      LET item == [expr |-> e, desc |-> Kind(s1) = "desc"]
          s2 == IF Kind(s1) \in {"asc", "desc"} THEN Tail(s1) ELSE s1
      IN  IF Kind(s2) # "," THEN Got(<<item>>, s2)
          ELSE On(ParseOrderList(Tail(s2)), LAMBDA items, rest : Got(<<item>> \o items, rest)))

\* An optional clause: what P makes of the tokens after its keyword, else `none`.
Clause(s, kind, none, P(_)) == IF Kind(s) = kind THEN P(Tail(s)) ELSE Got(none, s)
ByClause(s, kind, P(_)) == Clause(s, kind, <<>>, LAMBDA s1 : Expect(s1, "by", P))

\* parse_query: an absent WHERE or HAVING is <<>>, an absent OFFSET or LIMIT 0.
ParseQuery(s0) ==
    LET Ends(s) == s = <<>> \/ s = << <<";">> >>
    IN  Expect(s0, "select", LAMBDA s1 :
        On(ParseSelectList(s1), LAMBDA select, s2 :
        Expect(s2, "from", LAMBDA s3 :
        On(ParseIdent(s3), LAMBDA from, s4 :
        On(Clause(s4, "where", <<>>, ParseAndPredicate), LAMBDA where, s5 :
        On(ByClause(s5, "group", ParseExprList), LAMBDA groupBy, s6 :
        On(Clause(s6, "having", <<>>, ParseAndPredicate), LAMBDA having, s7 :
        On(ByClause(s7, "order", ParseOrderList), LAMBDA orderBy, s8 :
        On(Clause(s8, "offset", 0, ParseU64), LAMBDA offset, s9 :
        On(Clause(s9, "limit", 0, ParseU64), LAMBDA limit, s10 :
          IF Ends(s10)
          THEN Got([select |-> select, where |-> where, groupBy |-> groupBy, having |-> having,
                    orderBy |-> orderBy, offset |-> offset, limit |-> limit], <<>>)
          ELSE ParseError))))))))))
=============================================================================
