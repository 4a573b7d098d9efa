----------------------------- MODULE SqlMeaning -----------------------------
(***************************************************************************)
(* What a SQL query means, read off the query as its author meant it and     *)
(* not off the plan, and how such a query is written down: the reference     *)
(* for the parser and the planner together.                                 *)
(***************************************************************************)
EXTENDS QueryMeaning, SqlPlan

-----------------------------------------------------------------------------
(* Writing a query down. *)

Join(lists, separator) ==
    FoldLeft(LAMBDA out, l : IF out = <<>> THEN l ELSE out \o <<separator>> \o l, <<>>, lists)
InParentheses(tokens) == << <<"(">> >> \o tokens \o << <<")">> >>

RECURSIVE Write(_)
Write(e) ==
    CASE e[1] = "star" -> << <<"*">> >>
      [] e[1] \in {"ident", "int", "str"} -> <<e>>
      [] e[1] = "agg" -> << <<e[2]>> >> \o InParentheses((IF e[3] THEN << <<"distinct">> >> ELSE <<>>) \o Write(e[4]))
      [] e[1] = "call" -> << <<"ident", e[2]>> >> \o InParentheses(Join([i \in DOMAIN e[3] |-> Write(e[3][i])], <<",">>))
      [] e[1] = "binary" ->
           (IF e[3] = <<"int", 0>> THEN <<>> ELSE Write(e[3])) \o << <<e[2]>> >>
             \o (IF e[4][1] = "binary" THEN InParentheses(Write(e[4])) ELSE Write(e[4]))
      [] e[1] = "compare" -> Write(e[3]) \o << <<e[2]>> >> \o Write(e[4])
      [] e[1] = "and" -> Write(e[2]) \o << <<"and">> >> \o Write(e[3])
      [] e[1] = "like" -> Write(e[2]) \o (IF e[4] THEN << <<"not">> >> ELSE <<>>) \o << <<"like">> >> \o Write(e[3])
      [] e[1] = "in" -> Write(e[2]) \o (IF e[4] THEN << <<"not">> >> ELSE <<>>) \o << <<"in">> >>
                          \o InParentheses(Join([i \in DOMAIN e[3] |-> Write(e[3][i])], <<",">>))

WriteList(es) == Join([i \in DOMAIN es |-> Write(es[i])], <<",">>)
WriteOrder(items) ==
    Join([i \in DOMAIN items |-> Write(items[i].expr) \o (IF items[i].desc THEN << <<"desc">> >> ELSE <<>>)], <<",">>)
WriteQuery(sql) ==
    LET Opt(keyword, none, x, tokens) == IF x = none THEN <<>> ELSE keyword \o tokens
    IN  << <<"select">> >> \o WriteList(sql.select) \o << <<"from">>, <<"ident", "t">> >>
          \o Opt(<< <<"where">> >>, <<>>, sql.where, IF sql.where = <<>> THEN <<>> ELSE Write(sql.where))
          \o Opt(<< <<"group">>, <<"by">> >>, <<>>, sql.groupBy, WriteList(sql.groupBy))
          \o Opt(<< <<"having">> >>, <<>>, sql.having, IF sql.having = <<>> THEN <<>> ELSE Write(sql.having))
          \o Opt(<< <<"order">>, <<"by">> >>, <<>>, sql.orderBy, WriteOrder(sql.orderBy))
          \o Opt(<< <<"offset">> >>, 0, sql.offset, << <<"int", sql.offset>> >>)
          \o Opt(<< <<"limit">> >>, 0, sql.limit, << <<"int", sql.limit>> >>)

-----------------------------------------------------------------------------
(* The part of SQL a plan can say. *)

Col(name) == <<"ident", name>>
CountStarExpr == <<"agg", "count", FALSE, <<"star">>>>
RECURSIVE Conditions(_)
Conditions(pred) ==
    IF pred = <<>> THEN {} ELSE IF pred[1] = "and" THEN Conditions(pred[2]) \cup Conditions(pred[3]) ELSE {pred}
LiteralFor(col, e) ==
    IF col = Col("k") THEN e[1] = "str"
    ELSE Value(e) # <<>> /\ (Value(e)[1][1] = "str" => Value(e)[1][2] \in DOMAIN Numbers \cup DOMAIN Dates)

\* A condition on one column, which stands on the left, against literals of its type.
Sayable(cond) ==
    \/ /\ cond[1] = "compare" /\ cond[3] \in {Col("k"), Col("v")} /\ LiteralFor(cond[3], cond[4])
       /\ cond[3] = Col("k") => cond[2] \in {"=", "<>"}
    \/ /\ cond[1] = "in" /\ cond[2] \in {Col("k"), Col("v")} /\ ~cond[4]
       /\ \A i \in DOMAIN cond[3] : LiteralFor(cond[2], cond[3][i])
    \/ cond[1] = "like" /\ cond[2] = Col("k")
SayableAgg(e) == e = CountStarExpr \/ (~e[3] /\ AggArg(e[4]).col = "v")
ByKey(sql) == Col("k") \in Range(sql.groupBy)

\* Groups come by their count or in no order, rows by columns, the smallest first.
InDialect(sql) ==
    /\ sql.having = <<>>
    /\ \A cond \in Conditions(sql.where) : Sayable(cond)
    /\ \A i \in DOMAIN sql.groupBy : sql.groupBy[i] = Col("k") \/ sql.groupBy[i][1] = "int"
    /\ \A i \in DOMAIN sql.select :
         IF sql.select[i][1] = "agg" THEN SayableAgg(sql.select[i]) /\ (ByKey(sql) => AggOf(sql.select[i]).off = 0)
         ELSE sql.select[i] \in {Col("k"), Col("v"), <<"star">>}
    /\ IF ByKey(sql) THEN sql.orderBy \in {<<>>, <<[expr |-> CountStarExpr, desc |-> TRUE]>>}
       ELSE \A i \in DOMAIN sql.orderBy : sql.orderBy[i].expr \in {Col("k"), Col("v")} /\ ~sql.orderBy[i].desc

\* What no plan expresses and must therefore be refused.
Inexpressible(sql) ==
    \/ sql.having # <<>>
    \/ \E cond \in Conditions(sql.where) : cond[1] = "in" /\ cond[4]
    \/ \E i \in DOMAIN sql.groupBy : sql.groupBy[i][1] \notin {"int", "ident"}
    \/ \E i \in DOMAIN sql.select : sql.select[i][1] = "agg" /\ sql.select[i][4][1] = "call"

-----------------------------------------------------------------------------
(* The rows a query of that part is about. *)

\* Days from 1970-01-01, counted month by month.
DaysIn(y, m) ==
    IF m = 2 THEN (IF y % 4 = 0 /\ (y % 100 # 0 \/ y % 400 = 0) THEN 29 ELSE 28)
    ELSE IF m \in {4, 6, 9, 11} THEN 30 ELSE 31
CountedDays(date) ==
    LET before == {<<y, m>> \in (1970..date[1]) \X (1..12) : y < date[1] \/ m < date[2]}
    IN  MapThenSumSet(LAMBDA ym : DaysIn(ym[1], ym[2]), before) + date[3] - 1

NumberOf(e) ==
    LET s == Value(e)[1][2]
    IN  IF Value(e)[1][1] = "int" THEN s ELSE IF s \in DOMAIN Numbers THEN Numbers[s] ELSE CountedDays(Dates[s])

RECURSIVE HoldsFor(_, _)
HoldsFor(pred, r) ==
    LET At(e) == Cell(r, e[2])
        Word(e) == Words[Cell(r, e[2]) + 1]
    IN  CASE pred = <<>> -> TRUE
          [] pred # <<>> /\ pred[1] = "and" -> HoldsFor(pred[2], r) /\ HoldsFor(pred[3], r)
          [] pred # <<>> /\ pred[1] = "compare" ->
               /\ At(pred[3]) # Null
               /\ IF pred[3] = Col("k") THEN (Word(pred[3]) = pred[4][2]) = (pred[2] = "=")
                  ELSE LET x == At(pred[3])
                           y == NumberOf(pred[4])
                       IN  \/ pred[2] \in {"=", "<=", ">="} /\ x = y
                           \/ pred[2] \in {"<", "<=", "<>"} /\ x < y
                           \/ pred[2] \in {">", ">=", "<>"} /\ x > y
          [] pred # <<>> /\ pred[1] = "in" ->
               /\ At(pred[2]) # Null
               /\ \E i \in DOMAIN pred[3] :
                    IF pred[2] = Col("k") THEN Word(pred[2]) = pred[3][i][2] ELSE At(pred[2]) = NumberOf(pred[3][i])
          [] pred # <<>> /\ pred[1] = "like" ->
               At(pred[2]) # Null /\ (At(pred[2]) \in Containing[Trimmed[pred[3][2]]]) # pred[4]
MeantRows(sql) == {r \in RowIds : Within(r) \in DOMAIN table[ChunkOf(r)]["k"] /\ HoldsFor(sql.where, r)}

RECURSIVE AtZero(_)
AtZero(e) ==
    CASE e[1] = "ident" -> 0
      [] e[1] = "int" -> e[2]
      [] e[1] = "binary" -> IF e[2] = "+" THEN AtZero(e[3]) + AtZero(e[4]) ELSE AtZero(e[3]) - AtZero(e[4])

\* The aggregates a query asks for, in the order of its SELECT; x + n is off by n from x.
MeantAggs(sql) ==
    LET asked == SelectSeq(sql.select, LAMBDA e : e[1] = "agg")
    IN  [i \in DOMAIN asked |->
           IF asked[i] = CountStarExpr THEN [kind |-> "count_star", off |-> 0]
           ELSE [kind |-> asked[i][2], off |-> AtZero(asked[i][4])]]
=============================================================================
