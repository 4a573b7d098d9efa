------------------------------- MODULE SqlPlan -------------------------------
(***************************************************************************)
(* From a parsed SQL query to a plan (sql_plan.rs, filter_literals.rs):      *)
(* names become columns of the file's schema, string literals ids of the     *)
(* dictionary, WHERE a list of filters and a combine program.  A part of the  *)
(* query with no place in a plan is refused, or passed over where the code    *)
(* passes over it.                                                          *)
(*                                                                         *)
(* The schema is the one of ChunkFilter: "k", strings in a dictionary, and    *)
(* "v", numbers.                                                            *)
(***************************************************************************)
EXTENDS ChunkFilter, SqlParser

CONSTANTS Words,       \* Words[id + 1]: the string with that id in the dictionary of "k"
          Numbers,     \* Numbers[s]: the number a string reads as, for those that do
          Dates,       \* Dates[s]: <<year, month, day>> of the strings of the form YYYY-MM-DD
          Trimmed,     \* Trimmed[p]: the pattern p without % at its ends
          Containing   \* Containing[s]: the ids of the words that contain s

ASSUME WordsAssumption == Len(Words) = DictLen /\ \A i, j \in DOMAIN Words : i # j => Words[i] # Words[j]

Columns == {"k", "v"}
NoColumn == "none"
NotInDictionary == DictLen + 1     \* stands for 0xffff_ffff: an id no row has
RowCount == "rows"                 \* ROW_COUNT_COL_ID

\* expr_to_col_name and expr_to_col_id.
ColName(e) == IF e[1] = "ident" THEN e[2] ELSE NoColumn
ColId(e) == IF ColName(e) \in Columns THEN ColName(e) ELSE NoColumn

\* expr_to_value: a literal, a negated integer, or <<>>.
Value(e) ==
    CASE e[1] \in {"int", "str"} -> <<e>>
      [] e[1] = "binary" -> IF e[2] = "-" /\ e[3] = <<"int", 0>> /\ e[4][1] = "int" THEN << <<"int", -e[4][2]>> >> ELSE <<>>
      [] OTHER -> <<>>

\* collect_filters_impl: the conditions an AND joins, as [kind, col, op, values, negated]; one
\* that is not a column against literals is passed over, and a column may stand on either side.
RECURSIVE CollectFilters(_)
CollectFilters(pred) ==
    LET Cond(kind, col, op, values, negated) ==
            IF col = NoColumn \/ values = <<>> THEN <<>>
            ELSE <<[kind |-> kind, col |-> col, op |-> op, values |-> values, negated |-> negated]>>
        Either(a, b, none) == IF a # none THEN a ELSE b
    IN  CASE pred[1] = "and" -> CollectFilters(pred[2]) \o CollectFilters(pred[3])
          [] pred[1] = "compare" ->
               Cond("compare", Either(ColName(pred[3]), ColName(pred[4]), NoColumn), pred[2],
                    Either(Value(pred[4]), Value(pred[3]), <<>>), FALSE)
          [] pred[1] = "in" -> Cond("in", ColName(pred[2]), "=", FlattenSeq([i \in DOMAIN pred[3] |-> Value(pred[3][i])]), pred[4])
          [] pred[1] = "like" -> IF pred[3][1] = "str" THEN Cond("like", ColName(pred[2]), "", <<pred[3]>>, pred[4]) ELSE <<>>
          [] OTHER -> <<>>

\* parse_ymd_days_since_epoch: the year starts in March; years are positive here.
DaysSinceEpoch(date) ==
    LET y == date[1] - (IF date[2] <= 2 THEN 1 ELSE 0)
        yoe == y % 400
        doy == (153 * (date[2] + (IF date[2] > 2 THEN -3 ELSE 9)) + 2) \div 5 + date[3] - 1
    IN  (y \div 400) * 146097 + yoe * 365 + yoe \div 4 - yoe \div 100 + doy - 719468

\* resolve_value and finalize_plan_filters: the number a filter compares with.  A string that is
\* neither a number nor a date stays unresolved on "v", whose filter then compares with 0.
Resolve(literal, col) ==
    LET s == literal[2]
    IN  CASE literal[1] = "int" -> s
          [] literal[1] = "str" /\ IsDict(col) -> IF s \in Range(Words) THEN SelectInSeq(Words, LAMBDA w : w = s) - 1 ELSE NotInDictionary
          [] OTHER -> IF s \in DOMAIN Numbers THEN Numbers[s] ELSE IF s \in DOMAIN Dates THEN DaysSinceEpoch(Dates[s]) ELSE 0

\* cmp_op_to_u8.
OpOf == [op \in CmpOps |-> CASE op = "=" -> "eq" [] op = "<>" -> "neq" [] op = "<" -> "lt"
                             [] op = "<=" -> "lte" [] op = ">" -> "gt" [] op = ">=" -> "gte"]

\* convert_filter; NOT IN and unknown columns are refused.
Convertible(f) == f.col \in Columns /\ ~(f.kind = "in" /\ f.negated)
ConvertFilter(f) ==
    LET Plain(op, x) == [col |-> f.col, op |-> op, value |-> x, value2 |-> x, list |-> NoList, like |-> {}]
        values == [i \in DOMAIN f.values |-> Resolve(f.values[i], f.col)]
    IN  CASE f.kind = "compare" -> Plain(OpOf[f.op], values[1])
          [] f.kind = "in" -> [Plain("eq", 0) EXCEPT !.list = values]
          [] f.kind = "like" -> [Plain(IF f.negated THEN "notlike" ELSE "like", 0)
                                   EXCEPT !.like = Containing[Trimmed[f.values[1][2]]]]

\* The sort of the filters: '' is resolved to an id before the sort when the file has the
\* dictionary, so the filters keep their order; only a deferred literal would move to the front.
Filters(where) == IF where = <<>> THEN <<>> ELSE CollectFilters(where)

\* Seeded fault: the last filter never enters the program.
Combine_OffByOne(n) ==
    IF n < 3 THEN IF n = 2 THEN <<0, 1, AND>> ELSE <<>>
    ELSE <<0, 1, AND>> \o FlattenSeq([i \in 1..(n - 3) |-> <<i + 1, AND>>])

\* The combine program of n filters.
Combine(n) == IF n < 2 THEN <<>> ELSE <<0, 1, AND>> \o FlattenSeq([i \in 1..(n - 2) |-> <<i + 1, AND>>])

\* The keys of GROUP BY: constants and unknown columns are passed over, at most two are taken.
GroupKeys(groupBy) == SelectSeq([i \in DOMAIN groupBy |-> ColId(groupBy[i])], LAMBDA c : c # NoColumn)
GroupRefused(groupBy) ==
    \/ \E i \in DOMAIN groupBy : groupBy[i][1] \notin {"int", "ident"}
    \/ \E i \in DOMAIN groupBy : groupBy[i][1] = "ident" /\ Len(GroupKeys(SubSeq(groupBy, 1, i - 1))) >= 2

\* agg_arg_to_col_id_and_offset: a column, or a column plus or minus a constant that fits in 8 bits.
AggArg(e) ==
    LET arg == CASE e[1] = "ident" -> [col |-> ColId(e), off |-> 0]
                 [] e[1] = "binary" ->
                      IF e[3][1] = "ident" /\ e[4][1] = "int"
                      THEN [col |-> ColId(e[3]), off |-> IF e[2] = "+" THEN e[4][2] ELSE -e[4][2]]
                      ELSE IF e[2] = "+" /\ e[3][1] = "int" /\ e[4][1] = "ident"
                      THEN [col |-> ColId(e[4]), off |-> e[3][2]] ELSE [col |-> NoColumn, off |-> 0]
                 [] OTHER -> [col |-> NoColumn, off |-> 0]
    IN  IF arg.off \in -128..127 THEN arg ELSE [col |-> NoColumn, off |-> 0]
AggOf(e) == IF e[2] = "count" /\ e[4] = <<"star">> THEN [col |-> RowCount, off |-> 0] ELSE AggArg(e[4])
AggKind(e) == IF AggOf(e).col = RowCount THEN "count_star" ELSE e[2]
\* An aggregate of strings is passed over.
Taken(select) == SelectSeq(select, LAMBDA e : e[1] = "agg" /\ ~IsDict(AggOf(e).col))
NoDuplicates(s) == FoldLeft(LAMBDA out, x : IF Contains(out, x) THEN out ELSE Append(out, x), <<>>, s)

\* What apply_query_to_plan refuses.
Refused(sql) ==
    \/ sql.having # <<>>
    \/ \E i \in DOMAIN Filters(sql.where) : ~Convertible(Filters(sql.where)[i])
    \/ GroupRefused(sql.groupBy)
    \/ \E i \in DOMAIN sql.select : sql.select[i][1] = "agg" /\ AggOf(sql.select[i]).col = NoColumn

\* apply_query_to_plan on an empty plan, for a query it does not refuse.
ApplyQuery(sql) ==
    LET filters == [i \in DOMAIN Filters(sql.where) |-> ConvertFilter(Filters(sql.where)[i])]
        keys == GroupKeys(sql.groupBy)
        taken == Taken(sql.select)
        orderBy == SubSeq(sql.orderBy, 1, IF Len(sql.orderBy) > 2 THEN 2 ELSE Len(sql.orderBy))
        names == SelectSeq([i \in DOMAIN sql.select |-> ColId(sql.select[i])], LAMBDA c : c # NoColumn)
    IN  [filters |-> filters, combine |-> Combine(Len(filters)),
         group |-> keys # <<>>,
         byCount |-> keys # <<>> /\ sql.orderBy # <<>>,
         order |-> IF keys # <<>> THEN <<>>
                   ELSE SelectSeq([i \in DOMAIN orderBy |-> ColId(orderBy[i].expr)], LAMBDA c : c # NoColumn),
         groupAggs |-> IF keys = <<>> THEN <<>> ELSE [i \in DOMAIN taken |-> AggKind(taken[i])],
         aggs |-> NoDuplicates([i \in DOMAIN taken |-> [kind |-> AggKind(taken[i]), off |-> AggOf(taken[i]).off]]),
         select |-> IF keys # <<>> THEN <<>> ELSE NoDuplicates(names),
         limit |-> sql.limit, offset |-> sql.offset, sql |-> TRUE]
=============================================================================
