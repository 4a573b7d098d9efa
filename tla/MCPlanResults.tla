---------------------------- MODULE MCPlanResults ----------------------------
EXTENDS PlanResults

MCNull == -7
MCNegInf == -1000
MCChunkSet ==
    {[k |-> <<0, 1>>, v |-> <<1, 2>>], [k |-> <<1, 1>>, v |-> <<2, MCNull>>],
     [k |-> <<MCNull, 0>>, v |-> <<3, 1>>], [k |-> <<2, 0>>, v |-> <<MCNull, MCNull>>],
     [k |-> <<2, 1>>, v |-> <<3, 3>>]}
MCLast == {[k |-> <<1>>, v |-> <<1>>], [k |-> <<MCNull>>, v |-> <<2>>], [k |-> <<0, 2>>, v |-> <<2, 0>>]}
MCTables == {<<a, b, c>> : a \in MCChunkSet, b \in MCChunkSet, c \in MCLast}

Filter(col, op, a, b) == [col |-> col, op |-> op, value |-> a, value2 |-> b, list |-> NoList, like |-> {}]
InList(col, l) == [Filter(col, "eq", 0, 0) EXCEPT !.list = l]
Like(op, ids) == [Filter("k", op, 0, 0) EXCEPT !.like = ids]
Missing == 99
MCWheres ==
    {<< <<>>, <<>> >>,
     << <<Filter("v", "gt", 1, 1)>>, <<>> >>,
     << <<Filter("v", "gte", 2, 2), Filter("k", "neq", 0, 0)>>, <<>> >>,
     << <<Filter("v", "gt", 0, 0)>>, <<0, NOT>> >>,
     << <<Filter("v", "lte", 2, 2), Filter("k", "eq", 1, 1)>>, <<0, NOT, 1, OR>> >>,
     << <<Filter("k", "neq", Missing, Missing)>>, <<>> >>,
     << <<Filter("v", "neq", 2, 2), Filter("v", "lt", 3, 3)>>, <<0, 1, AND, NOT>> >>,
     << <<InList("k", <<0, 2>>), Filter("v", "between", 1, 2)>>, <<0, NOT, 1, OR>> >>,
     << <<InList("v", <<3, 5>>)>>, <<0, NOT>> >>,
     << <<Like("notlike", {0, 1})>>, <<>> >>,
     << <<Like("like", {1}), Filter("v", "eq", 3, 3)>>, <<0, 1, OR>> >>}

Agg(kind, off) == [kind |-> kind, off |-> off]
Shape(aggs, group, groupAggs, byCount, order, limit, offset, sql) ==
    [select |-> IF aggs = <<>> /\ ~group THEN <<"v", "k">> ELSE <<>>, aggs |-> aggs, group |-> group, groupAggs |-> groupAggs, byCount |-> byCount,
     order |-> order, limit |-> limit, offset |-> offset, sql |-> sql]
MCShapes ==
    {Shape(<<Agg("count_star", 0), Agg("sum", 1), Agg("min", 1)>>, FALSE, <<>>, FALSE, <<>>, 0, 0, TRUE),
     Shape(<<Agg("count", 0), Agg("max", -1), Agg("avg", 0)>>, FALSE, <<>>, FALSE, <<>>, 1, 0, FALSE),
     Shape(<<>>, FALSE, <<>>, FALSE, <<>>, 2, 1, TRUE),
     Shape(<<>>, FALSE, <<>>, FALSE, <<"v">>, 2, 1, TRUE),
     Shape(<<>>, TRUE, <<"count_star">>, TRUE, <<>>, 2, 1, TRUE),
     Shape(<<>>, TRUE, <<"count_star", "min", "avg">>, TRUE, <<>>, 1, 0, FALSE),
     Shape(<<>>, TRUE, <<"max", "count">>, FALSE, <<>>, 0, 0, TRUE),
     Shape(<<>>, TRUE, <<"count_star">>, TRUE, <<>>, 0, 0, FALSE),
     Shape(<<>>, TRUE, <<"count_star", "sum">>, FALSE, <<>>, 0, 0, FALSE)}
MCQueries ==
    {[filters |-> w[1], combine |-> w[2], aggs |-> s.aggs, group |-> s.group, groupAggs |-> s.groupAggs,
      byCount |-> s.byCount, order |-> s.order, select |-> s.select, limit |-> s.limit, offset |-> s.offset, sql |-> s.sql] :
     w \in MCWheres, s \in MCShapes}

\* The hypotheses of the theorems hold of this instance.
ASSUME AnswerableInputs ==
    /\ \A t \in MCTables : AnswerableTable(t)
    /\ \A q \in MCQueries : AnswerableQuery(q)
=============================================================================
