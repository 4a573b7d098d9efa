--------------------------- MODULE MCNativeResults ---------------------------
EXTENDS NativeResults

MCNull == -7
MCNegInf == -1000
MCWorkers == <<"w1", "w2">>
\* Keys 0 and 3 share a hash, in the first partition as key 2; 1 is in the other.
MCKeyHash == [k \in 0..3 |-> IF k = 0 \/ k = 3 THEN 2 ELSE IF k = 1 THEN 1 ELSE 4]
MCOwnHash == [k \in 0..3 |-> k + 1]
MCFirst == {[k |-> <<0, 1>>, v |-> <<1, 2>>], [k |-> <<3, 1>>, v |-> <<MCNull, MCNull>>],
            [k |-> <<1, 2>>, v |-> <<3, 1>>], [k |-> <<MCNull, 0>>, v |-> <<3, 1>>], [k |-> <<2, 2>>, v |-> <<1, 1>>]}
MCLast == {[k |-> <<0>>, v |-> <<3>>], [k |-> <<3, 2>>, v |-> <<0, 2>>]}
MCTables == {<<a, b, c>> : a \in MCFirst, b \in MCFirst, c \in MCLast}
\* The first of March of 1970, a leap day, and days around them.
MCDays == <<[k |-> <<0, 1>>, v |-> <<58, 59>>], [k |-> <<MCNull, 2>>, v |-> <<789, 790>>]>>
MCFew == {<<[k |-> <<0, 1>>, v |-> <<1, 2>>], [k |-> <<3, 2>>, v |-> <<MCNull, 0>>]>>,
          <<[k |-> <<MCNull, 0>>, v |-> <<3, 1>>]>>, MCDays}

MCWords == <<"", "ab", "b", "cab">>
MCNumbers == ("2" :> 2)
MCDates == ("1970-03-01" :> <<1970, 3, 1>>) @@ ("1972-02-29" :> <<1972, 2, 29>>) @@ ("1970-01-02" :> <<1970, 1, 2>>)
MCTrimmed == ("%ab%" :> "ab") @@ ("%z%" :> "z")
MCContaining == ("ab" :> {1, 3}) @@ ("z" :> {})

K == Col("k")
V == Col("v")
Num(n) == <<"int", n>>
Str(s) == <<"str", s>>
Minus(a, b) == <<"binary", "-", a, b>>
Plus(a, b) == <<"binary", "+", a, b>>
Compare(a, op, b) == <<"compare", op, a, b>>
And(a, b) == <<"and", a, b>>
Count(arg, distinct) == <<"agg", "count", distinct, arg>>
Aggregate(func, arg) == <<"agg", func, FALSE, arg>>
By(expr, desc) == <<[expr |-> expr, desc |-> desc]>>
Ask(select, groupBy, orderBy, offset, limit) ==
    [select |-> select, where |-> <<>>, groupBy |-> groupBy, having |-> <<>>, orderBy |-> orderBy,
     offset |-> offset, limit |-> limit]
Where(sql, pred) == [sql EXCEPT !.where = pred]

\* What is asked of every table.
MCShapes ==
    {Ask(<<CountStarExpr, Aggregate("sum", Plus(V, Num(1))), Aggregate("max", V)>>, <<>>, <<>>, 0, 0),
     Ask(<<V>>, <<>>, <<>>, 1, 2),
     Ask(<<K, V>>, <<>>, By(V, FALSE), 1, 2),
     Ask(<<K, CountStarExpr, Aggregate("min", V), Aggregate("avg", V)>>, <<K>>, By(CountStarExpr, TRUE), 0, 1),
     Ask(<<K, Aggregate("sum", V), CountStarExpr>>, <<K>>, By(CountStarExpr, TRUE), 0, 2),
     Ask(<<K, CountStarExpr>>, <<K>>, By(CountStarExpr, TRUE), 1, 1),
     Ask(<<K, Count(V, FALSE), Aggregate("max", V)>>, <<K>>, <<>>, 0, 0)}
MCWheres == {<<>>, Compare(V, ">", Num(1)), And(Compare(V, "<=", Num(2)), Compare(K, "<>", Str("ab")))}

\* What is asked of a few tables: every form of condition, and what is refused or passed over.
MCConditions ==
    {Compare(V, "=", Minus(Num(0), Num(7))), Compare(V, "<", Str("2")), Compare(V, ">=", Str("1970-03-01")),
     Compare(V, ">", Str("1972-02-29")), Compare(V, "=", Str("1970-01-02")),
     Compare(K, "=", Str("")), Compare(K, "<>", Str("zz")), Compare(K, "=", Str("zz")),
     <<"in", V, <<Num(1), Num(59), Num(2)>>, FALSE>>, <<"in", K, <<Str("b"), Str("zz"), Str("")>>, FALSE>>,
     <<"in", V, <<Num(1)>>, TRUE>>, <<"like", K, Str("%ab%"), FALSE>>, <<"like", K, Str("%ab%"), TRUE>>, <<"like", K, Str("%z%"), TRUE>>,
     And(And(Compare(V, ">", Num(0)), Compare(K, "<>", Str(""))), Compare(V, "<>", Num(2))),
     And(And(And(Compare(V, ">", Num(0)), Compare(V, "<", Num(60))), Compare(V, "<>", Num(58))), <<"like", K, Str("%ab%"), FALSE>>),
     Compare(Num(1), "<", V), Compare(Minus(V, Num(1)), "=", Num(1)), Compare(V, "=", K),
     Compare(Col("nosuch"), "=", Num(1))}
MCOthers ==
    {Ask(<<K>>, <<K>>, <<>>, 0, 0), Ask(<<Num(1), K, CountStarExpr>>, <<Num(1), K>>, <<>>, 0, 0),
     Ask(<<Count(V, TRUE)>>, <<>>, <<>>, 0, 0), Ask(<<Aggregate("sum", Minus(Plus(V, Num(1)), Num(1)))>>, <<>>, <<>>, 0, 0),
     Ask(<<Aggregate("min", Minus(V, Num(2))), Aggregate("max", Plus(Num(3), V)), Aggregate("min", Minus(V, Num(2)))>>, <<>>, <<>>, 0, 0),
     Ask(<<Aggregate("max", K), CountStarExpr>>, <<>>, <<>>, 0, 0), Ask(<<Aggregate("sum", V)>>, <<Minus(V, Num(1))>>, <<>>, 0, 0),
     Ask(<<Aggregate("avg", <<"call", "length", <<K>>>>)>>, <<>>, <<>>, 0, 0), Ask(<<Aggregate("sum", <<"star">>)>>, <<>>, <<>>, 0, 0),
     Ask(<<<<"star">>>>, <<>>, By(K, FALSE) \o By(V, FALSE), 0, 3),
     [Ask(<<K, CountStarExpr>>, <<K>>, <<>>, 0, 0) EXCEPT !.having = Compare(CountStarExpr, ">", Num(1))]}

MCInputs ==
    {[table |-> t, text |-> Where(s, w)] : t \in MCTables, s \in MCShapes, w \in MCWheres}
    \cup {[table |-> t, text |-> Where(Ask(<<CountStarExpr>>, <<>>, <<>>, 0, 0), w)] : t \in MCFew, w \in MCConditions}
    \cup {[table |-> t, text |-> s] : t \in MCFew, s \in MCOthers}
MCHistInputs == {[table |-> t, text |-> Ask(<<K, CountStarExpr>>, <<K>>, <<>>, 0, 0)] : t \in MCTables}
=============================================================================
