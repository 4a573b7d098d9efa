------------------------------- MODULE MCEncoder -------------------------------
EXTENDS Encoder

MCBits   == <<1, 2, 3, 5>>
MCScales == <<1, 10, 60>>
MCOther  == <<9>>
MCPatterns == {<<>>, <<1>>, <<2>>, <<1, 2>>, <<2, 1>>, <<1, 2, 1>>}

Col(kind, large) == [kind |-> kind, large |-> large]
Small(mode, tokens) == [mode |-> mode, tokens |-> tokens]
Job(route, cols, texts, groups, split, threads, small) ==
    [route |-> route, cols |-> cols, texts |-> texts, groups |-> groups, split |-> split,
     threads |-> threads, small |-> small]

\* One column, every way to fill its rows from a few values: what becomes of the cells.
Pool == [String  |-> {Null, <<>>, <<1>>, <<1, 2, 1>>, <<1, 2, 3, 1, 2>>, <<2>>, MCOther},
         Boolean |-> {Null, TRUE, FALSE},
         Int     |-> {Null, -16, -2, -1, 0, 1, 3, 7, 15},
         UInt    |-> {Null, 0, 1, 6, 15, 31},
         Float   |-> {Null, NaN, 0, 1, 2, 12, 61, -120, 360}]
Rows(kind, n) == {[r \in 1..n |-> <<s[r]>>] : s \in [1..n -> Pool[kind]]}
OneColumn(kind, large, n, smalls) ==
    {Job("parquet", <<Col(kind, large)>>, <<{}>>, <<rows>>, 0, 2, small) : rows \in Rows(kind, n), small \in smalls}
Modes == {Small(m, FALSE) : m \in 0..2}

\* Text in SAV files, one text known beforehand too many for the third.
SavRows == {[r \in 1..3 |-> <<s[r]>>] : s \in [1..3 -> {Null, 1, 2, 3}]}
SavJobs ==
    {Job("sav", <<Col("String", FALSE)>>, <<texts>>, <<rows>>, 0, 2, Small(0, TRUE)) :
     rows \in SavRows, texts \in {<< <<>>, <<1>> >>, << <<1>>, <<>>, <<1, 2>>, <<1, 2, 1>> >>}}
SavFloat == {Job("sav", <<Col("Float", FALSE)>>, <<{}>>, <<rows>>, 0, 2, Small(1, TRUE)) :
             rows \in {<< <<Null>>, <<60>>, <<120>>, <<NaN>> >>, << <<12>>, <<24>>, <<Null>> >>}}

\* Row groups read in any order by one to three threads, in one file or in parts.
Table == << << <<1>>, 1, Null >>, << <<>>, 2, 12 >>, << <<1, 2>>, Null, 24 >>, << <<1, 2, 1>>, 3, 36 >> >>
Cut(a, b, c) == <<SubSeq(Table, 1, a), SubSeq(Table, a + 1, b), SubSeq(Table, b + 1, c)>>
StreamJobs ==
    {Job("parquet", <<Col("String", large), Col("UInt", FALSE), Col("Float", FALSE)>>, <<{}, {}, {}>>,
         groups, split, threads, Small(2, TRUE)) :
     groups \in {Cut(1, 3, 4), Cut(2, 2, 4), Cut(0, 3, 4)}, split \in {0, 2}, threads \in 1..3, large \in BOOLEAN}
Reserved == {Job("parquet", <<Col("String", FALSE)>>, <<{}>>, <<<< <<MCOther>> >>, << <<(<<1>>)>> >>, << <<Null>> >> >>,
                 0, threads, Small(0, FALSE)) : threads \in {2, 3}}

MCJobs ==
    OneColumn("String", FALSE, 4, {Small(0, FALSE), Small(0, TRUE)}) \cup OneColumn("String", TRUE, 4, {Small(0, FALSE)})
    \cup OneColumn("Boolean", FALSE, 4, {Small(0, FALSE)})
    \cup OneColumn("Int", FALSE, 3, Modes) \cup OneColumn("UInt", FALSE, 3, Modes) \cup OneColumn("Float", FALSE, 3, Modes)
    \cup SavJobs \cup SavFloat \cup StreamJobs \cup Reserved
=============================================================================
