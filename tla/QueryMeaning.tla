----------------------------- MODULE QueryMeaning -----------------------------
(***************************************************************************)
(* What a query asks of a table, row by row and without regard to chunks,   *)
(* masks, partials or threads: the reference PlanResults and NativeResults   *)
(* compare their answers with.                                              *)
(***************************************************************************)
EXTENDS PlanExec

VARIABLES table,    \* the chunks, each a record of its columns "k" and "v"
          query


Holds(f, x) ==
    /\ x # Null
    /\ CASE f.op = "like" -> x \in f.like
         [] f.op = "notlike" -> x \notin f.like
         [] f.op \notin {"like", "notlike"} /\ f.list # NoList -> x \in Range(f.list)
         [] OTHER -> Cmp(x, f.op, f.value, f.value2)

TruthAlgebra ==
    [not |-> [a \in BOOLEAN |-> ~a],
     and |-> [p \in BOOLEAN \X BOOLEAN |-> p[1] /\ p[2]],
     or  |-> [p \in BOOLEAN \X BOOLEAN |-> p[1] \/ p[2]]]
Matches(c, i) ==
    LET one == [j \in DOMAIN query.filters |-> Holds(query.filters[j], table[c][query.filters[j].col][i])]
    IN  IF query.combine = <<>> THEN \A j \in DOMAIN one : one[j]
        ELSE RunProgram(query.combine, one, TruthAlgebra)[1]

RowIds == {RowId(c, i) : c \in DOMAIN table, i \in 1..RowsPerChunk}
ChunkOf(r) == (r \div RowsPerChunk) + 1
Within(r) == (r % RowsPerChunk) + 1
Cell(r, col) == table[ChunkOf(r)][col][Within(r)]
Matching == {r \in RowIds : Within(r) \in DOMAIN table[ChunkOf(r)]["k"] /\ Matches(ChunkOf(r), Within(r))}

\* The sum of "v" over the rows of S, row by row.
SumBelow(S) ==
    LET sum[n \in 0..Len(table) * RowsPerChunk] ==
            IF n = 0 THEN 0 ELSE sum[n - 1] + (IF n - 1 \in S THEN Cell(n - 1, "v") ELSE 0)
    IN  sum
Sum(S) == SumBelow(S)[Len(table) * RowsPerChunk]
WithValue(S) == {r \in S : Cell(r, "v") # Null}

\* SQL's aggregate of a kind over a set of rows: the one number the kind is about.
Answer(kind, off, S) ==
    LET vals == {Cell(r, "v") : r \in WithValue(S)}
    IN  CASE kind = "count_star" -> Cardinality(S)
          [] kind = "count" -> Cardinality(WithValue(S))
          [] kind \in {"sum", "avg"} -> Sum(WithValue(S)) + off * Cardinality(WithValue(S))
          [] kind = "min" -> IF vals = {} THEN 0 ELSE Min(vals) + off
          [] kind = "max" -> IF vals = {} THEN 0 ELSE Max(vals) + off
Said(kind, stat) ==
    CASE kind \in Counting -> stat.count
      [] kind \in {"sum", "avg"} -> stat.sum
      [] kind = "min" -> stat.min
      [] kind = "max" -> stat.max
\* AVG divides by the count, so that must be right too.
Right(kind, off, stat, S) ==
    /\ Said(kind, stat) = Answer(kind, off, S)
    /\ kind = "avg" => stat.count = Cardinality(WithValue(S))

FirstRow(S) == Min(S)
GroupOf(key) == {r \in Matching : Cell(r, "k") = key}
Keys == {Cell(r, "k") : r \in Matching} \ {Null}
\* The order groups are answered in: by COUNT(*), the larger first, when asked (without a
\* histogram, only with a limit), then by dictionary id with a histogram, else as first seen.
GroupBefore(a, b) ==
    LET count(k) == IF /\ query.byCount /\ (query.limit > 0 \/ UsesHistogram(query))
                       /\ "count_star" \in Range(query.groupAggs)
                    THEN Cardinality(GroupOf(k)) ELSE 0
        place(k) == IF UsesHistogram(query) THEN k ELSE FirstRow(GroupOf(k))
    IN  count(a) > count(b) \/ (count(a) = count(b) /\ place(a) < place(b))
=============================================================================
