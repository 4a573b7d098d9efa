----------------------------- MODULE PlanResults -----------------------------
(***************************************************************************)
(* The results of one query over a small table: runChunkQuery hands chunks  *)
(* to worker threads that each keep a plan of their own, collects partials  *)
(* and reduces them, or runs the chunks one after the other on the plan of   *)
(* the caller (exec/chunks.ts, workers/core.ts).  A chunk whose statistics   *)
(* rule out a match is not run; workers finish in any order; a worker that   *)
(* fails sends the whole query down the local path.                          *)
(*                                                                         *)
(* The table and the query are fixed at the start.  q.sql tells a plan made *)
(* from SQL, which alone may order rows or skip some, from a QueryPlan,      *)
(* whose limit also ends the local loop early.                               *)
(***************************************************************************)
EXTENDS Projection, QueryMeaning

CONSTANTS Workers,    \* worker threads of the pool
          Tables,     \* the tables a file may hold: sequences of chunks
          Queries,    \* the queries
          NoPartial   \* partials[c] before chunk c is done

VARIABLES path,     \* "workers" or "local"
          next,     \* the next chunk of the local loop
          wplan,    \* wplan[w]: the results the plan of worker w holds
          plan,     \* the results the caller's plan holds
          partials, \* partials[c]: what came back for chunk c
          result    \* <<>> until the query has answered

vars == <<table, query, path, next, wplan, plan, partials, result>>

Chunks == DOMAIN table
Done == result # <<>>

Init ==
    /\ table \in Tables /\ query \in Queries
    /\ path \in {"workers", "local"}
    /\ next = 1
    /\ wplan = [w \in Workers |-> ResetResults(<<>>, query)]
    /\ plan = ResetResults(<<>>, query)
    /\ partials = [c \in Chunks |-> NoPartial]
    /\ result = <<>>

IsPruned(c) == Pruned(query.filters, query.combine, table[c])

\* A chunk with nothing to find is answered by the page without a worker.
SkipChunk(c) ==
    /\ path = "workers" /\ partials[c] = NoPartial /\ IsPruned(c)
    /\ partials' = [partials EXCEPT ![c] = EmptyPartial(query)]
    /\ UNCHANGED <<table, query, path, next, wplan, plan, result>>

\* executeWorkerTask: reset, run the chunk, copy the partial.
RunTask(w, c) ==
    /\ path = "workers" /\ partials[c] = NoPartial /\ ~IsPruned(c)
    /\ LET p == ExecChunk(ResetResults(wplan[w], query), query, c, table[c])
       IN  /\ wplan' = [wplan EXCEPT ![w] = p]
           /\ partials' = [partials EXCEPT ![c] = CopyPartial(p, query)]
    /\ UNCHANGED <<table, query, path, next, plan, result>>

\* A task, or the pool itself, fails and no worker count was asked for: all over again, locally.
FallBack ==
    /\ path = "workers" /\ ~Done
    /\ path' = "local"
    /\ partials' = [c \in Chunks |-> NoPartial]
    /\ UNCHANGED <<table, query, next, wplan, plan, result>>

\* readPlanResult: what the plan holds, and the cells of the rows it answers with.
Answered(p, rows) ==
    LET r == ReadResult(p, query, rows)
    IN  [rows |-> r.rows, aggs |-> r.aggs, groups |-> r.groups, readable |-> r.readable,
         projection |-> Materialize(query.select, rows, table)]

\* reducePartials, in the order of the chunks.
ReducePartials(p, q, parts) ==
    Fold(LAMBDA r, c : MergePartial(r, q, parts[c]), ResetResults(p, q), [c \in DOMAIN parts |-> c])
Reduced == ReducePartials(plan, query, partials)
Reduce ==
    /\ path = "workers" /\ ~Done
    /\ \A c \in Chunks : partials[c] # NoPartial
    /\ result' = Answered(Reduced, ReducerRows(Reduced, query))
    /\ UNCHANGED <<table, query, path, next, wplan, plan, partials>>

\* runChunkTasks with an early limit: a QueryPlan's loop ends once the plan holds that many rows.
LoopEnds == next > Len(table) \/ (~query.sql /\ query.limit > 0 /\ next > 1 /\ Len(plan.rows) >= query.limit)

LocalChunk ==
    /\ path = "local" /\ ~Done /\ ~LoopEnds
    /\ plan' = IF IsPruned(next) THEN plan ELSE ExecChunk(plan, query, next, table[next])
    /\ next' = next + 1
    /\ UNCHANGED <<table, query, path, wplan, partials, result>>

LocalFinish ==
    /\ path = "local" /\ ~Done /\ LoopEnds
    /\ result' = Answered(plan, LocalRows(plan, query))
    /\ UNCHANGED <<table, query, path, next, wplan, plan, partials>>

Next == (\E c \in Chunks : SkipChunk(c) \/ \E w \in Workers : RunTask(w, c))
        \/ FallBack \/ Reduce \/ LocalChunk \/ LocalFinish

Spec == Init /\ [][Next]_vars

-----------------------------------------------------------------------------
\* Files and queries whose chunks statistics can rule out soundly: columns of equal length with
\* ids within the dictionary; filters with literals of the column's type, a list only with
\* equality, the bounds of BETWEEN in order (numeric_filter_possible sorts them, cmp_scalar
\* does not), and a text that is not in the dictionary compared for equality only.
Plain(column) == column \in Seq(Int \cup {Null})
PlainChunk(chunk) ==
    /\ Plain(chunk["k"]) /\ Plain(chunk["v"]) /\ Len(chunk["k"]) = Len(chunk["v"])
    /\ ValuesOf(chunk["k"]) \subseteq 0..(DictLen - 1)
Compares == {"eq", "neq", "lt", "lte", "gt", "gte", "between"}
PlainFilter(f) ==
    /\ f.col \in {"k", "v"} /\ f.op \in Compares \cup {"like", "notlike"}
    /\ f.value \in Int /\ f.value2 \in Int
    /\ f.list # NoList => f.list \in Seq(Int) /\ f.op \in {"eq", "like", "notlike"}
    /\ f.op = "between" => f.value <= f.value2
    /\ IsDict(f.col) /\ f.list = NoList =>
         f.value \in 0..(DictLen - 1) \/ f.op = "eq" \/ (f.op = "neq" /\ f.value \in Nat)
PlainQuery(q) ==
    /\ DOMAIN q.filters = 1..Len(q.filters) /\ Len(q.filters) \in Nat
    /\ \A j \in DOMAIN q.filters : PlainFilter(q.filters[j])
    /\ q.combine \in Seq(Int)

\* What has an answer: chunks of at most RowsPerChunk rows with values between the infinities,
\* and a query whose program runs, with aggregates and columns there are.  A query with groups
\* has no ORDER BY columns (its order is by count).
AggKinds == {"count_star", "count", "sum", "avg", "min", "max"}
AnswerableTable(t) ==
    /\ DOMAIN t = 1..Len(t) /\ Len(t) \in Nat
    /\ \A c \in DOMAIN t :
         /\ PlainChunk(t[c]) /\ Len(t[c]["k"]) <= RowsPerChunk
         /\ ValuesOf(t[c]["v"]) \subseteq NegInf..PosInf
AnswerableQuery(q) ==
    /\ PlainQuery(q)
    /\ q.filters # <<>> \/ q.combine = <<>>
    /\ \A t \in Tables : \A c \in DOMAIN t : ChunkMask(q.filters, q.combine, t[c]) # NoResult
    /\ q.aggs \in Seq([kind : AggKinds, off : Int]) /\ q.groupAggs \in Seq(AggKinds)
    /\ q.group \in BOOLEAN /\ q.byCount \in BOOLEAN /\ q.sql \in BOOLEAN
    /\ q.order \in Seq({"k", "v"}) /\ q.select \in Seq({"k", "v"})
    /\ q.limit \in Nat /\ q.offset \in Nat
    /\ q.group => q.order = <<>>

\* A chunk plan_required_pages rules out holds no row the query matches, whatever NOT and OR
\* make of the filters and whether or not the chunk has NULLs.
PruneSound == \A c \in Chunks : IsPruned(c) => \A i \in DOMAIN table[c]["k"] : ~Matches(c, i)

\* The rows answered are the query's: those that match, in row order or by the ORDER BY
\* column, without the first OFFSET and no more than LIMIT, whatever chunks were skipped,
\* in whatever order workers finished and on whatever path.  (The local path without
\* ORDER BY returns the OFFSET rows as well.)
RowsExact ==
    Done /\ (path = "workers" \/ query.order # <<>> \/ query.offset = 0) =>
      LET key(r) == [k |-> IF query.order = <<>> THEN 0 ELSE Cell(r, query.order[1]), row |-> r]
          sorted == Sorted(Matching, LAMBDA a, b : Before(key(a), key(b)))
      IN  result.rows = IF query.limit = 0 THEN <<>> ELSE Window(sorted, query.limit, query.offset)

\* Every aggregate is that of all matching rows, each counted once, its constant offset
\* applied once.  (The local path of a QueryPlan with a limit stops before it has seen all.)
AggregatesExact ==
    Done /\ (path = "workers" \/ query.sql \/ query.limit = 0) =>
      \A i \in DOMAIN query.aggs : Right(query.aggs[i].kind, query.aggs[i].off, result.aggs[i], Matching)

\* The groups answered are the keys of the matching rows, once each, in their order and
\* window, each with the right aggregates: however the rows of a key are spread over chunks,
\* the partial groups of all of them end up in one.  (Outside: workers that skip OFFSET groups
\* of every chunk, the local path that stops early, and histograms with sums, whose order is
\* by sum and whose sums are written only in that order.)
GroupsExact ==
    Done /\ query.group /\ ~WithSums(query)
         /\ (path = "local" \/ UsesHistogram(query) \/ query.offset = 0)
         /\ (path = "workers" \/ query.sql \/ query.limit = 0) =>
      LET keys == Window(Sorted(Keys, GroupBefore), query.limit, query.offset)
      IN  /\ [j \in DOMAIN result.groups |-> result.groups[j].key] = keys
          /\ \A j \in DOMAIN keys, i \in DOMAIN query.groupAggs :
               Right(query.groupAggs[i], 0, result.groups[j].aggs[i], GroupOf(keys[j]))

\* The count readGroups goes by is the number of records it is given, on every path and with
\* every window: it neither reads past them nor leaves any.  (Outside: a histogram ordered by
\* its sums, which has no record for a group whose sum is 0 but counts it.)
GroupsReadable ==
    Done /\ ~(WithSums(query) /\ query.byCount /\ query.limit > 0) =>
      /\ result.readable
      /\ query.group => Len(result.groups) = Len(CopyGroups(IF path = "local" THEN plan ELSE Reduced, query))

\* Cell i of each selected column is that of row i of the answer, in whatever chunk the row is
\* and in whatever order ORDER BY left the rows; it is absent exactly where the row is NULL.
ProjectionAligned ==
    Done /\ query.select # <<>> /\ result.rows # <<>> =>
      \A j \in DOMAIN query.select, i \in DOMAIN result.rows :
        LET x == Cell(result.rows[i], query.select[j])
            p == result.projection[j][i]
        IN  p.present = (x # Null) /\ (x # Null => p.value = x)

\* Whatever path a query takes, however its chunks are spread over the workers and in
\* whatever order they finish, its answer is that of a row by row reading of the table.
AnswerExact == RowsExact /\ AggregatesExact /\ GroupsExact /\ GroupsReadable /\ ProjectionAligned
=============================================================================
