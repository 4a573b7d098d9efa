---------------------------- MODULE NativeResults ----------------------------
(***************************************************************************)
(* One SQL query in the native runtime, from its text to its results        *)
(* (sql_plan.rs, native/runtime.rs, native/exec.rs, native/pool.rs): the text *)
(* is parsed and planned, then a single plan runs the chunks in order, or     *)
(* worker threads that take chunks from a shared counter, hand     *)
(* back partials and, for GROUP BY, partitioned group records, which reduce  *)
(* threads merge partition by partition.  The order in which threads take    *)
(* chunks and deliver partitions is free; failures are in NativePool.        *)
(***************************************************************************)
EXTENDS GroupMerge, SqlMeaning

CONSTANTS Workers,    \* a sequence of worker threads, in the order of the pool
          Inputs,     \* what may be asked: [table, text], a file and a query over it
          NoQuery,    \* the query before the text is planned
          NoPartial   \* reduced[p] before partition p is delivered

\* A plan tells keys apart by their hash and, within a chunk, by the bytes of heavy strings;
\* colliding keys here never meet in one chunk, nor on the plan of a single worker.
Collide(a, b) == a # b /\ a # Null /\ b # Null /\ KeyHash[a] = KeyHash[b]
ASSUME CollisionAssumption ==
    \A t \in {in.table : in \in Inputs} : \A c \in DOMAIN t : \A i, j \in DOMAIN t[c]["k"] : ~Collide(t[c]["k"][i], t[c]["k"][j])

VARIABLES text,     \* the query as its author meant it; what arrives is WriteQuery(text)
          path,     \* "single" or "parallel"
          mode,     \* merge_keys_mode
          engine,   \* the effective group engine
          next,     \* the next chunk of the shared counter, or of the single loop
          plan,     \* the results of the single plan
          window,   \* window[w]: the limit and the offset on the plan of worker w
          partials, \* partials[w]: the partials worker w holds, each with its chunk
          buckets,  \* buckets[w]: its group records by partition
          stage,    \* "sql", "scan", "reduce" and "done", or "failed" for a text that is refused
          tasks,    \* the records of each partition, once the scan is over
          reduced,  \* reduced[p]: what the reduction of partition p delivered
          result

vars == <<text, table, query, path, mode, engine, next, plan, window, partials, buckets, stage, tasks, reduced, result>>

WorkerIds == DOMAIN Workers
Parts == 0..(Partitions - 1)
NoBuckets == [p \in Parts |-> <<>>]
IsPruned(c) == Pruned(query.filters, query.combine, table[c])
HasCollision(t) == \E c, d \in DOMAIN t : \E i \in DOMAIN t[c]["k"], j \in DOMAIN t[d]["k"] : Collide(t[c]["k"][i], t[d]["k"][j])

\* has_parallel_unsafe_sql.
IsParallelUnsafe(sql) == \E i \in DOMAIN sql.select : sql.select[i][1] = "agg" /\ sql.select[i][3]

\* query_sql_with_workers: one worker, one chunk or DISTINCT keep to a single plan.
Init ==
    /\ \E in \in Inputs : table = in.table /\ text = in.text
    /\ path \in {"single", "parallel"} /\ mode \in Modes /\ engine \in Engines
    /\ path = "parallel" => Len(table) > 1 /\ ~IsParallelUnsafe(text)
    /\ path = "single" => ~HasCollision(table) /\ mode = "hash" /\ engine = "legacy"
    /\ query = NoQuery /\ next = 1 /\ plan = <<>>
    /\ window = [w \in WorkerIds |-> [limit |-> 0, offset |-> 0]]
    /\ partials = [w \in WorkerIds |-> <<>>]
    /\ buckets = [w \in WorkerIds |-> NoBuckets]
    /\ stage = "sql"
    /\ tasks = [p \in Parts |-> [fragments |-> <<>>, spill |-> <<>>]] /\ reduced = [p \in Parts |-> NoPartial]
    /\ result = <<>>

\* apply_sql on the base plan or the single plan, prepare_sql on the plan of every worker, and
\* the engine the query is given.
ApplySql ==
    /\ stage = "sql"
    /\ LET parsed == ParseQuery(WriteQuery(text))
       IN  IF parsed.ok /\ ~Refused(parsed.e)
           THEN /\ query' = ApplyQuery(parsed.e)
                /\ plan' = ResetResults(<<>>, query')
                /\ window' = [w \in WorkerIds |-> [limit |-> query'.limit, offset |-> query'.offset]]
                /\ engine' \in EffectiveEngines(engine, mode, query')
                /\ stage' = "scan"
           ELSE stage' = "failed" /\ UNCHANGED <<query, plan, window, engine>>
    /\ UNCHANGED <<text, table, path, mode, next, partials, buckets, tasks, reduced, result>>

\* disable_group_window of execute_chunk.
LiftsWindow(win) == query.group /\ query.order = <<>> /\ (win.limit > 0 \/ win.offset > 0)

\* What the worker copies out of its plan after chunk c.
CopyChunk(p, q, c) ==
    LET raw == engine = "v2"
        mask == ChunkMask(q.filters, q.combine, table[c])[1]
    IN  [chunk |-> c,
         rows |-> IF q.order = <<>> THEN p.rows ELSE <<>>,
         heap |-> IF q.order = <<>> THEN {} ELSE p.heap,
         aggs |-> CopyAggs(p, q), counts |-> p.counts, sums |-> p.sums,
         groups |-> CASE ~q.group \/ UsesHistogram(q) -> <<>>
                      [] q.group /\ ~UsesHistogram(q) /\ raw -> RawRecords(q, table[c], mask)
                      [] OTHER -> GroupRecords(CopyGroupTable(p, q, q.limit), mode)]

\* execute_chunk, and repartition_group_records when groups are partitioned during the scan.
\* A skipped chunk leaves the limit and the offset of the worker's plan at 0.
ScanChunk(w) ==
    /\ path = "parallel" /\ stage = "scan" /\ next <= Len(table)
    /\ LET lifted == LiftsWindow(window[w])
           win == IF lifted THEN [limit |-> 0, offset |-> 0] ELSE window[w]
           q == [query EXCEPT !.limit = win.limit, !.offset = win.offset]
           p == ExecChunk(ResetResults(<<>>, q), q, next, table[next])
           part == IF IsPruned(next) THEN EmptyPartial(query) @@ [chunk |-> next] ELSE CopyChunk(p, q, next)
           split == Repartition(part.groups)
       IN  /\ window' = [window EXCEPT ![w] = IF IsPruned(next) THEN win ELSE @]
           /\ IF ScansPartitioned(engine)
              THEN /\ buckets' = [buckets EXCEPT ![w] = [b \in Parts |-> @[b] \o split[b]]]
                   /\ partials' = [partials EXCEPT ![w] = Append(@, [part EXCEPT !.groups = <<>>])]
              ELSE /\ partials' = [partials EXCEPT ![w] = Append(@, part)]
                   /\ UNCHANGED buckets
    /\ next' = next + 1
    /\ UNCHANGED <<text, table, query, path, mode, engine, plan, stage, tasks, reduced, result>>

\* partials.sort_by_key: chunk by chunk, whichever worker ran them.
Gathered == SortSeq(FlattenSeq([i \in WorkerIds |-> partials[i]]), LAMBDA a, b : a.chunk < b.chunk)

\* What partials kept in groups, and what each worker had in partitioned_groups, by partition.
Spill == Repartition(FlattenSeq([i \in DOMAIN Gathered |-> Gathered[i].groups]))
Fragments(b) == SelectSeq([i \in WorkerIds |-> buckets[i][b]], LAMBDA f : f # <<>>)

\* The scan is over: the merge of engine e gives each partition its records.
StartMerge(engines, t) ==
    /\ path = "parallel" /\ stage = "scan" /\ next > Len(table) /\ engine \in engines
    /\ tasks' = t
    /\ stage' = "reduce"
    /\ UNCHANGED <<text, table, query, path, mode, engine, next, plan, window, partials, buckets, reduced, result>>
\* merge_group_partials_partitioned_legacy, _partition_sort and _partition_direct.
LegacyMerge == StartMerge({"legacy"}, [b \in Parts |-> [fragments |-> <<>>, spill |-> Spill[b]]])
SortMerge == StartMerge({"sort", "v2"}, [b \in Parts |-> [fragments |-> Fragments(b), spill |-> Spill[b]]])
DirectMerge == StartMerge({"direct"}, [b \in Parts |-> [fragments |-> Fragments(b), spill |-> Spill[b]]])

\* A reduce thread delivers a partition under its index.
Deliver(b, engines, records) ==
    /\ stage = "reduce" /\ engine \in engines /\ reduced[b] = NoPartial
    /\ reduced' = [reduced EXCEPT ![b] = records]
    /\ UNCHANGED <<text, table, query, path, mode, engine, next, plan, window, partials, buckets, stage, tasks, result>>
AggCount == Len(query.groupAggs)
DeliverLegacy(b) == Deliver(b, {"legacy"}, ReducePartition(tasks[b].spill, AggCount, mode))
DeliverSort(b) == Deliver(b, {"sort", "v2"}, ReducePartitionSort(Flatten(tasks[b].fragments, tasks[b].spill), AggCount, mode))
DeliverDirect(b) == Deliver(b, {"direct"}, ReducePartitionDirect(tasks[b].fragments, tasks[b].spill, AggCount, mode))

\* merge_group_hist_partials: the merged histogram as records.
HistogramRecords ==
    LET Add(p, part) == [p EXCEPT !.counts = [id \in DOMAIN @ |-> @[id] + part.counts[id]],
                                  !.sums = [id \in DOMAIN @ |-> @[id] + part.sums[id]]]
    IN  HistRecords(Fold(Add, ResetResults(<<>>, query), Gathered), query)

MergedGroups ==
    CASE query.groupAggs = <<>> -> <<>>
      [] query.groupAggs # <<>> /\ UsesHistogram(query) -> HistogramRecords
      [] query.groupAggs # <<>> /\ ~UsesHistogram(query) /\ engine = "legacy" -> Concatenate(reduced)
      [] OTHER -> ConcatenateTop(reduced, query)

\* read_result: rows are read only when there are neither groups nor aggregates.
ReadNative(p, rows) ==
    LET g == ReadGroups(p, query)
    IN  [rows |-> IF GroupCount(p, query) = 0 \/ ~query.group THEN (IF query.aggs = <<>> THEN rows ELSE <<>>) ELSE <<>>,
         aggs |-> CopyAggs(p, query), groups |-> g.groups]

\* The reducer: groups first, then the partials of every chunk; then read_result.
Finish ==
    /\ stage = "reduce" /\ \A b \in Parts : reduced[b] # NoPartial
    /\ LET r0 == ResetResults(<<>>, query)
           r1 == [r0 EXCEPT !.groups = MergeGroups(@, query, MergedGroups)]
           Add(p, part) == [MergePartial(p, query, [part EXCEPT !.groups = <<>>])
                              EXCEPT !.counts = r0.counts, !.sums = r0.sums]
           r == Fold(Add, r1, Gathered)
       IN  result' = ReadNative(r, ReducerRows(r, query))
    /\ stage' = "done"
    /\ UNCHANGED <<text, table, query, path, mode, engine, next, plan, window, partials, buckets, tasks, reduced>>

\* execute_plan, the single path: chunk after chunk on one plan.
SingleChunk ==
    /\ path = "single" /\ stage = "scan" /\ next <= Len(table)
    /\ plan' = IF IsPruned(next) THEN plan ELSE ExecChunk(plan, query, next, table[next])
    /\ next' = next + 1
    /\ UNCHANGED <<text, table, query, path, mode, engine, window, partials, buckets, stage, tasks, reduced, result>>

SingleFinish ==
    /\ path = "single" /\ stage = "scan" /\ next > Len(table)
    /\ result' = ReadNative(plan, LocalRows(plan, query))
    /\ stage' = "done"
    /\ UNCHANGED <<text, table, query, path, mode, engine, next, plan, window, partials, buckets, tasks, reduced>>

Next == ApplySql \/ (\E w \in WorkerIds : ScanChunk(w)) \/ LegacyMerge \/ SortMerge \/ DirectMerge
        \/ (\E b \in Parts : DeliverLegacy(b) \/ DeliverSort(b) \/ DeliverDirect(b)) \/ Finish \/ SingleChunk \/ SingleFinish

Spec == Init /\ [][Next]_vars

-----------------------------------------------------------------------------
Done == stage = "done"
CountOf(k) == Cardinality(GroupOf(k))

\* A group of the answer is right for key k when each aggregate is that of the rows of k.
IsGroupOf(g, k) ==
    /\ KeyHash[k] = (IF path = "single" THEN KeyHash[g.key] ELSE g.key[1])
    /\ \A i \in DOMAIN query.groupAggs : Right(query.groupAggs[i], 0, g.aggs[i], GroupOf(k))
CountStar == SelectInSeq(query.groupAggs, LAMBDA k : k = "count_star")
\* With a window, which groups come is free among equal counts; how many rows they have is not.
CountsDescending ==
    LET keys == SetToSortSeq(Keys, LAMBDA a, b : CountOf(a) > CountOf(b) \/ (CountOf(a) = CountOf(b) /\ a < b))
    IN  Window([j \in DOMAIN keys |-> CountOf(keys[j])], query.limit, query.offset)

\* The trim to the top groups agrees with the order groups are answered in only when COUNT(*) is
\* the first count of the query and no group is skipped.
TrimExact == TopKAgg(query) = 0 \/ engine = "legacy" \/ (query.offset = 0 /\ TopKAgg(query) = CountStar)
NoMixedKeys == mode = "bytes" \/ ~HasCollision(table)

\* One group for each key, each aggregate that of all rows of the key; by COUNT(*) with a limit,
\* the largest counts in order.
GroupsExact ==
    query.group /\ query.groupAggs # <<>> /\ TrimExact /\ NoMixedKeys =>
      LET n == Len(Window([j \in 1..Cardinality(Keys) |-> j], query.limit, query.offset))
      IN  /\ Len(result.groups) = n
          /\ \E f \in [1..n -> Keys] :
               /\ \A i, j \in 1..n : i # j => f[i] # f[j]
               /\ \A j \in 1..n : IsGroupOf(result.groups[j], f[j])
          /\ query.byCount /\ query.limit > 0 /\ CountStar # 0 =>
               [j \in DOMAIN result.groups |-> result.groups[j].aggs[CountStar].count] = CountsDescending

\* The matching rows in order, without the first OFFSET and no more than LIMIT.
RowsExact ==
    ~query.group /\ query.aggs = <<>> /\ (path = "parallel" \/ query.order # <<>> \/ query.offset = 0) =>
      LET key(r) == [k |-> IF query.order = <<>> THEN 0 ELSE Cell(r, query.order[1]), row |-> r]
      IN  result.rows = IF query.limit = 0 THEN <<>>
                        ELSE Window(SetToSortSeq(Matching, LAMBDA a, b : Before(key(a), key(b))), query.limit, query.offset)

\* Every aggregate is that of all matching rows, each counted once.
AggregatesExact ==
    \A i \in DOMAIN query.aggs : Right(query.aggs[i].kind, query.aggs[i].off, result.aggs[i], Matching)

\* The answer is that of a row by row reading of the plan, whichever worker ran which chunk,
\* whichever engine merged the groups, however their keys are spread over threads and partitions
\* and even if two keys share a hash.  (Outside: the top-k trim with an OFFSET or by another
\* count than COUNT(*), colliding keys merged by hash, groups without aggregates, and the OFFSET
\* rows the single path returns without ORDER BY.)
NativeAnswerExact == Done => GroupsExact /\ RowsExact /\ AggregatesExact

\* A text in the part of SQL a plan can say is never refused, and its plan is about the rows its
\* WHERE is true of, with the aggregates, the order and the window it asked for; a text no plan
\* can say is refused rather than answered.  (Outside: what the planner passes over, which
\* InDialect leaves out.)
SqlPlanned ==
    /\ stage # "sql" /\ InDialect(text) =>
         /\ stage # "failed"
         /\ Matching = MeantRows(text)
         /\ query.group = ByKey(text)
         /\ IF ByKey(text) THEN [i \in DOMAIN query.groupAggs |-> [kind |-> query.groupAggs[i], off |-> 0]] = MeantAggs(text)
            ELSE Range(query.aggs) = Range(MeantAggs(text)) /\ Len(query.order) = Smaller(2, Len(text.orderBy))
         /\ query.byCount = (ByKey(text) /\ text.orderBy # <<>>)
         /\ query.limit = text.limit /\ query.offset = text.offset
    /\ stage # "sql" /\ Inexpressible(text) => stage = "failed"

\* group_dict_hist.rs:1, "histogram for GROUP BY one dictionary column + COUNT(*) / SUM(f64)":
\* a query that uses it answers a group for every key.
HistogramGroups ==
    Done /\ query.group /\ UsesHistogram(query) /\ query.limit = 0 => Len(result.groups) = Cardinality(Keys)
=============================================================================
