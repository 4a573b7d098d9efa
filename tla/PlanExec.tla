------------------------------ MODULE PlanExec ------------------------------
(***************************************************************************)
(* What one plan accumulates: plan_exec_chunk after the mask is known, the  *)
(* partial results a worker copies out of its plan, and the reducer that    *)
(* merges them (ffi/exec.rs, query/agg.rs, query/group_dict_hist.rs,        *)
(* ffi/row_exec.rs, ffi/group_output.rs, ffi/plan/reducer.rs).              *)
(*                                                                         *)
(* A query is a record                                                     *)
(*   filters, combine   as in ChunkFilter                                  *)
(*   aggs               sequence of [kind, off] over column "v"             *)
(*   group, groupAggs   GROUP BY "k" or not, and the kinds of its aggregates *)
(*   byCount, order     order groups by count; ORDER BY columns of rows      *)
(*   limit, offset      0 for none                                          *)
(* and the accumulated state of a plan a record of rows, a bounded heap of  *)
(* row candidates, one aggregate state per aggregate, the groups in the     *)
(* order they were first seen, and the dictionary histogram.  The offset of *)
(* SUM(v + 1) is kept beside the aggregate and applied when it is copied.   *)
(***************************************************************************)
EXTENDS ChunkFilter

CONSTANTS RowsPerChunk,   \* rows of every chunk but the last
          ValueIsF64,     \* "v" is a float column, so SUM may use the histogram
          KeyIsDict,      \* "k" is a dictionary column, and not one of raw strings
          PosInf, NegInf  \* the minimum and the maximum of no value

ASSUME RowsAssumption == RowsPerChunk \in Nat \ {0} /\ ValueIsF64 \in BOOLEAN /\ KeyIsDict \in BOOLEAN
ASSUME InfAssumption == NegInf \in Int /\ PosInf \in Int /\ NegInf < PosInf

EmptyAgg == [count |-> 0, sum |-> 0, min |-> PosInf, max |-> NegInf]
Counting == {"count_star", "count"}
Fold(Op(_, _), base, s) ==
    LET f[k \in 0..Len(s)] == IF k = 0 THEN base ELSE Op(f[k - 1], s[k]) IN f[Len(s)]
\* The elements of a finite set in an order: each has as many before it as its place says.
Sorted(S, Lt(_, _)) ==
    [i \in 1..Cardinality(S) |-> CHOOSE x \in S : Cardinality({y \in S : Lt(y, x)}) = i - 1]
Ascending(S) == Sorted(S, LAMBDA a, b : a < b)

\* try_enable_group_dict_histogram.
UsesHistogram(q) ==
    q.group /\ KeyIsDict
            /\ (q.groupAggs = <<"count_star">>
                \/ (ValueIsF64 /\ Len(q.groupAggs) = 2 /\ Range(q.groupAggs) = {"count_star", "sum"}))
WithSums(q) == UsesHistogram(q) /\ "sum" \in Range(q.groupAggs)

\* plan_reset_results, and the state create_plan and plan_reducer_new start from.
ResetResults(p, q) ==
    [rows |-> <<>>, heap |-> {}, aggs |-> [i \in DOMAIN q.aggs |-> EmptyAgg], groups |-> <<>>,
     counts |-> [id \in 0..DictLen - 1 |-> 0], sums |-> [id \in 0..DictLen - 1 |-> 0]]

\* update_agg.
UpdateAgg(s, x) == [count |-> s.count + 1, sum |-> s.sum + x, min |-> Smaller(s.min, x), max |-> Larger(s.max, x)]

\* aggregate_column over the rows of a mask that are not NULL.
AggregateColumn(column, mask) ==
    Fold(LAMBDA s, i : UpdateAgg(s, column[i]), EmptyAgg, Ascending(ApplyValidity(column, mask)))

\* merge_agg_by_kind.
MergeAggByKind(t, p, kind) ==
    IF p.count = 0 THEN t
    ELSE [count |-> t.count + p.count,
          sum |-> IF kind \in {"min", "max"} THEN t.sum ELSE t.sum + p.sum,
          min |-> IF kind = "max" THEN t.min ELSE Smaller(t.min, p.min),
          max |-> IF kind = "min" THEN t.max ELSE Larger(t.max, p.max)]

\* The aggregate loop of plan_exec_chunk.
ExecAggregates(aggs, q, chunk, mask) ==
    [i \in DOMAIN aggs |->
       IF q.aggs[i].kind = "count_star" THEN [aggs[i] EXCEPT !.count = @ + Cardinality(mask)]
       ELSE MergeAggByKind(aggs[i], AggregateColumn(chunk["v"], mask), q.aggs[i].kind)]

\* The aggregates of one group after one more row: process_row.
GroupRow(aggs, q, x) ==
    [i \in DOMAIN aggs |->
       CASE q.groupAggs[i] = "count_star" -> [aggs[i] EXCEPT !.count = @ + 1]
         [] q.groupAggs[i] # "count_star" /\ x = Null -> aggs[i]
         [] q.groupAggs[i] = "count" /\ x # Null -> [aggs[i] EXCEPT !.count = @ + 1]
         [] OTHER -> UpdateAgg(aggs[i], x)]

\* The entry of a key in the group table, a new one at the end when there is none.
GroupEntry(groups, key, n) ==
    IF \E j \in DOMAIN groups : groups[j].key = key THEN groups
    ELSE Append(groups, [key |-> key, aggs |-> [i \in 1..n |-> EmptyAgg]])
OnGroup(groups, key, n, Op(_)) ==
    LET g == GroupEntry(groups, key, n)
    IN  [j \in DOMAIN g |-> IF g[j].key = key THEN [g[j] EXCEPT !.aggs = Op(@)] ELSE g[j]]

\* The group scan of plan_exec_chunk: a row whose key is NULL is in no group.
ExecGroups(groups, q, chunk, mask) ==
    Fold(LAMBDA g, i : OnGroup(g, chunk["k"][i], Len(q.groupAggs), LAMBDA a : GroupRow(a, q, chunk["v"][i])),
         groups, Ascending(ApplyValidity(chunk["k"], mask)))

\* hist_count_dict_column.
HistCount(counts, chunk, mask) ==
    [id \in DOMAIN counts |-> counts[id] + Cardinality({i \in mask : chunk["k"][i] = id})]
\* hist_sum_f64_dict_key: the stored value of a NULL is 0.
HistSum(sums, chunk, mask) ==
    [id \in DOMAIN sums |->
       sums[id] + Fold(LAMBDA s, i : s + (IF chunk["v"][i] = Null THEN 0 ELSE chunk["v"][i]), 0,
                       Ascending({i \in mask : chunk["k"][i] = id}))]

\* RowCandidate: NULL keys last, then the row id.
Before(a, b) ==
    \/ a.k # b.k /\ (b.k = Null \/ (a.k # Null /\ a.k < b.k))
    \/ a.k = b.k /\ a.row < b.row
Worst(heap) == CHOOSE c \in heap : \A d \in heap : ~Before(c, d)

PushCandidate(heap, c, take) ==
    CASE Cardinality(heap) < take -> heap \cup {c}
      [] Cardinality(heap) >= take /\ Before(c, Worst(heap)) -> (heap \ {Worst(heap)}) \cup {c}
      [] OTHER -> heap

RowTake(q) == IF q.limit = 0 THEN 0 ELSE q.limit + q.offset
RowId(c, i) == (c - 1) * RowsPerChunk + i - 1

\* execute_row_phase.
ExecRows(p, q, c, chunk, mask) ==
    LET ids == Ascending(mask)
    IN  CASE q.limit = 0 -> p
          [] q.limit > 0 /\ q.order # <<>> ->
               [p EXCEPT !.heap =
                  Fold(LAMBDA h, i : PushCandidate(h, [k |-> chunk[q.order[1]][i], row |-> RowId(c, i)], RowTake(q)), @, ids)]
          [] OTHER ->
               [p EXCEPT !.rows = SubSeq(@ \o [j \in DOMAIN ids |-> RowId(c, ids[j])], 1,
                                         Smaller(Larger(RowTake(q), Len(@)), Len(@) + Len(ids)))]

\* The group phase of plan_exec_chunk: into the histogram, or into the group table.
ExecGroupPhase(p, q, chunk, mask) ==
    CASE ~q.group -> p
      [] q.group /\ UsesHistogram(q) ->
           [p EXCEPT !.counts = HistCount(@, chunk, mask),
                     !.sums = IF WithSums(q) THEN HistSum(@, chunk, mask) ELSE @]
      [] OTHER -> [p EXCEPT !.groups = ExecGroups(@, q, chunk, mask)]

\* plan_exec_chunk: nothing when no row matches, else aggregates, groups and rows.
ExecChunk(p, q, c, chunk) ==
    LET mask == ChunkMask(q.filters, q.combine, chunk)[1]
        a == [p EXCEPT !.aggs = ExecAggregates(@, q, chunk, mask)]
    IN  IF mask = {} THEN p ELSE ExecRows(ExecGroupPhase(a, q, chunk, mask), q, c, chunk, mask)

\* plan_copy_aggs: the offset of an aggregate is applied as it is copied out.
CopyAgg(s, a) ==
    IF a.kind \in Counting THEN [count |-> s.count, sum |-> s.count, min |-> s.count, max |-> s.count]
    ELSE [count |-> s.count, sum |-> s.sum + a.off * s.count,
          min |-> IF s.count > 0 THEN s.min + a.off ELSE 0, max |-> IF s.count > 0 THEN s.max + a.off ELSE 0]
CopyAggs(p, q) == [i \in DOMAIN q.aggs |-> CopyAgg(p.aggs[i], q.aggs[i])]

\* agg_stats: what a group's record says of an aggregate.
GroupStats(s, kind) ==
    IF kind \in Counting THEN [count |-> s.count, sum |-> s.count, min |-> s.count, max |-> s.count]
    ELSE [count |-> s.count, sum |-> s.sum,
          min |-> IF s.count > 0 THEN s.min ELSE 0, max |-> IF s.count > 0 THEN s.max ELSE 0]

\* group_order_value with count_kind = COUNT(*).
OrderValue(g, q) ==
    LET i == SelectInSeq(q.groupAggs, LAMBDA k : k = "count_star") IN IF i = 0 THEN 0 ELSE g.aggs[i].count

\* skip(offset).take(limit) as group_output_count bounds it.
Window(s, limit, offset) ==
    SubSeq(s, offset + 1, IF limit > 0 THEN Smaller(offset + limit, Len(s)) ELSE Len(s))

\* copy_groups without a histogram.
CopyGroupTable(p, q, limit) ==
    LET n == Len(p.groups)
        val == [j \in 1..n |-> OrderValue(p.groups[j], q)]
        order == IF q.byCount /\ limit > 0
                 THEN Sorted(1..n, LAMBDA i, j : val[i] > val[j] \/ (val[i] = val[j] /\ i < j))
                 ELSE [j \in 1..n |-> j]
        out == [j \in 1..n |-> [key |-> p.groups[order[j]].key,
                                aggs |-> [i \in DOMAIN q.groupAggs |->
                                            GroupStats(p.groups[order[j]].aggs[i], q.groupAggs[i])]]]
    IN  Window(out, limit, q.offset)

\* hist_topk_by_count, hist_topk_by_sum and hist_entries_full_sort: the ids that get a record,
\* by sum when there are sums, else by count, or by id.
HistIds(p, q) ==
    LET top == q.byCount /\ q.limit > 0
        by == CASE top /\ WithSums(q) -> p.sums
                [] q.byCount /\ ~(top /\ WithSums(q)) -> p.counts
                [] OTHER -> [id \in DOMAIN p.counts |-> 0]
        live == {id \in DOMAIN p.counts : IF top /\ WithSums(q) THEN p.sums[id] # 0 ELSE p.counts[id] > 0}
    IN  Sorted(live, LAMBDA a, b : by[a] > by[b] \/ (by[a] = by[b] /\ a < b))

\* group_hist_to_records: the sums are written only when the groups were ordered by them.
HistRecords(p, q) ==
    LET ids == Window(HistIds(p, q), q.limit, q.offset)
        summed == q.byCount /\ q.limit > 0 /\ WithSums(q)
        Rec(id, kind) == IF kind = "sum" /\ summed
                         THEN [count |-> p.counts[id], sum |-> p.sums[id], min |-> p.sums[id], max |-> p.sums[id]]
                         ELSE [count |-> p.counts[id], sum |-> 0, min |-> 0, max |-> 0]
    IN  [j \in DOMAIN ids |-> [key |-> ids[j], aggs |-> [i \in DOMAIN q.groupAggs |-> Rec(ids[j], q.groupAggs[i])]]]

CopyGroups(p, q) == IF UsesHistogram(q) THEN HistRecords(p, q) ELSE CopyGroupTable(p, q, q.limit)

\* Seeded fault: the limit stays on while the groups of a task are copied.
CopyPartial_KeepsLimit(p, q) ==
    [rows |-> IF q.order = <<>> THEN p.rows ELSE <<>>, heap |-> IF q.order = <<>> THEN {} ELSE p.heap,
     aggs |-> CopyAggs(p, q), counts |-> p.counts, sums |-> p.sums,
     groups |-> IF q.group /\ ~UsesHistogram(q) THEN CopyGroupTable(p, q, q.limit) ELSE <<>>]

\* executeWorkerTask after the chunk ran: LIMIT is off while the groups are copied, OFFSET is not.
CopyPartial(p, q) ==
    LET lifted == IF q.group /\ q.order = <<>> THEN 0 ELSE q.limit
    IN  [rows |-> IF q.order = <<>> THEN p.rows ELSE <<>>, heap |-> IF q.order = <<>> THEN {} ELSE p.heap,
         aggs |-> CopyAggs(p, q), counts |-> p.counts, sums |-> p.sums,
         groups |-> IF q.group /\ ~UsesHistogram(q) THEN CopyGroupTable(p, q, lifted) ELSE <<>>]

\* emptyPartial: a chunk the statistics rule out.
EmptyPartial(q) ==
    [rows |-> <<>>, heap |-> {}, aggs |-> <<>>, groups |-> <<>>,
     counts |-> [id \in 0..DictLen - 1 |-> 0], sums |-> [id \in 0..DictLen - 1 |-> 0]]

MergeAggs(p, q, part) ==
    [i \in DOMAIN p.aggs |->
       LET t == p.aggs[i]
           r == part[i]
           off == q.aggs[i].off
       IN  CASE part = <<>> -> t
             [] part # <<>> /\ q.aggs[i].kind \in Counting -> [t EXCEPT !.count = @ + r.count]
             [] part # <<>> /\ q.aggs[i].kind \notin Counting /\ r.count = 0 -> [t EXCEPT !.sum = @ + r.sum]
             [] OTHER -> [count |-> t.count + r.count, sum |-> t.sum + r.sum - off * r.count,
                          min |-> IF t.count = 0 THEN r.min - off ELSE Smaller(t.min, r.min - off),
                          max |-> IF t.count = 0 THEN r.max - off ELSE Larger(t.max, r.max - off)]]

\* One aggregate of a group record added to the group's.
MergeStatByKind(t, r, kind) ==
    CASE kind \in Counting -> [t EXCEPT !.count = @ + r.count]
      [] kind \notin Counting /\ r.count = 0 -> [t EXCEPT !.sum = @ + r.sum]
      [] OTHER -> [count |-> t.count + r.count, sum |-> t.sum + r.sum,
                   min |-> IF t.count = 0 THEN r.min ELSE Smaller(t.min, r.min),
                   max |-> IF t.count = 0 THEN r.max ELSE Larger(t.max, r.max)]
\* plan_reducer_merge_groups: records add to the group of their key.
MergeGroups(groups, q, part) ==
    Fold(LAMBDA g, r : OnGroup(g, r.key, Len(q.groupAggs),
                               LAMBDA a : [i \in DOMAIN a |-> MergeStatByKind(a[i], r.aggs[i], q.groupAggs[i])]),
         groups, part)

\* reducePartials: merge_rows, merge_row_candidates, merge_aggs and merge_groups of one partial.
MergePartial(p, q, part) ==
    [rows |-> p.rows \o part.rows,
     heap |-> Fold(LAMBDA h, c : PushCandidate(h, c, RowTake(q)), p.heap, SetToSeq(part.heap)),
     aggs |-> MergeAggs(p, q, part.aggs), groups |-> MergeGroups(p.groups, q, part.groups),
     counts |-> [id \in DOMAIN p.counts |-> p.counts[id] + part.counts[id]],
     sums |-> [id \in DOMAIN p.sums |-> p.sums[id] + part.sums[id]]]

\* finalize_rows_from_heap: the candidates in order, without the first `offset`.
RowsFromHeap(p, q) ==
    LET sorted == Sorted(p.heap, Before)
    IN  Window([j \in DOMAIN sorted |-> sorted[j].row], q.limit, q.offset)

\* rows.sort(): a row that were there twice would stay there twice.
SortedRows(rows) ==
    LET order == Sorted(DOMAIN rows, LAMBDA i, j : rows[i] < rows[j] \/ (rows[i] = rows[j] /\ i < j))
    IN  [j \in DOMAIN rows |-> rows[order[j]]]

ReducerRows(p, q) ==
    IF q.order # <<>> THEN (IF p.heap = {} THEN p.rows ELSE RowsFromHeap(p, q))
    ELSE Window(SortedRows(p.rows), q.limit, q.offset)

\* plan_finalize_rows, the local path: rows without ORDER BY stay as they were collected.
LocalRows(p, q) ==
    IF q.limit = 0 \/ q.order = <<>> \/ p.heap = {} THEN p.rows ELSE RowsFromHeap(p, q)

\* group_output_count.
OutputCount(total, q) ==
    LET remaining == Larger(total - q.offset, 0) IN IF q.limit > 0 THEN Smaller(remaining, q.limit) ELSE remaining

GroupCount(p, q) ==
    OutputCount(IF UsesHistogram(q) THEN Cardinality({id \in DOMAIN p.counts : p.counts[id] > 0}) ELSE Len(p.groups), q)

\* readGroups: the records are read one by one up to the count; past the bytes there it throws.
ReadGroups(p, q) ==
    LET n == GroupCount(p, q)
        records == CopyGroups(p, q)
    IN  IF ~q.group \/ n = 0 THEN [readable |-> TRUE, groups |-> <<>>]
        ELSE [readable |-> n <= Len(records), groups |-> SubSeq(records, 1, Smaller(n, Len(records)))]

\* readPlanResult, before the projection.
ReadResult(p, q, rows) ==
    LET g == ReadGroups(p, q)
    IN  [rows |-> rows, aggs |-> CopyAggs(p, q), groups |-> g.groups, readable |-> g.readable]
=============================================================================
