------------------------------ MODULE GroupMerge ------------------------------
(***************************************************************************)
(* How the native runtime merges the groups of the chunks of a query        *)
(* (native/runtime.rs from merge_group_hist_partials on, native/pool.rs).   *)
(* Group records are spread over partitions by the hash of their key, each   *)
(* partition is reduced on its own, and the reduced partitions are put one   *)
(* after the other or trimmed to the groups with the largest counts.        *)
(*                                                                         *)
(* A record is [key, bytes, aggs]: the 128-bit hash of the group's key, the  *)
(* key itself when keys are merged by bytes, and its aggregates.  A hash is  *)
(* a pair <<h, n>> compared like the code's (a, b): n = 0 for a hash the     *)
(* scan computed, and allocate_collision_key makes pairs with n > 0.        *)
(***************************************************************************)
EXTENDS PlanExec

CONSTANTS KeyHash,        \* KeyHash[k]: the hash of key k; keys may share one
          Partitions,     \* group_partitions and partition_count, a power of two
          RadixBase,      \* hashes below RadixBase share the top bits of hash_u64_pair
          HotThreshold    \* hot_partition_threshold_records

ASSUME HashAssumption == \A k \in 0..(DictLen - 1) : KeyHash[k] \in Nat
ASSUME PartitionAssumption == Partitions \in Nat \ {0} /\ RadixBase \in Nat \ {0} /\ HotThreshold \in Nat

Modes == {"hash", "bytes"}
Engines == {"legacy", "sort", "v2", "direct"}

\* copy_groups and copy_groups_with_keys: the groups of a chunk as records.
GroupRecords(groups, mode) ==
    [j \in DOMAIN groups |-> [key |-> <<KeyHash[groups[j].key], 0>>,
                              bytes |-> IF mode = "bytes" THEN groups[j].key ELSE 0,
                              aggs |-> groups[j].aggs]]

\* group_emit_raw: one record with keys per row instead of one per group.
RawStat(kind, x) ==
    CASE kind = "count_star" -> [count |-> 1, sum |-> 0, min |-> 0, max |-> 0]
      [] kind = "count" -> [count |-> IF x = Null THEN 0 ELSE 1, sum |-> 0, min |-> 0, max |-> 0]
      [] kind \notin Counting /\ x = Null -> [count |-> 0, sum |-> 0, min |-> 0, max |-> 0]
      [] OTHER -> [count |-> 1, sum |-> x, min |-> x, max |-> x]
RawRecords(q, chunk, mask) ==
    LET rows == Ascending(ApplyValidity(chunk["k"], mask))
        raw == [j \in DOMAIN rows |->
                  [key |-> chunk["k"][rows[j]],
                   aggs |-> [i \in DOMAIN q.groupAggs |-> RawStat(q.groupAggs[i], chunk["v"][rows[j]])]]]
    IN  GroupRecords(raw, "bytes")

\* group_partition_for_keys and the radix of reduce_hot_partition_groups: the low and the top bits.
PartitionOf(r) == r.key[1] % Partitions
RadixOf(r) == r.key[1] \div RadixBase

\* Seeded fault: a record without values pulls the minimum down to its 0.
MergeStat_NoCountGuard(t, s) ==
    [count |-> t.count + s.count, sum |-> t.sum + s.sum,
     min |-> IF t.count = 0 THEN s.min ELSE Smaller(t.min, s.min),
     max |-> IF t.count = 0 THEN s.max ELSE Larger(t.max, s.max)]

\* merge_group_states: a record without values has no minimum and no maximum.
MergeStat(t, s) ==
    [count |-> t.count + s.count, sum |-> t.sum + s.sum,
     min |-> IF s.count = 0 THEN t.min ELSE IF t.count = 0 THEN s.min ELSE Smaller(t.min, s.min),
     max |-> IF s.count = 0 THEN t.max ELSE IF t.count = 0 THEN s.max ELSE Larger(t.max, s.max)]
EmptyStats(n) == [i \in 1..n |-> [count |-> 0, sum |-> 0, min |-> 0, max |-> 0]]
MergeStats(t, s) == [i \in DOMAIN t |-> MergeStat(t[i], s[i])]

Less(a, b) == a[1] < b[1] \/ (a[1] = b[1] /\ a[2] < b[2])

\* allocate_collision_key: xxh3 of the key's bytes gives a fresh pair.
CollisionKey(base, bytes, used) == IF base \notin used THEN base ELSE <<base[1], bytes + 1>>

\* The records of one group: same hash and, when keys are merged by bytes, same bytes.
SameGroup(a, b) == a.key = b.key /\ a.bytes = b.bytes

\* The groups of some records, in the order they were first seen.
Grouped(records, n) ==
    LET Add(groups, r) ==
            IF \E j \in DOMAIN groups : SameGroup(groups[j], r)
            THEN [j \in DOMAIN groups |-> IF SameGroup(groups[j], r)
                                          THEN [groups[j] EXCEPT !.aggs = MergeStats(@, r.aggs)] ELSE groups[j]]
            ELSE Append(groups, [r EXCEPT !.aggs = MergeStats(EmptyStats(n), @)])
    IN  Fold(Add, <<>>, records)
\* Groups of different bytes do not leave with one hash.
WithFreshKeys(groups) ==
    LET Emit(out, g) == Append(out, [g EXCEPT !.key = CollisionKey(@, g.bytes, {out[j].key : j \in DOMAIN out})])
    IN  Fold(Emit, <<>>, groups)

\* reduce_group_records: one record per hash, by hash.
ReduceByHash(records, n) == SortSeq(Grouped(records, n), LAMBDA a, b : Less(a.key, b.key))
\* reduce_group_records_with_keys: by hash, and within a hash in the order the keys were first seen.
ReduceByBytes(records, n) ==
    LET groups == Grouped(records, n)
        order == SetToSortSeq(DOMAIN groups, LAMBDA i, j : \/ Less(groups[i].key, groups[j].key)
                                                           \/ groups[i].key = groups[j].key /\ i < j)
    IN  WithFreshKeys([j \in DOMAIN order |-> groups[order[j]]])
ReduceTree(records, n, mode) == IF mode = "hash" THEN ReduceByHash(records, n) ELSE ReduceByBytes(records, n)

\* The same over the fragments the workers left and the spill, without joining them first.
FragmentsByHash(fragments, spill, n) == ReduceByHash(FlattenSeq(fragments) \o spill, n)
FragmentsByBytes(fragments, spill, n) == ReduceByBytes(FlattenSeq(fragments) \o spill, n)

\* Records sorted by hash and bytes, each run of one group folded into one record.
SortedRuns(records, n) ==
    LET order == SetToSortSeq(DOMAIN records,
                    LAMBDA i, j : \/ Less(records[i].key, records[j].key)
                                  \/ records[i].key = records[j].key /\ records[i].bytes < records[j].bytes
                                  \/ SameGroup(records[i], records[j]) /\ i < j)
        Step(out, i) ==
            LET last == Len(out)
            IN  IF last > 0 /\ SameGroup(out[last], records[i])
                THEN [out EXCEPT ![last].aggs = MergeStats(@, records[i].aggs)]
                ELSE Append(out, [records[i] EXCEPT !.aggs = MergeStats(EmptyStats(n), @)])
    IN  Fold(Step, <<>>, order)
\* reduce_group_records_sort and reduce_group_records_with_keys_sort.
SortByHash(records, n) == SortedRuns(records, n)
SortByBytes(records, n) == WithFreshKeys(SortedRuns(records, n))

\* reduce_hot_partition_groups: split by the top bits of the hash, reduced bucket by bucket.
ReduceHot(records, n, mode) ==
    LET buckets == SetToSortSeq({RadixOf(records[i]) : i \in DOMAIN records}, <)
        Bucket(h) == SelectSeq(records, LAMBDA r : RadixOf(r) = h)
    IN  FlattenSeq([b \in DOMAIN buckets |-> ReduceTree(Bucket(buckets[b]), n, mode)])
IsHot(records) == Len(records) > Larger(1, HotThreshold)

\* flatten_partition_fragments.
Flatten(fragments, spill) == spill \o FlattenSeq(fragments)

\* reduce_partition_groups, of the legacy engine.
ReducePartition(records, n, mode) == IF IsHot(records) THEN ReduceHot(records, n, mode) ELSE ReduceTree(records, n, mode)
\* reduce_partition_groups_sort, of the sort engines.
ReducePartitionSort(records, n, mode) ==
    CASE IsHot(records) -> ReduceHot(records, n, mode)
      [] ~IsHot(records) /\ mode = "hash" -> SortByHash(records, n)
      [] OTHER -> SortByBytes(records, n)
\* reduce_partition_group_fragments_direct, of the direct engine.
ReducePartitionDirect(fragments, spill, n, mode) ==
    LET records == Flatten(fragments, spill)
    IN  CASE IsHot(records) -> ReduceHot(records, n, mode)
          [] ~IsHot(records) /\ mode = "hash" -> FragmentsByHash(fragments, spill, n)
          [] OTHER -> FragmentsByBytes(fragments, spill, n)

\* repartition_group_records, and the loop every merge starts with.
Repartition(records) == [p \in 0..(Partitions - 1) |-> SelectSeq(records, LAMBDA r : PartitionOf(r) = p)]

\* The top of the heap of trim_group_records_topk_by_count: the fewest rows, then the least key.
TopOfHeap(heap, i) ==
    CHOOSE r \in heap : \A s \in heap :
        r.aggs[i].count < s.aggs[i].count \/ (r.aggs[i].count = s.aggs[i].count /\ ~Less(s.key, r.key))

\* trim_group_records_topk_by_count: `limit` groups with the most rows by aggregate i, most first.
TrimTopK(records, i, limit) ==
    LET Push(heap, r) ==
            LET top == TopOfHeap(heap, i)
            IN  CASE Cardinality(heap) < limit -> heap \cup {r}
                  [] Cardinality(heap) >= limit
                       /\ (r.aggs[i].count > top.aggs[i].count
                           \/ (r.aggs[i].count = top.aggs[i].count /\ Less(r.key, top.key))) -> (heap \ {top}) \cup {r}
                  [] OTHER -> heap
    IN  SetToSortSeq(Fold(Push, {}, records),
                     LAMBDA a, b : a.aggs[i].count > b.aggs[i].count
                                   \/ (a.aggs[i].count = b.aggs[i].count /\ Less(a.key, b.key)))

\* topk_count_agg: which aggregate the trim goes by, 0 for no trim.
TopKAgg(q) == IF q.byCount /\ q.limit > 0 THEN SelectInSeq(q.groupAggs, LAMBDA k : k \in Counting) ELSE 0

\* supports_partition_sort_v2.
SupportsV2(mode, q) == mode = "bytes" /\ q.group /\ q.groupAggs # <<>>

\* resolve_effective_group_engine: the engine estimate_group_cardinality chooses is left open.
EffectiveEngines(requested, mode, q) ==
    CASE UsesHistogram(q) -> {"legacy"}
      [] ~UsesHistogram(q) /\ requested # "v2" -> {requested}
      [] ~UsesHistogram(q) /\ requested = "v2" /\ ~SupportsV2(mode, q) -> {"sort"}
      [] OTHER -> {"v2", "legacy"}
ScansPartitioned(engine) == engine \in {"sort", "v2", "direct"}

\* The end of merge_group_partials_partitioned_legacy: the partitions one after the other.
Concatenate(reduced) == FlattenSeq([p \in 1..Partitions |-> reduced[p - 1]])
\* The end of the other two merges: the top of them when topk_count_agg is set.
ConcatenateTop(reduced, q) ==
    LET i == TopKAgg(q) IN IF i = 0 THEN Concatenate(reduced) ELSE TrimTopK(Concatenate(reduced), i, q.limit)
=============================================================================
