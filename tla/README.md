# wcol: specifications, model checking and proofs

This directory holds the TLA+ specifications of wcol, the columnar query
runtime of this repository: a TypeScript runtime that scans files chunk by chunk
with a pool of Web or Node workers around a WebAssembly decoder, a native Rust
runtime that does the same with threads, an encoder that writes the files, and an
explorer application on top. The specifications are translated from the source;
file names below are relative to the repository.

Two kinds of questions are asked. *Who runs when*: chunk scheduling, the query
lock, the worker protocol with its fallback, the native pool and its memory
budget, the explorer's worker, the encoder's readers. *What comes out*: whether
the answer of a query, computed chunk by chunk by workers in any order, skipped by
statistics, merged, cut and projected, is that of a row by row reading; whether
an SQL text is planned as it reads; whether a file that was encoded decodes to
the rows it was made from. The second kind is checked against reference
definitions that are independent of the code (`QueryMeaning`, `SqlMeaning`, the
properties of `Encoder`).

## 1. The system

### 1.1 Components

| Component | Source | State it keeps | Operations | What makes it correct |
|---|---|---|---|---|
| Chunk queue and loops | `src/runtime/exec/chunks.ts` (`createChunkQueue`, `runChunkTasks`), `chunk-exec.ts` | `staged` map of prefetch promises, `build`, `dispatch`, one async loop per worker | stage, next, onChunk, settle | each chunk goes to one loop; bounded prefetch; success only for a full scan or a reached limit; the call always settles |
| Query lock | `chunks.ts` (`withContextLock`), `core/context.ts` | `ctx.queryChain`, a chain of promises | ask, enter, leave (also by exception) | mutual exclusion in the order of asking; a throwing query frees the next |
| Query execution | `chunks.ts` (`runChunkQuery`, `runLocalChunks`, `reducePartials`), `core/wcol.ts` | plan handle, pool of the context, partials | query, warmWorkers, fallback | the answer merges each chunk once, under its own plan; no silent fallback for explicit workers; every query is answered |
| Worker handle | `exec/chunk-workers.ts` | `pending` map, `plannedResolve/Reject` | setPlan, runTask, message callback | a reply settles the call it answers |
| Worker core | `workers/core.ts`, `node.ts`, `browser.ts` | one runtime, one plan handle | init, plan, task | a task runs on the plan it was sent for |
| Plan-handle caches of the FFI | `rust/wcol-decoder/src/ffi/required_pages.rs`, `ffi/exec.rs`, `ffi/plan/lifecycle.rs` | registry of plans, cached raw pointers per thread | create, destroy, required pages, execute chunk | no call after destroy |
| Plan execution | `ffi/exec.rs`, `ffi/row_exec.rs`, `query/*.rs`, `ffi/plan/*.rs`, `exec/results.ts` | a plan's aggregates, groups, histogram, row heap | execute a chunk, copy partials, reduce, finalise, read | independent of the order of partials; pruning loses no row; LIMIT and OFFSET applied once |
| Late materialisation | `ffi/materialize.rs`, `exec/projection.ts` | a projection | group rows by chunk, gather | cell i belongs to row i |
| Native thread pool | `rust/wcol-decoder/src/native/pool.rs`, `runtime.rs` | `Mutex<Option<ParallelPool>>`, channels, a shared atomic chunk counter | with_pool, prepare, execute, drop, worker loop | a successful query has every chunk, under its own SQL; every query returns |
| Native merge | `native/runtime.rs`, `native/exec.rs` | partials and group records per thread | collect, partition, merge, top-k, finalise | the answer does not depend on threads or engine |
| Native memory budget | `native/mem_budget.rs` | atomics for used and retained bytes, an arena per thread | reserve, release, decay | never above the cap; accounting does not drift |
| SQL front end | `rust/wcol-sql-parser`, `sql_plan.rs` | none | parse, plan | a plan says what the text says, or the text is refused |
| Encoder | `rust/wcol-encoder` | column specifications, buffers, pending row groups, a bounded channel | scan, read, append, finalise, write | rows decode to what was written, in order; a conversion ends |
| Page decoding | `rust/wcol-decoder/src/decode` | the previous text of a front-coded page | decode, LIKE | inverse of the encoder |
| Explorer engine | `apps/explorer/engine/` | load and query phases, draft, workspaces, undo history | reduce, undo, redo | phases match what is under way; undo restores |
| Explorer demo and engine shell | `apps/explorer/demo/`, `engine-shell/` | queue of requests, `busy`, pipelines of effects, file store | dispatch, open, warm, query | replies match requests; no request waits for ever |
| Native page cache, byte sources, schema and dictionary caches, Wasm bindings, configuration, CLI | `native/cache.rs`, `src/runtime/io`, `schema`, `wasm`, `native/config.rs`, `rust/wcol-cli` | caches and handles | reads and lookups | not modelled, see section 5 |

### 1.2 How they interact

`WcolFile.query` creates a plan handle on the main thread and calls
`runChunkQuery`, which queues on `ctx.queryChain`. Inside the lock it obtains the
pool of the context, posts the plan to every worker (`setPlan`), waits for all
`planned` replies, and starts one loop per worker over a shared chunk queue. A
loop takes a chunk, awaits its payload (which asks the *main thread's* plan for
the pages it needs and reads them), posts a task and awaits the result. When all
loops have returned, the partials are reduced. When anything in the pool path
throws, the query runs the whole scan again locally, unless the caller gave the
number of workers. `warmWorkers` uses the same pool, without the lock.

Workers and handles exchange five kinds of messages. `task` and `result` carry a
task id; `plan`, `planned` and `error` carry nothing that tells which call they
belong to. That is the root of most of what the models found there.

The native runtime has no event loop: a query locks the pool, sends `Prepare`
and then `Execute` over channels, and blocks on the reply of each thread.
The threads share one atomic counter per execution; each hands back partials and,
for GROUP BY, group records by partition, which other threads reduce.

Both runtimes execute chunks with the same plan code (`ffi/exec.rs`,
`ffi/plan`), so `ChunkFilter` and `PlanExec` serve both results modules.

The explorer's page sends one message at a time to its worker. The worker feeds
the event to the engine, runs the effects the engine asks for, and feeds their
events back until none is left; then it replies with the view.

### 1.3 What is hard

* *Interleaving*: loops of one scan; loops of an abandoned scan with the next
  query; a warm-up with a query; threads on a counter; row groups read by tasks.
* *Failure*: a read, a plan, a task, a reduction, a worker or a thread can fail
  at any point, and `Promise.all` reports only the first failure while the other
  loops go on.
* *Anonymous replies*: a late `planned` or `error` is taken by whoever waits.
* *Handle lifetime*: prefetches outlive the query whose plan they use.
* *Merging*: partial results are cut, ordered and merged in several places, in
  several representations (records, histograms, hashes of keys, partitions).
* *NULL, empty and missing*: NULL in statistics and negations, texts that are not
  in a dictionary, empty texts in front-coded pages, columns without values.

`PROJECT.json` lists these as hazards, each at its line, with the properties
that would catch it going wrong.

## 2. Modules

| Module | Models | Composes |
|---|---|---|
| `ChunkScan` | what any parallel scan promises (abstract) | |
| `ChunkQueue` | one call of `runChunkTasks` | implements `ChunkScan` |
| `FifoLock` | a first-come-first-served lock (abstract) | |
| `ContextLock` | `withContextLock` and its promise chain | implements `FifoLock` |
| `QueryExec` | queries of one file, from the lock to the answer; pool path, fallback, local path; worker handles, workers, messages, faults | uses `FifoLock`; each query implements `ChunkQueue` |
| `NativePool` | the native thread pool and the queries that share it | each query implements `ChunkScan` |
| `ArenaBudget` | the memory budget of a query and the arenas of the native threads | |
| `ChunkFilter` | statistics, pruning and masks of one chunk | |
| `PlanExec` | what a plan computes from a chunk, its partials, the reducer, the records read back | extends `ChunkFilter` |
| `Projection` | late materialisation | extends `PlanExec` |
| `QueryMeaning` | a row by row reading of a query (reference) | |
| `PlanResults` | one query of the TypeScript runtime, worker path and local path | `Projection`, `QueryMeaning` |
| `GroupMerge` | how the native runtime partitions, merges and trims groups | extends `PlanExec` |
| `SqlParser`, `SqlPlan` | the parser over tokens, the planner | |
| `SqlMeaning` | how an author's query is written, and what it means (reference) | `SqlPlan`, `QueryMeaning` |
| `NativeResults` | one SQL query of the native runtime, from the text to the answer | `GroupMerge`, `SqlMeaning` |
| `ColumnScan` | the encoder's first pass: types, dictionaries, tokens | |
| `ColumnPages` | buffers, every encoding of a page, and the decoder's reading of it | extends `ColumnScan` |
| `Encoder` | a conversion: row groups, tasks, channel, chunks, parts | extends `ColumnPages` |
| `ExplorerEngine` | the engine's reducer, undo history and view | |
| `Explorer` | the page's client, the worker, pipelines and effects | extends `ExplorerEngine` |
| `Channels` | lemmas about sequences used as channels: what a send and a receive leave where | |
| `ChunkQueue_proofs`, `ContextLock_proofs`, `QueryExec_proofs`, `NativePool_proofs`, `ArenaBudget_proofs`, `Explorer_proofs`, `PlanResults_proofs` | the proofs | extend their module, some also `Channels` |
| `MC*` | instances for TLC; where it is defined, `Terminated` is the only way a run may stop | |

Two abstract specifications, each implemented twice, tie the concurrent part
together. `ChunkScan` is implemented by the JavaScript loops and by the native
threads. `FifoLock` is implemented by the promise chain (`ContextLock`), and
`QueryExec` uses it in place of the chain, so what is proved of the chain carries
over. What those modules call "the partial of a chunk" is computed in `PlanExec`,
and `PlanResults` and `NativeResults` take from the scheduling modules what they
guarantee: every chunk is run once, by some worker, in some order.

### 2.1 ChunkQueue

An action is the code between two awaits: JavaScript does not interrupt it.

| Code | Model |
|---|---|
| `build`, `dispatch` | the variables of the same name |
| `staged` map | `load[c]`: `loading`, `ready` and `failed` chunks are in the map; `taken` ones were deleted. A failed payload is never deleted, as in the code |
| `stage()` | `Stage(ld)`, part of `Claim`, `Exhausted` and `Receive` |
| `next()` up to its await | `Claim` or `Exhausted` |
| `next()` after it | `Receive`, or `ReceiveError` when the payload rejects |
| `onChunk` | `Run` or `RunError`; an early limit ends the loop |
| `Promise.all` | `outcome`; `Resolve` when all loops returned, `Reject` at the first error. The other loops go on |

### 2.2 ContextLock

`queryChain` is a reference to the gate of the last query that asked; each query
remembers the gate it awaits (`Ask`), enters when that gate is open (`Grant`),
and opens its own in the `finally` block (`Release`), after success or error.
The caller sees the result in a later microtask (`Settle`), so a query can be
inside before the previous one's caller knows of its result.

### 2.3 QueryExec

| Code | Model |
|---|---|
| `WcolFile.query` | `Ask` (or `Invalid`), ..., `Return` with `destroy_plan`; `base[q]` is the plan handle |
| `runChunkQuery` | `Begin`, `Acquire`, `SpawnFails`, `Planned`, `ScanEnds`, `Reduce`; `PoolFails` and `Catch` are the catch block |
| `runLocalChunks` | the loop `Local`, `ExecLocal`, `LocalEnds` |
| chunk queues | `dispatch`, `load`, `loop`, `task` per query and path; loops of an abandoned scan stay |
| `loadChunkPayload` | `UsePlan` (the call of `plan_required_pages` on the base plan, after the index was read) and `ReadFails` |
| `createWorkerHandle` | `pending`, `bound` (who owns `plannedResolve`), `ack` (its promise); `OnPlanned`, `OnError`, `OnResult` |
| `createWorkerCore` | `wplan`; `HandlePlan`, `HandleTask` |
| channels | `inbox`, `outbox`, in order per worker, as `postMessage` promises |

Use of a destroyed plan is undefined in the code: the registry lookup fails, but
`required_pages.rs` and `ffi/exec.rs` keep the last plan's raw pointer per thread.
The model follows these caches (`reqCache`, `wplan.ran`): a call on a destroyed
plan fails when the pointer is not cached, and may do anything the build can do
when it is.

Abstractions: the file has at most four chunks, so that the first `next()`
stages all of them (longer files are `ChunkQueue`'s business); all queries use a
pool of the same size; which rows a chunk contributes is abstracted to *which
plan computed its partial*; whether a plan asks for approximate counts is decided
in `Begin`. A worker handles a message in one action: its handlers await only
promises that are already resolved.

### 2.4 NativePool

`Lock` ... `Return` is `with_pool`; `Reuse` and `Recreate` its test of the pool's
size; `Send`, `Prepared` and `Executed` are `prepare` and `execute`, with the early
return of a failing send. A thread takes the head of its `inbox`: `PrepareSql`,
or `ClaimBatch`/`Begin`/`Succeed`/`ChunkFails`/`Exhausted` for the loop of
`execute_chunks`, one `fetch_add` at a time, modulo `Width`. `Die` is a thread that
ends (its context could not be built, or it panics): its receiver and its
pending reply senders are dropped, which senders and `recv_reply` notice.

Left out: `Stats` and `Trim` commands, timing and performance counters, the
arena arithmetic (one more reason for `ChunkFails`; `ArenaBudget` has it), group partitions made
during a scan.

### 2.5 ArenaBudget

An action is the code between two atomic operations, so every compare-and-swap
loop has an action for its load and test and one for its exchange.

| Code | Model |
|---|---|
| `QueryMemoryBudget::new` with `pool.retained_bytes()` | `Start`: the next query; `initial` remembers what it began with |
| `set_live_bytes` | `Fits`, or `Outgrows`; `Targets` is the loop that adds `grow_bytes` until the window fits |
| `try_reserve` | `Reserve` (load, test), `Swap` (exchange, or round again) |
| `add_live` and the rest of `set_live_bytes` | `AddLive` |
| the flush of a string-heavy window; the end of `execute_chunks` | `Flush`; `Finish`, with or without `reset_live_bytes` |
| `end_query` | `EndQuery`: idle count, policy, decay |
| `adjust_retained` | `LoadRetained`, `Adjust` |

Left out: `reserve_for`, which only tests call; the peak kept for statistics; how
the memory of the machine is detected; sizes near 2^64, where additions saturate.
Queries follow one another on one pool (`with_pool` holds the mutex), and all
threads reply. Two observations on the way: `execute_chunks` resets the live bytes
before `end_query` tests them, so every successful query counts as idle for the
decay; and `add_live` does not look at the retained cap, which only binds when a
query ends.

`RetainedExact` and `ArenasWithinCap` hold of configurations, not of all: `Roomy` says
that the retained cap leaves a thread its base while the others are full, `BasesFit`
that a query's cap covers the bases of the pool. Without the first, `adjust_retained`
counts less than the arenas hold and the total drifts (section 3.3); what holds then is
`RetainedNotOver`. The run has both, with little to spare.

### 2.6 What a query computes: ChunkFilter, PlanExec, Projection, PlanResults

A table has two columns: `k`, a key (a dictionary of texts or numbers), and `v`,
numbers; both may be NULL. A row is its global index; a mask is the set of its rows. A
plan is a record of the fields the code's setters fill in.

| Code | Model |
|---|---|
| `compute_page_stats`, `encode_column_page` (statistics only) | `PageStats` |
| `filter_possible`, `eval_possible`, `plan_required_pages` | `FilterPossible`, `EvalPossible`, `Pruned` |
| `build_single_mask`, `build_like_mask_ids`, `maybe_apply_validity_mask`, `combine_masks` | `SingleMask`, `LikeMask`, `ApplyValidity`, `CombineMasks`; `ChunkMask` is the filter phase of `plan_exec_chunk` |
| aggregate, group, histogram and row phases of `plan_exec_chunk` | `ExecAggregates`, `ExecGroupPhase`, `HistCount`, `HistSum`, `ExecRows` in `ExecChunk` |
| `plan_copy_*`, `plan_group_count`, `ordered_group_keys` | `CopyAggs`, `CopyGroups`, ... |
| `plan_reducer_*` | `MergePartial`, `ReducerRows` |
| `results.ts` | `ReadResult` |
| `materializeSelectProjection`, `plan_materialize_chunk` | `Materialize` |

`PlanResults` puts them in motion: `SkipChunk`, `RunTask`, `Reduce` on the worker
path, `LocalChunk`, `LocalFinish` on the local one, and `FallBack` from the one to
the other at any moment. Its reference, `QueryMeaning`, knows no chunks.

Abstractions: floats are integers (sums are exact, so the order of addition does
not show); comparisons of `v` are those of one numeric type; GROUP BY has one key;
`AVG` is a sum and a count; HyperLogLog, SIMD variants and byte layouts are left out.

### 2.7 The native answer: GroupMerge, SqlParser, SqlPlan, SqlMeaning, NativeResults

`SqlParser` works on tokens (the lexer is left out), with the structure of the
recursive descent parser; `SqlPlan` has the planner, which looks names up in a
schema of `k` and `v` and texts in the dictionary of `k`. `SqlMeaning` writes an
author's query down as tokens and says what it means, without looking at plans.

`GroupMerge` has the four ways groups are merged. A record has a hash and,
when keys are merged by bytes, its key; `KeyHash` decides which keys share a hash.

| Code | Model |
|---|---|
| `query_sql_parallel`, `prepare_sql` | `Init`, `ApplySql` |
| `execute_chunk` with `disable_group_window`, `repartition_group_records` | `ScanChunk` |
| `merge_group_partials_partitioned_legacy`, `_partition_sort`, `_partition_direct` | `LegacyMerge`, `SortMerge`, `DirectMerge`; each partition is delivered by a `Deliver...` step, in any order |
| `trim_group_records_topk_by_count` | `ConcatenateTop` |
| `merge_group_hist_partials` | `HistogramRecords` |
| the reducer and `read_result` | `Finish`; `SingleChunk`, `SingleFinish` for the single path |

The engine and the key mode come from the environment in the code; the model takes
every combination the code lets through (`EffectiveEngines`). Failing threads are
`NativePool`'s business. Keys that share a hash never meet within one chunk or on
the single path (`CollisionAssumption`): there the code has tables of its own.

### 2.8 The encoder: ColumnScan, ColumnPages, Encoder

| Code | Model |
|---|---|
| `init_columns`, `scan_columns`, `finalize_columns`, and for SAV | `ScanColumn`, `ScanSavColumn`: type, scale, dictionary, tokens |
| `append_array_slice`, `ColumnBuffer` | `AppendCell`, `AppendSavCell`, `Reset` |
| `encode_column_page` and what it calls | `Page`: raw, dictionary or bit-packed numbers, scaled floats, front-coded texts, tokens, empty modes |
| `decode_physical_column`, `decode_raw_string_like_mask` | `Cells`, `EmptyMask`, `RawLikeMask` |
| `encode_chunks_streamed_row_groups` | `StartPart`, `Read`, `Send`, `Receive`, `FinishPart` |
| `convert_sav_to_wcol` | `ScanSav`, `EncodeSav` |

A task holds a thread of the pool until it has sent; the body holds one for the
whole part. LZ4 is the parameter `small` of a job, which encoding it makes smallest:
every choice must decode alike. Left out: the file layout, arrow types beyond the six
kinds of cells, declared nullability, statistics output.

### 2.9 The explorer: ExplorerEngine, Explorer

`ExplorerEngine` is a function from a state and an event to a state and effects, one
operator per event that does more than set a field. `Explorer` has the page's
client (`jobs`, `busy`; `Dispatch`, `OnMessage`, `OnError`), the channel, and in the
worker one pipe for each message that is being handled (`Receive`, `Handle`,
`StartEffect`, the effects, `Finish`). The handler is asynchronous: two pipes run
at once when a second message arrives, which the client's queue prevents until an
error event clears it.

Drafts, presets, results and details are opaque; the seven events that edit a
draft are one, `Edit`. `Unplannable` drafts are those `build_query_plan` rejects. The
text of the URL field, the drawer, the pins of filters and the order of the saved
views are left out.

The engine's answers (`FileOpened`, `QueryDone`, `CrateDetailDone`, ...) carry nothing that
tells which request they answer. What makes the reducer right nevertheless is the
protocol around it: `FreshPipe` and `SingleFlight` say how, and section 4 proves it.

### 2.10 Seeded faults

Operators that start with `Seeded fault` are variants of the definition that
follows them with a plausible bug: a dropped guard, an off-by-one, a missing
reset. No specification uses them. Putting one in place of its original must
break the property that `PROJECT.json` lists next to it under "mutants", which
shows that the property depends on the code it is about.

## 3. Runs

| Run | Instance | Asks |
|---|---|---|
| `queue` | 2 loops, 6 chunks (cap 4) | everything about the queue, including that it implements `ChunkScan` and settles; any read and any chunk may fail |
| `lock` | 4 queries | the chain is a FIFO lock, and everyone is served |
| `query_disturbed` | 2 queries, a warm-up, a pruned chunk, 1 fault (plan, task, crash) | no silent fallback; a pool answer leaves nothing behind; loops and pending tasks stay in step; lock and queues are used as their modules specify |
| `query_liveness` | an explicit query and one with a limit that may go local, 1 fault of any kind but a crash | the inductive invariant `ExecInv`; answers merge only their own partials; a local answer covers the file; every query is answered; the handles come to rest |
| `native_pool` | 3 queries for pools of 2, 2 and 3 threads, 3 chunks in batches of 2, 1 fault | complete, own answers; implements `ChunkScan` per query; every query returns |
| `arena` | 2 threads, arenas of 1 to 3 units, budget 5, retained cap 4, keep up to 2, decay after 2 queries, any number of queries | the inductive invariant `ArenaInv`; the budget keeps its cap and counts exactly, the retained total is what the arenas hold, the arenas together stay below the budget's cap, every retry loop ends |
| `results` | 99 queries (11 conditions, 9 shapes) over 75 tables of 3 chunks of up to 2 rows, 2 workers | no chunk is skipped that has a matching row; rows, aggregates, groups and projected cells are those of the row by row reading, on both paths |
| `native_results` | 21 queries over 50 tables and 31 more over 3, 2 threads, 2 partitions, colliding hashes | the plan says what the text says or the text is refused; the native answer is that of the reading, for every engine and key mode |
| `encoder` | 12,474 conversions: every filling of one column of each kind, SAV texts and floats, row groups read by 1 to 3 threads in one file or in parts | the decoder reads back what was written, in order; LIKE on raw text; an error surfaces; with two threads the conversion ends |
| `explorer` | 4 messages (3 events of 20 after the initial one), 1 error event, 1 failing warm-up | replies reach their own promise; what is shown is of the latest run and the open file; undo walks one timeline; every message is settled |

Why these bounds are enough to be interesting:

* `queue`: six chunks exceed the prefetch cap of two loops by two, so staging,
  waiting and clogging by failed payloads happen.
* `query_*`: two workers and two chunks let one loop of a query fail while the
  other has a task pending, and two queries let that task meet the next plan.
* `native_pool`: three chunks in batches of two give a full, a cut and an empty
  batch; pools of 2, 2 and 3 give reuse and replacement. (Also made with two faults,
  1.3 million states; one is kept for its length.)
* `arena`: two arenas together could hold six units and may hold five, so the threads
  compete for the last one, and a retained cap of four below two arenas of three
  makes releases depend on their order.
* `results`, `native_results`: three chunks let a key, a tie and a window span chunks
  with a skipped one between; a chunk of NULLs has statistics without values. The
  conditions have every operator, NOT, OR and a text that is not in the dictionary.
  Keys 0 and 3 share a hash, keys 2 a partition with them, so a collision meets both a
  partition of several keys and one of a single key.
* `encoder`: three rows per chunk and four rows make a full chunk and a rest, so a
  buffer is reused; a dictionary of three overflows at four texts; integer widths of
  1, 2, 3 and 5 bits put each type and the limit of an f64 in reach of small values;
  a channel of one (2 x threads in the code) fills up.
* `explorer`: three events after the first are enough for load, run and a disturbing
  event; a history of two drops its oldest entry.

Two runs look for, and find, a violation:

| Run | Statement in the repository | What happens |
|---|---|---|
| `warm_race` | `docs/ARCHITECTURE.md:47`, `:52` shared plan via messages; one in-flight query per file | `warmWorkers`, which takes no lock, replaces the workers' plan while a query runs: the query merges chunks executed under the warm-up's plan |
| `native_hist` | `query/group_dict_hist.rs:1` a histogram for GROUP BY one dictionary column | on the parallel path the merged histogram becomes group records, but the reducer counts its own, empty histogram: no groups are answered |

### 3.1 Fairness

The JavaScript models assume weak fairness of every loop, handle callback and
worker that is running: an event loop runs what is ready, and reads settle (the
sources have no timeouts, so a read that hangs would hang the query; the model
does not cover that). No query has to ask, and no fault has to happen: each
fair action has a successful branch. The native model assumes that the operating system
runs every thread and that the mutex goes to someone who waits; since each
caller asks once, no stronger fairness is needed. In `ArenaBudget` each thread's steps on the totals
are weakly fair (the operating system runs it); a scan may last for ever. Weak
fairness is enough for the retry loops: a swap fails only when another thread
changed the total, and each does so a bounded number of times while one waits.

`Explorer` assumes that the event loops of the page and of the worker deliver
messages and that every effect ends, well or badly; the user need not do anything.
`Encoder` assumes that a thread which can go on does, and that a free thread of the
pool takes a waiting task. Its fairness is stated on small actions (`BodyReceives` and the
like) that move the same control variables as the actions they stand for: each is
enabled exactly when its action is, and only its action can take it.

### 3.2 Deadlock

`queue`, `lock`, `native_pool` and `query_liveness` have deadlock checking on, with
`Terminated` as the only allowed end, and `arena`, which never ends. It is off where
the system may stop: `results`, `native_results` and `native_hist` (a query is
answered), `encoder` (a conversion ends, and with one thread it hangs), `explorer` (the
bound on messages is reached), `query_disturbed` (a crash may leave a query waiting
for ever) and `warm_race`.

### 3.3 Observations without a run

Behaviour the models show, of which no document says otherwise, or of which
only a general sentence does. They are outside the properties, where stated.

Queries and workers: after one failing task the other loops go on posting tasks
while the next query holds the lock. A prefetch of an abandoned scan calls
`plan_required_pages` on a destroyed plan. A worker that exits stays in the pool, and
the next query waits for its `planned` for ever, with the lock; warming
up during a query's own `setPlan` overwrites `plannedResolve`, with the same end.
A late `planned` can resolve the next query's `setPlan`. With two faults, one of them a
plan that fails in a worker, three queries are enough for a wrong answer: the first fails
in one worker while the other's `planned` is still to come; the second takes that reply
for its own, runs a task there, and fails elsewhere; the third takes the second's late
`planned`, its own plan fails in that worker without anyone hearing of it, and as the
earlier plan's pointer is still cached (`ran`), the worker executes the third query's
tasks under the second query's plan. `OwnPartials` is therefore checked with one fault,
and proved for any number of faults that leave plans alone.

Native pool and budget: a thread that has died stays in a pool of the right
size, and every later query fails there. When the retained cap is below the bases of
the arenas, `adjust_retained` accepts less than a base that is kept, and the total stays too
low for good; the order in which threads end decides whether it does
(`mem_budget.rs:455` asserts the total for one order).

Filters: NOT of a comparison with NULL is true. Pruning is sound for literals of the
column's type (section 4.5), but for three conditions, which the hypotheses of
`PrunedNeverMatches` leave out because TLC finds `PruneSound` violated with each of them:
`numeric_filter_possible` sorts the bounds of BETWEEN (`filter.rs:88`) while `cmp_scalar` does
not, so the NOT of a BETWEEN with its bounds swapped skips chunks whose rows all match; with
a dictionary of at most 64 values a range comparison with an id beyond it, and `neq` with a
negative id, are taken as never true (`filter.rs:243`), although the mask would hold rows.
COUNT of a float column skips NaN without GROUP BY and counts it with one.

Results of the TypeScript runtime: workers do not lift OFFSET while they lift the
group limit (`core.ts:99`), so groups are skipped in every chunk; the local path without ORDER BY
never applies OFFSET; a limited local scan stops before aggregates have seen
all rows (`chunks.ts:96`); a histogram writes its sums only when ordered by count with a
limit. `AnswerExact` names each as "outside". ORDER BY count of groups is done with a histogram in
any case, but in the group table only next to a LIMIT (`group_output.rs:117`,
`group_dict_hist.rs:445`): without one the order of the same query depends on how its groups
are kept. `GroupBefore` says both, and one of the
shapes of `results` is such a query.

Native results: the trim to the top groups ignores OFFSET and goes by the first
count of the query, while the order goes by COUNT(*); groups without aggregates are lost on
the parallel path; a skipped chunk leaves the window of a worker's plan at 0, without
effect; the single path returns the OFFSET rows without ORDER BY.

SQL: conditions that do not compare a column with a literal are dropped; `1 < v` is
planned as `v < 1`; LIKE is always "contains"; DESC and the column of ORDER BY do
not matter next to GROUP BY; unknown columns are passed over; COUNT(DISTINCT x) loses DISTINCT;
a text that is no number compares as 0; a range comparison with a missing text compares
with the largest id. `InDialect` leaves these out.

Encoder: with one thread in the pool (RAYON_NUM_THREADS=1) the body waits for tasks
that no thread can run. A text equal to the reserved `__wcol_other__` panics in a
dictionary without a bucket. Scaling turns values smaller than the tolerance into 0. Parts
that were written before a failing one stay. `docs/FORMAT.md` gives offsets of the header
that are not those of `format.rs`.

Explorer: a warm-up that throws ends its pipeline and the first query with it; after an
error event of the worker a late reply settles another message's promise; a window error
tells the engine that opening failed; a new file keeps the old crate's detail, undo and redo keep
the selection without its detail; pins are not undone. After an error event two opens can
overlap; the engine then starts to warm up while the file store is empty, the warm-up
answers nothing, and the query phase stays at Warming until the user acts again. So
`PhasesSettle`, a part of `ShowsTheTruth`, asks for the end of Warming only until an error event.

## 4. Proofs

Checked by TLAPS for every value of the constants that the named assumptions allow:
any number of queries, loops, workers, threads, chunks and messages, and any failures.
Each proof module has an inductive invariant (the properties alone are not inductive),
one lemma per part of it or per action, and the theorems at the end. The invariants were
model-checked before: `IndInv`, `ExecInv` and `ArenaInv` are properties of the runs
`queue`, `lock`, `query_liveness` and `arena`; `PoolInv` and `ExplorerInv` hold on the
instances of `native_pool` and `explorer`.

### 4.1 Chunk queue and lock

* `QueueInductive`: `IndInv` of `ChunkQueue`. `Frontier` says that `build` separates the chunks whose
  prefetch has begun and that everything between `dispatch` and `build` is in the
  map; `Accounted` says that a dispatched chunk still in the map is held by a loop that waits
  for it or died of it. Together they count: a loop that can still ask
  leaves at least one slot of the cap to a chunk that has not been dispatched, so
  `staged.get(chunkId)!` is never undefined (`ClaimAlwaysStaged`), although failed
  payloads keep their slots for ever. `Holding` and `Stopped` give `ScanDisjoint` and
  `ScanComplete`. `PrefetchAlwaysBounded` is the memory bound.
* `QueueImplementsScan`: every step of the queue is a step of `ChunkScan` or a
  stutter. A loop that died gives up its claim in the refinement.
* `LockInductive`, `LockExcludes`, `LockIsFifo`: the promise chain. The invariant
  says what the chain reaches: the predecessors of a waiting query, followed
  through the gates they await, are exactly those ahead of it.

### 4.2 Query execution

`ExecInductive` proves `ExecInv` for any number of queries, warm-ups and workers, and any
number of faults of all kinds, crashes included. Its parts: `StepsInv` ties where a query
stands in `runChunkQuery` to the lock, to its loops and to its answer; `TasksInv` and
`LoadsInv` type a loop's task and a chunk's payload; `FlightInv` is the worker protocol
(a pending task is the one its loop runs, and while the loop has not died the task or its
result is on the way at most once, for a reply that comes twice would settle a task that
is not pending); `PlansInv` says that a worker which can answer a task has or had a plan;
`LocalInv` and `CoverInv` account for the chunks of the two paths. From it:

* `ExplicitNeverFallsBack`, `OneTaskAtATime`, `PoolLeavesNothing`, `LocalAnswersCover`, `ExecTypes`.
* `ImplementsLock`: the composition uses the lock as `FifoLock` says.
* `ImplementsQueues`: the pool loops of every query behave as one `ChunkQueue`, also those
  of a query that was answered long ago and still posts tasks while the next one holds
  the lock. Each of the steps of the composition is a step of that queue or a
  stutter, so what section 4.1 proves of the queue holds of each query.
* `PartialsAreOwn`: when nobody warms the workers (`Warmers = {}`) and no plan fails in a
  worker (`"plan" \notin Faults`), an answer from the pool merges only partials computed
  under its own plan. `OwnPlanInv` is the argument: a query that uses the pool has its
  plan last in every worker's channel, or in the worker, and its tasks behind it; what
  abandoned loops posted is under other names. Both conditions are needed: `warm_race`
  breaks the property without the first, and section 3.3 tells how it breaks without the second.

### 4.3 Native pool and budget

* `PoolInductive`: `PoolInv` of `NativePool`. `RepliesInv` and `OrderInv` say what may lie in a
  thread's channel: at most one command of a query, those left behind by queries that
  gave up before the one at work, and an `Execute` only in front of an empty channel with
  the plan of its own query prepared. `ClaimsInv`, `ScansInv` and `CompleteInv` follow a
  chunk from the counter to the result; `CounterInv` bounds the counter by one batch
  per thread beyond the end, so that `fetch_add` does not wrap and hand out a chunk twice
  (`PoolAssumption` asks that the file is that far from 2^32 chunks).
* `PoolResultComplete`: `OwnCompleteResult`, exactly one partial per chunk, under the query's own
  SQL. `PoolImplementsScans`: each query is a `ChunkScan`, and the others' steps stutter.
* `ArenaInductive`: `ArenaInv` of `ArenaBudget`. A thread between its test and its exchange
  has compared *the value it expects* with the cap, and the exchange succeeds only on
  that value (`BudgetAlwaysCapped`); grants add up whichever exchanges fail
  (`BudgetAlwaysExact`); the total of retained bytes never counts more than the arenas hold
  (`RetainedNeverOver`). Under `Roomy` it is exact at every moment, and with `BasesFit` a
  running query's budget covers the arenas and what is coming to them
  (`RetainedAlwaysExact`, `ArenasAlwaysWithinCap`); without these conditions the code's accounting does
  drift. A sum over the threads is the number of `Units`, a set: facts about
  cardinalities take the place of an induction over the threads.

### 4.4 Explorer

`Inductive` proves `ExplorerInv`, for any files, drafts, crates and events and any number of
messages, error events and throws.

* `IdsInv`: messages are numbered in the order in which they are taken up, so no pipeline
  starts over another; `AnswersOwnJob` needs it.
* `OrderInv`: a pipeline awaits one answer at most, and before it only those that report a warm-up:
  nothing the user asked for overtakes an answer within a pipeline.
* `PhaseInv`: as long as the engine says Loading, Running or Warming, some pipeline still has
  the effect that will end the phase, or its answer.
* `SingleFlight`: until an error event one message is under way. `FreshInv`: then what its
  pipeline runs and hands over is of the latest run, the open file and the selected crate,
  which is why answers without a request number do no harm.
* `ViewInv`: the reply under way shows the state of the engine.

One lemma states what the proofs use of the reducer (`Faithful`: the effects and phases an
event may bring), and is proved event by event; the other lemmas do not open the reducer
again. From the invariant follow `OwnAnswers` and `Truthful`; `TimelineKept` is an action property
over histories of any length.

### 4.5 Pruning and masks

`PrunedNeverMatches` is `PruneSound` for any tables and queries that `PlainChunk` and `PlainQuery`
admit: any number of chunks, rows, filters and tokens. `MaskIsMeaning` is the other half: the mask of
a chunk that is run holds the rows the query matches and no other. `MCPlanResults` asserts that
its tables and queries meet the hypotheses.

* `FilterSound` and `FilterMaskExact` treat one filter: what its minimum, maximum, null count and
  presence bits allow, operator by operator, and which rows its mask keeps.
* A combine program is run by one stack machine over three algebras: possibilities
  (`eval_possible`), sets of rows (`combine_masks`) and the truth of one row (the meaning).
  `RunsAgree`: when the operations of two algebras keep a relation, one program takes related
  filters to related results; where it has a result over the second algebra, it has one over the first. Pruning is the relation
  "what is true of the row is possible, what is false is not certain", masks the relation
  "true of row *i* exactly when *i* is in the set".
* The induction over the tokens is a least counterexample (`Least`, `ByToken`), as the library's
  induction theorems cannot be instantiated here; `RunFrom` shows in the same way that the recursive
  function exists.

### 4.6 Answers

`AnswerExactHolds` is `AnswerExact` for any tables, any number of chunks, rows, workers, filters and
aggregates, on both paths and over the fallback from one to the other at any moment.
Its five parts are theorems of their own: `AnswerRows`, `AnswerAggregates`, `AnswerGroups`,
`AnswerReadable`, `AnswerProjection`. The inductive invariant is `Kept`: on the worker path every chunk has
either no partial or *the* partial of its mask, which no order of the workers changes; on
the local path the plan is the one of the chunks before `next`. TLC finds `Kept` true of the
instance of `results`. From there on the argument is about functions.

* What a plan means. `PlanOf(p, S)` says that plan `p` holds the results of the rows in `S`, `ReducerOf` the
  same of a reducer: aggregates by `AggOf`, rows by `PlanRows` and `MergedRows`, groups by `PlanGroups` and `MergedGroups`.
  A reset plan holds those of no row; a chunk adds the rows of its mask (by `MaskIsMeaning`),
  or none when it is skipped (by `PrunedNeverMatches`); merging a partial adds the partial's rows.
  Every one of these is a fold, and `AllReached` follows a fold step by step.
* Aggregates: rows of different chunks are different, so sums and counts add (`SumDisjoint`); minima
  and maxima are of a union. The empty aggregate, with its minimum above every value, is the
  neutral one, which is why values lie between the infinities.
* Rows: `Keeps` says that a bounded heap holds the first `k` of an order, and `CoversFirst` that the
  first `k` of a union are among the first `k` of each part, so that what
  every chunk drops is never wanted. `WindowIs` cuts once, at the end.
* Groups: `GroupsOf` says that a table lists the keys by their first rows, each once, with the
  aggregates of its rows; chunks come in order in the reducer, so keys that are `Late` go to the end.
  `TablePermuted` and `CopiedKeysSorted` are the order by count of the group table, `HistIdsSorted` those of
  the histogram, `CopyCounted` and `ReadsAll` that as many records are written as are read.
* Projection: `MaterializedIs`; each place of the answer belongs to one chunk, so each is written once.
* Orders are `Sorted`: an element's place is the number of those before it. Uniqueness of that
  place is what the proofs need, and all a sort with a total order promises.

`Answerable` is the hypothesis: every table meets `AnswerableTable`, every query `AnswerableQuery`, and
`MCPlanResults` asserts both of its instance. They ask for chunks within `RowsPerChunk`, values
between the infinities, conditions that `PlainQuery` admits, a combine program that runs (one that does
not makes the code fail, and there is no answer), aggregates and columns that exist, and no ORDER BY columns next
to GROUP BY: `row_order_by` is filled in one place only, for queries without groups, and
with GROUP BY the order is by count (`sql_plan.rs:96-107`). The cases that `AnswerExact` calls "outside"
(section 3.3) are outside the theorem too.

### 4.7 Assumptions

The constants' assumptions are `QueueAssumption` (finitely many, at least one
loop; one loop when there is an early limit, as in `runLocalChunks`), the
lock's (`NoCall` is not a call), `QueryAssumption` (at least one worker, one to four chunks:
longer files are `ChunkQueue`'s business), `PoolAssumption`, `ArenaAssumption` (the lower bounds that
`ThreadArenaState::new` and `for_workers` enforce), `EngineAssumption` and `ExplorerAssumption`
(events are events of the engine). Of tables and their cells:
`DictLenAssumption` (a dictionary of 1 to 64 texts, those whose presence bits fit into the statistics),
`NullAssumption` (NULL is not the id of a text), `RowsAssumption` (a chunk holds at least one row) and
`InfAssumption` (the largest and smallest numbers are numbers, in that order). TLC evaluates them on every run.

### 4.8 Only model-checked

* Liveness (`Settles`, `EveryoneServed`, `EveryQueryAnswered`, `HandlesDrain`, `EveryCallReturns`,
  `EveryRequestEnds`, `JobsSettle`, `EncodingEnds`): TLAPS does not reason about ENABLED here.
* `NativeAnswerExact` and `SqlPlanned` of `NativeResults`, `FileFaithful` of `Encoder`: `SqlParser`,
  `SqlMeaning` and `ColumnScan`, or what extends them, use recursive operators (a recursive descent parser, nested
  conditions, texts), so no theorem can be about them. What the native answer shares with
  `PlanResults`, the chunks' plans and masks, is covered by the lemmas of sections 4.5 and 4.6; its
  partitions and merges (`GroupMerge`) are not.
* No run has a `ChunkQueue` with an early limit: the theorems cover it, and
  `query_liveness` has a limited local scan.

## 5. Not modelled

See "components" in `PROJECT.json` for every part and its reason.

* Input and output, caches and bindings: byte sources, native page cache, schema and
  dictionary caches, Wasm instantiation, configuration, command line. A read is one step
  that may fail wherever it occurs.
* In the query runtime: the `workers: 1` handle that runs in the main thread,
  replacing the pool by one of another size, closing it, the init/ready handshake.
* In execution: GROUP BY over several columns, HyperLogLog, expressions as keys, SIMD
  variants, the hashing inside group tables, byte layouts.
* In the encoder: the file layout, arrow conversions, LZ4.
* In the explorer: presentation, and the generic client of the engine shell, whose
  protocol is the one of the explorer's client.

## 6. Plan

1. Creation and replacement of the pool (`acquireExecutors`, `close`, init and ready),
   with warm-up and query racing for it.
2. The merges of `GroupMerge` against the groups of a set of rows (`GroupsOf`), in a module of its
   own below the recursive ones.
3. Byte sources and page cache, when more of their control is worth a run.
