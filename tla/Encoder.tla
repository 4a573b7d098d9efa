------------------------------- MODULE Encoder -------------------------------
(***************************************************************************)
(* wcol-encoder: from a Parquet or SAV file to the chunks of WCOL files.    *)
(*                                                                         *)
(* encode_chunks_streamed_row_groups reads the row groups in tasks of the   *)
(* rayon pool, each with a file handle of its own; the body of the scope,   *)
(* on a thread of the same pool, receives them over a bounded channel in    *)
(* whatever order they are read, and appends them in the order of the file. *)
(* With --split-row-groups the file is written in parts, one after the      *)
(* other, all with the column specifications of the one scan.               *)
(*                                                                         *)
(* A job is [route, cols, texts, groups, split, threads, small].  A group   *)
(* is a sequence of rows, a row a sequence of cells, one for each column.   *)
(* A SAV file is one group, whose text cells are positions in texts[c].     *)
(***************************************************************************)
EXTENDS ColumnPages

CONSTANTS
  Jobs,         \* the conversions considered
  MaxInflight,  \* the capacity of the channel: 2 * threads
  Patterns      \* LIKE patterns the pages are read with

VARIABLES
  job,
  stage,      \* "scan", "stream" or "ended"
  specs,      \* the finalised ColumnSpecs
  from,       \* the row groups written in parts before this one: start
  task,       \* task[i], for row group i of the part: "queued"; "read" or "failed", when its thread
              \* holds the result; "sent" or "lost", when it was sent
  chan,       \* the channel: <<index, ok>>
  received,   \* how many messages the body has received
  pending,    \* row groups received and not yet appended
  nextIdx,    \* next_idx: the row group to append next
  writer,     \* [buffers, rows, out, err]: buffers, rows_in_chunk, out and stream_err
  files,      \* the files written
  outcome     \* None, "ok", "error" or "panic"

vars == <<job, stage, specs, from, task, chan, received, pending, nextIdx, writer, files, outcome>>
streamVars == <<task, chan, received, pending, nextIdx>>

Columns == DOMAIN job.cols
Column(c, rows) == [r \in DOMAIN rows |-> rows[r][c]]
AllRows == FlattenSeq(job.groups)

EmptyWriter(of) == [buffers |-> [c \in DOMAIN of |-> NewBuffer], rows |-> 0, out |-> <<>>, err |-> None]

NoTasks == task = <<>> /\ chan = <<>> /\ received = 0 /\ pending = {} /\ nextIdx = 1

Init ==
  /\ job \in Jobs
  /\ stage = "scan" /\ specs = <<>> /\ from = 0 /\ NoTasks
  /\ writer = EmptyWriter(<<>>) /\ files = <<>> /\ outcome = None

-----------------------------------------------------------------------------
\* finalize_chunk: a page for each column, and every buffer is reset.
FinalizeChunk(w) ==
  IF \E c \in Columns : OutOfRange(specs[c], w.buffers[c]) THEN [w EXCEPT !.err = "error"]
  ELSE [w EXCEPT !.out = Append(@, [c \in Columns |-> Page(specs[c], w.buffers[c], job.small)]),
                 !.buffers = [c \in Columns |-> Reset(@[c])], !.rows = 0]

\* append_array_slice and append_sav_column for a row.
WithRow(w, row) ==
  [w EXCEPT !.rows = @ + 1,
            !.buffers = [c \in Columns |->
              IF job.route = "sav" THEN AppendSavCell(specs[c], job.texts[c], @[c], row[c])
              ELSE AppendCell(specs[c], @[c], row[c])]]

\* A position beyond the texts of a column; scan_sav_columns looks for it in a dictionary.
Beyond(c, v) == job.cols[c].kind = "String" /\ v # Null /\ v > Len(job.texts[c])

\* What stops an append: a text without an id, a SAV position beyond the texts.
BadCell(c, v) ==
  IF job.route = "parquet" THEN HasNoId(specs[c], v) ELSE Beyond(c, v)

\* append_chunk and encode_sav_chunks: a chunk is finalised as soon as it is full.
AppendRow(w, row) ==
  IF w.err # None THEN w
  ELSE IF \E c \in Columns : BadCell(c, row[c])
    THEN [w EXCEPT !.err = IF job.route = "sav" THEN "error" ELSE "panic"]
  ELSE IF w.rows + 1 = RowsPerChunk THEN FinalizeChunk(WithRow(w, row)) ELSE WithRow(w, row)

AppendChunk(w, rows) == FoldLeft(AppendRow, w, rows)

\* The rest of the rows becomes a last chunk, unless something failed before.
Flushed(w) == IF w.err = None /\ w.rows > 0 THEN FinalizeChunk(w) ELSE w

-----------------------------------------------------------------------------
\* The tasks of a part are spawned and its body begins.
StartPart(start) ==
  LET total == IF job.split = 0 THEN Len(job.groups) ELSE Min({job.split, Len(job.groups) - start})
  IN  /\ from' = start
      /\ task' = [i \in 1..total |-> "queued"]
      /\ chan' = <<>> /\ received' = 0 /\ pending' = {} /\ nextIdx' = 1

Ends(how) == stage' = "ended" /\ outcome' = how

\* init_columns, scan_columns and finalize_columns.
ScanParquet ==
  /\ stage = "scan" /\ job.route = "parquet"
  /\ specs' = [c \in Columns |-> ScanColumn(job.cols[c], Column(c, AllRows))]
  /\ stage' = "stream" /\ writer' = EmptyWriter(job.cols) /\ StartPart(0)
  /\ UNCHANGED <<job, files, outcome>>

\* scan_columns cannot read the file.
ScanFails ==
  /\ stage = "scan" /\ job.route = "parquet"
  /\ Ends("error")
  /\ UNCHANGED <<job, specs, from, streamVars, writer, files>>

\* init_sav_columns, scan_sav_columns and finalize_columns.
ScanSav ==
  /\ stage = "scan" /\ job.route = "sav"
  /\ LET of  == [c \in Columns |-> ScanSavColumn(job.cols[c], job.texts[c], Column(c, AllRows))]
         bad == \E c \in Columns : of[c].dict # None /\ \E v \in Range(Column(c, AllRows)) : Beyond(c, v)
     IN  IF bad THEN Ends("error") /\ UNCHANGED <<specs, writer>>
         ELSE specs' = of /\ stage' = "stream" /\ writer' = EmptyWriter(job.cols) /\ UNCHANGED outcome
  /\ UNCHANGED <<job, from, streamVars, files>>

\* encode_sav_chunks, on one thread.
EncodeSav ==
  /\ stage = "stream" /\ job.route = "sav"
  /\ writer' = Flushed(AppendChunk(writer, AllRows))
  /\ IF writer'.err = None THEN files' = <<writer'.out>> /\ Ends("ok")
     ELSE files' = files /\ Ends(writer'.err)
  /\ UNCHANGED <<job, specs, from, streamVars>>

\* The body of the scope has a thread of the pool, and so has a task until it has sent.
FreeThreads == job.threads - 1 - Cardinality({i \in DOMAIN task : task[i] \in {"read", "failed"}})

\* A thread of the pool opens the file and reads the row group of a task.
Read(i) ==
  /\ task[i] = "queued" /\ FreeThreads > 0
  /\ \E result \in {"read", "failed"} : task' = [task EXCEPT ![i] = result]
  /\ UNCHANGED <<job, stage, specs, from, chan, received, pending, nextIdx, writer, files, outcome>>

\* tx.send: it waits while the channel is full, and fails at once when the receiver is gone.
Send(i) ==
  /\ task[i] \in {"read", "failed"}
  /\ \/ stage = "stream" /\ Len(chan) < MaxInflight /\ chan' = Append(chan, <<i, task[i] = "read">>)
     \/ stage = "ended" /\ UNCHANGED chan
  /\ task' = [task EXCEPT ![i] = IF @ = "read" THEN "sent" ELSE "lost"]
  /\ UNCHANGED <<job, stage, specs, from, received, pending, nextIdx, writer, files, outcome>>

\* Seeded fault: what has arrived is appended, whatever is still missing before it.
InOrder_AsArrived(held, first) == SetToSortSeq(held, <)

\* while let Some(chunk) = pending.remove(&next_idx): the row groups at hand without a gap.
InOrder(held, first) ==
  SetToSortSeq({i \in held : i >= first /\ first..i \subseteq held}, <)

\* Seeded fault: the columns are appended in tasks of the pool that the body waits for.
CanAppend_InTasks == FreeThreads > 0

\* par_iter in append_chunk runs on the thread of the body when no other is free.
CanAppend == TRUE

\* rx.recv, and the row groups that can now be appended.  A row group that could not be read is
\* remembered as stream_err, and nothing is appended after it.
Receive ==
  /\ stage = "stream" /\ chan # <<>> /\ CanAppend
  /\ LET i    == Head(chan)[1]
         w    == IF Head(chan)[2] THEN writer ELSE [writer EXCEPT !.err = "error"]
         held == IF Head(chan)[2] THEN pending \cup {i} ELSE pending
         go   == IF w.err = None THEN InOrder(held, nextIdx) ELSE <<>>
         step(acc, k) == AppendChunk(acc, job.groups[from + k])
     IN  /\ pending' = held \ Range(go) /\ nextIdx' = nextIdx + Len(go)
         /\ writer' = FoldLeft(step, w, go)
         /\ IF writer'.err = "panic" THEN Ends("panic") ELSE UNCHANGED <<stage, outcome>>
  /\ chan' = Tail(chan) /\ received' = received + 1
  /\ UNCHANGED <<job, specs, from, task, files>>

\* Every row group of the part was received: the last chunk, write_wcol, and the next part.
FinishPart ==
  /\ stage = "stream" /\ job.route = "parquet" /\ received = Len(task)
  /\ \E w \in {Flushed(writer)} :
       IF w.err # None
         THEN Ends(w.err) /\ writer' = w /\ UNCHANGED <<from, streamVars, files>>
       ELSE IF from + Len(task) < Len(job.groups)
         THEN /\ files' = Append(files, w.out)
              /\ writer' = EmptyWriter(job.cols) /\ StartPart(from + Len(task))
              /\ UNCHANGED <<stage, outcome>>
       ELSE files' = Append(files, w.out) /\ writer' = w /\ Ends("ok") /\ UNCHANGED <<from, streamVars>>
  /\ UNCHANGED <<job, specs>>

Tasks == DOMAIN task

Next ==
  \/ ScanParquet \/ ScanFails \/ ScanSav \/ EncodeSav
  \/ \E i \in Tasks : Read(i) \/ Send(i)
  \/ Receive \/ FinishPart

\* What a thread that can go on moves: the body in its scan, in encode_sav_chunks, with a message
\* and at the end of a part.  (Each is the step of the action it names, without its data.)
BodyScans    == stage = "scan" /\ stage' \in {"stream", "ended"}
BodyEncodes  == stage = "stream" /\ job.route = "sav" /\ stage' = "ended"
BodyReceives == stage = "stream" /\ chan # <<>> /\ CanAppend /\ received' = received + 1
BodyFinishes ==
  /\ stage = "stream" /\ job.route = "parquet" /\ received = Len(task)
  /\ \/ from' = from + Len(task) /\ stage' = stage
     \/ from' = from /\ stage' = "ended"

\* Every thread that can go on does, and a free thread of the pool takes a task that waits.
Fairness ==
  /\ WF_stage(BodyScans) /\ WF_stage(BodyEncodes)
  /\ WF_received(BodyReceives) /\ WF_<<from, stage>>(BodyFinishes)
  /\ WF_vars(\E i \in Tasks : Read(i)) /\ WF_vars(\E i \in Tasks : Send(i))

Spec == Init /\ [][Next]_vars /\ Fairness

-----------------------------------------------------------------------------
(* PROPERTIES                                                              *)

Text(c, v) == IF job.route = "sav" /\ v # Null /\ job.cols[c].kind = "String" THEN job.texts[c][v] ELSE v

\* The rows a file is to hold.
RowsOf(k) ==
  IF job.split = 0 THEN AllRows
  ELSE FlattenSeq(SubSeq(job.groups, (k - 1) * job.split + 1, Min({k * job.split, Len(job.groups)})))

\* The cells of a column the decoder finds in a file.
ReadBack(file, c) ==
  LET step(acc, pages) == LET read == Cells(specs[c], pages[c], acc.dict)
                          IN  [dict |-> read.dict, cells |-> acc.cells \o read.cells]
      none == [dict |-> IF specs[c].dict = None THEN <<>> ELSE specs[c].dict, cells |-> <<>>]
  IN  FoldLeft(step, none, file).cells

\* What may become of a value: a text beyond a full large dictionary is OTHER, an integer column
\* with a value beyond i64 keeps what an f64 keeps, a float may be off by SCALE_EPS / scale.
Kept(c, v, got) ==
  LET spec == specs[c]
      diff == IF got > v THEN got - v ELSE v - got
  IN  CASE v \in {Null, NaN} \/ got \in {Null, NaN} -> got = v
        [] job.cols[c].kind = "String" /\ {v, got} \cap {Null, NaN} = {} ->
             \/ got = v
             \/ got = Other /\ job.cols[c].large /\ v \notin Range(spec.dict) /\ Len(spec.dict) > LargeDict
        [] job.cols[c].kind = "Float" /\ {v, got} \cap {Null, NaN} = {} ->
             IF spec.scale = 0 THEN got = v ELSE diff * spec.scale <= Eps
        [] job.cols[c].kind = "UInt" /\ {v, got} \cap {Null, NaN} = {} ->
             got = IF spec.type = "F64" THEN AsF64(v) ELSE v
        [] job.cols[c].kind \in {"Int", "Boolean"} /\ {v, got} \cap {Null, NaN} = {} -> got = v

RowsKept(k) ==
  \A c \in Columns :
    LET want == Column(c, RowsOf(k))
        got  == ReadBack(files[k], c)
    IN  Len(got) = Len(want) /\ \A r \in DOMAIN want : Kept(c, Text(c, want[r]), got[r])

\* Every chunk but the last is full, and none is empty.
ChunksFull(k) ==
  \A n \in DOMAIN files[k] : \A c \in Columns :
    LET rows == files[k][n][c].rows IN IF n < Len(files[k]) THEN rows = RowsPerChunk ELSE rows \in 1..RowsPerChunk

Holds(text, pattern) == \E i \in 0 .. Len(text) - Len(pattern) : SubSeq(text, i + 1, i + Len(pattern)) = pattern

\* A page of raw text says which rows hold "" and which hold another text, and LIKE on it is a search in every text.
TextsFound(k) ==
  \A n \in DOMAIN files[k] : \A c \in {d \in Columns : specs[d].type = "STRING"} :
    LET page == files[k][n][c]
        rows == 0 .. page.rows - 1
        read == Cells(specs[c], page, <<>>).cells
        text(r) == IF read[r + 1] = Null THEN <<>> ELSE read[r + 1]
    IN  /\ EmptyMask(page, FALSE) = {r \in rows : read[r + 1] = <<>>}
        /\ EmptyMask(page, TRUE) = {r \in rows : read[r + 1] \notin {<<>>, Null}}
        /\ \A p \in Patterns : \A neg \in BOOLEAN :
             RawLikeMask(page.data, p, neg) = {r \in rows : Holds(text(r), p) # neg}

\* A conversion succeeds when every row group of it was read, and only then; a panic is the
\* reserved text in a dictionary without a bucket, and nothing else.
OutcomeRight ==
  /\ outcome = "ok" => /\ \A i \in Tasks : task[i] = "sent"
                       /\ FlattenSeq([k \in DOMAIN files |-> RowsOf(k)]) = AllRows
  /\ outcome = "error" =>
       IF job.route = "sav" THEN \E c \in Columns : \E v \in Range(Column(c, AllRows)) : Beyond(c, v)
       ELSE specs = <<>> \/ \E i \in Tasks : task[i] = "lost"
  /\ outcome = "panic" => \E c \in Columns : Other \in Range(Column(c, AllRows))

\* What the decoder reads from the files is what was in the rows, in their order, however the
\* readers of the row groups were scheduled and whichever encoding of a page LZ4 preferred:
\* encode_chunks_streamed_row_groups, append_array_slice, encode_column_page and the decoder's
\* decode_physical_column and decode_raw_string_like_mask.
FileFaithful ==
  /\ \A k \in DOMAIN files : RowsKept(k) /\ ChunksFull(k) /\ TextsFound(k)
  /\ OutcomeRight

\* With two threads or more a conversion ends, and no reader is left behind: the body never waits
\* for a row group that nobody can read, and no reader for room that nobody makes.
EncodingEnds == (job.threads > 1) ~> (stage = "ended" /\ \A i \in Tasks : task[i] \in {"sent", "lost"})
=============================================================================
