----------------------------- MODULE Projection -----------------------------
(***************************************************************************)
(* Late materialisation: once the row ids of an answer are final, the cells *)
(* of the SELECTed columns are gathered chunk by chunk into a projection     *)
(* (exec/projection.ts, materializeSelectProjection in exec/chunks.ts,       *)
(* ffi/materialize.rs).  A projected column is a sequence of                 *)
(* [value, present] records, one per row answered.                          *)
(***************************************************************************)
EXTENDS PlanExec

GroupRowIdsByChunk(rows) ==
    [c \in {r \div RowsPerChunk : r \in Range(rows)} |->
       LET dst == Ascending({i \in DOMAIN rows : rows[i] \div RowsPerChunk = c})
       IN  [local |-> [j \in DOMAIN dst |-> rows[dst[j]] % RowsPerChunk], dst |-> dst]]

\* init_row_projection: every cell absent.
InitProjection(select, n) ==
    [j \in DOMAIN select |-> [i \in 1..n |-> [value |-> 0, present |-> FALSE]]]

\* materialize_page_descs: a data page per column, and a null page where the encoder wrote one.
PageDescs(chunk, select) ==
    {<<"data", c>> : c \in Range(select)} \cup {<<"null", c>> : c \in {c \in Range(select) : Null \in Range(chunk[c])}}

\* gather_column: rows beyond the chunk or the answer are left out, without a null page all are present.
GatherColumn(out, column, hasNulls, local, dst) ==
    Fold(LAMBDA o, j :
           IF dst[j] \notin DOMAIN o \/ local[j] >= Len(column) THEN o
           ELSE LET x == column[local[j] + 1]
                    present == ~hasNulls \/ x # Null
                IN  [o EXCEPT ![dst[j]] = [value |-> IF present THEN x ELSE @.value, present |-> present]],
         out, [j \in DOMAIN local |-> j])

\* plan_materialize_chunk_inner.
MaterializeChunk(proj, select, chunk, local, dst) ==
    LET pages == PageDescs(chunk, select)
    IN  [j \in DOMAIN select |->
           GatherColumn(proj[j], chunk[select[j]], <<"null", select[j]>> \in pages, local, dst)]

\* materializeSelectProjection: no projection without a SELECT list or without rows.
Materialize(select, rows, chunks) ==
    LET grouped == GroupRowIdsByChunk(rows)
        Step(proj, c) == MaterializeChunk(proj, select, chunks[c + 1], grouped[c].local, grouped[c].dst)
    IN  IF select = <<>> \/ rows = <<>> THEN <<>>
        ELSE Fold(Step, InitProjection(select, Len(rows)), Ascending(DOMAIN grouped))
=============================================================================
