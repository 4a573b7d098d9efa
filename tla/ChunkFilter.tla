----------------------------- MODULE ChunkFilter -----------------------------
(***************************************************************************)
(* WHERE over one chunk: the statistics the encoder keeps of a page, the    *)
(* decision to skip a chunk by them (plan_required_pages), the pages a      *)
(* chunk needs, and the row mask plan_exec_chunk computes from the pages.   *)
(*                                                                         *)
(* A column is a sequence of values, Null where the validity bitmap is 0.   *)
(* "k" is a dictionary column, its values ids below DictLen; the other      *)
(* columns are numeric.  A mask is the set of its rows.  A filter is        *)
(*   [col, op, value, value2, list, like]                                  *)
(* with list a sequence of literals or NoList, like the dictionary ids that *)
(* contain the LIKE pattern.  A combine program is a sequence of filter     *)
(* indexes (from 0) and the tokens AND, OR and NOT in reverse Polish order. *)
(***************************************************************************)
EXTENDS Integers, Sequences, SequencesExt, FiniteSets, FiniteSetsExt

CONSTANTS Null,        \* the value of a row whose validity bit is clear
          NoList,      \* Filter.in_list = None
          DictLen      \* values in the dictionary of column "k"

ASSUME DictLenAssumption == DictLen \in 1..64
ASSUME NullAssumption == Null \notin 0..(DictLen - 1)

AND == -1
OR  == -2
NOT == -3

IsDict(col) == col = "k"
ValuesOf(column) == Range(column) \ {Null}

\* compute_page_stats and encode_column_page: the index entry of a column of a chunk.
PageStats(col, column) ==
    LET vals == ValuesOf(column)
        num  == ~IsDict(col) /\ vals # {}
    IN  [min |-> IF num THEN Min(vals) ELSE 0, max |-> IF num THEN Max(vals) ELSE 0,
         presence |-> IF IsDict(col) THEN vals ELSE {}, nulls |-> Null \in Range(column)]

Possible(t, f) == [maybeTrue |-> t, maybeFalse |-> f]
Unknown == Possible(TRUE, TRUE)

\* cmp_scalar.
Cmp(x, op, rhs, rhs2) ==
    CASE op = "eq"  -> x = rhs   [] op = "neq" -> x # rhs
      [] op = "lt"  -> x < rhs   [] op = "lte" -> x <= rhs
      [] op = "gt"  -> x > rhs   [] op = "gte" -> x >= rhs
      [] op = "between" -> x >= rhs /\ x <= rhs2
      [] OTHER -> FALSE

Smaller(a, b) == IF a < b THEN a ELSE b
Larger(a, b) == IF a < b THEN b ELSE a

\* Seeded fault: a page with NULLs may still be "always true".
NumericPossible_IgnoresNulls(f, e) ==
    LET always == e.min > f.value
    IN  IF f.op = "gt" THEN Possible(e.max > f.value, ~always) ELSE Unknown

\* numeric_filter_possible.
NumericPossible(f, e) ==
    LET one == e.min = e.max /\ f.value = e.min
        lo  == Smaller(f.value, f.value2)
        hi  == Larger(f.value, f.value2)
        Status(maybe, always) == Possible(maybe, e.nulls \/ ~always)
    IN  IF f.list # NoList
        THEN Status(\E v \in Range(f.list) : e.min <= v /\ v <= e.max,
                    e.min = e.max /\ e.min \in Range(f.list))
        ELSE CASE f.op = "eq"  -> Status(e.min <= f.value /\ f.value <= e.max, one)
               [] f.op = "neq" -> Status(e.nulls \/ ~one, f.value < e.min \/ f.value > e.max)
               [] f.op = "lt"  -> Status(e.min < f.value, e.max < f.value)
               [] f.op = "lte" -> Status(e.min <= f.value, e.max <= f.value)
               [] f.op = "gt"  -> Status(e.max > f.value, e.min > f.value)
               [] f.op = "gte" -> Status(e.max >= f.value, e.min >= f.value)
               [] f.op = "between" -> Status(~(e.max < lo \/ e.min > hi), lo <= e.min /\ e.max <= hi)
               [] OTHER -> Unknown

\* dict_filter_possible, for a dictionary of at most 64 values.
DictPossible(f, e) ==
    LET ids == IF f.list = NoList THEN {f.value} ELSE Range(f.list)
        listed == ids \cap 0..(DictLen - 1)
        Status(maybe, always) == Possible(maybe, e.nulls \/ ~always)
        Among == Status(e.presence \cap listed # {}, e.presence \subseteq listed)
        Apart == Status(e.presence \ listed # {}, e.presence \cap listed = {})
    IN  CASE e.presence = {} -> Possible(FALSE, TRUE)
          [] e.presence # {} /\ f.list # NoList -> Among
          [] e.presence # {} /\ f.list = NoList /\ f.value < 0 -> Possible(FALSE, TRUE)
          [] e.presence # {} /\ f.list = NoList /\ f.value >= DictLen ->
               Status(f.op = "neq", f.op = "neq")
          [] OTHER -> IF f.op = "eq" THEN Among ELSE IF f.op = "neq" THEN Apart ELSE Unknown

\* filter_possible.
FilterPossible(f, e) ==
    IF f.op \in {"like", "notlike"} THEN Unknown
    ELSE IF IsDict(f.col) THEN DictPossible(f, e) ELSE NumericPossible(f, e)

\* The stack machine eval_possible and combine_masks both are, over the values of an algebra:
\* a token is a filter, its value leaf[token + 1], or an operation on the top of the stack.  A
\* program that underflows, names no filter or leaves more than one value has no result.
NoResult == <<>>
Machine(ok, s) == [ok |-> ok, s |-> s]
PushValue(s, pops, v) == Machine(TRUE, Append(SubSeq(s, 1, Len(s) - pops), v))
StepProgram(m, t, leaf, algebra) ==
    LET top == m.s[Len(m.s)]
        under == m.s[Len(m.s) - 1]
    IN  CASE m.ok /\ t \in 0..(Len(leaf) - 1) -> PushValue(m.s, 0, leaf[t + 1])
          [] m.ok /\ t = NOT /\ Len(m.s) >= 1 -> PushValue(m.s, 1, algebra.not[top])
          [] m.ok /\ t = AND /\ Len(m.s) >= 2 -> PushValue(m.s, 2, algebra.and[<<under, top>>])
          [] m.ok /\ t = OR /\ Len(m.s) >= 2 -> PushValue(m.s, 2, algebra.or[<<under, top>>])
          [] OTHER -> Machine(FALSE, m.s)
ProgramRun(tokens, leaf, algebra) ==
    LET run[k \in 0..Len(tokens)] ==
            IF k = 0 THEN Machine(TRUE, <<>>) ELSE StepProgram(run[k - 1], tokens[k], leaf, algebra)
    IN  run
RunProgram(tokens, leaf, algebra) ==
    LET end == ProgramRun(tokens, leaf, algebra)[Len(tokens)]
    IN  IF end.ok /\ Len(end.s) = 1 THEN end.s ELSE NoResult

\* eval_possible.
Possibilities == [maybeTrue : BOOLEAN, maybeFalse : BOOLEAN]
PossibleAlgebra ==
    [not |-> [a \in Possibilities |-> Possible(a.maybeFalse, a.maybeTrue)],
     and |-> [p \in Possibilities \X Possibilities |->
                Possible(p[1].maybeTrue /\ p[2].maybeTrue, p[1].maybeFalse \/ p[2].maybeFalse)],
     or  |-> [p \in Possibilities \X Possibilities |->
                Possible(p[1].maybeTrue \/ p[2].maybeTrue, p[1].maybeFalse /\ p[2].maybeFalse)]]
EvalPossible(tokens, st) == RunProgram(tokens, st, PossibleAlgebra)

\* plan_required_pages, its first half: the chunk cannot hold a matching row.
Pruned(filters, combine, chunk) ==
    LET st == [i \in DOMAIN filters |->
                 FilterPossible(filters[i], PageStats(filters[i].col, chunk[filters[i].col]))]
        r  == EvalPossible(combine, st)
    IN  /\ filters # <<>>
        /\ IF combine = <<>> THEN \E i \in DOMAIN st : ~st[i].maybeTrue
           ELSE r # NoResult /\ ~r[1].maybeTrue

\* build_single_mask: the rows whose stored value compares; what is stored under a NULL is 0.
SingleMask(column, op, rhs, rhs2) ==
    {i \in DOMAIN column : Cmp(IF column[i] = Null THEN 0 ELSE column[i], op, rhs, rhs2)}

\* build_like_mask_ids.
LikeMask(column, like, negated) ==
    {i \in DOMAIN column : (IF column[i] = Null THEN 0 ELSE column[i]) \in like <=> ~negated}

\* build_filter_mask: LIKE, IN as a union of equalities, or one comparison.
FilterMask(column, f) ==
    CASE f.op \in {"like", "notlike"} -> LikeMask(column, f.like, f.op = "notlike")
      [] f.op \notin {"like", "notlike"} /\ f.list # NoList ->
           UNION {SingleMask(column, f.op, v, v) : v \in Range(f.list)}
      [] OTHER -> SingleMask(column, f.op, f.value, f.value2)

\* maybe_apply_validity_mask: a NULL row is in no mask of a filter on its column.
ApplyValidity(column, mask) == {i \in mask : column[i] # Null}

\* combine_masks.
MaskAlgebra(rows) ==
    [not |-> [a \in SUBSET rows |-> rows \ a],
     and |-> [p \in (SUBSET rows) \X (SUBSET rows) |-> p[1] \cap p[2]],
     or  |-> [p \in (SUBSET rows) \X (SUBSET rows) |-> p[1] \cup p[2]]]
CombineMasks(tokens, masks, rows) == RunProgram(tokens, masks, MaskAlgebra(rows))

\* The filters of plan_exec_chunk: one mask each, then their combination; "error" is its -9.
ChunkMask(filters, combine, chunk) ==
    LET rows == DOMAIN chunk["k"]
        masks == [i \in DOMAIN filters |->
                    ApplyValidity(chunk[filters[i].col], FilterMask(chunk[filters[i].col], filters[i]))]
        r == CombineMasks(combine, masks, rows)
    IN  CASE masks = <<>> -> <<rows>>
          [] masks # <<>> /\ combine = <<>> -> <<{i \in rows : \A j \in DOMAIN masks : i \in masks[j]}>>
          [] OTHER -> r
=============================================================================
