----------------------------- MODULE ColumnPages -----------------------------
(***************************************************************************)
(* The pages of a column: the buffer a chunk is collected in (append.rs),   *)
(* the page it becomes (encode_column_page), and what the decoder reads     *)
(* from the page: its values, and for a page of raw text the rows that      *)
(* contain a LIKE pattern.                                                  *)
(*                                                                         *)
(* A bitmap is the set of its rows, counted from 0; a page of numbers is a  *)
(* sequence, a text a sequence of bytes.  LZ4 and the byte layout are left  *)
(* out; which of several payloads LZ4 makes the smallest is a parameter.    *)
(***************************************************************************)
EXTENDS ColumnScan

CONSTANTS
  RowsPerChunk,  \* ROWS_PER_CHUNK
  Delimiters,    \* bytes that end a segment in build_token_dict
  TokenLens,     \* the lengths of a token: 3..8
  MaxTokens,     \* 128, also the first byte of a literal run
  MaxRun,        \* the longest literal run: 127
  Sampled        \* how many values build_token_dict looks at: 200

ASSUME PagesAssumption ==
  /\ RowsPerChunk > 0 /\ MaxTokens > 0 /\ MaxRun > 0 /\ Sampled > 0
  /\ TokenLens # {} /\ \A n \in TokenLens : n > 0

-----------------------------------------------------------------------------
(* BUFFERS                                                                 *)

\* ColumnBuffer::new.
NewBuffer ==
  [values |-> <<>>, nulls |-> {}, hasNulls |-> FALSE, nullCount |-> 0,
   empties |-> {}, emptyCount |-> 0]

\* ColumnBuffer::reset.
Reset(buf) == NewBuffer

\* The value a row of the buffer gets: its dictionary id, its scaled value, or the value itself.
Stored(spec, v) ==
  CASE spec.kind = "String" /\ spec.dict # None ->
         LET id == IdOf(spec.dict, v) IN IF id = None THEN spec.other ELSE id
    [] spec.kind = "Float" /\ spec.scale # 0 -> Scaled(v, spec.scale)
    [] spec.source \in {"Int", "UInt"} /\ spec.kind = "Float" -> AsF64(v)
    [] OTHER -> v

\* What is stored under a NULL.
Filler(spec) ==
  CASE spec.kind = "Boolean" -> FALSE
    [] spec.kind = "String" /\ spec.dict = None -> <<>>
    [] OTHER -> 0

\* The next row of a buffer: mark_null, or set_bit on the bitmap of the rows that hold a value.
AppendNull(spec, buf) ==
  [buf EXCEPT !.values = Append(@, Filler(spec)), !.hasNulls = TRUE, !.nullCount = @ + 1]
AppendValid(buf, value) ==
  [buf EXCEPT !.values = Append(@, value), !.nulls = @ \cup {Len(buf.values)}]

\* append_string_slice: an empty text is marked in a bitmap of its own, and counted (mark_empty).
AppendText(spec, buf, v) ==
  [AppendValid(buf, Stored(spec, v)) EXCEPT
     !.empties = IF v = <<>> THEN @ \cup {Len(buf.values)} ELSE @,
     !.emptyCount = IF v = <<>> THEN @ + 1 ELSE @]

\* append_array_slice, one value of it; a number goes through Stored (append_numeric_slice).
AppendCell(spec, buf, v) ==
  IF v = Null THEN AppendNull(spec, buf)
  ELSE IF spec.kind = "String" THEN AppendText(spec, buf, v) ELSE AppendValid(buf, Stored(spec, v))

\* dict_id_for_value panics: the text has no id and the dictionary no bucket for the rest.
HasNoId(spec, v) ==
  spec.kind = "String" /\ spec.dict # None /\ v # Null /\ IdOf(spec.dict, v) = None /\ spec.other = None

\* append_sav_column: a cell is the position of its text.  Only a column without a dictionary
\* marks its empty texts.
AppendSavCell(spec, texts, buf, v) ==
  IF v # Null /\ spec.kind = "String" /\ spec.dict # None THEN AppendValid(buf, v - 1)
  ELSE AppendCell(spec, buf, IF v # Null /\ spec.kind = "String" THEN texts[v] ELSE v)

-----------------------------------------------------------------------------
(* NUMBERS                                                                 *)

\* "v as t" for an integer in a buffer of integers, or of floats that saturate.
AsType(kind, v, t) ==
  LET R == TypeRange(t) IN
  IF kind = "Float" THEN (IF v > Max(R) THEN Max(R) ELSE IF v < Min(R) THEN Min(R) ELSE v)
  ELSE Min(R) + ((v - Min(R)) % Cardinality(R))

\* encode_u8 and its like; a float page keeps what is not finite.
RawPage(spec, buf) ==
  [i \in DOMAIN buf.values |->
     CASE spec.type = "F64" -> buf.values[i]
       [] spec.type = "F32" -> AsF32(buf.values[i])
       [] spec.type \notin {"F32", "F64"} -> AsType(spec.kind, buf.values[i], spec.type)]

\* bit_width_for_len.
BitWidth(len) == IF len <= 1 THEN 0 ELSE Min({w \in 1..len : 2 ^ w >= len})

\* encode_bitpacked_ids: bit i of the page is set; the ids one after the other, low bits first.
Packed(ids, width) ==
  {i \in 0 .. Len(ids) * width - 1 : (ids[(i \div width) + 1] \div 2 ^ (i % width)) % 2 = 1}

\* decode_bitpacked_ids.
Unpacked(bits, width, rows) ==
  [r \in 1..rows |-> FoldLeft(LAMBDA sum, b : sum + (IF (r - 1) * width + b - 1 \in bits
                                                       THEN 2 ^ (b - 1) ELSE 0),
                              0, [b \in 1..width |-> b])]

\* The numbers encode_numeric_dict makes the dictionary of: 0 for a NULL.
DictInput(buf) ==
  [i \in DOMAIN buf.values |-> IF (i - 1) \in buf.nulls THEN buf.values[i] ELSE 0]

FirstSeen(values) ==
  FoldLeft(LAMBDA seen, v : IF v \in Range(seen) THEN seen ELSE Append(seen, v), <<>>, values)

\* encode_numeric_dict fails: a value does not fit the type of the column.
OutOfRange(spec, buf) ==
  spec.numDict /\ \E v \in Range(DictInput(buf)) : v \notin TypeRange(spec.type)

\* encode_numeric_dict: mode 0 keeps the numbers, 1 a dictionary and ids, 2 packs the ids.
NumericPage(spec, buf, mode) ==
  LET dict == FirstSeen(DictInput(buf))
      ids  == [i \in DOMAIN buf.values |-> IdOf(dict, DictInput(buf)[i])]
      w    == BitWidth(Len(dict))
  IN  CASE mode = 0 -> [mode |-> 0, raw |-> RawPage(spec, buf)]
        [] mode = 1 -> [mode |-> 1, dict |-> dict, ids |-> ids]
        [] mode = 2 -> [mode |-> 2, dict |-> dict, width |-> w, bits |-> Packed(ids, w)]

\* ensure_decoded for an encoded number column: decode_numeric_raw, _dict, _bitpacked.
DecodeNumeric(data, rows) ==
  LET gather(ids) == [r \in 1..rows |-> data.dict[ids[r] + 1]]
  IN  CASE data.mode = 0 -> data.raw
        [] data.mode = 1 -> gather(data.ids)
        [] data.mode = 2 -> gather(Unpacked(data.bits, data.width, rows))

-----------------------------------------------------------------------------
(* TEXT                                                                    *)

\* The order of byte strings.
Before(a, b) ==
  \/ Len(a) < Len(b) /\ IsPrefix(a, b)
  \/ \E i \in 1..Len(a) : i <= Len(b) /\ a[i] < b[i] /\ SubSeq(a, 1, i - 1) = SubSeq(b, 1, i - 1)

\* common_prefix_len.
CommonLen(a, b) ==
  Max({n \in 0..Len(a) : n <= Len(b) /\ SubSeq(a, 1, n) = SubSeq(b, 1, n)})

\* count_segment over the segments of a value: its tokens, one for each place it starts at.
TokensOf(value) ==
  {p \in (DOMAIN value) \X TokenLens :
     p[1] + p[2] - 1 <= Len(value) /\ \A k \in p[1] .. p[1] + p[2] - 1 : value[k] \notin Delimiters}

First(n, s) == SubSeq(s, 1, Min({n, Len(s)}))

\* The values build_token_dict looks at: the longest ones.
Longest(uniques) ==
  LET longer(i, j) == \/ Len(uniques[i]) > Len(uniques[j])
                      \/ Len(uniques[i]) = Len(uniques[j]) /\ i < j
  IN  First(Sampled, SortSeq([i \in DOMAIN uniques |-> i], longer))

\* Where tokens occur: <<value, place, token>>.
Occurrences(uniques, values) ==
  UNION {{<<u, p[1], SubSeq(uniques[u], p[1], p[1] + p[2] - 1)>> : p \in TokensOf(uniques[u])} : u \in values}

\* What a token saves in all.
Savings(occurrences) ==
  [t \in {x[3] : x \in occurrences} |-> Cardinality({x \in occurrences : x[3] = t}) * (Len(t) - 1)]

\* The tokens, those that save most first.
Ranked(saves) ==
  LET better(a, b) == \/ saves[a] > saves[b]
                      \/ saves[a] = saves[b] /\ Len(a) > Len(b)
                      \/ saves[a] = saves[b] /\ Len(a) = Len(b) /\ Before(b, a)
  IN  SetToSortSeq(DOMAIN saves, better)

\* build_token_dict.
TokenDict(uniques) ==
  First(MaxTokens, Ranked(Savings(Occurrences(uniques, Range(Longest(uniques))))))

\* The token the stream encoder uses at place i of the blob: the longest, or None.
TokenAt(blob, i, tokens) ==
  LET fits == {t \in DOMAIN tokens : i + Len(tokens[t]) - 1 <= Len(blob)
                                     /\ SubSeq(blob, i, i + Len(tokens[t]) - 1) = tokens[t]}
  IN  IF fits = {} THEN None
      ELSE CHOOSE t \in fits : \A u \in fits : Len(tokens[u]) <= Len(tokens[t])

\* encode_token_stream: a byte below MaxTokens is a token, one from MaxTokens on the length of
\* the run of literals that follows.
EncodeTokens(blob, tokens) ==
  LET f[i \in 1 .. Len(blob) + 1] ==
        IF i > Len(blob) THEN <<>>
        ELSE LET t   == TokenAt(blob, i, tokens)
                 run == Max({n \in 1..MaxRun : /\ i + n - 1 <= Len(blob)
                                               /\ \A k \in i .. i + n - 1 :
                                                    TokenAt(blob, k, tokens) = None})
             IN  IF t # None THEN <<t - 1>> \o f[i + Len(tokens[t])]
                 ELSE <<MaxTokens + run>> \o SubSeq(blob, i, i + run - 1) \o f[i + run]
  IN  f[1]

\* decode_full_token_stream.
DecodeTokens(data, tokens) ==
  LET f[i \in 1 .. Len(data) + 1] ==
        IF i > Len(data) THEN <<>>
        ELSE IF data[i] < MaxTokens THEN tokens[data[i] + 1] \o f[i + 1]
        ELSE LET run == data[i] - MaxTokens
             IN  SubSeq(data, i + 1, i + run) \o f[i + 1 + run]
  IN  f[1]

\* build_block_option_a_v1: where each row points among the sorted texts, and each text as the
\* length it shares with the one before it and the length of its suffix.
Block(values, uniques, lcps) ==
  [indices |-> [r \in DOMAIN values |-> IdOf(uniques, values[r])],
   lcps    |-> lcps,
   lens    |-> [i \in DOMAIN uniques |-> Len(uniques[i]) - lcps[i]],
   tokens  |-> <<>>,
   blob    |-> FlattenSeq([i \in DOMAIN uniques |-> SubSeq(uniques[i], lcps[i] + 1, Len(uniques[i]))])]

\* build_block_option_a_v2: the block with its suffixes in tokens, when that is shorter.
TokenBlock(block, tokens) ==
  LET use(encoded) == IF tokens = <<>> \/ Len(encoded) >= Len(block.blob) THEN block
                      ELSE [block EXCEPT !.tokens = tokens, !.blob = encoded]
  IN  use(EncodeTokens(block.blob, tokens))

\* encode_string: the tokens are used when that makes the block shorter, their dictionary
\* included, which "short" stands for.
StringPage(buf, short) ==
  LET shared(uniques) == [i \in DOMAIN uniques |-> IF i = 1 THEN 0 ELSE CommonLen(uniques[i - 1], uniques[i])]
      block(uniques)  == TokenBlock(Block(buf.values, uniques, shared(uniques)),
                                    IF short THEN TokenDict(uniques) ELSE <<>>)
  IN  block(SetToSortSeq(Range(buf.values), Before))

\* decode_string_preamble: the suffixes of the texts, one after the other.
SuffixBlob(page) == IF page.tokens = <<>> THEN page.blob ELSE DecodeTokens(page.blob, page.tokens)

SuffixAt(page, idx) ==
  LET from == FoldLeft(LAMBDA sum, n : sum + n, 0, SubSeq(page.lens, 1, idx - 1))
  IN  SubSeq(SuffixBlob(page), from + 1, from + page.lens[idx])

\* reconstruct_unique_values.
Uniques(page) ==
  LET f[i \in DOMAIN page.lcps] ==
        (IF i = 1 THEN <<>> ELSE SubSeq(f[i - 1], 1, page.lcps[i])) \o SuffixAt(page, i)
  IN  f

\* decode_raw_string_ids: the rows as ids of the dictionary the runtime keeps for the column,
\* which grows from page to page.
DecodeStrings(page, dict) ==
  LET grown == FirstSeen(dict \o Uniques(page))
  IN  [dict |-> grown,
       ids  |-> [r \in DOMAIN page.indices |-> IdOf(grown, Uniques(page)[page.indices[r] + 1])]]

\* find_subslice: where the pattern begins (from 0), or None.
Find(text, pattern) ==
  LET at == {i \in 0 .. Len(text) - Len(pattern) : SubSeq(text, i + 1, i + Len(pattern)) = pattern}
  IN  IF at = {} THEN None ELSE Min(at)

\* row_contains_pattern: the least length of a prefix of this text that holds the pattern, or
\* None; prev is the text before it and before the same of that text.
RowContains(prev, lcp, suffix, pattern, before) ==
  LET m     == Len(pattern)
      start == IF lcp < m - 1 THEN 0 ELSE lcp - (m - 1)
      head  == SubSeq(suffix, 1, Min({m - 1, Len(suffix)}))
      edge  == Find(SubSeq(prev, start + 1, lcp) \o head, pattern)
      tail  == Find(suffix, pattern)
  IN  IF before # None /\ lcp >= before THEN before
      ELSE IF m > lcp + Len(suffix) THEN None
      ELSE IF m > 1 /\ edge # None THEN start + edge + m
      ELSE IF tail # None THEN lcp + tail + m ELSE None

\* decode_raw_string_like_mask: the rows whose text holds the pattern, or does not when negated.
RawLikeMask(page, pattern, negated) ==
  LET all  == 0 .. Len(page.indices) - 1
      text == Uniques(page)
      f[i \in DOMAIN page.lcps] ==
        RowContains(IF i = 1 THEN <<>> ELSE text[i - 1], page.lcps[i], SuffixAt(page, i), pattern,
                    IF i = 1 THEN None ELSE f[i - 1])
  IN  IF pattern = <<>> THEN (IF negated THEN {} ELSE all)
      ELSE {r \in all : (f[page.indices[r + 1] + 1] # None) # negated}

-----------------------------------------------------------------------------
(* PAGES                                                                   *)

\* encode_column_page.  small gives what LZ4 prefers: a mode for numbers, tokens for texts.
Page(spec, buf, small) ==
  LET rows  == Len(buf.values)
      texts == spec.type = "STRING"
      mode  == IF ~texts \/ buf.emptyCount = 0 THEN "zero"
               ELSE IF buf.nullCount = 0 /\ buf.emptyCount = rows THEN "one" ELSE "mixed"
  IN  [rows |-> rows,
       data |-> IF spec.numDict THEN NumericPage(spec, buf, small.mode)
                ELSE IF texts THEN StringPage(buf, small.tokens)
                ELSE IF spec.type = "BOOL" THEN {r \in 0 .. rows - 1 : buf.values[r + 1]}
                ELSE RawPage(spec, buf),
       nulls |-> IF spec.nullable /\ buf.hasNulls THEN buf.nulls ELSE None,
       emptyMode |-> mode, empties |-> IF mode = "mixed" THEN buf.empties ELSE None]

\* ensure_decoded and the use of scale and bitmaps by its callers: the cells of a page.  dict is
\* the dictionary of the column: from the file, or the one decode_raw_string_ids has grown.
Cells(spec, page, dict) ==
  LET grown == IF spec.type = "STRING" THEN DecodeStrings(page.data, dict) ELSE [dict |-> dict]
      at(r) == CASE spec.type = "STRING" -> grown.dict[grown.ids[r] + 1]
                 [] spec.type = "BOOL"   -> (r - 1) \in page.data
                 [] spec.kind = "String" /\ spec.type # "STRING" -> dict[page.data[r] + 1]
                 [] spec.numDict         -> LET n == DecodeNumeric(page.data, page.rows)[r]
                                            IN  IF spec.scale = 0 THEN n ELSE (n * Unit) \div spec.scale
                 [] spec.type \in {"F32", "F64"} -> page.data[r]
  IN  [dict  |-> grown.dict,
       cells |-> [r \in 1 .. page.rows |->
                    IF page.nulls # None /\ (r - 1) \notin page.nulls THEN Null ELSE at(r)]]

\* build_empty_string_mask: the rows of a page of raw text that equal "", or differ from it.
EmptyMask(page, negated) ==
  LET all     == 0 .. page.rows - 1
      empties == CASE page.emptyMode = "zero"  -> {}
                   [] page.emptyMode = "one"   -> all
                   [] page.emptyMode = "mixed" -> page.empties
      valid   == IF page.nulls = None \/ page.emptyMode = "one" THEN all ELSE page.nulls
  IN  IF negated THEN valid \ empties ELSE empties
=============================================================================
