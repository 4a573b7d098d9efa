----------------------------- MODULE ColumnScan -----------------------------
(***************************************************************************)
(* The first pass of the encoder: what convert_parquet_to_wcol learns of    *)
(* each column before it writes a page (init_columns, scan_columns,         *)
(* finalize_columns), and the same for a SAV file.                          *)
(*                                                                         *)
(* A column is [kind, large], with kind one of "String", "Boolean", "Int"   *)
(* (a signed integer array), "UInt" and "Float".  Its cells are Null or     *)
(*   a sequence of bytes       (String)                                     *)
(*   a Boolean                 (Boolean)                                    *)
(*   an integer                (Int, UInt)                                  *)
(*   an integer of 1/Unit, or NaN for what is not finite (Float).           *)
(* The widths of the integer types are parameters; the code's are 8, 16,    *)
(* 32 and 64 bits, with 53 bits in the mantissa of an f64.                  *)
(***************************************************************************)
EXTENDS Integers, Sequences, SequencesExt, FiniteSets, FiniteSetsExt

CONSTANTS
  Null, NaN, None,
  Bits,        \* the widths of the four integer types, a sequence
  Mantissa,    \* the bits an f64 keeps of an integer
  Unit,        \* a float is a whole number of 1/Unit
  F32Grain,    \* an f32 keeps multiples of F32Grain/Unit
  Scales,      \* SCALE_CANDIDATES, a sequence
  Preferred,   \* the scale choose_scale_for_range tries first: 60
  Eps,         \* SCALE_EPS, in 1/Unit
  MaxDict,     \* default_max_dict_values()
  LargeDict,   \* large_dict_max_values(), for a column with large = TRUE
  Other        \* OTHER_DICT_VALUE

ASSUME ScanAssumption ==
  /\ Len(Bits) = 4 /\ \A i \in 1..3 : 0 < Bits[i] /\ Bits[i] < Bits[i + 1]
  /\ Mantissa \in Bits[3]..Bits[4]
  /\ {1, Preferred} \subseteq Range(Scales)
  /\ \A s \in Range(Scales) : s > 0 /\ Unit % s = 0
  /\ 2 * Eps < Unit /\ MaxDict > 0 /\ LargeDict > 0

Signed   == <<"I8", "I16", "I32", "I64">>
Unsigned == <<"U8", "U16", "U32", "U64">>

TypeRange(t) ==
  IF t \in Range(Signed)
    THEN LET b == Bits[CHOOSE i \in 1..4 : Signed[i] = t]
         IN  -(2 ^ (b - 1)) .. 2 ^ (b - 1) - 1
    ELSE LET b == Bits[CHOOSE i \in 1..4 : Unsigned[i] = t] IN 0 .. 2 ^ b - 1

\* "value as f64": the integer, rounded to the mantissa (ties to even).
AsF64(n) ==
  LET grain(m) == Min({2 ^ k : k \in {j \in 0 .. Bits[4] : m < 2 ^ (Mantissa + j)}})
      near(m, g) == LET r == m % g
                        d == m \div g
                    IN  g * (IF 2 * r > g \/ (2 * r = g /\ d % 2 = 1) THEN d + 1 ELSE d)
  IN  IF n < 0 THEN -near(-n, grain(-n)) ELSE near(n, grain(n))

\* "value as f32 as f64", for a float.
AsF32(v) == IF v = NaN THEN NaN ELSE (v \div F32Grain) * F32Grain

\* (value * scale).round(), and how far the product was from it in 1/Unit.
Scaled(v, s)   == (v * s + Unit \div 2) \div Unit
ScaleErr(v, s) == LET e == v * s - Scaled(v, s) * Unit IN IF e < 0 THEN -e ELSE e

-----------------------------------------------------------------------------
\* init_columns: a ColumnSpec before the scan.  dict is the dictionary built so far, or None.
NewSpec(col) ==
  [kind |-> col.kind, large |-> col.large, nullable |-> FALSE, lo |-> None, hi |-> None,
   f32 |-> TRUE, unsafe |-> FALSE, floatInt |-> col.kind = "Float",
   cand |-> IF col.kind = "Float" THEN Range(Scales) ELSE {},
   slo |-> [s \in Range(Scales) |-> None], shi |-> [s \in Range(Scales) |-> None],
   dict |-> IF col.kind = "String" THEN <<>> ELSE None, other |-> None]

Least(a, b)    == IF a = None \/ b < a THEN b ELSE a
Greatest(a, b) == IF a = None \/ b > a THEN b ELSE a

\* update_int_stats and update_uint_stats: a u64 above i64::MAX makes the column unsafe.
IntStats(spec, v) ==
  [spec EXCEPT !.lo = Least(@, AsF64(v)), !.hi = Greatest(@, AsF64(v)),
               !.unsafe = @ \/ (spec.kind = "UInt" /\ v > Max(TypeRange("I64")))]

\* update_float_stats: a candidate scale survives when every value becomes, within SCALE_EPS, an
\* i64 by it.  (Scale 1 is a candidate of its own, and floatInt says the same of it.)
FloatStats(spec, v) ==
  LET fits(s) == ScaleErr(v, s) <= Eps /\ Scaled(v, s) \in TypeRange("I64")
      kept == {s \in spec.cand : fits(s)}
  IN  IF v = NaN THEN [spec EXCEPT !.cand = {}, !.floatInt = FALSE]
      ELSE [spec EXCEPT !.floatInt = @ /\ fits(1),
                        !.lo = Least(@, v), !.hi = Greatest(@, v),
                        !.f32 = @ /\ AsF32(v) = v, !.cand = kept,
                        !.slo = [s \in Range(Scales) |->
                                   IF s \in kept THEN Least(@[s], Scaled(v, s)) ELSE @[s]],
                        !.shi = [s \in Range(Scales) |->
                                   IF s \in kept THEN Greatest(@[s], Scaled(v, s)) ELSE @[s]]]

\* The id a dictionary gives a text (from 0), or None.
IdOf(dict, v) == LET at == {i \in DOMAIN dict : dict[i] = v}
                 IN  IF at = {} THEN None ELSE Min(at) - 1

\* ensure_other_dict_bucket.
WithOther(spec) ==
  IF Other \in Range(spec.dict) THEN [spec EXCEPT !.other = IdOf(spec.dict, Other)]
  ELSE [spec EXCEPT !.dict = Append(@, Other), !.other = Len(spec.dict)]

\* A full dictionary: a large column gets the bucket for the rest, another becomes raw text.
DictFull(spec) == IF spec.large THEN WithOther(spec) ELSE [spec EXCEPT !.dict = None]

\* add_dict_value.
DictValue(spec, v) ==
  LET limit == IF spec.large THEN LargeDict ELSE MaxDict
      added == [spec EXCEPT !.dict = Append(@, v)]
  IN  IF v = Other \/ spec.dict = None \/ IdOf(spec.dict, v) # None THEN spec
      ELSE IF Len(spec.dict) >= limit THEN DictFull(spec)
      ELSE IF Len(added.dict) >= limit THEN DictFull(added)
      ELSE added

\* scan_array, one value of it; scan_chunk sets nullable when the array has nulls.
ScanCell(spec, v) ==
  CASE v = Null -> [spec EXCEPT !.nullable = TRUE]
    [] v # Null /\ spec.kind \in {"Int", "UInt"} -> IntStats(spec, v)
    [] v # Null /\ spec.kind = "Float"   -> FloatStats(spec, v)
    [] v # Null /\ spec.kind = "String"  -> DictValue(spec, v)
    [] v # Null /\ spec.kind = "Boolean" -> spec

\* int_type_for_range, and the chain of comparisons in finalize_columns.
IntType(lo, hi) ==
  LET holds(t) == lo \in TypeRange(t) /\ hi \in TypeRange(t)
  IN  CASE lo = None -> "U8"
        [] lo # None /\ lo >= 0 ->
             IF holds("U8") THEN "U8" ELSE IF holds("U16") THEN "U16"
             ELSE IF holds("U32") THEN "U32" ELSE "I64"
        [] lo # None /\ lo < 0 ->
             IF holds("I8") THEN "I8" ELSE IF holds("I16") THEN "I16"
             ELSE IF holds("I32") THEN "I32" ELSE "I64"

\* choose_scale_for_range: 60 when it is a candidate, else the first candidate.
ChosenScale(spec) ==
  IF spec.lo = None \/ spec.cand = {} THEN 0
  ELSE IF Preferred \in spec.cand THEN Preferred
  ELSE Scales[Min({i \in DOMAIN Scales : Scales[i] \in spec.cand})]

\* dict_index_width and width_to_type.
DictType(dict) ==
  IF Len(dict) \in TypeRange("U8") THEN "U8"
  ELSE IF Len(dict) \in TypeRange("U16") THEN "U16" ELSE "U32"

\* finalize_columns.
Finalized(spec) ==
  LET s == ChosenScale(spec)
      put(type, scale, numDict, kind) ==
        [source |-> spec.kind, kind |-> kind, type |-> type, scale |-> scale, numDict |-> numDict,
         nullable |-> spec.nullable, dict |-> spec.dict, other |-> spec.other]
  IN  CASE spec.kind = "String"  -> put(IF spec.dict = None THEN "STRING" ELSE DictType(spec.dict),
                                        0, FALSE, "String")
        [] spec.kind = "Boolean" -> put("BOOL", 0, FALSE, "Boolean")
        [] spec.kind = "Float" /\ s # 0 -> put(IntType(spec.slo[s], spec.shi[s]), s, TRUE, "Float")
        [] spec.kind = "Float" /\ s = 0 /\ spec.floatInt -> put(IntType(None, None), 1, TRUE, "Float")
        [] spec.kind = "Float" /\ s = 0 /\ ~spec.floatInt ->
             put(IF spec.lo = None \/ spec.f32 THEN "F32" ELSE "F64", 0, FALSE, "Float")
        [] spec.kind \in {"Int", "UInt"} /\ spec.unsafe  -> put("F64", 0, FALSE, "Float")
        [] spec.kind \in {"Int", "UInt"} /\ ~spec.unsafe ->
             put(IntType(spec.lo, spec.hi), 0, TRUE, "Int")

\* The whole pass over a column.
ScanColumn(col, cells) == Finalized(FoldLeft(ScanCell, NewSpec(col), cells))

-----------------------------------------------------------------------------
\* init_sav_columns and scan_sav_columns: the texts of a SAV column are known beforehand, and
\* its cells are positions among them.
SavSpec(col, texts) ==
  IF col.kind = "Float" THEN NewSpec(col)
  ELSE [NewSpec(col) EXCEPT !.dict = IF Len(texts) > MaxDict THEN None ELSE texts]

ScanSavCell(spec, v) ==
  CASE v = Null -> [spec EXCEPT !.nullable = TRUE]
    [] v # Null /\ spec.kind = "Float"  -> FloatStats(spec, v)
    [] v # Null /\ spec.kind = "String" -> spec

ScanSavColumn(col, texts, cells) == Finalized(FoldLeft(ScanSavCell, SavSpec(col, texts), cells))
=============================================================================
