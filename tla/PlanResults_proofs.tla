------------------------- MODULE PlanResults_proofs -------------------------
(***************************************************************************)
(* What a plan may skip, what it may keep and what the query answers, for  *)
(* every file and query.                                                   *)
(*                                                                         *)
(* 1. A chunk that is skipped holds no match (PruneSound), and the mask of  *)
(*    a chunk that is run holds its matches and nothing else.               *)
(*    eval_possible, combine_masks and the meaning of a query are one       *)
(*    stack machine over three algebras: pairs of possibilities, sets of    *)
(*    rows, truth values of one row.  Both theorems follow from one lemma,  *)
(*    RunsAgree: a relation that the operations of two algebras keep holds  *)
(*    between the results if it holds between the filters.  What is         *)
(*    particular to a filter is in FilterSound and FilterMaskExact.         *)
(*    Programs are of any length; the induction over their tokens takes     *)
(*    the least one that fails (Least).                                     *)
(* 2. The answer, on either path, is the one the query's meaning asks for:  *)
(*    its rows, their columns, its aggregates and its groups.  A plan       *)
(*    holds the results of a set of rows (PlanOf): a chunk adds those of    *)
(*    its mask, the reducer those of a partial, and both are folds,         *)
(*    followed step by step (AllReached).  Kept says which plan every state *)
(*    of a query holds.  What keeps the first k of an order, however often  *)
(*    it is merged, is in Keeps and CoversFirst; that a table lists the     *)
(*    groups by their first rows, in GroupsOf and Late; how they are put    *)
(*    in order as they are copied, in TablePermuted and HistIdsSorted.      *)
(***************************************************************************)
EXTENDS PlanResults, FiniteSetTheorems, FunctionTheorems, SequenceTheorems, WellFoundedInduction, TLAPS

(* A set of numbers that is not empty has a least one. *)
LEMMA Least ==
  ASSUME NEW T \in SUBSET Nat, T # {}
  PROVE  \E m \in T : \A n \in T : m <= n
<1> DEFINE R == OpToRel(<, Nat)
<1>1. IsWellFoundedOn(R, Nat)
  BY NatLessThanWellFounded, Zenon
<1>2. \A x, y \in Nat : <<y, x>> \in R <=> y < x
  BY DEF OpToRel
<1> HIDE DEF R
<1>3. PICK x \in T : \A y \in T : ~(<<y, x>> \in R)
  BY <1>1, WFMin
<1>4. \A y \in T : ~(y < x)
  BY <1>2, <1>3, Zenon
<1>5. \A y \in T : x <= y
  BY <1>4
<1> QED
  BY <1>5

(* A finite set of integers has a least element: the one with the fewest below it. *)
LEMMA LeastInt ==
  ASSUME NEW S \in SUBSET Int, IsFiniteSet(S), S # {}
  PROVE  \E x \in S : \A y \in S : x <= y
<1> DEFINE below == [x \in S |-> {z \in S : z < x}]
           count == [x \in S |-> Cardinality(below[x])]
           counts == {count[x] : x \in S}
<1>1. \A x \in S : IsFiniteSet(below[x]) /\ count[x] \in Nat /\ count[x] = Cardinality(below[x])
  BY FS_Subset, FS_CardinalityType
<1>2. \A x, y \in S : y \in below[x] <=> y < x
  OBVIOUS
<1>3. \A x \in S : below[x] \subseteq S
  OBVIOUS
<1>4. counts \in SUBSET Nat /\ counts # {}
  BY <1>1
<1>5. PICK m \in counts : \A n \in counts : m <= n
  BY <1>4, Least
<1>6. PICK x \in S : \A y \in S : count[x] <= count[y]
  BY <1>5
<1> HIDE DEF below, count, counts
<1>7. ASSUME NEW y \in S, y < x
      PROVE  FALSE
  <2>1. below[y] \subseteq below[x]
    <3> SUFFICES ASSUME NEW z \in below[y]
                 PROVE  z \in below[x]
      OBVIOUS
    <3>1. z \in S /\ z < y
      BY <1>2, <1>3, Zenon
    <3>2. z \in Int /\ y \in Int /\ x \in Int
      BY <3>1
    <3>3. z < x
      BY <1>7, <3>1, <3>2
    <3> QED
      BY <1>2, <3>1, <3>3, Zenon
  <2>2. y \in below[x] /\ y \notin below[y]
    BY <1>2, <1>7
  <2>3. Cardinality(below[y]) <= Cardinality(below[x])
        /\ (Cardinality(below[x]) = Cardinality(below[y]) => below[x] = below[y])
    <3>1. below[y] \in SUBSET below[x] /\ IsFiniteSet(below[x])
      BY <1>1, <2>1
    <3> QED
      BY <3>1, FS_Subset, Zenon
  <2> QED
    BY <1>1, <1>6, <2>2, <2>3
<1> QED
  BY <1>7

(* And a greatest one, the opposite of the least opposite. *)
LEMMA GreatestInt ==
  ASSUME NEW S \in SUBSET Int, IsFiniteSet(S), S # {}
  PROVE  \E x \in S : \A y \in S : x >= y
<1> DEFINE N == {-x : x \in S}
<1>1. N \in SUBSET Int /\ N # {}
  <2>1. \A x \in S : -x \in Int
    OBVIOUS
  <2> QED
    BY <2>1, Zenon
<1>2. IsFiniteSet(N)
  <2> DEFINE f == [x \in S |-> -x]
  <2>1. f \in Surjection(S, N)
    BY DEF Surjection
  <2> QED
    BY <2>1, FS_Surjection
<1>3. PICK x \in N : \A y \in N : x <= y
  BY <1>1, <1>2, LeastInt
<1>4. \A y \in S : -y \in N
  OBVIOUS
<1>5. PICK z \in S : x = -z
  BY <1>3
<1>6. \A y \in S : x <= -y
  BY <1>3, <1>4, Zenon
<1>7. \A y \in S : z >= y
  BY <1>5, <1>6
<1> QED
  BY <1>7

-----------------------------------------------------------------------------
(* What the index entry of a chunk says of each of its rows. *)

(* The values of a column are finitely many integers, *)
LEMMA ValuesFinite ==
  ASSUME NEW column, Plain(column)
  PROVE  IsFiniteSet(ValuesOf(column)) /\ ValuesOf(column) \in SUBSET Int
<1>1. IsFiniteSet(1..Len(column)) /\ DOMAIN column = 1..Len(column)
  BY FS_Interval DEF Plain
<1>2. column \in Surjection(DOMAIN column, Range(column))
  BY DEF Surjection, Range, Plain
<1>3. IsFiniteSet(Range(column))
  BY <1>1, <1>2, FS_Surjection
<1> QED
  BY <1>3, FS_Subset DEF ValuesOf, Range, Plain

(* so that the minimum and the maximum in its index entry exist. *)
LEMMA Bounds ==
  ASSUME NEW S \in SUBSET Int, IsFiniteSet(S), S # {}
  PROVE  /\ Min(S) \in S /\ \A x \in S : Min(S) <= x
         /\ Max(S) \in S /\ \A x \in S : x <= Max(S)
<1>1. Min(S) \in S /\ \A x \in S : Min(S) <= x
  BY LeastInt DEF Min
<1>2. Max(S) \in S /\ \A x \in S : Max(S) >= x
  BY GreatestInt DEF Max
<1> QED
  BY <1>1, <1>2

(* What the index says of the value of a row. *)
LEMMA StatsCover ==
  ASSUME NEW column, Plain(column), NEW i \in DOMAIN column, NEW e, 
         e = PageStats("v", column)
  PROVE  /\ column[i] # Null => e.min \in Int /\ e.max \in Int /\ e.min <= column[i] /\ column[i] <= e.max
         /\ column[i] = Null => e.nulls
<1> DEFINE vals == ValuesOf(column)
<1>1. vals # {} => Min(vals) \in vals /\ Max(vals) \in vals /\ \A x \in vals : Min(vals) <= x /\ x <= Max(vals)
  BY ValuesFinite, Bounds
<1>2. column[i] \in Range(column)
  BY DEF Range
<1>3. column[i] # Null => column[i] \in vals
  BY <1>2 DEF ValuesOf
<1>4. vals \in SUBSET Int
  BY ValuesFinite
<1>5. /\ e.min = IF vals # {} THEN Min(vals) ELSE 0
      /\ e.max = IF vals # {} THEN Max(vals) ELSE 0
  BY DEF PageStats, IsDict
<1>6. e.nulls <=> (Null \in Range(column))
  BY Zenon DEF PageStats
<1>7. column[i] = Null => e.nulls
  BY <1>2, <1>6, Zenon
<1> HIDE DEF vals
<1>8. column[i] # Null => e.min \in Int /\ e.max \in Int /\ e.min <= column[i] /\ column[i] <= e.max
  BY <1>1, <1>3, <1>4, <1>5
<1> QED
  BY <1>7, <1>8

(* A numeric filter that holds for a row is possible in its chunk, one that *)
(* does not hold is not certain.                                            *)
LEMMA NumericSound ==
  ASSUME NEW f, PlainFilter(f), f.col = "v", f.op \notin {"like", "notlike"},
         NEW column, Plain(column), NEW i \in DOMAIN column
  PROVE  LET p == NumericPossible(f, PageStats("v", column))
         IN  /\ Holds(f, column[i]) => p.maybeTrue
             /\ ~Holds(f, column[i]) => p.maybeFalse
<1> DEFINE e == PageStats("v", column)
           x == column[i]
           p == NumericPossible(f, e)
<1> SUFFICES /\ Holds(f, x) => p.maybeTrue
             /\ ~Holds(f, x) => p.maybeFalse
  BY Zenon
<1>1. /\ x # Null => e.min \in Int /\ e.max \in Int /\ e.min <= x /\ x <= e.max
      /\ x = Null => e.nulls
  BY StatsCover
<1>2. x \in Int \/ x = Null
  BY DEF Plain
<1>3. f.value \in Int /\ f.value2 \in Int /\ (f.op = "between" => f.value <= f.value2)
  BY DEF PlainFilter
<1> HIDE DEF e, x
<1>4. CASE f.list # NoList
  <2>1. Holds(f, x) <=> x # Null /\ x \in Range(f.list)
    BY <1>4, Zenon DEF Holds
  <2>2. Range(f.list) \subseteq Int
    BY <1>4 DEF PlainFilter, Range
  <2>3. /\ p.maybeTrue <=> (\E v \in Range(f.list) : e.min <= v /\ v <= e.max)
        /\ p.maybeFalse <=> (e.nulls \/ ~(e.min = e.max /\ e.min \in Range(f.list)))
    BY <1>4, Zenon DEF NumericPossible, Possible
  <2>4. Holds(f, x) => \E v \in Range(f.list) : e.min <= v /\ v <= e.max
    BY <1>1, <2>1, Zenon
  <2>5. ~Holds(f, x) => e.nulls \/ ~(e.min = e.max /\ e.min \in Range(f.list))
    <3>1. x # Null /\ e.min = e.max => x = e.min
      BY <1>1, <1>2
    <3> QED
      BY <1>1, <2>1, <3>1, Zenon
  <2> QED
    BY <2>3, <2>4, <2>5
<1>5. ASSUME f.list = NoList, f.op \in Compares
      PROVE  /\ Holds(f, x) => p.maybeTrue
             /\ ~Holds(f, x) => p.maybeFalse
  <2>1. Holds(f, x) <=> x # Null /\ Cmp(x, f.op, f.value, f.value2)
    BY <1>5, Zenon DEF Holds
  <2>2. CASE f.op = "eq"
    <3>1. /\ p.maybeTrue <=> (e.min <= f.value /\ f.value <= e.max)
          /\ p.maybeFalse <=> (e.nulls \/ ~(e.min = e.max /\ f.value = e.min))
      BY <1>5, <2>2, Zenon DEF NumericPossible, Possible
    <3> QED
      BY <1>1, <1>2, <1>3, <2>1, <2>2, <3>1 DEF Cmp
  <2>3. CASE f.op = "neq"
    <3>1. /\ p.maybeTrue <=> (e.nulls \/ ~(e.min = e.max /\ f.value = e.min))
          /\ p.maybeFalse <=> (e.nulls \/ ~(f.value < e.min \/ f.value > e.max))
      BY <1>5, <2>3, Zenon DEF NumericPossible, Possible
    <3> QED
      BY <1>1, <1>2, <1>3, <2>1, <2>3, <3>1 DEF Cmp
  <2>4. CASE f.op = "lt"
    <3>1. /\ p.maybeTrue <=> (e.min < f.value)
          /\ p.maybeFalse <=> (e.nulls \/ ~(e.max < f.value))
      BY <1>5, <2>4, Zenon DEF NumericPossible, Possible
    <3> QED
      BY <1>1, <1>2, <1>3, <2>1, <2>4, <3>1 DEF Cmp
  <2>5. CASE f.op = "lte"
    <3>1. /\ p.maybeTrue <=> (e.min <= f.value)
          /\ p.maybeFalse <=> (e.nulls \/ ~(e.max <= f.value))
      BY <1>5, <2>5, Zenon DEF NumericPossible, Possible
    <3> QED
      BY <1>1, <1>2, <1>3, <2>1, <2>5, <3>1 DEF Cmp
  <2>6. CASE f.op = "gt"
    <3>1. /\ p.maybeTrue <=> (e.max > f.value)
          /\ p.maybeFalse <=> (e.nulls \/ ~(e.min > f.value))
      BY <1>5, <2>6, Zenon DEF NumericPossible, Possible
    <3> QED
      BY <1>1, <1>2, <1>3, <2>1, <2>6, <3>1 DEF Cmp
  <2>7. CASE f.op = "gte"
    <3>1. /\ p.maybeTrue <=> (e.max >= f.value)
          /\ p.maybeFalse <=> (e.nulls \/ ~(e.min >= f.value))
      BY <1>5, <2>7, Zenon DEF NumericPossible, Possible
    <3> QED
      BY <1>1, <1>2, <1>3, <2>1, <2>7, <3>1 DEF Cmp
  <2>8. CASE f.op = "between"
    <3>1. /\ p.maybeTrue <=> (~(e.max < Smaller(f.value, f.value2) \/ e.min > Larger(f.value, f.value2)))
          /\ p.maybeFalse <=> (e.nulls \/ ~(Smaller(f.value, f.value2) <= e.min /\ e.max <= Larger(f.value, f.value2)))
      BY <1>5, <2>8, Zenon DEF NumericPossible, Possible
    <3> QED
      BY <1>1, <1>2, <1>3, <2>1, <2>8, <3>1 DEF Cmp, Smaller, Larger
  <2> QED
    BY <1>5, <2>2, <2>3, <2>4, <2>5, <2>6, <2>7, <2>8 DEF Compares
<1>6. f.list = NoList /\ f.op \notin {"like", "notlike"} => f.op \in Compares
  BY DEF PlainFilter
<1> QED
  BY <1>4, <1>5, <1>6

(* The same for a filter on the dictionary column and the presence bits of the chunk. *)
LEMMA DictSound ==
  ASSUME NEW f, PlainFilter(f), f.col = "k", f.op \notin {"like", "notlike"},
         NEW column, Plain(column), ValuesOf(column) \subseteq 0..(DictLen - 1), NEW i \in DOMAIN column
  PROVE  LET p == DictPossible(f, PageStats("k", column))
         IN  /\ Holds(f, column[i]) => p.maybeTrue
             /\ ~Holds(f, column[i]) => p.maybeFalse
<1> DEFINE e == PageStats("k", column)
           x == column[i]
           p == DictPossible(f, e)
<1> SUFFICES /\ Holds(f, x) => p.maybeTrue
             /\ ~Holds(f, x) => p.maybeFalse
  BY Zenon
<1>1. x \in Range(column)
  BY DEF Range
<1>2. e.presence = ValuesOf(column) /\ (e.nulls <=> (Null \in Range(column)))
  BY Zenon DEF PageStats, IsDict
<1>3. /\ x # Null => x \in e.presence /\ x \in 0..(DictLen - 1)
      /\ x = Null => e.nulls
  BY <1>1, <1>2, Zenon DEF ValuesOf
<1>4. e.presence \subseteq 0..(DictLen - 1) /\ DictLen \in Nat
  BY <1>2, DictLenAssumption
<1> DEFINE ids == IF f.list = NoList THEN {f.value} ELSE Range(f.list)
           listed == ids \cap 0..(DictLen - 1)
<1> HIDE DEF e, x
<1>5. CASE e.presence = {}
  <2>1. p.maybeFalse
    BY <1>5, Zenon DEF DictPossible, Possible
  <2>2. x = Null
    BY <1>3, <1>5
  <2> QED
    BY <2>1, <2>2, Zenon DEF Holds
<1>6. CASE e.presence # {} /\ f.list # NoList
  <2>1. Holds(f, x) <=> x # Null /\ x \in Range(f.list)
    BY <1>6, Zenon DEF Holds
  <2>2. /\ p.maybeTrue <=> (e.presence \cap listed # {})
        /\ p.maybeFalse <=> (e.nulls \/ ~(e.presence \subseteq listed))
    BY <1>6, Zenon DEF DictPossible, Possible
  <2>3. x # Null => (x \in listed <=> x \in Range(f.list))
    BY <1>3, <1>6, Zenon
  <2> HIDE DEF listed, ids
  <2> QED
    BY <1>3, <2>1, <2>2, <2>3, Zenon
<1>7. CASE e.presence # {} /\ f.list = NoList
  <2>1. Holds(f, x) <=> x # Null /\ Cmp(x, f.op, f.value, f.value2)
    BY <1>7, Zenon DEF Holds
  <2>2. f.value \in Int
    BY DEF PlainFilter
  <2>3. x # Null => (x \in listed <=> x = f.value)
    BY <1>3, <1>7, Zenon
  <2>4. CASE f.value < 0
    <3>1. ~(x # Null /\ x = f.value) /\ f.op = "eq"
      BY <1>3, <1>4, <1>7, <2>4 DEF PlainFilter, IsDict
    <3>2. p.maybeFalse <=> TRUE
      <4>1. ~(f.value >= DictLen)
        BY <1>4, <2>2, <2>4
      <4> QED
        BY <1>7, <2>4, <4>1, Zenon DEF DictPossible, Possible
    <3>3. ~Holds(f, x)
      BY <2>1, <3>1 DEF Cmp
    <3> QED
      BY <3>2, <3>3
  <2>5. CASE f.value >= DictLen
    <3>1. f.op \in {"eq", "neq"} /\ ~(f.value < 0) /\ ~(x # Null /\ x = f.value)
      BY <1>3, <1>4, <1>7, <2>2, <2>5 DEF PlainFilter, IsDict
    <3>2. /\ p.maybeTrue <=> (f.op = "neq")
          /\ p.maybeFalse <=> (e.nulls \/ ~(f.op = "neq"))
      BY <1>7, <2>5, <3>1, Zenon DEF DictPossible, Possible
    <3>3. Holds(f, x) <=> x # Null /\ f.op = "neq"
      BY <2>1, <3>1 DEF Cmp
    <3> QED
      BY <1>3, <3>2, <3>3
  <2>6. CASE f.value \in 0..(DictLen - 1)
    <3>1. ~(f.value < 0) /\ ~(f.value >= DictLen)
      BY <1>4, <2>2, <2>6
    <3>2. CASE f.op = "eq"
      <4>1. /\ p.maybeTrue <=> (e.presence \cap listed # {})
            /\ p.maybeFalse <=> (e.nulls \/ ~(e.presence \subseteq listed))
        BY <1>7, <3>1, <3>2, Zenon DEF DictPossible, Possible
      <4>2. Holds(f, x) <=> x # Null /\ x = f.value
        BY <2>1, <3>2 DEF Cmp
      <4> HIDE DEF listed, ids
      <4> QED
        BY <1>3, <2>3, <4>1, <4>2, Zenon
    <3>3. CASE f.op = "neq"
      <4>1. /\ p.maybeTrue <=> (e.presence \ listed # {})
            /\ p.maybeFalse <=> (e.nulls \/ ~(e.presence \cap listed = {}))
        BY <1>7, <3>1, <3>3, Zenon DEF DictPossible, Possible
      <4>2. Holds(f, x) <=> x # Null /\ x # f.value
        BY <2>1, <3>3 DEF Cmp
      <4> HIDE DEF listed, ids
      <4> QED
        BY <1>3, <2>3, <4>1, <4>2, Zenon
    <3>4. CASE f.op \notin {"eq", "neq"}
      <4>1. f.op # "eq" /\ f.op # "neq"
        BY <3>4
      <4>2. p = Unknown
        BY <1>7, <3>1, <4>1, Zenon DEF DictPossible
      <4> QED
        BY <4>2 DEF Unknown, Possible
    <3> QED
      BY <3>2, <3>3, <3>4
  <2> QED
    BY <1>4, <2>2, <2>4, <2>5, <2>6
<1> QED
  BY <1>5, <1>6, <1>7

(* filter_possible and a row of the chunk. *)
LEMMA FilterSound ==
  ASSUME NEW f, PlainFilter(f), NEW chunk, PlainChunk(chunk), NEW i \in DOMAIN chunk["k"]
  PROVE  LET p == FilterPossible(f, PageStats(f.col, chunk[f.col]))
             b == Holds(f, chunk[f.col][i])
         IN  (b => p.maybeTrue) /\ (~b => p.maybeFalse)
<1>1. i \in DOMAIN chunk["v"] /\ i \in DOMAIN chunk[f.col]
  BY DEF PlainChunk, Plain, PlainFilter
<1>2. CASE f.op \in {"like", "notlike"}
  BY <1>2 DEF FilterPossible, Unknown, Possible
<1>3. CASE f.op \notin {"like", "notlike"} /\ f.col = "k"
  BY <1>1, <1>3, DictSound DEF FilterPossible, IsDict, PlainChunk
<1>4. CASE f.op \notin {"like", "notlike"} /\ f.col = "v"
  BY <1>1, <1>4, NumericSound DEF FilterPossible, IsDict, PlainChunk
<1> QED
  BY <1>2, <1>3, <1>4 DEF PlainFilter

-----------------------------------------------------------------------------
(* The stack machine over two algebras at once. *)

(* Induction over the tokens of a program: what is left is a least token that fails. *)
LEMMA ByToken ==
  ASSUME NEW n \in Nat, NEW T, 0 \in T, \A k \in 1..n : k - 1 \in T => k \in T
  PROVE  \A k \in 0..n : k \in T
<1> DEFINE Bad == {k \in 0..n : k \notin T}
<1> SUFFICES ASSUME Bad # {}
             PROVE  FALSE
  OBVIOUS
<1> HIDE DEF Bad
<1>0. Bad \in SUBSET Nat
  BY DEF Bad
<1>1. PICK m \in Bad : \A k \in Bad : m <= k
  BY <1>0, Least, Zenon
<1>2. m \in 1..n /\ m - 1 \in 0..n
  BY <1>1 DEF Bad
<1>3. m - 1 \notin Bad
  BY <1>1, <1>2 DEF Bad
<1> QED
  BY <1>1, <1>2, <1>3 DEF Bad

(* The recursive function ProgramRun defines is there, and obeys its equation. *)
LEMMA RunFrom ==
  ASSUME NEW tokens \in Seq(Int), NEW leaf, NEW algebra
  PROVE  LET r == ProgramRun(tokens, leaf, algebra)
         IN  /\ r[0] = Machine(TRUE, <<>>)
             /\ \A k \in 1..Len(tokens) : r[k] = StepProgram(r[k - 1], tokens[k], leaf, algebra)
<1> DEFINE Runs(n, r) == r = [k \in 0..n |-> IF k = 0 THEN Machine(TRUE, <<>>)
                                             ELSE StepProgram(r[k - 1], tokens[k], leaf, algebra)]
           T == {n \in Nat : \E r : Runs(n, r)}
           N == Len(tokens)
<1>1. 0 \in T
  <2> DEFINE r == [k \in 0..0 |-> Machine(TRUE, <<>>)]
  <2>1. Runs(0, r)
    OBVIOUS
  <2> QED
    BY <2>1
<1>2. ASSUME NEW n \in 1..N, n - 1 \in T
      PROVE  n \in T
  <2>1. PICK r : Runs(n - 1, r)
    BY <1>2
  <2> DEFINE s == [k \in 0..n |-> IF k = n THEN StepProgram(r[n - 1], tokens[n], leaf, algebra) ELSE r[k]]
  <2>2. n \in Nat /\ n - 1 \in 0..n /\ n # 0
    BY <1>2
  <2>3. /\ s = [k \in 0..n |-> s[k]]
        /\ s[n] = StepProgram(r[n - 1], tokens[n], leaf, algebra)
        /\ \A k \in 0..n : k # n => s[k] = r[k]
    <3>1. n \in 0..n
      BY <2>2
    <3> QED
      BY <3>1, Zenon
  <2>4. /\ r[0] = Machine(TRUE, <<>>)
        /\ \A k \in 1..(n - 1) : r[k] = StepProgram(r[k - 1], tokens[k], leaf, algebra)
    <3>1. 0 \in 0..(n - 1) /\ \A k \in 1..(n - 1) : k \in 0..(n - 1) /\ k # 0
      BY <2>2
    <3> QED
      BY <2>1, <3>1, Zenon
  <2> HIDE DEF s
  <2>5. ASSUME NEW k \in 0..n
        PROVE  s[k] = IF k = 0 THEN Machine(TRUE, <<>>) ELSE StepProgram(s[k - 1], tokens[k], leaf, algebra)
    <3>1. CASE k = 0
      BY <2>2, <2>3, <2>4, <3>1
    <3>2. CASE k = n
      <4>1. s[n - 1] = r[n - 1]
        BY <2>2, <2>3
      <4> QED
        BY <2>2, <2>3, <3>2, <4>1, Zenon
    <3>3. CASE k \in 1..(n - 1)
      <4>1. k - 1 \in 0..n /\ k - 1 # n /\ k # n /\ k # 0
        BY <2>2, <3>3
      <4>2. s[k - 1] = r[k - 1] /\ s[k] = r[k]
        BY <2>3, <4>1, Zenon
      <4> QED
        BY <2>4, <3>3, <4>1, <4>2, Zenon
    <3>4. k = 0 \/ k = n \/ k \in 1..(n - 1)
      BY <2>2
    <3> QED
      BY <3>1, <3>2, <3>3, <3>4, Zenon
  <2>6. s = [k \in 0..n |-> IF k = 0 THEN Machine(TRUE, <<>>)
                            ELSE StepProgram(s[k - 1], tokens[k], leaf, algebra)]
    BY <2>3, <2>5
  <2>7. Runs(n, s)
    BY <2>6
  <2> HIDE DEF Runs
  <2> QED
    BY <2>2, <2>7, Zenon
<1>3. N \in Nat
  OBVIOUS
<1> HIDE DEF T
<1>4. N \in T
  <2>1. \A k \in 1..N : k - 1 \in T => k \in T
    BY <1>2
  <2>2. \A k \in 0..N : k \in T
    BY <1>1, <1>3, <2>1, ByToken, Zenon
  <2> QED
    BY <1>3, <2>2
<1>5. \E r : Runs(N, r)
  BY <1>4 DEF T
<1> DEFINE p == ProgramRun(tokens, leaf, algebra)
<1>6. p = CHOOSE r : Runs(N, r)
  BY Zenon DEF ProgramRun
<1>7. Runs(N, p)
  BY <1>5, <1>6, Zenon
<1> HIDE DEF p
<1>8. p[0] = Machine(TRUE, <<>>)
  <2>1. 0 \in 0..N
    BY <1>3
  <2> QED
    BY <1>7, <2>1, Zenon
<1>9. \A k \in 1..N : p[k] = StepProgram(p[k - 1], tokens[k], leaf, algebra)
  <2>1. \A k \in 1..N : k \in 0..N /\ k # 0
    BY <1>3
  <2> QED
    BY <1>7, <2>1, Zenon
<1> QED
  BY <1>8, <1>9 DEF p

(* Two stacks of the same height, their values related one by one. *)
Alike(s, t, V, W, R) ==
    /\ s \in Seq(V) /\ t \in Seq(W) /\ Len(s) = Len(t)
    /\ \A i \in 1..Len(s) : <<s[i], t[i]>> \in R
Agree(m, n, V, W, R) == (m.ok <=> n.ok) /\ Alike(m.s, n.s, V, W, R)

(* The operations of two algebras take related values to related values. *)
Homomorphic(f, g, V, W, R) ==
    /\ \A a \in V, b \in W : <<a, b>> \in R =>
         f.not[a] \in V /\ g.not[b] \in W /\ <<f.not[a], g.not[b]>> \in R
    /\ \A a, c \in V, b, d \in W : <<a, b>> \in R /\ <<c, d>> \in R =>
         f.and[<<a, c>>] \in V /\ g.and[<<b, d>>] \in W /\ <<f.and[<<a, c>>], g.and[<<b, d>>]>> \in R
    /\ \A a, c \in V, b, d \in W : <<a, b>> \in R /\ <<c, d>> \in R =>
         f.or[<<a, c>>] \in V /\ g.or[<<b, d>>] \in W /\ <<f.or[<<a, c>>], g.or[<<b, d>>]>> \in R

(* Pushing related values on related stacks leaves them related, *)
LEMMA PushAlike ==
  ASSUME NEW V, NEW W, NEW R, NEW s, NEW t, Alike(s, t, V, W, R),
         NEW n \in 0..Len(s), NEW a \in V, NEW b \in W, <<a, b>> \in R
  PROVE  Agree(PushValue(s, n, a), PushValue(t, n, b), V, W, R)
<1> DEFINE ps == Append(SubSeq(s, 1, Len(s) - n), a)
           pt == Append(SubSeq(t, 1, Len(t) - n), b)
<1>1. s \in Seq(V) /\ t \in Seq(W) /\ Len(s) = Len(t) /\ Len(s) \in Nat
  BY DEF Alike
<1>2. /\ SubSeq(s, 1, Len(s) - n) \in Seq(V) /\ Len(SubSeq(s, 1, Len(s) - n)) = Len(s) - n
      /\ \A i \in 1..(Len(s) - n) : SubSeq(s, 1, Len(s) - n)[i] = s[i]
  BY <1>1
<1>3. /\ SubSeq(t, 1, Len(t) - n) \in Seq(W) /\ Len(SubSeq(t, 1, Len(t) - n)) = Len(s) - n
      /\ \A i \in 1..(Len(s) - n) : SubSeq(t, 1, Len(t) - n)[i] = t[i]
  BY <1>1
<1>4. /\ ps \in Seq(V) /\ Len(ps) = Len(s) - n + 1 /\ ps[Len(s) - n + 1] = a
      /\ \A i \in 1..(Len(s) - n) : ps[i] = s[i]
  BY <1>1, <1>2
<1>5. /\ pt \in Seq(W) /\ Len(pt) = Len(s) - n + 1 /\ pt[Len(s) - n + 1] = b
      /\ \A i \in 1..(Len(s) - n) : pt[i] = t[i]
  BY <1>1, <1>3
<1>6. PushValue(s, n, a).s = ps /\ PushValue(t, n, b).s = pt
  BY DEF PushValue, Machine
<1>7. (PushValue(s, n, a).ok <=> TRUE) /\ (PushValue(t, n, b).ok <=> TRUE)
  BY Zenon DEF PushValue, Machine
<1> HIDE DEF ps, pt
<1>8. ASSUME NEW i \in 1..Len(ps)
      PROVE  <<ps[i], pt[i]>> \in R
  <2>1. CASE i = Len(s) - n + 1
    BY <1>4, <1>5, <2>1
  <2>2. CASE i \in 1..(Len(s) - n)
    <3>1. i \in 1..Len(s)
      BY <1>1, <2>2
    <3> QED
      BY <1>4, <1>5, <2>2, <3>1, Zenon DEF Alike
  <2>3. i = Len(s) - n + 1 \/ i \in 1..(Len(s) - n)
    BY <1>1, <1>4
  <2> QED
    BY <2>1, <2>2, <2>3, Zenon
<1>9. Alike(ps, pt, V, W, R)
  BY <1>4, <1>5, <1>8 DEF Alike
<1> QED
  BY <1>6, <1>7, <1>9, Zenon DEF Agree

(* and so does every token, which both machines take the same way. *)
LEMMA StepAgrees ==
  ASSUME NEW V, NEW W, NEW R, NEW f, NEW g, Homomorphic(f, g, V, W, R),
         NEW p, NEW q, Alike(p, q, V, W, R), NEW t \in Int,
         NEW m, NEW n, Agree(m, n, V, W, R)
  PROVE  Agree(StepProgram(m, t, p, f), StepProgram(n, t, q, g), V, W, R)
<1> DEFINE l == Len(m.s)
           mm == StepProgram(m, t, p, f)
           nn == StepProgram(n, t, q, g)
<1>1. /\ m.s \in Seq(V) /\ n.s \in Seq(W) /\ l = Len(n.s) /\ l \in Nat
      /\ \A i \in 1..l : m.s[i] \in V /\ n.s[i] \in W /\ <<m.s[i], n.s[i]>> \in R
  BY DEF Agree, Alike
<1>2. (m.ok <=> n.ok) /\ Alike(m.s, n.s, V, W, R)
  BY Zenon DEF Agree
<1>3. Len(p) = Len(q) /\ Len(p) \in Nat
  BY DEF Alike
<1>4. CASE m.ok /\ t \in 0..(Len(p) - 1)
  <2>1. t # NOT /\ t # AND /\ t # OR /\ t + 1 \in 1..Len(p) /\ 0 \in 0..l
    BY <1>1, <1>3, <1>4 DEF NOT, AND, OR
  <2>2. mm = PushValue(m.s, 0, p[t + 1]) /\ nn = PushValue(n.s, 0, q[t + 1])
    BY <1>2, <1>3, <1>4, <2>1, Zenon DEF StepProgram
  <2>3. p[t + 1] \in V /\ q[t + 1] \in W /\ <<p[t + 1], q[t + 1]>> \in R
    BY <2>1 DEF Alike
  <2> QED
    BY <1>2, <2>1, <2>2, <2>3, PushAlike, Zenon
<1>5. CASE m.ok /\ t = NOT /\ l >= 1
  <2>1. t \notin 0..(Len(p) - 1) /\ t # AND /\ t # OR /\ l \in 1..l /\ 1 \in 0..l
    BY <1>1, <1>3, <1>5 DEF NOT, AND, OR
  <2>2. mm = PushValue(m.s, 1, f.not[m.s[l]]) /\ nn = PushValue(n.s, 1, g.not[n.s[l]])
    BY <1>1, <1>2, <1>3, <1>5, <2>1, Zenon DEF StepProgram
  <2>3. f.not[m.s[l]] \in V /\ g.not[n.s[l]] \in W /\ <<f.not[m.s[l]], g.not[n.s[l]]>> \in R
    BY <1>1, <2>1, Zenon DEF Homomorphic
  <2> QED
    BY <1>2, <2>1, <2>2, <2>3, PushAlike, Zenon
<1>6. CASE m.ok /\ t = AND /\ l >= 2
  <2>1. t \notin 0..(Len(p) - 1) /\ t # NOT /\ t # OR /\ l \in 1..l /\ l - 1 \in 1..l /\ 2 \in 0..l
    BY <1>1, <1>3, <1>6 DEF NOT, AND, OR
  <2>2. /\ mm = PushValue(m.s, 2, f.and[<<m.s[l - 1], m.s[l]>>])
        /\ nn = PushValue(n.s, 2, g.and[<<n.s[l - 1], n.s[l]>>])
    BY <1>1, <1>2, <1>3, <1>6, <2>1, Zenon DEF StepProgram
  <2>3. /\ f.and[<<m.s[l - 1], m.s[l]>>] \in V /\ g.and[<<n.s[l - 1], n.s[l]>>] \in W
        /\ <<f.and[<<m.s[l - 1], m.s[l]>>], g.and[<<n.s[l - 1], n.s[l]>>]>> \in R
    BY <1>1, <2>1, Zenon DEF Homomorphic
  <2> QED
    BY <1>2, <2>1, <2>2, <2>3, PushAlike, Zenon
<1>7. CASE m.ok /\ t = OR /\ l >= 2
  <2>1. t \notin 0..(Len(p) - 1) /\ t # NOT /\ t # AND /\ l \in 1..l /\ l - 1 \in 1..l /\ 2 \in 0..l
    BY <1>1, <1>3, <1>7 DEF NOT, AND, OR
  <2>2. /\ mm = PushValue(m.s, 2, f.or[<<m.s[l - 1], m.s[l]>>])
        /\ nn = PushValue(n.s, 2, g.or[<<n.s[l - 1], n.s[l]>>])
    BY <1>1, <1>2, <1>3, <1>7, <2>1, Zenon DEF StepProgram
  <2>3. /\ f.or[<<m.s[l - 1], m.s[l]>>] \in V /\ g.or[<<n.s[l - 1], n.s[l]>>] \in W
        /\ <<f.or[<<m.s[l - 1], m.s[l]>>], g.or[<<n.s[l - 1], n.s[l]>>]>> \in R
    BY <1>1, <2>1, Zenon DEF Homomorphic
  <2> QED
    BY <1>2, <2>1, <2>2, <2>3, PushAlike, Zenon
<1>8. CASE ~(m.ok /\ t \in 0..(Len(p) - 1)) /\ ~(m.ok /\ t = NOT /\ l >= 1)
           /\ ~(m.ok /\ t = AND /\ l >= 2) /\ ~(m.ok /\ t = OR /\ l >= 2)
  <2>1. mm = Machine(FALSE, m.s)
    BY <1>8, Zenon DEF StepProgram
  <2>a. ~(n.ok /\ t \in 0..(Len(q) - 1)) /\ ~(n.ok /\ t = NOT /\ Len(n.s) >= 1)
        /\ ~(n.ok /\ t = AND /\ Len(n.s) >= 2) /\ ~(n.ok /\ t = OR /\ Len(n.s) >= 2)
    BY <1>1, <1>2, <1>3, <1>8
  <2>b. nn = Machine(FALSE, n.s)
    BY <2>a, Zenon DEF StepProgram
  <2>2. mm.s = m.s /\ nn.s = n.s
    BY <2>1, <2>b DEF Machine
  <2>3. ~mm.ok /\ ~nn.ok
    <3>1. ~Machine(FALSE, m.s).ok /\ ~Machine(FALSE, n.s).ok
      BY SMT DEF Machine
    <3> QED
      BY <2>1, <2>b, <3>1, Zenon
  <2> QED
    BY <1>2, <2>2, <2>3, Zenon DEF Agree
<1> QED
  BY <1>4, <1>5, <1>6, <1>7, <1>8, Zenon

(* One program over two algebras takes related filters to related results: where it has a     *)
(* result over the second, it has one over the first.                                        *)
LEMMA RunsAgree ==
  ASSUME NEW V, NEW W, NEW R, NEW f, NEW g, Homomorphic(f, g, V, W, R),
         NEW p, NEW q, Alike(p, q, V, W, R), NEW tokens \in Seq(Int)
  PROVE  RunProgram(tokens, q, g) # NoResult =>
           /\ RunProgram(tokens, p, f)[1] \in V /\ RunProgram(tokens, q, g)[1] \in W
           /\ <<RunProgram(tokens, p, f)[1], RunProgram(tokens, q, g)[1]>> \in R
<1> DEFINE m == ProgramRun(tokens, p, f)
           n == ProgramRun(tokens, q, g)
           N == Len(tokens)
           T == {k \in 0..N : Agree(m[k], n[k], V, W, R)}
<1>1. N \in Nat /\ N \in 0..N
  OBVIOUS
<1>2. /\ m[0] = Machine(TRUE, <<>>) /\ n[0] = Machine(TRUE, <<>>)
      /\ \A k \in 1..N : m[k] = StepProgram(m[k - 1], tokens[k], p, f)
                         /\ n[k] = StepProgram(n[k - 1], tokens[k], q, g)
  BY RunFrom, Zenon
<1> HIDE DEF m, n
<1>3. 0 \in T
  <2>1. Alike(<<>>, <<>>, V, W, R)
    BY DEF Alike
  <2>2. Agree(Machine(TRUE, <<>>), Machine(TRUE, <<>>), V, W, R)
    <3>1. Machine(TRUE, <<>>).s = <<>>
      BY DEF Machine
    <3> QED
      BY <2>1, <3>1, Zenon DEF Agree
  <2>3. 0 \in 0..N /\ Agree(m[0], n[0], V, W, R)
    <3>1. 0 \in 0..N
      BY <1>1
    <3> QED
      BY <1>2, <2>2, <3>1, Zenon
  <2> QED
    BY <2>3, Zenon
<1>4. ASSUME NEW k \in 1..N, k - 1 \in T
      PROVE  k \in T
  <2>1. tokens[k] \in Int /\ k \in 0..N
    BY <1>1
  <2>2. Agree(m[k - 1], n[k - 1], V, W, R)
    BY <1>4
  <2>3. Agree(m[k], n[k], V, W, R)
    BY <1>2, <2>1, <2>2, StepAgrees, Zenon
  <2> QED
    BY <2>1, <2>3
<1>5. Agree(m[N], n[N], V, W, R)
  <2> HIDE DEF T
  <2>1. \A k \in 1..N : k - 1 \in T => k \in T
    BY <1>4
  <2>2. N \in T
    BY <1>1, <1>3, <2>1, ByToken, Zenon
  <2> QED
    BY <2>2 DEF T
<1>6. /\ RunProgram(tokens, p, f) = IF m[N].ok /\ Len(m[N].s) = 1 THEN m[N].s ELSE NoResult
      /\ RunProgram(tokens, q, g) = IF n[N].ok /\ Len(n[N].s) = 1 THEN n[N].s ELSE NoResult
  BY Zenon DEF RunProgram, m, n
<1>7. CASE n[N].ok /\ Len(n[N].s) = 1
  <2>1. m[N].ok /\ Len(m[N].s) = 1
    BY <1>5, <1>7, Zenon DEF Agree, Alike
  <2>2. RunProgram(tokens, p, f) = m[N].s /\ RunProgram(tokens, q, g) = n[N].s
    BY <1>6, <1>7, <2>1, Zenon
  <2>3. m[N].s[1] \in V /\ n[N].s[1] \in W /\ <<m[N].s[1], n[N].s[1]>> \in R
    <3>1. Alike(m[N].s, n[N].s, V, W, R)
      BY <1>5, Zenon DEF Agree
    <3> QED
      BY <1>7, <2>1, <3>1 DEF Alike
  <2> QED
    BY <2>2, <2>3, Zenon
<1>8. CASE ~(n[N].ok /\ Len(n[N].s) = 1)
  BY <1>6, <1>8, Zenon
<1> QED
  BY <1>7, <1>8

-----------------------------------------------------------------------------
(* Pruning: the algebra of rows and the algebra of chunks. *)

(* A row and its chunk: what is true of the row is possible in the chunk, and what is false   *)
(* of the row is not certain in it.                                                         *)
Covers(b, p) == (b => p.maybeTrue) /\ (~b => p.maybeFalse)
Covering == {x \in BOOLEAN \X Possibilities : Covers(x[1], x[2])}

LEMMA CoveringPair ==
  ASSUME NEW b \in BOOLEAN, NEW p \in Possibilities
  PROVE  <<b, p>> \in Covering <=> Covers(b, p)
BY Zenon DEF Covering

(* filter_possible answers with two truth values. *)
LEMMA NumericType ==
  ASSUME NEW f, NEW e
  PROVE  NumericPossible(f, e) \in Possibilities
BY DEF NumericPossible, Possibilities, Possible, Unknown

LEMMA DictType ==
  ASSUME NEW f, NEW e
  PROVE  DictPossible(f, e) \in Possibilities
BY DEF DictPossible, Possibilities, Possible, Unknown

LEMMA HoldsType ==
  ASSUME NEW f, NEW x
  PROVE  Holds(f, x) \in BOOLEAN
BY DEF Holds

(* NOT, AND and OR of eval_possible keep what covers a row. *)
LEMMA NotCovers ==
  ASSUME NEW a \in BOOLEAN, NEW b \in Possibilities, Covers(a, b)
  PROVE  /\ TruthAlgebra.not[a] \in BOOLEAN /\ PossibleAlgebra.not[b] \in Possibilities
         /\ Covers(TruthAlgebra.not[a], PossibleAlgebra.not[b])
<1>1. TruthAlgebra.not[a] = ~a
  BY Zenon DEF TruthAlgebra
<1>2. PossibleAlgebra.not[b] = Possible(b.maybeFalse, b.maybeTrue)
  BY Zenon DEF PossibleAlgebra
<1>3. b.maybeFalse \in BOOLEAN /\ b.maybeTrue \in BOOLEAN
  BY DEF Possibilities
<1>4. Possible(b.maybeFalse, b.maybeTrue) \in Possibilities
  BY <1>3 DEF Possible, Possibilities
<1>5. Covers(~a, Possible(b.maybeFalse, b.maybeTrue))
  BY <1>3 DEF Covers, Possible
<1> QED
  BY <1>1, <1>2, <1>4, <1>5, Zenon

LEMMA AndCovers ==
  ASSUME NEW a \in BOOLEAN, NEW b \in Possibilities, Covers(a, b),
         NEW c \in BOOLEAN, NEW d \in Possibilities, Covers(c, d)
  PROVE  /\ TruthAlgebra.and[<<a, c>>] \in BOOLEAN /\ PossibleAlgebra.and[<<b, d>>] \in Possibilities
         /\ Covers(TruthAlgebra.and[<<a, c>>], PossibleAlgebra.and[<<b, d>>])
<1> DEFINE p == Possible(b.maybeTrue /\ d.maybeTrue, b.maybeFalse \/ d.maybeFalse)
<1>1. TruthAlgebra.and[<<a, c>>] = (a /\ c)
  BY Zenon DEF TruthAlgebra
<1>2. PossibleAlgebra.and[<<b, d>>] = p
  BY Zenon DEF PossibleAlgebra
<1>3. p.maybeTrue <=> (b.maybeTrue /\ d.maybeTrue)
  BY Zenon DEF Possible
<1>4. p.maybeFalse <=> (b.maybeFalse \/ d.maybeFalse)
  BY Zenon DEF Possible
<1>5. p \in Possibilities
  BY SMT DEF Possible, Possibilities
<1> HIDE DEF p
<1>6. Covers(a /\ c, p)
  BY <1>3, <1>4, Zenon DEF Covers
<1> QED
  BY <1>1, <1>2, <1>5, <1>6, Zenon

LEMMA OrCovers ==
  ASSUME NEW a \in BOOLEAN, NEW b \in Possibilities, Covers(a, b),
         NEW c \in BOOLEAN, NEW d \in Possibilities, Covers(c, d)
  PROVE  /\ TruthAlgebra.or[<<a, c>>] \in BOOLEAN /\ PossibleAlgebra.or[<<b, d>>] \in Possibilities
         /\ Covers(TruthAlgebra.or[<<a, c>>], PossibleAlgebra.or[<<b, d>>])
<1> DEFINE p == Possible(b.maybeTrue \/ d.maybeTrue, b.maybeFalse /\ d.maybeFalse)
<1>1. TruthAlgebra.or[<<a, c>>] = (a \/ c)
  BY Zenon DEF TruthAlgebra
<1>2. PossibleAlgebra.or[<<b, d>>] = p
  BY Zenon DEF PossibleAlgebra
<1>3. p.maybeTrue <=> (b.maybeTrue \/ d.maybeTrue)
  BY Zenon DEF Possible
<1>4. p.maybeFalse <=> (b.maybeFalse /\ d.maybeFalse)
  BY Zenon DEF Possible
<1>5. p \in Possibilities
  BY SMT DEF Possible, Possibilities
<1> HIDE DEF p
<1>6. Covers(a \/ c, p)
  BY <1>3, <1>4, Zenon DEF Covers
<1> QED
  BY <1>1, <1>2, <1>5, <1>6, Zenon

LEMMA CoveringKept == Homomorphic(TruthAlgebra, PossibleAlgebra, BOOLEAN, Possibilities, Covering)
<1>1. ASSUME NEW a \in BOOLEAN, NEW b \in Possibilities, <<a, b>> \in Covering
      PROVE  /\ TruthAlgebra.not[a] \in BOOLEAN /\ PossibleAlgebra.not[b] \in Possibilities
             /\ <<TruthAlgebra.not[a], PossibleAlgebra.not[b]>> \in Covering
  BY <1>1, CoveringPair, NotCovers, Zenon
<1>2. ASSUME NEW a \in BOOLEAN, NEW c \in BOOLEAN, NEW b \in Possibilities, NEW d \in Possibilities,
             <<a, b>> \in Covering, <<c, d>> \in Covering
      PROVE  /\ TruthAlgebra.and[<<a, c>>] \in BOOLEAN /\ PossibleAlgebra.and[<<b, d>>] \in Possibilities
             /\ <<TruthAlgebra.and[<<a, c>>], PossibleAlgebra.and[<<b, d>>]>> \in Covering
  BY <1>2, CoveringPair, AndCovers, Zenon
<1>3. ASSUME NEW a \in BOOLEAN, NEW c \in BOOLEAN, NEW b \in Possibilities, NEW d \in Possibilities,
             <<a, b>> \in Covering, <<c, d>> \in Covering
      PROVE  /\ TruthAlgebra.or[<<a, c>>] \in BOOLEAN /\ PossibleAlgebra.or[<<b, d>>] \in Possibilities
             /\ <<TruthAlgebra.or[<<a, c>>], PossibleAlgebra.or[<<b, d>>]>> \in Covering
  BY <1>3, CoveringPair, OrCovers, Zenon
<1> DEFINE f == TruthAlgebra
           g == PossibleAlgebra
<1>4. \A a \in BOOLEAN, b \in Possibilities : <<a, b>> \in Covering =>
        f.not[a] \in BOOLEAN /\ g.not[b] \in Possibilities /\ <<f.not[a], g.not[b]>> \in Covering
  BY <1>1, Zenon
<1>5. \A a, c \in BOOLEAN, b, d \in Possibilities : <<a, b>> \in Covering /\ <<c, d>> \in Covering =>
        f.and[<<a, c>>] \in BOOLEAN /\ g.and[<<b, d>>] \in Possibilities
        /\ <<f.and[<<a, c>>], g.and[<<b, d>>]>> \in Covering
  BY <1>2, Zenon
<1>6. \A a, c \in BOOLEAN, b, d \in Possibilities : <<a, b>> \in Covering /\ <<c, d>> \in Covering =>
        f.or[<<a, c>>] \in BOOLEAN /\ g.or[<<b, d>>] \in Possibilities
        /\ <<f.or[<<a, c>>], g.or[<<b, d>>]>> \in Covering
  BY <1>3, Zenon
<1> QED
  BY <1>4, <1>5, <1>6, Zenon DEF Homomorphic

(* The decision about a chunk and a row of it. *)
LEMMA PrunedHasNoMatch ==
  ASSUME NEW c, PlainChunk(table[c]), PlainQuery(query), IsPruned(c), NEW i \in DOMAIN table[c]["k"]
  PROVE  ~Matches(c, i)
<1> DEFINE filters == query.filters
           one == [j \in DOMAIN filters |-> Holds(filters[j], table[c][filters[j].col][i])]
           st == [j \in DOMAIN filters |->
                    FilterPossible(filters[j], PageStats(filters[j].col, table[c][filters[j].col]))]
           n == Len(filters)
<1>1. n \in Nat /\ DOMAIN filters = 1..n /\ query.combine \in Seq(Int)
  BY DEF PlainQuery
<1>2. ASSUME NEW j \in 1..n
      PROVE  /\ one[j] \in BOOLEAN /\ st[j] \in Possibilities
             /\ one[j] => st[j].maybeTrue
             /\ ~one[j] => st[j].maybeFalse
  <2>1. PlainFilter(filters[j])
    BY <1>1 DEF PlainQuery
  <2>2. one[j] = Holds(filters[j], table[c][filters[j].col][i])
    BY <1>1, Zenon
  <2>3. st[j] = FilterPossible(filters[j], PageStats(filters[j].col, table[c][filters[j].col]))
    BY <1>1, Zenon
  <2>4. st[j] \in Possibilities
    <3>1. Unknown \in Possibilities
      BY DEF Unknown, Possible, Possibilities
    <3> QED
      BY <2>3, <3>1, NumericType, DictType, Zenon DEF FilterPossible
  <2>5. one[j] \in BOOLEAN
    BY <2>2, HoldsType, Zenon
  <2> QED
    BY <2>1, <2>2, <2>3, <2>4, <2>5, FilterSound, Zenon
<1>3. one \in Seq(BOOLEAN) /\ st \in Seq(Possibilities) /\ Len(one) = n /\ Len(st) = n
  <2>1. one \in [1..n -> BOOLEAN] /\ st \in [1..n -> Possibilities]
    BY <1>1, <1>2
  <2> QED
    BY <1>1, <2>1
<1>4. filters # <<>> /\ IF query.combine = <<>> THEN \E j \in DOMAIN st : ~st[j].maybeTrue
                        ELSE RunProgram(query.combine, st, PossibleAlgebra) # NoResult
                             /\ ~RunProgram(query.combine, st, PossibleAlgebra)[1].maybeTrue
  BY Zenon DEF IsPruned, Pruned, EvalPossible
<1>5. Matches(c, i) <=> IF query.combine = <<>> THEN \A j \in DOMAIN one : one[j]
                        ELSE RunProgram(query.combine, one, TruthAlgebra)[1]
  BY Zenon DEF Matches
<1>6. DOMAIN one = 1..n /\ DOMAIN st = 1..n
  BY <1>1, Zenon
<1> HIDE DEF one, st
<1>7. CASE query.combine = <<>>
  BY <1>2, <1>4, <1>5, <1>6, <1>7, Zenon
<1>8. CASE query.combine # <<>>
  <2> DEFINE b == RunProgram(query.combine, one, TruthAlgebra)[1]
             p == RunProgram(query.combine, st, PossibleAlgebra)[1]
  <2>1. Alike(one, st, BOOLEAN, Possibilities, Covering)
    <3>1. \A j \in 1..n : <<one[j], st[j]>> \in Covering
      BY <1>2, CoveringPair, Zenon DEF Covers
    <3> QED
      BY <1>3, <3>1, Zenon DEF Alike
  <2>2. b \in BOOLEAN /\ p \in Possibilities /\ <<b, p>> \in Covering
    BY <1>1, <1>4, <1>8, <2>1, CoveringKept, RunsAgree, Zenon
  <2>3. Covers(b, p)
    BY <2>2, CoveringPair, Zenon
  <2> QED
    BY <1>4, <1>5, <1>8, <2>3, Zenon DEF Covers
<1> QED
  BY <1>7, <1>8

-----------------------------------------------------------------------------
(* Masks: the algebra of rows and the algebra of sets of rows. *)

(* A function on 1..n is a sequence of length n. *)
LEMMA SequenceOf ==
  ASSUME NEW V, NEW n \in Nat, NEW s \in [1..n -> V]
  PROVE  s \in Seq(V) /\ Len(s) = n
OBVIOUS

(* The mask of a filter holds the rows it holds for. *)
LEMMA FilterMaskExact ==
  ASSUME NEW f, PlainFilter(f), NEW column, Plain(column), NEW i \in DOMAIN column
  PROVE  i \in ApplyValidity(column, FilterMask(column, f)) <=> Holds(f, column[i])
<1> DEFINE x == column[i]
           mask == FilterMask(column, f)
<1>1. i \in ApplyValidity(column, mask) <=> x # Null /\ i \in mask
  BY Zenon DEF ApplyValidity, FilterMask, LikeMask, SingleMask
<1>2. CASE x = Null
  BY <1>1, <1>2, Zenon DEF Holds
<1>3. CASE x # Null
  <2>1. ASSUME NEW op, NEW a, NEW b
        PROVE  i \in SingleMask(column, op, a, b) <=> Cmp(x, op, a, b)
    BY <1>3, Zenon DEF SingleMask
  <2>2. CASE f.op = "like"
    <3>1. mask = LikeMask(column, f.like, FALSE)
      BY <2>2, Zenon DEF FilterMask
    <3>2. i \in mask <=> x \in f.like
      BY <1>3, <3>1, Zenon DEF LikeMask
    <3> QED
      BY <1>1, <1>3, <2>2, <3>2, Zenon DEF Holds
  <2>3. CASE f.op = "notlike"
    <3>1. mask = LikeMask(column, f.like, TRUE)
      BY <2>3, Zenon DEF FilterMask
    <3>2. i \in mask <=> x \notin f.like
      BY <1>3, <3>1, Zenon DEF LikeMask
    <3> QED
      BY <1>1, <1>3, <2>3, <3>2, Zenon DEF Holds
  <2>4. CASE f.op \notin {"like", "notlike"} /\ f.list # NoList
    <3>1. mask = UNION {SingleMask(column, f.op, v, v) : v \in Range(f.list)} /\ f.op = "eq"
      BY <2>4, Zenon DEF FilterMask, PlainFilter
    <3>2. i \in mask <=> \E v \in Range(f.list) : i \in SingleMask(column, f.op, v, v)
      BY <3>1, Zenon
    <3>3. \A v : Cmp(x, f.op, v, v) <=> x = v
      BY <3>1 DEF Cmp
    <3>4. i \in mask <=> x \in Range(f.list)
      BY <2>1, <3>2, <3>3, Zenon
    <3>5. Holds(f, x) <=> x # Null /\ x \in Range(f.list)
      BY <2>4, Zenon DEF Holds
    <3> QED
      BY <1>1, <1>3, <3>4, <3>5, Zenon
  <2>5. CASE f.op \notin {"like", "notlike"} /\ f.list = NoList
    <3>1. mask = SingleMask(column, f.op, f.value, f.value2)
      BY <2>5, Zenon DEF FilterMask
    <3> QED
      BY <1>1, <1>3, <2>1, <2>5, <3>1, Zenon DEF Holds
  <2> QED
    BY <2>2, <2>3, <2>4, <2>5, Zenon
<1> QED
  BY <1>2, <1>3

(* A truth value and a set of rows say the same of row i. *)
Saying(rows, i) == {x \in BOOLEAN \X (SUBSET rows) : x[1] <=> i \in x[2]}

LEMMA SayingPair ==
  ASSUME NEW rows, NEW i, NEW b \in BOOLEAN, NEW m \in SUBSET rows
  PROVE  <<b, m>> \in Saying(rows, i) <=> (b <=> i \in m)
BY Zenon DEF Saying

(* Complement, intersection and union of masks are NOT, AND and OR of every row. *)
LEMMA SayingKept ==
  ASSUME NEW rows, NEW i \in rows
  PROVE  Homomorphic(TruthAlgebra, MaskAlgebra(rows), BOOLEAN, SUBSET rows, Saying(rows, i))
<1> DEFINE f == TruthAlgebra
           g == MaskAlgebra(rows)
           R == Saying(rows, i)
<1>1. ASSUME NEW a \in BOOLEAN, NEW b \in SUBSET rows
      PROVE  f.not[a] = ~a /\ g.not[b] = rows \ b
  BY Zenon DEF TruthAlgebra, MaskAlgebra
<1>2. ASSUME NEW a \in BOOLEAN, NEW c \in BOOLEAN
      PROVE  f.and[<<a, c>>] = (a /\ c) /\ f.or[<<a, c>>] = (a \/ c)
  BY Zenon DEF TruthAlgebra
<1>3. ASSUME NEW b \in SUBSET rows, NEW d \in SUBSET rows
      PROVE  g.and[<<b, d>>] = b \cap d /\ g.or[<<b, d>>] = b \cup d
  BY Zenon DEF MaskAlgebra
<1> HIDE DEF f, g
<1>4. \A a \in BOOLEAN, b \in SUBSET rows : <<a, b>> \in R =>
        f.not[a] \in BOOLEAN /\ g.not[b] \in SUBSET rows /\ <<f.not[a], g.not[b]>> \in R
  <2> TAKE a \in BOOLEAN, b \in SUBSET rows
  <2>1. rows \ b \in SUBSET rows /\ (~a) \in BOOLEAN
    OBVIOUS
  <2>2. <<a, b>> \in R => <<~a, rows \ b>> \in R
    BY <2>1, SayingPair, Zenon
  <2> QED
    BY <1>1, <2>1, <2>2, Zenon
<1>5. \A a, c \in BOOLEAN, b, d \in SUBSET rows : <<a, b>> \in R /\ <<c, d>> \in R =>
        f.and[<<a, c>>] \in BOOLEAN /\ g.and[<<b, d>>] \in SUBSET rows
        /\ <<f.and[<<a, c>>], g.and[<<b, d>>]>> \in R
  <2> TAKE a, c \in BOOLEAN, b, d \in SUBSET rows
  <2>1. b \cap d \in SUBSET rows /\ (a /\ c) \in BOOLEAN
    BY Zenon
  <2>2. <<a, b>> \in R /\ <<c, d>> \in R => <<a /\ c, b \cap d>> \in R
    BY <2>1, SayingPair, Zenon
  <2> QED
    BY <1>2, <1>3, <2>1, <2>2, Zenon
<1>6. \A a, c \in BOOLEAN, b, d \in SUBSET rows : <<a, b>> \in R /\ <<c, d>> \in R =>
        f.or[<<a, c>>] \in BOOLEAN /\ g.or[<<b, d>>] \in SUBSET rows
        /\ <<f.or[<<a, c>>], g.or[<<b, d>>]>> \in R
  <2> TAKE a, c \in BOOLEAN, b, d \in SUBSET rows
  <2>1. b \cup d \in SUBSET rows /\ (a \/ c) \in BOOLEAN
    BY Zenon
  <2>2. <<a, b>> \in R /\ <<c, d>> \in R => <<a \/ c, b \cup d>> \in R
    BY <2>1, SayingPair, Zenon
  <2> QED
    BY <1>2, <1>3, <2>1, <2>2, Zenon
<1> HIDE DEF R
<1> QED
  BY <1>4, <1>5, <1>6, Zenon DEF Homomorphic, f, g, R

(* plan_exec_chunk's mask is the meaning of WHERE: whatever the filters, the program that    *)
(* combines them and the NULLs of the chunk, a row is in it exactly when the query matches  *)
(* the row.  (A program that is not well formed is refused with -9: there is no mask.)      *)
THEOREM MaskIsMeaning ==
  ASSUME NEW c, PlainChunk(table[c]), PlainQuery(query), NEW i \in DOMAIN table[c]["k"],
         query.filters # <<>> \/ query.combine = <<>>,
         ChunkMask(query.filters, query.combine, table[c]) # NoResult
  PROVE  i \in ChunkMask(query.filters, query.combine, table[c])[1] <=> Matches(c, i)
<1> DEFINE filters == query.filters
           rows == DOMAIN table[c]["k"]
           one == [j \in DOMAIN filters |-> Holds(filters[j], table[c][filters[j].col][i])]
           masks == [j \in DOMAIN filters |->
                       ApplyValidity(table[c][filters[j].col], FilterMask(table[c][filters[j].col], filters[j]))]
           r == ChunkMask(filters, query.combine, table[c])
           n == Len(filters)
<1>1. n \in Nat /\ DOMAIN filters = 1..n /\ query.combine \in Seq(Int)
  BY DEF PlainQuery
<1>2. ASSUME NEW j \in 1..n
      PROVE  one[j] \in BOOLEAN /\ masks[j] \in SUBSET rows /\ (one[j] <=> i \in masks[j])
  <2>1. PlainFilter(filters[j])
    BY <1>1 DEF PlainQuery
  <2>2. one[j] = Holds(filters[j], table[c][filters[j].col][i])
    BY <1>1, Zenon
  <2>3. masks[j] = ApplyValidity(table[c][filters[j].col], FilterMask(table[c][filters[j].col], filters[j]))
    BY <1>1, Zenon
  <2>4. DOMAIN table[c][filters[j].col] = rows /\ Plain(table[c][filters[j].col])
    BY <2>1 DEF PlainChunk, Plain, PlainFilter
  <2>5. FilterMask(table[c][filters[j].col], filters[j]) \in SUBSET rows
    BY <2>4, Zenon DEF FilterMask, LikeMask, SingleMask
  <2>6. masks[j] \in SUBSET rows
    BY <2>3, <2>5, Zenon DEF ApplyValidity
  <2> QED
    <3> DEFINE column == table[c][filters[j].col]
    <3>1. Plain(column) /\ i \in DOMAIN column
      BY <2>4, Zenon
    <3> HIDE DEF column
    <3>2. i \in ApplyValidity(column, FilterMask(column, filters[j])) <=> Holds(filters[j], column[i])
      BY <2>1, <3>1, FilterMaskExact, Zenon
    <3>3. i \in masks[j] <=> one[j]
      BY <2>2, <2>3, <3>2, Zenon DEF column
    <3> QED
      BY <2>2, <2>6, <3>3, HoldsType, Zenon
<1>3. one \in Seq(BOOLEAN) /\ masks \in Seq(SUBSET rows) /\ Len(one) = n /\ Len(masks) = n
  <2>1. one \in [1..n -> BOOLEAN] /\ masks \in [1..n -> SUBSET rows]
    BY <1>1, <1>2
  <2> HIDE DEF one, masks
  <2> QED
    BY <1>1, <2>1, SequenceOf, Zenon
<1>4. r = CASE masks = <<>> -> <<rows>>
            [] masks # <<>> /\ query.combine = <<>> -> <<{k \in rows : \A j \in DOMAIN masks : k \in masks[j]}>>
            [] OTHER -> RunProgram(query.combine, masks, MaskAlgebra(rows))
  BY Zenon DEF ChunkMask, CombineMasks
<1>5. Matches(c, i) <=> IF query.combine = <<>> THEN \A j \in DOMAIN one : one[j]
                        ELSE RunProgram(query.combine, one, TruthAlgebra)[1]
  BY Zenon DEF Matches
<1>6. DOMAIN one = 1..n /\ DOMAIN masks = 1..n
  BY <1>1, Zenon
<1>7. masks = <<>> <=> n = 0
  BY <1>1, <1>3, <1>6
<1>8. filters = <<>> <=> n = 0
  BY <1>1 DEF PlainQuery
<1> HIDE DEF one, masks, r
<1>9. CASE n = 0
  <2>1. r = <<rows>> /\ query.combine = <<>>
    BY <1>4, <1>7, <1>8, <1>9, Zenon
  <2>2. \A j \in DOMAIN one : one[j]
    <3>1. DOMAIN one = {}
      BY <1>6, <1>9
    <3> QED
      BY <3>1, Zenon
  <2>3. r[1] = rows
    BY <2>1
  <2> QED
    BY <1>5, <2>1, <2>2, <2>3, Zenon DEF r
<1>10. CASE n # 0 /\ query.combine = <<>>
  <2> DEFINE all == {k \in rows : \A j \in DOMAIN masks : k \in masks[j]}
  <2>1. r = <<all>>
    BY <1>4, <1>7, <1>10, Zenon
  <2> HIDE DEF all
  <2>2. r[1] = all
    BY <2>1
  <2>3. i \in all <=> \A j \in DOMAIN masks : i \in masks[j]
    BY Zenon DEF all
  <2> QED
    BY <1>2, <1>5, <1>6, <1>10, <2>2, <2>3, Zenon DEF r
<1>11. CASE n # 0 /\ query.combine # <<>>
  <2> DEFINE b == RunProgram(query.combine, one, TruthAlgebra)[1]
             m == RunProgram(query.combine, masks, MaskAlgebra(rows))[1]
  <2>1. r = RunProgram(query.combine, masks, MaskAlgebra(rows)) /\ r # NoResult
    BY <1>4, <1>7, <1>11, Zenon DEF r
  <2>a. \A x \in BOOLEAN, y \in SUBSET rows : <<x, y>> \in Saying(rows, i) <=> (x <=> i \in y)
    BY SayingPair, Zenon
  <2>2. Alike(one, masks, BOOLEAN, SUBSET rows, Saying(rows, i))
    <3>1. \A j \in 1..n : <<one[j], masks[j]>> \in Saying(rows, i)
      BY <1>2, <2>a, Zenon
    <3> QED
      BY <1>3, <3>1, Zenon DEF Alike
  <2>3. b \in BOOLEAN /\ m \in SUBSET rows /\ <<b, m>> \in Saying(rows, i)
    BY <1>1, <2>1, <2>2, SayingKept, RunsAgree, Zenon
  <2>4. b <=> i \in m
    BY <2>3, <2>a, Zenon
  <2> QED
    BY <1>5, <1>11, <2>1, <2>4, Zenon DEF r
<1> QED
  BY <1>9, <1>10, <1>11

(* PruneSound, for any tables, queries and workers: a chunk that plan_required_pages rules   *)
(* out by its statistics holds no row the query matches.  The hypotheses are on the files    *)
(* and the queries alone, and the code needs them: a NOT of a BETWEEN whose bounds are not   *)
(* in order, a range comparison with a text the dictionary lacks, and # with a negative id   *)
(* each prune chunks that hold matches.                                                     *)
THEOREM PrunedNeverMatches ==
  ASSUME \A t \in Tables : \A c \in DOMAIN t : PlainChunk(t[c]),
         \A q \in Queries : PlainQuery(q)
  PROVE  Spec => []PruneSound
<1> DEFINE Inv == table \in Tables /\ query \in Queries
<1>1. Init => Inv
  BY DEF Init
<1>2. Inv /\ [Next]_vars => Inv'
  BY DEF Next, vars, SkipChunk, RunTask, FallBack, Reduce, LocalChunk, LocalFinish
<1>3. Inv => PruneSound
  <2> SUFFICES ASSUME Inv, NEW c \in Chunks, IsPruned(c), NEW i \in DOMAIN table[c]["k"]
               PROVE  ~Matches(c, i)
    BY DEF PruneSound
  <2>1. PlainChunk(table[c]) /\ PlainQuery(query)
    BY DEF Chunks
  <2> QED
    BY <2>1, PrunedHasNoMatch
<1> QED
  BY <1>1, <1>2, <1>3, PTL DEF Spec
-----------------------------------------------------------------------------
(* Finite sets in an order. *)

\* R orders S strictly and totally; what of S is before x; s lists S in that order.
Orders(R, S) ==
    /\ \A x \in S : <<x, x>> \notin R
    /\ \A x, y, z \in S : <<x, y>> \in R /\ <<y, z>> \in R => <<x, z>> \in R
    /\ \A x, y \in S : x # y => <<x, y>> \in R \/ <<y, x>> \in R
Under(x, S, R) == {y \in S : <<y, x>> \in R}
Lists(s, S, R) ==
    /\ s \in [1..Cardinality(S) -> S]
    /\ \A i \in 1..Cardinality(S) : Cardinality(Under(s[i], S, R)) = i - 1

(* The place of an element in a finite order is a bijection onto 0..n - 1, and keeps the order. *)
LEMMA Places ==
  ASSUME NEW S, IsFiniteSet(S), NEW R, Orders(R, S)
  PROVE  /\ Cardinality(S) \in Nat
         /\ \A x \in S : Cardinality(Under(x, S, R)) \in 0..(Cardinality(S) - 1)
         /\ \A x, y \in S : <<x, y>> \in R <=> Cardinality(Under(x, S, R)) < Cardinality(Under(y, S, R))
         /\ \A x, y \in S : Cardinality(Under(x, S, R)) = Cardinality(Under(y, S, R)) => x = y
         /\ \A i \in 0..(Cardinality(S) - 1) : \E x \in S : Cardinality(Under(x, S, R)) = i
<1> DEFINE n == Cardinality(S)
           place == [x \in S |-> Cardinality(Under(x, S, R))]
<1>1. n \in Nat
  BY FS_CardinalityType
<1>2. \A x \in S : Under(x, S, R) \in SUBSET S /\ IsFiniteSet(Under(x, S, R)) /\ place[x] \in Nat
  <2> TAKE x \in S
  <2>1. Under(x, S, R) \in SUBSET S
    BY DEF Under
  <2> QED
    BY <2>1, FS_Subset, FS_CardinalityType
<1>3. \A x \in S : place[x] < n
  <2> TAKE x \in S
  <2>1. x \notin Under(x, S, R)
    BY DEF Under, Orders
  <2>2. place[x] <= n /\ place[x] # n
    BY <1>2, <2>1, FS_Subset
  <2> QED
    BY <1>1, <1>2, <2>2
<1>4. \A x, y \in S : <<x, y>> \in R => place[x] < place[y]
  <2> SUFFICES ASSUME NEW x \in S, NEW y \in S, <<x, y>> \in R
               PROVE  place[x] < place[y]
    OBVIOUS
  <2>1. Under(x, S, R) \in SUBSET Under(y, S, R)
    BY Zenon DEF Under, Orders
  <2>2. x \in Under(y, S, R) /\ x \notin Under(x, S, R)
    BY Zenon DEF Under, Orders
  <2>3. place[x] <= place[y] /\ place[x] # place[y]
    BY <1>2, <2>1, <2>2, FS_Subset
  <2> QED
    BY <1>2, <2>3
<1>5. \A x, y \in S : place[x] = place[y] => x = y
  <2> SUFFICES ASSUME NEW x \in S, NEW y \in S, place[x] = place[y], x # y
               PROVE  FALSE
    OBVIOUS
  <2>1. <<x, y>> \in R \/ <<y, x>> \in R
    BY Zenon DEF Orders
  <2> QED
    BY <1>2, <1>4, <2>1
<1>6. \A x, y \in S : place[x] < place[y] => <<x, y>> \in R
  <2> SUFFICES ASSUME NEW x \in S, NEW y \in S, place[x] < place[y]
               PROVE  <<x, y>> \in R
    OBVIOUS
  <2>1. x # y /\ ~(place[y] < place[x])
    BY <1>2
  <2> QED
    BY <1>4, <2>1, Zenon DEF Orders
<1>7. \A i \in 0..(n - 1) : \E x \in S : place[x] = i
  <2>1. place \in [S -> 0..(n - 1)]
    BY <1>1, <1>2, <1>3
  <2>2. place \in Injection(S, 0..(n - 1))
    BY <1>5, <2>1, Fun_IsInj
  <2>3. IsFiniteSet(0..(n - 1)) /\ Cardinality(0..(n - 1)) = n
    BY <1>1, FS_Interval
  <2>4. place \in Surjection(S, 0..(n - 1))
    BY <2>2, <2>3, FS_Injection
  <2> HIDE DEF place
  <2>5. \A i \in 0..(n - 1) : \E x \in S : place[x] = i
    BY <2>4, Zenon DEF Surjection
  <2> QED
    BY <2>5
<1> QED
  BY <1>1, <1>2, <1>3, <1>4, <1>5, <1>6, <1>7

(* A listing of S holds each element once and in order. *)
LEMMA Listed ==
  ASSUME NEW S, IsFiniteSet(S), NEW R, Orders(R, S), NEW s, Lists(s, S, R)
  PROVE  /\ Cardinality(S) \in Nat
         /\ s \in [1..Cardinality(S) -> S]
         /\ \A i, j \in 1..Cardinality(S) : <<s[i], s[j]>> \in R <=> i < j
         /\ \A i, j \in 1..Cardinality(S) : s[i] = s[j] => i = j
         /\ \A x \in S : \E i \in 1..Cardinality(S) : s[i] = x
<1> DEFINE n == Cardinality(S)
           place(x) == Cardinality(Under(x, S, R))
<1>1. n \in Nat /\ s \in [1..n -> S] /\ \A i \in 1..n : s[i] \in S /\ place(s[i]) = i - 1
  BY Places DEF Lists
<1>2. \A i, j \in 1..n : <<s[i], s[j]>> \in R <=> i < j
  <2> TAKE i, j \in 1..n
  <2>1. <<s[i], s[j]>> \in R <=> place(s[i]) < place(s[j])
    BY <1>1, Places
  <2> HIDE DEF place
  <2> QED
    BY <1>1, <2>1
<1>3. \A i, j \in 1..n : s[i] = s[j] => i = j
  <2> HIDE DEF place
  <2> QED
    BY <1>1
<1>4. \A x \in S : \E i \in 1..n : s[i] = x
  <2> TAKE x \in S
  <2>1. place(x) \in 0..(n - 1)
    BY Places
  <2> DEFINE i == place(x) + 1
  <2>2. i \in 1..n /\ i - 1 = place(x)
    BY <1>1, <2>1
  <2>3. place(s[i]) = place(x) /\ s[i] \in S
    BY <1>1, <2>2
  <2>4. s[i] = x
    BY <2>3, Places
  <2> QED
    BY <2>2, <2>4
<1> QED
  BY <1>1, <1>2, <1>3, <1>4

(* There is one listing. *)
LEMMA ListedOnce ==
  ASSUME NEW S, IsFiniteSet(S), NEW R, Orders(R, S), NEW s, Lists(s, S, R), NEW t, Lists(t, S, R)
  PROVE  s = t
<1> DEFINE n == Cardinality(S)
<1>1. \A i \in 1..n : s[i] = t[i]
  <2> TAKE i \in 1..n
  <2>1. s[i] \in S /\ t[i] \in S /\ Cardinality(Under(s[i], S, R)) = Cardinality(Under(t[i], S, R))
    BY DEF Lists
  <2> QED
    BY <2>1, Places
<1>2. s \in [1..n -> S] /\ t \in [1..n -> S]
  BY DEF Lists
<1>3. n \in Nat
  BY FS_CardinalityType
<1> HIDE DEF n
<1>4. s = [i \in 1..n |-> s[i]] /\ t = [i \in 1..n |-> t[i]]
  BY <1>2
<1> QED
  BY <1>1, <1>4

(* A sequence that is increasing and leaves nothing of S out is a listing of S. *)
LEMMA IncreasingLists ==
  ASSUME NEW S, NEW R, Orders(R, S), NEW n \in Nat, NEW s \in [1..n -> S],
         \A x \in S : \E i \in 1..n : s[i] = x,
         \A i, j \in 1..n : i < j => <<s[i], s[j]>> \in R
  PROVE  IsFiniteSet(S) /\ Cardinality(S) = n /\ Lists(s, S, R)
<1>1. \A i, j \in 1..n : <<s[i], s[j]>> \in R <=> i < j
  <2> SUFFICES ASSUME NEW i \in 1..n, NEW j \in 1..n, <<s[i], s[j]>> \in R, ~(i < j)
               PROVE  FALSE
    OBVIOUS
  <2>1. i = j \/ j < i
    OBVIOUS
  <2>2. CASE i = j
    BY <2>2 DEF Orders
  <2>3. CASE j < i
    <3>1. <<s[j], s[i]>> \in R
      BY <2>3
    <3>2. s[i] \in S /\ s[j] \in S
      OBVIOUS
    <3> QED
      BY <3>1, <3>2, Zenon DEF Orders
  <2> QED
    BY <2>1, <2>2, <2>3
<1>2. \A i, j \in 1..n : s[i] = s[j] => i = j
  <2> SUFFICES ASSUME NEW i \in 1..n, NEW j \in 1..n, s[i] = s[j], i # j
               PROVE  FALSE
    OBVIOUS
  <2>1. i < j \/ j < i
    OBVIOUS
  <2>2. s[i] \in S /\ <<s[i], s[i]>> \notin R
    BY DEF Orders
  <2> QED
    BY <1>1, <2>1, <2>2
<1>3. s \in Bijection(1..n, S)
  BY <1>2, Fun_IsBij
<1>4. IsFiniteSet(1..n) /\ Cardinality(1..n) = n
  BY FS_Interval
<1>5. IsFiniteSet(S) /\ Cardinality(S) = n
  BY <1>3, <1>4, FS_Bijection DEF ExistsBijection
<1>6. ASSUME NEW i \in 1..n
      PROVE  Cardinality(Under(s[i], S, R)) = i - 1
  <2> DEFINE f == [j \in 1..(i - 1) |-> s[j]]
             U == Under(s[i], S, R)
  <2>1. \A j \in 1..(i - 1) : j \in 1..n /\ j < i
    OBVIOUS
  <2>2. f \in [1..(i - 1) -> U]
    BY <1>1, <2>1 DEF Under
  <2>3. \A a, b \in 1..(i - 1) : f[a] = f[b] => a = b
    BY <1>2, <2>1
  <2>4. \A y \in U : \E j \in 1..(i - 1) : f[j] = y
    <3> SUFFICES ASSUME NEW y \in U
                 PROVE  \E j \in 1..(i - 1) : f[j] = y
      OBVIOUS
    <3>1. y \in S /\ <<y, s[i]>> \in R
      BY DEF Under
    <3>2. PICK j \in 1..n : s[j] = y
      BY <3>1
    <3>3. j < i
      BY <1>1, <3>1, <3>2
    <3> QED
      BY <3>2, <3>3
  <2>5. f \in Bijection(1..(i - 1), U)
    BY <2>2, <2>3, <2>4, Fun_IsBij
  <2>6. IsFiniteSet(1..(i - 1)) /\ Cardinality(1..(i - 1)) = i - 1
    <3>1. i - 1 \in Nat
      OBVIOUS
    <3> QED
      BY <3>1, FS_Interval
  <2> HIDE DEF f
  <2> QED
    BY <2>5, <2>6, FS_Bijection DEF ExistsBijection
<1> QED
  BY <1>5, <1>6 DEF Lists

(* What Sorted chooses for each place is there to be chosen, so it lists the set. *)
LEMMA ChosenLists ==
  ASSUME NEW S, IsFiniteSet(S), NEW R, Orders(R, S), NEW s, s = [i \in 1..Cardinality(S) |-> s[i]],
         \A i \in 1..Cardinality(S) :
           (\E x \in S : Cardinality(Under(x, S, R)) = i - 1)
             => s[i] \in S /\ Cardinality(Under(s[i], S, R)) = i - 1
  PROVE  Lists(s, S, R)
<1> DEFINE n == Cardinality(S)
<1>1. n \in Nat /\ \A i \in 0..(n - 1) : \E x \in S : Cardinality(Under(x, S, R)) = i
  BY Places, Zenon
<1>2. \A i \in 1..n : i - 1 \in 0..(n - 1)
  BY <1>1
<1>3. \A i \in 1..n : s[i] \in S /\ Cardinality(Under(s[i], S, R)) = i - 1
  BY <1>1, <1>2, Zenon
<1>4. s \in [1..n -> S]
  BY <1>3, Zenon
<1> QED
  BY <1>3, <1>4, Zenon DEF Lists

\* The order of numbers on S.
Numeric(S) == {p \in S \X S : p[1] < p[2]}

(* Numbers are in an order. *)
LEMMA NumericOrders ==
  ASSUME NEW S \in SUBSET Int
  PROVE  Orders(Numeric(S), S) /\ \A x, y \in S : <<x, y>> \in Numeric(S) <=> x < y
<1>1. \A x, y \in S : <<x, y>> \in Numeric(S) <=> x < y
  BY DEF Numeric
<1>2. \A x, y, z \in S : ~(x < x) /\ (x < y /\ y < z => x < z) /\ (x # y => x < y \/ y < x)
  OBVIOUS
<1> QED
  BY <1>1, <1>2, Zenon DEF Orders

(* Ascending lists a finite set of numbers from the least. *)
LEMMA AscendingLists ==
  ASSUME NEW S \in SUBSET Int, IsFiniteSet(S)
  PROVE  Lists(Ascending(S), S, Numeric(S))
<1> DEFINE s == Ascending(S)
           n == Cardinality(S)
           R == Numeric(S)
<1>1. Orders(R, S) /\ \A x, y \in S : <<x, y>> \in R <=> x < y
  BY NumericOrders, Zenon
<1>2. s = [i \in 1..n |-> CHOOSE x \in S : Cardinality({y \in S : y < x}) = i - 1]
  BY Zenon DEF Ascending, Sorted
<1>3. \A x \in S : Under(x, S, R) = {y \in S : y < x}
  BY <1>1, Zenon DEF Under
<1> HIDE DEF R
<1>4. s = [i \in 1..n |-> s[i]] /\ \A i \in 1..n : s[i] = CHOOSE x \in S : Cardinality({y \in S : y < x}) = i - 1
  <2> HIDE DEF s, n
  <2>1. DOMAIN s = 1..n /\ \A i \in 1..n : s[i] = CHOOSE x \in S : Cardinality({y \in S : y < x}) = i - 1
    BY <1>2, Zenon
  <2> QED
    BY <1>2, <2>1
<1> HIDE DEF s
<1>5. ASSUME NEW i \in 1..n, \E x \in S : Cardinality(Under(x, S, R)) = i - 1
      PROVE  s[i] \in S /\ Cardinality(Under(s[i], S, R)) = i - 1
  <2>1. \E x \in S : Cardinality({y \in S : y < x}) = i - 1
    BY <1>3, <1>5, Zenon
  <2>2. s[i] \in S /\ Cardinality({y \in S : y < s[i]}) = i - 1
    BY <1>4, <2>1, Zenon
  <2> QED
    BY <1>3, <2>2, Zenon
<1> QED
  BY <1>1, <1>4, <1>5, ChosenLists, Zenon DEF s, R

(* Ascending(S) holds each number of S once, the smaller ones first. *)
LEMMA AscendingIs ==
  ASSUME NEW S \in SUBSET Int, IsFiniteSet(S)
  PROVE  /\ Cardinality(S) \in Nat
         /\ Ascending(S) \in [1..Cardinality(S) -> S]
         /\ Ascending(S) \in Seq(S) /\ Len(Ascending(S)) = Cardinality(S)
         /\ \A i, j \in 1..Cardinality(S) : Ascending(S)[i] < Ascending(S)[j] <=> i < j
         /\ \A i, j \in 1..Cardinality(S) : Ascending(S)[i] = Ascending(S)[j] => i = j
         /\ \A x \in S : \E i \in 1..Cardinality(S) : Ascending(S)[i] = x
<1> DEFINE s == Ascending(S)
           n == Cardinality(S)
           R == Numeric(S)
<1>1. Orders(R, S) /\ \A x, y \in S : <<x, y>> \in R <=> x < y
  BY NumericOrders, Zenon
<1>2. Lists(s, S, R)
  BY AscendingLists, Zenon
<1> HIDE DEF s, R
<1>3. /\ n \in Nat
      /\ s \in [1..n -> S]
      /\ \A i, j \in 1..n : <<s[i], s[j]>> \in R <=> i < j
      /\ \A i, j \in 1..n : s[i] = s[j] => i = j
      /\ \A x \in S : \E i \in 1..n : s[i] = x
  BY <1>1, <1>2, Listed, Zenon
<1>4. s \in Seq(S) /\ Len(s) = n
  BY <1>3, SequenceOf, Zenon
<1>5. \A i \in 1..n : s[i] \in S
  BY <1>3, Zenon
<1>6. \A i, j \in 1..n : s[i] < s[j] <=> i < j
  BY <1>1, <1>3, <1>5, Zenon
<1> QED
  BY <1>3, <1>4, <1>6, Zenon DEF s

(* ByToken, for its last number. *)
LEMMA AllReached ==
  ASSUME NEW n \in Nat, NEW T, 0 \in T, \A k \in 1..n : k - 1 \in T => k \in T
  PROVE  n \in T
BY ByToken

(* aggregate_column's loop. *)
LEMMA AggregateFold ==
  ASSUME NEW column, NEW mask, Len(Ascending(ApplyValidity(column, mask))) \in Nat
  PROVE  \E f : /\ f[0] = EmptyAgg
                /\ \A k \in 1..Len(Ascending(ApplyValidity(column, mask))) : f[k] = UpdateAgg(f[k - 1], column[Ascending(ApplyValidity(column, mask))[k]])
                /\ AggregateColumn(column, mask) = f[Len(Ascending(ApplyValidity(column, mask)))]
<1> DEFINE N == Len(Ascending(ApplyValidity(column, mask)))
           Op(x, k) == UpdateAgg(x, column[Ascending(ApplyValidity(column, mask))[k]])
           Runs(n, f) == f = [k \in 0..n |-> IF k = 0 THEN EmptyAgg ELSE Op(f[k - 1], k)]
           T == {n \in Nat : \E f : Runs(n, f)}
           F == CHOOSE f : Runs(N, f)
<1>1. AggregateColumn(column, mask) = F[N]
  BY Zenon DEF Fold, AggregateColumn
<1> DEFINE base == EmptyAgg
<1> HIDE DEF Op, base
<1>2. 0 \in T
  <2>1. Runs(0, [k \in 0..0 |-> base])
    BY DEF base
  <2> QED
    BY <2>1
<1>3. ASSUME NEW n \in 1..N, n - 1 \in T
      PROVE  n \in T
  <2>1. PICK r : Runs(n - 1, r)
    BY <1>3
  <2>2. n \in Nat /\ n # 0 /\ n - 1 \in 0..n /\ n - 1 \in 0..(n - 1) /\ 0 \in 0..(n - 1)
        /\ (\A k \in 0..(n - 1) : k \in 0..n /\ k # n /\ (k # 0 => k - 1 \in 0..(n - 1)))
        /\ \A k \in 0..n : k = n \/ k \in 0..(n - 1)
    BY <1>3
  <2> DEFINE f == [k \in 0..n |-> IF k = n THEN Op(r[n - 1], n) ELSE r[k]]
  <2>3. /\ f = [k \in 0..n |-> f[k]] /\ f[n] = Op(r[n - 1], n)
        /\ \A k \in 0..(n - 1) : f[k] = r[k]
    <3>1. n \in 0..n
      BY <2>2
    <3> QED
      BY <2>2, <3>1, Zenon
  <2> HIDE DEF f
  <2>4. \A k \in 0..(n - 1) : r[k] = IF k = 0 THEN base ELSE Op(r[k - 1], k)
    BY <2>1, Zenon DEF base
  <2>5. \A k \in 0..n : f[k] = IF k = 0 THEN base ELSE Op(f[k - 1], k)
    <3>1. f[n] = Op(f[n - 1], n)
      BY <2>2, <2>3, Zenon
    <3>2. \A k \in 0..(n - 1) : f[k] = IF k = 0 THEN base ELSE Op(f[k - 1], k)
      <4> TAKE k \in 0..(n - 1)
      <4>1. CASE k = 0
        BY <2>3, <2>4, <4>1, Zenon
      <4>2. CASE k # 0
        <5>1. k - 1 \in 0..(n - 1) /\ f[k - 1] = r[k - 1]
          BY <2>2, <2>3, <4>2, Zenon
        <5> QED
          BY <2>3, <2>4, <4>2, <5>1, Zenon
      <4> QED
        BY <4>1, <4>2, Zenon
    <3> QED
      BY <2>2, <3>1, <3>2, Zenon
  <2>6. Runs(n, f)
    BY <2>3, <2>5, Zenon DEF base
  <2> HIDE DEF Runs
  <2> QED
    BY <2>2, <2>6, Zenon
<1>4. N \in Nat /\ 0 \in 0..N /\ \A k \in 1..N : k \in 0..N /\ k # 0
  OBVIOUS
<1> HIDE DEF T
<1>5. N \in T
  BY <1>2, <1>3, <1>4, AllReached, Zenon
<1>6. Runs(N, F)
  <2> HIDE DEF Runs
  <2>1. \E f : Runs(N, f)
    BY <1>5, Zenon DEF T
  <2> QED
    BY <2>1, Zenon
<1> HIDE DEF F, N
<1>7. F[0] = base /\ \A k \in 1..N : F[k] = Op(F[k - 1], k)
  BY <1>4, <1>6, Zenon DEF base
<1> QED
  BY <1>1, <1>7, Zenon DEF Op, base, N

-----------------------------------------------------------------------------
(* Rows of the table. *)

Held(c) == {i \in DOMAIN table[c]["k"] : Matches(c, i)}
RowsOf(c, m) == {RowId(c, i) : i \in m}
AllRows == UNION {RowsOf(c, DOMAIN table[c]["k"]) : c \in Chunks}
\* The matching rows of the first n chunks.
Seen(n) == UNION {RowsOf(c, Held(c)) : c \in 1..n}

(* A number in a block of R: its block and its place. *)
LEMMA DivMod ==
  ASSUME NEW R \in Nat \ {0}, NEW a \in Nat, NEW b \in 0..(R - 1)
  PROVE  (a * R + b) \div R = a /\ (a * R + b) % R = b
OBVIOUS

(* Larger blocks begin later. *)
LEMMA Multiplied ==
  ASSUME NEW R \in Nat, NEW a \in Int, NEW b \in Int, a <= b
  PROVE  a * R <= b * R
OBVIOUS

(* A row id names its chunk and its place in it. *)
LEMMA RowIdIs ==
  ASSUME AnswerableTable(table), NEW c \in Chunks, NEW i \in DOMAIN table[c]["k"]
  PROVE  /\ RowId(c, i) \in Nat /\ i \in 1..RowsPerChunk /\ c \in 1..Len(table)
         /\ ChunkOf(RowId(c, i)) = c /\ Within(RowId(c, i)) = i
         /\ \A col : Cell(RowId(c, i), col) = table[c][col][i]
         /\ RowId(c, i) < c * RowsPerChunk /\ (c - 1) * RowsPerChunk <= RowId(c, i)
         /\ RowId(c, i) < Len(table) * RowsPerChunk
<1>1. c \in 1..Len(table) /\ Len(table) \in Nat /\ PlainChunk(table[c]) /\ Len(table[c]["k"]) <= RowsPerChunk
  BY Zenon DEF AnswerableTable, Chunks
<1>2. i \in 1..RowsPerChunk
  BY <1>1, RowsAssumption DEF PlainChunk, Plain
<1>3. c - 1 \in Nat /\ i - 1 \in 0..(RowsPerChunk - 1) /\ RowId(c, i) = (c - 1) * RowsPerChunk + (i - 1)
  BY <1>1, <1>2, RowsAssumption DEF RowId
<1>4. RowId(c, i) \div RowsPerChunk = c - 1 /\ RowId(c, i) % RowsPerChunk = i - 1
  BY <1>3, RowsAssumption, DivMod
<1>5. ChunkOf(RowId(c, i)) = c /\ Within(RowId(c, i)) = i
  BY <1>1, <1>2, <1>4 DEF ChunkOf, Within
<1>6. /\ RowId(c, i) \in Nat
      /\ RowId(c, i) < c * RowsPerChunk /\ (c - 1) * RowsPerChunk <= RowId(c, i)
  BY <1>1, <1>2, <1>3, RowsAssumption
<1>7. RowId(c, i) < Len(table) * RowsPerChunk
  <2>1. RowsPerChunk \in Nat /\ c \in Int /\ Len(table) \in Int /\ c <= Len(table)
    BY <1>1, RowsAssumption
  <2>2. c * RowsPerChunk <= Len(table) * RowsPerChunk
    BY <2>1, Multiplied, Zenon
  <2> DEFINE p == c * RowsPerChunk
             q == Len(table) * RowsPerChunk
             r == RowId(c, i)
  <2>3. p \in Int /\ q \in Int /\ r \in Int
    BY <1>6, <2>1
  <2>4. p <= q /\ r < p
    BY <1>6, <2>2, Zenon
  <2> HIDE DEF p, q, r
  <2>5. r < q
    BY <2>3, <2>4
  <2> QED
    BY <2>5 DEF r, q
<1> QED
  BY <1>1, <1>2, <1>5, <1>6, <1>7, Zenon DEF Cell

(* The cells of a row: numbers, or NULL; a value lies between the infinities. *)
LEMMA RowCells ==
  ASSUME AnswerableTable(table), NEW r \in AllRows
  PROVE  /\ Cell(r, "k") \in Int \cup {Null} /\ Cell(r, "v") \in Int \cup {Null}
         /\ Cell(r, "v") # Null => Cell(r, "v") \in NegInf..PosInf
         /\ Cell(r, "k") # Null => Cell(r, "k") \in 0..(DictLen - 1)
         /\ r \in Nat /\ r < Len(table) * RowsPerChunk
<1>0. PICK c \in Chunks : r \in RowsOf(c, DOMAIN table[c]["k"])
  BY Zenon DEF AllRows
<1>1. PICK i \in DOMAIN table[c]["k"] : r = RowId(c, i)
  BY <1>0, Zenon DEF RowsOf
<1>2. PlainChunk(table[c]) /\ ValuesOf(table[c]["v"]) \subseteq NegInf..PosInf
  BY Zenon DEF AnswerableTable, Chunks
<1>3. i \in 1..Len(table[c]["k"]) /\ i \in 1..Len(table[c]["v"])
  BY <1>2 DEF PlainChunk, Plain
<1>4. table[c]["k"] \in Seq(Int \cup {Null}) /\ table[c]["v"] \in Seq(Int \cup {Null})
  BY <1>2, Zenon DEF PlainChunk, Plain
<1>5. table[c]["k"][i] \in Int \cup {Null} /\ table[c]["v"][i] \in Int \cup {Null}
      /\ i \in DOMAIN table[c]["v"]
  BY <1>3, <1>4
<1>6. table[c]["k"][i] \in Range(table[c]["k"]) /\ table[c]["v"][i] \in Range(table[c]["v"])
  BY <1>5, Zenon DEF Range
<1>7. /\ table[c]["v"][i] # Null => table[c]["v"][i] \in NegInf..PosInf
      /\ table[c]["k"][i] # Null => table[c]["k"][i] \in 0..(DictLen - 1)
  BY <1>2, <1>6 DEF PlainChunk, ValuesOf
<1>8. Cell(r, "k") = table[c]["k"][i] /\ Cell(r, "v") = table[c]["v"][i] /\ r \in Nat /\ r < Len(table) * RowsPerChunk
  BY <1>1, RowIdIs
<1> QED
  BY <1>5, <1>7, <1>8

(* No two places of the table have the same row id. *)
LEMMA RowIdOnce ==
  ASSUME AnswerableTable(table), NEW c \in Chunks, NEW i \in DOMAIN table[c]["k"],
         NEW d \in Chunks, NEW j \in DOMAIN table[d]["k"], RowId(c, i) = RowId(d, j)
  PROVE  c = d /\ i = j
BY RowIdIs

(* The matching rows are those of the chunks. *)
LEMMA MatchingSeen ==
  ASSUME AnswerableTable(table)
  PROVE  /\ Matching = Seen(Len(table)) /\ Seen(0) = {}
         /\ \A n \in 0..Len(table) : Seen(n) \subseteq AllRows
         /\ \A c \in Chunks : RowsOf(c, Held(c)) \subseteq AllRows
<1>1. Chunks = 1..Len(table) /\ Len(table) \in Nat
  BY Zenon DEF AnswerableTable, Chunks
<1>2. ASSUME NEW c \in Chunks
      PROVE  RowsOf(c, Held(c)) \subseteq AllRows
  <2>1. RowsOf(c, Held(c)) \subseteq RowsOf(c, DOMAIN table[c]["k"])
    BY Zenon DEF RowsOf, Held
  <2> QED
    BY <2>1, Zenon DEF AllRows
<1>3. \A n \in 0..Len(table) : Seen(n) \subseteq AllRows
  <2> TAKE n \in 0..Len(table)
  <2>1. 1..n \subseteq Chunks
    BY <1>1
  <2> QED
    BY <1>2, <2>1, Zenon DEF Seen
<1>4. Seen(0) = {}
  <2>1. 1..0 = {}
    OBVIOUS
  <2> QED
    BY <2>1, Zenon DEF Seen
<1>5. ASSUME NEW r \in Matching
      PROVE  r \in Seen(Len(table))
  <2>1. PICK c \in Chunks, i \in 1..RowsPerChunk : r = RowId(c, i)
    BY DEF Matching, RowIds, Chunks
  <2>2. ChunkOf(r) = c /\ Within(r) = i
    <3>1. c - 1 \in Nat /\ i - 1 \in 0..(RowsPerChunk - 1) /\ r = (c - 1) * RowsPerChunk + (i - 1) /\ i \in Int /\ c \in Int
      BY <1>1, <2>1, RowsAssumption DEF RowId
    <3>2. r \div RowsPerChunk = c - 1 /\ r % RowsPerChunk = i - 1
      BY <3>1, RowsAssumption, DivMod
    <3> QED
      BY <3>1, <3>2 DEF ChunkOf, Within
  <2>3. i \in DOMAIN table[c]["k"] /\ Matches(c, i)
    BY <2>2, Zenon DEF Matching
  <2>4. r \in RowsOf(c, Held(c))
    BY <2>1, <2>3, Zenon DEF RowsOf, Held
  <2> QED
    BY <1>1, <2>4, Zenon DEF Seen
<1>6. ASSUME NEW r \in Seen(Len(table))
      PROVE  r \in Matching
  <2>1. PICK c \in Chunks : r \in RowsOf(c, Held(c))
    BY <1>1, Zenon DEF Seen
  <2>2. PICK i \in DOMAIN table[c]["k"] : r = RowId(c, i) /\ Matches(c, i)
    BY <2>1, Zenon DEF RowsOf, Held
  <2>3. ChunkOf(r) = c /\ Within(r) = i /\ i \in 1..RowsPerChunk
    BY <2>2, RowIdIs, Zenon
  <2>4. r \in RowIds
    BY <2>2, <2>3 DEF RowIds, Chunks
  <2> QED
    BY <2>2, <2>3, <2>4, Zenon DEF Matching
<1> QED
  BY <1>2, <1>3, <1>4, <1>5, <1>6, Zenon

(* One more chunk: its matching rows come after those of the chunks before it. *)
LEMMA SeenStep ==
  ASSUME AnswerableTable(table), NEW c \in Chunks
  PROVE  /\ Seen(c) = Seen(c - 1) \cup RowsOf(c, Held(c))
         /\ Seen(c - 1) \cap RowsOf(c, Held(c)) = {}
         /\ \A r \in Seen(c - 1), s \in RowsOf(c, Held(c)) : r < s
<1>1. Chunks = 1..Len(table) /\ Len(table) \in Nat /\ c \in 1..Len(table)
  BY Zenon DEF AnswerableTable, Chunks
<1>2. \A d : d \in 1..c <=> d \in 1..(c - 1) \/ d = c
  BY <1>1
<1>3. Seen(c) = Seen(c - 1) \cup RowsOf(c, Held(c))
  BY <1>2, Zenon DEF Seen
<1>4. ASSUME NEW r \in Seen(c - 1), NEW s \in RowsOf(c, Held(c))
      PROVE  r < s /\ r # s
  <2>1. PICK d \in 1..(c - 1) : r \in RowsOf(d, Held(d))
    BY Zenon DEF Seen
  <2>2. PICK i \in DOMAIN table[d]["k"] : r = RowId(d, i)
    BY <2>1, Zenon DEF RowsOf, Held
  <2>3. PICK j \in DOMAIN table[c]["k"] : s = RowId(c, j)
    BY Zenon DEF RowsOf, Held
  <2>4. d \in Chunks /\ d <= c - 1 /\ d \in Int /\ c \in Int
    BY <1>1
  <2>5. /\ r \in Nat /\ r < d * RowsPerChunk
        /\ s \in Nat /\ (c - 1) * RowsPerChunk <= s
    BY <2>2, <2>3, <2>4, RowIdIs
  <2>6. d * RowsPerChunk <= (c - 1) * RowsPerChunk
    BY <2>4, RowsAssumption, Multiplied
  <2>7. d * RowsPerChunk \in Int /\ (c - 1) * RowsPerChunk \in Int
    BY <2>4, RowsAssumption
  <2> QED
    BY <2>5, <2>6, <2>7
<1> QED
  BY <1>3, <1>4, Zenon

(* Sum goes row by row. *)
LEMMA SumFold ==
  ASSUME NEW S, Len(table) * RowsPerChunk \in Nat
  PROVE  \E f : /\ f[0] = 0
                /\ \A k \in 1..Len(table) * RowsPerChunk : f[k] = f[k - 1] + (IF k - 1 \in S THEN Cell(k - 1, "v") ELSE 0)
                /\ Sum(S) = f[Len(table) * RowsPerChunk]
<1> DEFINE N == Len(table) * RowsPerChunk
           Op(x, k) == x + (IF k - 1 \in S THEN Cell(k - 1, "v") ELSE 0)
           Runs(n, f) == f = [k \in 0..n |-> IF k = 0 THEN 0 ELSE Op(f[k - 1], k)]
           T == {n \in Nat : \E f : Runs(n, f)}
           F == CHOOSE f : Runs(N, f)
<1>1. Sum(S) = F[N]
  BY Zenon DEF Sum, SumBelow
<1> DEFINE base == 0
<1> HIDE DEF Op, base
<1>2. 0 \in T
  <2>1. Runs(0, [k \in 0..0 |-> base])
    BY DEF base
  <2> QED
    BY <2>1
<1>3. ASSUME NEW n \in 1..N, n - 1 \in T
      PROVE  n \in T
  <2>1. PICK r : Runs(n - 1, r)
    BY <1>3
  <2>2. n \in Nat /\ n # 0 /\ n - 1 \in 0..n /\ n - 1 \in 0..(n - 1) /\ 0 \in 0..(n - 1)
        /\ (\A k \in 0..(n - 1) : k \in 0..n /\ k # n /\ (k # 0 => k - 1 \in 0..(n - 1)))
        /\ \A k \in 0..n : k = n \/ k \in 0..(n - 1)
    BY <1>3
  <2> DEFINE f == [k \in 0..n |-> IF k = n THEN Op(r[n - 1], n) ELSE r[k]]
  <2>3. /\ f = [k \in 0..n |-> f[k]] /\ f[n] = Op(r[n - 1], n)
        /\ \A k \in 0..(n - 1) : f[k] = r[k]
    <3>1. n \in 0..n
      BY <2>2
    <3> QED
      BY <2>2, <3>1, Zenon
  <2> HIDE DEF f
  <2>4. \A k \in 0..(n - 1) : r[k] = IF k = 0 THEN base ELSE Op(r[k - 1], k)
    BY <2>1, Zenon DEF base
  <2>5. \A k \in 0..n : f[k] = IF k = 0 THEN base ELSE Op(f[k - 1], k)
    <3>1. f[n] = Op(f[n - 1], n)
      BY <2>2, <2>3, Zenon
    <3>2. \A k \in 0..(n - 1) : f[k] = IF k = 0 THEN base ELSE Op(f[k - 1], k)
      <4> TAKE k \in 0..(n - 1)
      <4>1. CASE k = 0
        BY <2>3, <2>4, <4>1, Zenon
      <4>2. CASE k # 0
        <5>1. k - 1 \in 0..(n - 1) /\ f[k - 1] = r[k - 1]
          BY <2>2, <2>3, <4>2, Zenon
        <5> QED
          BY <2>3, <2>4, <4>2, <5>1, Zenon
      <4> QED
        BY <4>1, <4>2, Zenon
    <3> QED
      BY <2>2, <3>1, <3>2, Zenon
  <2>6. Runs(n, f)
    BY <2>3, <2>5, Zenon DEF base
  <2> HIDE DEF Runs
  <2> QED
    BY <2>2, <2>6, Zenon
<1>4. N \in Nat /\ 0 \in 0..N /\ \A k \in 1..N : k \in 0..N /\ k # 0
  OBVIOUS
<1> HIDE DEF T
<1>5. N \in T
  BY <1>2, <1>3, <1>4, AllReached, Zenon
<1>6. Runs(N, F)
  <2> HIDE DEF Runs
  <2>1. \E f : Runs(N, f)
    BY <1>5, Zenon DEF T
  <2> QED
    BY <2>1, Zenon
<1> HIDE DEF F, N
<1>7. F[0] = base /\ \A k \in 1..N : F[k] = Op(F[k - 1], k)
  BY <1>4, <1>6, Zenon DEF base
<1> QED
  BY <1>1, <1>7, Zenon DEF Op, base, N

Valued == {r \in AllRows : Cell(r, "v") # Null}

(* A row with a value has a number within the extremes of an empty aggregate. *)
LEMMA ValuedCell ==
  ASSUME AnswerableTable(table), NEW r \in Valued
  PROVE  /\ r \in AllRows /\ Cell(r, "v") \in Int /\ NegInf <= Cell(r, "v") /\ Cell(r, "v") <= PosInf
         /\ r \in Nat /\ r < Len(table) * RowsPerChunk
<1>1. r \in AllRows /\ Cell(r, "v") # Null
  BY DEF Valued
<1> QED
  BY <1>1, RowCells, InfAssumption

(* Row ids are bounded by the size of the table. *)
LEMMA TableSize ==
  ASSUME AnswerableTable(table)
  PROVE  Len(table) * RowsPerChunk \in Nat
<1>1. Len(table) \in Nat
  BY DEF AnswerableTable
<1> QED
  BY <1>1, RowsAssumption

(* The sum over two disjoint sets of rows is the sum of their sums, *)
LEMMA SumDisjoint ==
  ASSUME AnswerableTable(table), NEW S \in SUBSET Valued, NEW T \in SUBSET Valued, S \cap T = {}
  PROVE  Sum(S) \in Int /\ Sum(T) \in Int /\ Sum(S \cup T) = Sum(S) + Sum(T)
<1> DEFINE N == Len(table) * RowsPerChunk
           U == S \cup T
<1>1. N \in Nat
  BY TableSize
<1>2. PICK f : f[0] = 0 /\ (\A k \in 1..N : f[k] = f[k - 1] + (IF k - 1 \in S THEN Cell(k - 1, "v") ELSE 0)) /\ Sum(S) = f[N]
  BY <1>1, SumFold, Zenon
<1>3. PICK g : g[0] = 0 /\ (\A k \in 1..N : g[k] = g[k - 1] + (IF k - 1 \in T THEN Cell(k - 1, "v") ELSE 0)) /\ Sum(T) = g[N]
  BY <1>1, SumFold, Zenon
<1>4. PICK h : h[0] = 0 /\ (\A k \in 1..N : h[k] = h[k - 1] + (IF k - 1 \in U THEN Cell(k - 1, "v") ELSE 0)) /\ Sum(U) = h[N]
  BY <1>1, SumFold, Zenon
<1>5. \A k : k \in U => Cell(k, "v") \in Int
  BY ValuedCell
<1> DEFINE Q == {k \in 0..N : f[k] \in Int /\ g[k] \in Int /\ h[k] = f[k] + g[k]}
<1>6. 0 \in Q
  BY <1>1, <1>2, <1>3, <1>4
<1>7. ASSUME NEW k \in 1..N, k - 1 \in Q
      PROVE  k \in Q
  <2> DEFINE x == Cell(k - 1, "v")
  <2>1. f[k - 1] \in Int /\ g[k - 1] \in Int /\ h[k - 1] = f[k - 1] + g[k - 1]
    BY <1>7
  <2>2. /\ f[k] = f[k - 1] + (IF k - 1 \in S THEN x ELSE 0)
        /\ g[k] = g[k - 1] + (IF k - 1 \in T THEN x ELSE 0)
        /\ h[k] = h[k - 1] + (IF k - 1 \in U THEN x ELSE 0)
    BY <1>2, <1>3, <1>4
  <2>3. k - 1 \in U => x \in Int
    BY <1>5
  <2> HIDE DEF x
  <2>4. k \in 0..N
    OBVIOUS
  <2>5. f[k] \in Int /\ g[k] \in Int /\ h[k] = f[k] + g[k]
    BY <2>1, <2>2, <2>3
  <2> QED
    BY <2>4, <2>5
<1> HIDE DEF Q
<1>8. N \in Q
  BY <1>1, <1>6, <1>7, AllReached
<1> QED
  BY <1>2, <1>3, <1>4, <1>8 DEF Q

(* of no rows 0, *)
LEMMA SumNone ==
  ASSUME AnswerableTable(table)
  PROVE  Sum({}) = 0
<1>1. {} \in SUBSET Valued /\ {} \cap {} = {} /\ {} \cup {} = {}
  OBVIOUS
<1>2. Sum({}) \in Int /\ Sum({}) = Sum({}) + Sum({})
  <2> DEFINE S == {}
  <2>1. Sum(S) \in Int /\ Sum(S \cup S) = Sum(S) + Sum(S)
    BY <1>1, SumDisjoint
  <2> QED
    BY <1>1, <2>1
<1>3. \A n : n \in Int /\ n = n + n => n = 0
  OBVIOUS
<1> QED
  BY <1>2, <1>3, Zenon

(* and of one row its value. *)
LEMMA SumOne ==
  ASSUME AnswerableTable(table), NEW r \in Valued
  PROVE  Sum({r}) = Cell(r, "v")
<1> DEFINE N == Len(table) * RowsPerChunk
           x == Cell(r, "v")
<1>1. N \in Nat /\ r \in Nat /\ r < N /\ x \in Int
  BY TableSize, ValuedCell
<1>2. PICK f : f[0] = 0 /\ (\A k \in 1..N : f[k] = f[k - 1] + (IF k - 1 \in {r} THEN Cell(k - 1, "v") ELSE 0)) /\ Sum({r}) = f[N]
  BY <1>1, SumFold, Zenon
<1>3. \A k \in 1..N : f[k] = f[k - 1] + (IF k - 1 = r THEN x ELSE 0)
  BY <1>2
<1> HIDE DEF x
<1> DEFINE Q == {k \in 0..N : f[k] = IF k <= r THEN 0 ELSE x}
<1>4. 0 \in Q
  BY <1>1, <1>2
<1>5. ASSUME NEW k \in 1..N, k - 1 \in Q
      PROVE  k \in Q
  <2>1. f[k - 1] = (IF k - 1 <= r THEN 0 ELSE x) /\ f[k] = f[k - 1] + (IF k - 1 = r THEN x ELSE 0) /\ k \in 0..N
    BY <1>3, <1>5
  <2>2. f[k] = IF k <= r THEN 0 ELSE x
    BY <1>1, <2>1
  <2> QED
    BY <2>1, <2>2
<1> HIDE DEF Q
<1>6. N \in Q
  BY <1>1, <1>4, <1>5, AllReached
<1> QED
  BY <1>1, <1>2, <1>6 DEF Q, x

-----------------------------------------------------------------------------
(* Aggregate states. *)

AggState == [count : Nat, sum : Int, min : Int, max : Int]
Counted(kind, S) == IF kind = "count_star" THEN S ELSE WithValue(S)
Lowest(x, V) == IF V = {} THEN x = PosInf
                ELSE (\E r \in V : x = Cell(r, "v")) /\ \A r \in V : x <= Cell(r, "v")
Highest(x, V) == IF V = {} THEN x = NegInf
                 ELSE (\E r \in V : x = Cell(r, "v")) /\ \A r \in V : Cell(r, "v") <= x
\* State s is that of an aggregate of this kind over the rows of S.
AggOf(kind, s, S) ==
    /\ s \in AggState
    /\ s.count = Cardinality(Counted(kind, S))
    /\ kind \in {"sum", "avg"} => s.sum = Sum(WithValue(S))
    /\ kind = "min" => Lowest(s.min, WithValue(S))
    /\ kind = "max" => Highest(s.max, WithValue(S))

(* Sets of rows, and the rows an aggregate counts of them, are finite. *)
LEMMA RowsFinite ==
  ASSUME AnswerableTable(table), NEW S \in SUBSET AllRows, NEW kind
  PROVE  /\ IsFiniteSet(S) /\ IsFiniteSet(WithValue(S)) /\ WithValue(S) \in SUBSET Valued /\ S \in SUBSET Nat
         /\ WithValue(S) \in SUBSET S
         /\ IsFiniteSet(Counted(kind, S)) /\ Cardinality(Counted(kind, S)) \in Nat
<1>1. Len(table) * RowsPerChunk \in Nat
  BY TableSize
<1>2. S \subseteq 0..(Len(table) * RowsPerChunk)
  BY <1>1, RowCells
<1>3. IsFiniteSet(0..(Len(table) * RowsPerChunk))
  BY <1>1, FS_Interval
<1>4. IsFiniteSet(S)
  BY <1>2, <1>3, FS_Subset
<1>5. WithValue(S) \in SUBSET S /\ WithValue(S) \in SUBSET Valued
  BY DEF WithValue, Valued
<1>6. IsFiniteSet(WithValue(S))
  BY <1>4, <1>5, FS_Subset
<1>7. S \in SUBSET Nat
  BY <1>2
<1> QED
  BY <1>4, <1>5, <1>6, <1>7, FS_CardinalityType, Zenon DEF Counted

(* What an aggregate counts of two disjoint sets is what it counts of each. *)
LEMMA CountedJoin ==
  ASSUME AnswerableTable(table), NEW kind, NEW S \in SUBSET AllRows, NEW T \in SUBSET AllRows, S \cap T = {}
  PROVE  /\ WithValue(S \cup T) = WithValue(S) \cup WithValue(T) /\ WithValue(S) \cap WithValue(T) = {}
         /\ Cardinality(Counted(kind, S \cup T)) = Cardinality(Counted(kind, S)) + Cardinality(Counted(kind, T))
<1>1. WithValue(S \cup T) = WithValue(S) \cup WithValue(T) /\ WithValue(S) \cap WithValue(T) = {}
  BY DEF WithValue
<1>2. Counted(kind, S \cup T) = Counted(kind, S) \cup Counted(kind, T) /\ Counted(kind, S) \cap Counted(kind, T) = {}
  BY <1>1 DEF Counted
<1>3. IsFiniteSet(Counted(kind, S)) /\ IsFiniteSet(Counted(kind, T))
      /\ Cardinality(Counted(kind, S)) \in Nat /\ Cardinality(Counted(kind, T)) \in Nat
  BY RowsFinite
<1>4. Cardinality({}) = 0
  BY FS_EmptySet
<1> DEFINE A == Counted(kind, S)
           B == Counted(kind, T)
<1>5. Cardinality(A \cup B) = Cardinality(A) + Cardinality(B) - Cardinality(A \cap B)
  BY <1>3, FS_Union, Zenon
<1>6. Cardinality(A \cap B) = 0
  BY <1>2, <1>4
<1> HIDE DEF A, B
<1>7. Cardinality(A \cup B) = Cardinality(A) + Cardinality(B)
  BY <1>3, <1>5, <1>6 DEF A, B
<1> QED
  BY <1>1, <1>2, <1>7 DEF A, B

(* No rows: the state a plan starts from. *)
LEMMA NoRows ==
  ASSUME AnswerableTable(table), NEW kind
  PROVE  AggOf(kind, EmptyAgg, {})
<1>1. WithValue({}) = {} /\ Counted(kind, {}) = {}
  BY DEF WithValue, Counted
<1>2. Cardinality({}) = 0 /\ Sum({}) = 0
  BY FS_EmptySet, SumNone
<1>3. EmptyAgg \in AggState /\ EmptyAgg.count = 0 /\ EmptyAgg.sum = 0 /\ EmptyAgg.min = PosInf /\ EmptyAgg.max = NegInf
  BY InfAssumption DEF EmptyAgg, AggState
<1> QED
  BY <1>1, <1>2, <1>3 DEF AggOf, Lowest, Highest

(* Two states of rows that have none in common, put together. *)
LEMMA Joined ==
  ASSUME AnswerableTable(table), NEW kind, NEW S \in SUBSET AllRows, NEW T \in SUBSET AllRows, S \cap T = {},
         NEW s, AggOf(kind, s, S), NEW t, AggOf(kind, t, T), NEW u \in AggState,
         u.count = s.count + t.count,
         kind \in {"sum", "avg"} => u.sum = s.sum + t.sum,
         kind = "min" => u.min = IF t.count = 0 THEN s.min ELSE IF s.count = 0 THEN t.min ELSE Smaller(s.min, t.min),
         kind = "max" => u.max = IF t.count = 0 THEN s.max ELSE IF s.count = 0 THEN t.max ELSE Larger(s.max, t.max)
  PROVE  AggOf(kind, u, S \cup T)
<1> DEFINE V == WithValue(S)
           W == WithValue(T)
<1>1. WithValue(S \cup T) = V \cup W /\ V \cap W = {} /\ V \in SUBSET Valued /\ W \in SUBSET Valued
      /\ IsFiniteSet(V) /\ IsFiniteSet(W)
  BY CountedJoin, RowsFinite
<1>2. u.count = Cardinality(Counted(kind, S \cup T))
  BY CountedJoin DEF AggOf
<1>3. ASSUME kind \in {"sum", "avg"}
      PROVE  u.sum = Sum(V \cup W)
  BY <1>1, <1>3, SumDisjoint DEF AggOf
<1>4. /\ \A r \in V : Cell(r, "v") \in Int
      /\ \A r \in W : Cell(r, "v") \in Int
  BY <1>1, ValuedCell
<1>5. kind # "count_star" => (s.count = 0 <=> V = {}) /\ (t.count = 0 <=> W = {})
  BY <1>1, FS_EmptySet DEF AggOf, Counted
<1>6. s.min \in Int /\ s.max \in Int /\ t.min \in Int /\ t.max \in Int
  BY DEF AggOf, AggState
<1>7. ASSUME kind = "min"
      PROVE  Lowest(u.min, V \cup W)
  <2>1. Lowest(s.min, V) /\ Lowest(t.min, W)
    BY <1>7 DEF AggOf
  <2>2. u.min = IF W = {} THEN s.min ELSE IF V = {} THEN t.min ELSE Smaller(s.min, t.min)
    BY <1>5, <1>7
  <2> HIDE DEF V, W
  <2>3. CASE W = {}
    BY <2>1, <2>2, <2>3 DEF Lowest
  <2>4. CASE W # {} /\ V = {}
    BY <2>1, <2>2, <2>4 DEF Lowest
  <2>5. CASE W # {} /\ V # {}
    <3>1. /\ \E r \in V : s.min = Cell(r, "v")
          /\ \E r \in W : t.min = Cell(r, "v")
          /\ \A r \in V : s.min <= Cell(r, "v")
          /\ \A r \in W : t.min <= Cell(r, "v")
      BY <2>1, <2>5 DEF Lowest
    <3>2. u.min = Smaller(s.min, t.min)
      BY <2>2, <2>5
    <3>3. \E r \in V \cup W : u.min = Cell(r, "v")
      BY <3>1, <3>2 DEF Smaller
    <3>4. \A r \in V \cup W : u.min <= Cell(r, "v")
      BY <1>4, <1>6, <3>1, <3>2 DEF Smaller
    <3> QED
      BY <2>5, <3>3, <3>4 DEF Lowest
  <2> QED
    BY <2>3, <2>4, <2>5
<1>8. ASSUME kind = "max"
      PROVE  Highest(u.max, V \cup W)
  <2>1. Highest(s.max, V) /\ Highest(t.max, W)
    BY <1>8 DEF AggOf
  <2>2. u.max = IF W = {} THEN s.max ELSE IF V = {} THEN t.max ELSE Larger(s.max, t.max)
    BY <1>5, <1>8
  <2> HIDE DEF V, W
  <2>3. CASE W = {}
    BY <2>1, <2>2, <2>3 DEF Highest
  <2>4. CASE W # {} /\ V = {}
    BY <2>1, <2>2, <2>4 DEF Highest
  <2>5. CASE W # {} /\ V # {}
    <3>1. /\ \E r \in V : s.max = Cell(r, "v")
          /\ \E r \in W : t.max = Cell(r, "v")
          /\ \A r \in V : Cell(r, "v") <= s.max
          /\ \A r \in W : Cell(r, "v") <= t.max
      BY <2>1, <2>5 DEF Highest
    <3>2. u.max = Larger(s.max, t.max)
      BY <2>2, <2>5
    <3>3. \E r \in V \cup W : u.max = Cell(r, "v")
      BY <3>1, <3>2 DEF Larger
    <3>4. \A r \in V \cup W : Cell(r, "v") <= u.max
      BY <1>4, <1>6, <3>1, <3>2 DEF Larger
    <3> QED
      BY <2>5, <3>3, <3>4 DEF Highest
  <2> QED
    BY <2>3, <2>4, <2>5
<1> HIDE DEF V, W
<1> QED
  BY <1>1, <1>2, <1>3, <1>7, <1>8 DEF AggOf

(* One row with a value, *)
LEMMA OneValue ==
  ASSUME AnswerableTable(table), NEW kind, NEW r \in Valued, NEW s \in AggState,
         s.count = 1, kind \notin {"count", "count_star"} => s.sum = Cell(r, "v") /\ s.min = Cell(r, "v") /\ s.max = Cell(r, "v")
  PROVE  AggOf(kind, s, {r})
<1>1. WithValue({r}) = {r} /\ Counted(kind, {r}) = {r}
  BY DEF WithValue, Counted, Valued
<1>2. Cardinality({r}) = 1 /\ Sum({r}) = Cell(r, "v") /\ Cell(r, "v") \in Int
  BY FS_Singleton, SumOne, ValuedCell
<1> QED
  BY <1>1, <1>2 DEF AggOf, Lowest, Highest

(* and a row without one, which counts for COUNT( * ) only. *)
LEMMA OneNull ==
  ASSUME AnswerableTable(table), NEW kind, kind # "count_star", NEW S \in SUBSET AllRows, NEW r, Cell(r, "v") = Null,
         NEW s, AggOf(kind, s, S)
  PROVE  AggOf(kind, s, S \cup {r})
<1>1. WithValue(S \cup {r}) = WithValue(S)
  BY DEF WithValue
<1> QED
  BY <1>1 DEF AggOf, Counted

(* A count of all rows grows by the number of the rows added. *)
LEMMA StarMore ==
  ASSUME AnswerableTable(table), NEW S \in SUBSET AllRows, NEW T \in SUBSET AllRows, S \cap T = {}, NEW s,
         AggOf("count_star", s, S), NEW u, u = [s EXCEPT !.count = @ + Cardinality(T)]
  PROVE  AggOf("count_star", u, S \cup T)
<1>1. Counted("count_star", S) = S /\ Counted("count_star", T) = T /\ Counted("count_star", S \cup T) = S \cup T
  BY DEF Counted
<1> DEFINE star == "count_star"
<1>a. Cardinality(Counted(star, S \cup T)) = Cardinality(Counted(star, S)) + Cardinality(Counted(star, T))
  BY CountedJoin, Zenon
<1>b. Cardinality(Counted(star, T)) \in Nat
  BY RowsFinite, Zenon
<1>2. Cardinality(S \cup T) = Cardinality(S) + Cardinality(T) /\ Cardinality(T) \in Nat
  BY <1>1, <1>a, <1>b, Zenon
<1>3. s \in AggState /\ s.count = Cardinality(S)
  BY <1>1 DEF AggOf
<1>4. u \in AggState /\ u.count = s.count + Cardinality(T)
  BY <1>2, <1>3 DEF AggState
<1> QED
  BY <1>1, <1>2, <1>3, <1>4 DEF AggOf

(* update_agg adds a row with a value. *)
LEMMA UpdateJoins ==
  ASSUME AnswerableTable(table), NEW kind, kind # "count_star", NEW S \in SUBSET AllRows, NEW r \in Valued, r \notin S,
         NEW s, AggOf(kind, s, S)
  PROVE  AggOf(kind, UpdateAgg(s, Cell(r, "v")), S \cup {r})
<1> DEFINE x == Cell(r, "v")
           t == [count |-> 1, sum |-> x, min |-> x, max |-> x]
           u == UpdateAgg(s, x)
<1>1. x \in Int /\ NegInf <= x /\ x <= PosInf /\ {r} \in SUBSET AllRows /\ S \cap {r} = {}
  BY ValuedCell
<1>2. s \in AggState
  BY DEF AggOf
<1>3. t \in AggState /\ t.count = 1 /\ t.sum = x /\ t.min = x /\ t.max = x
  BY <1>1 DEF AggState
<1>4. AggOf(kind, t, {r})
  BY <1>3, OneValue
<1>5. u \in AggState /\ u.count = s.count + 1 /\ u.sum = s.sum + x /\ u.min = Smaller(s.min, x) /\ u.max = Larger(s.max, x)
  BY <1>1, <1>2 DEF AggState, UpdateAgg, Smaller, Larger
<1>6. s.count = 0 /\ kind = "min" => s.min = PosInf
  BY RowsFinite, FS_EmptySet DEF AggOf, Counted, Lowest
<1>7. s.count = 0 /\ kind = "max" => s.max = NegInf
  BY RowsFinite, FS_EmptySet DEF AggOf, Counted, Highest
<1>0. s.min \in Int /\ s.max \in Int
  BY <1>2 DEF AggState
<1> HIDE DEF t, u, x
<1>8. /\ kind = "min" => u.min = IF t.count = 0 THEN s.min ELSE IF s.count = 0 THEN t.min ELSE Smaller(s.min, t.min)
      /\ kind = "max" => u.max = IF t.count = 0 THEN s.max ELSE IF s.count = 0 THEN t.max ELSE Larger(s.max, t.max)
  BY <1>0, <1>1, <1>3, <1>5, <1>6, <1>7, InfAssumption DEF Smaller, Larger
<1>9. AggOf(kind, u, S \cup {r})
  BY <1>1, <1>3, <1>4, <1>5, <1>8, Joined
<1> QED
  BY <1>9 DEF u, x

(* A mask is of rows of its chunk. *)
LEMMA MaskOfRows ==
  ASSUME NEW c, PlainChunk(table[c]), PlainQuery(query),
         query.filters # <<>> \/ query.combine = <<>>,
         ChunkMask(query.filters, query.combine, table[c]) # NoResult
  PROVE  ChunkMask(query.filters, query.combine, table[c])[1] \in SUBSET DOMAIN table[c]["k"]
<1> DEFINE filters == query.filters
           rows == DOMAIN table[c]["k"]
           masks == [j \in DOMAIN filters |->
                       ApplyValidity(table[c][filters[j].col], FilterMask(table[c][filters[j].col], filters[j]))]
           r == ChunkMask(filters, query.combine, table[c])
           n == Len(filters)
           all == {k \in rows : \A j \in DOMAIN masks : k \in masks[j]}
<1>1. n \in Nat /\ DOMAIN filters = 1..n /\ query.combine \in Seq(Int)
  BY DEF PlainQuery
<1>2. ASSUME NEW j \in 1..n
      PROVE  masks[j] \in SUBSET rows
  <2>1. PlainFilter(filters[j])
    BY <1>1 DEF PlainQuery
  <2>3. masks[j] = ApplyValidity(table[c][filters[j].col], FilterMask(table[c][filters[j].col], filters[j]))
    BY <1>1, Zenon
  <2>4. DOMAIN table[c][filters[j].col] = rows /\ Plain(table[c][filters[j].col])
    BY <2>1 DEF PlainChunk, Plain, PlainFilter
  <2>5. FilterMask(table[c][filters[j].col], filters[j]) \in SUBSET rows
    BY <2>4, Zenon DEF FilterMask, LikeMask, SingleMask
  <2> QED
    BY <2>3, <2>5, Zenon DEF ApplyValidity
<1>3. masks \in Seq(SUBSET rows) /\ Len(masks) = n /\ DOMAIN masks = 1..n
  <2>1. masks \in [1..n -> SUBSET rows] /\ DOMAIN masks = 1..n
    BY <1>1, <1>2
  <2> HIDE DEF masks
  <2> QED
    BY <1>1, <2>1, SequenceOf, Zenon
<1>4. r = CASE masks = <<>> -> <<rows>>
            [] masks # <<>> /\ query.combine = <<>> -> <<all>>
            [] OTHER -> RunProgram(query.combine, masks, MaskAlgebra(rows))
  BY Zenon DEF ChunkMask, CombineMasks
<1>5. all \in SUBSET rows
  OBVIOUS
<1> DEFINE g == MaskAlgebra(rows)
           W == SUBSET rows
           R == W \X W
<1>6. Homomorphic(g, g, W, W, R)
  <2>1. ASSUME NEW a \in W, NEW b \in W
        PROVE  g.not[a] \in W /\ g.and[<<a, b>>] \in W /\ g.or[<<a, b>>] \in W
    <3>1. g.not[a] = rows \ a /\ g.and[<<a, b>>] = a \cap b /\ g.or[<<a, b>>] = a \cup b
      BY Zenon DEF MaskAlgebra
    <3> HIDE DEF g
    <3> QED
      BY <3>1
  <2>2. \A a, b \in W : <<a, b>> \in R
    OBVIOUS
  <2> HIDE DEF W, R, g
  <2> QED
    BY <2>1, <2>2, Zenon DEF Homomorphic
<1>7. Alike(masks, masks, W, W, R)
  <2>0. \A j \in 1..n : masks[j] \in W
    BY <1>2, Zenon
  <2> HIDE DEF masks, W
  <2>1. \A j \in 1..n : <<masks[j], masks[j]>> \in R
    BY <2>0
  <2> QED
    BY <1>3, <2>1, Zenon DEF Alike, W
<1> HIDE DEF masks, r, all, g, R
<1>8. RunProgram(query.combine, masks, g) # NoResult => RunProgram(query.combine, masks, g)[1] \in W
  BY <1>1, <1>6, <1>7, RunsAgree, Zenon
<1>9. CASE masks = <<>>
  <2>1. r = <<rows>>
    BY <1>4, <1>9, Zenon
  <2>2. r[1] = rows
    BY <2>1
  <2> QED
    BY <2>2, Zenon DEF r
<1>10. CASE masks # <<>> /\ query.combine = <<>>
  <2>1. r = <<all>>
    BY <1>4, <1>10, Zenon
  <2>2. r[1] = all
    BY <2>1
  <2> QED
    BY <1>5, <2>2, Zenon DEF r
<1>11. CASE masks # <<>> /\ query.combine # <<>>
  <2>1. r = RunProgram(query.combine, masks, MaskAlgebra(rows))
    BY <1>4, <1>11, Zenon
  <2> QED
    BY <1>8, <2>1, Zenon DEF r, g
<1> QED
  BY <1>9, <1>10, <1>11

(* The rows plan_exec_chunk works on are the matching ones. *)
LEMMA MaskIsHeld ==
  ASSUME NEW c \in Chunks, table \in Tables, AnswerableTable(table), AnswerableQuery(query)
  PROVE  /\ ChunkMask(query.filters, query.combine, table[c])[1] = Held(c)
         /\ Held(c) \in SUBSET DOMAIN table[c]["k"]
         /\ IsPruned(c) => Held(c) = {}
<1> DEFINE m == ChunkMask(query.filters, query.combine, table[c])[1]
<1>1. PlainChunk(table[c]) /\ PlainQuery(query) /\ (query.filters # <<>> \/ query.combine = <<>>)
      /\ ChunkMask(query.filters, query.combine, table[c]) # NoResult
  BY Zenon DEF AnswerableTable, AnswerableQuery, Chunks
<1>2. m \in SUBSET DOMAIN table[c]["k"]
  BY <1>1, MaskOfRows, Zenon
<1>3. \A i \in DOMAIN table[c]["k"] : i \in m <=> Matches(c, i)
  BY <1>1, MaskIsMeaning, Zenon
<1> HIDE DEF m
<1>4. m = Held(c)
  BY <1>2, <1>3, Zenon DEF Held
<1>5. IsPruned(c) => Held(c) = {}
  BY <1>1, PrunedHasNoMatch, Zenon DEF Held
<1> QED
  BY <1>2, <1>4, <1>5, Zenon DEF m

(* The row of a place in a mask is one of the rows of that mask. *)
LEMMA RowOf ==
  ASSUME NEW c, NEW m, NEW i \in m
  PROVE  RowId(c, i) \in RowsOf(c, m)
BY Zenon DEF RowsOf

(* A mask and the rows it stands for. *)
LEMMA MaskRows ==
  ASSUME AnswerableTable(table), NEW c \in Chunks, NEW m \in SUBSET DOMAIN table[c]["k"]
  PROVE  /\ RowsOf(c, m) \in SUBSET AllRows /\ IsFiniteSet(m) /\ m \in SUBSET Int
         /\ Cardinality(RowsOf(c, m)) = Cardinality(m)
         /\ \A col : {r \in RowsOf(c, m) : Cell(r, col) # Null} = RowsOf(c, ApplyValidity(table[c][col], m))
<1>1. RowsOf(c, m) \in SUBSET AllRows
  BY DEF RowsOf, AllRows
<1>2. \A i \in m : i \in 1..RowsPerChunk
  BY RowIdIs, Zenon
<1>3. IsFiniteSet(m) /\ m \in SUBSET Int
  <2>1. IsFiniteSet(1..RowsPerChunk)
    BY RowsAssumption, FS_Interval
  <2>2. m \in SUBSET (1..RowsPerChunk)
    BY <1>2
  <2>3. IsFiniteSet(m)
    BY <2>1, <2>2, FS_Subset, Zenon
  <2> QED
    BY <2>2, <2>3
<1>4. Cardinality(RowsOf(c, m)) = Cardinality(m)
  <2> DEFINE f == [i \in m |-> RowId(c, i)]
  <2>1. f \in [m -> RowsOf(c, m)]
    BY DEF RowsOf
  <2>2. \A a, b \in m : f[a] = f[b] => a = b
    BY RowIdOnce, Zenon
  <2>3. \A y \in RowsOf(c, m) : \E a \in m : f[a] = y
    BY Zenon DEF RowsOf
  <2>4. f \in Bijection(m, RowsOf(c, m))
    BY <2>1, <2>2, <2>3, Fun_IsBij, Zenon
  <2> HIDE DEF f
  <2> QED
    BY <1>3, <2>4, FS_Bijection DEF ExistsBijection
<1>5. \A col : {r \in RowsOf(c, m) : Cell(r, col) # Null} = RowsOf(c, ApplyValidity(table[c][col], m))
  <2> TAKE col
  <2>1. \A i \in m : Cell(RowId(c, i), col) = table[c][col][i]
    BY RowIdIs, Zenon
  <2> QED
    BY <2>1, Zenon DEF RowsOf, ApplyValidity
<1> QED
  BY <1>1, <1>3, <1>4, <1>5, Zenon

(* aggregate_column over a mask is the aggregate of its rows. *)
LEMMA ColumnAggregate ==
  ASSUME AnswerableTable(table), NEW c \in Chunks, NEW m \in SUBSET DOMAIN table[c]["k"], NEW kind, kind # "count_star"
  PROVE  AggOf(kind, AggregateColumn(table[c]["v"], m), RowsOf(c, m))
<1> DEFINE column == table[c]["v"]
           A == ApplyValidity(column, m)
           s == Ascending(A)
           N == Len(s)
           R(k) == {RowId(c, s[j]) : j \in 1..k}
<1>1. A \in SUBSET m
  BY Zenon DEF ApplyValidity
<1>2. A \in SUBSET Int /\ IsFiniteSet(A) /\ A \in SUBSET DOMAIN table[c]["k"]
  BY <1>1, MaskRows, FS_Subset
<1>3. /\ N \in Nat /\ s \in [1..N -> A]
      /\ \A i, j \in 1..N : s[i] = s[j] => i = j
      /\ \A x \in A : \E i \in 1..N : s[i] = x
  BY <1>2, AscendingIs, Zenon
<1>4. PICK f : /\ f[0] = EmptyAgg
               /\ \A k \in 1..N : f[k] = UpdateAgg(f[k - 1], column[s[k]])
               /\ AggregateColumn(column, m) = f[N]
  BY <1>3, AggregateFold, Zenon
<1>5. \A k \in 1..N : /\ s[k] \in A /\ s[k] \in DOMAIN table[c]["k"] /\ RowId(c, s[k]) \in AllRows
                      /\ Cell(RowId(c, s[k]), "v") = column[s[k]] /\ column[s[k]] # Null
  <2> TAKE k \in 1..N
  <2>1. s[k] \in A /\ s[k] \in DOMAIN table[c]["k"]
    BY <1>2, <1>3, Zenon
  <2>a. RowId(c, s[k]) \in RowsOf(c, DOMAIN table[c]["k"])
    BY <2>1, RowOf, Zenon
  <2>2. RowId(c, s[k]) \in AllRows
    BY <2>a, Zenon DEF AllRows
  <2>3. column[s[k]] # Null
    BY <2>1, Zenon DEF ApplyValidity
  <2> QED
    BY <2>1, <2>2, <2>3, RowIdIs, Zenon
<1>a. \A i, j \in DOMAIN table[c]["k"] : RowId(c, i) = RowId(c, j) => i = j
  BY RowIdOnce, Zenon
<1> HIDE DEF s, A
<1> DEFINE Q == {k \in 0..N : AggOf(kind, f[k], R(k))}
<1>6. 0 \in Q
  <2>1. R(0) = {}
    OBVIOUS
  <2>2. AggOf(kind, f[0], R(0))
    BY <1>4, <2>1, NoRows
  <2> QED
    BY <1>3, <2>2
<1>7. ASSUME NEW k \in 1..N, k - 1 \in Q
      PROVE  k \in Q
  <2> DEFINE r == RowId(c, s[k])
  <2>1. k \in 0..N /\ k - 1 \in 0..N /\ AggOf(kind, f[k - 1], R(k - 1))
    BY <1>7
  <2>2. \A j : j \in 1..k <=> j \in 1..(k - 1) \/ j = k
    BY <1>3
  <2>3. R(k) = R(k - 1) \cup {r}
    BY <2>2, Zenon
  <2>4. \A j \in 1..(k - 1) : j \in 1..N /\ j # k
    BY <1>3
  <2>5. r \notin R(k - 1)
    <3> SUFFICES ASSUME r \in R(k - 1)
                 PROVE  FALSE
      BY Zenon
    <3>0. PICK j \in 1..(k - 1) : r = RowId(c, s[j])
      BY Zenon
    <3>1. j \in 1..N /\ j # k /\ s[j] \in DOMAIN table[c]["k"] /\ s[k] \in DOMAIN table[c]["k"]
      BY <1>5, <2>4, Zenon
    <3>2. s[k] = s[j]
      BY <1>a, <3>0, <3>1, Zenon
    <3> QED
      BY <1>3, <3>1, <3>2, Zenon
  <2>6. R(k - 1) \in SUBSET AllRows
    BY <1>5, <2>4, Zenon
  <2>7. r \in Valued /\ Cell(r, "v") = column[s[k]]
    BY <1>5, Zenon DEF Valued
  <2>8. f[k] = UpdateAgg(f[k - 1], Cell(r, "v"))
    BY <1>4, <2>7, Zenon
  <2> HIDE DEF r, R
  <2>9. AggOf(kind, f[k], R(k))
    BY <2>1, <2>3, <2>5, <2>6, <2>7, <2>8, UpdateJoins
  <2> QED
    BY <2>1, <2>9
<1>8. N \in Q
  <2> HIDE DEF Q
  <2> QED
    BY <1>3, <1>6, <1>7, AllReached
<1>9. R(N) = RowsOf(c, A)
  <2>1. \A j \in 1..N : s[j] \in A
    BY <1>3, Zenon
  <2>2. \A i \in A : RowId(c, i) \in R(N)
    <3> TAKE i \in A
    <3>1. PICK j \in 1..N : s[j] = i
      BY <1>3, Zenon
    <3> QED
      BY <3>1, Zenon
  <2>3. \A r : r \in RowsOf(c, A) <=> \E i \in A : r = RowId(c, i)
    BY Zenon DEF RowsOf
  <2>4. \A r \in R(N) : r \in RowsOf(c, A)
    BY <2>1, <2>3, Zenon
  <2> QED
    BY <2>2, <2>3, <2>4, Zenon
<1>10. AggOf(kind, AggregateColumn(column, m), RowsOf(c, A))
  BY <1>4, <1>8, <1>9, Zenon
<1>11. WithValue(RowsOf(c, m)) = RowsOf(c, A)
  BY MaskRows, Zenon DEF WithValue, A
<1>12. WithValue(RowsOf(c, A)) = RowsOf(c, A)
  BY <1>11, Zenon DEF WithValue
<1> HIDE DEF column
<1>13. kind # "count_star"
  OBVIOUS
<1> QED
  BY <1>10, <1>11, <1>12, <1>13, Zenon DEF AggOf, Counted, column

\* Every aggregate of the query over the rows of S.
AggsOf(aggs, S) ==
    /\ DOMAIN aggs = DOMAIN query.aggs
    /\ \A i \in DOMAIN query.aggs : AggOf(query.aggs[i].kind, aggs[i], S)

(* The aggregate of no value keeps what it started from. *)
LEMMA NothingCounted ==
  ASSUME AnswerableTable(table), NEW kind, kind # "count_star", NEW S \in SUBSET AllRows, NEW s, AggOf(kind, s, S)
  PROVE  /\ s \in AggState /\ (s.count = 0 <=> WithValue(S) = {})
         /\ kind \in {"sum", "avg"} /\ s.count = 0 => s.sum = 0
         /\ kind = "min" => IF s.count = 0 THEN s.min = PosInf ELSE NegInf <= s.min /\ s.min <= PosInf
         /\ kind = "max" => IF s.count = 0 THEN s.max = NegInf ELSE NegInf <= s.max /\ s.max <= PosInf
<1> DEFINE V == WithValue(S)
<1>1. IsFiniteSet(V) /\ V \in SUBSET Valued
  BY RowsFinite
<1>2. s \in AggState /\ s.count = Cardinality(V)
  BY DEF AggOf, Counted
<1>3. s.count = 0 <=> V = {}
  BY <1>1, <1>2, FS_EmptySet
<1>4. kind \in {"sum", "avg"} /\ V = {} => s.sum = 0
  BY SumNone DEF AggOf
<1>5. \A r \in V : NegInf <= Cell(r, "v") /\ Cell(r, "v") <= PosInf
  BY <1>1, ValuedCell
<1>6. kind = "min" => Lowest(s.min, V)
  BY DEF AggOf
<1>7. kind = "max" => Highest(s.max, V)
  BY DEF AggOf
<1> HIDE DEF V
<1>8. kind = "min" => IF s.count = 0 THEN s.min = PosInf ELSE NegInf <= s.min /\ s.min <= PosInf
  BY <1>3, <1>5, <1>6 DEF Lowest
<1>9. kind = "max" => IF s.count = 0 THEN s.max = NegInf ELSE NegInf <= s.max /\ s.max <= PosInf
  BY <1>3, <1>5, <1>7 DEF Highest
<1> QED
  BY <1>2, <1>3, <1>4, <1>8, <1>9 DEF V

(* merge_agg_by_kind puts two aggregates together, *)
LEMMA MergedByKind ==
  ASSUME AnswerableTable(table), NEW kind, kind # "count_star", NEW S \in SUBSET AllRows, NEW T \in SUBSET AllRows,
         S \cap T = {}, NEW t, AggOf(kind, t, S), NEW p, AggOf(kind, p, T)
  PROVE  AggOf(kind, MergeAggByKind(t, p, kind), S \cup T)
<1> DEFINE u == MergeAggByKind(t, p, kind)
<1>1. /\ t \in AggState
      /\ kind = "min" => IF t.count = 0 THEN t.min = PosInf ELSE NegInf <= t.min /\ t.min <= PosInf
      /\ kind = "max" => IF t.count = 0 THEN t.max = NegInf ELSE NegInf <= t.max /\ t.max <= PosInf
  BY NothingCounted, Zenon
<1>2. /\ p \in AggState
      /\ kind \in {"sum", "avg"} /\ p.count = 0 => p.sum = 0
      /\ kind = "min" => IF p.count = 0 THEN p.min = PosInf ELSE NegInf <= p.min /\ p.min <= PosInf
      /\ kind = "max" => IF p.count = 0 THEN p.max = NegInf ELSE NegInf <= p.max /\ p.max <= PosInf
  BY NothingCounted, Zenon
<1>3. CASE p.count = 0
  <2>1. u = t
    BY <1>3, Zenon DEF MergeAggByKind
  <2>2. u \in AggState /\ u.count = t.count + p.count
        /\ (kind \in {"sum", "avg"} => u.sum = t.sum + p.sum)
        /\ (kind = "min" => u.min = IF p.count = 0 THEN t.min ELSE IF t.count = 0 THEN p.min ELSE Smaller(t.min, p.min))
        /\ (kind = "max" => u.max = IF p.count = 0 THEN t.max ELSE IF t.count = 0 THEN p.max ELSE Larger(t.max, p.max))
    BY <1>1, <1>2, <1>3, <2>1 DEF AggState
  <2> HIDE DEF u
  <2>3. AggOf(kind, u, S \cup T)
    BY <2>2, Joined
  <2> QED
    BY <2>3 DEF u
<1>4. CASE p.count # 0
  <2>1. u = [count |-> t.count + p.count,
             sum |-> IF kind \in {"min", "max"} THEN t.sum ELSE t.sum + p.sum,
             min |-> IF kind = "max" THEN t.min ELSE Smaller(t.min, p.min),
             max |-> IF kind = "min" THEN t.max ELSE Larger(t.max, p.max)]
    BY <1>4, Zenon DEF MergeAggByKind
  <2>2. u \in AggState /\ u.count = t.count + p.count
        /\ (kind \in {"sum", "avg"} => u.sum = t.sum + p.sum)
    BY <1>1, <1>2, <2>1 DEF AggState, Smaller, Larger
  <2>3. (kind = "min" => u.min = IF p.count = 0 THEN t.min ELSE IF t.count = 0 THEN p.min ELSE Smaller(t.min, p.min))
    BY <1>1, <1>2, <1>4, <2>1, InfAssumption DEF AggState, Smaller
  <2>4. (kind = "max" => u.max = IF p.count = 0 THEN t.max ELSE IF t.count = 0 THEN p.max ELSE Larger(t.max, p.max))
    BY <1>1, <1>2, <1>4, <2>1, InfAssumption DEF AggState, Larger
  <2> HIDE DEF u
  <2>5. AggOf(kind, u, S \cup T)
    BY <2>2, <2>3, <2>4, Joined
  <2> QED
    BY <2>5 DEF u
<1> QED
  BY <1>3, <1>4

(* so plan_exec_chunk adds the rows of a mask to every aggregate. *)
LEMMA ExecAggregatesAdd ==
  ASSUME AnswerableTable(table), NEW c \in Chunks, NEW m \in SUBSET DOMAIN table[c]["k"],
         NEW S \in SUBSET AllRows, S \cap RowsOf(c, m) = {}, NEW aggs, AggsOf(aggs, S)
  PROVE  AggsOf(ExecAggregates(aggs, query, table[c], m), S \cup RowsOf(c, m))
<1> DEFINE T == RowsOf(c, m)
           out == ExecAggregates(aggs, query, table[c], m)
<1>1. DOMAIN aggs = DOMAIN query.aggs /\ \A i \in DOMAIN query.aggs : AggOf(query.aggs[i].kind, aggs[i], S)
  BY Zenon DEF AggsOf
<1>2. T \in SUBSET AllRows /\ Cardinality(T) = Cardinality(m)
  BY MaskRows, Zenon
<1> DEFINE one(i) == IF query.aggs[i].kind = "count_star" THEN [aggs[i] EXCEPT !.count = @ + Cardinality(m)]
                     ELSE MergeAggByKind(aggs[i], AggregateColumn(table[c]["v"], m), query.aggs[i].kind)
<1>a. out = [i \in DOMAIN aggs |-> one(i)]
  BY Zenon DEF ExecAggregates
<1> HIDE DEF one, out
<1>b. DOMAIN out = DOMAIN aggs /\ \A i \in DOMAIN aggs : out[i] = one(i)
  BY <1>a, Zenon
<1>3. DOMAIN out = DOMAIN aggs
      /\ \A i \in DOMAIN aggs :
           out[i] = IF query.aggs[i].kind = "count_star" THEN [aggs[i] EXCEPT !.count = @ + Cardinality(m)]
                    ELSE MergeAggByKind(aggs[i], AggregateColumn(table[c]["v"], m), query.aggs[i].kind)
  BY <1>b, Zenon DEF one
<1>4. ASSUME NEW i \in DOMAIN query.aggs
      PROVE  AggOf(query.aggs[i].kind, out[i], S \cup T)
  <2> DEFINE kind == query.aggs[i].kind
  <2>1. CASE kind = "count_star"
    <3>1. out[i] = [aggs[i] EXCEPT !.count = @ + Cardinality(T)] /\ AggOf("count_star", aggs[i], S)
      BY <1>1, <1>2, <1>3, <2>1, Zenon
    <3> HIDE DEF T
    <3>2. AggOf("count_star", out[i], S \cup T)
      BY <1>2, <3>1, StarMore, Zenon DEF T
    <3> QED
      BY <2>1, <3>2, Zenon
  <2>2. CASE kind # "count_star"
    <3> DEFINE p == AggregateColumn(table[c]["v"], m)
    <3>1. out[i] = MergeAggByKind(aggs[i], p, kind) /\ AggOf(kind, aggs[i], S)
      BY <1>1, <1>3, <2>2, Zenon
    <3>2. AggOf(kind, p, T)
      BY <2>2, ColumnAggregate, Zenon
    <3> HIDE DEF T, p, kind
    <3>3. AggOf(kind, MergeAggByKind(aggs[i], p, kind), S \cup T)
      BY <1>2, <2>2, <3>1, <3>2, MergedByKind, Zenon DEF T
    <3> QED
      BY <3>1, <3>3, Zenon DEF kind
  <2> QED
    BY <2>1, <2>2
<1> QED
  BY <1>1, <1>3, <1>4, Zenon DEF AggsOf, out

(* merge_aggs takes the offset a partial carries off again and adds its rows. *)
LEMMA MergedCopy ==
  ASSUME AnswerableTable(table), NEW a \in [kind : AggKinds, off : Int],
         NEW S \in SUBSET AllRows, NEW T \in SUBSET AllRows, S \cap T = {},
         NEW t, AggOf(a.kind, t, S), NEW s, AggOf(a.kind, s, T), NEW r, r = CopyAgg(s, a),
         NEW u, u = IF a.kind \in Counting THEN [t EXCEPT !.count = @ + r.count]
                    ELSE IF r.count = 0 THEN [t EXCEPT !.sum = @ + r.sum]
                    ELSE [count |-> t.count + r.count, sum |-> t.sum + r.sum - a.off * r.count,
                          min |-> IF t.count = 0 THEN r.min - a.off ELSE Smaller(t.min, r.min - a.off),
                          max |-> IF t.count = 0 THEN r.max - a.off ELSE Larger(t.max, r.max - a.off)]
  PROVE  AggOf(a.kind, u, S \cup T)
<1> DEFINE kind == a.kind
           x == a.off * s.count
<1>1. t \in AggState /\ s \in AggState
  BY DEF AggOf
<1>2. a.off \in Int /\ s.count \in Nat /\ x \in Int /\ (s.count = 0 => x = 0)
  BY <1>1 DEF AggState
<1>3. CASE kind \in Counting
  <2>1. r.count = s.count
    BY <1>3, Zenon DEF CopyAgg
  <2>2. u \in AggState /\ u.count = t.count + s.count
    BY <1>1, <1>3, <2>1 DEF AggState
  <2>3. kind \notin {"sum", "avg", "min", "max"}
    BY <1>3 DEF Counting
  <2> QED
    BY <2>2, <2>3, Joined
<1>4. CASE kind \notin Counting
  <2>1. r.count = s.count /\ r.sum = s.sum + x
        /\ r.min = (IF s.count > 0 THEN s.min + a.off ELSE 0)
        /\ r.max = (IF s.count > 0 THEN s.max + a.off ELSE 0)
    BY <1>4 DEF CopyAgg
  <2>2. kind \in {"sum", "avg"} /\ s.count = 0 => s.sum = 0
    BY <1>4, NothingCounted DEF Counting
  <2> HIDE DEF x
  <2>3. CASE s.count = 0
    <3>1. u = [t EXCEPT !.sum = @ + r.sum]
      BY <1>4, <2>1, <2>3, Zenon
    <3>2. r.sum \in Int /\ (kind \in {"sum", "avg"} => r.sum = 0)
      BY <1>1, <1>2, <2>1, <2>2, <2>3 DEF AggState
    <3>3. u \in AggState /\ u.count = t.count /\ u.sum = t.sum + r.sum /\ u.min = t.min /\ u.max = t.max
      BY <1>1, <3>1, <3>2 DEF AggState
    <3>4. u.count = t.count + s.count /\ (kind \in {"sum", "avg"} => u.sum = t.sum + s.sum)
      BY <1>1, <2>2, <2>3, <3>2, <3>3 DEF AggState
    <3> QED
      BY <2>3, <3>3, <3>4, Joined
  <2>4. CASE s.count # 0
    <3>0. s.count > 0
      BY <1>2, <2>4
    <3>1. u = [count |-> t.count + r.count, sum |-> t.sum + r.sum - a.off * r.count,
               min |-> IF t.count = 0 THEN r.min - a.off ELSE Smaller(t.min, r.min - a.off),
               max |-> IF t.count = 0 THEN r.max - a.off ELSE Larger(t.max, r.max - a.off)]
      BY <1>4, <2>1, <2>4, Zenon
    <3>2. a.off * r.count = x
      BY <2>1 DEF x
    <3>3. r.min - a.off = s.min /\ r.max - a.off = s.max /\ t.sum + r.sum - x = t.sum + s.sum
      BY <1>1, <1>2, <2>1, <3>0 DEF AggState
    <3>4. u = [count |-> t.count + s.count, sum |-> t.sum + s.sum,
               min |-> IF t.count = 0 THEN s.min ELSE Smaller(t.min, s.min),
               max |-> IF t.count = 0 THEN s.max ELSE Larger(t.max, s.max)]
      BY <2>1, <3>1, <3>2, <3>3, Zenon
    <3>5. u \in AggState /\ u.count = t.count + s.count /\ u.sum = t.sum + s.sum
      BY <1>1, <3>4 DEF AggState, Smaller, Larger
    <3>6. u.min = (IF t.count = 0 THEN s.min ELSE Smaller(t.min, s.min))
          /\ u.max = (IF t.count = 0 THEN s.max ELSE Larger(t.max, s.max))
      BY <3>4
    <3> QED
      BY <2>4, <3>5, <3>6, Joined
  <2> QED
    BY <2>3, <2>4
<1> QED
  BY <1>3, <1>4

(* A sequence is a function on 1..n. *)
LEMMA ElementsOf ==
  ASSUME NEW V, NEW s \in Seq(V)
  PROVE  /\ Len(s) \in Nat /\ DOMAIN s = 1..Len(s) /\ s \in [1..Len(s) -> V] /\ s = [i \in 1..Len(s) |-> s[i]]
         /\ \A i \in DOMAIN s : s[i] \in V
OBVIOUS

(* merge_aggs over all the aggregates of a partial. *)
LEMMA MergeAggsAdd ==
  ASSUME AnswerableTable(table), AnswerableQuery(query),
         NEW S \in SUBSET AllRows, NEW T \in SUBSET AllRows, S \cap T = {},
         NEW p, AggsOf(p.aggs, S), NEW w, AggsOf(w.aggs, T)
  PROVE  AggsOf(MergeAggs(p, query, CopyAggs(w, query)), S \cup T)
<1> DEFINE part == CopyAggs(w, query)
           out == MergeAggs(p, query, part)
           one(i) == LET t == p.aggs[i]
                         r == part[i]
                         off == query.aggs[i].off
                     IN  CASE part = <<>> -> t
                           [] part # <<>> /\ query.aggs[i].kind \in Counting -> [t EXCEPT !.count = @ + r.count]
                           [] part # <<>> /\ query.aggs[i].kind \notin Counting /\ r.count = 0 -> [t EXCEPT !.sum = @ + r.sum]
                           [] OTHER -> [count |-> t.count + r.count, sum |-> t.sum + r.sum - off * r.count,
                                        min |-> IF t.count = 0 THEN r.min - off ELSE Smaller(t.min, r.min - off),
                                        max |-> IF t.count = 0 THEN r.max - off ELSE Larger(t.max, r.max - off)]
<1>1. /\ DOMAIN p.aggs = DOMAIN query.aggs
      /\ \A i \in DOMAIN query.aggs : AggOf(query.aggs[i].kind, p.aggs[i], S) /\ AggOf(query.aggs[i].kind, w.aggs[i], T)
  BY Zenon DEF AggsOf
<1>2. \A i \in DOMAIN query.aggs : query.aggs[i] \in [kind : AggKinds, off : Int]
  <2>1. query.aggs \in Seq([kind : AggKinds, off : Int])
    BY Zenon DEF AnswerableQuery
  <2> QED
    BY <2>1, ElementsOf, Zenon
<1>3. DOMAIN part = DOMAIN query.aggs /\ \A i \in DOMAIN query.aggs : part[i] = CopyAgg(w.aggs[i], query.aggs[i])
  BY Zenon DEF CopyAggs
<1>4. out = [i \in DOMAIN p.aggs |-> one(i)]
  BY Zenon DEF MergeAggs
<1> HIDE DEF part, out
<1>5. ASSUME NEW i \in DOMAIN query.aggs
      PROVE  AggOf(query.aggs[i].kind, one(i), S \cup T)
  <2> DEFINE t == p.aggs[i]
             s == w.aggs[i]
             a == query.aggs[i]
             r == CopyAgg(s, a)
  <2>1. part # <<>>
    <3>1. DOMAIN <<>> = {}
      OBVIOUS
    <3> QED
      BY <1>3, <3>1, Zenon
  <2>2. AggOf(a.kind, t, S) /\ AggOf(a.kind, s, T) /\ a \in [kind : AggKinds, off : Int] /\ part[i] = r
    BY <1>1, <1>2, <1>3, Zenon
  <2>3. one(i) = IF a.kind \in Counting THEN [t EXCEPT !.count = @ + r.count]
                 ELSE IF r.count = 0 THEN [t EXCEPT !.sum = @ + r.sum]
                 ELSE [count |-> t.count + r.count, sum |-> t.sum + r.sum - a.off * r.count,
                       min |-> IF t.count = 0 THEN r.min - a.off ELSE Smaller(t.min, r.min - a.off),
                       max |-> IF t.count = 0 THEN r.max - a.off ELSE Larger(t.max, r.max - a.off)]
    BY <2>1, <2>2, Zenon
  <2> HIDE DEF one, t, s, a
  <2>4. AggOf(a.kind, one(i), S \cup T)
    BY <2>2, <2>3, MergedCopy
  <2> QED
    BY <2>4, Zenon DEF a
<1> HIDE DEF one
<1>6. DOMAIN out = DOMAIN query.aggs /\ \A i \in DOMAIN query.aggs : out[i] = one(i)
  BY <1>1, <1>4, Zenon
<1> QED
  BY <1>5, <1>6, Zenon DEF AggsOf, out, part

(* The number copied out of an aggregate is SQL's. *)
LEMMA CopyRight ==
  ASSUME AnswerableTable(table), NEW a \in [kind : AggKinds, off : Int], NEW S \in SUBSET AllRows,
         NEW s, AggOf(a.kind, s, S)
  PROVE  Right(a.kind, a.off, CopyAgg(s, a), S)
<1> DEFINE kind == a.kind
           off == a.off
           V == WithValue(S)
           vals == {Cell(r, "v") : r \in V}
           r == CopyAgg(s, a)
<1>1. s \in AggState /\ s.count = Cardinality(Counted(kind, S)) /\ off \in Int /\ kind \in AggKinds
  BY DEF AggOf
<1>2. CASE kind = "count_star"
  <2>1. r.count = s.count
    BY <1>2, Zenon DEF CopyAgg, Counting
  <2>2. Said(kind, r) = r.count /\ Answer(kind, off, S) = Cardinality(S)
    BY <1>2 DEF Said, Answer, Counting
  <2> QED
    BY <1>1, <1>2, <2>1, <2>2 DEF Right, Counted
<1>3. CASE kind = "count"
  <2>1. r.count = s.count
    BY <1>3, Zenon DEF CopyAgg, Counting
  <2>2. Said(kind, r) = r.count /\ Answer(kind, off, S) = Cardinality(V)
    BY <1>3 DEF Said, Answer, Counting
  <2> QED
    BY <1>1, <1>3, <2>1, <2>2 DEF Right, Counted
<1>4. CASE kind \in {"sum", "avg"}
  <2>1. r.count = s.count /\ r.sum = s.sum + off * s.count
    BY <1>4 DEF CopyAgg, Counting
  <2>2. Said(kind, r) = r.sum /\ Answer(kind, off, S) = Sum(V) + off * Cardinality(V)
    BY <1>4 DEF Said, Answer, Counting
  <2>3. s.sum = Sum(V) /\ s.count = Cardinality(V)
    BY <1>1, <1>4 DEF AggOf, Counted
  <2> QED
    BY <1>4, <2>1, <2>2, <2>3, Zenon DEF Right
<1>5. kind \in {"min", "max"} => (s.count = 0 <=> V = {}) /\ s.count \in Nat /\ s.min \in Int /\ s.max \in Int
  BY <1>1, NothingCounted DEF AggState
<1>6. \A e \in V : Cell(e, "v") \in Int
  BY RowsFinite, ValuedCell
<1>7. CASE kind = "min"
  <2>1. r.min = IF s.count > 0 THEN s.min + off ELSE 0
    BY <1>7 DEF CopyAgg, Counting
  <2>2. Said(kind, r) = r.min /\ Answer(kind, off, S) = IF vals = {} THEN 0 ELSE Min(vals) + off
    BY <1>7 DEF Said, Answer, Counting
  <2>3. Lowest(s.min, V)
    BY <1>7 DEF AggOf
  <2> HIDE DEF V
  <2>4. V # {} => Min(vals) = s.min
    <3> SUFFICES ASSUME V # {}
                 PROVE  Min(vals) = s.min
      OBVIOUS
    <3>1. s.min \in vals /\ \A x \in vals : s.min <= x
      BY <2>3 DEF Lowest
    <3>2. Min(vals) = CHOOSE x \in vals : \A y \in vals : x <= y
      BY Zenon DEF Min
    <3>3. \A x \in vals : x \in Int
      BY <1>6
    <3> HIDE DEF vals
    <3>4. Min(vals) \in vals /\ \A y \in vals : Min(vals) <= y
      BY <3>1, <3>2, Zenon
    <3> QED
      BY <3>1, <3>3, <3>4
  <2>5. vals = {} <=> V = {}
    OBVIOUS
  <2> QED
    BY <1>5, <1>7, <2>1, <2>2, <2>4, <2>5 DEF Right
<1>8. CASE kind = "max"
  <2>1. r.max = IF s.count > 0 THEN s.max + off ELSE 0
    BY <1>8 DEF CopyAgg, Counting
  <2>2. Said(kind, r) = r.max /\ Answer(kind, off, S) = IF vals = {} THEN 0 ELSE Max(vals) + off
    BY <1>8 DEF Said, Answer, Counting
  <2>3. Highest(s.max, V)
    BY <1>8 DEF AggOf
  <2> HIDE DEF V
  <2>4. V # {} => Max(vals) = s.max
    <3> SUFFICES ASSUME V # {}
                 PROVE  Max(vals) = s.max
      OBVIOUS
    <3>1. s.max \in vals /\ \A x \in vals : s.max >= x
      BY <1>6, <2>3 DEF Highest
    <3>2. Max(vals) = CHOOSE x \in vals : \A y \in vals : x >= y
      BY Zenon DEF Max
    <3>3. \A x \in vals : x \in Int
      BY <1>6
    <3> HIDE DEF vals
    <3>4. Max(vals) \in vals /\ \A y \in vals : Max(vals) >= y
      BY <3>1, <3>2, Zenon
    <3> QED
      BY <3>1, <3>3, <3>4
  <2>5. vals = {} <=> V = {}
    OBVIOUS
  <2> QED
    BY <1>5, <1>8, <2>1, <2>2, <2>4, <2>5 DEF Right
<1> QED
  BY <1>1, <1>2, <1>3, <1>4, <1>7, <1>8 DEF AggKinds

-----------------------------------------------------------------------------
(* The plans of a query. *)

IsPlan(p) == p = [rows |-> p.rows, heap |-> p.heap, aggs |-> p.aggs, groups |-> p.groups,
                  counts |-> p.counts, sums |-> p.sums]

\* What execute_row_phase makes of the heap and of the rows, and the reducer of the heap.
HeapAfter(heap, q, c, chunk, mask) ==
    Fold(LAMBDA h, i : PushCandidate(h, [k |-> chunk[q.order[1]][i], row |-> RowId(c, i)], RowTake(q)),
         heap, Ascending(mask))
RowsAfter(rows, q, c, mask) ==
    SubSeq(rows \o [j \in DOMAIN Ascending(mask) |-> RowId(c, Ascending(mask)[j])], 1,
           Smaller(Larger(RowTake(q), Len(rows)), Len(rows) + Len(Ascending(mask))))

\* The results of the caller's plan after the first chunks of the local loop.
LocalPlans(q, t) ==
    LET f[k \in 0..Len(t)] ==
            IF k = 0 THEN ResetResults(<<>>, q)
            ELSE IF Pruned(q.filters, q.combine, t[k]) THEN f[k - 1] ELSE ExecChunk(f[k - 1], q, k, t[k])
    IN  f
TaskPlan(q, c, chunk) == ExecChunk(ResetResults(<<>>, q), q, c, chunk)
PartialOf(q, c, chunk) ==
    IF Pruned(q.filters, q.combine, chunk) THEN EmptyPartial(q) ELSE CopyPartial(TaskPlan(q, c, chunk), q)

(* A plan that was reset holds nothing, whatever it held before. *)
LEMMA ResetIsPlan ==
  ASSUME NEW q, NEW p
  PROVE  LET r == ResetResults(p, q)
         IN  /\ r = ResetResults(<<>>, q) /\ IsPlan(r)
             /\ r.rows = <<>> /\ r.heap = {} /\ r.groups = <<>>
             /\ r.aggs = [i \in DOMAIN q.aggs |-> EmptyAgg]
             /\ r.counts = [id \in 0..DictLen - 1 |-> 0]
BY DEF ResetResults, IsPlan

\* What plan_exec_chunk leaves in each field, for a mask m with rows.
Executed(x, p, q, c, chunk, m) ==
    /\ IsPlan(x)
    /\ x.aggs = ExecAggregates(p.aggs, q, chunk, m)
    /\ x.groups = IF q.group /\ ~UsesHistogram(q) THEN ExecGroups(p.groups, q, chunk, m) ELSE p.groups
    /\ x.counts = IF q.group /\ UsesHistogram(q) THEN HistCount(p.counts, chunk, m) ELSE p.counts
    /\ q.limit \in Nat =>
         /\ x.heap = IF q.limit > 0 /\ q.order # <<>> THEN HeapAfter(p.heap, q, c, chunk, m) ELSE p.heap
         /\ x.rows = IF q.limit > 0 /\ q.order = <<>> THEN RowsAfter(p.rows, q, c, m) ELSE p.rows

(* plan_exec_chunk on a mask with rows is its three phases, field by field. *)
LEMMA ExecFields ==
  ASSUME NEW p, IsPlan(p), NEW q, NEW c, NEW chunk, NEW m, m = ChunkMask(q.filters, q.combine, chunk)[1], m # {}
  PROVE  Executed(ExecChunk(p, q, c, chunk), p, q, c, chunk, m)
<1> DEFINE x == ExecChunk(p, q, c, chunk)
           a == [p EXCEPT !.aggs = ExecAggregates(@, q, chunk, m)]
           g == ExecGroupPhase(a, q, chunk, m)
           A == ExecAggregates(p.aggs, q, chunk, m)
           G == ExecGroups(p.groups, q, chunk, m)
           C == HistCount(p.counts, chunk, m)
           U == HistSum(p.sums, chunk, m)
           hist == UsesHistogram(q)
           sums == WithSums(q)
<1>1. x = ExecRows(g, q, c, chunk, m)
  BY Zenon DEF ExecChunk
<1>2. a = [p EXCEPT !.aggs = A]
  BY Zenon
<1> HIDE DEF A, a
<1>3. IsPlan(a) /\ a.aggs = A /\ a.rows = p.rows /\ a.heap = p.heap /\ a.groups = p.groups /\ a.counts = p.counts /\ a.sums = p.sums
  BY <1>2 DEF IsPlan
<1>4. g = IF ~q.group THEN a
          ELSE IF hist THEN [a EXCEPT !.counts = C, !.sums = IF sums THEN U ELSE a.sums]
          ELSE [a EXCEPT !.groups = G]
  <2>1. CASE ~q.group
    BY <2>1, Zenon DEF ExecGroupPhase
  <2>2. CASE q.group /\ hist
    BY <1>3, <2>2, Zenon DEF ExecGroupPhase
  <2>3. CASE q.group /\ ~hist
    BY <1>3, <2>3, Zenon DEF ExecGroupPhase
  <2> QED
    BY <2>1, <2>2, <2>3, Zenon
<1> HIDE DEF g, C, U, G, hist, sums
<1>5. IsPlan(g) /\ g.aggs = A /\ g.rows = p.rows /\ g.heap = p.heap
      /\ g.groups = (IF q.group /\ ~hist THEN G ELSE p.groups)
      /\ g.counts = (IF q.group /\ hist THEN C ELSE p.counts)
  <2>1. CASE ~q.group
    BY <1>3, <1>4, <2>1 DEF IsPlan
  <2>2. CASE q.group /\ hist
    BY <1>3, <1>4, <2>2 DEF IsPlan
  <2>3. CASE q.group /\ ~hist
    BY <1>3, <1>4, <2>3 DEF IsPlan
  <2> QED
    BY <2>1, <2>2, <2>3
<1> DEFINE H == HeapAfter(p.heap, q, c, chunk, m)
           W == RowsAfter(p.rows, q, c, m)
<1>6. x = IF q.limit = 0 THEN g
          ELSE IF q.limit > 0 /\ q.order # <<>> THEN [g EXCEPT !.heap = H] ELSE [g EXCEPT !.rows = W]
  <2> HIDE DEF x
  <2>0. x = ExecRows(g, q, c, chunk, m)
    BY <1>1
  <2>1. CASE q.limit = 0
    BY <2>0, <2>1 DEF ExecRows
  <2>2. CASE q.limit # 0 /\ q.limit > 0 /\ q.order # <<>>
    BY <1>5, <2>0, <2>2, Zenon DEF ExecRows, HeapAfter
  <2>3. CASE q.limit # 0 /\ ~(q.limit > 0 /\ q.order # <<>>)
    BY <1>5, <2>0, <2>3, Zenon DEF ExecRows, RowsAfter
  <2> QED
    BY <2>1, <2>2, <2>3
<1> HIDE DEF H, W, x
<1>7. IsPlan(x) /\ x.aggs = A /\ x.groups = g.groups /\ x.counts = g.counts
      /\ (q.limit \in Nat =>
           /\ x.heap = (IF q.limit > 0 /\ q.order # <<>> THEN H ELSE p.heap)
           /\ x.rows = (IF q.limit > 0 /\ q.order = <<>> THEN W ELSE p.rows))
  BY <1>5, <1>6 DEF IsPlan
<1> QED
  BY <1>5, <1>7 DEF Executed, x, A, G, C, H, W, hist

(* The local loop. *)
LEMMA LocalFold ==
  ASSUME NEW q, NEW t, Len(t) \in Nat
  PROVE  /\ LocalPlans(q, t)[0] = ResetResults(<<>>, q)
         /\ \A k \in 1..Len(t) : LocalPlans(q, t)[k] = IF Pruned(q.filters, q.combine, t[k]) THEN LocalPlans(q, t)[k - 1]
                                                      ELSE ExecChunk(LocalPlans(q, t)[k - 1], q, k, t[k])
<1> DEFINE N == Len(t)
           Op(x, k) == (IF Pruned(q.filters, q.combine, t[k]) THEN x ELSE ExecChunk(x, q, k, t[k]))
           Runs(n, f) == f = [k \in 0..n |-> IF k = 0 THEN ResetResults(<<>>, q) ELSE Op(f[k - 1], k)]
           T == {n \in Nat : \E f : Runs(n, f)}
           F == CHOOSE f : Runs(N, f)
<1>1. LocalPlans(q, t) = F
  BY Zenon DEF LocalPlans
<1> DEFINE base == ResetResults(<<>>, q)
<1> HIDE DEF Op, base
<1>2. 0 \in T
  <2>1. Runs(0, [k \in 0..0 |-> base])
    BY DEF base
  <2> QED
    BY <2>1
<1>3. ASSUME NEW n \in 1..N, n - 1 \in T
      PROVE  n \in T
  <2>1. PICK r : Runs(n - 1, r)
    BY <1>3
  <2>2. n \in Nat /\ n # 0 /\ n - 1 \in 0..n /\ n - 1 \in 0..(n - 1) /\ 0 \in 0..(n - 1)
        /\ (\A k \in 0..(n - 1) : k \in 0..n /\ k # n /\ (k # 0 => k - 1 \in 0..(n - 1)))
        /\ \A k \in 0..n : k = n \/ k \in 0..(n - 1)
    BY <1>3
  <2> DEFINE f == [k \in 0..n |-> IF k = n THEN Op(r[n - 1], n) ELSE r[k]]
  <2>3. /\ f = [k \in 0..n |-> f[k]] /\ f[n] = Op(r[n - 1], n)
        /\ \A k \in 0..(n - 1) : f[k] = r[k]
    <3>1. n \in 0..n
      BY <2>2
    <3> QED
      BY <2>2, <3>1, Zenon
  <2> HIDE DEF f
  <2>4. \A k \in 0..(n - 1) : r[k] = IF k = 0 THEN base ELSE Op(r[k - 1], k)
    BY <2>1, Zenon DEF base
  <2>5. \A k \in 0..n : f[k] = IF k = 0 THEN base ELSE Op(f[k - 1], k)
    <3>1. f[n] = Op(f[n - 1], n)
      BY <2>2, <2>3, Zenon
    <3>2. \A k \in 0..(n - 1) : f[k] = IF k = 0 THEN base ELSE Op(f[k - 1], k)
      <4> TAKE k \in 0..(n - 1)
      <4>1. CASE k = 0
        BY <2>3, <2>4, <4>1, Zenon
      <4>2. CASE k # 0
        <5>1. k - 1 \in 0..(n - 1) /\ f[k - 1] = r[k - 1]
          BY <2>2, <2>3, <4>2, Zenon
        <5> QED
          BY <2>3, <2>4, <4>2, <5>1, Zenon
      <4> QED
        BY <4>1, <4>2, Zenon
    <3> QED
      BY <2>2, <3>1, <3>2, Zenon
  <2>6. Runs(n, f)
    BY <2>3, <2>5, Zenon DEF base
  <2> HIDE DEF Runs
  <2> QED
    BY <2>2, <2>6, Zenon
<1>4. N \in Nat /\ 0 \in 0..N /\ \A k \in 1..N : k \in 0..N /\ k # 0
  OBVIOUS
<1> HIDE DEF T
<1>5. N \in T
  BY <1>2, <1>3, <1>4, AllReached, Zenon
<1>6. Runs(N, F)
  <2> HIDE DEF Runs
  <2>1. \E f : Runs(N, f)
    BY <1>5, Zenon DEF T
  <2> QED
    BY <2>1, Zenon
<1> HIDE DEF F, N
<1>7. F[0] = base /\ \A k \in 1..N : F[k] = Op(F[k - 1], k)
  BY <1>4, <1>6, Zenon DEF base
<1> QED
  BY <1>1, <1>7, Zenon DEF Op, base, N

(* reducePartials. *)
LEMMA ReducedFold ==
  ASSUME NEW p, NEW q, NEW parts, Len([c \in DOMAIN parts |-> c]) \in Nat
  PROVE  \E f : /\ f[0] = ResetResults(p, q)
                /\ \A k \in 1..Len([c \in DOMAIN parts |-> c]) : f[k] = MergePartial(f[k - 1], q, parts[[c \in DOMAIN parts |-> c][k]])
                /\ ReducePartials(p, q, parts) = f[Len([c \in DOMAIN parts |-> c])]
<1> DEFINE N == Len([c \in DOMAIN parts |-> c])
           Op(x, k) == MergePartial(x, q, parts[[c \in DOMAIN parts |-> c][k]])
           Runs(n, f) == f = [k \in 0..n |-> IF k = 0 THEN ResetResults(p, q) ELSE Op(f[k - 1], k)]
           T == {n \in Nat : \E f : Runs(n, f)}
           F == CHOOSE f : Runs(N, f)
<1>1. ReducePartials(p, q, parts) = F[N]
  BY Zenon DEF Fold, ReducePartials
<1> DEFINE base == ResetResults(p, q)
<1> HIDE DEF Op, base
<1>2. 0 \in T
  <2>1. Runs(0, [k \in 0..0 |-> base])
    BY DEF base
  <2> QED
    BY <2>1
<1>3. ASSUME NEW n \in 1..N, n - 1 \in T
      PROVE  n \in T
  <2>1. PICK r : Runs(n - 1, r)
    BY <1>3
  <2>2. n \in Nat /\ n # 0 /\ n - 1 \in 0..n /\ n - 1 \in 0..(n - 1) /\ 0 \in 0..(n - 1)
        /\ (\A k \in 0..(n - 1) : k \in 0..n /\ k # n /\ (k # 0 => k - 1 \in 0..(n - 1)))
        /\ \A k \in 0..n : k = n \/ k \in 0..(n - 1)
    BY <1>3
  <2> DEFINE f == [k \in 0..n |-> IF k = n THEN Op(r[n - 1], n) ELSE r[k]]
  <2>3. /\ f = [k \in 0..n |-> f[k]] /\ f[n] = Op(r[n - 1], n)
        /\ \A k \in 0..(n - 1) : f[k] = r[k]
    <3>1. n \in 0..n
      BY <2>2
    <3> QED
      BY <2>2, <3>1, Zenon
  <2> HIDE DEF f
  <2>4. \A k \in 0..(n - 1) : r[k] = IF k = 0 THEN base ELSE Op(r[k - 1], k)
    BY <2>1, Zenon DEF base
  <2>5. \A k \in 0..n : f[k] = IF k = 0 THEN base ELSE Op(f[k - 1], k)
    <3>1. f[n] = Op(f[n - 1], n)
      BY <2>2, <2>3, Zenon
    <3>2. \A k \in 0..(n - 1) : f[k] = IF k = 0 THEN base ELSE Op(f[k - 1], k)
      <4> TAKE k \in 0..(n - 1)
      <4>1. CASE k = 0
        BY <2>3, <2>4, <4>1, Zenon
      <4>2. CASE k # 0
        <5>1. k - 1 \in 0..(n - 1) /\ f[k - 1] = r[k - 1]
          BY <2>2, <2>3, <4>2, Zenon
        <5> QED
          BY <2>3, <2>4, <4>2, <5>1, Zenon
      <4> QED
        BY <4>1, <4>2, Zenon
    <3> QED
      BY <2>2, <3>1, <3>2, Zenon
  <2>6. Runs(n, f)
    BY <2>3, <2>5, Zenon DEF base
  <2> HIDE DEF Runs
  <2> QED
    BY <2>2, <2>6, Zenon
<1>4. N \in Nat /\ 0 \in 0..N /\ \A k \in 1..N : k \in 0..N /\ k # 0
  OBVIOUS
<1> HIDE DEF T
<1>5. N \in T
  BY <1>2, <1>3, <1>4, AllReached, Zenon
<1>6. Runs(N, F)
  <2> HIDE DEF Runs
  <2>1. \E f : Runs(N, f)
    BY <1>5, Zenon DEF T
  <2> QED
    BY <2>1, Zenon
<1> HIDE DEF F, N
<1>7. F[0] = base /\ \A k \in 1..N : F[k] = Op(F[k - 1], k)
  BY <1>4, <1>6, Zenon DEF base
<1> QED
  BY <1>1, <1>7, Zenon DEF Op, base, N

-----------------------------------------------------------------------------
(* The first k of a set in an order. *)

\* X is what remains of S when no more than k are kept: all of S, or k that are before the rest.
Keeps(X, S, R, k) ==
    /\ X \in SUBSET S /\ Cardinality(X) <= k
    /\ \A e \in S \ X : Cardinality(X) = k /\ \A x \in X : <<x, e>> \in R
\* Nothing of the first k of S is missing in X.
CoversFirst(X, S, R, k) == X \in SUBSET S /\ \A e \in S \ X : k <= Cardinality(Under(e, X, R))

(* An order of a set is one of its subsets. *)
LEMMA OrdersSub ==
  ASSUME NEW B, NEW R, Orders(R, B), NEW S \in SUBSET B
  PROVE  Orders(R, S)
BY Zenon DEF Orders

(* What keeps the first k leaves none of them out. *)
LEMMA KeepsCovers ==
  ASSUME NEW S, IsFiniteSet(S), NEW R, NEW k \in Nat, NEW X, Keeps(X, S, R, k)
  PROVE  CoversFirst(X, S, R, k)
<1> SUFFICES ASSUME NEW e \in S \ X
             PROVE  k <= Cardinality(Under(e, X, R))
  BY Zenon DEF Keeps, CoversFirst
<1>1. Under(e, X, R) = X /\ Cardinality(X) = k
  BY Zenon DEF Keeps, Under
<1> QED
  BY <1>1

\* Place j of a listing x of X is that of s.
Begins(x, X, s, j) == j \in 1..Cardinality(X) /\ x[j] = s[j]
(* A listing of what covers the first k begins like a listing of the set. *)
LEMMA CoversPrefix ==
  ASSUME NEW S, IsFiniteSet(S), NEW R, Orders(R, S), NEW k \in Nat, NEW X, CoversFirst(X, S, R, k),
         NEW s, Lists(s, S, R), NEW x, Lists(x, X, R), NEW j \in 1..Cardinality(S), j <= k
  PROVE  Begins(x, X, s, j)
<1> DEFINE e == s[j]
<1>1. X \in SUBSET S /\ IsFiniteSet(X) /\ Orders(R, X)
  BY FS_Subset, OrdersSub DEF CoversFirst
<1>2. e \in S /\ Cardinality(Under(e, S, R)) = j - 1
  BY Zenon DEF Lists
<1>3. IsFiniteSet(Under(e, S, R)) /\ Under(e, S, R) \in SUBSET S
  <2>1. Under(e, S, R) \in SUBSET S
    BY DEF Under
  <2> QED
    BY <2>1, FS_Subset
<1>a. Cardinality(S) \in Nat
  BY FS_CardinalityType
<1>4. ASSUME NEW y \in S, y = e \/ <<y, e>> \in R
      PROVE  y \in X
  <2> SUFFICES ASSUME y \notin X
               PROVE  FALSE
    OBVIOUS
  <2>1. k <= Cardinality(Under(y, X, R))
    BY Zenon DEF CoversFirst
  <2>2. Under(y, X, R) \in SUBSET Under(e, S, R)
    BY <1>1, <1>2, <1>4, Zenon DEF Under, Orders
  <2>3. Cardinality(Under(y, X, R)) <= Cardinality(Under(e, S, R))
    BY <1>3, <2>2, FS_Subset
  <2>4. Cardinality(Under(y, X, R)) \in Nat
    BY <1>3, <2>2, FS_Subset, FS_CardinalityType
  <2> QED
    BY <1>2, <1>a, <2>1, <2>3, <2>4
<1>5. e \in X /\ Under(e, X, R) = Under(e, S, R)
  BY <1>1, <1>2, <1>4, Zenon DEF Under
<1>6. /\ Cardinality(X) \in Nat /\ Cardinality(Under(e, X, R)) \in 0..(Cardinality(X) - 1)
      /\ \A a, b \in X : Cardinality(Under(a, X, R)) = Cardinality(Under(b, X, R)) => a = b
  BY <1>1, <1>5, Places, Zenon
<1>7. j \in 1..Cardinality(X)
  BY <1>2, <1>5, <1>6
<1>8. x[j] \in X /\ Cardinality(Under(x[j], X, R)) = j - 1
  BY <1>7, Zenon DEF Lists
<1>9. x[j] = e
  BY <1>2, <1>5, <1>6, <1>8, Zenon
<1> QED
  BY <1>7, <1>9 DEF Begins

(* One more element: kept beside the others while there is room, in place of the last one, or *)
(* not at all.                                                                               *)
LEMMA KeepsRoom ==
  ASSUME NEW S, IsFiniteSet(S), NEW R, NEW k \in Nat, NEW X, Keeps(X, S, R, k), NEW c, c \notin S,
         Cardinality(X) < k
  PROVE  Keeps(X \cup {c}, S \cup {c}, R, k)
<1>1. X = S
  BY FS_CardinalityType DEF Keeps
<1>2. Cardinality(X \cup {c}) = Cardinality(X) + 1 /\ Cardinality(X) \in Nat
  BY <1>1, FS_AddElement, FS_CardinalityType
<1>3. Cardinality(X \cup {c}) <= k
  BY <1>2
<1> QED
  BY <1>1, <1>3, Zenon DEF Keeps

(* A finite set that is not empty has a last element. *)
LEMMA LastIs ==
  ASSUME NEW X, IsFiniteSet(X), X # {}, NEW R, Orders(R, X)
  PROVE  \E w \in X : \A d \in X : <<w, d>> \notin R
<1> DEFINE n == Cardinality(X)
<1>1. n \in Nat /\ n # 0
  BY FS_CardinalityType, FS_EmptySet
<1>2. n - 1 \in 0..(n - 1)
  BY <1>1
<1>3. PICK w \in X : Cardinality(Under(w, X, R)) = n - 1
  <2>1. \A i \in 0..(n - 1) : \E x \in X : Cardinality(Under(x, X, R)) = i
    BY Places
  <2> QED
    BY <1>2, <2>1, Zenon
<1>4. \A d \in X : Cardinality(Under(d, X, R)) \in 0..(n - 1)
                   /\ (<<w, d>> \in R <=> Cardinality(Under(w, X, R)) < Cardinality(Under(d, X, R)))
  BY Places, Zenon
<1>5. \A d \in X : <<w, d>> \notin R
  BY <1>1, <1>3, <1>4
<1> QED
  BY <1>5

(* A newcomer before the last one kept takes its place, *)
LEMMA KeepsSwap ==
  ASSUME NEW S, IsFiniteSet(S), NEW R, NEW k \in Nat, NEW X, Keeps(X, S, R, k), NEW c, c \notin S,
         Orders(R, S \cup {c}), NEW w \in X, \A d \in X : <<w, d>> \notin R, <<c, w>> \in R, Cardinality(X) >= k
  PROVE  Keeps((X \ {w}) \cup {c}, S \cup {c}, R, k)
<1> DEFINE Y == (X \ {w}) \cup {c}
<1>1. X \in SUBSET S /\ IsFiniteSet(X) /\ w \in S /\ w # c /\ c \notin X
  BY FS_Subset DEF Keeps
<1>2. Cardinality(Y) = Cardinality(X)
  <2>1. IsFiniteSet(X \ {w}) /\ Cardinality(X \ {w}) = Cardinality(X) - 1
    BY <1>1, FS_RemoveElement
  <2>2. Cardinality(Y) = Cardinality(X \ {w}) + 1
    BY <1>1, <2>1, FS_AddElement
  <2>3. Cardinality(X) \in Nat
    BY <1>1, FS_CardinalityType
  <2> QED
    BY <2>1, <2>2, <2>3
<1>3. \A d \in X : d = w \/ <<d, w>> \in R
  BY <1>1, Zenon DEF Orders
<1>4. \A y \in Y : <<y, w>> \in R
  BY <1>3, Zenon
<1>5. \A y \in Y : y \in S \cup {c}
  BY <1>1, Zenon
<1>6. ASSUME NEW e \in (S \cup {c}) \ Y
      PROVE  Cardinality(X) = k /\ \A y \in Y : <<y, e>> \in R
  <2>1. CASE e = w
    <3>1. \A y \in Y : <<y, e>> \in R
      BY <1>4, <2>1, Zenon
    <3>2. Cardinality(X) = k
      BY <1>1, FS_CardinalityType DEF Keeps
    <3> QED
      BY <3>1, <3>2
  <2>2. CASE e # w
    <3>1. e \in S \ X
      BY <2>2, Zenon
    <3>2. Cardinality(X) = k /\ <<w, e>> \in R
      BY <3>1, Zenon DEF Keeps
    <3>3. \A y \in Y : <<y, e>> \in R
      BY <1>1, <1>4, <1>5, <3>1, <3>2, Zenon DEF Orders
    <3> QED
      BY <3>2, <3>3
  <2> QED
    BY <2>1, <2>2
<1>7. Y \in SUBSET (S \cup {c})
  BY <1>5
<1> HIDE DEF Y
<1>8. Keeps(Y, S \cup {c}, R, k)
  BY <1>2, <1>6, <1>7, Zenon DEF Keeps
<1> QED
  BY <1>8 DEF Y

(* and one after it is left out. *)
LEMMA KeepsOut ==
  ASSUME NEW S, IsFiniteSet(S), NEW R, NEW k \in Nat, NEW X, Keeps(X, S, R, k), NEW c, c \notin S,
         Orders(R, S \cup {c}), NEW w \in X, \A d \in X : <<w, d>> \notin R, <<c, w>> \notin R, Cardinality(X) >= k
  PROVE  Keeps(X, S \cup {c}, R, k)
<1>1. X \in SUBSET S /\ w \in S /\ w # c
  BY DEF Keeps
<1>2. <<w, c>> \in R /\ \A d \in X : d = w \/ <<d, w>> \in R
  BY <1>1, Zenon DEF Orders
<1>3. \A d \in X : <<d, c>> \in R
  BY <1>1, <1>2, Zenon DEF Orders
<1>4. Cardinality(X) = k
  <2>1. IsFiniteSet(X)
    BY <1>1, FS_Subset
  <2> QED
    BY <2>1, FS_CardinalityType DEF Keeps
<1> QED
  BY <1>1, <1>3, <1>4 DEF Keeps

-----------------------------------------------------------------------------
(* The heap of row candidates. *)

CandSet == [k : Int \cup {Null}, row : Nat]
ByRank == {p \in CandSet \X CandSet : Before(p[1], p[2])}
Candidate(r) == [k |-> Cell(r, query.order[1]), row |-> r]
Cands(S) == {Candidate(r) : r \in S}
MergedHeap(heap, q, more) == Fold(LAMBDA h, c : PushCandidate(h, c, RowTake(q)), heap, SetToSeq(more))

(* Candidates are in an order, NULL keys last, no two alike. *)
LEMMA RankOrders ==
  /\ Orders(ByRank, CandSet)
  /\ \A a, b \in CandSet : <<a, b>> \in ByRank <=> Before(a, b)
<1>1. \A a, b \in CandSet : <<a, b>> \in ByRank <=> Before(a, b)
  BY DEF ByRank
<1>2. ASSUME NEW a \in CandSet
      PROVE  a.k \in Int \cup {Null} /\ a.row \in Nat /\ a = [k |-> a.k, row |-> a.row]
  BY DEF CandSet
<1>3. \A a \in CandSet : ~Before(a, a)
  BY <1>2 DEF Before
<1>4. ASSUME NEW a \in CandSet, NEW b \in CandSet, NEW c \in CandSet, Before(a, b), Before(b, c)
      PROVE  Before(a, c)
  <2>1. /\ a.k \in Int \/ a.k = Null
        /\ b.k \in Int \/ b.k = Null
        /\ c.k \in Int \/ c.k = Null
        /\ a.row \in Nat /\ b.row \in Nat /\ c.row \in Nat
    BY <1>2
  <2> QED
    BY <1>4, <2>1 DEF Before
<1>5. ASSUME NEW a \in CandSet, NEW b \in CandSet, a # b
      PROVE  Before(a, b) \/ Before(b, a)
  <2>1. a.k # b.k \/ a.row # b.row
    BY <1>2, <1>5
  <2> QED
    BY <1>2, <2>1 DEF Before
<1> QED
  BY <1>1, <1>3, <1>4, <1>5, Zenon DEF Orders

(* push_row_candidate keeps the first k candidates, whichever comes. *)
LEMMA PushKeeps ==
  ASSUME NEW S \in SUBSET CandSet, IsFiniteSet(S), NEW k \in Nat \ {0}, NEW X, Keeps(X, S, ByRank, k),
         NEW c \in CandSet, c \notin S
  PROVE  Keeps(PushCandidate(X, c, k), S \cup {c}, ByRank, k)
<1> DEFINE w == Worst(X)
           R == ByRank
<1>1. X \in SUBSET S /\ IsFiniteSet(X) /\ Cardinality(X) \in Nat
  BY FS_Subset, FS_CardinalityType DEF Keeps
<1>2. Orders(R, S \cup {c}) /\ Orders(R, X)
  <2>1. S \cup {c} \in SUBSET CandSet /\ X \in SUBSET CandSet
    BY <1>1
  <2> QED
    BY <2>1, RankOrders, OrdersSub, Zenon
<1>3. CASE Cardinality(X) < k
  <2>1. PushCandidate(X, c, k) = X \cup {c}
    BY <1>1, <1>3 DEF PushCandidate
  <2> QED
    BY <1>3, <2>1, KeepsRoom
<1>4. CASE Cardinality(X) >= k
  <2>1. X # {}
    BY <1>4, FS_EmptySet
  <2>2. \E d \in X : \A e \in X : ~Before(d, e)
    <3>1. \E d \in X : \A e \in X : <<d, e>> \notin R
      BY <1>1, <1>2, <2>1, LastIs, Zenon
    <3> QED
      BY <1>1, <3>1, RankOrders
  <2>3. w \in X /\ \A e \in X : ~Before(w, e)
    BY <2>2, Zenon DEF Worst
  <2> HIDE DEF w
  <2>4. w \in CandSet /\ (\A e \in X : <<w, e>> \notin R) /\ (<<c, w>> \in R <=> Before(c, w))
    BY <1>1, <2>3, RankOrders
  <2>5. CASE Before(c, w)
    <3>1. PushCandidate(X, c, k) = (X \ {w}) \cup {c}
      BY <1>1, <1>4, <2>5 DEF PushCandidate, w
    <3>2. <<c, w>> \in R /\ w \in X
      BY <2>3, <2>4, <2>5
    <3>3. Keeps((X \ {w}) \cup {c}, S \cup {c}, R, k)
      BY <1>2, <1>4, <2>4, <3>2, KeepsSwap, Zenon
    <3> QED
      BY <3>1, <3>3
  <2>6. CASE ~Before(c, w)
    <3>1. PushCandidate(X, c, k) = X
      BY <1>1, <1>4, <2>6 DEF PushCandidate, w
    <3>2. Keeps(X, S \cup {c}, R, k)
      BY <1>2, <1>4, <2>3, <2>4, <2>6, KeepsOut
    <3> QED
      BY <3>1, <3>2
  <2> QED
    BY <2>5, <2>6
<1> QED
  BY <1>1, <1>3, <1>4

(* What is kept of one set, and what is kept of that and another: of both. *)
LEMMA JoinKeeps ==
  ASSUME NEW S, IsFiniteSet(S), NEW T, IsFiniteSet(T), S \cap T = {}, NEW R, Orders(R, S \cup T), NEW k \in Nat,
         NEW Y, Keeps(Y, T, R, k), NEW X, Keeps(X, S \cup Y, R, k)
  PROVE  Keeps(X, S \cup T, R, k)
<1>1. Y \in SUBSET T /\ IsFiniteSet(Y) /\ X \in SUBSET (S \cup Y) /\ IsFiniteSet(S \cup Y)
  <2>1. Y \in SUBSET T /\ X \in SUBSET (S \cup Y)
    BY DEF Keeps
  <2>2. IsFiniteSet(Y)
    BY <2>1, FS_Subset
  <2>3. IsFiniteSet(S \cup Y)
    BY <2>2, FS_Union
  <2> QED
    BY <2>1, <2>2, <2>3
<1>2. IsFiniteSet(X) /\ Cardinality(X) \in Nat /\ Cardinality(Y) \in Nat /\ Cardinality(X) <= k
  BY <1>1, FS_Subset, FS_CardinalityType DEF Keeps
<1>3. ASSUME NEW e \in (S \cup T) \ X
      PROVE  Cardinality(X) = k /\ \A x \in X : <<x, e>> \in R
  <2>1. CASE e \in S \cup Y
    BY <1>3, <2>1 DEF Keeps
  <2>2. CASE e \notin S \cup Y
    <3>1. e \in T \ Y
      BY <1>3, <2>2
    <3>2. Cardinality(Y) = k /\ \A y \in Y : <<y, e>> \in R
      BY <3>1 DEF Keeps
    <3>3. Cardinality(X) = k
      <4> SUFFICES ASSUME Cardinality(X) # k
                   PROVE  FALSE
        OBVIOUS
      <4>1. S \cup Y \subseteq X
        BY DEF Keeps
      <4>2. Cardinality(Y) <= Cardinality(X)
        BY <1>2, <4>1, FS_Subset
      <4> QED
        BY <1>2, <3>2, <4>2
    <3>4. ASSUME NEW x \in X, <<x, e>> \notin R
          PROVE  FALSE
      <4>1. x \in S \cup T /\ x # e /\ e \in S \cup T
        BY <1>1, <1>3
      <4>2. <<e, x>> \in R
        BY <3>4, <4>1, Zenon DEF Orders
      <4>3. x \notin Y
        BY <3>2, <3>4
      <4>4. \A y \in Y : <<y, x>> \in R
        BY <1>1, <3>2, <4>1, <4>2, Zenon DEF Orders
      <4>5. Y \subseteq X
        <5> SUFFICES ASSUME NEW y \in Y, y \notin X
                     PROVE  FALSE
          OBVIOUS
        <5>1. <<x, y>> \in R /\ <<y, x>> \in R /\ y \in S \cup T
          BY <1>1, <4>4 DEF Keeps
        <5> QED
          BY <4>1, <5>1, Zenon DEF Orders
      <4>6. Cardinality(Y) <= Cardinality(X) /\ Cardinality(Y) # Cardinality(X)
        BY <1>2, <4>3, <4>5, FS_Subset
      <4> QED
        BY <3>2, <3>3, <4>6
    <3> QED
      BY <3>3, <3>4
  <2> QED
    BY <2>1, <2>2
<1> QED
  BY <1>1, <1>2, <1>3 DEF Keeps

PushRow(h, q, c, chunk, i) == PushCandidate(h, [k |-> chunk[q.order[1]][i], row |-> RowId(c, i)], RowTake(q))
HeapRun(f, heap, c, m) ==
    /\ f[0] = heap
    /\ \A k \in 1..Len(Ascending(m)) : f[k] = PushRow(f[k - 1], query, c, table[c], Ascending(m)[k])
    /\ HeapAfter(heap, query, c, table[c], m) = f[Len(Ascending(m))]

(* The heap, candidate by candidate, *)
LEMMA HeapAfterRun ==
  ASSUME NEW heap, NEW c, NEW m, Len(Ascending(m)) \in Nat
  PROVE  \E f : HeapRun(f, heap, c, m)
<1> DEFINE N == Len(Ascending(m))
           Op(x, k) == PushRow(x, query, c, table[c], Ascending(m)[k])
           Runs(n, f) == f = [k \in 0..n |-> IF k = 0 THEN heap ELSE Op(f[k - 1], k)]
           T == {n \in Nat : \E f : Runs(n, f)}
           F == CHOOSE f : Runs(N, f)
<1>1. HeapAfter(heap, query, c, table[c], m) = F[N]
  BY Zenon DEF Fold, HeapAfter, PushRow
<1> DEFINE base == heap
<1> HIDE DEF Op, base
<1>2. 0 \in T
  <2>1. Runs(0, [k \in 0..0 |-> base])
    BY DEF base
  <2> QED
    BY <2>1
<1>3. ASSUME NEW n \in 1..N, n - 1 \in T
      PROVE  n \in T
  <2>1. PICK r : Runs(n - 1, r)
    BY <1>3
  <2>2. n \in Nat /\ n # 0 /\ n - 1 \in 0..n /\ n - 1 \in 0..(n - 1) /\ 0 \in 0..(n - 1)
        /\ (\A k \in 0..(n - 1) : k \in 0..n /\ k # n /\ (k # 0 => k - 1 \in 0..(n - 1)))
        /\ \A k \in 0..n : k = n \/ k \in 0..(n - 1)
    BY <1>3
  <2> DEFINE f == [k \in 0..n |-> IF k = n THEN Op(r[n - 1], n) ELSE r[k]]
  <2>3. /\ f = [k \in 0..n |-> f[k]] /\ f[n] = Op(r[n - 1], n)
        /\ \A k \in 0..(n - 1) : f[k] = r[k]
    <3>1. n \in 0..n
      BY <2>2
    <3> QED
      BY <2>2, <3>1, Zenon
  <2> HIDE DEF f
  <2>4. \A k \in 0..(n - 1) : r[k] = IF k = 0 THEN base ELSE Op(r[k - 1], k)
    BY <2>1, Zenon DEF base
  <2>5. \A k \in 0..n : f[k] = IF k = 0 THEN base ELSE Op(f[k - 1], k)
    <3>1. f[n] = Op(f[n - 1], n)
      BY <2>2, <2>3, Zenon
    <3>2. \A k \in 0..(n - 1) : f[k] = IF k = 0 THEN base ELSE Op(f[k - 1], k)
      <4> TAKE k \in 0..(n - 1)
      <4>1. CASE k = 0
        BY <2>3, <2>4, <4>1, Zenon
      <4>2. CASE k # 0
        <5>1. k - 1 \in 0..(n - 1) /\ f[k - 1] = r[k - 1]
          BY <2>2, <2>3, <4>2, Zenon
        <5> QED
          BY <2>3, <2>4, <4>2, <5>1, Zenon
      <4> QED
        BY <4>1, <4>2, Zenon
    <3> QED
      BY <2>2, <3>1, <3>2, Zenon
  <2>6. Runs(n, f)
    BY <2>3, <2>5, Zenon DEF base
  <2> HIDE DEF Runs
  <2> QED
    BY <2>2, <2>6, Zenon
<1>4. N \in Nat /\ 0 \in 0..N /\ \A k \in 1..N : k \in 0..N /\ k # 0
  OBVIOUS
<1> HIDE DEF T
<1>5. N \in T
  BY <1>2, <1>3, <1>4, AllReached, Zenon
<1>6. Runs(N, F)
  <2> HIDE DEF Runs
  <2>1. \E f : Runs(N, f)
    BY <1>5, Zenon DEF T
  <2> QED
    BY <2>1, Zenon
<1> HIDE DEF F, N
<1>7. F[0] = base /\ \A k \in 1..N : F[k] = Op(F[k - 1], k)
  BY <1>4, <1>6, Zenon DEF base
<1>8. HeapRun(F, heap, c, m)
  BY <1>1, <1>7, Zenon DEF Op, base, N, HeapRun
<1> QED
  BY <1>8, Zenon

MergeRun(f, heap, q, more) ==
    /\ f[0] = heap
    /\ \A k \in 1..Len(SetToSeq(more)) : f[k] = PushCandidate(f[k - 1], SetToSeq(more)[k], RowTake(q))
    /\ MergedHeap(heap, q, more) = f[Len(SetToSeq(more))]

(* and the reducer's. *)
LEMMA MergedHeapRun ==
  ASSUME NEW heap, NEW q, NEW more, Len(SetToSeq(more)) \in Nat
  PROVE  \E f : MergeRun(f, heap, q, more)
<1> DEFINE N == Len(SetToSeq(more))
           Op(x, k) == PushCandidate(x, SetToSeq(more)[k], RowTake(q))
           Runs(n, f) == f = [k \in 0..n |-> IF k = 0 THEN heap ELSE Op(f[k - 1], k)]
           T == {n \in Nat : \E f : Runs(n, f)}
           F == CHOOSE f : Runs(N, f)
<1>1. MergedHeap(heap, q, more) = F[N]
  BY Zenon DEF Fold, MergedHeap
<1> DEFINE base == heap
<1> HIDE DEF Op, base
<1>2. 0 \in T
  <2>1. Runs(0, [k \in 0..0 |-> base])
    BY DEF base
  <2> QED
    BY <2>1
<1>3. ASSUME NEW n \in 1..N, n - 1 \in T
      PROVE  n \in T
  <2>1. PICK r : Runs(n - 1, r)
    BY <1>3
  <2>2. n \in Nat /\ n # 0 /\ n - 1 \in 0..n /\ n - 1 \in 0..(n - 1) /\ 0 \in 0..(n - 1)
        /\ (\A k \in 0..(n - 1) : k \in 0..n /\ k # n /\ (k # 0 => k - 1 \in 0..(n - 1)))
        /\ \A k \in 0..n : k = n \/ k \in 0..(n - 1)
    BY <1>3
  <2> DEFINE f == [k \in 0..n |-> IF k = n THEN Op(r[n - 1], n) ELSE r[k]]
  <2>3. /\ f = [k \in 0..n |-> f[k]] /\ f[n] = Op(r[n - 1], n)
        /\ \A k \in 0..(n - 1) : f[k] = r[k]
    <3>1. n \in 0..n
      BY <2>2
    <3> QED
      BY <2>2, <3>1, Zenon
  <2> HIDE DEF f
  <2>4. \A k \in 0..(n - 1) : r[k] = IF k = 0 THEN base ELSE Op(r[k - 1], k)
    BY <2>1, Zenon DEF base
  <2>5. \A k \in 0..n : f[k] = IF k = 0 THEN base ELSE Op(f[k - 1], k)
    <3>1. f[n] = Op(f[n - 1], n)
      BY <2>2, <2>3, Zenon
    <3>2. \A k \in 0..(n - 1) : f[k] = IF k = 0 THEN base ELSE Op(f[k - 1], k)
      <4> TAKE k \in 0..(n - 1)
      <4>1. CASE k = 0
        BY <2>3, <2>4, <4>1, Zenon
      <4>2. CASE k # 0
        <5>1. k - 1 \in 0..(n - 1) /\ f[k - 1] = r[k - 1]
          BY <2>2, <2>3, <4>2, Zenon
        <5> QED
          BY <2>3, <2>4, <4>2, <5>1, Zenon
      <4> QED
        BY <4>1, <4>2, Zenon
    <3> QED
      BY <2>2, <3>1, <3>2, Zenon
  <2>6. Runs(n, f)
    BY <2>3, <2>5, Zenon DEF base
  <2> HIDE DEF Runs
  <2> QED
    BY <2>2, <2>6, Zenon
<1>4. N \in Nat /\ 0 \in 0..N /\ \A k \in 1..N : k \in 0..N /\ k # 0
  OBVIOUS
<1> HIDE DEF T
<1>5. N \in T
  BY <1>2, <1>3, <1>4, AllReached, Zenon
<1>6. Runs(N, F)
  <2> HIDE DEF Runs
  <2>1. \E f : Runs(N, f)
    BY <1>5, Zenon DEF T
  <2> QED
    BY <2>1, Zenon
<1> HIDE DEF F, N
<1>7. F[0] = base /\ \A k \in 1..N : F[k] = Op(F[k - 1], k)
  BY <1>4, <1>6, Zenon DEF base
<1>8. MergeRun(F, heap, q, more)
  BY <1>1, <1>7, Zenon DEF Op, base, N, MergeRun
<1> QED
  BY <1>8, Zenon

(* A finite set as a sequence, each element once. *)
LEMMA SetToSeqIs ==
  ASSUME NEW S, IsFiniteSet(S)
  PROVE  /\ Len(SetToSeq(S)) = Cardinality(S) /\ Cardinality(S) \in Nat /\ SetToSeq(S) \in [1..Cardinality(S) -> S]
         /\ \A i, j \in 1..Cardinality(S) : SetToSeq(S)[i] = SetToSeq(S)[j] => i = j
         /\ \A x \in S : \E i \in 1..Cardinality(S) : SetToSeq(S)[i] = x
<1> DEFINE n == Cardinality(S)
           s == SetToSeq(S)
<1>1. n \in Nat
  BY FS_CardinalityType
<1>2. PICK b : b \in Bijection(1..n, S)
  <2>1. ExistsBijection(1..n, S)
    BY FS_CardinalityType
  <2> QED
    BY <2>1, Fun_ExistsBij
<1>3. b \in [1..n -> S] /\ \A i, j \in 1..n : b[i] = b[j] => i = j
  BY <1>2, Fun_BijectionProperties
<1>4. \A f : f \in [1..n -> S] => (IsInjective(f) <=> \A i, j \in 1..n : f[i] = f[j] => i = j)
  BY Zenon DEF IsInjective
<1>5. s \in [1..n -> S] /\ IsInjective(s)
  <2>1. \E f \in [1..n -> S] : IsInjective(f)
    BY <1>3, <1>4, Zenon
  <2>2. s = CHOOSE f \in [1..n -> S] : IsInjective(f)
    BY Zenon DEF SetToSeq
  <2> HIDE DEF s
  <2> QED
    BY <2>1, <2>2, Zenon
<1> HIDE DEF s
<1>6. \A i, j \in 1..n : s[i] = s[j] => i = j
  BY <1>4, <1>5, Zenon
<1>7. Len(s) = n
  BY <1>1, <1>5, SequenceOf, Zenon
<1>8. \A x \in S : \E i \in 1..n : s[i] = x
  <2>1. s \in Injection(1..n, S)
    BY <1>5, <1>6, Fun_IsInj
  <2>2. IsFiniteSet(1..n) /\ Cardinality(1..n) = n
    BY <1>1, FS_Interval
  <2>3. s \in Surjection(1..n, S)
    BY <2>1, <2>2, FS_Injection
  <2> QED
    BY <2>3, Zenon DEF Surjection
<1> QED
  BY <1>1, <1>5, <1>6, <1>7, <1>8, Zenon DEF s

\* The ORDER BY column is there.
Ordered == query.order[1] \in {"k", "v"}

(* Rows and their candidates are one to one. *)
LEMMA CandsAre ==
  ASSUME AnswerableTable(table), Ordered, NEW S \in SUBSET AllRows
  PROVE  /\ Cands(S) \in SUBSET CandSet /\ IsFiniteSet(Cands(S)) /\ Cardinality(Cands(S)) = Cardinality(S)
         /\ \A r \in AllRows : Candidate(r) \in CandSet /\ (Candidate(r) \in Cands(S) <=> r \in S)
         /\ \A r, s \in AllRows : Candidate(r) = Candidate(s) => r = s
<1>1. \A r \in AllRows : Candidate(r) \in CandSet
  BY RowCells DEF Candidate, CandSet, Ordered
<1>2. \A r : Candidate(r).row = r
  BY DEF Candidate
<1>3. \A r, s : Candidate(r) = Candidate(s) => r = s
  BY <1>2
<1>4. \A r \in AllRows : Candidate(r) \in Cands(S) <=> r \in S
  BY <1>3, Zenon DEF Cands
<1>5. IsFiniteSet(S)
  BY RowsFinite
<1> DEFINE f == [r \in S |-> Candidate(r)]
<1>6. f \in Bijection(S, Cands(S))
  <2>1. f \in [S -> Cands(S)]
    BY DEF Cands
  <2>2. \A a, b \in S : f[a] = f[b] => a = b
    BY <1>3, Zenon
  <2>3. \A y \in Cands(S) : \E a \in S : f[a] = y
    BY Zenon DEF Cands
  <2> QED
    BY <2>1, <2>2, <2>3, Fun_IsBij, Zenon
<1> HIDE DEF f
<1>7. IsFiniteSet(Cands(S)) /\ Cardinality(Cands(S)) = Cardinality(S)
  BY <1>5, <1>6, FS_Bijection DEF ExistsBijection
<1>8. Cands(S) \in SUBSET CandSet
  BY <1>1 DEF Cands
<1> QED
  BY <1>1, <1>3, <1>4, <1>7, <1>8, Zenon

(* execute_row_phase with ORDER BY. *)
LEMMA HeapAfterKeeps ==
  ASSUME AnswerableTable(table), Ordered, RowTake(query) \in Nat \ {0}, NEW c \in Chunks,
         NEW m \in SUBSET DOMAIN table[c]["k"], NEW S \in SUBSET AllRows, S \cap RowsOf(c, m) = {},
         NEW heap, Keeps(heap, Cands(S), ByRank, RowTake(query))
  PROVE  Keeps(HeapAfter(heap, query, c, table[c], m), Cands(S \cup RowsOf(c, m)), ByRank, RowTake(query))
<1> DEFINE s == Ascending(m)
           N == Len(s)
           take == RowTake(query)
           row(j) == RowId(c, s[j])
           R(k) == {row(j) : j \in 1..k}
<1>1. m \in SUBSET Int /\ IsFiniteSet(m)
  BY MaskRows, Zenon
<1>2. /\ N \in Nat /\ s \in [1..N -> m]
      /\ \A i, j \in 1..N : s[i] = s[j] => i = j
      /\ \A x \in m : \E i \in 1..N : s[i] = x
  <2>1. Len(s) = Cardinality(m)
    BY <1>1, AscendingIs, Zenon
  <2>2. /\ Cardinality(m) \in Nat /\ s \in [1..Cardinality(m) -> m]
        /\ \A i, j \in 1..Cardinality(m) : s[i] = s[j] => i = j
        /\ \A x \in m : \E i \in 1..Cardinality(m) : s[i] = x
    BY <1>1, AscendingIs, Zenon
  <2> HIDE DEF s
  <2> QED
    BY <2>1, <2>2
<1>b. N \in Nat
  BY <1>2
<1>3. PICK f : /\ f[0] = heap
               /\ \A k \in 1..N : f[k] = PushRow(f[k - 1], query, c, table[c], s[k])
               /\ HeapAfter(heap, query, c, table[c], m) = f[N]
  <2>1. PICK f : HeapRun(f, heap, c, m)
    BY <1>b, HeapAfterRun, Zenon
  <2> QED
    BY <2>1, Zenon DEF HeapRun
<1>4. \A k \in 1..N : /\ row(k) \in RowsOf(c, m) /\ row(k) \in AllRows
                      /\ f[k] = PushCandidate(f[k - 1], Candidate(row(k)), take)
                      /\ \A j \in 1..N : row(j) = row(k) => j = k
  <2> TAKE k \in 1..N
  <2>1. \A j \in 1..N : s[j] \in m /\ s[j] \in DOMAIN table[c]["k"]
    BY <1>2, Zenon
  <2>2. row(k) \in RowsOf(c, m) /\ RowsOf(c, m) \in SUBSET AllRows
    BY <2>1, RowOf, MaskRows, Zenon
  <2>3. Cell(row(k), query.order[1]) = table[c][query.order[1]][s[k]]
    BY <2>1, RowIdIs
  <2>4. \A j \in 1..N : row(j) = row(k) => j = k
    <3> SUFFICES ASSUME NEW j \in 1..N, row(j) = row(k)
                 PROVE  j = k
      OBVIOUS
    <3>1. s[j] = s[k]
      BY <2>1, RowIdOnce, Zenon
    <3> QED
      BY <1>2, <3>1, Zenon
  <2>5. f[k] = PushCandidate(f[k - 1], Candidate(row(k)), take)
    BY <1>3, <2>3, Zenon DEF Candidate, PushRow
  <2> QED
    BY <2>2, <2>4, <2>5, Zenon
<1>5. \A r \in RowsOf(c, m) : \E j \in 1..N : r = row(j)
  <2> TAKE r \in RowsOf(c, m)
  <2>1. PICK i \in m : r = RowId(c, i)
    BY Zenon DEF RowsOf
  <2>2. PICK j \in 1..N : s[j] = i
    BY <1>2, Zenon
  <2> QED
    BY <2>1, <2>2, Zenon
<1>a. RowsOf(c, m) \in SUBSET AllRows
  BY MaskRows, Zenon
<1> HIDE DEF s, row, N, take
<1> DEFINE Q == {k \in 0..N : Keeps(f[k], Cands(S \cup R(k)), ByRank, take)}
<1>6. 0 \in Q
  <2>1. S \cup R(0) = S /\ 0 \in 0..N
    BY <1>2 DEF N
  <2> HIDE DEF R
  <2>2. Keeps(f[0], Cands(S \cup R(0)), ByRank, take)
    BY <1>3, <2>1, Zenon DEF take
  <2> QED
    BY <2>1, <2>2
<1>7. ASSUME NEW k \in 1..N, k - 1 \in Q
      PROVE  k \in Q
  <2>0. N \in Nat
    BY <1>2 DEF N
  <2>1. k \in 0..N /\ k - 1 \in 0..N /\ Keeps(f[k - 1], Cands(S \cup R(k - 1)), ByRank, take)
    BY <1>7, <2>0
  <2>2. \A j : j \in 1..k <=> j \in 1..(k - 1) \/ j = k
    BY <2>0
  <2>3. \A j \in 1..(k - 1) : j \in 1..N /\ j # k
    BY <2>0
  <2> DEFINE r == row(k)
             B == S \cup R(k - 1)
  <2>4. S \cup R(k) = B \cup {r}
    <3>1. R(k) = R(k - 1) \cup {r}
      <4>1. \A e \in R(k) : e \in R(k - 1) \cup {r}
        <5> SUFFICES ASSUME NEW e \in R(k)
                     PROVE  e \in R(k - 1) \cup {r}
          OBVIOUS
        <5>1. PICK j \in 1..k : e = row(j)
          BY Zenon
        <5> QED
          BY <2>2, <5>1, Zenon
      <4>2. \A e \in R(k - 1) : e \in R(k)
        BY <2>2, Zenon
      <4>3. r \in R(k)
        BY <2>2, Zenon
      <4> HIDE DEF R, r
      <4> QED
        BY <4>1, <4>2, <4>3, Zenon
    <3> HIDE DEF R
    <3> QED
      BY <3>1
  <2>5. B \in SUBSET AllRows /\ r \in AllRows
    <3>0. \A j \in 1..(k - 1) : row(j) \in AllRows
      BY <1>4, <2>3, Zenon
    <3>1. \A e \in R(k - 1) : e \in AllRows
      BY <3>0, Zenon
    <3>2. r \in AllRows
      BY <1>4, Zenon
    <3> HIDE DEF R, r
    <3> QED
      BY <3>1, <3>2
  <2>6. r \notin B
    <3>1. r \in RowsOf(c, m)
      BY <1>4, Zenon
    <3>2. r \notin R(k - 1)
      <4> SUFFICES ASSUME r \in R(k - 1)
                   PROVE  FALSE
        BY Zenon
      <4>1. PICK j \in 1..(k - 1) : r = row(j)
        BY Zenon
      <4> QED
        BY <1>4, <2>3, <4>1, Zenon
    <3> QED
      BY <3>1, <3>2, Zenon
  <2> HIDE DEF B, r, R
  <2>7. Cands(B) \in SUBSET CandSet /\ IsFiniteSet(Cands(B)) /\ Candidate(r) \in CandSet /\ Candidate(r) \notin Cands(B)
    BY <2>5, <2>6, CandsAre, Zenon
  <2>8. Cands(B \cup {r}) = Cands(B) \cup {Candidate(r)}
    BY Zenon DEF Cands
  <2>9. take \in Nat \ {0} /\ Keeps(f[k - 1], Cands(B), ByRank, take)
    BY <2>1, Zenon DEF take, B
  <2>10. Keeps(PushCandidate(f[k - 1], Candidate(r), take), Cands(B) \cup {Candidate(r)}, ByRank, take)
    BY <2>7, <2>9, PushKeeps, Zenon
  <2>11. Keeps(f[k], Cands(S \cup R(k)), ByRank, take)
    BY <1>4, <2>4, <2>8, <2>10, Zenon DEF r
  <2> QED
    BY <2>1, <2>11
<1> HIDE DEF Q
<1>8. N \in Q
  <2>1. N \in Nat
    BY <1>2 DEF N
  <2> QED
    BY <1>6, <1>7, <2>1, AllReached, Zenon
<1>9. R(N) = RowsOf(c, m)
  <2>1. \A r \in R(N) : r \in RowsOf(c, m)
    <3> SUFFICES ASSUME NEW j \in 1..N
                 PROVE  row(j) \in RowsOf(c, m)
      BY Zenon
    <3> QED
      BY <1>4, Zenon
  <2>2. \A r \in RowsOf(c, m) : r \in R(N)
    BY <1>5, Zenon DEF N
  <2> QED
    BY <2>1, <2>2, Zenon
<1> QED
  BY <1>3, <1>8, <1>9, Zenon DEF Q, N, take

(* merge_row_candidates of a partial. *)
LEMMA MergedHeapKeeps ==
  ASSUME RowTake(query) \in Nat \ {0}, NEW S \in SUBSET CandSet, IsFiniteSet(S), NEW T \in SUBSET CandSet, IsFiniteSet(T),
         S \cap T = {}, NEW heap, Keeps(heap, S, ByRank, RowTake(query)), NEW more, Keeps(more, T, ByRank, RowTake(query))
  PROVE  Keeps(MergedHeap(heap, query, more), S \cup T, ByRank, RowTake(query))
<1> DEFINE s == SetToSeq(more)
           N == Len(s)
           take == RowTake(query)
           R(k) == {s[j] : j \in 1..k}
<1>1. more \in SUBSET T /\ IsFiniteSet(more)
  BY FS_Subset DEF Keeps
<1>2. /\ N \in Nat /\ s \in [1..N -> more]
      /\ \A i, j \in 1..N : s[i] = s[j] => i = j
      /\ \A x \in more : \E i \in 1..N : s[i] = x
  <2>1. Len(s) = Cardinality(more)
    BY <1>1, SetToSeqIs, Zenon
  <2>2. /\ Cardinality(more) \in Nat /\ s \in [1..Cardinality(more) -> more]
        /\ \A i, j \in 1..Cardinality(more) : s[i] = s[j] => i = j
        /\ \A x \in more : \E i \in 1..Cardinality(more) : s[i] = x
    BY <1>1, SetToSeqIs, Zenon
  <2> HIDE DEF s
  <2> QED
    BY <2>1, <2>2
<1>3. PICK f : /\ f[0] = heap
               /\ \A k \in 1..N : f[k] = PushCandidate(f[k - 1], s[k], take)
               /\ MergedHeap(heap, query, more) = f[N]
  <2>1. Len(s) \in Nat
    BY <1>2
  <2>2. PICK f : MergeRun(f, heap, query, more)
    BY <2>1, MergedHeapRun, Zenon
  <2> QED
    BY <2>2, Zenon DEF MergeRun
<1>4. \A k \in 1..N : s[k] \in more /\ s[k] \in CandSet /\ s[k] \notin S
  BY <1>1, <1>2
<1> HIDE DEF s, N, take
<1> DEFINE Q == {k \in 0..N : IsFiniteSet(S \cup R(k)) /\ Keeps(f[k], S \cup R(k), ByRank, take)}
<1>6. 0 \in Q
  <2>1. S \cup R(0) = S /\ 0 \in 0..N
    BY <1>2 DEF N
  <2> HIDE DEF R
  <2>2. Keeps(f[0], S \cup R(0), ByRank, take) /\ IsFiniteSet(S \cup R(0))
    BY <1>3, <2>1, Zenon DEF take
  <2> QED
    BY <2>1, <2>2
<1>7. ASSUME NEW k \in 1..N, k - 1 \in Q
      PROVE  k \in Q
  <2>0. N \in Nat
    BY <1>2 DEF N
  <2> DEFINE B == S \cup R(k - 1)
             r == s[k]
  <2>1. k \in 0..N /\ k - 1 \in 0..N /\ Keeps(f[k - 1], B, ByRank, take) /\ IsFiniteSet(B)
    BY <1>7, <2>0
  <2>2. \A j : j \in 1..k <=> j \in 1..(k - 1) \/ j = k
    BY <2>0
  <2>3. \A j \in 1..(k - 1) : j \in 1..N /\ j # k
    BY <2>0
  <2>4. S \cup R(k) = B \cup {r}
    BY <2>2, Zenon
  <2>5. B \in SUBSET CandSet /\ r \in CandSet
    BY <1>4, <2>3, Zenon
  <2>6. r \notin B
    <3>2. r \notin R(k - 1)
      <4> SUFFICES ASSUME r \in R(k - 1)
                   PROVE  FALSE
        BY Zenon
      <4>1. PICK j \in 1..(k - 1) : r = s[j]
        BY Zenon
      <4> QED
        BY <1>2, <2>3, <4>1, Zenon DEF N
    <3> QED
      BY <1>4, <3>2, Zenon
  <2>7. f[k] = PushCandidate(f[k - 1], r, take) /\ take \in Nat \ {0}
    BY <1>3, Zenon DEF N, take
  <2> HIDE DEF B, r, R
  <2>8. IsFiniteSet(B \cup {r})
    BY <2>1, FS_AddElement
  <2>9. Keeps(f[k], B \cup {r}, ByRank, take)
    BY <2>1, <2>5, <2>6, <2>7, PushKeeps, Zenon
  <2> QED
    BY <2>1, <2>4, <2>8, <2>9
<1> HIDE DEF Q
<1>8. N \in Q
  <2>1. N \in Nat
    BY <1>2 DEF N
  <2> QED
    BY <1>6, <1>7, <2>1, AllReached, Zenon
<1>9. R(N) = more
  <2>1. \A r \in R(N) : r \in more
    BY <1>4, Zenon
  <2>2. \A r \in more : r \in R(N)
    BY <1>2, Zenon DEF N
  <2> QED
    BY <2>1, <2>2, Zenon
<1>10. Keeps(MergedHeap(heap, query, more), S \cup more, ByRank, take)
  BY <1>3, <1>8, <1>9, Zenon DEF Q, N
<1>11. Orders(ByRank, S \cup T)
  <2>1. S \cup T \in SUBSET CandSet
    OBVIOUS
  <2> QED
    BY <2>1, RankOrders, OrdersSub, Zenon
<1>12. take \in Nat
  BY DEF take
<1>13. Keeps(more, T, ByRank, take)
  BY DEF take
<1> HIDE DEF R
<1>14. Keeps(MergedHeap(heap, query, more), S \cup T, ByRank, take)
  BY <1>10, <1>11, <1>12, <1>13, JoinKeeps, Zenon
<1> QED
  BY <1>14 DEF take

-----------------------------------------------------------------------------
(* Rows without ORDER BY. *)

RowOrder == Numeric(AllRows)
\* A sequence of rows of S, each after those before it.
Rising(rows, S) ==
    /\ Len(rows) \in Nat /\ rows \in [1..Len(rows) -> S]
    /\ \A i, j \in 1..Len(rows) : i < j => rows[i] < rows[j]
RowsKept(rows, S) == Rising(rows, S) /\ Keeps(Range(rows), S, RowOrder, RowTake(query))
RowsCovered(rows, S) == Rising(rows, S) /\ CoversFirst(Range(rows), S, RowOrder, RowTake(query))

(* Chunks are numbered from 1. *)
LEMMA ChunksAre ==
  ASSUME AnswerableTable(table)
  PROVE  Chunks = 1..Len(table) /\ Len(table) \in Nat
BY Zenon DEF AnswerableTable, Chunks

IsConcat(w, a, n, b, k, S) ==
    /\ w \in [1..(n + k) -> S] /\ Len(w) = n + k /\ w \in Seq(S)
    /\ \A i \in 1..n : w[i] = a[i]
    /\ \A j \in 1..k : w[n + j] = b[j]

(* A concatenation, place by place. *)
LEMMA ConcatIs ==
  ASSUME NEW S, NEW n \in Nat, NEW a \in [1..n -> S], NEW k \in Nat, NEW b \in [1..k -> S]
  PROVE  IsConcat(a \o b, a, n, b, k, S)
<1>1. a \in Seq(S) /\ b \in Seq(S) /\ Len(a) = n /\ Len(b) = k
  BY SequenceOf, Zenon
<1>2. a \o b \in Seq(S) /\ Len(a \o b) = n + k
  BY <1>1
<1>3. \A i \in 1..(n + k) : (a \o b)[i] = IF i <= n THEN a[i] ELSE b[i - n]
  BY <1>1
<1>4. \A i \in 1..n : i \in 1..(n + k) /\ i <= n
  OBVIOUS
<1>5. \A j \in 1..k : n + j \in 1..(n + k) /\ ~(n + j <= n) /\ (n + j) - n = j
  OBVIOUS
<1>6. a \o b \in [1..(n + k) -> S]
  BY <1>2, ElementsOf
<1> QED
  BY <1>2, <1>3, <1>4, <1>5, <1>6, Zenon DEF IsConcat

(* The first k elements of a sequence, place by place. *)
LEMMA FrontIs ==
  ASSUME NEW S, NEW n \in Nat, NEW a \in [1..n -> S], NEW k \in Nat, k <= n
  PROVE  /\ Len(SubSeq(a, 1, k)) = k /\ SubSeq(a, 1, k) \in [1..k -> S]
         /\ \A j \in 1..k : SubSeq(a, 1, k)[j] = a[j]
<1> DEFINE t == SubSeq(a, 1, k)
<1>1. a \in Seq(S) /\ Len(a) = n
  BY SequenceOf, Zenon
<1>2. t = [j \in 1..k |-> a[j]] /\ \A j \in 1..k : j \in 1..n
  BY <1>1
<1> HIDE DEF t
<1>3. t \in [1..k -> S] /\ \A j \in 1..k : t[j] = a[j]
  BY <1>2
<1> QED
  BY <1>2, <1>3, SequenceOf, Zenon DEF t

(* Row ids are in an order, that of numbers. *)
LEMMA RowOrders ==
  ASSUME AnswerableTable(table)
  PROVE  /\ AllRows \in SUBSET Nat /\ Orders(RowOrder, AllRows)
         /\ \A x, y \in AllRows : <<x, y>> \in RowOrder <=> x < y
<1>1. AllRows \in SUBSET Nat /\ AllRows \in SUBSET Int
  BY RowCells
<1> QED
  BY <1>1, NumericOrders, Zenon DEF RowOrder

(* A rising sequence of rows lists the rows in it. *)
LEMMA RisingLists ==
  ASSUME AnswerableTable(table), NEW S \in SUBSET AllRows, NEW rows, Rising(rows, S)
  PROVE  /\ Range(rows) \in SUBSET S /\ IsFiniteSet(Range(rows))
         /\ Cardinality(Range(rows)) = Len(rows)
         /\ Lists(rows, Range(rows), RowOrder)
         /\ Orders(RowOrder, Range(rows))
<1> DEFINE n == Len(rows)
           X == Range(rows)
<1>1. n \in Nat /\ rows \in [1..n -> S] /\ \A i, j \in 1..n : i < j => rows[i] < rows[j]
  BY Zenon DEF Rising
<1>2. (\A i \in 1..n : rows[i] \in X) /\ \A x \in X : \E i \in 1..n : rows[i] = x
  BY <1>1, Zenon DEF Range
<1>3. X \in SUBSET S /\ rows \in [1..n -> X]
  <2> HIDE DEF n, X
  <2> QED
    BY <1>1, <1>2
<1> HIDE DEF n, X
<1>4. Orders(RowOrder, X)
  <2>1. X \in SUBSET AllRows
    BY <1>3
  <2> QED
    BY <2>1, RowOrders, OrdersSub, Zenon
<1>5. \A i, j \in 1..n : i < j => <<rows[i], rows[j]>> \in RowOrder
  <2>1. \A i \in 1..n : rows[i] \in AllRows
    BY <1>1
  <2> QED
    BY <1>1, <2>1, RowOrders, Zenon
<1>6. IsFiniteSet(X) /\ Cardinality(X) = n /\ Lists(rows, X, RowOrder)
  BY <1>1, <1>2, <1>3, <1>4, <1>5, IncreasingLists, Zenon
<1> QED
  BY <1>3, <1>4, <1>6 DEF X, n

(* execute_row_phase without ORDER BY: rows are collected as long as they are wanted. *)
LEMMA RowsAfterKept ==
  ASSUME AnswerableTable(table), RowTake(query) \in Nat, NEW c \in Chunks,
         NEW m \in SUBSET DOMAIN table[c]["k"], NEW S \in SUBSET AllRows,
         \A r \in S, e \in RowsOf(c, m) : r < e,
         NEW rows, RowsKept(rows, S)
  PROVE  RowsKept(RowsAfter(rows, query, c, m), S \cup RowsOf(c, m))
<1> DEFINE s == Ascending(m)
           T == RowsOf(c, m)
           ids == [j \in DOMAIN s |-> RowId(c, s[j])]
           n == Len(rows)
           k == Len(s)
           take == RowTake(query)
           L == IF take < n + k THEN take ELSE n + k
           W == rows \o ids
           new == SubSeq(W, 1, L)
           B == S \cup T
<1>1. m \in SUBSET Int /\ IsFiniteSet(m) /\ T \in SUBSET AllRows
  BY MaskRows, Zenon
<1>2. /\ k \in Nat /\ s \in [1..k -> m]
      /\ \A i, j \in 1..k : s[i] < s[j] <=> i < j
      /\ \A x \in m : \E i \in 1..k : s[i] = x
  <2>1. Len(s) = Cardinality(m)
    BY <1>1, AscendingIs, Zenon
  <2>2. /\ Cardinality(m) \in Nat /\ s \in [1..Cardinality(m) -> m]
        /\ \A i, j \in 1..Cardinality(m) : s[i] < s[j] <=> i < j
        /\ \A x \in m : \E i \in 1..Cardinality(m) : s[i] = x
    BY <1>1, AscendingIs, Zenon
  <2> HIDE DEF s
  <2> QED
    BY <2>1, <2>2
<1>3. /\ ids \in [1..k -> T]
      /\ \A i, j \in 1..k : i < j => ids[i] < ids[j]
      /\ \A e \in T : \E i \in 1..k : ids[i] = e
  <2>1. \A i \in 1..k : s[i] \in m /\ s[i] \in DOMAIN table[c]["k"]
    BY <1>2, Zenon
  <2>2. \A i \in 1..k : RowId(c, s[i]) \in T
    BY <2>1, Zenon DEF RowsOf
  <2>3. DOMAIN s = 1..k
    BY <1>2, Zenon
  <2> HIDE DEF s, k, T
  <2>4. ids \in [1..k -> T] /\ \A i \in 1..k : ids[i] = RowId(c, s[i])
    BY <2>2, <2>3
  <2> HIDE DEF ids
  <2>5. c \in Int /\ m \in SUBSET Int
    BY <1>1, ChunksAre
  <2>6. \A i, j \in 1..k : i < j => ids[i] < ids[j]
    <3> SUFFICES ASSUME NEW i \in 1..k, NEW j \in 1..k, i < j
                 PROVE  ids[i] < ids[j]
      OBVIOUS
    <3>1. s[i] \in Int /\ s[j] \in Int /\ s[i] < s[j]
      BY <1>2, <2>1, <2>5
    <3>2. RowId(c, s[i]) < RowId(c, s[j])
      BY <2>5, <3>1, RowsAssumption DEF RowId
    <3> QED
      BY <2>4, <3>2
  <2>7. \A e \in T : \E i \in 1..k : ids[i] = e
    <3> TAKE e \in T
    <3>1. PICK x \in m : e = RowId(c, x)
      BY Zenon DEF RowsOf, T
    <3>2. PICK i \in 1..k : s[i] = x
      BY <1>2, <3>1, Zenon
    <3> QED
      BY <2>4, <3>1, <3>2, Zenon
  <2> QED
    BY <2>4, <2>6, <2>7
<1>4. n \in Nat /\ rows \in [1..n -> S] /\ (\A i, j \in 1..n : i < j => rows[i] < rows[j])
      /\ Keeps(Range(rows), S, RowOrder, take)
  BY Zenon DEF RowsKept, Rising
<1>5. Cardinality(Range(rows)) = n /\ n <= take /\ take \in Nat
  BY <1>4, RisingLists DEF RowsKept, Keeps
<1>6. RowsAfter(rows, query, c, m) = new
  BY <1>2, <1>4, <1>5 DEF RowsAfter, Smaller, Larger
<1>7. T \in SUBSET AllRows /\ B \in SUBSET AllRows /\ B \in SUBSET Nat
  BY <1>1, RowOrders
<1> HIDE DEF ids, s, k, n, T, take
<1>8. /\ W \in [1..(n + k) -> B]
      /\ \A i \in 1..n : W[i] = rows[i]
      /\ \A j \in 1..k : W[n + j] = ids[j]
  <2>1. rows \in [1..n -> B] /\ ids \in [1..k -> B]
    BY <1>3, <1>4
  <2> HIDE DEF B
  <2>2. IsConcat(rows \o ids, rows, n, ids, k, B)
    BY <1>2, <1>4, <2>1, ConcatIs, Zenon DEF k
  <2> QED
    BY <2>2, Zenon DEF IsConcat
<1>a. n \in Nat /\ k \in Nat /\ take \in Nat /\ L \in Nat /\ L <= n + k /\ L <= take /\ n <= take /\ (L = n + k \/ L = take) /\ n <= L
  BY <1>2, <1>4, <1>5 DEF k
<1> HIDE DEF L
<1>9. /\ Len(new) = L /\ new \in [1..L -> B]
      /\ \A j \in 1..L : new[j] = W[j]
  <2> DEFINE V == W
             D == B
  <2>1. V \in [1..(n + k) -> D]
    BY <1>8
  <2> HIDE DEF V, D
  <2>2. n + k \in Nat /\ L \in Nat /\ L <= n + k
    BY <1>a
  <2>3. Len(SubSeq(V, 1, L)) = L /\ SubSeq(V, 1, L) \in [1..L -> D] /\ \A j \in 1..L : SubSeq(V, 1, L)[j] = V[j]
    BY <2>1, <2>2, FrontIs
  <2> QED
    BY <2>3, Zenon DEF V, D
<1> HIDE DEF new, W
<1>10. \A i, j \in 1..(n + k) : i < j => W[i] < W[j]
  <2> SUFFICES ASSUME NEW i \in 1..(n + k), NEW j \in 1..(n + k), i < j
               PROVE  W[i] < W[j]
    OBVIOUS
  <2>1. CASE j <= n
    <3>1. i \in 1..n /\ j \in 1..n
      BY <1>a, <2>1
    <3> QED
      BY <1>4, <1>8, <3>1
  <2>2. CASE i <= n /\ n < j
    <3>1. i \in 1..n /\ j - n \in 1..k /\ j = n + (j - n)
      BY <1>a, <2>2
    <3>2. W[i] \in S /\ W[j] = ids[j - n] /\ ids[j - n] \in T
      BY <1>3, <1>4, <1>8, <3>1
    <3> QED
      BY <3>2 DEF T
  <2>3. CASE n < i
    <3>1. i - n \in 1..k /\ i = n + (i - n) /\ j - n \in 1..k /\ j = n + (j - n) /\ i - n < j - n
      BY <1>a, <2>3
    <3>2. W[i] = ids[i - n] /\ W[j] = ids[j - n]
      BY <1>8, <3>1
    <3>3. ids[i - n] < ids[j - n]
      BY <1>3, <3>1
    <3> QED
      BY <3>2, <3>3
  <2> QED
    BY <1>a, <2>1, <2>2, <2>3
<1> HIDE DEF W, B
<1>b. \A j \in 1..L : j \in 1..(n + k)
  BY <1>a
<1> HIDE DEF new
<1>11. Rising(new, B)
  BY <1>9, <1>10, <1>a, <1>b DEF Rising
<1>12. Range(new) \in SUBSET B /\ Cardinality(Range(new)) = L /\ \A x \in Range(new) : \E i \in 1..L : x = W[i]
  <2>1. Range(new) \in SUBSET B /\ Cardinality(Range(new)) = L
    BY <1>7, <1>9, <1>11, RisingLists, Zenon
  <2>2. \A x \in Range(new) : \E i \in 1..L : x = W[i]
    BY <1>9, Zenon DEF Range
  <2> QED
    BY <2>1, <2>2
<1>13. \A j \in 1..L : W[j] \in Range(new)
  BY <1>9, Zenon DEF Range
<1>14. ASSUME NEW e \in B \ Range(new)
       PROVE  L = take /\ \A x \in Range(new) : x < e
  <2>1. CASE \E i \in 1..(n + k) : e = W[i]
    <3>1. PICK i \in 1..(n + k) : e = W[i]
      BY <2>1
    <3>2. i \notin 1..L
      BY <1>13, <3>1, <1>14
    <3>3. L < i /\ L = take
      BY <1>a, <3>2
    <3>4. \A j \in 1..L : j \in 1..(n + k) /\ j < i
      BY <1>a, <3>3
    <3>5. \A j \in 1..L : W[j] < e
      BY <1>10, <3>1, <3>4
    <3> QED
      BY <1>12, <3>3, <3>5, Zenon
  <2>2. CASE ~\E i \in 1..(n + k) : e = W[i]
    <3>1. \A i \in 1..n : i \in 1..(n + k)
      BY <1>a
    <3>2. \A j \in 1..k : n + j \in 1..(n + k)
      BY <1>a
    <3>3. e \notin T
      BY <1>3, <1>8, <2>2, <3>2, Zenon
    <3>4. e \notin Range(rows)
      BY <1>4, <1>8, <2>2, <3>1, Zenon DEF Range
    <3>5. e \in S \ Range(rows)
      BY <1>14, <3>3, <3>4 DEF B
    <3>6. Cardinality(Range(rows)) = take /\ \A x \in Range(rows) : <<x, e>> \in RowOrder
      BY <1>4, <3>5, Zenon DEF Keeps
    <3>7. L = n /\ L = take
      BY <1>5, <1>a, <3>6
    <3>8. \A i \in 1..n : W[i] \in Range(rows) /\ W[i] \in S
      BY <1>4, <1>8, Zenon DEF Range
    <3>9. \A i \in 1..n : W[i] < e
      BY <3>5, <3>6, <3>8, RowOrders
    <3> QED
      BY <1>12, <3>7, <3>9, Zenon
  <2> QED
    BY <2>1, <2>2
<1>15. Keeps(Range(new), B, RowOrder, take)
  <2>1. \A e \in B \ Range(new) : \A x \in Range(new) : <<x, e>> \in RowOrder
    <3> SUFFICES ASSUME NEW e \in B \ Range(new), NEW x \in Range(new)
                 PROVE  <<x, e>> \in RowOrder
      OBVIOUS
    <3>1. x < e /\ x \in AllRows /\ e \in AllRows
      BY <1>7, <1>12, <1>14
    <3> QED
      BY <3>1, RowOrders, Zenon
  <2>2. L <= take
    BY <1>a
  <2> QED
    BY <1>12, <1>14, <2>1, <2>2, Zenon DEF Keeps
<1> QED
  BY <1>6, <1>11, <1>15, Zenon DEF RowsKept, B, T, take

(* What kept the first rows covers them, and what comes behind it covers more. *)
LEMMA JoinCovers ==
  ASSUME AnswerableTable(table), NEW k \in Nat, NEW S \in SUBSET AllRows, NEW T \in SUBSET AllRows,
         \A r \in S, e \in T : r < e,
         NEW X, CoversFirst(X, S, RowOrder, k), NEW Y, Keeps(Y, T, RowOrder, k)
  PROVE  CoversFirst(X \cup Y, S \cup T, RowOrder, k)
<1>1. X \in SUBSET S /\ Y \in SUBSET T
  BY Zenon DEF CoversFirst, Keeps
<1>2. ASSUME NEW e \in (S \cup T) \ (X \cup Y)
      PROVE  k <= Cardinality(Under(e, X \cup Y, RowOrder))
  <2> DEFINE U == Under(e, X \cup Y, RowOrder)
  <2>1. U \in SUBSET AllRows
    BY <1>1 DEF Under
  <2>2. IsFiniteSet(U) /\ Cardinality(U) \in Nat
    BY <2>1, RowsFinite, FS_CardinalityType
  <2>3. CASE e \in S
    <3>1. Under(e, X, RowOrder) \in SUBSET U
      BY DEF Under
    <3>2. k <= Cardinality(Under(e, X, RowOrder))
      BY <1>2, <2>3, Zenon DEF CoversFirst
    <3>3. Cardinality(Under(e, X, RowOrder)) <= Cardinality(U) /\ Cardinality(Under(e, X, RowOrder)) \in Nat
      BY <2>2, <3>1, FS_Subset, FS_CardinalityType
    <3> QED
      BY <2>2, <3>2, <3>3
  <2>4. CASE e \notin S
    <3>1. Cardinality(Y) = k /\ \A y \in Y : <<y, e>> \in RowOrder
      BY <1>2, <2>4 DEF Keeps
    <3>2. Y \in SUBSET U
      BY <3>1 DEF Under
    <3>3. Cardinality(Y) <= Cardinality(U)
      BY <2>2, <3>2, FS_Subset
    <3> QED
      BY <2>2, <3>1, <3>3
  <2> QED
    BY <2>3, <2>4
<1> QED
  BY <1>1, <1>2 DEF CoversFirst

(* merge_rows: the rows of one chunk behind those of the chunks before it. *)
LEMMA RowsJoined ==
  ASSUME AnswerableTable(table), RowTake(query) \in Nat, NEW S \in SUBSET AllRows, NEW T \in SUBSET AllRows,
         \A r \in S, e \in T : r < e, NEW rows, RowsCovered(rows, S), NEW more, RowsKept(more, T)
  PROVE  RowsCovered(rows \o more, S \cup T)
<1> DEFINE n == Len(rows)
           k == Len(more)
           W == rows \o more
           B == S \cup T
<1>1. n \in Nat /\ rows \in [1..n -> S] /\ (\A i, j \in 1..n : i < j => rows[i] < rows[j])
      /\ CoversFirst(Range(rows), S, RowOrder, RowTake(query))
  BY Zenon DEF RowsCovered, Rising
<1>2. k \in Nat /\ more \in [1..k -> T] /\ (\A i, j \in 1..k : i < j => more[i] < more[j])
      /\ Keeps(Range(more), T, RowOrder, RowTake(query))
  BY Zenon DEF RowsKept, Rising
<1> HIDE DEF n, k
<1>3. W \in [1..(n + k) -> B] /\ Len(W) = n + k
      /\ (\A i \in 1..n : W[i] = rows[i])
      /\ \A j \in 1..k : W[n + j] = more[j]
  <2>1. rows \in [1..n -> B] /\ more \in [1..k -> B]
    BY <1>1, <1>2
  <2> HIDE DEF B
  <2>2. IsConcat(W, rows, n, more, k, B)
    BY <1>1, <1>2, <2>1, ConcatIs, Zenon
  <2> QED
    BY <2>2, Zenon DEF IsConcat
<1> HIDE DEF W
<1>4. ASSUME NEW i \in 1..(n + k)
      PROVE  i \in 1..n \/ (i - n \in 1..k /\ i = n + (i - n))
  BY <1>1, <1>2, <1>4
<1>5. \A i, j \in 1..(n + k) : i < j => W[i] < W[j]
  <2> SUFFICES ASSUME NEW i \in 1..(n + k), NEW j \in 1..(n + k), i < j
               PROVE  W[i] < W[j]
    OBVIOUS
  <2>1. CASE j \in 1..n
    <3>1. i \in 1..n
      BY <1>1, <2>1
    <3> QED
      BY <1>1, <1>3, <2>1, <3>1
  <2>2. CASE i \in 1..n /\ j \notin 1..n
    <3>1. j - n \in 1..k /\ j = n + (j - n)
      BY <1>4, <2>2
    <3>2. W[i] \in S /\ W[j] = more[j - n] /\ more[j - n] \in T
      BY <1>1, <1>2, <1>3, <2>2, <3>1
    <3> QED
      BY <3>2
  <2>3. CASE i \notin 1..n /\ j \notin 1..n
    <3>1. i - n \in 1..k /\ i = n + (i - n) /\ j - n \in 1..k /\ j = n + (j - n)
      BY <1>4, <2>3
    <3>2. i - n < j - n
      BY <1>1, <3>1
    <3>3. W[i] = more[i - n] /\ W[j] = more[j - n]
      BY <1>3, <3>1
    <3> QED
      BY <1>2, <3>1, <3>2, <3>3
  <2> QED
    BY <2>1, <2>2, <2>3
<1>6. Range(W) = Range(rows) \cup Range(more)
  <2>1. \A x \in Range(W) : x \in Range(rows) \cup Range(more)
    <3> SUFFICES ASSUME NEW x \in Range(W)
                 PROVE  x \in Range(rows) \cup Range(more)
      OBVIOUS
    <3>1. PICK i \in 1..(n + k) : x = W[i]
      BY <1>3, Zenon DEF Range
    <3>2. CASE i \in 1..n
      <4>1. x = rows[i] /\ i \in DOMAIN rows
        BY <1>1, <1>3, <3>1, <3>2, Zenon
      <4> QED
        BY <4>1, Zenon DEF Range
    <3>3. CASE i \notin 1..n
      <4>1. i - n \in 1..k /\ i = n + (i - n)
        BY <1>4, <3>3
      <4>2. x = more[i - n] /\ i - n \in DOMAIN more
        BY <1>2, <1>3, <3>1, <4>1
      <4> QED
        BY <4>2, Zenon DEF Range
    <3> QED
      BY <3>2, <3>3
  <2>2. \A x \in Range(rows) : x \in Range(W)
    <3>1. \A i \in 1..n : i \in 1..(n + k)
      BY <1>1, <1>2
    <3> QED
      BY <1>1, <1>3, <3>1, Zenon DEF Range
  <2>3. \A x \in Range(more) : x \in Range(W)
    <3>1. \A i \in 1..k : n + i \in 1..(n + k)
      BY <1>1, <1>2
    <3> QED
      BY <1>2, <1>3, <3>1, Zenon DEF Range
  <2> QED
    BY <2>1, <2>2, <2>3
<1>7. CoversFirst(Range(W), B, RowOrder, RowTake(query))
  <2> DEFINE X == Range(rows)
             Y == Range(more)
             k0 == RowTake(query)
  <2>1. CoversFirst(X, S, RowOrder, k0) /\ Keeps(Y, T, RowOrder, k0) /\ k0 \in Nat
    BY <1>1, <1>2, Zenon
  <2> HIDE DEF X, Y, k0
  <2>2. CoversFirst(X \cup Y, B, RowOrder, k0)
    BY <2>1, JoinCovers, Zenon
  <2> QED
    BY <1>6, <2>2, Zenon DEF X, Y, k0
<1>8. Rising(W, B)
  BY <1>1, <1>2, <1>3, <1>5 DEF Rising
<1> QED
  BY <1>7, <1>8, Zenon DEF RowsCovered, W, B

(* Rows that are in order already stay as they are. *)
LEMMA SortedRowsSame ==
  ASSUME NEW S \in SUBSET Nat, NEW rows, Rising(rows, S)
  PROVE  SortedRows(rows) = rows
<1> DEFINE D == DOMAIN rows
           n == Cardinality(D)
           R == Numeric(D)
           order == Sorted(D, LAMBDA i, j : rows[i] < rows[j] \/ (rows[i] = rows[j] /\ i < j))
           id == [i \in D |-> i]
<1>0. /\ Len(rows) \in Nat /\ rows \in [1..Len(rows) -> S] /\ D = 1..Len(rows)
      /\ \A i, j \in 1..Len(rows) : i < j => rows[i] < rows[j]
  BY Zenon DEF Rising
<1>6. order = [i \in 1..n |-> CHOOSE x \in D : Cardinality({y \in D : rows[y] < rows[x] \/ (rows[y] = rows[x] /\ y < x)}) = i - 1]
  BY Zenon DEF Sorted
<1>a. SortedRows(rows) = [j \in D |-> rows[order[j]]]
  BY Zenon DEF SortedRows
<1>3. D \in SUBSET Int /\ IsFiniteSet(D) /\ n = Len(rows)
  <2>1. IsFiniteSet(1..Len(rows)) /\ Cardinality(1..Len(rows)) = Len(rows)
    <3> DEFINE L == Len(rows)
    <3>1. L \in Nat
      BY <1>0
    <3> HIDE DEF L
    <3>2. IsFiniteSet(1..L) /\ Cardinality(1..L) = L
      BY <3>1, FS_Interval
    <3> QED
      BY <3>2 DEF L
  <2> HIDE DEF D
  <2>2. D \in SUBSET Int
    <3>1. D = 1..Len(rows)
      BY <1>0, Zenon
    <3> QED
      BY <3>1
  <2> QED
    BY <1>0, <2>1, <2>2, Zenon
<1> HIDE DEF D, n, order, R
<1>1. n \in Nat /\ rows \in [D -> S] /\ D = 1..n /\ \A i, j \in D : i < j => rows[i] < rows[j]
  BY <1>0, <1>3, Zenon
<1>2. \A i, j \in D : rows[i] < rows[j] \/ (rows[i] = rows[j] /\ i < j) <=> i < j
  <2> TAKE i, j \in D
  <2>1. rows[i] \in Nat /\ rows[j] \in Nat
    BY <1>1
  <2>2. (i < j => rows[i] < rows[j]) /\ (j < i => rows[j] < rows[i])
    BY <1>1
  <2> QED
    BY <1>1, <2>1, <2>2
<1>4. Orders(R, D) /\ \A x, y \in D : <<x, y>> \in R <=> x < y
  BY <1>3, NumericOrders, Zenon DEF R
<1>5. \A x \in D : Under(x, D, R) = {y \in D : rows[y] < rows[x] \/ (rows[y] = rows[x] /\ y < x)}
  BY <1>2, <1>4, Zenon DEF Under
<1>7. order = [i \in 1..n |-> order[i]]
      /\ \A i \in 1..n : order[i] = CHOOSE x \in D : Cardinality({y \in D : rows[y] < rows[x] \/ (rows[y] = rows[x] /\ y < x)}) = i - 1
  <2>1. DOMAIN order = 1..n
    BY <1>6, Zenon
  <2>2. \A i \in 1..n : order[i] = CHOOSE x \in D : Cardinality({y \in D : rows[y] < rows[x] \/ (rows[y] = rows[x] /\ y < x)}) = i - 1
    BY <1>6, Zenon
  <2> QED
    BY <1>6, <2>1, <2>2
<1>8. ASSUME NEW i \in 1..n, \E x \in D : Cardinality(Under(x, D, R)) = i - 1
      PROVE  order[i] \in D /\ Cardinality(Under(order[i], D, R)) = i - 1
  <2>1. \E x \in D : Cardinality({y \in D : rows[y] < rows[x] \/ (rows[y] = rows[x] /\ y < x)}) = i - 1
    BY <1>5, <1>8, Zenon
  <2>2. order[i] \in D /\ Cardinality({y \in D : rows[y] < rows[order[i]] \/ (rows[y] = rows[order[i]] /\ y < order[i])}) = i - 1
    BY <1>7, <2>1, Zenon
  <2> QED
    BY <1>5, <2>2, Zenon
<1>9. Lists(order, D, R)
  BY <1>3, <1>4, <1>7, <1>8, ChosenLists, Zenon DEF n
<1>10. Lists(id, D, R)
  <2>a. D = 1..n
    BY <1>1
  <2>1. id \in [1..n -> D] /\ (\A x \in D : \E i \in 1..n : id[i] = x) /\ \A i, j \in 1..n : i < j => <<id[i], id[j]>> \in R
    <3>1. \A i \in 1..n : id[i] = i /\ i \in D
      BY <2>a
    <3>2. id \in [1..n -> D]
      BY <2>a
    <3> HIDE DEF id
    <3> QED
      BY <1>4, <2>a, <3>1, <3>2
  <2> HIDE DEF id
  <2> QED
    BY <1>1, <1>4, <2>1, IncreasingLists, Zenon
<1>11. order = id
  <2> HIDE DEF id
  <2> QED
    BY <1>3, <1>4, <1>9, <1>10, ListedOnce, Zenon
<1>12. \A j \in D : order[j] = j
  BY <1>11, Zenon
<1>13. rows = [j \in D |-> rows[j]]
  BY <1>1
<1> QED
  BY <1>1, <1>a, <1>12, <1>13, Zenon

(* Two sequences that are alike as far as a window reaches have the same window. *)
Agreeing(u, n, v, m, A, k) ==
    /\ n \in Nat /\ u \in [1..n -> A] /\ m \in Nat /\ v \in [1..m -> A] /\ n <= m
    /\ \A j \in 1..m : j <= k => j \in 1..n /\ u[j] = v[j]
SameWindow(u, v, limit, offset) == Window(u, limit, offset) = Window(v, limit, offset)

(* Sequences that agree on the first limit + offset elements have the same window. *)
LEMMA WindowSame ==
  ASSUME NEW limit \in Nat \ {0}, NEW offset \in Nat, NEW A, NEW n, NEW u, NEW m, NEW v,
         Agreeing(u, n, v, m, A, limit + offset)
  PROVE  SameWindow(u, v, limit, offset)
<1>0. /\ n \in Nat /\ u \in [1..n -> A] /\ m \in Nat /\ v \in [1..m -> A] /\ n <= m
      /\ \A j \in 1..m : j <= limit + offset => j \in 1..n /\ u[j] = v[j]
  BY Zenon DEF Agreeing
<1> DEFINE a == IF offset + limit < n THEN offset + limit ELSE n
           b == IF offset + limit < m THEN offset + limit ELSE m
<1>1. Len(u) = n /\ Len(v) = m /\ u \in Seq(A) /\ v \in Seq(A)
  BY <1>0, SequenceOf, Zenon
<1>2. a = b
  <2>1. CASE m = 0
    BY <1>0, <2>1
  <2>2. CASE offset + limit < m
    <3>1. offset + limit \in 1..m
      BY <1>0, <2>2
    <3>2. offset + limit \in 1..n
      BY <1>0, <3>1
    <3> QED
      BY <1>0, <2>2, <3>2
  <2>3. CASE m # 0 /\ ~(offset + limit < m)
    <3>1. m \in 1..m /\ m <= limit + offset
      BY <1>0, <2>3
    <3>2. m \in 1..n
      BY <1>0, <3>1
    <3> QED
      BY <1>0, <2>3, <3>2
  <2> QED
    BY <2>1, <2>2, <2>3
<1>3. Window(u, limit, offset) = SubSeq(u, offset + 1, a) /\ Window(v, limit, offset) = SubSeq(v, offset + 1, b)
  BY <1>0, <1>1 DEF Window, Smaller
<1>4. a \in Nat /\ a <= n /\ a <= m /\ a <= limit + offset
  <2>1. a \in Nat /\ a <= n /\ a <= limit + offset
    BY <1>0
  <2> QED
    BY <1>0, <2>1
<1> HIDE DEF a, b
<1>5. SubSeq(u, offset + 1, a) = [j \in 1..(a - (offset + 1) + 1) |-> u[(offset + 1) + j - 1]]
      /\ SubSeq(v, offset + 1, a) = [j \in 1..(a - (offset + 1) + 1) |-> v[(offset + 1) + j - 1]]
  BY <1>0, <1>1, <1>4
<1>6. \A j \in 1..(a - (offset + 1) + 1) : u[(offset + 1) + j - 1] = v[(offset + 1) + j - 1]
  <2> TAKE j \in 1..(a - (offset + 1) + 1)
  <2> DEFINE i == (offset + 1) + j - 1
  <2>1. i \in 1..m /\ i <= limit + offset
    BY <1>0, <1>4
  <2> HIDE DEF i
  <2>2. u[i] = v[i]
    BY <1>0, <2>1
  <2> QED
    BY <2>2 DEF i
<1> DEFINE K == 1..(a - (offset + 1) + 1)
<1> HIDE DEF K
<1>7. SubSeq(u, offset + 1, a) = SubSeq(v, offset + 1, a)
  BY <1>5, <1>6, Zenon
<1> QED
  BY <1>2, <1>3, <1>7, Zenon DEF SameWindow

-----------------------------------------------------------------------------
(* The rows and the candidates a plan and the reducer hold of the rows of S. *)

PlanRows(p, S) ==
    /\ query.limit = 0 => p.rows = <<>> /\ p.heap = {}
    /\ query.limit > 0 /\ query.order = <<>> => RowsKept(p.rows, S) /\ p.heap = {}
    /\ query.limit > 0 /\ query.order # <<>> => p.rows = <<>> /\ Keeps(p.heap, Cands(S), ByRank, RowTake(query))
MergedRows(p, S) ==
    /\ query.limit = 0 => p.rows = <<>> /\ p.heap = {}
    /\ query.limit > 0 /\ query.order = <<>> => RowsCovered(p.rows, S) /\ p.heap = {}
    /\ query.limit > 0 /\ query.order # <<>> => p.rows = <<>> /\ Keeps(p.heap, Cands(S), ByRank, RowTake(query))

(* row_take of a query that has an answer: LIMIT plus OFFSET, and nothing without a LIMIT. *)
LEMMA TakeIs ==
  ASSUME AnswerableQuery(query)
  PROVE  /\ query.limit \in Nat /\ query.offset \in Nat /\ RowTake(query) \in Nat
         /\ query.limit > 0 => RowTake(query) = query.limit + query.offset /\ RowTake(query) \in Nat \ {0}
         /\ query.limit = 0 \/ query.limit > 0
         /\ query.order # <<>> => Ordered
<1>1. query.limit \in Nat /\ query.offset \in Nat /\ query.order \in Seq({"k", "v"})
  BY Zenon DEF AnswerableQuery
<1>2. query.order # <<>> => query.order[1] \in {"k", "v"}
  BY <1>1
<1> QED
  BY <1>1, <1>2 DEF RowTake, Ordered

(* The empty sequence rises. *)
LEMMA NoneRising ==
  ASSUME NEW S
  PROVE  Rising(<<>>, S) /\ Range(<<>>) = {}
<1>1. <<>> \in [1..0 -> S] /\ Len(<<>>) = 0 /\ DOMAIN <<>> = 1..0 /\ ~\E i \in 1..0 : TRUE
  OBVIOUS
<1>2. Range(<<>>) = {}
  BY <1>1, Zenon DEF Range
<1> QED
  BY <1>1, <1>2, Zenon DEF Rising

(* A plan without rows and candidates holds those of no row. *)
LEMMA ResetRows ==
  ASSUME AnswerableQuery(query), NEW p, p.rows = <<>>, p.heap = {}
  PROVE  PlanRows(p, {}) /\ MergedRows(p, {})
<1> DEFINE none == {}
           empty == <<>>
<1>1. \A R : Keeps(none, none, R, RowTake(query)) /\ CoversFirst(none, none, R, RowTake(query))
  BY TakeIs, FS_EmptySet DEF Keeps, CoversFirst
<1>2. Cands(none) = none
  BY Zenon DEF Cands
<1>3. Rising(empty, none) /\ Range(empty) = none
  BY NoneRising, Zenon
<1>4. p.rows = empty /\ p.heap = none
  OBVIOUS
<1> HIDE DEF none, empty
<1>5. RowsKept(empty, none) /\ RowsCovered(empty, none)
  BY <1>1, <1>3, Zenon DEF RowsKept, RowsCovered
<1>6. p.heap = {}
  OBVIOUS
<1> QED
  BY <1>1, <1>2, <1>4, <1>5, <1>6, Zenon DEF PlanRows, MergedRows, none, empty

(* Nothing is merged from an empty heap. *)
LEMMA NoneMerged ==
  ASSUME NEW heap, NEW q
  PROVE  MergedHeap(heap, q, {}) = heap
<1> DEFINE none == {}
<1>1. IsFiniteSet(none) /\ Cardinality(none) = 0
  BY FS_EmptySet
<1>2. Len(SetToSeq(none)) = 0
  BY <1>1, SetToSeqIs
<1> HIDE DEF none
<1>3. Len(SetToSeq(none)) \in Nat
  BY <1>2
<1>4. PICK f : MergeRun(f, heap, q, none)
  BY <1>3, MergedHeapRun, Zenon
<1>5. f[0] = heap /\ MergedHeap(heap, q, none) = f[Len(SetToSeq(none))]
  BY <1>4, Zenon DEF MergeRun
<1> QED
  BY <1>2, <1>5, Zenon DEF none

(* One chunk more. *)
LEMMA ExecRowsHold ==
  ASSUME table \in Tables, AnswerableTable(table), AnswerableQuery(query), NEW c \in Chunks,
         NEW m \in SUBSET DOMAIN table[c]["k"], m = ChunkMask(query.filters, query.combine, table[c])[1], m # {},
         NEW S \in SUBSET AllRows, \A r \in S, e \in RowsOf(c, m) : r < e, S \cap RowsOf(c, m) = {},
         NEW p, IsPlan(p), PlanRows(p, S)
  PROVE  PlanRows(ExecChunk(p, query, c, table[c]), S \cup RowsOf(c, m))
<1> DEFINE x == ExecChunk(p, query, c, table[c])
<1>1. query.limit \in Nat /\ RowTake(query) \in Nat
  BY TakeIs, Zenon
<1>2. /\ x.heap = IF query.limit > 0 /\ query.order # <<>> THEN HeapAfter(p.heap, query, c, table[c], m) ELSE p.heap
      /\ x.rows = IF query.limit > 0 /\ query.order = <<>> THEN RowsAfter(p.rows, query, c, m) ELSE p.rows
  <2>1. Executed(x, p, query, c, table[c], m)
    BY ExecFields, Zenon
  <2> QED
    BY <1>1, <2>1, Zenon DEF Executed
<1> HIDE DEF x
<1>3. query.limit = 0 => x.rows = <<>> /\ x.heap = {}
  <2>1. query.limit = 0 => ~(query.limit > 0)
    BY <1>1
  <2> QED
    BY <1>2, <2>1, Zenon DEF PlanRows
<1>4. ASSUME query.limit > 0, query.order = <<>>
      PROVE  RowsKept(x.rows, S \cup RowsOf(c, m)) /\ x.heap = {}
  <2>1. RowsKept(p.rows, S) /\ p.heap = {}
    BY <1>4, Zenon DEF PlanRows
  <2>2. RowsKept(RowsAfter(p.rows, query, c, m), S \cup RowsOf(c, m))
    BY <1>1, <2>1, RowsAfterKept, Zenon
  <2> QED
    BY <1>2, <1>4, <2>1, <2>2, Zenon
<1>5. ASSUME query.limit > 0, query.order # <<>>
      PROVE  x.rows = <<>> /\ Keeps(x.heap, Cands(S \cup RowsOf(c, m)), ByRank, RowTake(query))
  <2>1. p.rows = <<>> /\ Keeps(p.heap, Cands(S), ByRank, RowTake(query)) /\ Ordered /\ RowTake(query) \in Nat \ {0}
    BY <1>5, TakeIs, Zenon DEF PlanRows
  <2>2. Keeps(HeapAfter(p.heap, query, c, table[c], m), Cands(S \cup RowsOf(c, m)), ByRank, RowTake(query))
    BY <2>1, HeapAfterKeeps, Zenon
  <2> QED
    BY <1>2, <1>5, <2>1, <2>2, Zenon
<1> QED
  BY <1>3, <1>4, <1>5, Zenon DEF PlanRows, x

(* One partial more. *)
LEMMA MergeRowsHold ==
  ASSUME AnswerableTable(table), AnswerableQuery(query),
         NEW S \in SUBSET AllRows, NEW T \in SUBSET AllRows, S \cap T = {}, \A r \in S, e \in T : r < e,
         NEW p, MergedRows(p, S), NEW w, PlanRows(w, T)
  PROVE  MergedRows(MergePartial(p, query, CopyPartial(w, query)), S \cup T)
<1> DEFINE part == CopyPartial(w, query)
           x == MergePartial(p, query, part)
<1>1. part.rows = (IF query.order = <<>> THEN w.rows ELSE <<>>) /\ part.heap = (IF query.order = <<>> THEN {} ELSE w.heap)
  BY DEF CopyPartial
<1>2. x.rows = p.rows \o part.rows /\ x.heap = MergedHeap(p.heap, query, part.heap)
  BY Zenon DEF MergePartial, MergedHeap
<1> HIDE DEF x, part
<1>3. <<>> \o <<>> = <<>>
  OBVIOUS
<1>4. query.limit = 0 => x.rows = <<>> /\ x.heap = {}
  <2> SUFFICES ASSUME query.limit = 0
               PROVE  x.rows = <<>> /\ x.heap = {}
    OBVIOUS
  <2>1. p.rows = <<>> /\ p.heap = {} /\ w.rows = <<>> /\ w.heap = {}
    BY Zenon DEF PlanRows, MergedRows
  <2>2. part.rows = <<>> /\ part.heap = {}
    BY <1>1, <2>1
  <2> QED
    BY <1>2, <1>3, <2>1, <2>2, NoneMerged, Zenon
<1>5. ASSUME query.limit > 0, query.order = <<>>
      PROVE  RowsCovered(x.rows, S \cup T) /\ x.heap = {}
  <2>1. RowsCovered(p.rows, S) /\ p.heap = {} /\ RowsKept(w.rows, T) /\ part.rows = w.rows /\ part.heap = {}
    BY <1>1, <1>5, Zenon DEF PlanRows, MergedRows
  <2>2. RowsCovered(p.rows \o w.rows, S \cup T)
    BY <2>1, TakeIs, RowsJoined, Zenon
  <2> QED
    BY <1>2, <2>1, <2>2, NoneMerged, Zenon
<1>6. ASSUME query.limit > 0, query.order # <<>>
      PROVE  x.rows = <<>> /\ Keeps(x.heap, Cands(S \cup T), ByRank, RowTake(query))
  <2>1. /\ p.rows = <<>> /\ Keeps(p.heap, Cands(S), ByRank, RowTake(query))
        /\ part.rows = <<>> /\ part.heap = w.heap /\ Keeps(w.heap, Cands(T), ByRank, RowTake(query))
        /\ Ordered /\ RowTake(query) \in Nat \ {0}
    BY <1>1, <1>6, TakeIs, Zenon DEF PlanRows, MergedRows
  <2>2. /\ Cands(S) \in SUBSET CandSet /\ IsFiniteSet(Cands(S)) /\ Cands(T) \in SUBSET CandSet /\ IsFiniteSet(Cands(T))
        /\ \A r \in AllRows : (Candidate(r) \in Cands(S) <=> r \in S) /\ (Candidate(r) \in Cands(T) <=> r \in T)
    BY <2>1, CandsAre, Zenon
  <2>3. Cands(S) \cap Cands(T) = {}
    <3> SUFFICES ASSUME NEW e \in Cands(S), e \in Cands(T)
                 PROVE  FALSE
      OBVIOUS
    <3>1. PICK r \in S : e = Candidate(r)
      BY Zenon DEF Cands
    <3> QED
      BY <2>2, <3>1
  <2>4. Cands(S \cup T) = Cands(S) \cup Cands(T)
    BY Zenon DEF Cands
  <2>5. Keeps(MergedHeap(p.heap, query, w.heap), Cands(S) \cup Cands(T), ByRank, RowTake(query))
    BY <2>1, <2>2, <2>3, MergedHeapKeeps, Zenon
  <2> QED
    BY <1>2, <1>3, <2>1, <2>4, <2>5, Zenon
<1> QED
  BY <1>4, <1>5, <1>6, Zenon DEF MergedRows, x, part

(* Merging the empty partial of a pruned chunk changes neither rows nor candidates. *)
LEMMA MergeNoRows ==
  ASSUME NEW S \in SUBSET AllRows, NEW p, MergedRows(p, S), AnswerableQuery(query)
  PROVE  MergedRows(MergePartial(p, query, EmptyPartial(query)), S)
<1> DEFINE part == EmptyPartial(query)
           x == MergePartial(p, query, part)
<1>1. part.rows = <<>> /\ part.heap = {}
  BY DEF EmptyPartial
<1>2. x.rows = p.rows \o part.rows /\ x.heap = MergedHeap(p.heap, query, part.heap)
  BY Zenon DEF MergePartial, MergedHeap
<1> HIDE DEF x, part
<1>3. \A n \in Nat : \A s \in [1..n -> S] : s \o <<>> = s
  OBVIOUS
<1>4. <<>> \o <<>> = <<>>
  OBVIOUS
<1>5. p.rows \o <<>> = p.rows
  <2>1. CASE p.rows = <<>>
    BY <1>4, <2>1
  <2>2. CASE Rising(p.rows, S)
    BY <1>3, <2>2, Zenon DEF Rising
  <2> QED
    BY <2>1, <2>2, TakeIs, Zenon DEF MergedRows, RowsCovered
<1>6. x.rows = p.rows /\ x.heap = p.heap
  BY <1>1, <1>2, <1>5, NoneMerged, Zenon
<1> QED
  BY <1>6, Zenon DEF MergedRows, x, part

-----------------------------------------------------------------------------
(* The rows of the answer. *)

RowKey(r) == [k |-> IF query.order = <<>> THEN 0 ELSE Cell(r, query.order[1]), row |-> r]
KeyOrder == {p \in AllRows \X AllRows : Before(RowKey(p[1]), RowKey(p[2]))}
\* The matching rows in the order of the query.
SortedMatching == Sorted(Matching, LAMBDA a, b : Before(RowKey(a), RowKey(b)))

(* ORDER BY, with the row id as tie-break, is an order of the rows. *)
LEMMA KeyOrders ==
  ASSUME AnswerableTable(table), AnswerableQuery(query)
  PROVE  /\ Orders(KeyOrder, AllRows)
         /\ \A a, b \in AllRows : <<a, b>> \in KeyOrder <=> Before(RowKey(a), RowKey(b))
         /\ query.order = <<>> => \A a, b \in AllRows : <<a, b>> \in KeyOrder <=> a < b
         /\ query.order # <<>> => \A a \in AllRows : RowKey(a) = Candidate(a)
<1>1. \A a, b \in AllRows : <<a, b>> \in KeyOrder <=> Before(RowKey(a), RowKey(b))
  BY DEF KeyOrder
<1>2. \A a \in AllRows : RowKey(a) \in CandSet
  <2> TAKE a \in AllRows
  <2>1. a \in Nat
    BY RowCells
  <2>2. query.order # <<>> => Cell(a, query.order[1]) \in Int \cup {Null}
    <3> SUFFICES ASSUME query.order # <<>>
                 PROVE  Cell(a, query.order[1]) \in Int \cup {Null}
      OBVIOUS
    <3>1. query.order[1] \in {"k", "v"}
      BY TakeIs DEF Ordered
    <3> QED
      BY <3>1, RowCells
  <2> QED
    BY <2>1, <2>2 DEF RowKey, CandSet
<1>3. \A a : RowKey(a).row = a
  BY DEF RowKey
<1>4. \A a, b : RowKey(a) = RowKey(b) => a = b
  BY <1>3
<1>5. /\ \A a \in AllRows : ~Before(RowKey(a), RowKey(a))
      /\ \A a, b, c \in AllRows : Before(RowKey(a), RowKey(b)) /\ Before(RowKey(b), RowKey(c)) => Before(RowKey(a), RowKey(c))
      /\ \A a, b \in AllRows : a # b => Before(RowKey(a), RowKey(b)) \/ Before(RowKey(b), RowKey(a))
  <2>1. Orders(ByRank, CandSet) /\ \A a, b \in CandSet : <<a, b>> \in ByRank <=> Before(a, b)
    BY RankOrders
  <2>2. /\ \A a \in CandSet : ~Before(a, a)
        /\ \A a, b, c \in CandSet : Before(a, b) /\ Before(b, c) => Before(a, c)
        /\ \A a, b \in CandSet : a # b => Before(a, b) \/ Before(b, a)
    BY <2>1, Zenon DEF Orders
  <2> QED
    BY <1>2, <1>4, <2>2, Zenon
<1>6. Orders(KeyOrder, AllRows)
  BY <1>1, <1>5, Zenon DEF Orders
<1>7. query.order = <<>> => \A a, b \in AllRows : <<a, b>> \in KeyOrder <=> a < b
  BY <1>1 DEF RowKey, Before
<1>8. query.order # <<>> => \A a \in AllRows : RowKey(a) = Candidate(a)
  BY DEF RowKey, Candidate
<1> QED
  BY <1>1, <1>6, <1>7, <1>8, Zenon

(* The matching rows, sorted, are listed in that order. *)
LEMMA SortedMatchingLists ==
  ASSUME AnswerableTable(table), AnswerableQuery(query)
  PROVE  /\ Matching \in SUBSET AllRows /\ IsFiniteSet(Matching) /\ Orders(KeyOrder, Matching)
         /\ Lists(SortedMatching, Matching, KeyOrder)
<1> DEFINE s == SortedMatching
           S == Matching
           n == Cardinality(S)
           R == KeyOrder
<1>1. S \in SUBSET AllRows
  <2>1. Len(table) \in 0..Len(table)
    BY DEF AnswerableTable
  <2> QED
    BY <2>1, MatchingSeen, Zenon
<1>2. IsFiniteSet(S)
  BY <1>1, RowsFinite, Zenon
<1>3. s = [i \in 1..n |-> CHOOSE x \in S : Cardinality({y \in S : Before(RowKey(y), RowKey(x))}) = i - 1]
  BY Zenon DEF SortedMatching, Sorted
<1> HIDE DEF S, s, n, R
<1>4. Orders(R, S) /\ \A x, y \in S : <<x, y>> \in R <=> Before(RowKey(x), RowKey(y))
  <2>1. \A x \in S : x \in AllRows
    BY <1>1
  <2> QED
    BY <1>1, <2>1, KeyOrders, OrdersSub, Zenon DEF R
<1>5. \A x \in S : Under(x, S, R) = {y \in S : Before(RowKey(y), RowKey(x))}
  BY <1>4, Zenon DEF Under
<1>6. s = [i \in 1..n |-> s[i]]
      /\ \A i \in 1..n : s[i] = CHOOSE x \in S : Cardinality({y \in S : Before(RowKey(y), RowKey(x))}) = i - 1
  <2>1. DOMAIN s = 1..n
    BY <1>3, Zenon
  <2>2. \A i \in 1..n : s[i] = CHOOSE x \in S : Cardinality({y \in S : Before(RowKey(y), RowKey(x))}) = i - 1
    BY <1>3, Zenon
  <2> QED
    BY <1>3, <2>1, <2>2
<1>7. ASSUME NEW i \in 1..n, \E x \in S : Cardinality(Under(x, S, R)) = i - 1
      PROVE  s[i] \in S /\ Cardinality(Under(s[i], S, R)) = i - 1
  <2>1. \E x \in S : Cardinality({y \in S : Before(RowKey(y), RowKey(x))}) = i - 1
    BY <1>5, <1>7, Zenon
  <2>2. s[i] \in S /\ Cardinality({y \in S : Before(RowKey(y), RowKey(s[i]))}) = i - 1
    BY <1>6, <2>1, Zenon
  <2> QED
    BY <1>5, <2>2, Zenon
<1>8. Lists(s, S, R)
  BY <1>2, <1>4, <1>6, <1>7, ChosenLists, Zenon DEF n
<1> QED
  BY <1>1, <1>2, <1>4, <1>8, Zenon DEF s, S, R

(* The candidates of a heap, sorted. *)
LEMMA SortedHeapLists ==
  ASSUME NEW S \in SUBSET CandSet, IsFiniteSet(S)
  PROVE  Lists(Sorted(S, Before), S, ByRank) /\ Orders(ByRank, S)
<1> DEFINE s == Sorted(S, Before)
           n == Cardinality(S)
           R == ByRank
<1>3. s = [i \in 1..n |-> CHOOSE x \in S : Cardinality({y \in S : Before(y, x)}) = i - 1]
  BY Zenon DEF Sorted
<1> HIDE DEF s, n, R
<1>4. Orders(R, S) /\ \A x, y \in S : <<x, y>> \in R <=> Before(x, y)
  <2>1. \A x \in S : x \in CandSet
    OBVIOUS
  <2> QED
    BY <2>1, RankOrders, OrdersSub, Zenon DEF R
<1>5. \A x \in S : Under(x, S, R) = {y \in S : Before(y, x)}
  BY <1>4, Zenon DEF Under
<1>6. s = [i \in 1..n |-> s[i]]
      /\ \A i \in 1..n : s[i] = CHOOSE x \in S : Cardinality({y \in S : Before(y, x)}) = i - 1
  <2>1. DOMAIN s = 1..n
    BY <1>3, Zenon
  <2>2. \A i \in 1..n : s[i] = CHOOSE x \in S : Cardinality({y \in S : Before(y, x)}) = i - 1
    BY <1>3, Zenon
  <2> QED
    BY <1>3, <2>1, <2>2
<1>7. ASSUME NEW i \in 1..n, \E x \in S : Cardinality(Under(x, S, R)) = i - 1
      PROVE  s[i] \in S /\ Cardinality(Under(s[i], S, R)) = i - 1
  <2>1. \E x \in S : Cardinality({y \in S : Before(y, x)}) = i - 1
    BY <1>5, <1>7, Zenon
  <2>2. s[i] \in S /\ Cardinality({y \in S : Before(y, s[i])}) = i - 1
    BY <1>6, <2>1, Zenon
  <2> QED
    BY <1>5, <2>2, Zenon
<1>8. Lists(s, S, R)
  BY <1>4, <1>6, <1>7, ChosenLists, Zenon DEF n
<1> QED
  BY <1>4, <1>8, Zenon DEF s, R

\* The rows RowsExact asks for.
RightRows == IF query.limit = 0 THEN <<>> ELSE Window(SortedMatching, query.limit, query.offset)

(* Rows in row order that leave out none of the first ones. *)
LEMMA CoveredWindow ==
  ASSUME AnswerableTable(table), AnswerableQuery(query), query.order = <<>>, query.limit > 0,
         NEW rows, RowsCovered(rows, Matching)
  PROVE  Window(rows, query.limit, query.offset) = Window(SortedMatching, query.limit, query.offset)
<1> DEFINE S == Matching
           s == SortedMatching
           X == Range(rows)
           m == Cardinality(S)
           n == Len(rows)
           take == RowTake(query)
<1>1. S \in SUBSET AllRows /\ IsFiniteSet(S) /\ Orders(KeyOrder, S) /\ Lists(s, S, KeyOrder) /\ Orders(RowOrder, S)
  <2>1. S \in SUBSET AllRows /\ IsFiniteSet(S) /\ Orders(KeyOrder, S) /\ Lists(s, S, KeyOrder)
    BY SortedMatchingLists, Zenon
  <2> QED
    BY <2>1, RowOrders, OrdersSub, Zenon
<1>2. take = query.limit + query.offset /\ take \in Nat /\ query.limit \in Nat \ {0} /\ query.offset \in Nat
  BY TakeIs
<1>3. Rising(rows, S) /\ CoversFirst(X, S, RowOrder, take)
  BY Zenon DEF RowsCovered
<1>4. X \in SUBSET S /\ Cardinality(X) = n /\ Lists(rows, X, RowOrder) /\ n \in Nat /\ rows \in [1..n -> S]
  BY <1>1, <1>3, RisingLists, Zenon DEF Rising
<1> HIDE DEF S, s, X, n, take
<1>5. Lists(s, S, RowOrder)
  <2>1. \A x, y \in AllRows : <<x, y>> \in KeyOrder <=> <<x, y>> \in RowOrder
    BY KeyOrders, RowOrders, Zenon
  <2>2. \A x \in S : Under(x, S, RowOrder) = Under(x, S, KeyOrder)
    <3> TAKE x \in S
    <3>1. x \in AllRows /\ \A y \in S : y \in AllRows
      BY <1>1
    <3> QED
      BY <2>1, <3>1, Zenon DEF Under
  <2>3. s \in [1..m -> S] /\ \A i \in 1..m : Cardinality(Under(s[i], S, KeyOrder)) = i - 1
    BY <1>1, Zenon DEF Lists
  <2>4. \A i \in 1..m : s[i] \in S
    BY <2>3, Zenon
  <2> QED
    BY <2>2, <2>3, <2>4, Zenon DEF Lists
<1>6. \A j \in 1..m : j <= take => j \in 1..n /\ rows[j] = s[j]
  <2> SUFFICES ASSUME NEW j \in 1..m, j <= take
               PROVE  j \in 1..n /\ rows[j] = s[j]
    OBVIOUS
  <2>1. Begins(rows, X, s, j)
    BY <1>1, <1>2, <1>3, <1>4, <1>5, CoversPrefix, Zenon
  <2> QED
    BY <1>4, <2>1, Zenon DEF Begins
<1>7. m \in Nat /\ s \in [1..m -> S] /\ n <= m
  <2>1. m \in Nat /\ n <= m
    BY <1>1, <1>4, FS_Subset, FS_CardinalityType
  <2> QED
    BY <1>1, <2>1, Zenon DEF Lists
<1> HIDE DEF m
<1>8. \A j \in 1..m : j <= query.limit + query.offset => j \in 1..n /\ rows[j] = s[j]
  BY <1>2, <1>6
<1>9. Window(rows, query.limit, query.offset) = Window(s, query.limit, query.offset)
  <2>1. Agreeing(rows, n, s, m, S, query.limit + query.offset)
    BY <1>4, <1>7, <1>8, Zenon DEF Agreeing
  <2>2. SameWindow(rows, s, query.limit, query.offset)
    BY <1>2, <2>1, WindowSame, Zenon
  <2> QED
    BY <2>2, Zenon DEF SameWindow
<1> QED
  BY <1>9, Zenon DEF s

\* What it is for s to list S in an order, place by place.
InPlace(s, S, R) ==
    LET m == Cardinality(S)
    IN  /\ m \in Nat /\ s \in [1..m -> S]
        /\ \A i, j \in 1..m : <<s[i], s[j]>> \in R <=> i < j
        /\ \A e \in S : \E i \in 1..m : s[i] = e

(* A listing of a finite set has it place by place. *)
LEMMA ListedInPlace ==
  ASSUME NEW S, IsFiniteSet(S), NEW R, Orders(R, S), NEW s, Lists(s, S, R)
  PROVE  InPlace(s, S, R)
BY Listed DEF InPlace

(* finalize_rows_from_heap of a heap that kept the first candidates. *)
LEMMA HeapWindow ==
  ASSUME AnswerableTable(table), AnswerableQuery(query), query.order # <<>>, query.limit > 0,
         NEW p, Keeps(p.heap, Cands(Matching), ByRank, RowTake(query))
  PROVE  RowsFromHeap(p, query) = Window(SortedMatching, query.limit, query.offset)
<1> DEFINE S == Matching
           s == SortedMatching
           C == Cands(S)
           X == p.heap
           x == Sorted(X, Before)
           m == Cardinality(S)
           n == Cardinality(X)
           take == RowTake(query)
           c == [j \in 1..m |-> Candidate(s[j])]
           u == [j \in DOMAIN x |-> x[j].row]
<1>1. S \in SUBSET AllRows /\ IsFiniteSet(S) /\ Orders(KeyOrder, S) /\ Lists(s, S, KeyOrder)
  BY SortedMatchingLists, Zenon
<1>2. take = query.limit + query.offset /\ take \in Nat /\ query.limit \in Nat \ {0} /\ query.offset \in Nat /\ Ordered
  BY TakeIs
<1>3. C \in SUBSET CandSet /\ IsFiniteSet(C) /\ Cardinality(C) = m
      /\ \A r \in AllRows : Candidate(r) \in C <=> r \in S
  BY <1>1, <1>2, CandsAre, Zenon
<1>4. Keeps(X, C, ByRank, take)
  OBVIOUS
<1>5. X \in SUBSET CandSet /\ IsFiniteSet(X) /\ X \in SUBSET C
  BY <1>3, <1>4, FS_Subset DEF Keeps
<1>6. Lists(x, X, ByRank) /\ Orders(ByRank, C)
  <2>1. Lists(x, X, ByRank)
    BY <1>5, SortedHeapLists, Zenon
  <2>2. Orders(ByRank, C)
    BY <1>3, SortedHeapLists, Zenon
  <2> QED
    BY <2>1, <2>2
<1>7. RowsFromHeap(p, query) = Window(u, query.limit, query.offset)
  BY Zenon DEF RowsFromHeap
<1>8. \A r \in C : \E q \in S : r = Candidate(q)
  BY Zenon DEF Cands
<1> HIDE DEF S, s, C, X, x, take
<1>9. /\ m \in Nat /\ s \in [1..m -> S]
      /\ \A i, j \in 1..m : <<s[i], s[j]>> \in KeyOrder <=> i < j
      /\ \A e \in S : \E i \in 1..m : s[i] = e
  <2>1. InPlace(s, S, KeyOrder)
    BY <1>1, ListedInPlace, Zenon
  <2> QED
    BY <2>1, Zenon DEF InPlace
<1> HIDE DEF m
<1>10. Lists(c, C, ByRank)
  <2>1. \A i \in 1..m : s[i] \in AllRows /\ Candidate(s[i]) \in C /\ c[i] = Candidate(s[i])
    BY <1>1, <1>3, <1>9
  <2>2. c \in [1..m -> C]
    BY <2>1
  <2> HIDE DEF c
  <2>3. \A e \in C : \E i \in 1..m : c[i] = e
    <3> TAKE e \in C
    <3>1. PICK q \in S : e = Candidate(q)
      BY <1>8
    <3>2. PICK i \in 1..m : s[i] = q
      BY <1>9
    <3> QED
      BY <2>1, <3>1, <3>2
  <2>4. \A i, j \in 1..m : i < j => <<c[i], c[j]>> \in ByRank
    <3> SUFFICES ASSUME NEW i \in 1..m, NEW j \in 1..m, i < j
                 PROVE  <<c[i], c[j]>> \in ByRank
      OBVIOUS
    <3>1. Before(RowKey(s[i]), RowKey(s[j]))
      BY <1>9, <2>1, KeyOrders, Zenon
    <3>2. RowKey(s[i]) = Candidate(s[i]) /\ RowKey(s[j]) = Candidate(s[j])
      BY <2>1, KeyOrders, Zenon
    <3>3. c[i] \in CandSet /\ c[j] \in CandSet
      BY <1>3, <2>2
    <3> QED
      BY <2>1, <3>1, <3>2, <3>3, RankOrders, Zenon
  <2> QED
    BY <1>6, <1>9, <2>2, <2>3, <2>4, IncreasingLists, Zenon
<1>11. \A j \in 1..m : j <= take => j \in 1..n /\ x[j] = c[j]
  <2>1. CoversFirst(X, C, ByRank, take)
    BY <1>2, <1>3, <1>4, KeepsCovers, Zenon
  <2>2. \A j \in 1..Cardinality(C) : j <= take => j \in 1..n /\ x[j] = c[j]
    <3> HIDE DEF c
    <3> SUFFICES ASSUME NEW j \in 1..Cardinality(C), j <= take
                 PROVE  j \in 1..n /\ x[j] = c[j]
      OBVIOUS
    <3>1. Begins(x, X, c, j)
      BY <1>2, <1>3, <1>6, <1>10, <2>1, CoversPrefix, Zenon
    <3> QED
      BY <3>1, Zenon DEF Begins
  <2> QED
    BY <1>3, <2>2, Zenon
<1>12. n \in Nat /\ n <= m /\ x \in [1..n -> X]
  <2>1. n \in Nat /\ n <= m
    BY <1>3, <1>5, FS_Subset, FS_CardinalityType
  <2> QED
    BY <1>6, <2>1, Zenon DEF Lists
<1> HIDE DEF n
<1>13. u \in [1..n -> AllRows] /\ s \in [1..m -> AllRows]
  <2>1. \A j \in 1..n : x[j] \in C
    BY <1>5, <1>12
  <2>2. \A j \in 1..n : x[j].row \in AllRows
    <3> TAKE j \in 1..n
    <3>1. PICK q \in S : x[j] = Candidate(q)
      BY <1>8, <2>1
    <3> QED
      BY <1>1, <3>1 DEF Candidate
  <2>3. DOMAIN x = 1..n
    BY <1>12
  <2> QED
    BY <1>1, <1>9, <2>2, <2>3
<1>14. \A j \in 1..m : j <= query.limit + query.offset => j \in 1..n /\ u[j] = s[j]
  <2> SUFFICES ASSUME NEW j \in 1..m, j <= query.limit + query.offset
               PROVE  j \in 1..n /\ u[j] = s[j]
    OBVIOUS
  <2>1. j \in 1..n /\ x[j] = c[j] /\ c[j] = Candidate(s[j]) /\ DOMAIN x = 1..n
    BY <1>2, <1>11, <1>12
  <2>2. u[j] = x[j].row
    BY <2>1, Zenon
  <2>3. Candidate(s[j]).row = s[j]
    BY DEF Candidate
  <2> QED
    BY <2>1, <2>2, <2>3, Zenon
<1> HIDE DEF u
<1>15. Window(u, query.limit, query.offset) = Window(s, query.limit, query.offset)
  <2>1. Agreeing(u, n, s, m, AllRows, query.limit + query.offset)
    BY <1>9, <1>12, <1>13, <1>14, Zenon DEF Agreeing
  <2>2. SameWindow(u, s, query.limit, query.offset)
    BY <1>2, <2>1, WindowSame, Zenon
  <2> QED
    BY <2>2, Zenon DEF SameWindow
<1> QED
  BY <1>7, <1>15, Zenon DEF s

(* Windows of nothing, and windows that leave nothing out. *)
LEMMA WindowNone ==
  ASSUME NEW limit \in Nat, NEW offset \in Nat
  PROVE  Window(<<>>, limit, offset) = <<>>
<1>1. Len(<<>>) = 0 /\ \A k \in {0} : SubSeq(<<>>, offset + 1, k) = <<>>
  OBVIOUS
<1>2. (IF limit > 0 THEN Smaller(offset + limit, Len(<<>>)) ELSE Len(<<>>)) = 0
  BY <1>1 DEF Smaller
<1> QED
  BY <1>1, <1>2, Zenon DEF Window

(* A window that begins at the first row and has room for all is the whole. *)
LEMMA WindowWhole ==
  ASSUME NEW limit \in Nat \ {0}, NEW A, NEW n \in Nat, NEW rows \in [1..n -> A], n <= limit
  PROVE  Window(rows, limit, 0) = rows
<1>1. rows \in Seq(A) /\ Len(rows) = n
  BY SequenceOf, Zenon
<1>2. Smaller(0 + limit, Len(rows)) = n
  BY <1>1 DEF Smaller
<1>3. Window(rows, limit, 0) = SubSeq(rows, 1, n)
  BY <1>2 DEF Window
<1> QED
  BY <1>1, <1>3

(* A heap with candidates or without, the rows are those of its window. *)
LEMMA NoHeap ==
  ASSUME AnswerableQuery(query), NEW p, p.heap = {}
  PROVE  RowsFromHeap(p, query) = <<>>
<1> DEFINE x == Sorted(p.heap, Before)
           u == [j \in DOMAIN x |-> x[j].row]
<1>1. Cardinality(p.heap) = 0
  BY FS_EmptySet
<1>2. DOMAIN x = 1..Cardinality(p.heap)
  BY Zenon DEF Sorted
<1> HIDE DEF x
<1>3. DOMAIN x = {}
  BY <1>1, <1>2
<1>4. u = <<>>
  BY <1>3
<1>5. RowsFromHeap(p, query) = Window(u, query.limit, query.offset)
  BY Zenon DEF RowsFromHeap, x
<1> QED
  BY <1>4, <1>5, TakeIs, WindowNone, Zenon

(* Ordered rows come from the heap, and there are none when it is empty. *)
LEMMA OrderedRows ==
  ASSUME AnswerableTable(table), AnswerableQuery(query), query.order # <<>>, query.limit > 0,
         NEW p, p.rows = <<>>, Keeps(p.heap, Cands(Matching), ByRank, RowTake(query))
  PROVE  (IF p.heap = {} THEN p.rows ELSE RowsFromHeap(p, query)) = Window(SortedMatching, query.limit, query.offset)
<1>1. RowsFromHeap(p, query) = Window(SortedMatching, query.limit, query.offset)
  BY HeapWindow, Zenon
<1>2. p.heap = {} => RowsFromHeap(p, query) = <<>>
  BY NoHeap, Zenon
<1> QED
  BY <1>1, <1>2, Zenon

(* What the reducer holds of all matching rows, it answers with. *)
LEMMA ReducerRowsAre ==
  ASSUME AnswerableTable(table), AnswerableQuery(query), NEW p, MergedRows(p, Matching)
  PROVE  ReducerRows(p, query) = RightRows
<1>0. query.limit \in Nat /\ query.offset \in Nat /\ (query.limit = 0 \/ query.limit > 0) /\ ~(query.limit = 0 /\ query.limit > 0)
  BY TakeIs
<1>1. CASE query.limit = 0
  <2>1. p.rows = <<>> /\ p.heap = {}
    BY <1>1, Zenon DEF MergedRows
  <2>2. Rising(p.rows, {})
    BY <2>1, NoneRising, Zenon
  <2>3. SortedRows(p.rows) = <<>>
    <3>1. {} \in SUBSET Nat
      OBVIOUS
    <3> QED
      BY <2>1, <2>2, <3>1, SortedRowsSame, Zenon
  <2>4. Window(SortedRows(p.rows), query.limit, query.offset) = <<>>
    BY <1>0, <2>3, WindowNone, Zenon
  <2> QED
    BY <1>1, <2>1, <2>4, Zenon DEF ReducerRows, RightRows
<1>2. CASE query.limit > 0 /\ query.order = <<>>
  <2>1. RowsCovered(p.rows, Matching)
    BY <1>2, Zenon DEF MergedRows
  <2>2. Rising(p.rows, Matching) /\ Matching \in SUBSET Nat
    <3>1. Matching \in SUBSET AllRows /\ AllRows \in SUBSET Nat
      BY SortedMatchingLists, RowOrders, Zenon
    <3> QED
      BY <2>1, <3>1 DEF RowsCovered
  <2>3. SortedRows(p.rows) = p.rows
    BY <2>2, SortedRowsSame, Zenon
  <2>4. Window(p.rows, query.limit, query.offset) = Window(SortedMatching, query.limit, query.offset)
    BY <1>2, <2>1, CoveredWindow, Zenon
  <2> QED
    BY <1>0, <1>2, <2>3, <2>4, Zenon DEF ReducerRows, RightRows
<1>3. CASE query.limit > 0 /\ query.order # <<>>
  <2>1. p.rows = <<>> /\ Keeps(p.heap, Cands(Matching), ByRank, RowTake(query))
    BY <1>3, Zenon DEF MergedRows
  <2>2. (IF p.heap = {} THEN p.rows ELSE RowsFromHeap(p, query)) = Window(SortedMatching, query.limit, query.offset)
    BY <1>3, <2>1, OrderedRows, Zenon
  <2> QED
    BY <1>0, <1>3, <2>2, Zenon DEF ReducerRows, RightRows
<1> QED
  BY <1>0, <1>1, <1>2, <1>3, Zenon

(* Rows that were kept are no more than the limit and the offset. *)
LEMMA KeptRowsAre ==
  ASSUME AnswerableTable(table), AnswerableQuery(query), NEW S \in SUBSET AllRows, NEW rows, RowsKept(rows, S)
  PROVE  /\ RowsCovered(rows, S) /\ Len(rows) \in Nat /\ rows \in [1..Len(rows) -> S] /\ Len(rows) <= RowTake(query)
         /\ Len(rows) = Cardinality(Range(rows))
<1>1. Rising(rows, S) /\ Keeps(Range(rows), S, RowOrder, RowTake(query))
  BY Zenon DEF RowsKept
<1>2. IsFiniteSet(S)
  BY RowsFinite, Zenon
<1>3. CoversFirst(Range(rows), S, RowOrder, RowTake(query))
  BY <1>1, <1>2, TakeIs, KeepsCovers, Zenon
<1>4. Cardinality(Range(rows)) = Len(rows)
  BY <1>1, RisingLists, Zenon
<1>5. Cardinality(Range(rows)) <= RowTake(query)
  BY <1>1, Zenon DEF Keeps
<1>6. Len(rows) <= RowTake(query)
  BY <1>4, <1>5, Zenon
<1> QED
  BY <1>1, <1>3, <1>4, <1>6, Zenon DEF RowsCovered, Rising

(* And so it is with the plan of the local path. *)
LEMMA LocalRowsAre ==
  ASSUME AnswerableTable(table), AnswerableQuery(query), query.order # <<>> \/ query.offset = 0,
         NEW p, PlanRows(p, Matching)
  PROVE  LocalRows(p, query) = RightRows
<1>0. query.limit \in Nat /\ query.offset \in Nat /\ (query.limit = 0 \/ query.limit > 0) /\ ~(query.limit = 0 /\ query.limit > 0)
  BY TakeIs
<1>1. CASE query.limit = 0
  <2>1. p.rows = <<>>
    BY <1>1, Zenon DEF PlanRows
  <2> QED
    BY <1>1, <2>1, Zenon DEF LocalRows, RightRows
<1>2. CASE query.limit > 0 /\ query.order = <<>>
  <2>1. RowsKept(p.rows, Matching) /\ query.offset = 0 /\ Matching \in SUBSET AllRows
    BY <1>2, SortedMatchingLists, Zenon DEF PlanRows
  <2>2. RowsCovered(p.rows, Matching) /\ Len(p.rows) \in Nat /\ p.rows \in [1..Len(p.rows) -> Matching] /\ Len(p.rows) <= RowTake(query)
    BY <2>1, KeptRowsAre, Zenon
  <2>3. Window(p.rows, query.limit, query.offset) = Window(SortedMatching, query.limit, query.offset)
    BY <1>2, <2>2, CoveredWindow, Zenon
  <2>4. Len(p.rows) <= query.limit /\ query.limit \in Nat \ {0}
    BY <1>0, <1>2, <2>1, <2>2, TakeIs
  <2>5. Window(p.rows, query.limit, 0) = p.rows
    BY <2>2, <2>4, WindowWhole, Zenon
  <2> QED
    BY <1>0, <1>2, <2>1, <2>3, <2>5, Zenon DEF LocalRows, RightRows
<1>3. CASE query.limit > 0 /\ query.order # <<>>
  <2>1. p.rows = <<>> /\ Keeps(p.heap, Cands(Matching), ByRank, RowTake(query))
    BY <1>3, Zenon DEF PlanRows
  <2>2. (IF p.heap = {} THEN p.rows ELSE RowsFromHeap(p, query)) = Window(SortedMatching, query.limit, query.offset)
    BY <1>3, <2>1, OrderedRows, Zenon
  <2> QED
    BY <1>0, <1>3, <2>2, Zenon DEF LocalRows, RightRows
<1> QED
  BY <1>0, <1>1, <1>2, <1>3, Zenon

(* What is seen first is before the rest of what matches. *)
LEMMA SeenBefore ==
  ASSUME AnswerableTable(table), NEW k \in 0..Len(table)
  PROVE  Seen(k) \subseteq Matching /\ \A r \in Seen(k), e \in Matching \ Seen(k) : r < e
<1>1. Chunks = 1..Len(table) /\ Len(table) \in Nat /\ Matching = Seen(Len(table))
  BY ChunksAre, MatchingSeen, Zenon
<1>2. ASSUME NEW a \in Nat, NEW b \in Nat, a <= b
      PROVE  Seen(a) \subseteq Seen(b)
  <2>1. 1..a \subseteq 1..b
    BY <1>2
  <2> QED
    BY <2>1, Zenon DEF Seen
<1>3. ASSUME NEW r \in Seen(k), NEW e \in Matching \ Seen(k)
      PROVE  r < e
  <2>1. PICK c \in 1..Len(table) : e \in RowsOf(c, Held(c))
    BY <1>1, Zenon DEF Seen
  <2>2. c \notin 1..k
    BY <2>1, Zenon DEF Seen
  <2>3. k <= c - 1 /\ c - 1 \in Nat /\ k \in Nat
    BY <1>1, <2>2
  <2>4. r \in Seen(c - 1)
    BY <1>2, <2>3
  <2> QED
    BY <1>1, <2>1, <2>4, SeenStep, Zenon
<1>4. Seen(k) \subseteq Matching
  BY <1>1, <1>2
<1> QED
  BY <1>3, <1>4

(* The loop that ends early has the first LIMIT rows already. *)
LEMMA EarlyRows ==
  ASSUME AnswerableTable(table), AnswerableQuery(query), query.limit > 0, query.offset = 0,
         NEW k \in 0..Len(table), NEW p, PlanRows(p, Seen(k)), query.limit <= Len(p.rows)
  PROVE  PlanRows(p, Matching)
<1>1. query.order = <<>>
  <2> SUFFICES ASSUME query.order # <<>>
               PROVE  FALSE
    OBVIOUS
  <2>1. p.rows = <<>>
    BY Zenon DEF PlanRows
  <2> QED
    BY <2>1, TakeIs
<1>2. RowsKept(p.rows, Seen(k)) /\ p.heap = {}
  BY <1>1, Zenon DEF PlanRows
<1> DEFINE X == Range(p.rows)
           rows == p.rows
           take == RowTake(query)
<1>3. Seen(k) \in SUBSET AllRows /\ Matching \in SUBSET AllRows /\ Matching = Seen(Len(table))
  BY MatchingSeen, SortedMatchingLists, Zenon
<1>4. Rising(rows, Seen(k)) /\ Keeps(X, Seen(k), RowOrder, take) /\ take = query.limit
      /\ Len(rows) \in Nat /\ Len(rows) <= take /\ Len(rows) = Cardinality(X)
  <2>1. Rising(rows, Seen(k)) /\ Keeps(X, Seen(k), RowOrder, take)
    BY <1>2, Zenon DEF RowsKept
  <2>2. Len(rows) \in Nat /\ Len(rows) <= take /\ Len(rows) = Cardinality(X)
    BY <1>2, <1>3, KeptRowsAre, Zenon
  <2>3. take = query.limit
    BY TakeIs
  <2> QED
    BY <2>1, <2>2, <2>3, Zenon
<1>5. Cardinality(X) = take
  <2>1. query.limit = take /\ Len(rows) = Cardinality(X) /\ Len(rows) <= take /\ query.limit <= Len(rows)
    BY <1>4, Zenon
  <2> HIDE DEF X, take
  <2> QED
    BY <1>4, <2>1, TakeIs
<1>6. Seen(k) \subseteq Matching /\ \A r \in Seen(k), e \in Matching \ Seen(k) : r < e
  BY <1>3, SeenBefore, Zenon
<1> HIDE DEF X, take
<1>7. \A e \in Matching \ X : \A x \in X : <<x, e>> \in RowOrder
  <2> SUFFICES ASSUME NEW e \in Matching \ X, NEW x \in X
               PROVE  <<x, e>> \in RowOrder
    OBVIOUS
  <2>1. X \in SUBSET Seen(k)
    BY <1>4, Zenon DEF Keeps
  <2>2. CASE e \in Seen(k)
    BY <1>4, <2>2, Zenon DEF Keeps
  <2>3. CASE e \notin Seen(k)
    <3>1. x < e /\ x \in AllRows /\ e \in AllRows
      BY <1>3, <1>6, <2>1, <2>3
    <3> QED
      BY <3>1, RowOrders, Zenon
  <2> QED
    BY <2>2, <2>3
<1>8. Keeps(X, Matching, RowOrder, take)
  BY <1>4, <1>5, <1>6, <1>7 DEF Keeps
<1>9. Rising(rows, Matching)
  BY <1>4, <1>6 DEF Rising
<1>10. RowsKept(p.rows, Matching)
  BY <1>8, <1>9, Zenon DEF RowsKept, X, take
<1> QED
  BY <1>1, <1>2, <1>10, TakeIs DEF PlanRows

-----------------------------------------------------------------------------
(* Groups. *)

\* The rows of S in the group of a key.
InGroup(S, key) == {r \in S : Cell(r, "k") = key}
\* The aggregates of a group with the rows of R.
GroupAggsOf(aggs, R) ==
    LET N == Len(query.groupAggs)
    IN  /\ aggs = [i \in 1..N |-> aggs[i]]
        /\ \A i \in 1..N : AggOf(query.groupAggs[i], aggs[i], R)
IsGroups(g) ==
    /\ Len(g) \in Nat /\ g = [j \in 1..Len(g) |-> g[j]]
    /\ \A j \in 1..Len(g) : g[j] = [key |-> g[j].key, aggs |-> g[j].aggs]
\* Every row of the second group has one of the first before it.
SeenFirst(S, a, b) == \A s \in InGroup(S, b) : \E r \in InGroup(S, a) : r < s
\* Table g has the groups of the rows of S, in the order of their first rows.
GroupsOf(g, S) ==
    /\ IsGroups(g)
    /\ \A j \in 1..Len(g) : /\ g[j].key # Null /\ InGroup(S, g[j].key) # {}
                            /\ GroupAggsOf(g[j].aggs, InGroup(S, g[j].key))
    /\ \A r \in S : Cell(r, "k") # Null => \E j \in 1..Len(g) : g[j].key = Cell(r, "k")
    /\ \A i, j \in 1..Len(g) : i < j => g[i].key # g[j].key /\ SeenFirst(S, g[i].key, g[j].key)

\* The rows of A come after the first row of each group of S.
Late(S, A) == \A r \in S, s \in A : Cell(r, "k") # Null => \E e \in InGroup(S, Cell(r, "k")) : e < s
\* What may be added to the group of a key.
Added(S, key, A) ==
    /\ S \in SUBSET AllRows /\ A \in SUBSET AllRows /\ S \cap A = {} /\ A # {} /\ key # Null
    /\ (\A r \in A : Cell(r, "k") = key) /\ Late(S, A)
\* What on_group changes: the group of the key, which is new or has the rows of A more.
GroupStep(h, g, S, key, A) ==
    /\ IsGroups(h)
    /\ \A j \in 1..Len(g) : /\ j \in 1..Len(h) /\ h[j].key = g[j].key
                            /\ g[j].key # key => h[j].aggs = g[j].aggs
                            /\ g[j].key = key => GroupAggsOf(h[j].aggs, InGroup(S, key) \cup A)
    /\ (\E j \in 1..Len(g) : g[j].key = key) => Len(h) = Len(g)
    /\ (\A j \in 1..Len(g) : g[j].key # key) =>
         Len(h) = Len(g) + 1 /\ h[Len(h)].key = key /\ GroupAggsOf(h[Len(h)].aggs, A)

(* The groups that were there keep their rows. *)
LEMMA GroupParts ==
  ASSUME NEW S, NEW key, NEW A, Added(S, key, A)
  PROVE  /\ \A k : k # key => InGroup(S \cup A, k) = InGroup(S, k)
         /\ InGroup(S \cup A, key) = InGroup(S, key) \cup A
         /\ \A k : InGroup(S, k) \in SUBSET InGroup(S \cup A, k)
BY DEF Added, InGroup

(* A table that had the groups of S and takes the rows of A has those of both. *)
LEMMA GroupsGrow ==
  ASSUME NEW S, NEW key, NEW A, Added(S, key, A), NEW g, GroupsOf(g, S), NEW h, GroupStep(h, g, S, key, A)
  PROVE  GroupsOf(h, S \cup A)
<1> DEFINE n == Len(g)
           m == Len(h)
           U == S \cup A
<1>1. /\ \A k : k # key => InGroup(U, k) = InGroup(S, k)
      /\ InGroup(U, key) = InGroup(S, key) \cup A
      /\ \A k : InGroup(S, k) \in SUBSET InGroup(U, k)
  BY GroupParts
<1>2. n \in Nat /\ IsGroups(h) /\ m \in Nat
  BY DEF GroupsOf, GroupStep, IsGroups
<1>3. /\ \A j \in 1..n : g[j].key # Null /\ InGroup(S, g[j].key) # {} /\ GroupAggsOf(g[j].aggs, InGroup(S, g[j].key))
      /\ \A r \in S : Cell(r, "k") # Null => \E j \in 1..n : g[j].key = Cell(r, "k")
      /\ \A i, j \in 1..n : i < j => g[i].key # g[j].key /\ SeenFirst(S, g[i].key, g[j].key)
  BY Zenon DEF GroupsOf
<1>4. /\ \A j \in 1..n : /\ j \in 1..m /\ h[j].key = g[j].key
                         /\ g[j].key # key => h[j].aggs = g[j].aggs
                         /\ g[j].key = key => GroupAggsOf(h[j].aggs, InGroup(S, key) \cup A)
      /\ (\E j \in 1..n : g[j].key = key) => m = n
      /\ (\A j \in 1..n : g[j].key # key) => m = n + 1 /\ h[m].key = key /\ GroupAggsOf(h[m].aggs, A)
  BY Zenon DEF GroupStep
<1>5. /\ key # Null /\ A # {} /\ \A r \in A : Cell(r, "k") = key
      /\ \A r \in S, s \in A : Cell(r, "k") # Null => \E e \in InGroup(S, Cell(r, "k")) : e < s
  BY Zenon DEF Added, Late
<1>e. \A j \in 1..n, s \in A : \E e \in InGroup(S, g[j].key) : e < s
  <2> SUFFICES ASSUME NEW j \in 1..n, NEW s \in A
               PROVE  \E e \in InGroup(S, g[j].key) : e < s
    BY Zenon
  <2>1. PICK r \in S : Cell(r, "k") = g[j].key
    BY <1>3, Zenon DEF InGroup
  <2> QED
    BY <1>3, <1>5, <2>1, Zenon
<1>n. (\E j \in 1..n : g[j].key = key) \/ \A j \in 1..n : g[j].key # key
  BY Zenon
<1>c. \A j \in 1..m : j \in 1..n \/ (j = m /\ m = n + 1 /\ \A i \in 1..n : g[i].key # key)
  BY <1>2, <1>4, <1>n
<1>x. (\A i \in 1..n : g[i].key # key) => m \in 1..m
  BY <1>2, <1>4
<1> HIDE DEF n, m, U
<1>s. (\A i \in 1..n : g[i].key # key) => InGroup(S, key) = {}
  <2> SUFFICES ASSUME \A i \in 1..n : g[i].key # key, NEW r \in InGroup(S, key)
               PROVE  FALSE
    BY Zenon
  <2> QED
    BY <1>3, <1>5, Zenon DEF InGroup
<1>6. ASSUME NEW j \in 1..m
      PROVE  h[j].key # Null /\ InGroup(U, h[j].key) # {} /\ GroupAggsOf(h[j].aggs, InGroup(U, h[j].key))
  <2>1. CASE j \in 1..n
    <3>1. CASE g[j].key = key
      BY <1>1, <1>3, <1>4, <2>1, <3>1, Zenon
    <3>2. CASE g[j].key # key
      BY <1>1, <1>3, <1>4, <2>1, <3>2, Zenon
    <3> QED
      BY <3>1, <3>2
  <2>2. CASE j = m /\ m = n + 1 /\ \A i \in 1..n : g[i].key # key
    <3>1. InGroup(U, key) = A
      BY <1>1, <1>s, <2>2
    <3> QED
      BY <1>4, <1>5, <2>2, <3>1, Zenon
  <2> QED
    BY <1>c, <2>1, <2>2
<1>7. ASSUME NEW r \in U, Cell(r, "k") # Null
      PROVE  \E j \in 1..m : h[j].key = Cell(r, "k")
  <2>1. CASE r \in S
    BY <1>3, <1>4, <1>7, <2>1, Zenon
  <2>2. CASE r \in A
    BY <1>4, <1>5, <1>n, <1>x, <2>2, Zenon
  <2> QED
    BY <2>1, <2>2 DEF U
<1>8. ASSUME NEW i \in 1..m, NEW j \in 1..m, i < j
      PROVE  h[i].key # h[j].key /\ SeenFirst(U, h[i].key, h[j].key)
  <2>1. i \in 1..n
    BY <1>2, <1>8, <1>c DEF n, m
  <2>2. CASE j \in 1..n
    <3>1. g[i].key # g[j].key /\ SeenFirst(S, g[i].key, g[j].key) /\ h[i].key = g[i].key /\ h[j].key = g[j].key
      BY <1>3, <1>4, <1>8, <2>1, <2>2, Zenon
    <3>2. ASSUME NEW s \in InGroup(U, g[j].key)
          PROVE  \E r \in InGroup(U, g[i].key) : r < s
      <4>1. s \in InGroup(S, g[j].key) \/ s \in A
        BY <1>1, <3>2, Zenon
      <4>2. \E r \in InGroup(S, g[i].key) : r < s
        BY <1>e, <2>1, <3>1, <4>1, Zenon DEF SeenFirst
      <4> QED
        BY <1>1, <4>2, Zenon
    <3> QED
      BY <3>1, <3>2, Zenon DEF SeenFirst
  <2>3. CASE j = m /\ m = n + 1 /\ \A k \in 1..n : g[k].key # key
    <3>1. h[j].key = key /\ g[i].key # key /\ h[i].key = g[i].key /\ InGroup(U, key) = A
      BY <1>1, <1>4, <1>s, <2>1, <2>3
    <3>2. \A s \in A : \E r \in InGroup(U, g[i].key) : r < s
      BY <1>1, <1>e, <2>1, Zenon
    <3> QED
      BY <3>1, <3>2, Zenon DEF SeenFirst
  <2> QED
    BY <1>c, <2>2, <2>3
<1> QED
  BY <1>2, <1>6, <1>7, <1>8, Zenon DEF GroupsOf, U, m

\* One row of the group scan, and one record of plan_reducer_merge_groups.
RowGroup(g, q, chunk, i) == OnGroup(g, chunk["k"][i], Len(q.groupAggs), LAMBDA a : GroupRow(a, q, chunk["v"][i]))
MergeGroup(g, q, r) ==
    OnGroup(g, r.key, Len(q.groupAggs), LAMBDA a : [i \in DOMAIN a |-> MergeStatByKind(a[i], r.aggs[i], q.groupAggs[i])])
ExecGroupRun(f, groups, chunk, m) ==
    /\ f[0] = groups
    /\ \A k \in 1..Len(Ascending(ApplyValidity(chunk["k"], m))) : f[k] = RowGroup(f[k - 1], query, chunk, Ascending(ApplyValidity(chunk["k"], m))[k])
    /\ ExecGroups(groups, query, chunk, m) = f[Len(Ascending(ApplyValidity(chunk["k"], m)))]

(* The group scan of a chunk, row by row. *)
LEMMA ExecGroupRuns ==
  ASSUME NEW groups, NEW chunk, NEW m, Len(Ascending(ApplyValidity(chunk["k"], m))) \in Nat
  PROVE  \E f : ExecGroupRun(f, groups, chunk, m)
<1> DEFINE N == Len(Ascending(ApplyValidity(chunk["k"], m)))
           Op(x, k) == RowGroup(x, query, chunk, Ascending(ApplyValidity(chunk["k"], m))[k])
           Runs(n, f) == f = [k \in 0..n |-> IF k = 0 THEN groups ELSE Op(f[k - 1], k)]
           T == {n \in Nat : \E f : Runs(n, f)}
           F == CHOOSE f : Runs(N, f)
<1>1. ExecGroups(groups, query, chunk, m) = F[N]
  BY Zenon DEF Fold, ExecGroups, RowGroup
<1> DEFINE base == groups
<1> HIDE DEF Op, base
<1>2. 0 \in T
  <2>1. Runs(0, [k \in 0..0 |-> base])
    BY DEF base
  <2> QED
    BY <2>1
<1>3. ASSUME NEW n \in 1..N, n - 1 \in T
      PROVE  n \in T
  <2>1. PICK r : Runs(n - 1, r)
    BY <1>3
  <2>2. n \in Nat /\ n # 0 /\ n - 1 \in 0..n /\ n - 1 \in 0..(n - 1) /\ 0 \in 0..(n - 1)
        /\ (\A k \in 0..(n - 1) : k \in 0..n /\ k # n /\ (k # 0 => k - 1 \in 0..(n - 1)))
        /\ \A k \in 0..n : k = n \/ k \in 0..(n - 1)
    BY <1>3
  <2> DEFINE f == [k \in 0..n |-> IF k = n THEN Op(r[n - 1], n) ELSE r[k]]
  <2>3. /\ f = [k \in 0..n |-> f[k]] /\ f[n] = Op(r[n - 1], n)
        /\ \A k \in 0..(n - 1) : f[k] = r[k]
    <3>1. n \in 0..n
      BY <2>2
    <3> QED
      BY <2>2, <3>1, Zenon
  <2> HIDE DEF f
  <2>4. \A k \in 0..(n - 1) : r[k] = IF k = 0 THEN base ELSE Op(r[k - 1], k)
    BY <2>1, Zenon DEF base
  <2>5. \A k \in 0..n : f[k] = IF k = 0 THEN base ELSE Op(f[k - 1], k)
    <3>1. f[n] = Op(f[n - 1], n)
      BY <2>2, <2>3, Zenon
    <3>2. \A k \in 0..(n - 1) : f[k] = IF k = 0 THEN base ELSE Op(f[k - 1], k)
      <4> TAKE k \in 0..(n - 1)
      <4>1. CASE k = 0
        BY <2>3, <2>4, <4>1, Zenon
      <4>2. CASE k # 0
        <5>1. k - 1 \in 0..(n - 1) /\ f[k - 1] = r[k - 1]
          BY <2>2, <2>3, <4>2, Zenon
        <5> QED
          BY <2>3, <2>4, <4>2, <5>1, Zenon
      <4> QED
        BY <4>1, <4>2, Zenon
    <3> QED
      BY <2>2, <3>1, <3>2, Zenon
  <2>6. Runs(n, f)
    BY <2>3, <2>5, Zenon DEF base
  <2> HIDE DEF Runs
  <2> QED
    BY <2>2, <2>6, Zenon
<1>4. N \in Nat /\ 0 \in 0..N /\ \A k \in 1..N : k \in 0..N /\ k # 0
  OBVIOUS
<1> HIDE DEF T
<1>5. N \in T
  BY <1>2, <1>3, <1>4, AllReached, Zenon
<1>6. Runs(N, F)
  <2> HIDE DEF Runs
  <2>1. \E f : Runs(N, f)
    BY <1>5, Zenon DEF T
  <2> QED
    BY <2>1, Zenon
<1> HIDE DEF F, N
<1>7. F[0] = base /\ \A k \in 1..N : F[k] = Op(F[k - 1], k)
  BY <1>4, <1>6, Zenon DEF base
<1>8. ExecGroupRun(F, groups, chunk, m)
  BY <1>1, <1>7, Zenon DEF Op, base, N, ExecGroupRun
<1> QED
  BY <1>8, Zenon

MergeGroupRun(f, groups, part) ==
    /\ f[0] = groups
    /\ \A k \in 1..Len(part) : f[k] = MergeGroup(f[k - 1], query, part[k])
    /\ MergeGroups(groups, query, part) = f[Len(part)]

(* The records of a partial, one by one. *)
LEMMA MergeGroupRuns ==
  ASSUME NEW groups, NEW part, Len(part) \in Nat
  PROVE  \E f : MergeGroupRun(f, groups, part)
<1> DEFINE N == Len(part)
           Op(x, k) == MergeGroup(x, query, part[k])
           Runs(n, f) == f = [k \in 0..n |-> IF k = 0 THEN groups ELSE Op(f[k - 1], k)]
           T == {n \in Nat : \E f : Runs(n, f)}
           F == CHOOSE f : Runs(N, f)
<1>1. MergeGroups(groups, query, part) = F[N]
  BY Zenon DEF Fold, MergeGroups, MergeGroup
<1> DEFINE base == groups
<1> HIDE DEF Op, base
<1>2. 0 \in T
  <2>1. Runs(0, [k \in 0..0 |-> base])
    BY DEF base
  <2> QED
    BY <2>1
<1>3. ASSUME NEW n \in 1..N, n - 1 \in T
      PROVE  n \in T
  <2>1. PICK r : Runs(n - 1, r)
    BY <1>3
  <2>2. n \in Nat /\ n # 0 /\ n - 1 \in 0..n /\ n - 1 \in 0..(n - 1) /\ 0 \in 0..(n - 1)
        /\ (\A k \in 0..(n - 1) : k \in 0..n /\ k # n /\ (k # 0 => k - 1 \in 0..(n - 1)))
        /\ \A k \in 0..n : k = n \/ k \in 0..(n - 1)
    BY <1>3
  <2> DEFINE f == [k \in 0..n |-> IF k = n THEN Op(r[n - 1], n) ELSE r[k]]
  <2>3. /\ f = [k \in 0..n |-> f[k]] /\ f[n] = Op(r[n - 1], n)
        /\ \A k \in 0..(n - 1) : f[k] = r[k]
    <3>1. n \in 0..n
      BY <2>2
    <3> QED
      BY <2>2, <3>1, Zenon
  <2> HIDE DEF f
  <2>4. \A k \in 0..(n - 1) : r[k] = IF k = 0 THEN base ELSE Op(r[k - 1], k)
    BY <2>1, Zenon DEF base
  <2>5. \A k \in 0..n : f[k] = IF k = 0 THEN base ELSE Op(f[k - 1], k)
    <3>1. f[n] = Op(f[n - 1], n)
      BY <2>2, <2>3, Zenon
    <3>2. \A k \in 0..(n - 1) : f[k] = IF k = 0 THEN base ELSE Op(f[k - 1], k)
      <4> TAKE k \in 0..(n - 1)
      <4>1. CASE k = 0
        BY <2>3, <2>4, <4>1, Zenon
      <4>2. CASE k # 0
        <5>1. k - 1 \in 0..(n - 1) /\ f[k - 1] = r[k - 1]
          BY <2>2, <2>3, <4>2, Zenon
        <5> QED
          BY <2>3, <2>4, <4>2, <5>1, Zenon
      <4> QED
        BY <4>1, <4>2, Zenon
    <3> QED
      BY <2>2, <3>1, <3>2, Zenon
  <2>6. Runs(n, f)
    BY <2>3, <2>5, Zenon DEF base
  <2> HIDE DEF Runs
  <2> QED
    BY <2>2, <2>6, Zenon
<1>4. N \in Nat /\ 0 \in 0..N /\ \A k \in 1..N : k \in 0..N /\ k # 0
  OBVIOUS
<1> HIDE DEF T
<1>5. N \in T
  BY <1>2, <1>3, <1>4, AllReached, Zenon
<1>6. Runs(N, F)
  <2> HIDE DEF Runs
  <2>1. \E f : Runs(N, f)
    BY <1>5, Zenon DEF T
  <2> QED
    BY <2>1, Zenon
<1> HIDE DEF F, N
<1>7. F[0] = base /\ \A k \in 1..N : F[k] = Op(F[k - 1], k)
  BY <1>4, <1>6, Zenon DEF base
<1>8. MergeGroupRun(F, groups, part)
  BY <1>1, <1>7, Zenon DEF Op, base, N, MergeGroupRun
<1> QED
  BY <1>8, Zenon

\* Table h is g with an entry for the key.
Entered(h, g, key, N) ==
    /\ IsGroups(h) /\ \A j \in 1..Len(g) : j \in 1..Len(h) /\ h[j] = g[j]
    /\ (\E j \in 1..Len(g) : g[j].key = key) => Len(h) = Len(g)
    /\ (\A j \in 1..Len(g) : g[j].key # key) =>
         Len(h) = Len(g) + 1 /\ h[Len(h)] = [key |-> key, aggs |-> [i \in 1..N |-> EmptyAgg]]
\* Table x is h with the rows of A in the group of the key, which had those of R.
Touched(x, h, R, key, A) ==
    /\ IsGroups(x) /\ Len(x) = Len(h)
    /\ \A j \in 1..Len(h) : /\ x[j].key = h[j].key
                            /\ h[j].key # key => x[j].aggs = h[j].aggs
                            /\ h[j].key = key /\ GroupAggsOf(h[j].aggs, R) => GroupAggsOf(x[j].aggs, R \cup A)

(* The entry is there or at the end. *)
LEMMA EntryIs ==
  ASSUME NEW g, IsGroups(g), NEW key, NEW N
  PROVE  Entered(GroupEntry(g, key, N), g, key, N)
<1> DEFINE n == Len(g)
           e == [key |-> key, aggs |-> [i \in 1..N |-> EmptyAgg]]
           h == GroupEntry(g, key, N)
<1>1. n \in Nat /\ g = [j \in 1..n |-> g[j]] /\ \A j \in 1..n : g[j] = [key |-> g[j].key, aggs |-> g[j].aggs]
  BY Zenon DEF IsGroups
<1>2. DOMAIN g = 1..n
  BY <1>1
<1>3. CASE \E j \in 1..n : g[j].key = key
  <2>1. h = g
    BY <1>2, <1>3, Zenon DEF GroupEntry
  <2> HIDE DEF h
  <2> QED
    BY <1>3, <2>1, Zenon DEF Entered, h
<1>4. CASE \A j \in 1..n : g[j].key # key
  <2>1. h = Append(g, e)
    BY <1>2, <1>4, Zenon DEF GroupEntry
  <2> DEFINE V == {g[j] : j \in 1..n} \cup {e}
  <2>2. e \in V /\ \A j \in 1..n : g[j] \in V
    OBVIOUS
  <2>e. e = [key |-> e.key, aggs |-> e.aggs]
    OBVIOUS
  <2> HIDE DEF V, e, h
  <2>3. g \in [1..n -> V]
    BY <1>1, <2>2
  <2>4. g \in Seq(V) /\ Len(g) = n
    BY <1>1, <2>3, SequenceOf, Zenon
  <2>5. h \in Seq(V) /\ Len(h) = n + 1 /\ h[n + 1] = e /\ \A j \in 1..n : h[j] = g[j]
    BY <2>1, <2>2, <2>4 DEF n
  <2>6. h \in [1..(n + 1) -> V]
    BY <2>5, ElementsOf
  <2>7. h = [j \in 1..(n + 1) |-> h[j]]
    BY <2>6
  <2>8. n + 1 \in Nat /\ \A j \in 1..(n + 1) : j = n + 1 \/ j \in 1..n
    BY <1>1
  <2>a. \A j \in 1..n : j \in 1..(n + 1)
    BY <1>1
  <2>9. \A j \in 1..(n + 1) : h[j] = [key |-> h[j].key, aggs |-> h[j].aggs]
    BY <1>1, <2>5, <2>8, <2>e, Zenon
  <2>10. IsGroups(h)
    BY <2>5, <2>7, <2>8, <2>9, Zenon DEF IsGroups
  <2> HIDE DEF n
  <2> QED
    BY <1>4, <2>5, <2>10, <2>a, Zenon DEF Entered, h, n, e
<1> QED
  BY <1>3, <1>4, Zenon

(* Taking rows is entering the key and touching its group. *)
LEMMA TouchSteps ==
  ASSUME AnswerableTable(table), NEW S, NEW key, NEW A, Added(S, key, A), NEW g, GroupsOf(g, S), NEW h, Entered(h, g, key, Len(query.groupAggs)),
         NEW x, Touched(x, h, InGroup(S, key), key, A)
  PROVE  GroupStep(x, g, S, key, A)
<1> DEFINE n == Len(g)
           m == Len(h)
           R == InGroup(S, key)
           none == {}
<1>1. /\ IsGroups(h) /\ \A j \in 1..n : j \in 1..m /\ h[j] = g[j]
      /\ (\E j \in 1..n : g[j].key = key) => m = n
      /\ (\A j \in 1..n : g[j].key # key) =>
           m = n + 1 /\ h[m] = [key |-> key, aggs |-> [i \in 1..Len(query.groupAggs) |-> EmptyAgg]]
  BY Zenon DEF Entered
<1>2. /\ IsGroups(x) /\ Len(x) = m
      /\ \A j \in 1..m : /\ x[j].key = h[j].key
                         /\ h[j].key # key => x[j].aggs = h[j].aggs
                         /\ h[j].key = key /\ GroupAggsOf(h[j].aggs, R) => GroupAggsOf(x[j].aggs, R \cup A)
  BY Zenon DEF Touched
<1>3. \A j \in 1..n : GroupAggsOf(g[j].aggs, InGroup(S, g[j].key))
  BY Zenon DEF GroupsOf
<1>4. n \in Nat /\ m \in Nat
  BY Zenon DEF GroupsOf, IsGroups, Entered
<1>5. ASSUME \A j \in 1..n : g[j].key # key
      PROVE  m = n + 1 /\ x[m].key = key /\ GroupAggsOf(x[m].aggs, A)
  <2> DEFINE e == [i \in 1..Len(query.groupAggs) |-> EmptyAgg]
  <2>1. m = n + 1 /\ h[m] = [key |-> key, aggs |-> e]
    BY <1>1, <1>5
  <2>2. m \in 1..m
    BY <1>4, <2>1
  <2>3. R = none
    <3> SUFFICES ASSUME NEW r \in R
                 PROVE  FALSE
      BY Zenon
    <3>1. \A r2 \in S : Cell(r2, "k") # Null => \E j \in 1..n : g[j].key = Cell(r2, "k")
      BY Zenon DEF GroupsOf
    <3>2. key # Null
      BY Zenon DEF Added
    <3>3. r \in S /\ Cell(r, "k") = key
      BY Zenon DEF InGroup
    <3> QED
      BY <1>5, <3>1, <3>2, <3>3, Zenon
  <2>4. GroupAggsOf(e, none)
    <3>1. \A i \in 1..Len(query.groupAggs) : AggOf(query.groupAggs[i], EmptyAgg, none)
      BY NoRows, Zenon
    <3>2. e = [i \in 1..Len(query.groupAggs) |-> e[i]] /\ \A i \in 1..Len(query.groupAggs) : e[i] = EmptyAgg
      OBVIOUS
    <3> HIDE DEF e, none
    <3> QED
      BY <3>1, <3>2, Zenon DEF GroupAggsOf
  <2> HIDE DEF e
  <2>5. h[m].key = key /\ h[m].aggs = e
    BY <2>1
  <2>6. GroupAggsOf(x[m].aggs, R \cup A) /\ x[m].key = key
    BY <1>2, <2>2, <2>3, <2>4, <2>5, Zenon
  <2>7. R \cup A = A
    BY <2>3
  <2> HIDE DEF m, R
  <2> QED
    BY <2>1, <2>6, <2>7
<1>6. \A j \in 1..n : /\ j \in 1..Len(x) /\ x[j].key = g[j].key
                      /\ g[j].key # key => x[j].aggs = g[j].aggs
                      /\ g[j].key = key => GroupAggsOf(x[j].aggs, R \cup A)
  BY <1>1, <1>2, <1>3, Zenon
<1> QED
  BY <1>1, <1>2, <1>5, <1>6, Zenon DEF GroupStep

(* The kinds of a query's group aggregates. *)
LEMMA GroupKinds ==
  ASSUME AnswerableQuery(query)
  PROVE  Len(query.groupAggs) \in Nat /\ \A i \in 1..Len(query.groupAggs) : query.groupAggs[i] \in AggKinds
<1>1. query.groupAggs \in Seq(AggKinds)
  BY Zenon DEF AnswerableQuery
<1> QED
  BY <1>1

(* One aggregate after one row more: process_row. *)
LEMMA RowAdds ==
  ASSUME AnswerableTable(table), NEW kind \in AggKinds, NEW R \in SUBSET AllRows, NEW r \in AllRows, r \notin R,
         NEW s, AggOf(kind, s, R)
  PROVE  AggOf(kind, CASE kind = "count_star" -> [s EXCEPT !.count = @ + 1]
                       [] kind # "count_star" /\ Cell(r, "v") = Null -> s
                       [] kind = "count" /\ Cell(r, "v") # Null -> [s EXCEPT !.count = @ + 1]
                       [] OTHER -> UpdateAgg(s, Cell(r, "v")), R \cup {r})
<1> DEFINE x == Cell(r, "v")
           one == [s EXCEPT !.count = @ + 1]
           u == CASE kind = "count_star" -> one
                  [] kind # "count_star" /\ x = Null -> s
                  [] kind = "count" /\ x # Null -> one
                  [] OTHER -> UpdateAgg(s, x)
<1>1. {r} \in SUBSET AllRows /\ R \cap {r} = {} /\ Cardinality({r}) = 1
  BY FS_Singleton
<1>2. CASE kind = "count_star"
  <2>1. u = one
    BY <1>2
  <2>2. one = [s EXCEPT !.count = @ + Cardinality({r})]
    BY <1>1
  <2> HIDE DEF one, u
  <2>3. AggOf("count_star", one, R \cup {r})
    BY <1>1, <1>2, <2>2, StarMore, Zenon
  <2> QED
    BY <1>2, <2>1, <2>3 DEF u, one, x
<1>3. CASE kind # "count_star" /\ x = Null
  <2>1. u = s
    BY <1>3
  <2> HIDE DEF u, one
  <2>2. AggOf(kind, s, R \cup {r})
    BY <1>3, OneNull, Zenon DEF x
  <2> QED
    BY <2>1, <2>2 DEF u, one, x
<1>4. CASE kind # "count_star" /\ x # Null
  <2>1. r \in Valued
    BY <1>4 DEF Valued, x
  <2>2. CASE kind = "count"
    <3>1. u = one
      BY <1>4, <2>2
    <3> DEFINE t == [count |-> 1, sum |-> 0, min |-> 0, max |-> 0]
    <3>2. t \in AggState /\ t.count = 1
      BY DEF AggState
    <3>3. s \in AggState
      BY Zenon DEF AggOf
    <3>4. one \in AggState /\ one.count = s.count + t.count
      BY <3>3 DEF AggState
    <3> HIDE DEF t
    <3>5. AggOf(kind, t, {r})
      BY <2>1, <2>2, <3>2, OneValue
    <3>6. kind \notin {"sum", "avg"} /\ kind # "min" /\ kind # "max"
      BY <2>2
    <3> HIDE DEF one, u
    <3>7. AggOf(kind, one, R \cup {r})
      BY <1>1, <3>4, <3>5, <3>6, Joined, Zenon
    <3> QED
      BY <3>1, <3>7 DEF u, one, x
  <2>3. CASE kind # "count"
    <3>1. u = UpdateAgg(s, x)
      BY <1>4, <2>3
    <3> HIDE DEF u, one
    <3>2. AggOf(kind, UpdateAgg(s, x), R \cup {r})
      BY <1>4, <2>1, UpdateJoins, Zenon DEF x
    <3> QED
      BY <3>1, <3>2 DEF u, one, x
  <2> QED
    BY <2>2, <2>3
<1> QED
  BY <1>2, <1>3, <1>4

(* All of them. *)
LEMMA GroupRowAdds ==
  ASSUME AnswerableTable(table), AnswerableQuery(query), NEW R \in SUBSET AllRows, NEW r \in AllRows, r \notin R,
         NEW a, GroupAggsOf(a, R)
  PROVE  GroupAggsOf(GroupRow(a, query, Cell(r, "v")), R \cup {r})
<1> DEFINE N == Len(query.groupAggs)
           x == Cell(r, "v")
           U(i) == CASE query.groupAggs[i] = "count_star" -> [a[i] EXCEPT !.count = @ + 1]
                     [] query.groupAggs[i] # "count_star" /\ x = Null -> a[i]
                     [] query.groupAggs[i] = "count" /\ x # Null -> [a[i] EXCEPT !.count = @ + 1]
                     [] OTHER -> UpdateAgg(a[i], x)
           u == GroupRow(a, query, x)
<1>1. a = [i \in 1..N |-> a[i]] /\ \A i \in 1..N : AggOf(query.groupAggs[i], a[i], R)
  BY Zenon DEF GroupAggsOf
<1>2. DOMAIN a = 1..N
  BY <1>1
<1>3. u = [i \in 1..N |-> U(i)]
  BY <1>2, Zenon DEF GroupRow
<1>4. \A i \in 1..N : AggOf(query.groupAggs[i], U(i), R \cup {r})
  BY <1>1, RowAdds, GroupKinds, Zenon
<1> HIDE DEF U, u
<1>5. u = [i \in 1..N |-> u[i]] /\ \A i \in 1..N : u[i] = U(i)
  BY <1>3
<1>6. GroupAggsOf(u, R \cup {r})
  BY <1>4, <1>5, Zenon DEF GroupAggsOf
<1> QED
  BY <1>6 DEF u, x

(* One aggregate of a group record, added to that of the group. *)
LEMMA StatAdds ==
  ASSUME AnswerableTable(table), NEW kind \in AggKinds, NEW R \in SUBSET AllRows, NEW B \in SUBSET AllRows, R \cap B = {},
         NEW t, AggOf(kind, t, R), NEW s, AggOf(kind, s, B)
  PROVE  AggOf(kind, MergeStatByKind(t, GroupStats(s, kind), kind), R \cup B)
<1> DEFINE a == [kind |-> kind, off |-> 0]
           r == CopyAgg(s, a)
           u == IF a.kind \in Counting THEN [t EXCEPT !.count = @ + r.count]
                ELSE IF r.count = 0 THEN [t EXCEPT !.sum = @ + r.sum]
                ELSE [count |-> t.count + r.count, sum |-> t.sum + r.sum - a.off * r.count,
                      min |-> IF t.count = 0 THEN r.min - a.off ELSE Smaller(t.min, r.min - a.off),
                      max |-> IF t.count = 0 THEN r.max - a.off ELSE Larger(t.max, r.max - a.off)]
<1>1. s \in AggState /\ t \in AggState
  BY Zenon DEF AggOf
<1>2. r = GroupStats(s, kind)
  BY <1>1 DEF CopyAgg, GroupStats, AggState
<1>3. a \in [kind : AggKinds, off : Int] /\ a.kind = kind /\ a.off = 0
  OBVIOUS
<1>4. r.count \in Int /\ r.sum \in Int /\ r.min \in Int /\ r.max \in Int
  BY <1>1, <1>2 DEF GroupStats, AggState
<1> HIDE DEF a, r
<1>5. u = MergeStatByKind(t, r, kind)
  BY <1>3, <1>4, <1>1 DEF MergeStatByKind, AggState
<1> HIDE DEF u
<1>6. AggOf(a.kind, u, R \cup B)
  BY <1>3, MergedCopy, Zenon DEF r, u
<1> QED
  BY <1>2, <1>3, <1>5, <1>6

\* The aggregates of a group's record, and those of a group with a record's added.
StatsOf(c, b) == \A i \in 1..Len(query.groupAggs) : c[i] = GroupStats(b[i], query.groupAggs[i])
StatsMerged(a, c) == [i \in DOMAIN a |-> MergeStatByKind(a[i], c[i], query.groupAggs[i])]
(* All of them. *)
LEMMA GroupStatsAdd ==
  ASSUME AnswerableTable(table), AnswerableQuery(query), NEW R \in SUBSET AllRows, NEW B \in SUBSET AllRows, R \cap B = {},
         NEW a, GroupAggsOf(a, R), NEW b, GroupAggsOf(b, B), NEW c, StatsOf(c, b)
  PROVE  GroupAggsOf(StatsMerged(a, c), R \cup B)
<1> DEFINE N == Len(query.groupAggs)
           u == StatsMerged(a, c)
<1>1. /\ a = [i \in 1..N |-> a[i]] /\ \A i \in 1..N : AggOf(query.groupAggs[i], a[i], R)
      /\ \A i \in 1..N : AggOf(query.groupAggs[i], b[i], B)
  BY Zenon DEF GroupAggsOf
<1>2. DOMAIN a = 1..N
  BY <1>1
<1>3. u = [i \in 1..N |-> u[i]] /\ \A i \in 1..N : u[i] = MergeStatByKind(a[i], c[i], query.groupAggs[i])
  BY <1>2 DEF StatsMerged
<1>c. \A i \in 1..N : c[i] = GroupStats(b[i], query.groupAggs[i])
  BY Zenon DEF StatsOf
<1>4. \A i \in 1..N : AggOf(query.groupAggs[i], MergeStatByKind(a[i], GroupStats(b[i], query.groupAggs[i]), query.groupAggs[i]), R \cup B)
  BY <1>1, StatAdds, GroupKinds, Zenon
<1> HIDE DEF u
<1>5. GroupAggsOf(u, R \cup B)
  BY <1>3, <1>4, <1>c, Zenon DEF GroupAggsOf
<1> QED
  BY <1>5 DEF u

(* A row adds to its group what process_row adds. *)
LEMMA RowGroupAdds ==
  ASSUME AnswerableTable(table), AnswerableQuery(query), NEW S, NEW r, Added(S, Cell(r, "k"), {r}),
         NEW chunk, NEW i, chunk["k"][i] = Cell(r, "k"), chunk["v"][i] = Cell(r, "v"), NEW g, GroupsOf(g, S)
  PROVE  GroupsOf(RowGroup(g, query, chunk, i), S \cup {r})
<1> DEFINE key == Cell(r, "k")
           N == Len(query.groupAggs)
           h == GroupEntry(g, key, N)
           x == RowGroup(g, query, chunk, i)
           R == InGroup(S, key)
           A == {r}
<1>1. Entered(h, g, key, N)
  <2>1. IsGroups(g)
    BY Zenon DEF GroupsOf
  <2> QED
    BY <2>1, EntryIs, Zenon
<1>2. /\ IsGroups(h) /\ Len(h) \in Nat /\ DOMAIN h = 1..Len(h)
      /\ \A j \in 1..Len(h) : h[j] = [key |-> h[j].key, aggs |-> h[j].aggs]
  <2>1. IsGroups(h)
    BY <1>1, Zenon DEF Entered
  <2> HIDE DEF h
  <2>2. Len(h) \in Nat /\ h = [j \in 1..Len(h) |-> h[j]] /\ \A j \in 1..Len(h) : h[j] = [key |-> h[j].key, aggs |-> h[j].aggs]
    BY <2>1, Zenon DEF IsGroups
  <2> QED
    BY <2>1, <2>2
<1> DEFINE F(j) == IF h[j].key = key THEN [h[j] EXCEPT !.aggs = GroupRow(@, query, Cell(r, "v"))] ELSE h[j]
<1>3. x = [j \in DOMAIN h |-> F(j)]
  BY Zenon DEF RowGroup, OnGroup
<1> HIDE DEF h, x
<1>4. \A j \in 1..Len(h) : F(j) = [key |-> h[j].key, aggs |-> IF h[j].key = key THEN GroupRow(h[j].aggs, query, Cell(r, "v")) ELSE h[j].aggs]
  <2> TAKE j \in 1..Len(h)
  <2>1. h[j] = [key |-> h[j].key, aggs |-> h[j].aggs]
    BY <1>2, Zenon
  <2> QED
    BY <2>1
<1> HIDE DEF F
<1>5. x = [j \in 1..Len(h) |-> F(j)]
  BY <1>2, <1>3
<1>6. x = [j \in 1..Len(h) |-> x[j]] /\ \A j \in 1..Len(h) : x[j] = F(j)
  BY <1>5
<1>7. Len(x) = Len(h)
  <2>1. DOMAIN x = 1..Len(h)
    BY <1>5
  <2> QED
    BY <1>2, <2>1
<1>8. \A j \in 1..Len(h) : /\ x[j] = [key |-> x[j].key, aggs |-> x[j].aggs] /\ x[j].key = h[j].key
                           /\ x[j].aggs = IF h[j].key = key THEN GroupRow(h[j].aggs, query, Cell(r, "v")) ELSE h[j].aggs
  <2> TAKE j \in 1..Len(h)
  <2>1. x[j] = [key |-> h[j].key, aggs |-> IF h[j].key = key THEN GroupRow(h[j].aggs, query, Cell(r, "v")) ELSE h[j].aggs]
    BY <1>4, <1>6, Zenon
  <2> QED
    BY <2>1
<1>9. IsGroups(x)
  BY <1>2, <1>6, <1>7, <1>8, Zenon DEF IsGroups
<1>10. \A a : GroupAggsOf(a, R) => GroupAggsOf(GroupRow(a, query, Cell(r, "v")), R \cup A)
  <2>1. r \in AllRows /\ R \in SUBSET AllRows /\ r \notin R
    BY DEF Added, InGroup
  <2> QED
    BY <2>1, GroupRowAdds, Zenon
<1>11. Touched(x, h, R, key, A)
  <2> HIDE DEF R, A, key
  <2> QED
    BY <1>7, <1>8, <1>9, <1>10, Zenon DEF Touched
<1> HIDE DEF x
<1>12. GroupStep(x, g, S, key, A)
  BY <1>1, <1>11, TouchSteps, Zenon DEF h
<1> QED
  BY <1>12, GroupsGrow, Zenon DEF x

\* Table x is h with a record merged into the group of its key.
RecordMerged(x, h, q, rec) ==
    /\ IsGroups(x) /\ Len(x) = Len(h)
    /\ \A j \in 1..Len(h) :
         /\ x[j].key = h[j].key
         /\ x[j].aggs = IF h[j].key = rec.key THEN [i \in DOMAIN h[j].aggs |-> MergeStatByKind(h[j].aggs[i], rec.aggs[i], q.groupAggs[i])]
                        ELSE h[j].aggs

(* Merging a record keeps a group table one. *)
LEMMA MergeGroupIs ==
  ASSUME NEW g, IsGroups(g), NEW q, NEW rec
  PROVE  RecordMerged(MergeGroup(g, q, rec), GroupEntry(g, rec.key, Len(q.groupAggs)), q, rec)
<1> DEFINE key == rec.key
           N == Len(q.groupAggs)
           h == GroupEntry(g, key, N)
           x == MergeGroup(g, q, rec)
           U(a) == [i \in DOMAIN a |-> MergeStatByKind(a[i], rec.aggs[i], q.groupAggs[i])]
<1>1. Entered(h, g, key, N)
  BY EntryIs, Zenon
<1>2. /\ IsGroups(h) /\ Len(h) \in Nat /\ DOMAIN h = 1..Len(h)
      /\ \A j \in 1..Len(h) : h[j] = [key |-> h[j].key, aggs |-> h[j].aggs]
  <2>1. IsGroups(h)
    BY <1>1, Zenon DEF Entered
  <2> HIDE DEF h
  <2>2. Len(h) \in Nat /\ h = [j \in 1..Len(h) |-> h[j]] /\ \A j \in 1..Len(h) : h[j] = [key |-> h[j].key, aggs |-> h[j].aggs]
    BY <2>1, Zenon DEF IsGroups
  <2> QED
    BY <2>1, <2>2
<1> DEFINE F(j) == IF h[j].key = key THEN [h[j] EXCEPT !.aggs = U(@)] ELSE h[j]
<1>3. x = [j \in DOMAIN h |-> F(j)]
  BY Zenon DEF MergeGroup, OnGroup
<1> HIDE DEF h, x, U
<1>4. \A j \in 1..Len(h) : F(j) = [key |-> h[j].key, aggs |-> IF h[j].key = key THEN U(h[j].aggs) ELSE h[j].aggs]
  <2> TAKE j \in 1..Len(h)
  <2>1. h[j] = [key |-> h[j].key, aggs |-> h[j].aggs]
    BY <1>2, Zenon
  <2> QED
    BY <2>1
<1> HIDE DEF F
<1>5. x = [j \in 1..Len(h) |-> F(j)]
  BY <1>2, <1>3
<1>6. x = [j \in 1..Len(h) |-> x[j]] /\ \A j \in 1..Len(h) : x[j] = F(j)
  BY <1>5
<1>7. Len(x) = Len(h)
  <2>1. DOMAIN x = 1..Len(h)
    BY <1>5
  <2> QED
    BY <1>2, <2>1
<1>8. \A j \in 1..Len(h) : /\ x[j] = [key |-> x[j].key, aggs |-> x[j].aggs] /\ x[j].key = h[j].key
                           /\ x[j].aggs = IF h[j].key = key THEN U(h[j].aggs) ELSE h[j].aggs
  <2> TAKE j \in 1..Len(h)
  <2>1. x[j] = [key |-> h[j].key, aggs |-> IF h[j].key = key THEN U(h[j].aggs) ELSE h[j].aggs]
    BY <1>4, <1>6, Zenon
  <2> QED
    BY <2>1
<1>9. IsGroups(x)
  BY <1>2, <1>6, <1>7, <1>8, Zenon DEF IsGroups
<1>10. RecordMerged(x, h, q, rec)
  BY <1>7, <1>8, <1>9, Zenon DEF RecordMerged, U
<1> QED
  BY <1>10, Zenon DEF x, h

\* What copy_groups says of a group with the rows of B.
RecordOf(rec, key, B) ==
    /\ rec.key = key
    /\ \E b : /\ GroupAggsOf(b, B)
              /\ \A i \in 1..Len(query.groupAggs) : rec.aggs[i] = GroupStats(b[i], query.groupAggs[i])

(* A record adds the rows it stands for to its group. *)
LEMMA MergeGroupAdds ==
  ASSUME AnswerableTable(table), AnswerableQuery(query), NEW S, NEW key, NEW B, Added(S, key, B),
         NEW rec, RecordOf(rec, key, B), NEW g, GroupsOf(g, S)
  PROVE  GroupsOf(MergeGroup(g, query, rec), S \cup B)
<1> DEFINE N == Len(query.groupAggs)
           h == GroupEntry(g, key, N)
           x == MergeGroup(g, query, rec)
           R == InGroup(S, key)
<1>0. rec.key = key
  BY Zenon DEF RecordOf
<1>1. Entered(h, g, key, N) /\ IsGroups(g)
  <2>1. IsGroups(g)
    BY Zenon DEF GroupsOf
  <2> QED
    BY <2>1, EntryIs, Zenon
<1>2. PICK b : GroupAggsOf(b, B) /\ \A i \in 1..N : rec.aggs[i] = GroupStats(b[i], query.groupAggs[i])
  BY Zenon DEF RecordOf
<1>m. RecordMerged(x, h, query, rec)
  BY <1>0, <1>1, MergeGroupIs, Zenon
<1>3. /\ IsGroups(x) /\ Len(x) = Len(h)
      /\ \A j \in 1..Len(h) :
           /\ x[j].key = h[j].key
           /\ x[j].aggs = IF h[j].key = key THEN [i \in DOMAIN h[j].aggs |-> MergeStatByKind(h[j].aggs[i], rec.aggs[i], query.groupAggs[i])]
                          ELSE h[j].aggs
  BY <1>0, <1>m, Zenon DEF RecordMerged
<1>4. \A a : GroupAggsOf(a, R) => GroupAggsOf([i \in DOMAIN a |-> MergeStatByKind(a[i], rec.aggs[i], query.groupAggs[i])], R \cup B)
  <2>1. B \in SUBSET AllRows /\ R \in SUBSET AllRows /\ R \cap B = {}
    BY DEF Added, InGroup
  <2> QED
    <3> SUFFICES ASSUME NEW a, GroupAggsOf(a, R)
                 PROVE  GroupAggsOf([i \in DOMAIN a |-> MergeStatByKind(a[i], rec.aggs[i], query.groupAggs[i])], R \cup B)
      BY Zenon
    <3> HIDE DEF R
    <3>1. GroupAggsOf(b, B) /\ StatsOf(rec.aggs, b)
      BY <1>2, Zenon DEF StatsOf
    <3>2. GroupAggsOf(StatsMerged(a, rec.aggs), R \cup B)
      BY <2>1, <3>1, GroupStatsAdd, Zenon
    <3> QED
      BY <3>2, Zenon DEF StatsMerged
<1> HIDE DEF h, x, R
<1>5. Touched(x, h, R, key, B)
  BY <1>3, <1>4, Zenon DEF Touched
<1>6. GroupStep(x, g, S, key, B)
  BY <1>1, <1>5, TouchSteps, Zenon DEF h, R
<1> QED
  BY <1>6, GroupsGrow, Zenon DEF x

\* The rows of a mask, from the first.
MaskIds(c, m) ==
    LET s == Ascending(m)
    IN  /\ Len(s) \in Nat /\ \A j \in 1..Len(s) : s[j] \in m /\ RowId(c, s[j]) \in RowsOf(c, m)
        /\ \A i, j \in 1..Len(s) : i < j => RowId(c, s[i]) < RowId(c, s[j])
        /\ \A e \in RowsOf(c, m) : \E j \in 1..Len(s) : RowId(c, s[j]) = e

(* The rows of a mask, in the order of their places. *)
LEMMA MaskIdsAre ==
  ASSUME AnswerableTable(table), NEW c \in Chunks, NEW m \in SUBSET DOMAIN table[c]["k"]
  PROVE  MaskIds(c, m)
<1> DEFINE s == Ascending(m)
           k == Len(s)
<1>1. m \in SUBSET Int /\ IsFiniteSet(m)
  BY MaskRows, Zenon
<1>2. /\ k \in Nat /\ s \in [1..k -> m]
      /\ \A i, j \in 1..k : s[i] < s[j] <=> i < j
      /\ \A x \in m : \E i \in 1..k : s[i] = x
  <2>1. Len(s) = Cardinality(m)
    BY <1>1, AscendingIs, Zenon
  <2>2. /\ Cardinality(m) \in Nat /\ s \in [1..Cardinality(m) -> m]
        /\ \A i, j \in 1..Cardinality(m) : s[i] < s[j] <=> i < j
        /\ \A x \in m : \E i \in 1..Cardinality(m) : s[i] = x
    BY <1>1, AscendingIs, Zenon
  <2> HIDE DEF s
  <2> QED
    BY <2>1, <2>2
<1> HIDE DEF s, k
<1>3. \A j \in 1..k : s[j] \in m
  BY <1>2
<1>4. \A j \in 1..k : RowId(c, s[j]) \in RowsOf(c, m)
  BY <1>3, Zenon DEF RowsOf
<1>5. \A i, j \in 1..k : i < j => RowId(c, s[i]) < RowId(c, s[j])
  <2> SUFFICES ASSUME NEW i \in 1..k, NEW j \in 1..k, i < j
               PROVE  RowId(c, s[i]) < RowId(c, s[j])
    BY Zenon
  <2>1. s[i] \in Int /\ s[j] \in Int /\ s[i] < s[j] /\ c \in Int
    <3>1. c \in Int
      BY ChunksAre
    <3>3. \A x \in m : x \in Int
      BY <1>1
    <3>2. s[i] \in m /\ s[j] \in m /\ s[i] < s[j]
      BY <1>2, <1>3, Zenon
    <3> QED
      BY <3>1, <3>2, <3>3, Zenon
  <2> QED
    BY <2>1, RowsAssumption DEF RowId
<1>6. \A e \in RowsOf(c, m) : \E j \in 1..k : RowId(c, s[j]) = e
  BY <1>2, Zenon DEF RowsOf
<1> QED
  BY <1>2, <1>3, <1>4, <1>5, <1>6, Zenon DEF MaskIds, s, k

(* Rows without a key are in no group. *)
LEMMA GroupsSame ==
  ASSUME NEW S, NEW U, S \subseteq U, \A r \in U : r \in S \/ Cell(r, "k") = Null, NEW g, GroupsOf(g, S)
  PROVE  GroupsOf(g, U)
<1>1. \A key : key # Null => InGroup(U, key) = InGroup(S, key)
  BY DEF InGroup
<1>2. /\ IsGroups(g)
      /\ \A j \in 1..Len(g) : g[j].key # Null /\ InGroup(S, g[j].key) # {} /\ GroupAggsOf(g[j].aggs, InGroup(S, g[j].key))
      /\ \A r \in S : Cell(r, "k") # Null => \E j \in 1..Len(g) : g[j].key = Cell(r, "k")
      /\ \A i, j \in 1..Len(g) : i < j => g[i].key # g[j].key /\ SeenFirst(S, g[i].key, g[j].key)
  BY Zenon DEF GroupsOf
<1>3. \A j \in 1..Len(g) : g[j].key # Null /\ InGroup(U, g[j].key) # {} /\ GroupAggsOf(g[j].aggs, InGroup(U, g[j].key))
  BY <1>1, <1>2, Zenon
<1>4. \A r \in U : Cell(r, "k") # Null => \E j \in 1..Len(g) : g[j].key = Cell(r, "k")
  BY <1>2, Zenon
<1>5. \A i, j \in 1..Len(g) : i < j => g[i].key # g[j].key /\ SeenFirst(U, g[i].key, g[j].key)
  <2>1. \A a, b : a # Null /\ b # Null /\ SeenFirst(S, a, b) => SeenFirst(U, a, b)
    <3> SUFFICES ASSUME NEW a, NEW b, a # Null, b # Null, SeenFirst(S, a, b)
                 PROVE  SeenFirst(U, a, b)
      BY Zenon
    <3>1. InGroup(U, a) = InGroup(S, a) /\ InGroup(U, b) = InGroup(S, b)
      BY <1>1, Zenon
    <3> QED
      BY <3>1, Zenon DEF SeenFirst
  <2> QED
    BY <1>2, <2>1, Zenon
<1> QED
  BY <1>2, <1>3, <1>4, <1>5, Zenon DEF GroupsOf

(* The group scan of a chunk adds the rows of its mask to their groups. *)
LEMMA ExecGroupsHold ==
  ASSUME AnswerableTable(table), AnswerableQuery(query), NEW c \in Chunks,
         NEW m \in SUBSET DOMAIN table[c]["k"], NEW S \in SUBSET AllRows,
         \A r \in S, e \in RowsOf(c, m) : r < e,
         NEW g, GroupsOf(g, S)
  PROVE  GroupsOf(ExecGroups(g, query, table[c], m), S \cup RowsOf(c, m))
<1> DEFINE chunk == table[c]
           V == ApplyValidity(chunk["k"], m)
           s == Ascending(V)
           N == Len(s)
           Upto(k) == {RowId(c, s[j]) : j \in 1..k}
<1>1. V \in SUBSET DOMAIN chunk["k"] /\ V \in SUBSET m /\ \A i \in V : chunk["k"][i] # Null
  BY DEF ApplyValidity
<1>2. MaskIds(c, V)
  BY <1>1, MaskIdsAre, Zenon
<1>3. /\ N \in Nat /\ \A j \in 1..N : s[j] \in V /\ RowId(c, s[j]) \in RowsOf(c, V)
      /\ \A i, j \in 1..N : i < j => RowId(c, s[i]) < RowId(c, s[j])
      /\ \A e \in RowsOf(c, V) : \E j \in 1..N : RowId(c, s[j]) = e
  BY <1>2, Zenon DEF MaskIds
<1>4. PICK f : ExecGroupRun(f, g, chunk, m)
  <2>1. N \in Nat
    BY <1>3, Zenon
  <2> QED
    BY <2>1, ExecGroupRuns, Zenon
<1>5. /\ f[0] = g
      /\ \A k \in 1..N : f[k] = RowGroup(f[k - 1], query, chunk, s[k])
      /\ ExecGroups(g, query, chunk, m) = f[N]
  BY <1>4, Zenon DEF ExecGroupRun
<1>6. RowsOf(c, V) \in SUBSET AllRows /\ RowsOf(c, V) \in SUBSET RowsOf(c, m) /\ AllRows \in SUBSET Nat
  <2>1. RowsOf(c, V) \in SUBSET AllRows
    BY <1>1, MaskRows, Zenon
  <2>2. RowsOf(c, V) \in SUBSET RowsOf(c, m)
    BY <1>1, Zenon DEF RowsOf
  <2> QED
    BY <2>1, <2>2, RowOrders, Zenon
<1>7. \A j \in 1..N : /\ chunk["k"][s[j]] = Cell(RowId(c, s[j]), "k") /\ chunk["v"][s[j]] = Cell(RowId(c, s[j]), "v")
                      /\ Cell(RowId(c, s[j]), "k") # Null
  <2> TAKE j \in 1..N
  <2>1. s[j] \in V
    BY <1>3, Zenon
  <2> HIDE DEF V, s
  <2>2. s[j] \in DOMAIN table[c]["k"] /\ chunk["k"][s[j]] # Null
    BY <1>1, <2>1, Zenon
  <2>3. \A col : Cell(RowId(c, s[j]), col) = table[c][col][s[j]]
    BY <2>2, RowIdIs, Zenon
  <2> QED
    BY <2>2, <2>3
<1> DEFINE Q == {k \in 0..N : GroupsOf(f[k], S \cup Upto(k))}
<1>8. 0 \in Q
  <2>1. Upto(0) = {}
    BY DEF Upto
  <2>2. S \cup Upto(0) = S
    BY <2>1
  <2>3. 0 \in 0..N
    BY <1>3
  <2> QED
    BY <1>5, <2>2, <2>3, Zenon
<1>9. ASSUME NEW k \in 1..N, k - 1 \in Q
      PROVE  k \in Q
  <2> DEFINE r == RowId(c, s[k])
             T == S \cup Upto(k - 1)
  <2>1. GroupsOf(f[k - 1], T)
    BY <1>9
  <2>2. r \in RowsOf(c, V) /\ r \in AllRows /\ r \in Nat
    BY <1>3, <1>6
  <2>3. \A e \in Upto(k - 1) : e \in AllRows /\ e < r
    <3> TAKE e \in Upto(k - 1)
    <3>1. PICK j \in 1..(k - 1) : e = RowId(c, s[j])
      BY DEF Upto
    <3>2. j \in 1..N /\ j < k
      BY <1>3
    <3> QED
      BY <1>3, <1>6, <3>1, <3>2, Zenon
  <2>4. \A e \in S : e < r
    BY <1>6, <2>2, Zenon
  <2>5. T \in SUBSET AllRows /\ \A e \in T : e < r
    BY <2>3, <2>4
  <2>6. Added(T, Cell(r, "k"), {r})
    <3>1. r \notin T
      BY <2>2, <2>5
    <3>2. Late(T, {r})
      BY <2>5, Zenon DEF Late, InGroup
    <3>3. Cell(r, "k") # Null
      BY <1>7, Zenon
    <3> QED
      BY <2>2, <2>5, <3>1, <3>2, <3>3 DEF Added
  <2>7. T \cup {r} = S \cup Upto(k)
    <3>1. \A j \in 1..k : j = k \/ j \in 1..(k - 1)
      BY <1>3
    <3>2. k \in 1..k /\ \A j \in 1..(k - 1) : j \in 1..k
      BY <1>3
    <3>3. Upto(k) = Upto(k - 1) \cup {r}
      BY <3>1, <3>2
    <3> QED
      BY <3>3
  <2>8. chunk["k"][s[k]] = Cell(r, "k") /\ chunk["v"][s[k]] = Cell(r, "v")
    BY <1>7, Zenon
  <2>9. k \in 0..N
    BY <1>3
  <2> HIDE DEF T, r, chunk, s, Upto
  <2>10. GroupsOf(RowGroup(f[k - 1], query, chunk, s[k]), T \cup {r})
    BY <2>1, <2>6, <2>8, RowGroupAdds, Zenon
  <2> QED
    BY <1>5, <2>7, <2>9, <2>10, Zenon
<1> HIDE DEF Q
<1>10. N \in Q
  BY <1>3, <1>8, <1>9, AllReached, Zenon
<1>11. GroupsOf(f[N], S \cup Upto(N))
  BY <1>10, Zenon DEF Q
<1>12. Upto(N) = RowsOf(c, V)
  BY <1>3, Zenon DEF Upto
<1>13. \A r \in RowsOf(c, m) : r \in RowsOf(c, V) \/ Cell(r, "k") = Null
  <2> SUFFICES ASSUME NEW i \in m
               PROVE  RowId(c, i) \in RowsOf(c, V) \/ Cell(RowId(c, i), "k") = Null
    BY DEF RowsOf
  <2>1. Cell(RowId(c, i), "k") = table[c]["k"][i]
    <3>1. i \in DOMAIN table[c]["k"]
      OBVIOUS
    <3> QED
      BY <3>1, RowIdIs, Zenon
  <2> QED
    BY <2>1 DEF RowsOf, ApplyValidity
<1> HIDE DEF V, s, Upto
<1>14. S \cup RowsOf(c, V) \subseteq S \cup RowsOf(c, m)
       /\ \A r \in S \cup RowsOf(c, m) : r \in S \cup RowsOf(c, V) \/ Cell(r, "k") = Null
  BY <1>6, <1>13
<1>15. GroupsOf(f[N], S \cup RowsOf(c, V))
  BY <1>11, <1>12
<1>16. GroupsOf(f[N], S \cup RowsOf(c, m))
  BY <1>14, <1>15, GroupsSame, Zenon
<1> QED
  BY <1>5, <1>16, Zenon

\* The records of a partial stand for the groups of w, which are those of T.
RecordsOf(part, w, T) ==
    /\ GroupsOf(w, T) /\ Len(part) = Len(w)
    /\ \A j \in 1..Len(w) : RecordOf(part[j], w[j].key, InGroup(T, w[j].key))

(* The next group of a partial comes after the groups merged before it. *)
LEMMA NextRecord ==
  ASSUME AnswerableTable(table), NEW S \in SUBSET AllRows, NEW T \in SUBSET AllRows, \A r \in S, e \in T : r < e,
         NEW w, GroupsOf(w, T), NEW k \in 1..Len(w), NEW X,
         X = UNION {InGroup(T, w[j].key) : j \in 1..(k - 1)}
  PROVE  Added(S \cup X, w[k].key, InGroup(T, w[k].key))
<1> DEFINE key == w[k].key
           A == InGroup(T, key)
<1>1. /\ \A j \in 1..Len(w) : w[j].key # Null /\ InGroup(T, w[j].key) # {}
      /\ \A i, j \in 1..Len(w) : i < j => w[i].key # w[j].key /\ SeenFirst(T, w[i].key, w[j].key)
  BY Zenon DEF GroupsOf
<1>2. A \in SUBSET T /\ A \in SUBSET AllRows /\ A # {} /\ key # Null /\ \A r \in A : Cell(r, "k") = key
  <2>1. A # {} /\ key # Null
    BY <1>1, Zenon
  <2> QED
    BY <2>1 DEF InGroup
<1>3. Len(w) \in Nat
  BY Zenon DEF GroupsOf, IsGroups
<1>4. \A r \in X : \E j \in 1..(k - 1) : j \in 1..Len(w) /\ j < k /\ r \in T /\ Cell(r, "k") = w[j].key
  <2> SUFFICES ASSUME NEW r \in X
               PROVE  \E j \in 1..(k - 1) : j \in 1..Len(w) /\ j < k /\ r \in T /\ Cell(r, "k") = w[j].key
    BY Zenon
  <2>1. PICK j \in 1..(k - 1) : r \in InGroup(T, w[j].key)
    OBVIOUS
  <2>2. j \in 1..Len(w) /\ j < k
    BY <1>3
  <2> QED
    BY <2>1, <2>2, Zenon DEF InGroup
<1>5. X \in SUBSET AllRows
  BY <1>4
<1>6. (S \cup X) \cap A = {}
  <2> SUFFICES ASSUME NEW r \in A, r \in S \/ r \in X
               PROVE  FALSE
    BY Zenon
  <2>1. CASE r \in S
    <3>1. r \in T /\ r < r
      BY <1>2, <2>1
    <3>2. r \in Nat
      BY <1>2, <3>1, RowOrders
    <3> QED
      BY <3>1, <3>2
  <2>2. CASE r \in X
    <3>1. PICK j \in 1..(k - 1) : j \in 1..Len(w) /\ j < k /\ Cell(r, "k") = w[j].key
      BY <1>4, <2>2, Zenon
    <3> QED
      BY <1>1, <1>2, <3>1, Zenon
  <2> QED
    BY <2>1, <2>2
<1>7. Late(S \cup X, A)
  <2> SUFFICES ASSUME NEW r \in S \cup X, NEW s \in A
               PROVE  \E e \in InGroup(S \cup X, Cell(r, "k")) : e < s
    BY Zenon DEF Late
  <2>1. CASE r \in S
    <3>1. r \in InGroup(S \cup X, Cell(r, "k")) /\ r < s
      BY <1>2, <2>1 DEF InGroup
    <3> QED
      BY <3>1, Zenon
  <2>2. CASE r \in X
    <3>1. PICK j \in 1..(k - 1) : j \in 1..Len(w) /\ j < k /\ Cell(r, "k") = w[j].key
      BY <1>4, <2>2, Zenon
    <3>2. PICK e \in InGroup(T, w[j].key) : e < s
      BY <1>1, <3>1, Zenon DEF SeenFirst
    <3>3. e \in X /\ Cell(e, "k") = w[j].key
      BY <3>1, <3>2 DEF InGroup
    <3>4. e \in InGroup(S \cup X, Cell(r, "k"))
      BY <3>1, <3>3 DEF InGroup
    <3> QED
      BY <3>2, <3>4, Zenon
  <2> QED
    BY <2>1, <2>2
<1>8. S \cup X \in SUBSET AllRows
  BY <1>5
<1> HIDE DEF A
<1>9. Added(S \cup X, key, A)
  BY <1>2, <1>6, <1>7, <1>8, Zenon DEF Added
<1> QED
  BY <1>9 DEF A

(* plan_reducer_merge_groups adds the rows of the partial to their groups. *)
LEMMA MergeGroupsHold ==
  ASSUME AnswerableTable(table), AnswerableQuery(query),
         NEW S \in SUBSET AllRows, NEW T \in SUBSET AllRows, \A r \in S, e \in T : r < e,
         NEW g, GroupsOf(g, S), NEW w, NEW part, RecordsOf(part, w, T)
  PROVE  GroupsOf(MergeGroups(g, query, part), S \cup T)
<1> DEFINE N == Len(part)
           Upto(k) == UNION {InGroup(T, w[j].key) : j \in 1..k}
<1>1. GroupsOf(w, T) /\ N = Len(w) /\ \A j \in 1..N : RecordOf(part[j], w[j].key, InGroup(T, w[j].key))
  BY Zenon DEF RecordsOf
<1>2. N \in Nat
  BY <1>1, Zenon DEF GroupsOf, IsGroups
<1>3. PICK f : MergeGroupRun(f, g, part)
  BY <1>2, MergeGroupRuns, Zenon
<1>4. /\ f[0] = g
      /\ \A k \in 1..N : f[k] = MergeGroup(f[k - 1], query, part[k])
      /\ MergeGroups(g, query, part) = f[N]
  BY <1>3, Zenon DEF MergeGroupRun
<1> DEFINE Q == {k \in 0..N : GroupsOf(f[k], S \cup Upto(k))}
<1>5. 0 \in Q
  <2>1. Upto(0) = {}
    OBVIOUS
  <2>2. S \cup Upto(0) = S
    BY <2>1
  <2>3. 0 \in 0..N
    BY <1>2
  <2> QED
    BY <1>4, <2>2, <2>3, Zenon
<1>6. ASSUME NEW k \in 1..N, k - 1 \in Q
      PROVE  k \in Q
  <2> DEFINE X == Upto(k - 1)
             A == InGroup(T, w[k].key)
  <2>1. GroupsOf(f[k - 1], S \cup X)
    BY <1>6
  <2>2. k \in 1..Len(w) /\ k \in 0..N
    BY <1>1, <1>2
  <2>3. Added(S \cup X, w[k].key, A)
    BY <1>1, <2>2, NextRecord, Zenon
  <2>4. (S \cup X) \cup A = S \cup Upto(k)
    <3>1. /\ k \in 1..k /\ \A j \in 1..(k - 1) : j \in 1..k
          /\ \A j \in 1..k : j = k \/ j \in 1..(k - 1)
      BY <1>2
    <3>2. Upto(k) = X \cup A
      BY <3>1
    <3> QED
      BY <3>2
  <2> HIDE DEF X, A, Upto
  <2>5. GroupsOf(MergeGroup(f[k - 1], query, part[k]), (S \cup X) \cup A)
    <3>1. RecordOf(part[k], w[k].key, A)
      BY <1>1, Zenon DEF A
    <3> QED
      BY <2>1, <2>3, <3>1, MergeGroupAdds, Zenon
  <2> QED
    BY <1>4, <2>2, <2>4, <2>5, Zenon
<1> HIDE DEF Q
<1>7. N \in Q
  BY <1>2, <1>5, <1>6, AllReached, Zenon
<1>8. GroupsOf(f[N], S \cup Upto(N))
  BY <1>7, Zenon DEF Q
<1>9. Upto(N) \subseteq T /\ \A r \in T : r \in Upto(N) \/ Cell(r, "k") = Null
  <2>1. Upto(N) \subseteq T
    BY DEF InGroup
  <2>2. ASSUME NEW r \in T, Cell(r, "k") # Null
        PROVE  r \in Upto(N)
    <3>1. PICK j \in 1..N : w[j].key = Cell(r, "k")
      BY <1>1, <2>2, Zenon DEF GroupsOf
    <3>2. r \in InGroup(T, w[j].key)
      BY <3>1, Zenon DEF InGroup
    <3> QED
      BY <3>1, <3>2
  <2> QED
    BY <2>1, <2>2
<1> HIDE DEF Upto
<1>10. S \cup Upto(N) \subseteq S \cup T /\ \A r \in S \cup T : r \in S \cup Upto(N) \/ Cell(r, "k") = Null
  BY <1>9
<1>11. GroupsOf(f[N], S \cup T)
  BY <1>8, <1>10, GroupsSame, Zenon
<1> QED
  BY <1>4, <1>11, Zenon

(* Whatever the records are, the group table stays one. *)
LEMMA MergeGroupsKeep ==
  ASSUME NEW g, IsGroups(g), NEW part, Len(part) \in Nat
  PROVE  IsGroups(MergeGroups(g, query, part))
<1> DEFINE N == Len(part)
<1>1. PICK f : MergeGroupRun(f, g, part)
  BY MergeGroupRuns, Zenon
<1>2. /\ f[0] = g
      /\ \A k \in 1..N : f[k] = MergeGroup(f[k - 1], query, part[k])
      /\ MergeGroups(g, query, part) = f[N]
  BY <1>1, Zenon DEF MergeGroupRun
<1> DEFINE Q == {k \in 0..N : IsGroups(f[k])}
<1>3. 0 \in Q
  <2>1. 0 \in 0..N
    OBVIOUS
  <2> QED
    BY <1>2, <2>1, Zenon
<1>4. ASSUME NEW k \in 1..N, k - 1 \in Q
      PROVE  k \in Q
  <2>1. k \in 0..N
    OBVIOUS
  <2>2. IsGroups(f[k - 1])
    BY <1>4
  <2>3. IsGroups(MergeGroup(f[k - 1], query, part[k]))
    BY <2>2, MergeGroupIs, Zenon DEF RecordMerged
  <2> QED
    BY <1>2, <2>1, <2>3, Zenon
<1> HIDE DEF Q
<1>5. N \in Q
  BY <1>3, <1>4, AllReached, Zenon
<1> QED
  BY <1>2, <1>5, Zenon DEF Q

\* How much of n elements a window has, and what it has.
WindowLen(n, limit, offset) ==
    LET rest == Larger(n - offset, 0) IN IF limit > 0 THEN Smaller(rest, limit) ELSE rest
WindowOf(w, u, n, limit, offset) ==
    LET m == WindowLen(n, limit, offset)
    IN  m \in Nat /\ Len(w) = m /\ w = [j \in 1..m |-> u[offset + j]] /\ \A j \in 1..m : offset + j \in 1..n

(* group_output_count is the length of what skip(offset).take(limit) leaves. *)
LEMMA WindowIs ==
  ASSUME NEW A, NEW n \in Nat, NEW u \in [1..n -> A], NEW limit \in Nat, NEW offset \in Nat
  PROVE  WindowOf(Window(u, limit, offset), u, n, limit, offset)
<1> DEFINE k == IF limit > 0 THEN Smaller(offset + limit, n) ELSE n
           m == WindowLen(n, limit, offset)
           w == Window(u, limit, offset)
<1>1. u \in Seq(A) /\ Len(u) = n
  BY SequenceOf, Zenon
<1>2. w = SubSeq(u, offset + 1, k)
  BY <1>1, Zenon DEF Window
<1>3. k \in Nat /\ k <= n
  BY DEF Smaller
<1>4. m \in Nat /\ m = IF offset + 1 <= k THEN k - offset ELSE 0
  BY DEF WindowLen, Smaller, Larger
<1> HIDE DEF k, m
<1>5. SubSeq(u, offset + 1, k) = [j \in 1..(k - (offset + 1) + 1) |-> u[offset + 1 + j - 1]]
  BY <1>1, <1>3
<1>6. 1..(k - (offset + 1) + 1) = 1..m
  BY <1>3, <1>4
<1>7. \A j \in 1..m : offset + 1 + j - 1 = offset + j /\ offset + j \in 1..n
  BY <1>3, <1>4
<1> HIDE DEF w
<1>8. w = [j \in 1..m |-> u[offset + j]]
  <2>1. w = [j \in 1..m |-> u[offset + 1 + j - 1]]
    BY <1>2, <1>5, <1>6
  <2> QED
    BY <1>7, <2>1
<1>9. \A j \in 1..m : u[offset + j] \in A
  BY <1>7
<1>10. w \in [1..m -> A]
  BY <1>8, <1>9
<1>11. Len(w) = m
  BY <1>4, <1>10, SequenceOf, Zenon
<1> QED
  BY <1>4, <1>7, <1>8, <1>11, Zenon DEF WindowOf, w, m

\* copy_groups: the record of a group, and the records of a list of places.
Record(e) == [key |-> e.key, aggs |-> [i \in DOMAIN query.groupAggs |-> GroupStats(e.aggs[i], query.groupAggs[i])]]
(* A record says what its group has. *)
LEMMA RecordIs ==
  ASSUME AnswerableQuery(query), NEW e, NEW B, GroupAggsOf(e.aggs, B)
  PROVE  RecordOf(Record(e), e.key, B)
<1>1. DOMAIN query.groupAggs = 1..Len(query.groupAggs)
  <2>1. query.groupAggs \in Seq(AggKinds)
    BY Zenon DEF AnswerableQuery
  <2> QED
    BY <2>1
<1>2. Record(e).key = e.key /\ \A i \in 1..Len(query.groupAggs) : Record(e).aggs[i] = GroupStats(e.aggs[i], query.groupAggs[i])
  BY <1>1 DEF Record
<1> QED
  BY <1>2, Zenon DEF RecordOf

(* Without a limit the groups are copied in the order they are in. *)
LEMMA CopyUnlimited ==
  ASSUME NEW p, IsGroups(p.groups), AnswerableQuery(query)
  PROVE  /\ CopyGroupTable(p, query, 0) = Window([j \in 1..Len(p.groups) |-> Record(p.groups[j])], 0, query.offset)
         /\ WindowOf(CopyGroupTable(p, query, 0), [j \in 1..Len(p.groups) |-> Record(p.groups[j])], Len(p.groups), 0, query.offset)
<1> DEFINE n == Len(p.groups)
           order == [j \in 1..n |-> j]
           out == [j \in 1..n |-> [key |-> p.groups[order[j]].key,
                                   aggs |-> [i \in DOMAIN query.groupAggs |->
                                               GroupStats(p.groups[order[j]].aggs[i], query.groupAggs[i])]]]
           u == [j \in 1..n |-> Record(p.groups[j])]
<1>1. n \in Nat /\ query.offset \in Nat
  <2>1. query.offset \in Nat
    BY TakeIs, Zenon
  <2> QED
    BY <2>1, Zenon DEF IsGroups
<1>2. ~(query.byCount /\ 0 > 0)
  OBVIOUS
<1>3. CopyGroupTable(p, query, 0) = Window(out, 0, query.offset)
  BY <1>2, Zenon DEF CopyGroupTable
<1>4. out = u
  BY Zenon DEF Record
<1>5. u \in [1..n -> {u[j] : j \in 1..n}]
  OBVIOUS
<1> HIDE DEF out, u, n
<1>6. WindowOf(Window(u, 0, query.offset), u, n, 0, query.offset)
  BY <1>1, <1>5, WindowIs
<1> QED
  BY <1>3, <1>4, <1>6 DEF u, n

(* Without an offset they are all there. *)
LEMMA CopyAll ==
  ASSUME NEW p, NEW T, GroupsOf(p.groups, T), AnswerableQuery(query), query.offset = 0
  PROVE  RecordsOf(CopyGroupTable(p, query, 0), p.groups, T)
<1> DEFINE n == Len(p.groups)
           u == [j \in 1..n |-> Record(p.groups[j])]
           w == CopyGroupTable(p, query, 0)
<1>1. IsGroups(p.groups) /\ n \in Nat
  BY Zenon DEF GroupsOf, IsGroups
<1>2. WindowOf(w, u, n, 0, 0)
  BY <1>1, CopyUnlimited
<1>3. WindowLen(n, 0, 0) = n
  BY <1>1 DEF WindowLen, Larger
<1> HIDE DEF w
<1>4. Len(w) = n /\ \A j \in 1..n : w[j] = u[j]
  <2>1. Len(w) = n /\ w = [j \in 1..n |-> u[0 + j]]
    BY <1>2, <1>3 DEF WindowOf
  <2> HIDE DEF u
  <2> QED
    BY <2>1
<1>5. \A j \in 1..n : u[j] = Record(p.groups[j])
  OBVIOUS
<1>6. \A j \in 1..n : GroupAggsOf(p.groups[j].aggs, InGroup(T, p.groups[j].key))
  BY Zenon DEF GroupsOf
<1>7. \A j \in 1..n : RecordOf(w[j], p.groups[j].key, InGroup(T, p.groups[j].key))
  BY <1>4, <1>5, <1>6, RecordIs, Zenon
<1> QED
  BY <1>4, <1>7, Zenon DEF RecordsOf, w

\* The groups and the histogram a plan and the reducer hold of the rows of S.
CountsOf(counts, S) == \A id \in 0..(DictLen - 1) : counts[id] = Cardinality(InGroup(S, id))
IsCounts(counts) == counts = [id \in 0..(DictLen - 1) |-> counts[id]]
PlanGroups(p, S) ==
    /\ IsCounts(p.counts) /\ IsGroups(p.groups)
    /\ query.group /\ UsesHistogram(query) => CountsOf(p.counts, S)
    /\ query.group /\ ~UsesHistogram(query) => GroupsOf(p.groups, S)
MergedGroups(p, S) ==
    /\ IsCounts(p.counts) /\ IsGroups(p.groups)
    /\ query.group /\ UsesHistogram(query) => CountsOf(p.counts, S)
    /\ query.group /\ ~UsesHistogram(query) /\ query.offset = 0 => GroupsOf(p.groups, S)

(* No groups have no rows. *)
LEMMA ResetGroups ==
  ASSUME NEW p, p.groups = <<>>, p.counts = [id \in 0..(DictLen - 1) |-> 0]
  PROVE  PlanGroups(p, {}) /\ MergedGroups(p, {})
<1> DEFINE e == <<>>
           none == {}
<1>1. Len(e) = 0 /\ e = [j \in 1..0 |-> e[j]] /\ ~\E j \in 1..0 : TRUE
  OBVIOUS
<1>2. IsGroups(e)
  <2> HIDE DEF e
  <2>1. 0 \in Nat
    OBVIOUS
  <2> QED
    BY <1>1, <2>1, Zenon DEF IsGroups
<1>3. \A key : InGroup(none, key) = none
  BY DEF InGroup
<1>4. Cardinality(none) = 0
  BY FS_EmptySet
<1> HIDE DEF e, none
<1>5. GroupsOf(e, none)
  <2>1. \A r \in none : FALSE
    BY DEF none
  <2> QED
    BY <1>1, <1>2, <2>1, Zenon DEF GroupsOf
<1>6. IsCounts(p.counts) /\ \A id \in 0..(DictLen - 1) : p.counts[id] = 0
  BY DEF IsCounts
<1>7. CountsOf(p.counts, none)
  BY <1>3, <1>4, <1>6, Zenon DEF CountsOf
<1>8. p.groups = e
  BY DEF e
<1> QED
  BY <1>2, <1>5, <1>6, <1>7, <1>8, Zenon DEF PlanGroups, MergedGroups, none

(* Counts of disjoint sets of rows add up. *)
LEMMA CountsJoin ==
  ASSUME AnswerableTable(table), NEW S \in SUBSET AllRows, NEW T \in SUBSET AllRows, S \cap T = {}, NEW key
  PROVE  /\ Cardinality(InGroup(S \cup T, key)) = Cardinality(InGroup(S, key)) + Cardinality(InGroup(T, key))
         /\ Cardinality(InGroup(S, key)) \in Nat
<1>1. /\ InGroup(S \cup T, key) = InGroup(S, key) \cup InGroup(T, key)
      /\ InGroup(S, key) \in SUBSET AllRows /\ InGroup(T, key) \in SUBSET AllRows
      /\ InGroup(S, key) \cap InGroup(T, key) = {}
  BY DEF InGroup
<1>2. IsFiniteSet(InGroup(S, key)) /\ IsFiniteSet(InGroup(T, key))
  BY <1>1, RowsFinite, Zenon
<1> DEFINE A == InGroup(S, key)
           B == InGroup(T, key)
<1> HIDE DEF A, B
<1>3. IsFiniteSet(A) /\ IsFiniteSet(B) /\ A \cap B = {}
  BY <1>1, <1>2 DEF A, B
<1>4. Cardinality(A \cup B) = Cardinality(A) + Cardinality(B) /\ Cardinality(A) \in Nat
  <2>1. Cardinality(A \cup B) = Cardinality(A) + Cardinality(B) - Cardinality(A \cap B)
    BY <1>3, FS_Union
  <2>2. Cardinality(A \cap B) = 0
    BY <1>3, FS_EmptySet
  <2>3. Cardinality(A) \in Nat /\ Cardinality(B) \in Nat
    BY <1>3, FS_CardinalityType
  <2> QED
    BY <2>1, <2>2, <2>3
<1> QED
  BY <1>1, <1>4 DEF A, B

(* hist_count_dict_column counts the rows of the mask. *)
LEMMA HistAdds ==
  ASSUME AnswerableTable(table), NEW c \in Chunks, NEW m \in SUBSET DOMAIN table[c]["k"],
         NEW S \in SUBSET AllRows, S \cap RowsOf(c, m) = {}, NEW counts, IsCounts(counts), CountsOf(counts, S)
  PROVE  /\ IsCounts(HistCount(counts, table[c], m))
         /\ CountsOf(HistCount(counts, table[c], m), S \cup RowsOf(c, m))
<1> DEFINE T == RowsOf(c, m)
           x == HistCount(counts, table[c], m)
           In(id) == {i \in m : table[c]["k"][i] = id}
<1>1. DOMAIN counts = 0..(DictLen - 1)
  BY Zenon DEF IsCounts
<1>2. x = [id \in 0..(DictLen - 1) |-> counts[id] + Cardinality(In(id))]
  BY <1>1, Zenon DEF HistCount
<1>3. T \in SUBSET AllRows
  BY MaskRows, Zenon
<1>4. \A id : InGroup(T, id) = RowsOf(c, In(id))
  <2> TAKE id
  <2>1. \A i \in m : Cell(RowId(c, i), "k") = table[c]["k"][i]
    <3> TAKE i \in m
    <3>1. i \in DOMAIN table[c]["k"]
      OBVIOUS
    <3> QED
      BY <3>1, RowIdIs, Zenon
  <2>2. \A r : r \in InGroup(T, id) <=> \E i \in m : r = RowId(c, i) /\ table[c]["k"][i] = id
    BY <2>1, Zenon DEF InGroup, RowsOf
  <2>3. \A r : r \in RowsOf(c, In(id)) <=> \E i \in m : r = RowId(c, i) /\ table[c]["k"][i] = id
    BY Zenon DEF RowsOf
  <2> QED
    BY <2>2, <2>3
<1>5. \A id : Cardinality(InGroup(T, id)) = Cardinality(In(id))
  <2> TAKE id
  <2>1. In(id) \in SUBSET DOMAIN table[c]["k"]
    OBVIOUS
  <2> HIDE DEF In
  <2>2. Cardinality(RowsOf(c, In(id))) = Cardinality(In(id))
    BY <2>1, MaskRows, Zenon
  <2> QED
    BY <1>4, <2>2
<1> HIDE DEF In, x, T
<1>6. IsCounts(x) /\ \A id \in 0..(DictLen - 1) : x[id] = counts[id] + Cardinality(In(id))
  BY <1>2 DEF IsCounts
<1>7. CountsOf(x, S \cup T)
  <2>1. \A id : Cardinality(InGroup(S \cup T, id)) = Cardinality(InGroup(S, id)) + Cardinality(InGroup(T, id))
    BY <1>3, CountsJoin, Zenon DEF T
  <2> QED
    BY <1>5, <1>6, <2>1, Zenon DEF CountsOf
<1> QED
  BY <1>6, <1>7 DEF x, T

(* The group phase of a chunk. *)
LEMMA ExecGroupsAdd ==
  ASSUME AnswerableTable(table), AnswerableQuery(query), NEW c \in Chunks, NEW m \in SUBSET DOMAIN table[c]["k"],
         NEW S \in SUBSET AllRows, \A r \in S, e \in RowsOf(c, m) : r < e, S \cap RowsOf(c, m) = {},
         NEW p, PlanGroups(p, S), NEW x, Executed(x, p, query, c, table[c], m)
  PROVE  PlanGroups(x, S \cup RowsOf(c, m))
<1> DEFINE T == RowsOf(c, m)
           g == ExecGroups(p.groups, query, table[c], m)
           n == HistCount(p.counts, table[c], m)
<1>1. /\ x.groups = IF query.group /\ ~UsesHistogram(query) THEN g ELSE p.groups
      /\ x.counts = IF query.group /\ UsesHistogram(query) THEN n ELSE p.counts
  BY Zenon DEF Executed
<1>2. /\ IsCounts(p.counts) /\ IsGroups(p.groups)
      /\ query.group /\ UsesHistogram(query) => CountsOf(p.counts, S)
      /\ query.group /\ ~UsesHistogram(query) => GroupsOf(p.groups, S)
  BY Zenon DEF PlanGroups
<1> HIDE DEF g, n, T
<1>3. CASE query.group /\ UsesHistogram(query)
  <2>1. IsCounts(n) /\ CountsOf(n, S \cup T)
    BY <1>2, <1>3, HistAdds, Zenon DEF n, T
  <2> QED
    BY <1>1, <1>2, <1>3, <2>1, Zenon DEF PlanGroups, T
<1>4. CASE query.group /\ ~UsesHistogram(query)
  <2>1. GroupsOf(g, S \cup T)
    BY <1>2, <1>4, ExecGroupsHold, Zenon DEF g, T
  <2>2. IsGroups(g)
    BY <2>1, Zenon DEF GroupsOf
  <2> QED
    BY <1>1, <1>2, <1>4, <2>1, <2>2, Zenon DEF PlanGroups, T
<1>5. CASE ~query.group
  BY <1>1, <1>2, <1>5, Zenon DEF PlanGroups, T
<1> QED
  BY <1>3, <1>4, <1>5, Zenon

(* Merging no records. *)
LEMMA MergeNoGroups ==
  ASSUME NEW g
  PROVE  MergeGroups(g, query, <<>>) = g
<1> DEFINE e == <<>>
<1>1. Len(e) = 0 /\ Len(e) \in Nat
  OBVIOUS
<1> HIDE DEF e
<1>2. PICK f : MergeGroupRun(f, g, e)
  BY <1>1, MergeGroupRuns, Zenon
<1>3. MergeGroups(g, query, e) = g
  BY <1>1, <1>2, Zenon DEF MergeGroupRun
<1> QED
  BY <1>3 DEF e

(* One partial more. *)
LEMMA MergeGroupsAdd ==
  ASSUME AnswerableTable(table), AnswerableQuery(query),
         NEW S \in SUBSET AllRows, NEW T \in SUBSET AllRows, S \cap T = {}, \A r \in S, s \in T : r < s,
         NEW p, MergedGroups(p, S), NEW w, PlanGroups(w, T)
  PROVE  MergedGroups(MergePartial(p, query, CopyPartial(w, query)), S \cup T)
<1> DEFINE part == CopyPartial(w, query)
           x == MergePartial(p, query, part)
           G == IF query.group /\ ~UsesHistogram(query) THEN CopyGroupTable(w, query, 0) ELSE <<>>
<1>1. part.groups = G /\ part.counts = w.counts
  <2>1. query.group => query.order = <<>>
    BY Zenon DEF AnswerableQuery
  <2>2. query.group => (IF query.group /\ query.order = <<>> THEN 0 ELSE query.limit) = 0
    BY <2>1
  <2> QED
    BY <2>2 DEF CopyPartial
<1>2. x.groups = MergeGroups(p.groups, query, G) /\ x.counts = [id \in DOMAIN p.counts |-> p.counts[id] + w.counts[id]]
  <2> HIDE DEF part, G
  <2> QED
    BY <1>1 DEF MergePartial
<1>3. /\ IsCounts(p.counts) /\ IsGroups(p.groups)
      /\ query.group /\ UsesHistogram(query) => CountsOf(p.counts, S)
      /\ query.group /\ ~UsesHistogram(query) /\ query.offset = 0 => GroupsOf(p.groups, S)
  BY Zenon DEF MergedGroups
<1>4. /\ IsCounts(w.counts) /\ IsGroups(w.groups)
      /\ query.group /\ UsesHistogram(query) => CountsOf(w.counts, T)
      /\ query.group /\ ~UsesHistogram(query) => GroupsOf(w.groups, T)
  BY Zenon DEF PlanGroups
<1> HIDE DEF x, part
<1>5. IsCounts(x.counts) /\ \A id \in 0..(DictLen - 1) : x.counts[id] = p.counts[id] + w.counts[id]
  <2>1. DOMAIN p.counts = 0..(DictLen - 1)
    BY <1>3, Zenon DEF IsCounts
  <2>2. x.counts = [id \in 0..(DictLen - 1) |-> p.counts[id] + w.counts[id]]
    BY <1>2, <2>1
  <2> QED
    BY <2>2 DEF IsCounts
<1>6. query.group /\ UsesHistogram(query) => CountsOf(x.counts, S \cup T)
  <2> SUFFICES ASSUME query.group, UsesHistogram(query)
               PROVE  CountsOf(x.counts, S \cup T)
    BY Zenon
  <2>1. \A id : Cardinality(InGroup(S \cup T, id)) = Cardinality(InGroup(S, id)) + Cardinality(InGroup(T, id))
    BY CountsJoin, Zenon
  <2> QED
    BY <1>3, <1>4, <1>5, <2>1, Zenon DEF CountsOf
<1>7. IsGroups(x.groups)
  <2>1. Len(G) \in Nat
    <3>1. WindowOf(CopyGroupTable(w, query, 0), [j \in 1..Len(w.groups) |-> Record(w.groups[j])], Len(w.groups), 0, query.offset)
      BY <1>4, CopyUnlimited
    <3>2. Len(CopyGroupTable(w, query, 0)) \in Nat
      BY <3>1, Zenon DEF WindowOf
    <3>3. Len(<<>>) \in Nat
      OBVIOUS
    <3> QED
      BY <3>2, <3>3, Zenon
  <2> HIDE DEF G
  <2>2. IsGroups(MergeGroups(p.groups, query, G))
    BY <1>3, <2>1, MergeGroupsKeep, Zenon
  <2> QED
    BY <1>2, <2>2
<1>8. query.group /\ ~UsesHistogram(query) /\ query.offset = 0 => GroupsOf(x.groups, S \cup T)
  <2> SUFFICES ASSUME query.group, ~UsesHistogram(query), query.offset = 0
               PROVE  GroupsOf(x.groups, S \cup T)
    BY Zenon
  <2>1. G = CopyGroupTable(w, query, 0)
    OBVIOUS
  <2> HIDE DEF G
  <2>2. RecordsOf(G, w.groups, T)
    BY <1>4, <2>1, CopyAll, Zenon
  <2>3. GroupsOf(MergeGroups(p.groups, query, G), S \cup T)
    BY <1>3, <2>2, MergeGroupsHold, Zenon
  <2> QED
    BY <1>2, <2>3
<1>9. MergedGroups(x, S \cup T)
  BY <1>5, <1>6, <1>7, <1>8, Zenon DEF MergedGroups
<1> QED
  BY <1>9 DEF x, part

(* The partial of a pruned chunk adds nothing to the groups. *)
LEMMA MergeEmptyGroups ==
  ASSUME AnswerableTable(table), NEW S \in SUBSET AllRows, NEW p, MergedGroups(p, S)
  PROVE  MergedGroups(MergePartial(p, query, EmptyPartial(query)), S)
<1> DEFINE part == EmptyPartial(query)
           x == MergePartial(p, query, part)
<1>1. part.groups = <<>> /\ part.counts = [id \in 0..(DictLen - 1) |-> 0]
  BY DEF EmptyPartial
<1> HIDE DEF part
<1>2. x.groups = MergeGroups(p.groups, query, part.groups) /\ x.counts = [id \in DOMAIN p.counts |-> p.counts[id] + part.counts[id]]
  BY DEF MergePartial
<1>3. x.groups = p.groups
  BY <1>1, <1>2, MergeNoGroups
<1>4. /\ IsCounts(p.counts) /\ IsGroups(p.groups)
      /\ query.group /\ UsesHistogram(query) => CountsOf(p.counts, S)
      /\ query.group /\ ~UsesHistogram(query) /\ query.offset = 0 => GroupsOf(p.groups, S)
  BY Zenon DEF MergedGroups
<1> HIDE DEF x
<1>5. IsCounts(x.counts) /\ \A id \in 0..(DictLen - 1) : x.counts[id] = p.counts[id] + 0
  <2>1. DOMAIN p.counts = 0..(DictLen - 1)
    BY <1>4, Zenon DEF IsCounts
  <2>2. x.counts = [id \in 0..(DictLen - 1) |-> p.counts[id] + part.counts[id]]
    BY <1>2, <2>1
  <2> QED
    BY <1>1, <2>2 DEF IsCounts
<1>6. CountsOf(p.counts, S) => CountsOf(x.counts, S)
  <2> SUFFICES ASSUME CountsOf(p.counts, S), NEW id \in 0..(DictLen - 1)
               PROVE  x.counts[id] = Cardinality(InGroup(S, id))
    BY Zenon DEF CountsOf
  <2>1. p.counts[id] = Cardinality(InGroup(S, id))
    BY Zenon DEF CountsOf
  <2>2. Cardinality(InGroup(S, id)) \in Nat
    <3>1. S \cap {} = {} /\ {} \in SUBSET AllRows
      OBVIOUS
    <3> QED
      BY <3>1, CountsJoin, Zenon
  <2>3. x.counts[id] = p.counts[id] + 0
    BY <1>5, Zenon
  <2> QED
    BY <2>1, <2>2, <2>3
<1>7. MergedGroups(x, S)
  BY <1>3, <1>4, <1>5, <1>6, Zenon DEF MergedGroups
<1> QED
  BY <1>7 DEF x, part

\* Plan p holds the results of the rows of S, and so does the reducer.
PlanOf(p, S) == IsPlan(p) /\ AggsOf(p.aggs, S) /\ PlanRows(p, S) /\ PlanGroups(p, S)
ReducerOf(p, S) == IsPlan(p) /\ AggsOf(p.aggs, S) /\ MergedRows(p, S) /\ MergedGroups(p, S)

(* A plan that was reset holds the results of no row, *)
LEMMA ResetPlanOf ==
  ASSUME AnswerableTable(table), AnswerableQuery(query)
  PROVE  PlanOf(ResetResults(<<>>, query), {}) /\ ReducerOf(ResetResults(<<>>, query), {})
<1> DEFINE r == ResetResults(<<>>, query)
<1>1. IsPlan(r) /\ r.aggs = [i \in DOMAIN query.aggs |-> EmptyAgg]
  BY ResetIsPlan, Zenon
<1>3. r.rows = <<>> /\ r.heap = {} /\ r.groups = <<>> /\ r.counts = [id \in 0..(DictLen - 1) |-> 0]
  BY DEF ResetResults
<1> HIDE DEF r
<1>2. AggsOf(r.aggs, {})
  <2>1. \A i \in DOMAIN query.aggs : AggOf(query.aggs[i].kind, r.aggs[i], {})
    BY <1>1, NoRows, Zenon
  <2> QED
    BY <1>1, <2>1, Zenon DEF AggsOf
<1>4. PlanRows(r, {}) /\ MergedRows(r, {})
  BY <1>3, ResetRows, Zenon
<1>5. PlanGroups(r, {}) /\ MergedGroups(r, {})
  BY <1>3, ResetGroups, Zenon
<1> QED
  BY <1>1, <1>2, <1>4, <1>5, Zenon DEF PlanOf, ReducerOf, r

(* a chunk adds the results of the rows it holds, *)
LEMMA ExecPlanOf ==
  ASSUME table \in Tables, AnswerableTable(table), AnswerableQuery(query), NEW c \in Chunks,
         NEW S \in SUBSET AllRows, \A r \in S, s \in RowsOf(c, Held(c)) : r < s, S \cap RowsOf(c, Held(c)) = {},
         NEW p, PlanOf(p, S)
  PROVE  PlanOf(ExecChunk(p, query, c, table[c]), S \cup RowsOf(c, Held(c)))
<1> DEFINE x == ExecChunk(p, query, c, table[c])
           m == Held(c)
           T == RowsOf(c, m)
<1>1. ChunkMask(query.filters, query.combine, table[c])[1] = m /\ m \in SUBSET DOMAIN table[c]["k"]
  BY MaskIsHeld, Zenon
<1>2. CASE m = {}
  <2>1. x = p
    BY <1>1, <1>2, Zenon DEF ExecChunk
  <2>2. S \cup T = S
    BY <1>2, Zenon DEF RowsOf
  <2> QED
    BY <2>1, <2>2, Zenon
<1>3. CASE m # {}
  <2>1. IsPlan(p) /\ AggsOf(p.aggs, S) /\ PlanRows(p, S) /\ PlanGroups(p, S)
    BY Zenon DEF PlanOf
  <2>0. query.limit \in Nat
    BY TakeIs, Zenon
  <2>x. Executed(x, p, query, c, table[c], m)
    BY <1>1, <1>3, <2>0, <2>1, ExecFields, Zenon
  <2>2. IsPlan(x) /\ x.aggs = ExecAggregates(p.aggs, query, table[c], m)
    BY <2>x, Zenon DEF Executed
  <2>a. S \cap RowsOf(c, m) = {}
    BY Zenon
  <2>b. \A r \in S, e \in RowsOf(c, m) : r < e
    BY Zenon
  <2> HIDE DEF m
  <2>4. PlanRows(x, S \cup T)
    BY <1>1, <1>3, <2>a, <2>b, <2>1, ExecRowsHold, Zenon
  <2>5. PlanGroups(x, S \cup T)
    BY <1>1, <2>a, <2>b, <2>1, <2>x, ExecGroupsAdd, Zenon
  <2> HIDE DEF x
  <2>3. AggsOf(x.aggs, S \cup T)
    BY <1>1, <2>a, <2>1, <2>2, ExecAggregatesAdd, Zenon
  <2> QED
    BY <2>2, <2>3, <2>4, <2>5, Zenon DEF PlanOf, x, m
<1> QED
  BY <1>2, <1>3

(* a partial adds those of its plan, *)
LEMMA MergeReducerOf ==
  ASSUME AnswerableTable(table), AnswerableQuery(query),
         NEW S \in SUBSET AllRows, NEW T \in SUBSET AllRows, S \cap T = {}, \A r \in S, s \in T : r < s,
         NEW p, ReducerOf(p, S), NEW w, PlanOf(w, T)
  PROVE  ReducerOf(MergePartial(p, query, CopyPartial(w, query)), S \cup T)
<1> DEFINE part == CopyPartial(w, query)
           x == MergePartial(p, query, part)
<1>1. /\ AggsOf(p.aggs, S) /\ AggsOf(w.aggs, T) /\ MergedRows(p, S) /\ PlanRows(w, T)
      /\ MergedGroups(p, S) /\ PlanGroups(w, T)
  BY Zenon DEF ReducerOf, PlanOf
<1>6. MergedGroups(x, S \cup T)
  BY <1>1, MergeGroupsAdd, Zenon
<1>5. MergedRows(x, S \cup T)
  BY <1>1, MergeRowsHold, Zenon
<1>2. part.aggs = CopyAggs(w, query)
  BY DEF CopyPartial
<1>3. IsPlan(x) /\ x.aggs = MergeAggs(p, query, part.aggs)
  BY DEF MergePartial, IsPlan
<1> HIDE DEF x, part
<1>4. AggsOf(x.aggs, S \cup T)
  BY <1>1, <1>2, <1>3, MergeAggsAdd, Zenon
<1> QED
  BY <1>3, <1>4, <1>5, <1>6, Zenon DEF ReducerOf, x, part

(* and the partial of a pruned chunk none. *)
LEMMA MergeNothing ==
  ASSUME AnswerableTable(table), AnswerableQuery(query), NEW S \in SUBSET AllRows, NEW p, ReducerOf(p, S)
  PROVE  ReducerOf(MergePartial(p, query, EmptyPartial(query)), S)
<1> DEFINE part == EmptyPartial(query)
           x == MergePartial(p, query, part)
<1>1. AggsOf(p.aggs, S) /\ MergedRows(p, S) /\ MergedGroups(p, S)
  BY Zenon DEF ReducerOf
<1>7. MergedGroups(x, S)
  BY <1>1, MergeEmptyGroups, Zenon
<1>6. MergedRows(x, S)
  BY <1>1, MergeNoRows, Zenon
<1>2. part.aggs = <<>>
  BY DEF EmptyPartial
<1>3. IsPlan(x) /\ x.aggs = MergeAggs(p, query, part.aggs)
  BY DEF MergePartial, IsPlan
<1> HIDE DEF x, part
<1>4. x.aggs = [i \in DOMAIN p.aggs |-> p.aggs[i]]
  BY <1>2, <1>3, Zenon DEF MergeAggs
<1>5. AggsOf(x.aggs, S)
  BY <1>1, <1>4, Zenon DEF AggsOf
<1> QED
  BY <1>3, <1>5, <1>6, <1>7, Zenon DEF ReducerOf, x, part

-----------------------------------------------------------------------------
(* What the plans hold, chunk by chunk. *)

(* Locally, after each chunk. *)
LEMMA LocalPlansHold ==
  ASSUME table \in Tables, AnswerableTable(table), AnswerableQuery(query)
  PROVE  /\ \A k \in 0..Len(table) : PlanOf(LocalPlans(query, table)[k], Seen(k))
         /\ LocalPlans(query, table)[0] = ResetResults(<<>>, query)
         /\ \A k \in 1..Len(table) : LocalPlans(query, table)[k] =
              IF IsPruned(k) THEN LocalPlans(query, table)[k - 1]
              ELSE ExecChunk(LocalPlans(query, table)[k - 1], query, k, table[k])
<1> DEFINE N == Len(table)
           f == LocalPlans(query, table)
<1>1. Chunks = 1..N /\ N \in Nat
  BY ChunksAre
<1>2. f[0] = ResetResults(<<>>, query)
      /\ \A k \in 1..N : f[k] = IF IsPruned(k) THEN f[k - 1] ELSE ExecChunk(f[k - 1], query, k, table[k])
  BY <1>1, LocalFold, Zenon DEF IsPruned
<1> HIDE DEF f
<1> DEFINE Q == {k \in 0..N : PlanOf(f[k], Seen(k))}
<1>3. 0 \in Q
  <2>1. PlanOf(f[0], Seen(0))
    BY <1>2, ResetPlanOf, MatchingSeen, Zenon
  <2>2. 0 \in 0..N
    BY <1>1
  <2> QED
    BY <2>1, <2>2
<1>4. ASSUME NEW k \in 1..N, k - 1 \in Q
      PROVE  k \in Q
  <2>1. k \in 0..N /\ k - 1 \in 0..N /\ k \in Chunks /\ PlanOf(f[k - 1], Seen(k - 1))
    BY <1>1, <1>4
  <2> DEFINE S == Seen(k - 1)
             T == RowsOf(k, Held(k))
  <2>2. Seen(k) = S \cup T /\ S \cap T = {} /\ (\A r \in S, s \in T : r < s) /\ S \in SUBSET AllRows
    BY <2>1, SeenStep, MatchingSeen, Zenon
  <2>3. CASE IsPruned(k)
    <3>1. Held(k) = {}
      BY <2>1, <2>3, MaskIsHeld, Zenon
    <3>2. Seen(k) = S
      BY <2>2, <3>1, Zenon DEF RowsOf
    <3> QED
      BY <1>2, <2>1, <2>3, <3>2, Zenon
  <2>4. CASE ~IsPruned(k)
    <3>1. PlanOf(f[k - 1], S)
      BY <2>1, Zenon
    <3> HIDE DEF S
    <3>2. PlanOf(ExecChunk(f[k - 1], query, k, table[k]), S \cup T)
      BY <2>1, <2>2, <3>1, ExecPlanOf, Zenon
    <3> QED
      BY <1>2, <2>1, <2>2, <2>4, <3>2, Zenon
  <2> QED
    BY <2>3, <2>4, Zenon
<1> HIDE DEF Q
<1>5. \A k \in 0..N : k \in Q
  BY <1>1, <1>3, <1>4, ByToken, Zenon
<1> QED
  BY <1>2, <1>5, Zenon DEF Q, f

(* A task's plan holds its chunk. *)
LEMMA TaskHolds ==
  ASSUME table \in Tables, AnswerableTable(table), AnswerableQuery(query), NEW c \in Chunks
  PROVE  PlanOf(TaskPlan(query, c, table[c]), RowsOf(c, Held(c)))
<1> DEFINE r == ResetResults(<<>>, query)
<1>1. PlanOf(r, {})
  BY ResetPlanOf, Zenon
<1> HIDE DEF r
<1> DEFINE none == {}
<1>2. none \in SUBSET AllRows /\ none \cap RowsOf(c, Held(c)) = {} /\ (\A e \in none, s \in RowsOf(c, Held(c)) : e < s)
      /\ none \cup RowsOf(c, Held(c)) = RowsOf(c, Held(c)) /\ PlanOf(r, none)
  BY <1>1, Zenon
<1> HIDE DEF none
<1>3. PlanOf(ExecChunk(r, query, c, table[c]), none \cup RowsOf(c, Held(c)))
  BY <1>2, ExecPlanOf, Zenon
<1> QED
  BY <1>2, <1>3, Zenon DEF TaskPlan, r

(* The reducer, when every partial is there, holds every matching row. *)
LEMMA ReducedHolds ==
  ASSUME table \in Tables, AnswerableTable(table), AnswerableQuery(query), plan = ResetResults(<<>>, query),
         DOMAIN partials = Chunks, \A c \in Chunks : partials[c] = PartialOf(query, c, table[c])
  PROVE  ReducerOf(Reduced, Matching)
<1> DEFINE N == Len(table)
           s == [c \in DOMAIN partials |-> c]
<1>1. Chunks = 1..N /\ N \in Nat
  BY ChunksAre
<1>2. Len(s) = N /\ \A k \in 1..N : s[k] = k
  <2>1. s \in [1..N -> 1..N]
    BY <1>1
  <2> QED
    BY <1>1, <2>1, SequenceOf
<1>b. Len(s) \in Nat
  BY <1>1, <1>2
<1>3. \E f : /\ f[0] = ResetResults(plan, query)
             /\ \A k \in 1..N : f[k] = MergePartial(f[k - 1], query, partials[s[k]])
             /\ Reduced = f[N]
  <2>1. \E f : /\ f[0] = ResetResults(plan, query)
               /\ \A k \in 1..Len(s) : f[k] = MergePartial(f[k - 1], query, partials[s[k]])
               /\ ReducePartials(plan, query, partials) = f[Len(s)]
    BY <1>b, ReducedFold
  <2> HIDE DEF s
  <2> QED
    BY <1>2, <2>1, Zenon DEF Reduced
<1> HIDE DEF s
<1>4. PICK f : /\ f[0] = ResetResults(plan, query)
               /\ \A k \in 1..N : f[k] = MergePartial(f[k - 1], query, partials[s[k]])
               /\ Reduced = f[N]
  BY <1>3, Zenon
<1> DEFINE Q == {k \in 0..N : ReducerOf(f[k], Seen(k))}
<1>5. 0 \in Q
  <2>0. ResetResults(plan, query) = ResetResults(<<>>, query)
    BY Zenon DEF ResetResults
  <2>1. ReducerOf(f[0], Seen(0))
    BY <1>4, <2>0, ResetPlanOf, MatchingSeen, Zenon
  <2>2. 0 \in 0..N
    BY <1>1
  <2> QED
    BY <2>1, <2>2
<1>6. ASSUME NEW k \in 1..N, k - 1 \in Q
      PROVE  k \in Q
  <2>1. k \in 0..N /\ k - 1 \in 0..N /\ k \in Chunks /\ ReducerOf(f[k - 1], Seen(k - 1))
    BY <1>1, <1>6
  <2> DEFINE S == Seen(k - 1)
             T == RowsOf(k, Held(k))
  <2>2. Seen(k) = S \cup T /\ S \cap T = {} /\ (\A r \in S, e \in T : r < e) /\ S \in SUBSET AllRows /\ T \in SUBSET AllRows
    BY <2>1, SeenStep, MatchingSeen, Zenon
  <2>3. f[k] = MergePartial(f[k - 1], query, PartialOf(query, k, table[k]))
    BY <1>2, <1>4, <2>1, Zenon
  <2>4. CASE IsPruned(k)
    <3>1. Held(k) = {} /\ PartialOf(query, k, table[k]) = EmptyPartial(query)
      BY <2>1, <2>4, MaskIsHeld, Zenon DEF PartialOf, IsPruned
    <3>2. Seen(k) = S
      BY <2>2, <3>1, Zenon DEF RowsOf
    <3>3. ReducerOf(MergePartial(f[k - 1], query, EmptyPartial(query)), S)
      BY <2>1, <2>2, MergeNothing, Zenon
    <3> QED
      BY <2>1, <2>3, <3>1, <3>2, <3>3, Zenon
  <2>5. CASE ~IsPruned(k)
    <3>1. PartialOf(query, k, table[k]) = CopyPartial(TaskPlan(query, k, table[k]), query)
      BY <2>5, Zenon DEF PartialOf, IsPruned
    <3>2. PlanOf(TaskPlan(query, k, table[k]), T) /\ ReducerOf(f[k - 1], S)
      BY <2>1, TaskHolds, Zenon
    <3> HIDE DEF S, T
    <3>3. ReducerOf(MergePartial(f[k - 1], query, CopyPartial(TaskPlan(query, k, table[k]), query)), S \cup T)
      BY <2>2, <3>2, MergeReducerOf, Zenon
    <3> QED
      BY <2>1, <2>2, <2>3, <3>1, <3>3, Zenon
  <2> QED
    BY <2>4, <2>5, Zenon
<1> HIDE DEF Q
<1>7. N \in Q
  BY <1>1, <1>5, <1>6, AllReached, Zenon
<1> QED
  BY <1>4, <1>7, MatchingSeen, Zenon DEF Q

-----------------------------------------------------------------------------
(* What every state of a query keeps: partials are those of their chunks, the plan of the     *)
(* caller is untouched while workers run and the local loop's after that, and an answer is    *)
(* what was read of either.                                                                  *)
Answerable == (\A t \in Tables : AnswerableTable(t)) /\ (\A q \in Queries : AnswerableQuery(q))
AllPartials == [c \in Chunks |-> PartialOf(query, c, table[c])]
Kept ==
    /\ table \in Tables /\ query \in Queries
    /\ partials = [c \in Chunks |-> partials[c]]
    /\ path \in {"workers", "local"}
    /\ path = "workers" =>
         /\ plan = ResetResults(<<>>, query) /\ next = 1
         /\ \A c \in Chunks : partials[c] \in {NoPartial, PartialOf(query, c, table[c])}
    /\ path = "local" => next \in 1..(Len(table) + 1) /\ plan = LocalPlans(query, table)[next - 1]
    /\ Done /\ path = "workers" => partials = AllPartials /\ result = Answered(Reduced, ReducerRows(Reduced, query))
    /\ Done /\ path = "local" => LoopEnds /\ result = Answered(plan, LocalRows(plan, query))

(* Kept holds when the query begins, *)
LEMMA InitKept == Answerable /\ Init => Kept
<1> SUFFICES ASSUME Answerable, Init
             PROVE  Kept
  OBVIOUS
<1>1. AnswerableTable(table)
  BY DEF Init, Answerable
<1>2. Chunks = 1..Len(table) /\ Len(table) \in Nat
  BY <1>1, ChunksAre
<1>3. LocalPlans(query, table)[0] = ResetResults(<<>>, query)
  BY <1>2, LocalFold, Zenon
<1>4. next = 1 /\ plan = ResetResults(<<>>, query) /\ ~Done
  BY DEF Init, Done
<1>5. next \in 1..(Len(table) + 1) /\ plan = LocalPlans(query, table)[next - 1]
  BY <1>2, <1>3, <1>4
<1>6. partials = [c \in Chunks |-> NoPartial]
  BY DEF Init
<1>7. partials = [c \in Chunks |-> partials[c]] /\ \A c \in Chunks : partials[c] = NoPartial
  BY <1>6, Zenon
<1> QED
  BY <1>4, <1>5, <1>7, Zenon DEF Init, Kept

(* As long as what it reads of stays, so does an answer. *)
LEMMA SameAnswers ==
  ASSUME UNCHANGED <<table, query, plan, partials>>
  PROVE  /\ Answered(plan, LocalRows(plan, query))' = Answered(plan, LocalRows(plan, query))
         /\ Answered(Reduced, ReducerRows(Reduced, query))' = Answered(Reduced, ReducerRows(Reduced, query))
<1>0. table' = table /\ query' = query /\ plan' = plan /\ partials' = partials
  OBVIOUS
<1>1. Reduced' = Reduced
  BY <1>0, Zenon DEF Reduced
<1>2. ASSUME NEW p, NEW rows
      PROVE  [rows |-> ReadResult(p, query, rows).rows, aggs |-> ReadResult(p, query, rows).aggs,
              groups |-> ReadResult(p, query, rows).groups, readable |-> ReadResult(p, query, rows).readable,
              projection |-> Materialize(query.select, rows, table)]
           = [rows |-> ReadResult(p, query', rows).rows, aggs |-> ReadResult(p, query', rows).aggs,
              groups |-> ReadResult(p, query', rows).groups, readable |-> ReadResult(p, query', rows).readable,
              projection |-> Materialize(query'.select, rows, table')]
  BY <1>0, Zenon
<1>3. Answered(plan, LocalRows(plan, query))' = Answered(plan, LocalRows(plan, query))
  BY <1>0, <1>2, Zenon DEF Answered
<1>4. Answered(Reduced, ReducerRows(Reduced, query))' = Answered(Reduced, ReducerRows(Reduced, query))
  BY <1>0, <1>1, <1>2, Zenon DEF Answered
<1> QED
  BY <1>3, <1>4

(* A partial that comes in is that of its chunk. *)
LEMMA PartialKept ==
  ASSUME Kept, NEW c \in Chunks, path = "workers", partials[c] = NoPartial,
         partials' = [partials EXCEPT ![c] = PartialOf(query, c, table[c])],
         UNCHANGED <<table, query, path, next, plan, result>>
  PROVE  Kept'
<1> DEFINE mine == PartialOf(query, c, table[c])
<1>1. partials' = [d \in Chunks |-> IF d = c THEN mine ELSE partials[d]]
  BY Zenon DEF Kept
<1>2. partials' = [d \in Chunks |-> partials'[d]] /\ \A d \in Chunks : partials'[d] = IF d = c THEN mine ELSE partials[d]
  BY <1>1, Zenon
<1>3. Chunks' = Chunks /\ (\A d : PartialOf(query, d, table[d])' = PartialOf(query, d, table[d]))
      /\ AllPartials' = AllPartials
  BY Zenon DEF Chunks, AllPartials
<1>4. Done' <=> Done
  BY DEF Done
<1>5. Done => partials' = partials
  <2> SUFFICES ASSUME Done
               PROVE  partials' = partials
    OBVIOUS
  <2>1. partials = AllPartials
    BY Zenon DEF Kept
  <2>2. partials[c] = mine
    BY <2>1, Zenon DEF AllPartials
  <2>3. \A d \in Chunks : partials'[d] = partials[d]
    BY <1>2, <2>2, Zenon
  <2>4. partials = [d \in Chunks |-> partials[d]]
    BY Zenon DEF Kept
  <2> QED
    BY <1>2, <2>3, <2>4, Zenon
<1>6. Done => Answered(Reduced, ReducerRows(Reduced, query))' = Answered(Reduced, ReducerRows(Reduced, query))
  BY <1>5, SameAnswers
<1>7. \A d \in Chunks : partials'[d] \in {NoPartial, PartialOf(query, d, table[d])}
  BY <1>2, Zenon DEF Kept
<1>8. path' = "workers" /\ plan' = ResetResults(<<>>, query') /\ next' = 1 /\ table' \in Tables /\ query' \in Queries
  BY Zenon DEF Kept
<1>9. Done => partials' = AllPartials' /\ result' = Answered(Reduced, ReducerRows(Reduced, query))'
  BY <1>3, <1>5, <1>6, Zenon DEF Kept
<1>10. "workers" # "local"
  OBVIOUS
<1>11. partials' = [d \in Chunks' |-> partials'[d]]
       /\ \A d \in Chunks' : partials'[d] \in {NoPartial, PartialOf(query', d, table'[d])}
  BY <1>2, <1>3, <1>7, Zenon
<1>12. Done' => partials' = AllPartials' /\ result' = Answered(Reduced, ReducerRows(Reduced, query))'
  BY <1>4, <1>9, Zenon
<1> QED
  BY <1>8, <1>10, <1>11, <1>12, Zenon DEF Kept

(* and every step of it keeps it. *)
LEMMA NextKept == Answerable /\ Kept /\ [Next]_vars => Kept'
<1> SUFFICES ASSUME Answerable, Kept, [Next]_vars
             PROVE  Kept'
  OBVIOUS
<1>0. table \in Tables /\ query \in Queries /\ AnswerableTable(table) /\ path \in {"workers", "local"}
  BY DEF Kept, Answerable
<1>a. Chunks = 1..Len(table) /\ Len(table) \in Nat
  BY <1>0, ChunksAre
<1>1. ASSUME NEW c \in Chunks, SkipChunk(c)
      PROVE  Kept'
  <2>1. path = "workers" /\ partials[c] = NoPartial /\ UNCHANGED <<table, query, path, next, plan, result>>
    BY <1>1, Zenon DEF SkipChunk
  <2>2. partials' = [partials EXCEPT ![c] = PartialOf(query, c, table[c])]
    BY <1>1, Zenon DEF SkipChunk, PartialOf, IsPruned
  <2> QED
    BY <2>1, <2>2, PartialKept
<1>2. ASSUME NEW c \in Chunks, NEW w \in Workers, RunTask(w, c)
      PROVE  Kept'
  <2>1. path = "workers" /\ partials[c] = NoPartial /\ UNCHANGED <<table, query, path, next, plan, result>>
    BY <1>2, Zenon DEF RunTask
  <2>2. ResetResults(wplan[w], query) = ResetResults(<<>>, query)
    BY Zenon DEF ResetResults
  <2>3. partials' = [partials EXCEPT ![c] = PartialOf(query, c, table[c])]
    BY <1>2, <2>2, Zenon DEF RunTask, PartialOf, TaskPlan, IsPruned
  <2> QED
    BY <2>1, <2>3, PartialKept
<1>3. ASSUME FallBack
      PROVE  Kept'
  <2>1. /\ path = "workers" /\ ~Done /\ path' = "local" /\ partials' = [c \in Chunks |-> NoPartial]
        /\ table' = table /\ query' = query /\ next' = next /\ plan' = plan /\ result' = result
    BY <1>3 DEF FallBack
  <2>2. LocalPlans(query, table)[0] = ResetResults(<<>>, query)
    BY <1>a, LocalFold, Zenon
  <2>3. next = 1 /\ plan = ResetResults(<<>>, query)
    BY <2>1, Zenon DEF Kept
  <2>4. next' \in 1..(Len(table') + 1) /\ plan' = LocalPlans(query', table')[next' - 1]
    <3>1. 1 - 1 = 0 /\ 1 \in 1..(Len(table) + 1)
      BY <1>a
    <3> QED
      BY <2>1, <2>2, <2>3, <3>1, Zenon
  <2>5. ~Done' /\ Chunks' = Chunks
    BY <2>1, Zenon DEF Done, Chunks
  <2>6. partials' = [c \in Chunks' |-> partials'[c]]
    BY <2>1, <2>5, Zenon
  <2>7. "workers" # "local"
    OBVIOUS
  <2> QED
    BY <1>0, <2>1, <2>4, <2>5, <2>6, <2>7, Zenon DEF Kept
<1>4. ASSUME Reduce
      PROVE  Kept'
  <2>1. /\ path = "workers" /\ ~Done /\ (\A c \in Chunks : partials[c] # NoPartial)
        /\ result' = Answered(Reduced, ReducerRows(Reduced, query))
        /\ table' = table /\ query' = query /\ next' = next /\ plan' = plan /\ partials' = partials /\ path' = path
    BY <1>4 DEF Reduce
  <2>2. \A c \in Chunks : partials[c] = PartialOf(query, c, table[c])
    BY <2>1, Zenon DEF Kept
  <2>3. partials = AllPartials
    <3>1. partials = [c \in Chunks |-> partials[c]]
      BY Zenon DEF Kept
    <3> QED
      BY <2>2, <3>1, Zenon DEF AllPartials
  <2>4. Chunks' = Chunks /\ AllPartials' = AllPartials
    BY <2>1, Zenon DEF Chunks, AllPartials
  <2>5. Answered(Reduced, ReducerRows(Reduced, query))' = Answered(Reduced, ReducerRows(Reduced, query))
    BY <2>1, SameAnswers
  <2>6. \A d : PartialOf(query, d, table[d])' = PartialOf(query, d, table[d])
    BY <2>1, Zenon
  <2>7. "workers" # "local"
    OBVIOUS
  <2>8. path' = "workers" /\ plan' = ResetResults(<<>>, query') /\ next' = 1 /\ table' \in Tables /\ query' \in Queries
    BY <2>1, Zenon DEF Kept
  <2>9. partials' = [d \in Chunks' |-> partials'[d]]
        /\ \A d \in Chunks' : partials'[d] \in {NoPartial, PartialOf(query', d, table'[d])}
    BY <2>1, <2>4, <2>6, Zenon DEF Kept
  <2>10. partials' = AllPartials' /\ result' = Answered(Reduced, ReducerRows(Reduced, query))'
    BY <2>1, <2>3, <2>4, <2>5, Zenon
  <2> QED
    BY <2>7, <2>8, <2>9, <2>10, Zenon DEF Kept
<1>5. ASSUME LocalChunk
      PROVE  Kept'
  <2>1. /\ path = "local" /\ ~Done /\ ~LoopEnds
        /\ plan' = (IF IsPruned(next) THEN plan ELSE ExecChunk(plan, query, next, table[next])) /\ next' = next + 1
        /\ table' = table /\ query' = query /\ partials' = partials /\ path' = path /\ result' = result
    BY <1>5 DEF LocalChunk
  <2>2. next \in 1..(Len(table) + 1) /\ plan = LocalPlans(query, table)[next - 1]
    BY <2>1, Zenon DEF Kept
  <2>3. next \in 1..Len(table) /\ next + 1 \in 1..(Len(table) + 1) /\ (next + 1) - 1 = next
    BY <1>a, <2>1, <2>2 DEF LoopEnds
  <2>4. LocalPlans(query, table)[next] = IF IsPruned(next) THEN LocalPlans(query, table)[next - 1]
                                         ELSE ExecChunk(LocalPlans(query, table)[next - 1], query, next, table[next])
    BY <1>a, <2>3, LocalFold, Zenon DEF IsPruned
  <2>5. plan' = LocalPlans(query, table)[next]
    BY <2>1, <2>2, <2>4, Zenon
  <2>6. next' \in 1..(Len(table') + 1) /\ plan' = LocalPlans(query', table')[next' - 1]
    BY <2>1, <2>3, <2>5, Zenon
  <2>7. ~Done' /\ Chunks' = Chunks /\ "workers" # "local"
    BY <2>1, Zenon DEF Done, Chunks
  <2> QED
    BY <1>0, <2>1, <2>6, <2>7, Zenon DEF Kept
<1>6. ASSUME LocalFinish
      PROVE  Kept'
  <2>1. /\ path = "local" /\ ~Done /\ LoopEnds /\ result' = Answered(plan, LocalRows(plan, query))
        /\ table' = table /\ query' = query /\ next' = next /\ plan' = plan /\ partials' = partials /\ path' = path
    BY <1>6 DEF LocalFinish
  <2>2. Chunks' = Chunks /\ "workers" # "local" /\ (LoopEnds' <=> LoopEnds)
    BY <2>1, Zenon DEF Chunks, LoopEnds
  <2>3. Answered(plan, LocalRows(plan, query))' = Answered(plan, LocalRows(plan, query))
    BY <2>1, SameAnswers
  <2>4. path' = "local" /\ table' \in Tables /\ query' \in Queries /\ partials' = [d \in Chunks' |-> partials'[d]]
        /\ next' \in 1..(Len(table') + 1) /\ plan' = LocalPlans(query', table')[next' - 1]
    BY <2>1, <2>2, Zenon DEF Kept
  <2>5. LoopEnds' /\ result' = Answered(plan, LocalRows(plan, query))'
    BY <2>1, <2>2, <2>3, Zenon
  <2> QED
    BY <2>2, <2>4, <2>5, Zenon DEF Kept
<1>7. CASE UNCHANGED vars
  <2>1. /\ table' = table /\ query' = query /\ next' = next /\ plan' = plan /\ partials' = partials /\ path' = path
        /\ result' = result
    BY <1>7 DEF vars
  <2>2. Chunks' = Chunks /\ (LoopEnds' <=> LoopEnds) /\ (Done' <=> Done)
    BY <2>1, Zenon DEF Chunks, LoopEnds, Done
  <2>3. AllPartials' = AllPartials /\ \A d : PartialOf(query, d, table[d])' = PartialOf(query, d, table[d])
    BY <2>1, <2>2, Zenon DEF AllPartials
  <2>4. Answered(plan, LocalRows(plan, query))' = Answered(plan, LocalRows(plan, query))
        /\ Answered(Reduced, ReducerRows(Reduced, query))' = Answered(Reduced, ReducerRows(Reduced, query))
    BY <2>1, SameAnswers
  <2> QED
    BY <1>0, <2>1, <2>2, <2>3, <2>4, Zenon DEF Kept
<1> QED
  BY <1>1, <1>2, <1>3, <1>4, <1>5, <1>6, <1>7, Zenon DEF Next

(* What an answer was read of. *)
LEMMA WorkersAnswer ==
  ASSUME Answerable, Kept, Done, path = "workers"
  PROVE  ReducerOf(Reduced, Matching) /\ result = Answered(Reduced, ReducerRows(Reduced, query))
<1>1. table \in Tables /\ AnswerableTable(table) /\ AnswerableQuery(query)
  BY Zenon DEF Kept, Answerable
<1>2. plan = ResetResults(<<>>, query) /\ partials = AllPartials /\ result = Answered(Reduced, ReducerRows(Reduced, query))
  BY Zenon DEF Kept
<1>3. \A c \in Chunks : partials[c] = PartialOf(query, c, table[c])
  BY <1>2, Zenon DEF AllPartials
<1>4. ReducerOf(Reduced, Matching)
  BY <1>1, <1>2, <1>3, ReducedHolds, Zenon DEF AllPartials
<1> QED
  BY <1>2, <1>4

(* The local loop answers from a plan that holds all matching rows, or from the first rows if *)
(* they fill the LIMIT.                                                                       *)
LEMMA LocalAnswer ==
  ASSUME Answerable, Kept, Done, path = "local"
  PROVE  /\ result = Answered(plan, LocalRows(plan, query))
         /\ \E k \in 0..Len(table) :
              /\ PlanOf(plan, Seen(k))
              /\ PlanOf(plan, Matching) \/ (~query.sql /\ query.limit > 0 /\ query.limit <= Len(plan.rows))
<1>1. table \in Tables /\ AnswerableTable(table) /\ AnswerableQuery(query)
  BY Zenon DEF Kept, Answerable
<1>2. next \in 1..(Len(table) + 1) /\ plan = LocalPlans(query, table)[next - 1] /\ LoopEnds
      /\ result = Answered(plan, LocalRows(plan, query))
  BY Zenon DEF Kept
<1>3. Len(table) \in Nat /\ query.limit \in Nat
  BY <1>1, Zenon DEF AnswerableTable, AnswerableQuery
<1>4. next - 1 \in 0..Len(table)
  BY <1>2, <1>3
<1>5. PlanOf(plan, Seen(next - 1))
  BY <1>1, <1>2, <1>4, LocalPlansHold, Zenon
<1>6. CASE next = Len(table) + 1
  <2>1. next - 1 = Len(table)
    BY <1>3, <1>6
  <2>2. PlanOf(plan, Matching)
    BY <1>1, <1>5, <2>1, MatchingSeen, Zenon
  <2> QED
    BY <1>2, <1>4, <1>5, <2>2, Zenon
<1>7. CASE next # Len(table) + 1
  <2>1. ~query.sql /\ query.limit > 0 /\ Len(plan.rows) >= query.limit
    BY <1>2, <1>3, <1>7 DEF LoopEnds
  <2>2. Len(plan.rows) >= query.limit <=> query.limit <= Len(plan.rows)
    OBVIOUS
  <2> QED
    BY <1>2, <1>4, <1>5, <2>1, <2>2, Zenon
<1> QED
  BY <1>6, <1>7

(* AggregatesExact, for any tables and queries that can be answered. *)
THEOREM AnswerAggregates ==
  ASSUME Answerable
  PROVE  Spec => []AggregatesExact
<1>1. Init => Kept
  BY InitKept
<1>2. Kept /\ [Next]_vars => Kept'
  BY NextKept
<1>3. Kept => AggregatesExact
  <2> SUFFICES ASSUME Kept, Done, path = "workers" \/ query.sql \/ query.limit = 0,
                      NEW i \in DOMAIN query.aggs
               PROVE  Right(query.aggs[i].kind, query.aggs[i].off, result.aggs[i], Matching)
    BY DEF AggregatesExact
  <2>1. path \in {"workers", "local"} /\ AnswerableTable(table) /\ AnswerableQuery(query)
    BY Zenon DEF Kept, Answerable
  <2> DEFINE p == IF path = "workers" THEN Reduced ELSE plan
  <2>2. AggsOf(p.aggs, Matching) /\ result.aggs = CopyAggs(p, query)
    <3>1. CASE path = "workers"
      <4>1. ReducerOf(Reduced, Matching) /\ result = Answered(Reduced, ReducerRows(Reduced, query))
        BY <3>1, WorkersAnswer, Zenon
      <4>2. result.aggs = CopyAggs(Reduced, query)
        BY <4>1 DEF Answered, ReadResult
      <4> QED
        BY <3>1, <4>1, <4>2, Zenon DEF ReducerOf
    <3>2. CASE path = "local"
      <4>1. result = Answered(plan, LocalRows(plan, query))
        BY <3>2, LocalAnswer, Zenon
      <4>2. ~(~query.sql /\ query.limit > 0)
        <5>1. query.limit \in Nat
          BY <2>1, TakeIs, Zenon
        <5>2. query.sql \/ query.limit = 0
          BY <3>2
        <5> QED
          BY <5>1, <5>2
      <4>3. PlanOf(plan, Matching)
        BY <3>2, <4>2, LocalAnswer, Zenon
      <4>4. result.aggs = CopyAggs(plan, query)
        BY <4>1 DEF Answered, ReadResult
      <4>5. path # "workers"
        BY <3>2
      <4> QED
        BY <4>3, <4>4, <4>5, Zenon DEF PlanOf
    <3> QED
      BY <2>1, <3>1, <3>2, Zenon
  <2> HIDE DEF p
  <2>3. result.aggs[i] = CopyAgg(p.aggs[i], query.aggs[i]) /\ AggOf(query.aggs[i].kind, p.aggs[i], Matching)
    BY <2>2, Zenon DEF CopyAggs, AggsOf
  <2>4. query.aggs[i] \in [kind : AggKinds, off : Int]
    <3>1. query.aggs \in Seq([kind : AggKinds, off : Int])
      BY <2>1, Zenon DEF AnswerableQuery
    <3> QED
      BY <3>1, ElementsOf, Zenon
  <2>5. Matching \in SUBSET AllRows
    BY <2>1, SortedMatchingLists, Zenon
  <2> QED
    BY <2>1, <2>3, <2>4, <2>5, CopyRight, Zenon
<1> QED
  BY <1>1, <1>2, <1>3, PTL DEF Spec

(* RowsExact: whatever path, chunks skipped and order of the workers. *)
LEMMA AnswerRowsAre ==
  ASSUME Answerable, Kept, Done, path = "workers" \/ query.order # <<>> \/ query.offset = 0
  PROVE  result.rows = RightRows
<1>1. path \in {"workers", "local"} /\ AnswerableTable(table) /\ AnswerableQuery(query)
  BY Zenon DEF Kept, Answerable
<1>2. CASE path = "workers"
  <2>1. ReducerOf(Reduced, Matching) /\ result = Answered(Reduced, ReducerRows(Reduced, query))
    BY <1>2, WorkersAnswer, Zenon
  <2>2. result.rows = ReducerRows(Reduced, query)
    BY <2>1 DEF Answered, ReadResult
  <2>3. MergedRows(Reduced, Matching)
    BY <2>1, Zenon DEF ReducerOf
  <2> QED
    BY <1>1, <2>2, <2>3, ReducerRowsAre, Zenon
<1>3. CASE path = "local"
  <2>1. result = Answered(plan, LocalRows(plan, query))
    BY <1>3, LocalAnswer, Zenon
  <2>2. result.rows = LocalRows(plan, query)
    BY <2>1 DEF Answered, ReadResult
  <2>3. PICK k \in 0..Len(table) :
              /\ PlanOf(plan, Seen(k))
              /\ PlanOf(plan, Matching) \/ (~query.sql /\ query.limit > 0 /\ query.limit <= Len(plan.rows))
    BY <1>3, LocalAnswer, Zenon
  <2>4. query.order # <<>> \/ query.offset = 0
    BY <1>3
  <2>5. PlanRows(plan, Matching)
    <3>1. CASE PlanOf(plan, Matching)
      BY <3>1, Zenon DEF PlanOf
    <3>2. CASE query.limit > 0 /\ query.limit <= Len(plan.rows)
      <4>1. PlanRows(plan, Seen(k))
        BY <2>3, Zenon DEF PlanOf
      <4>2. query.order = <<>>
        <5> SUFFICES ASSUME query.order # <<>>
                     PROVE  FALSE
          OBVIOUS
        <5>1. plan.rows = <<>>
          BY <3>2, <4>1, Zenon DEF PlanRows
        <5> QED
          BY <1>1, <3>2, <5>1, TakeIs
      <4> QED
        BY <1>1, <2>4, <3>2, <4>1, <4>2, EarlyRows, Zenon
    <3> QED
      BY <2>3, <3>1, <3>2, Zenon
  <2> QED
    BY <1>1, <2>2, <2>4, <2>5, LocalRowsAre, Zenon
<1> QED
  BY <1>1, <1>2, <1>3, Zenon

(* The rows of the answer are the matching rows in the order of the query, cut to its window: *)
(* what the heap, LIMIT and the early end of the local loop leave out never belongs to it.    *)
THEOREM AnswerRows ==
  ASSUME Answerable
  PROVE  Spec => []RowsExact
<1>1. Init => Kept
  BY InitKept
<1>2. Kept /\ [Next]_vars => Kept'
  BY NextKept
<1>3. Kept => RowsExact
  BY AnswerRowsAre, Zenon DEF RowsExact, RightRows, SortedMatching, RowKey
<1> QED
  BY <1>1, <1>2, <1>3, PTL DEF Spec

-----------------------------------------------------------------------------
(* The projection. *)

\* One cell of gather_column, and one chunk of materializeSelectProjection.
GatherCell(o, column, hasNulls, local, dst, j) ==
    IF dst[j] \notin DOMAIN o \/ local[j] >= Len(column) THEN o
    ELSE LET x == column[local[j] + 1]
             present == ~hasNulls \/ x # Null
         IN  [o EXCEPT ![dst[j]] = [value |-> IF present THEN x ELSE @.value, present |-> present]]
ProjectChunk(proj, select, rows, chunks, c) ==
    MaterializeChunk(proj, select, chunks[c + 1], GroupRowIdsByChunk(rows)[c].local, GroupRowIdsByChunk(rows)[c].dst)
Projected(select, rows, chunks) ==
    Fold(LAMBDA p, c : ProjectChunk(p, select, rows, chunks, c), InitProjection(select, Len(rows)),
         Ascending(DOMAIN GroupRowIdsByChunk(rows)))
GatherRun(f, out, column, hasNulls, local, dst) ==
    /\ f[0] = out
    /\ \A k \in 1..Len([j \in DOMAIN local |-> j]) : f[k] = GatherCell(f[k - 1], column, hasNulls, local, dst, [j \in DOMAIN local |-> j][k])
    /\ GatherColumn(out, column, hasNulls, local, dst) = f[Len([j \in DOMAIN local |-> j])]

(* gather_column, cell by cell. *)
LEMMA GatherRuns ==
  ASSUME NEW out, NEW column, NEW hasNulls, NEW local, NEW dst, Len([j \in DOMAIN local |-> j]) \in Nat
  PROVE  \E f : GatherRun(f, out, column, hasNulls, local, dst)
<1> DEFINE N == Len([j \in DOMAIN local |-> j])
           Op(x, k) == GatherCell(x, column, hasNulls, local, dst, [j \in DOMAIN local |-> j][k])
           Runs(n, f) == f = [k \in 0..n |-> IF k = 0 THEN out ELSE Op(f[k - 1], k)]
           T == {n \in Nat : \E f : Runs(n, f)}
           F == CHOOSE f : Runs(N, f)
<1>1. GatherColumn(out, column, hasNulls, local, dst) = F[N]
  BY Zenon DEF Fold, GatherColumn, GatherCell
<1> DEFINE base == out
<1> HIDE DEF Op, base
<1>2. 0 \in T
  <2>1. Runs(0, [k \in 0..0 |-> base])
    BY DEF base
  <2> QED
    BY <2>1
<1>3. ASSUME NEW n \in 1..N, n - 1 \in T
      PROVE  n \in T
  <2>1. PICK r : Runs(n - 1, r)
    BY <1>3
  <2>2. n \in Nat /\ n # 0 /\ n - 1 \in 0..n /\ n - 1 \in 0..(n - 1) /\ 0 \in 0..(n - 1)
        /\ (\A k \in 0..(n - 1) : k \in 0..n /\ k # n /\ (k # 0 => k - 1 \in 0..(n - 1)))
        /\ \A k \in 0..n : k = n \/ k \in 0..(n - 1)
    BY <1>3
  <2> DEFINE f == [k \in 0..n |-> IF k = n THEN Op(r[n - 1], n) ELSE r[k]]
  <2>3. /\ f = [k \in 0..n |-> f[k]] /\ f[n] = Op(r[n - 1], n)
        /\ \A k \in 0..(n - 1) : f[k] = r[k]
    <3>1. n \in 0..n
      BY <2>2
    <3> QED
      BY <2>2, <3>1, Zenon
  <2> HIDE DEF f
  <2>4. \A k \in 0..(n - 1) : r[k] = IF k = 0 THEN base ELSE Op(r[k - 1], k)
    BY <2>1, Zenon DEF base
  <2>5. \A k \in 0..n : f[k] = IF k = 0 THEN base ELSE Op(f[k - 1], k)
    <3>1. f[n] = Op(f[n - 1], n)
      BY <2>2, <2>3, Zenon
    <3>2. \A k \in 0..(n - 1) : f[k] = IF k = 0 THEN base ELSE Op(f[k - 1], k)
      <4> TAKE k \in 0..(n - 1)
      <4>1. CASE k = 0
        BY <2>3, <2>4, <4>1, Zenon
      <4>2. CASE k # 0
        <5>1. k - 1 \in 0..(n - 1) /\ f[k - 1] = r[k - 1]
          BY <2>2, <2>3, <4>2, Zenon
        <5> QED
          BY <2>3, <2>4, <4>2, <5>1, Zenon
      <4> QED
        BY <4>1, <4>2, Zenon
    <3> QED
      BY <2>2, <3>1, <3>2, Zenon
  <2>6. Runs(n, f)
    BY <2>3, <2>5, Zenon DEF base
  <2> HIDE DEF Runs
  <2> QED
    BY <2>2, <2>6, Zenon
<1>4. N \in Nat /\ 0 \in 0..N /\ \A k \in 1..N : k \in 0..N /\ k # 0
  OBVIOUS
<1> HIDE DEF T
<1>5. N \in T
  BY <1>2, <1>3, <1>4, AllReached, Zenon
<1>6. Runs(N, F)
  <2> HIDE DEF Runs
  <2>1. \E f : Runs(N, f)
    BY <1>5, Zenon DEF T
  <2> QED
    BY <2>1, Zenon
<1> HIDE DEF F, N
<1>7. F[0] = base /\ \A k \in 1..N : F[k] = Op(F[k - 1], k)
  BY <1>4, <1>6, Zenon DEF base
<1>8. GatherRun(F, out, column, hasNulls, local, dst)
  BY <1>1, <1>7, Zenon DEF Op, base, N, GatherRun
<1> QED
  BY <1>8, Zenon

ProjectRun(f, select, rows, chunks) ==
    /\ f[0] = InitProjection(select, Len(rows))
    /\ \A k \in 1..Len(Ascending(DOMAIN GroupRowIdsByChunk(rows))) : f[k] = ProjectChunk(f[k - 1], select, rows, chunks, Ascending(DOMAIN GroupRowIdsByChunk(rows))[k])
    /\ Projected(select, rows, chunks) = f[Len(Ascending(DOMAIN GroupRowIdsByChunk(rows)))]

(* A projection, chunk by chunk. *)
LEMMA ProjectRuns ==
  ASSUME NEW select, NEW rows, NEW chunks, Len(Ascending(DOMAIN GroupRowIdsByChunk(rows))) \in Nat
  PROVE  \E f : ProjectRun(f, select, rows, chunks)
<1> DEFINE N == Len(Ascending(DOMAIN GroupRowIdsByChunk(rows)))
           Op(x, k) == ProjectChunk(x, select, rows, chunks, Ascending(DOMAIN GroupRowIdsByChunk(rows))[k])
           Runs(n, f) == f = [k \in 0..n |-> IF k = 0 THEN InitProjection(select, Len(rows)) ELSE Op(f[k - 1], k)]
           T == {n \in Nat : \E f : Runs(n, f)}
           F == CHOOSE f : Runs(N, f)
<1>1. Projected(select, rows, chunks) = F[N]
  BY Zenon DEF Fold, Projected
<1> DEFINE base == InitProjection(select, Len(rows))
<1> HIDE DEF Op, base
<1>2. 0 \in T
  <2>1. Runs(0, [k \in 0..0 |-> base])
    BY DEF base
  <2> QED
    BY <2>1
<1>3. ASSUME NEW n \in 1..N, n - 1 \in T
      PROVE  n \in T
  <2>1. PICK r : Runs(n - 1, r)
    BY <1>3
  <2>2. n \in Nat /\ n # 0 /\ n - 1 \in 0..n /\ n - 1 \in 0..(n - 1) /\ 0 \in 0..(n - 1)
        /\ (\A k \in 0..(n - 1) : k \in 0..n /\ k # n /\ (k # 0 => k - 1 \in 0..(n - 1)))
        /\ \A k \in 0..n : k = n \/ k \in 0..(n - 1)
    BY <1>3
  <2> DEFINE f == [k \in 0..n |-> IF k = n THEN Op(r[n - 1], n) ELSE r[k]]
  <2>3. /\ f = [k \in 0..n |-> f[k]] /\ f[n] = Op(r[n - 1], n)
        /\ \A k \in 0..(n - 1) : f[k] = r[k]
    <3>1. n \in 0..n
      BY <2>2
    <3> QED
      BY <2>2, <3>1, Zenon
  <2> HIDE DEF f
  <2>4. \A k \in 0..(n - 1) : r[k] = IF k = 0 THEN base ELSE Op(r[k - 1], k)
    BY <2>1, Zenon DEF base
  <2>5. \A k \in 0..n : f[k] = IF k = 0 THEN base ELSE Op(f[k - 1], k)
    <3>1. f[n] = Op(f[n - 1], n)
      BY <2>2, <2>3, Zenon
    <3>2. \A k \in 0..(n - 1) : f[k] = IF k = 0 THEN base ELSE Op(f[k - 1], k)
      <4> TAKE k \in 0..(n - 1)
      <4>1. CASE k = 0
        BY <2>3, <2>4, <4>1, Zenon
      <4>2. CASE k # 0
        <5>1. k - 1 \in 0..(n - 1) /\ f[k - 1] = r[k - 1]
          BY <2>2, <2>3, <4>2, Zenon
        <5> QED
          BY <2>3, <2>4, <4>2, <5>1, Zenon
      <4> QED
        BY <4>1, <4>2, Zenon
    <3> QED
      BY <2>2, <3>1, <3>2, Zenon
  <2>6. Runs(n, f)
    BY <2>3, <2>5, Zenon DEF base
  <2> HIDE DEF Runs
  <2> QED
    BY <2>2, <2>6, Zenon
<1>4. N \in Nat /\ 0 \in 0..N /\ \A k \in 1..N : k \in 0..N /\ k # 0
  OBVIOUS
<1> HIDE DEF T
<1>5. N \in T
  BY <1>2, <1>3, <1>4, AllReached, Zenon
<1>6. Runs(N, F)
  <2> HIDE DEF Runs
  <2>1. \E f : Runs(N, f)
    BY <1>5, Zenon DEF T
  <2> QED
    BY <2>1, Zenon
<1> HIDE DEF F, N
<1>7. F[0] = base /\ \A k \in 1..N : F[k] = Op(F[k - 1], k)
  BY <1>4, <1>6, Zenon DEF base
<1>8. ProjectRun(F, select, rows, chunks)
  BY <1>1, <1>7, Zenon DEF Op, base, N, ProjectRun
<1> QED
  BY <1>8, Zenon

Cells == [value : Int, present : BOOLEAN]
\* A cell says x.
Shown(cell, x) == (cell.present <=> x # Null) /\ (x # Null => cell.value = x)

\* What one cell more changes.
CellSet(r, o, n, d, x) ==
    /\ r \in [1..n -> Cells] /\ Shown(r[d], x)
    /\ \A e \in 1..n : e # d => r[e] = o[e]

(* One cell of gather_column. *)
LEMMA GatherCellIs ==
  ASSUME NEW n, NEW o \in [1..n -> Cells], NEW column, NEW hasNulls \in BOOLEAN, NEW local, NEW dst, NEW j,
         dst[j] \in 1..n, ~(local[j] >= Len(column)), column[local[j] + 1] \in Int \cup {Null},
         column[local[j] + 1] = Null => hasNulls
  PROVE  CellSet(GatherCell(o, column, hasNulls, local, dst, j), o, n, dst[j], column[local[j] + 1])
<1> DEFINE d == dst[j]
           x == column[local[j] + 1]
           present == ~hasNulls \/ x # Null
           r == GatherCell(o, column, hasNulls, local, dst, j)
<1>4. r = [o EXCEPT ![d] = [value |-> IF present THEN x ELSE o[d].value, present |-> present]]
  <2>1. DOMAIN o = 1..n
    OBVIOUS
  <2> QED
    BY <2>1, Zenon DEF GatherCell
<1>2. present <=> x # Null
  OBVIOUS
<1>3. d \in 1..n /\ x \in Int \cup {Null} /\ present \in BOOLEAN
  OBVIOUS
<1> HIDE DEF d, x, present, r
<1>5. [value |-> IF present THEN x ELSE o[d].value, present |-> present] \in Cells
  <2>1. o[d].value \in Int
    BY <1>3 DEF Cells
  <2> QED
    BY <1>2, <1>3, <2>1 DEF Cells
<1>6. r \in [1..n -> Cells] /\ r[d] = [value |-> IF present THEN x ELSE o[d].value, present |-> present]
      /\ \A e \in 1..n : e # d => r[e] = o[e]
  <2> DEFINE c == [value |-> IF present THEN x ELSE o[d].value, present |-> present]
  <2>1. c \in Cells /\ r = [o EXCEPT ![d] = c]
    BY <1>4, <1>5
  <2> HIDE DEF c
  <2>2. r \in [1..n -> Cells] /\ r[d] = c /\ \A e \in 1..n : e # d => r[e] = o[e]
    BY <1>3, <2>1
  <2> QED
    BY <2>2 DEF c
<1>7. Shown(r[d], x)
  BY <1>2, <1>6 DEF Shown
<1> QED
  BY <1>6, <1>7, Zenon DEF CellSet, d, x, r

\* What gather_column changes: the cells at dst say what the column has there.
Gathered(g, out, n, column, at, dst, m) ==
    /\ g \in [1..n -> Cells]
    /\ \A d \in 1..n : IF \E a \in 1..m : dst[a] = d THEN Shown(g[d], column[at[d] + 1]) ELSE g[d] = out[d]

(* gather_column writes the cells it is told to and leaves the others. *)
LEMMA GatherColumnIs ==
  ASSUME NEW n, NEW out \in [1..n -> Cells], NEW L \in Nat, NEW column \in [1..L -> Int \cup {Null}],
         NEW hasNulls \in BOOLEAN, \A i \in 1..L : column[i] = Null => hasNulls,
         NEW m \in Nat, NEW local, DOMAIN local = 1..m, NEW dst \in [1..m -> 1..n],
         NEW at, \A j \in 1..m : local[j] = at[dst[j]] /\ local[j] \in 0..(L - 1)
  PROVE  Gathered(GatherColumn(out, column, hasNulls, local, dst), out, n, column, at, dst, m)
<1> DEFINE s == [j \in DOMAIN local |-> j]
           g == GatherColumn(out, column, hasNulls, local, dst)
<1>1. Len(s) = m /\ \A k \in 1..m : s[k] = k
  <2>1. s \in [1..m -> 1..m]
    OBVIOUS
  <2> QED
    BY <2>1, SequenceOf
<1>2. PICK f : /\ f[0] = out
               /\ \A k \in 1..m : f[k] = GatherCell(f[k - 1], column, hasNulls, local, dst, k)
               /\ g = f[m]
  <2>1. Len(s) \in Nat
    BY <1>1
  <2>2. PICK f : GatherRun(f, out, column, hasNulls, local, dst)
    BY <2>1, GatherRuns, Zenon
  <2>3. f[0] = out /\ (\A k \in 1..Len(s) : f[k] = GatherCell(f[k - 1], column, hasNulls, local, dst, s[k])) /\ g = f[Len(s)]
    BY <2>2, Zenon DEF GatherRun
  <2> HIDE DEF s, g
  <2>4. \A k \in 1..m : f[k] = GatherCell(f[k - 1], column, hasNulls, local, dst, k)
    <3> TAKE k \in 1..m
    <3>1. k \in 1..Len(s) /\ s[k] = k
      BY <1>1, Zenon
    <3> QED
      BY <2>3, <3>1, Zenon
  <2> QED
    BY <1>1, <2>3, <2>4, Zenon
<1> HIDE DEF s, g
<1> DEFINE Q == {k \in 0..m : Gathered(f[k], out, n, column, at, dst, k)}
<1>3. 0 \in Q
  <2>1. Gathered(f[0], out, n, column, at, dst, 0)
    <3>1. \A e \in 1..n : ~\E a \in 1..0 : dst[a] = e
      OBVIOUS
    <3>2. f[0] \in [1..n -> Cells] /\ \A e \in 1..n : f[0][e] = out[e]
      BY <1>2
    <3> QED
      BY <3>1, <3>2, Zenon DEF Gathered
  <2> QED
    BY <2>1
<1>4. ASSUME NEW k \in 1..m, k - 1 \in Q
      PROVE  k \in Q
  <2> DEFINE o == f[k - 1]
             d == dst[k]
             x == column[local[k] + 1]
  <2>1. /\ o \in [1..n -> Cells]
        /\ \A e \in 1..n : IF \E a \in 1..(k - 1) : dst[a] = e THEN Shown(o[e], column[at[e] + 1]) ELSE o[e] = out[e]
    BY <1>4, Zenon DEF Gathered
  <2>2. d \in 1..n /\ local[k] = at[d] /\ local[k] \in 0..(L - 1)
    BY <1>4
  <2>3. Len(column) = L
    BY SequenceOf, Zenon
  <2>4. ~(local[k] >= Len(column)) /\ local[k] + 1 \in 1..L
    BY <2>2, <2>3
  <2>5. CellSet(f[k], o, n, d, x)
    <3>1. f[k] = GatherCell(o, column, hasNulls, local, dst, k)
      BY <1>2, Zenon
    <3>2. x \in Int \cup {Null} /\ (x = Null => hasNulls)
      BY <2>4
    <3> HIDE DEF o
    <3>3. CellSet(GatherCell(o, column, hasNulls, local, dst, k), o, n, d, x)
      BY <2>1, <2>2, <2>4, <3>2, GatherCellIs, Zenon
    <3> QED
      BY <3>1, <3>3, Zenon
  <2>6. f[k] \in [1..n -> Cells] /\ Shown(f[k][d], x) /\ \A e \in 1..n : e # d => f[k][e] = o[e]
    BY <2>5, Zenon DEF CellSet
  <2>7. \A a : a \in 1..k <=> a \in 1..(k - 1) \/ a = k
    BY <1>4
  <2>8. \A e \in 1..n : IF \E a \in 1..k : dst[a] = e THEN Shown(f[k][e], column[at[e] + 1]) ELSE f[k][e] = out[e]
    <3> TAKE e \in 1..n
    <3>1. CASE e = d
      <4>1. \E a \in 1..k : dst[a] = e
        BY <2>7, <3>1, Zenon
      <4>2. Shown(f[k][e], column[at[e] + 1])
        BY <2>2, <2>6, <3>1, Zenon
      <4> QED
        BY <4>1, <4>2, Zenon
    <3>2. CASE e # d
      <4>1. f[k][e] = o[e]
        BY <2>6, <3>2, Zenon
      <4>2. (\E a \in 1..k : dst[a] = e) <=> (\E a \in 1..(k - 1) : dst[a] = e)
        BY <2>7, <3>2, Zenon
      <4> HIDE DEF o
      <4> QED
        BY <2>1, <4>1, <4>2, Zenon
    <3> QED
      BY <3>1, <3>2, Zenon
  <2>9. Gathered(f[k], out, n, column, at, dst, k)
    BY <2>6, <2>8, Zenon DEF Gathered
  <2> QED
    BY <1>4, <2>9
<1> HIDE DEF Q
<1>5. m \in Q
  BY <1>3, <1>4, AllReached, Zenon
<1> QED
  BY <1>2, <1>5, Zenon DEF Q, g

(* Where the cells of a row are. *)
LEMMA RowPlace ==
  ASSUME AnswerableTable(table), NEW r \in AllRows, NEW col \in {"k", "v"}
  PROVE  LET c == r \div RowsPerChunk
             L == Len(table[c + 1]["k"])
         IN  /\ c \in Int /\ c + 1 \in Chunks /\ L \in Nat /\ r % RowsPerChunk \in 0..(L - 1)
             /\ table[c + 1][col] \in [1..L -> Int \cup {Null}]
             /\ Cell(r, col) = table[c + 1][col][(r % RowsPerChunk) + 1]
<1>1. PICK d \in Chunks : r \in RowsOf(d, DOMAIN table[d]["k"])
  BY Zenon DEF AllRows
<1>2. PICK i \in DOMAIN table[d]["k"] : r = RowId(d, i)
  BY <1>1, Zenon DEF RowsOf
<1>3. r \in Nat /\ ChunkOf(r) = d /\ Within(r) = i
  BY <1>1, <1>2, RowIdIs, Zenon
<1>4. RowsPerChunk \in Nat \ {0}
  BY RowsAssumption
<1>5. (r \div RowsPerChunk) \in Int /\ (r % RowsPerChunk) \in Int /\ (r \div RowsPerChunk) + 1 = d /\ (r % RowsPerChunk) + 1 = i
  BY <1>3, <1>4 DEF ChunkOf, Within
<1>6. PlainChunk(table[d])
  BY <1>1, Zenon DEF AnswerableTable, Chunks
<1>7. table[d]["k"] \in Seq(Int \cup {Null}) /\ table[d]["v"] \in Seq(Int \cup {Null}) /\ Len(table[d]["k"]) = Len(table[d]["v"])
  BY <1>6, Zenon DEF PlainChunk, Plain
<1>8. table[d][col] \in [1..Len(table[d]["k"]) -> Int \cup {Null}] /\ Len(table[d]["k"]) \in Nat
      /\ DOMAIN table[d]["k"] = 1..Len(table[d]["k"])
  BY <1>7
<1>9. i \in 1..Len(table[d]["k"])
  BY <1>2, <1>8
<1>10. Cell(r, col) = table[d][col][i]
  BY <1>3, Zenon DEF Cell
<1> QED
  BY <1>5, <1>8, <1>9, <1>10

\* What GroupRowIdsByChunk says of a chunk.
RowsThere(rows, n, c, dst, local) ==
    /\ Len(dst) \in Nat /\ dst \in [1..Len(dst) -> 1..n] /\ DOMAIN local = 1..Len(dst)
    /\ \A j \in 1..Len(dst) : local[j] = rows[dst[j]] % RowsPerChunk /\ rows[dst[j]] \div RowsPerChunk = c
    /\ \A i \in 1..n : rows[i] \div RowsPerChunk = c => \E j \in 1..Len(dst) : dst[j] = i

(* groupRowIdsByChunk sends every row to its chunk. *)
LEMMA RowsByChunk ==
  ASSUME NEW n \in Nat, NEW rows, DOMAIN rows = 1..n, NEW c \in {r \div RowsPerChunk : r \in Range(rows)}
  PROVE  RowsThere(rows, n, c, GroupRowIdsByChunk(rows)[c].dst, GroupRowIdsByChunk(rows)[c].local)
<1> DEFINE I == {i \in DOMAIN rows : rows[i] \div RowsPerChunk = c}
           dst == Ascending(I)
           local == [j \in DOMAIN dst |-> rows[dst[j]] % RowsPerChunk]
           m == Cardinality(I)
<1>1. GroupRowIdsByChunk(rows)[c] = [local |-> local, dst |-> dst]
  BY Zenon DEF GroupRowIdsByChunk
<1>2. GroupRowIdsByChunk(rows)[c].dst = dst /\ GroupRowIdsByChunk(rows)[c].local = local
  BY <1>1
<1>3. I \in SUBSET Int /\ IsFiniteSet(I) /\ I \in SUBSET (1..n)
  <2>1. IsFiniteSet(1..n)
    <3>1. 1 \in Int /\ n \in Int
      OBVIOUS
    <3> QED
      BY <3>1, FS_Interval, Zenon
  <2>2. I \in SUBSET (1..n)
    OBVIOUS
  <2>3. IsFiniteSet(I)
    BY <2>1, <2>2, FS_Subset
  <2> QED
    BY <2>2, <2>3
<1>4. \A i : i \in I <=> i \in 1..n /\ rows[i] \div RowsPerChunk = c
  BY Zenon
<1> HIDE DEF I
<1>5. /\ m \in Nat /\ dst \in [1..m -> I] /\ Len(dst) = m
      /\ \A x \in I : \E i \in 1..m : dst[i] = x
  BY <1>3, AscendingIs
<1> HIDE DEF m, dst
<1>6. DOMAIN dst = 1..m /\ \A j \in 1..m : dst[j] \in 1..n /\ rows[dst[j]] \div RowsPerChunk = c
  BY <1>4, <1>5
<1>7. dst \in [1..m -> 1..n] /\ DOMAIN local = 1..m /\ \A j \in 1..m : local[j] = rows[dst[j]] % RowsPerChunk
  BY <1>5, <1>6
<1>8. \A i \in 1..n : rows[i] \div RowsPerChunk = c => \E j \in 1..m : dst[j] = i
  BY <1>4, <1>5, Zenon
<1>9. RowsThere(rows, n, c, dst, local)
  BY <1>5, <1>6, <1>7, <1>8, Zenon DEF RowsThere
<1> QED
  BY <1>2, <1>9, Zenon

\* A projection of n rows with the cells of the chunks in done.
ProjectedOf(proj, select, rows, n, done) ==
    /\ DOMAIN proj = DOMAIN select
    /\ \A j \in DOMAIN select :
         /\ proj[j] \in [1..n -> Cells]
         /\ \A i \in 1..n : rows[i] \div RowsPerChunk \in done => Shown(proj[j][i], Cell(rows[i], select[j]))

\* A column of it.
ColumnOf(g, rows, n, done, col) ==
    /\ g \in [1..n -> Cells]
    /\ \A i \in 1..n : rows[i] \div RowsPerChunk \in done => Shown(g[i], Cell(rows[i], col))

(* One column of a chunk more. *)
LEMMA ColumnProjected ==
  ASSUME AnswerableTable(table), NEW n \in Nat, NEW rows \in [1..n -> AllRows],
         NEW c \in {r \div RowsPerChunk : r \in Range(rows)},
         NEW col \in {"k", "v"}, NEW hasNulls \in BOOLEAN, Null \in Range(table[c + 1][col]) => hasNulls,
         NEW done, NEW out, ColumnOf(out, rows, n, done, col)
  PROVE  ColumnOf(GatherColumn(out, table[c + 1][col], hasNulls,
                               GroupRowIdsByChunk(rows)[c].local, GroupRowIdsByChunk(rows)[c].dst),
                  rows, n, done \cup {c}, col)
<1> DEFINE g == GatherColumn(out, table[c + 1][col], hasNulls,
                             GroupRowIdsByChunk(rows)[c].local, GroupRowIdsByChunk(rows)[c].dst)
           dst == GroupRowIdsByChunk(rows)[c].dst
           local == GroupRowIdsByChunk(rows)[c].local
           m == Len(dst)
           column == table[c + 1][col]
           L == Len(table[c + 1]["k"])
           at == [i \in 1..n |-> rows[i] % RowsPerChunk]
<1>1. RowsThere(rows, n, c, dst, local)
  <2>1. DOMAIN rows = 1..n
    OBVIOUS
  <2> QED
    BY <2>1, RowsByChunk, Zenon
<1> HIDE DEF dst, local, g
<1>a. /\ out \in [1..n -> Cells]
      /\ \A i \in 1..n : rows[i] \div RowsPerChunk \in done => Shown(out[i], Cell(rows[i], col))
  BY Zenon DEF ColumnOf
<1>2. /\ m \in Nat /\ dst \in [1..m -> 1..n] /\ DOMAIN local = 1..m
      /\ \A j \in 1..m : local[j] = rows[dst[j]] % RowsPerChunk /\ rows[dst[j]] \div RowsPerChunk = c
      /\ \A i \in 1..n : rows[i] \div RowsPerChunk = c => \E j \in 1..m : dst[j] = i
  BY <1>1, Zenon DEF RowsThere
<1>3. ASSUME NEW i \in 1..n, rows[i] \div RowsPerChunk = c
      PROVE  /\ L \in Nat /\ rows[i] % RowsPerChunk \in 0..(L - 1) /\ column \in [1..L -> Int \cup {Null}]
             /\ Cell(rows[i], col) = column[at[i] + 1]
  <2>1. rows[i] \in AllRows /\ at[i] = rows[i] % RowsPerChunk
    OBVIOUS
  <2> QED
    BY <1>3, <2>1, RowPlace
<1>4. L \in Nat /\ column \in [1..L -> Int \cup {Null}]
  <2>1. PICK r \in Range(rows) : c = r \div RowsPerChunk
    OBVIOUS
  <2>2. PICK i \in 1..n : r = rows[i]
    BY Zenon DEF Range
  <2> QED
    BY <1>3, <2>1, <2>2
<1>5. \A j \in 1..m : local[j] = at[dst[j]] /\ local[j] \in 0..(L - 1)
  <2> TAKE j \in 1..m
  <2>1. dst[j] \in 1..n /\ rows[dst[j]] \div RowsPerChunk = c /\ local[j] = rows[dst[j]] % RowsPerChunk
    BY <1>2
  <2>2. rows[dst[j]] % RowsPerChunk \in 0..(L - 1)
    BY <1>3, <2>1, Zenon
  <2> QED
    BY <2>1, <2>2
<1>6. \A i \in 1..L : column[i] = Null => hasNulls
  <2> TAKE i \in 1..L
  <2>1. i \in DOMAIN column
    BY <1>4
  <2> QED
    BY <2>1, Zenon DEF Range
<1> HIDE DEF m, column, L, at
<1>7. Gathered(GatherColumn(out, column, hasNulls, local, dst), out, n, column, at, dst, m)
  BY <1>a, <1>2, <1>4, <1>5, <1>6, GatherColumnIs, Zenon
<1>8. g = GatherColumn(out, column, hasNulls, local, dst)
  BY Zenon DEF column, local, dst, g
<1>9. /\ g \in [1..n -> Cells]
      /\ \A d \in 1..n : IF \E a \in 1..m : dst[a] = d THEN Shown(g[d], column[at[d] + 1]) ELSE g[d] = out[d]
  BY <1>7, <1>8, Zenon DEF Gathered
<1>10. ASSUME NEW i \in 1..n, rows[i] \div RowsPerChunk \in done \cup {c}
       PROVE  Shown(g[i], Cell(rows[i], col))
  <2>1. CASE rows[i] \div RowsPerChunk = c
    <3>1. \E a \in 1..m : dst[a] = i
      BY <1>2, <2>1, Zenon
    <3>2. Shown(g[i], column[at[i] + 1])
      BY <1>9, <3>1, Zenon
    <3> QED
      BY <1>3, <2>1, <3>2, Zenon
  <2>2. CASE rows[i] \div RowsPerChunk # c
    <3>1. ~\E a \in 1..m : dst[a] = i
      BY <1>2, <2>2, Zenon
    <3>2. g[i] = out[i] /\ rows[i] \div RowsPerChunk \in done
      BY <1>9, <1>10, <2>2, <3>1
    <3> QED
      BY <1>a, <3>2, Zenon
  <2> QED
    BY <2>1, <2>2
<1> QED
  BY <1>9, <1>10, Zenon DEF ColumnOf, g

(* One chunk more. *)
LEMMA ChunkProjected ==
  ASSUME AnswerableTable(table), NEW n \in Nat, NEW rows \in [1..n -> AllRows],
         NEW select \in Seq({"k", "v"}), NEW c \in {r \div RowsPerChunk : r \in Range(rows)},
         NEW proj, NEW done, ProjectedOf(proj, select, rows, n, done)
  PROVE  ProjectedOf(ProjectChunk(proj, select, rows, table, c), select, rows, n, done \cup {c})
<1> DEFINE chunk == table[c + 1]
           dst == GroupRowIdsByChunk(rows)[c].dst
           local == GroupRowIdsByChunk(rows)[c].local
           pages == PageDescs(chunk, select)
           next1 == ProjectChunk(proj, select, rows, table, c)
<1>1. next1 = [j \in DOMAIN select |-> GatherColumn(proj[j], chunk[select[j]], <<"null", select[j]>> \in pages, local, dst)]
  BY Zenon DEF ProjectChunk, MaterializeChunk
<1> HIDE DEF next1
<1>2. ASSUME NEW j \in DOMAIN select
      PROVE  /\ next1[j] \in [1..n -> Cells]
             /\ \A i \in 1..n : rows[i] \div RowsPerChunk \in done \cup {c} => Shown(next1[j][i], Cell(rows[i], select[j]))
  <2> DEFINE col == select[j]
             hasNulls == <<"null", col>> \in pages
  <2>1. col \in {"k", "v"}
    OBVIOUS
  <2>2. hasNulls \in BOOLEAN /\ (Null \in Range(chunk[col]) => hasNulls)
    <3>1. col \in Range(select)
      BY Zenon DEF Range
    <3>2. Null \in Range(chunk[col]) => hasNulls
      BY <3>1, Zenon DEF PageDescs
    <3>3. hasNulls \in BOOLEAN
      OBVIOUS
    <3> QED
      BY <3>2, <3>3
  <2>3. ColumnOf(proj[j], rows, n, done, col)
    BY Zenon DEF ProjectedOf, ColumnOf
  <2>4. next1[j] = GatherColumn(proj[j], table[c + 1][col], hasNulls, local, dst)
    BY <1>1, Zenon
  <2> HIDE DEF hasNulls, col
  <2>5. ColumnOf(GatherColumn(proj[j], table[c + 1][col], hasNulls, local, dst), rows, n, done \cup {c}, col)
    BY <2>1, <2>2, <2>3, ColumnProjected, Zenon
  <2>6. ColumnOf(next1[j], rows, n, done \cup {c}, col)
    BY <2>4, <2>5, Zenon
  <2> QED
    BY <2>6, Zenon DEF ColumnOf, col
<1>3. DOMAIN next1 = DOMAIN select
  BY <1>1, Zenon
<1> QED
  BY <1>2, <1>3, Zenon DEF ProjectedOf, next1

(* materializeSelectProjection: each cell is that of its row. *)
LEMMA MaterializedIs ==
  ASSUME AnswerableTable(table), NEW n \in Nat, NEW rows \in [1..n -> AllRows], rows # <<>>,
         NEW select \in Seq({"k", "v"}), select # <<>>, NEW j \in DOMAIN select, NEW i \in 1..n
  PROVE  Materialize(select, rows, table)[j][i] \in Cells
         /\ Shown(Materialize(select, rows, table)[j][i], Cell(rows[i], select[j]))
<1> DEFINE D == {r \div RowsPerChunk : r \in Range(rows)}
           s == Ascending(D)
           m == Cardinality(D)
           p == Projected(select, rows, table)
           base == InitProjection(select, Len(rows))
<1>0. RowsPerChunk \in Nat \ {0} /\ AllRows \in SUBSET Nat
  BY RowsAssumption, RowOrders
<1>1. Materialize(select, rows, table) = p
  BY Zenon DEF Materialize, Projected, ProjectChunk, Fold
<1>2. DOMAIN GroupRowIdsByChunk(rows) = D
  BY Zenon DEF GroupRowIdsByChunk
<1>3. Len(rows) = n /\ \A e \in 1..n : rows[e] \in Range(rows)
  <2>1. Len(rows) = n
    BY SequenceOf, Zenon
  <2> QED
    BY <2>1, Zenon DEF Range
<1>4. D \in SUBSET Int /\ IsFiniteSet(D)
  <2>1. Range(rows) \in SUBSET AllRows
    BY DEF Range
  <2> DEFINE N == Len(table)
  <2>2. Chunks = 1..N /\ N \in Nat
    BY ChunksAre
  <2>3. ASSUME NEW c \in D
        PROVE  c \in 0..N
    <3>1. PICK r \in Range(rows) : c = r \div RowsPerChunk
      BY <2>3
    <3>2. r \in AllRows
      BY <2>1
    <3>3. c \in Int /\ c + 1 \in Chunks
      BY <3>1, <3>2, RowPlace
    <3> QED
      BY <2>2, <3>3
  <2> HIDE DEF N
  <2>4. IsFiniteSet(0..N)
    <3>1. 0 \in Int /\ N \in Int
      BY <2>2
    <3> QED
      BY <3>1, FS_Interval, Zenon
  <2> HIDE DEF D
  <2>5. D \in SUBSET (0..N)
    BY <2>3
  <2>6. IsFiniteSet(D)
    BY <2>4, <2>5, FS_Subset
  <2> QED
    BY <2>3, <2>6
<1>5. \A e \in 1..n : rows[e] \div RowsPerChunk \in D
  BY <1>3
<1>a. ProjectedOf(base, select, rows, n, {})
  <2>1. base = [b \in DOMAIN select |-> [e \in 1..n |-> [value |-> 0, present |-> FALSE]]]
    BY <1>3, Zenon DEF InitProjection
  <2>2. [value |-> 0, present |-> FALSE] \in Cells
    BY DEF Cells
  <2>3. DOMAIN base = DOMAIN select /\ \A b \in DOMAIN select : base[b] \in [1..n -> Cells]
    BY <2>1, <2>2
  <2> HIDE DEF base
  <2> QED
    BY <2>3 DEF ProjectedOf
<1>b. \A c \in D : \A q, done : ProjectedOf(q, select, rows, n, done) =>
                       ProjectedOf(ProjectChunk(q, select, rows, table, c), select, rows, n, done \cup {c})
  BY ChunkProjected, Zenon
<1> HIDE DEF D, base
<1>6. /\ m \in Nat /\ s \in [1..m -> D] /\ Len(s) = m
      /\ \A x \in D : \E e \in 1..m : s[e] = x
  BY <1>4, AscendingIs
<1>7. PICK f : /\ f[0] = base
               /\ \A k \in 1..m : f[k] = ProjectChunk(f[k - 1], select, rows, table, s[k])
               /\ p = f[m]
  <2>1. Len(Ascending(DOMAIN GroupRowIdsByChunk(rows))) = m
    BY <1>2, <1>6, Zenon
  <2>2. PICK f : ProjectRun(f, select, rows, table)
    BY <1>6, <2>1, ProjectRuns, Zenon
  <2>3. f[0] = base /\ (\A k \in 1..Len(s) : f[k] = ProjectChunk(f[k - 1], select, rows, table, s[k])) /\ p = f[Len(s)]
    BY <1>2, <2>2, Zenon DEF ProjectRun, base
  <2> HIDE DEF s, p
  <2> QED
    BY <1>6, <2>3, Zenon
<1> HIDE DEF s, p, m
<1> DEFINE Done1(k) == {s[a] : a \in 1..k}
           Q == {k \in 0..m : ProjectedOf(f[k], select, rows, n, Done1(k))}
<1>8. 0 \in Q
  <2>1. Done1(0) = {}
    OBVIOUS
  <2> HIDE DEF Done1
  <2>2. ProjectedOf(f[0], select, rows, n, Done1(0))
    BY <1>7, <1>a, <2>1, Zenon
  <2> QED
    BY <1>6, <2>2
<1>9. ASSUME NEW k \in 1..m, k - 1 \in Q
      PROVE  k \in Q
  <2>1. \A a : a \in 1..k <=> a \in 1..(k - 1) \/ a = k
    BY <1>6, <1>9
  <2>2. Done1(k) = Done1(k - 1) \cup {s[k]}
    <3>1. \A x \in Done1(k) : x \in Done1(k - 1) \cup {s[k]}
      BY <2>1
    <3>2. \A x \in Done1(k - 1) : x \in Done1(k)
      BY <2>1
    <3>3. s[k] \in Done1(k)
      BY <1>9
    <3> HIDE DEF Done1
    <3> QED
      BY <3>1, <3>2, <3>3
  <2>3. ProjectedOf(f[k - 1], select, rows, n, Done1(k - 1)) /\ k \in 0..m /\ s[k] \in D
    BY <1>6, <1>9
  <2> HIDE DEF Done1
  <2>4. ProjectedOf(f[k], select, rows, n, Done1(k))
    <3>1. ProjectedOf(ProjectChunk(f[k - 1], select, rows, table, s[k]), select, rows, n, Done1(k - 1) \cup {s[k]})
      BY <1>b, <2>3, Zenon
    <3>2. f[k] = ProjectChunk(f[k - 1], select, rows, table, s[k])
      BY <1>7, Zenon
    <3> QED
      BY <2>2, <3>1, <3>2, Zenon
  <2> QED
    BY <2>3, <2>4
<1> HIDE DEF Q
<1>10. m \in Q
  BY <1>6, <1>8, <1>9, AllReached, Zenon
<1>11. ProjectedOf(p, select, rows, n, Done1(m))
  BY <1>7, <1>10, Zenon DEF Q
<1>12. rows[i] \div RowsPerChunk \in Done1(m)
  BY <1>5, <1>6, Zenon
<1> HIDE DEF Done1
<1>13. p[j] \in [1..n -> Cells] /\ Shown(p[j][i], Cell(rows[i], select[j]))
  BY <1>11, <1>12, Zenon DEF ProjectedOf
<1> QED
  BY <1>1, <1>13

\* A sequence of elements of S, and one of rows of the table.
IsList(w, S) == Len(w) \in Nat /\ w \in [1..Len(w) -> S]
IsRows(rows) == IsList(rows, AllRows)

(* A part of a sequence of elements of S is one. *)
LEMMA PartIsList ==
  ASSUME NEW S, NEW n \in Nat, NEW a \in [1..n -> S], NEW i \in Nat \ {0}, NEW k \in Nat, k <= n
  PROVE  IsList(SubSeq(a, i, k), S)
<1>1. a \in Seq(S) /\ Len(a) = n
  BY SequenceOf, Zenon
<1>2. SubSeq(a, i, k) = [j \in 1..(k - i + 1) |-> a[i + j - 1]]
  BY <1>1
<1>3. 1..(k - i + 1) = 1..(IF i <= k THEN k - i + 1 ELSE 0) /\ (IF i <= k THEN k - i + 1 ELSE 0) \in Nat
  OBVIOUS
<1>4. \A j \in 1..(k - i + 1) : i + j - 1 \in 1..n
  OBVIOUS
<1> DEFINE m == IF i <= k THEN k - i + 1 ELSE 0
           t == SubSeq(a, i, k)
<1> HIDE DEF m
<1>5. t = [j \in 1..m |-> a[i + j - 1]] /\ m \in Nat /\ \A j \in 1..m : i + j - 1 \in 1..n
  BY <1>2, <1>3, <1>4 DEF m
<1> HIDE DEF t
<1>6. t \in [1..m -> S] /\ \A j \in 1..m : t[j] = a[i + j - 1]
  BY <1>5
<1>7. Len(t) = m
  BY <1>5, <1>6, SequenceOf, Zenon
<1> QED
  BY <1>5, <1>6, <1>7, Zenon DEF IsList, t

(* The rows asked for are rows of the table. *)
LEMMA RightRowsAre ==
  ASSUME AnswerableTable(table), AnswerableQuery(query)
  PROVE  IsRows(RightRows)
<1> DEFINE m == Cardinality(Matching)
           s == SortedMatching
           k == IF query.offset + query.limit < m THEN query.offset + query.limit ELSE m
<1>1. m \in Nat /\ s \in [1..m -> AllRows]
  <2>1. Matching \in SUBSET AllRows /\ IsFiniteSet(Matching) /\ Orders(KeyOrder, Matching) /\ Lists(s, Matching, KeyOrder)
    BY SortedMatchingLists, Zenon
  <2>2. InPlace(s, Matching, KeyOrder)
    BY <2>1, ListedInPlace, Zenon
  <2>3. m \in Nat /\ s \in [1..m -> Matching]
    BY <2>2, Zenon DEF InPlace
  <2> HIDE DEF m, s
  <2> QED
    BY <2>1, <2>3
<1>2. query.limit \in Nat /\ query.offset \in Nat
  BY TakeIs, Zenon
<1> HIDE DEF m, s
<1>3. CASE query.limit = 0
  <2>1. RightRows = <<>>
    BY <1>3, Zenon DEF RightRows
  <2> QED
    BY <2>1 DEF IsRows, IsList
<1>4. CASE query.limit > 0
  <2>1. Len(s) = m
    BY <1>1, SequenceOf, Zenon
  <2>2. k \in Nat /\ k <= m
    BY <1>1, <1>2
  <2>3. RightRows = SubSeq(s, query.offset + 1, k)
    <3>1. RightRows = Window(s, query.limit, query.offset)
      BY <1>2, <1>4 DEF RightRows, s
    <3>2. Smaller(query.offset + query.limit, m) = k
      BY Zenon DEF Smaller
    <3>3. Window(s, query.limit, query.offset) = SubSeq(s, query.offset + 1, Smaller(query.offset + query.limit, m))
      BY <1>4, <2>1, Zenon DEF Window
    <3> QED
      BY <3>1, <3>2, <3>3, Zenon
  <2> HIDE DEF k
  <2>4. query.offset + 1 \in Nat \ {0}
    BY <1>2
  <2>5. IsRows(SubSeq(s, query.offset + 1, k))
    BY <1>1, <2>2, <2>4, PartIsList, Zenon DEF IsRows
  <2> QED
    BY <2>3, <2>5
<1> QED
  BY <1>2, <1>3, <1>4

(* Every answer is of rows of the table. *)
LEMMA AnsweredRows ==
  ASSUME Answerable, Kept, Done
  PROVE  IsRows(result.rows)
<1>1. path \in {"workers", "local"} /\ AnswerableTable(table) /\ AnswerableQuery(query)
  BY Zenon DEF Kept, Answerable
<1>2. CASE path = "workers" \/ query.order # <<>> \/ query.offset = 0
  <2>1. result.rows = RightRows
    BY <1>2, AnswerRowsAre, Zenon
  <2> QED
    BY <1>1, <2>1, RightRowsAre, Zenon
<1>3. CASE path = "local" /\ query.order = <<>>
  <2>1. result = Answered(plan, LocalRows(plan, query))
    BY <1>3, LocalAnswer, Zenon
  <2>2. result.rows = plan.rows
    BY <1>3, <2>1 DEF Answered, ReadResult, LocalRows
  <2>3. PICK k \in 0..Len(table) : PlanOf(plan, Seen(k))
    BY <1>3, LocalAnswer, Zenon
  <2>4. PlanRows(plan, Seen(k)) /\ Seen(k) \in SUBSET AllRows
    BY <1>1, <2>3, MatchingSeen, Zenon DEF PlanOf
  <2>5. CASE query.limit = 0
    <3>1. plan.rows = <<>>
      BY <2>4, <2>5, Zenon DEF PlanRows
    <3>2. IsRows(plan.rows)
      BY <3>1 DEF IsRows, IsList
    <3> QED
      BY <2>2, <3>2
  <2>6. CASE query.limit > 0
    <3>1. RowsKept(plan.rows, Seen(k))
      BY <1>3, <2>4, <2>6, Zenon DEF PlanRows
    <3>2. Len(plan.rows) \in Nat /\ plan.rows \in [1..Len(plan.rows) -> Seen(k)]
      BY <1>1, <2>4, <3>1, KeptRowsAre, Zenon
    <3>3. IsRows(plan.rows)
      <4> DEFINE n == Len(plan.rows)
      <4>1. n \in Nat /\ plan.rows \in [1..n -> Seen(k)]
        BY <3>2
      <4> HIDE DEF n
      <4>2. plan.rows \in [1..n -> AllRows]
        BY <2>4, <4>1
      <4> QED
        BY <4>1, <4>2, Zenon DEF IsRows, IsList, n
    <3> QED
      BY <2>2, <3>3
  <2> QED
    BY <1>1, <2>5, <2>6, TakeIs, Zenon
<1> QED
  BY <1>1, <1>2, <1>3, Zenon

(* ProjectionAligned, on either path. *)
THEOREM AnswerProjection ==
  ASSUME Answerable
  PROVE  Spec => []ProjectionAligned
<1>1. Init => Kept
  BY InitKept
<1>2. Kept /\ [Next]_vars => Kept'
  BY NextKept
<1>3. Kept => ProjectionAligned
  <2> SUFFICES ASSUME Kept, Done, query.select # <<>>, result.rows # <<>>,
                      NEW j \in DOMAIN query.select, NEW i \in DOMAIN result.rows
               PROVE  LET x == Cell(result.rows[i], query.select[j])
                          p == result.projection[j][i]
                      IN  p.present = (x # Null) /\ (x # Null => p.value = x)
    BY DEF ProjectionAligned
  <2> DEFINE x == Cell(result.rows[i], query.select[j])
             p == result.projection[j][i]
             rows == result.rows
             n == Len(rows)
  <2>1. path \in {"workers", "local"} /\ AnswerableTable(table) /\ AnswerableQuery(query)
    BY Zenon DEF Kept, Answerable
  <2>2. result.projection = Materialize(query.select, rows, table)
    <3>1. CASE path = "workers"
      <4>1. result = Answered(Reduced, ReducerRows(Reduced, query))
        BY <3>1, WorkersAnswer, Zenon
      <4> QED
        BY <4>1 DEF Answered, ReadResult
    <3>2. CASE path = "local"
      <4>1. result = Answered(plan, LocalRows(plan, query))
        BY <3>2, LocalAnswer, Zenon
      <4> QED
        BY <4>1 DEF Answered, ReadResult
    <3> QED
      BY <2>1, <3>1, <3>2, Zenon
  <2>3. n \in Nat /\ rows \in [1..n -> AllRows]
    BY AnsweredRows, Zenon DEF IsRows, IsList
  <2>4. query.select \in Seq({"k", "v"})
    BY <2>1, Zenon DEF AnswerableQuery
  <2>5. i \in 1..n
    BY <2>3
  <2> HIDE DEF rows, n
  <2>6. Materialize(query.select, rows, table)[j][i] \in Cells
        /\ Shown(Materialize(query.select, rows, table)[j][i], Cell(rows[i], query.select[j]))
    <3>1. rows # <<>>
      BY DEF rows
    <3> QED
      BY <2>1, <2>3, <2>4, <2>5, <3>1, MaterializedIs, Zenon
  <2>7. p \in Cells /\ Shown(p, x)
    BY <2>2, <2>6, Zenon DEF rows
  <2>8. p.present \in BOOLEAN
    BY <2>7 DEF Cells
  <2> HIDE DEF p, x
  <2>9. (p.present <=> x # Null) /\ (x # Null => p.value = x)
    BY <2>7, Zenon DEF Shown
  <2>10. p.present = (x # Null)
    BY <2>8, <2>9, Zenon
  <2> QED
    BY <2>9, <2>10 DEF p, x
<1> QED
  BY <1>1, <1>2, <1>3, PTL DEF Spec

-----------------------------------------------------------------------------
(* The order of the groups. *)

\* By count, the larger first, and then by place.
Ranked(S, cnt, plc) ==
    {p \in S \X S : cnt[p[1]] > cnt[p[2]] \/ (cnt[p[1]] = cnt[p[2]] /\ plc[p[1]] < plc[p[2]])}
\* That is an order when no two have the same place.
RanksOrder(R, S, cnt, plc) ==
    /\ Orders(R, S)
    /\ \A a, b \in S : <<a, b>> \in R <=> cnt[a] > cnt[b] \/ (cnt[a] = cnt[b] /\ plc[a] < plc[b])

(* It is one. *)
LEMMA RankedOrders ==
  ASSUME NEW S, NEW cnt \in [S -> Int], NEW plc \in [S -> Int], \A a, b \in S : plc[a] = plc[b] => a = b
  PROVE  RanksOrder(Ranked(S, cnt, plc), S, cnt, plc)
<1> DEFINE R == Ranked(S, cnt, plc)
<1>1. \A a, b \in S : <<a, b>> \in R <=> cnt[a] > cnt[b] \/ (cnt[a] = cnt[b] /\ plc[a] < plc[b])
  BY DEF Ranked
<1>2. \A a \in S : cnt[a] \in Int /\ plc[a] \in Int
  OBVIOUS
<1> HIDE DEF R
<1>3. \A a \in S : <<a, a>> \notin R
  BY <1>1, <1>2
<1>4. \A a, b, c \in S : <<a, b>> \in R /\ <<b, c>> \in R => <<a, c>> \in R
  BY <1>1, <1>2
<1>5. \A a, b \in S : a # b => <<a, b>> \in R \/ <<b, a>> \in R
  BY <1>1, <1>2
<1>6. Orders(R, S)
  BY <1>3, <1>4, <1>5, Zenon DEF Orders
<1> QED
  BY <1>1, <1>6, Zenon DEF RanksOrder, R

\* The keys, their counts and their places as GroupBefore has them.
KeyCount ==
    [k \in Keys |-> IF /\ query.byCount /\ (query.limit > 0 \/ UsesHistogram(query))
                       /\ "count_star" \in Range(query.groupAggs)
                    THEN Cardinality(GroupOf(k)) ELSE 0]
KeyPlace == [k \in Keys |-> IF UsesHistogram(query) THEN k ELSE FirstRow(GroupOf(k))]
GroupRank == Ranked(Keys, KeyCount, KeyPlace)
\* A key and its rows.
KeyGroup(key) ==
    /\ key # Null /\ key \in 0..(DictLen - 1) /\ GroupOf(key) = InGroup(Matching, key)
    /\ GroupOf(key) \in SUBSET AllRows /\ GroupOf(key) # {} /\ Cardinality(GroupOf(key)) \in Nat
    /\ FirstRow(GroupOf(key)) \in GroupOf(key) /\ FirstRow(GroupOf(key)) \in Nat
    /\ \A r \in GroupOf(key) : FirstRow(GroupOf(key)) <= r

(* Every key has rows, and the first of them. *)
LEMMA KeyGroups ==
  ASSUME AnswerableTable(table), NEW key \in Keys
  PROVE  KeyGroup(key)
<1> DEFINE S == GroupOf(key)
<1>1. Matching \in SUBSET AllRows
  <2>1. Len(table) \in 0..Len(table)
    BY DEF AnswerableTable
  <2> QED
    BY <2>1, MatchingSeen, Zenon
<1>2. key # Null /\ \E r \in Matching : Cell(r, "k") = key
  BY DEF Keys
<1>3. S = InGroup(Matching, key) /\ S \in SUBSET AllRows /\ S # {}
  BY <1>1, <1>2 DEF GroupOf, InGroup
<1>4. key \in 0..(DictLen - 1)
  BY <1>1, <1>2, RowCells
<1>5. IsFiniteSet(S) /\ Cardinality(S) \in Nat /\ S \in SUBSET Nat /\ S \in SUBSET Int
  <2>1. IsFiniteSet(S) /\ S \in SUBSET Nat
    BY <1>3, RowsFinite, Zenon
  <2> QED
    BY <2>1, FS_CardinalityType
<1> HIDE DEF S
<1>6. \E x \in S : \A y \in S : x <= y
  BY <1>3, <1>5, LeastInt
<1>7. FirstRow(S) \in S /\ \A r \in S : FirstRow(S) <= r
  BY <1>6, Zenon DEF FirstRow, Min
<1>8. FirstRow(S) \in Nat
  BY <1>5, <1>7
<1> QED
  BY <1>2, <1>3, <1>4, <1>5, <1>7, <1>8, Zenon DEF KeyGroup, S

(* GroupBefore is an order of the keys, and Sorted lists them in it. *)
LEMMA KeyRanks ==
  ASSUME AnswerableTable(table)
  PROVE  /\ IsFiniteSet(Keys) /\ RanksOrder(GroupRank, Keys, KeyCount, KeyPlace)
         /\ Lists(Sorted(Keys, GroupBefore), Keys, GroupRank)
<1> DEFINE s == Sorted(Keys, GroupBefore)
           S == Keys
           n == Cardinality(S)
           R == GroupRank
<1>1. \A k \in Keys : KeyGroup(k)
  BY KeyGroups
<1>2. IsFiniteSet(S)
  <2>1. Keys \in SUBSET (0..(DictLen - 1))
    BY <1>1 DEF KeyGroup
  <2>2. 0 \in Int /\ DictLen - 1 \in Int
    BY DictLenAssumption
  <2>3. IsFiniteSet(0..(DictLen - 1))
    BY <2>2, FS_Interval, Zenon
  <2> QED
    BY <2>1, <2>3, FS_Subset
<1>a. KeyCount \in [Keys -> Int]
  <2>1. \A k \in Keys : Cardinality(GroupOf(k)) \in Int
    BY <1>1 DEF KeyGroup
  <2> QED
    BY <2>1 DEF KeyCount
<1>b. KeyPlace \in [Keys -> Int]
  <2>1. \A k \in Keys : k \in Int /\ FirstRow(GroupOf(k)) \in Int
    BY <1>1 DEF KeyGroup
  <2> QED
    BY <2>1 DEF KeyPlace
<1>c. \A a, b \in Keys : KeyPlace[a] = KeyPlace[b] => a = b
  <2> SUFFICES ASSUME NEW a \in Keys, NEW b \in Keys, KeyPlace[a] = KeyPlace[b]
               PROVE  a = b
    OBVIOUS
  <2>1. CASE UsesHistogram(query)
    BY <2>1, Zenon DEF KeyPlace
  <2>2. CASE ~UsesHistogram(query)
    <3>1. FirstRow(GroupOf(a)) = FirstRow(GroupOf(b))
      BY <2>2, Zenon DEF KeyPlace
    <3>2. \A k \in Keys : Cell(FirstRow(GroupOf(k)), "k") = k
      <4> SUFFICES ASSUME NEW k \in Keys
                   PROVE  Cell(FirstRow(GroupOf(k)), "k") = k
        BY Zenon
      <4>1. FirstRow(GroupOf(k)) \in GroupOf(k)
        BY <1>1, Zenon DEF KeyGroup
      <4> QED
        BY <4>1 DEF GroupOf
    <3> QED
      BY <3>1, <3>2, Zenon
  <2> QED
    BY <2>1, <2>2
<1>d. RanksOrder(R, Keys, KeyCount, KeyPlace)
  BY <1>a, <1>b, <1>c, RankedOrders, Zenon DEF GroupRank
<1>e. \A k \in Keys : /\ KeyCount[k] = IF /\ query.byCount /\ (query.limit > 0 \/ UsesHistogram(query))
                                          /\ "count_star" \in Range(query.groupAggs)
                                       THEN Cardinality(GroupOf(k)) ELSE 0
                      /\ KeyPlace[k] = IF UsesHistogram(query) THEN k ELSE FirstRow(GroupOf(k))
  BY Zenon DEF KeyCount, KeyPlace
<1>4. Orders(R, S) /\ \A x, y \in S : <<x, y>> \in R <=> GroupBefore(x, y)
  <2>1. \A x, y \in S : GroupBefore(x, y) <=> KeyCount[x] > KeyCount[y] \/ (KeyCount[x] = KeyCount[y] /\ KeyPlace[x] < KeyPlace[y])
    BY <1>e, Zenon DEF GroupBefore
  <2> QED
    BY <1>d, <2>1, Zenon DEF RanksOrder
<1>3. s = [i \in 1..n |-> CHOOSE x \in S : Cardinality({y \in S : GroupBefore(y, x)}) = i - 1]
  BY Zenon DEF Sorted
<1>5. \A x \in S : Under(x, S, R) = {y \in S : GroupBefore(y, x)}
  BY <1>4, Zenon DEF Under
<1> HIDE DEF S, s, n, R
<1>6. s = [i \in 1..n |-> s[i]]
      /\ \A i \in 1..n : s[i] = CHOOSE x \in S : Cardinality({y \in S : GroupBefore(y, x)}) = i - 1
  <2>1. DOMAIN s = 1..n
    BY <1>3, Zenon
  <2>2. \A i \in 1..n : s[i] = CHOOSE x \in S : Cardinality({y \in S : GroupBefore(y, x)}) = i - 1
    BY <1>3, Zenon
  <2> QED
    BY <1>3, <2>1, <2>2
<1>7. ASSUME NEW i \in 1..n, \E x \in S : Cardinality(Under(x, S, R)) = i - 1
      PROVE  s[i] \in S /\ Cardinality(Under(s[i], S, R)) = i - 1
  <2>1. \E x \in S : Cardinality({y \in S : GroupBefore(y, x)}) = i - 1
    BY <1>5, <1>7, Zenon
  <2>2. s[i] \in S /\ Cardinality({y \in S : GroupBefore(y, s[i])}) = i - 1
    BY <1>6, <2>1, Zenon
  <2> QED
    BY <1>5, <2>2, Zenon
<1>8. Lists(s, S, R)
  BY <1>2, <1>4, <1>6, <1>7, ChosenLists, Zenon DEF n
<1> QED
  BY <1>2, <1>d, <1>8, Zenon DEF s, S, R

(* Row counts order the groups. *)
LEMMA OrderValueIs ==
  ASSUME AnswerableQuery(query), NEW e, NEW B, GroupAggsOf(e.aggs, B)
  PROVE  OrderValue(e, query) = IF "count_star" \in Range(query.groupAggs) THEN Cardinality(B) ELSE 0
<1> DEFINE q == query.groupAggs
           N == Len(q)
           I == {i \in 1..N : q[i] = "count_star"}
<1>1. N \in Nat /\ DOMAIN q = 1..N
  <2>1. q \in Seq(AggKinds)
    BY Zenon DEF AnswerableQuery
  <2> QED
    BY <2>1
<1>2. \A i \in 1..N : AggOf(q[i], e.aggs[i], B)
  BY Zenon DEF GroupAggsOf
<1>3. OrderValue(e, query) = LET i == IF I # {} THEN Min(I) ELSE 0 IN IF i = 0 THEN 0 ELSE e.aggs[i].count
  BY Zenon DEF OrderValue, SelectInSeq
<1>4. CASE I = {}
  <2>1. "count_star" \notin Range(q)
    BY <1>1, <1>4, Zenon DEF Range
  <2>2. OrderValue(e, query) = 0
    BY <1>3, <1>4, Zenon
  <2> QED
    BY <2>1, <2>2, Zenon
<1>5. CASE I # {}
  <2>1. "count_star" \in Range(q)
    BY <1>1, <1>5, Zenon DEF Range
  <2>2. 1 \in Int /\ N \in Int
    BY <1>1
  <2>3. IsFiniteSet(1..N)
    BY <2>2, FS_Interval, Zenon
  <2>4. IsFiniteSet(I) /\ I \in SUBSET Int
    BY <2>3, FS_Subset
  <2>5. \E x \in I : \A y \in I : x <= y
    BY <1>5, <2>4, LeastInt
  <2>6. Min(I) \in I
    BY <2>5, Zenon DEF Min
  <2>7. Min(I) \in 1..N /\ q[Min(I)] = "count_star" /\ Min(I) # 0
    BY <2>6
  <2>8. OrderValue(e, query) = e.aggs[Min(I)].count
    BY <1>3, <1>5, <2>7, Zenon
  <2>9. AggOf("count_star", e.aggs[Min(I)], B)
    BY <1>2, <2>7, Zenon
  <2>10. e.aggs[Min(I)].count = Cardinality(B)
    BY <2>9, Zenon DEF AggOf, Counted
  <2> QED
    BY <2>1, <2>8, <2>10, Zenon
<1> QED
  BY <1>4, <1>5

\* The keys of a table of the matching rows: all of them, by first row.
TableKeys(g) ==
    /\ Len(g) \in Nat /\ \A j \in 1..Len(g) : g[j].key \in Keys
    /\ \A k \in Keys : \E j \in 1..Len(g) : g[j].key = k
    /\ \A i, j \in 1..Len(g) : i < j => KeyPlace[g[i].key] < KeyPlace[g[j].key]

(* A table has them in that order. *)
LEMMA TableKeysAre ==
  ASSUME AnswerableTable(table), ~UsesHistogram(query), NEW g, GroupsOf(g, Matching)
  PROVE  TableKeys(g)
<1> DEFINE n == Len(g)
<1>1. /\ n \in Nat
      /\ \A j \in 1..n : g[j].key # Null /\ InGroup(Matching, g[j].key) # {}
      /\ \A r \in Matching : Cell(r, "k") # Null => \E j \in 1..n : g[j].key = Cell(r, "k")
      /\ \A i, j \in 1..n : i < j => SeenFirst(Matching, g[i].key, g[j].key)
  BY Zenon DEF GroupsOf, IsGroups
<1>2. \A j \in 1..n : g[j].key \in Keys
  BY <1>1, Zenon DEF Keys, InGroup
<1>3. \A k \in Keys : \E j \in 1..n : g[j].key = k
  BY <1>1, Zenon DEF Keys
<1>4. ASSUME NEW i \in 1..n, NEW j \in 1..n, i < j
      PROVE  KeyPlace[g[i].key] < KeyPlace[g[j].key]
  <2> DEFINE a == g[i].key
             b == g[j].key
  <2>1. KeyGroup(a) /\ KeyGroup(b) /\ a \in Keys /\ b \in Keys
    BY <1>2, KeyGroups, Zenon
  <2>2. SeenFirst(Matching, a, b)
    BY <1>1, <1>4, Zenon
  <2>3. KeyPlace[a] = FirstRow(GroupOf(a)) /\ KeyPlace[b] = FirstRow(GroupOf(b))
    BY <2>1, Zenon DEF KeyPlace
  <2> HIDE DEF a, b
  <2>4. FirstRow(GroupOf(b)) \in InGroup(Matching, b)
    BY <2>1, Zenon DEF KeyGroup
  <2>5. PICK r \in InGroup(Matching, a) : r < FirstRow(GroupOf(b))
    BY <2>2, <2>4, Zenon DEF SeenFirst
  <2>6. r \in GroupOf(a) /\ GroupOf(a) \in SUBSET AllRows
    BY <2>1, Zenon DEF KeyGroup
  <2>7. FirstRow(GroupOf(a)) <= r /\ FirstRow(GroupOf(a)) \in Nat /\ FirstRow(GroupOf(b)) \in Nat
    BY <2>1, <2>6, Zenon DEF KeyGroup
  <2>8. r \in Nat
    BY <2>6, RowOrders
  <2>9. FirstRow(GroupOf(a)) < FirstRow(GroupOf(b))
    BY <2>5, <2>7, <2>8
  <2> QED
    BY <2>3, <2>9, Zenon DEF a, b
<1> QED
  BY <1>1, <1>2, <1>3, <1>4, Zenon DEF TableKeys

(* The row counts of its groups. *)
LEMMA TableValues ==
  ASSUME AnswerableTable(table), AnswerableQuery(query), NEW g, GroupsOf(g, Matching), NEW j \in 1..Len(g),
         g[j].key \in Keys
  PROVE  OrderValue(g[j], query) = IF "count_star" \in Range(query.groupAggs) THEN Cardinality(GroupOf(g[j].key)) ELSE 0
<1>1. GroupAggsOf(g[j].aggs, InGroup(Matching, g[j].key))
  BY Zenon DEF GroupsOf
<1>2. KeyGroup(g[j].key)
  BY KeyGroups, Zenon
<1>3. GroupOf(g[j].key) = InGroup(Matching, g[j].key)
  BY <1>2, Zenon DEF KeyGroup
<1>4. GroupAggsOf(g[j].aggs, GroupOf(g[j].key))
  BY <1>1, <1>3, Zenon
<1> QED
  BY <1>4, OrderValueIs, Zenon

\* The order a table is copied in.
TableValue(p) == [j \in 1..Len(p.groups) |-> OrderValue(p.groups[j], query)]
TableBefore(p, i, j) ==
    TableValue(p)[i] > TableValue(p)[j] \/ (TableValue(p)[i] = TableValue(p)[j] /\ i < j)
ByValue(p, S) == Sorted(S, LAMBDA i, j : TableBefore(p, i, j))
TableOrder(p) ==
    IF query.byCount /\ query.limit > 0 THEN ByValue(p, 1..Len(p.groups)) ELSE [j \in 1..Len(p.groups) |-> j]
\* All the places, in an order.
Permuted(p) ==
    LET n == Len(p.groups)
    IN  /\ n \in Nat /\ TableOrder(p) \in [1..n -> 1..n]
        /\ \A i \in 1..n : \E j \in 1..n : TableOrder(p)[j] = i
        /\ \A i, j \in 1..n : i < j =>
             IF query.byCount /\ query.limit > 0 THEN TableBefore(p, TableOrder(p)[i], TableOrder(p)[j])
             ELSE TableOrder(p)[i] < TableOrder(p)[j]

(* What Sorted lists, it lists in the order it is given. *)
LEMMA SortedByTable ==
  ASSUME NEW p, NEW S, IsFiniteSet(S), NEW R, Orders(R, S), \A x, y \in S : <<x, y>> \in R <=> TableBefore(p, x, y)
  PROVE  Lists(ByValue(p, S), S, R)
<1> DEFINE s == ByValue(p, S)
           n == Cardinality(S)
<1>2. IsFiniteSet(S)
  OBVIOUS
<1>4. Orders(R, S) /\ \A x, y \in S : <<x, y>> \in R <=> TableBefore(p, x, y)
  OBVIOUS
<1>3. s = [i \in 1..n |-> CHOOSE x \in S : Cardinality({y \in S : TableBefore(p, y, x)}) = i - 1]
  BY Zenon DEF Sorted, ByValue
<1>5. \A x \in S : Under(x, S, R) = {y \in S : TableBefore(p, y, x)}
  BY <1>4, Zenon DEF Under
<1> HIDE DEF s, n
<1>6. s = [i \in 1..n |-> s[i]]
      /\ \A i \in 1..n : s[i] = CHOOSE x \in S : Cardinality({y \in S : TableBefore(p, y, x)}) = i - 1
  <2>1. DOMAIN s = 1..n
    BY <1>3, Zenon
  <2>2. \A i \in 1..n : s[i] = CHOOSE x \in S : Cardinality({y \in S : TableBefore(p, y, x)}) = i - 1
    BY <1>3, Zenon
  <2> QED
    BY <1>3, <2>1, <2>2
<1>7. ASSUME NEW i \in 1..n, \E x \in S : Cardinality(Under(x, S, R)) = i - 1
      PROVE  s[i] \in S /\ Cardinality(Under(s[i], S, R)) = i - 1
  <2>1. \E x \in S : Cardinality({y \in S : TableBefore(p, y, x)}) = i - 1
    BY <1>5, <1>7, Zenon
  <2>2. s[i] \in S /\ Cardinality({y \in S : TableBefore(p, y, s[i])}) = i - 1
    BY <1>6, <2>1, Zenon
  <2> QED
    BY <1>5, <2>2, Zenon
<1>8. Lists(s, S, R)
  BY <1>2, <1>4, <1>6, <1>7, ChosenLists, Zenon DEF n
<1> QED
  BY <1>8 DEF s

(* Each place is there once. *)
LEMMA TablePermuted ==
  ASSUME NEW p, Len(p.groups) \in Nat, \A j \in 1..Len(p.groups) : TableValue(p)[j] \in Int
  PROVE  Permuted(p)
<1> DEFINE N == Len(p.groups)
           S == 1..N
           s == ByValue(p, S)
           n == Cardinality(S)
           cnt == TableValue(p)
           plc == [j \in S |-> j]
           R == Ranked(S, cnt, plc)
<1>o. CASE ~(query.byCount /\ query.limit > 0)
  <2>1. TableOrder(p) = [j \in S |-> j]
    BY <1>o, Zenon DEF TableOrder
  <2>2. TableOrder(p) \in [S -> S] /\ \A i \in S : TableOrder(p)[i] = i
    BY <2>1
  <2>3. \A i, j \in S : i < j => TableOrder(p)[i] < TableOrder(p)[j]
    BY <2>2
  <2> QED
    BY <1>o, <2>2, <2>3, Zenon DEF Permuted
<1>s. CASE query.byCount /\ query.limit > 0
  <2>1. cnt \in [S -> Int]
    <3>1. \A j \in S : TableValue(p)[j] \in Int
      OBVIOUS
    <3>2. cnt = [j \in S |-> cnt[j]]
      BY Zenon DEF TableValue
    <3> HIDE DEF cnt
    <3>3. \A j \in S : cnt[j] \in Int
      BY <3>1 DEF cnt
    <3> QED
      BY <3>2, <3>3
  <2>2. plc \in [S -> Int] /\ \A j \in S : plc[j] = j
    OBVIOUS
  <2>3. RanksOrder(R, S, cnt, plc)
    <3> HIDE DEF cnt, plc, S
    <3>1. \A a, b \in S : plc[a] = plc[b] => a = b
      BY <2>2, Zenon
    <3> QED
      BY <2>1, <2>2, <3>1, RankedOrders, Zenon DEF R
  <2>4. Orders(R, S) /\ \A x, y \in S : <<x, y>> \in R <=> TableBefore(p, x, y)
    <3>1. Orders(R, S) /\ \A a, b \in S : <<a, b>> \in R <=> cnt[a] > cnt[b] \/ (cnt[a] = cnt[b] /\ plc[a] < plc[b])
      BY <2>3, Zenon DEF RanksOrder
    <3>2. \A x, y \in S : TableBefore(p, x, y) <=> cnt[x] > cnt[y] \/ (cnt[x] = cnt[y] /\ plc[x] < plc[y])
      BY <2>2, Zenon DEF TableBefore
    <3> QED
      BY <3>1, <3>2, Zenon
  <2>5. IsFiniteSet(S) /\ Cardinality(S) = N
    <3>1. 1 \in Int /\ N \in Int
      OBVIOUS
    <3> QED
      BY <3>1, FS_Interval
  <2>6. Lists(s, S, R)
    BY <2>4, <2>5, SortedByTable
  <2>7. InPlace(s, S, R)
    BY <2>4, <2>5, <2>6, ListedInPlace, Zenon
  <2> HIDE DEF s, S, R
  <2>8. /\ s \in [1..N -> S] /\ \A i, j \in 1..N : <<s[i], s[j]>> \in R <=> i < j
        /\ \A e \in S : \E i \in 1..N : s[i] = e
    BY <2>5, <2>7, Zenon DEF InPlace
  <2>9. \A i, j \in 1..N : i < j => TableBefore(p, s[i], s[j])
    <3>1. \A i \in 1..N : s[i] \in S
      BY <2>8, Zenon
    <3> QED
      BY <2>4, <2>8, <3>1, Zenon
  <2>10. TableOrder(p) = s
    BY <1>s, Zenon DEF TableOrder, s, S
  <2> QED
    BY <1>s, <2>8, <2>9, <2>10, Zenon DEF Permuted, S
<1> QED
  BY <1>o, <1>s

\* The records of a table in the order they are copied.
Copied(p) == [j \in 1..Len(p.groups) |-> Record(p.groups[TableOrder(p)[j]])]
(* copy_groups takes their window. *)
LEMMA CopyTableIs ==
  ASSUME NEW p, IsGroups(p.groups), AnswerableQuery(query)
  PROVE  /\ CopyGroupTable(p, query, query.limit) = Window(Copied(p), query.limit, query.offset)
         /\ WindowOf(Window(Copied(p), query.limit, query.offset), Copied(p), Len(p.groups), query.limit, query.offset)
<1> DEFINE n == Len(p.groups)
           u == Copied(p)
<1>1. n \in Nat /\ query.offset \in Nat /\ query.limit \in Nat
  <2>1. query.offset \in Nat /\ query.limit \in Nat
    BY TakeIs, Zenon
  <2> QED
    BY <2>1, Zenon DEF IsGroups
<1>2. CopyGroupTable(p, query, query.limit) = Window(u, query.limit, query.offset)
  BY Zenon DEF CopyGroupTable, Copied, Record, TableOrder, ByValue, TableBefore, TableValue, Sorted
<1>3. u \in [1..n -> {u[j] : j \in 1..n}]
  BY DEF Copied
<1> HIDE DEF u, n
<1>4. WindowOf(Window(u, query.limit, query.offset), u, n, query.limit, query.offset)
  BY <1>1, <1>3, WindowIs
<1> QED
  BY <1>2, <1>4 DEF u, n

\* The keys in that order.
CopiedKeys(p) == [j \in 1..Len(p.groups) |-> p.groups[TableOrder(p)[j]].key]
(* They are in the order of GroupBefore. *)
LEMMA CopiedKeysSorted ==
  ASSUME AnswerableTable(table), AnswerableQuery(query), ~UsesHistogram(query), NEW p, GroupsOf(p.groups, Matching)
  PROVE  CopiedKeys(p) = Sorted(Keys, GroupBefore) /\ Permuted(p) /\ TableKeys(p.groups)
<1> DEFINE g == p.groups
           n == Len(g)
           o == TableOrder(p)
           u == CopiedKeys(p)
           R == GroupRank
           top == query.byCount /\ query.limit > 0
<1>1. TableKeys(g)
  BY TableKeysAre, Zenon
<1>2. /\ n \in Nat /\ \A j \in 1..n : g[j].key \in Keys
      /\ \A k \in Keys : \E j \in 1..n : g[j].key = k
      /\ \A i, j \in 1..n : i < j => KeyPlace[g[i].key] < KeyPlace[g[j].key]
  BY <1>1, Zenon DEF TableKeys
<1>3. \A j \in 1..n : TableValue(p)[j] = IF "count_star" \in Range(query.groupAggs) THEN Cardinality(GroupOf(g[j].key)) ELSE 0
  <2> SUFFICES ASSUME NEW j \in 1..n
               PROVE  TableValue(p)[j] = IF "count_star" \in Range(query.groupAggs) THEN Cardinality(GroupOf(g[j].key)) ELSE 0
    BY Zenon
  <2>1. TableValue(p)[j] = OrderValue(g[j], query)
    BY Zenon DEF TableValue
  <2> QED
    BY <1>2, <2>1, TableValues, Zenon
<1>4. \A k \in Keys : Cardinality(GroupOf(k)) \in Nat
  BY KeyGroups, Zenon DEF KeyGroup
<1>5. \A j \in 1..n : TableValue(p)[j] \in Int
  BY <1>2, <1>3, <1>4
<1>6. Permuted(p)
  BY <1>2, <1>5, TablePermuted, Zenon
<1>7. /\ o \in [1..n -> 1..n] /\ \A i \in 1..n : \E j \in 1..n : o[j] = i
      /\ \A i, j \in 1..n : i < j => IF top THEN TableBefore(p, o[i], o[j]) ELSE o[i] < o[j]
  BY <1>6, Zenon DEF Permuted
<1>8. /\ Orders(R, Keys) /\ IsFiniteSet(Keys) /\ Lists(Sorted(Keys, GroupBefore), Keys, R)
      /\ \A a, b \in Keys : <<a, b>> \in R <=> KeyCount[a] > KeyCount[b] \/ (KeyCount[a] = KeyCount[b] /\ KeyPlace[a] < KeyPlace[b])
  BY KeyRanks, Zenon DEF RanksOrder
<1>9. /\ \A k \in Keys : top => KeyCount[k] = IF "count_star" \in Range(query.groupAggs) THEN Cardinality(GroupOf(k)) ELSE 0
      /\ \A k \in Keys : ~top => KeyCount[k] = 0
  BY Zenon DEF KeyCount
<1>10. \A j \in 1..n : u[j] = g[o[j]].key
  BY Zenon DEF CopiedKeys
<1>11. u = [j \in 1..n |-> u[j]]
  BY Zenon DEF CopiedKeys
<1> HIDE DEF g, n, o, u, R, top
<1>12. \A j \in 1..n : o[j] \in 1..n
  BY <1>7
<1>13. \A j \in 1..n : u[j] \in Keys
  BY <1>2, <1>10, <1>12, Zenon
<1>14. u \in [1..n -> Keys]
  BY <1>11, <1>13
<1>15. \A k \in Keys : \E j \in 1..n : u[j] = k
  <2> SUFFICES ASSUME NEW k \in Keys
               PROVE  \E j \in 1..n : u[j] = k
    BY Zenon
  <2>1. PICK i \in 1..n : g[i].key = k
    BY <1>2, Zenon
  <2>2. PICK j \in 1..n : o[j] = i
    BY <1>7, Zenon
  <2> QED
    BY <1>10, <2>1, <2>2, Zenon
<1>16. ASSUME NEW i \in 1..n, NEW j \in 1..n, i < j
       PROVE  <<u[i], u[j]>> \in R
  <2>1. u[i] \in Keys /\ u[j] \in Keys /\ o[i] \in 1..n /\ o[j] \in 1..n /\ u[i] = g[o[i]].key /\ u[j] = g[o[j]].key
    BY <1>10, <1>12, <1>13, Zenon
  <2>2. CASE top
    <3>1. TableBefore(p, o[i], o[j])
      BY <1>7, <1>16, <2>2, Zenon
    <3>2. TableValue(p)[o[i]] = KeyCount[u[i]] /\ TableValue(p)[o[j]] = KeyCount[u[j]]
      BY <1>3, <1>9, <2>1, <2>2, Zenon
    <3>3. KeyCount[u[i]] > KeyCount[u[j]] \/ (KeyCount[u[i]] = KeyCount[u[j]] /\ o[i] < o[j])
      BY <3>1, <3>2, Zenon DEF TableBefore
    <3> QED
      BY <1>2, <1>8, <2>1, <3>3, Zenon
  <2>3. CASE ~top
    <3>1. o[i] < o[j]
      BY <1>7, <1>16, <2>3, Zenon
    <3>2. KeyCount[u[i]] = KeyCount[u[j]]
      BY <1>9, <2>1, <2>3, Zenon
    <3> QED
      BY <1>2, <1>8, <2>1, <3>1, <3>2, Zenon
  <2> QED
    BY <2>2, <2>3
<1>17. Lists(u, Keys, R)
  <2>1. \A i, j \in 1..n : i < j => <<u[i], u[j]>> \in R
    BY <1>16, Zenon
  <2>2. Orders(R, Keys) /\ n \in Nat
    BY <1>2, <1>8, Zenon
  <2> QED
    BY <1>14, <1>15, <2>1, <2>2, IncreasingLists, Zenon
<1>18. u = Sorted(Keys, GroupBefore)
  BY <1>8, <1>17, ListedOnce, Zenon
<1> QED
  BY <1>1, <1>6, <1>18, Zenon DEF u, g

\* A record that says what its group has, and the groups GroupsExact asks for.
RecordRight(r, key) ==
    \A i \in DOMAIN query.groupAggs : Right(query.groupAggs[i], 0, r.aggs[i], GroupOf(key))
RightGroups(w) ==
    LET keys == Window(Sorted(Keys, GroupBefore), query.limit, query.offset)
    IN  /\ [j \in DOMAIN w |-> w[j].key] = keys
        /\ \A j \in DOMAIN keys, i \in DOMAIN query.groupAggs :
             Right(query.groupAggs[i], 0, w[j].aggs[i], GroupOf(keys[j]))

(* agg_stats says what an aggregate of a group is. *)
LEMMA StatRight ==
  ASSUME AnswerableTable(table), NEW kind \in AggKinds, NEW S \in SUBSET AllRows, NEW s, AggOf(kind, s, S)
  PROVE  Right(kind, 0, GroupStats(s, kind), S)
<1> DEFINE a == [kind |-> kind, off |-> 0]
<1>1. a \in [kind : AggKinds, off : Int] /\ a.kind = kind /\ a.off = 0
  OBVIOUS
<1>2. s \in AggState
  BY Zenon DEF AggOf
<1>3. s.count \in Int /\ s.sum \in Int /\ s.min \in Int /\ s.max \in Int
  BY <1>2, InfAssumption DEF AggState
<1> HIDE DEF a
<1>4. s.sum + 0 * s.count = s.sum /\ s.min + 0 = s.min /\ s.max + 0 = s.max
  BY <1>3
<1>5. GroupStats(s, kind) = CopyAgg(s, a)
  BY <1>1, <1>4 DEF GroupStats, CopyAgg
<1>6. AggOf(a.kind, s, S)
  BY <1>1, Zenon
<1>7. Right(a.kind, a.off, CopyAgg(s, a), S)
  BY <1>1, <1>6, CopyRight, Zenon
<1> QED
  BY <1>1, <1>5, <1>7, Zenon

(* And so is a record right. *)
LEMMA RecordIsRight ==
  ASSUME AnswerableTable(table), AnswerableQuery(query), NEW key \in Keys, NEW e, GroupAggsOf(e.aggs, GroupOf(key))
  PROVE  RecordRight(Record(e), key)
<1> DEFINE N == Len(query.groupAggs)
<1>1. DOMAIN query.groupAggs = 1..N /\ \A i \in 1..N : query.groupAggs[i] \in AggKinds
  <2>1. query.groupAggs \in Seq(AggKinds)
    BY Zenon DEF AnswerableQuery
  <2> QED
    BY <2>1
<1>2. GroupOf(key) \in SUBSET AllRows
  BY KeyGroups, Zenon DEF KeyGroup
<1>3. \A i \in 1..N : AggOf(query.groupAggs[i], e.aggs[i], GroupOf(key))
  BY Zenon DEF GroupAggsOf
<1>4. \A i \in 1..N : Right(query.groupAggs[i], 0, GroupStats(e.aggs[i], query.groupAggs[i]), GroupOf(key))
  BY <1>1, <1>2, <1>3, StatRight, Zenon
<1>5. \A i \in 1..N : Record(e).aggs[i] = GroupStats(e.aggs[i], query.groupAggs[i])
  BY <1>1 DEF Record
<1> QED
  BY <1>1, <1>4, <1>5, Zenon DEF RecordRight

(* The window of records of all keys in order is what GroupsExact asks for. *)
LEMMA WindowRight ==
  ASSUME AnswerableQuery(query), NEW n \in Nat, NEW u, u = [j \in 1..n |-> u[j]],
         NEW k, k = [j \in 1..n |-> k[j]], k = Sorted(Keys, GroupBefore),
         \A j \in 1..n : u[j].key = k[j] /\ RecordRight(u[j], k[j])
  PROVE  RightGroups(Window(u, query.limit, query.offset))
<1> DEFINE w == Window(u, query.limit, query.offset)
           v == Window(k, query.limit, query.offset)
           m == WindowLen(n, query.limit, query.offset)
           off == query.offset
<1>1. query.limit \in Nat /\ query.offset \in Nat
  BY TakeIs, Zenon
<1>2. u \in [1..n -> {u[j] : j \in 1..n}] /\ k \in [1..n -> {k[j] : j \in 1..n}]
  <2>1. \A f : f = [j \in 1..n |-> f[j]] => f \in [1..n -> {f[j] : j \in 1..n}]
    OBVIOUS
  <2> QED
    BY <2>1, Zenon
<1>3. WindowOf(w, u, n, query.limit, query.offset) /\ WindowOf(v, k, n, query.limit, query.offset)
  BY <1>1, <1>2, WindowIs, Zenon
<1>4. /\ w = [j \in 1..m |-> u[off + j]] /\ v = [j \in 1..m |-> k[off + j]]
      /\ \A j \in 1..m : off + j \in 1..n
  BY <1>3, Zenon DEF WindowOf
<1> HIDE DEF w, v, m, off
<1>5. DOMAIN w = 1..m /\ DOMAIN v = 1..m /\ v = [j \in 1..m |-> v[j]]
      /\ \A j \in 1..m : w[j] = u[off + j] /\ v[j] = k[off + j]
  BY <1>4
<1>6. \A j \in 1..m : w[j].key = v[j] /\ RecordRight(w[j], v[j])
  BY <1>4, <1>5, Zenon
<1>7. [j \in DOMAIN w |-> w[j].key] = v
  <2>1. [j \in DOMAIN w |-> w[j].key] = [j \in 1..m |-> v[j]]
    BY <1>5, <1>6
  <2> QED
    BY <1>5, <2>1
<1>8. \A j \in 1..m, i \in DOMAIN query.groupAggs : Right(query.groupAggs[i], 0, w[j].aggs[i], GroupOf(v[j]))
  BY <1>6, Zenon DEF RecordRight
<1>9. v = Window(Sorted(Keys, GroupBefore), query.limit, query.offset)
  BY Zenon DEF v
<1>10. RightGroups(w)
  BY <1>5, <1>7, <1>8, <1>9, Zenon DEF RightGroups
<1> QED
  BY <1>10 DEF w

(* copy_groups of a table of the matching rows. *)
LEMMA TableRight ==
  ASSUME AnswerableTable(table), AnswerableQuery(query), ~UsesHistogram(query), NEW p, GroupsOf(p.groups, Matching)
  PROVE  RightGroups(CopyGroupTable(p, query, query.limit))
<1> DEFINE g == p.groups
           n == Len(g)
           o == TableOrder(p)
           u == Copied(p)
           k == CopiedKeys(p)
<1>1. IsGroups(g) /\ \A j \in 1..n : GroupAggsOf(g[j].aggs, InGroup(Matching, g[j].key))
  BY Zenon DEF GroupsOf
<1>2. k = Sorted(Keys, GroupBefore) /\ Permuted(p) /\ TableKeys(g)
  BY CopiedKeysSorted, Zenon
<1>3. n \in Nat /\ o \in [1..n -> 1..n] /\ \A j \in 1..n : g[j].key \in Keys
  BY <1>2, Zenon DEF Permuted, TableKeys
<1>4. CopyGroupTable(p, query, query.limit) = Window(u, query.limit, query.offset)
  BY <1>1, CopyTableIs, Zenon
<1>5. /\ u = [j \in 1..n |-> u[j]] /\ k = [j \in 1..n |-> k[j]]
      /\ \A j \in 1..n : u[j] = Record(g[o[j]]) /\ k[j] = g[o[j]].key
  BY Zenon DEF Copied, CopiedKeys
<1>6. \A e : Record(e).key = e.key
  BY DEF Record
<1> HIDE DEF g, n, o, u, k
<1>7. \A j \in 1..n : GroupOf(g[j].key) = InGroup(Matching, g[j].key)
  BY <1>3, KeyGroups, Zenon DEF KeyGroup
<1>8. \A j \in 1..n : RecordRight(Record(g[j]), g[j].key)
  <2> SUFFICES ASSUME NEW j \in 1..n
               PROVE  RecordRight(Record(g[j]), g[j].key)
    BY Zenon
  <2>1. GroupAggsOf(g[j].aggs, GroupOf(g[j].key))
    BY <1>1, <1>7, Zenon
  <2> QED
    BY <1>3, <2>1, RecordIsRight, Zenon
<1>9. \A j \in 1..n : o[j] \in 1..n
  BY <1>3
<1>10. \A j \in 1..n : u[j].key = k[j] /\ RecordRight(u[j], k[j])
  BY <1>5, <1>6, <1>8, <1>9, Zenon
<1>11. RightGroups(Window(u, query.limit, query.offset))
  BY <1>2, <1>3, <1>5, <1>10, WindowRight, Zenon
<1> QED
  BY <1>4, <1>11, Zenon

\* The ids of a histogram and the order they get records in.
LiveIds(p) == {id \in DOMAIN p.counts : p.counts[id] > 0}
HistRank(p) == IF query.byCount THEN p.counts ELSE [id \in DOMAIN p.counts |-> 0]
HistBefore(p, a, b) == HistRank(p)[a] > HistRank(p)[b] \/ (HistRank(p)[a] = HistRank(p)[b] /\ a < b)
ByHist(p, S) == Sorted(S, LAMBDA a, b : HistBefore(p, a, b))
(* What Sorted lists, it lists in the order it is given. *)
LEMMA SortedByHist ==
  ASSUME NEW p, NEW S, IsFiniteSet(S), NEW R, Orders(R, S), \A x, y \in S : <<x, y>> \in R <=> HistBefore(p, x, y)
  PROVE  Lists(ByHist(p, S), S, R)
<1> DEFINE s == ByHist(p, S)
           n == Cardinality(S)
<1>2. IsFiniteSet(S)
  OBVIOUS
<1>4. Orders(R, S) /\ \A x, y \in S : <<x, y>> \in R <=> HistBefore(p, x, y)
  OBVIOUS
<1>3. s = [i \in 1..n |-> CHOOSE x \in S : Cardinality({y \in S : HistBefore(p, y, x)}) = i - 1]
  BY Zenon DEF Sorted, ByHist
<1>5. \A x \in S : Under(x, S, R) = {y \in S : HistBefore(p, y, x)}
  BY <1>4, Zenon DEF Under
<1> HIDE DEF s, n
<1>6. s = [i \in 1..n |-> s[i]]
      /\ \A i \in 1..n : s[i] = CHOOSE x \in S : Cardinality({y \in S : HistBefore(p, y, x)}) = i - 1
  <2>1. DOMAIN s = 1..n
    BY <1>3, Zenon
  <2>2. \A i \in 1..n : s[i] = CHOOSE x \in S : Cardinality({y \in S : HistBefore(p, y, x)}) = i - 1
    BY <1>3, Zenon
  <2> QED
    BY <1>3, <2>1, <2>2
<1>7. ASSUME NEW i \in 1..n, \E x \in S : Cardinality(Under(x, S, R)) = i - 1
      PROVE  s[i] \in S /\ Cardinality(Under(s[i], S, R)) = i - 1
  <2>1. \E x \in S : Cardinality({y \in S : HistBefore(p, y, x)}) = i - 1
    BY <1>5, <1>7, Zenon
  <2>2. s[i] \in S /\ Cardinality({y \in S : HistBefore(p, y, s[i])}) = i - 1
    BY <1>6, <2>1, Zenon
  <2> QED
    BY <1>5, <2>2, Zenon
<1>8. Lists(s, S, R)
  BY <1>2, <1>4, <1>6, <1>7, ChosenLists, Zenon DEF n
<1> QED
  BY <1>8 DEF s

\* A set of ids by a measure, and then by id.
InHistOrder(S, by) ==
    [i \in 1..Cardinality(S) |->
       CHOOSE x \in S : Cardinality({y \in S : by[y] > by[x] \/ (by[y] = by[x] /\ y < x)}) = i - 1]

(* Unless it has sums and is cut by them, a histogram is ordered by its counts. *)
LEMMA HistIdsAre ==
  ASSUME NEW p, ~(WithSums(query) /\ query.byCount /\ query.limit > 0), query.byCount \in BOOLEAN
  PROVE  /\ HistIds(p, query) = ByHist(p, LiveIds(p))
         /\ UsesHistogram(query) /\ ~WithSums(query) => query.groupAggs = <<"count_star">>
<1> DEFINE top == query.byCount /\ query.limit > 0
           live == {id \in DOMAIN p.counts : IF top /\ WithSums(query) THEN p.sums[id] # 0 ELSE p.counts[id] > 0}
           zero == [id \in DOMAIN p.counts |-> 0]
           by == CASE top /\ WithSums(query) -> p.sums
                   [] query.byCount /\ ~(top /\ WithSums(query)) -> p.counts
                   [] OTHER -> zero
<1>a. HistIds(p, query) = InHistOrder(live, by)
  BY Zenon DEF HistIds, InHistOrder, Sorted
<1>b. ByHist(p, LiveIds(p)) = InHistOrder(LiveIds(p), HistRank(p))
  BY Zenon DEF ByHist, HistBefore, InHistOrder, Sorted
<1>t. ~(top /\ WithSums(query))
  BY Zenon
<1>c. live = LiveIds(p)
  <2> HIDE DEF top
  <2> QED
    BY <1>t DEF LiveIds
<1>d. by = HistRank(p)
  <2> HIDE DEF zero, top
  <2>1. query.byCount \/ ~query.byCount
    OBVIOUS
  <2>2. CASE query.byCount
    BY <1>t, <2>2 DEF HistRank
  <2>3. CASE ~query.byCount
    BY <1>t, <2>3 DEF HistRank, zero
  <2> QED
    BY <2>1, <2>2, <2>3
<1>1. HistIds(p, query) = ByHist(p, LiveIds(p))
  <2> HIDE DEF live, by
  <2> QED
    BY <1>a, <1>b, <1>c, <1>d, Zenon
<1>2. ASSUME UsesHistogram(query), ~WithSums(query)
      PROVE  query.groupAggs = <<"count_star">>
  <2>1. "sum" \notin Range(query.groupAggs)
    BY <1>2, Zenon DEF WithSums
  <2>2. query.groupAggs = <<"count_star">> \/ Range(query.groupAggs) = {"count_star", "sum"}
    BY <1>2, Zenon DEF UsesHistogram
  <2> QED
    BY <2>1, <2>2
<1> QED
  BY <1>1, <1>2

\* A histogram of the matching rows: the keys are the ids with a count, which is that of the group.
HistKeys(p) ==
    /\ LiveIds(p) = Keys
    /\ \A k \in Keys : p.counts[k] = Cardinality(GroupOf(k)) /\ HistRank(p)[k] = KeyCount[k]

(* The counts are those of the keys. *)
LEMMA HistKeysAre ==
  ASSUME AnswerableTable(table), AnswerableQuery(query), UsesHistogram(query), query.groupAggs = <<"count_star">>,
         NEW p, IsCounts(p.counts), CountsOf(p.counts, Matching)
  PROVE  HistKeys(p)
<1> DEFINE ids == 0..(DictLen - 1)
           c == p.counts
<1>1. DOMAIN c = ids
  <2>1. c = [id \in ids |-> c[id]]
    BY Zenon DEF IsCounts
  <2> HIDE DEF ids, c
  <2> QED
    BY <2>1
<1>2. \A id \in ids : c[id] = Cardinality(InGroup(Matching, id))
  BY Zenon DEF CountsOf
<1>3. \A k \in Keys : KeyGroup(k)
  BY KeyGroups, Zenon
<1>4. \A k \in Keys : k \in ids /\ GroupOf(k) = InGroup(Matching, k) /\ GroupOf(k) # {} /\ GroupOf(k) \in SUBSET AllRows
  BY <1>3, Zenon DEF KeyGroup
<1>5. \A k \in Keys : c[k] = Cardinality(GroupOf(k))
  BY <1>2, <1>4, Zenon
<1>6. \A k \in Keys : c[k] > 0
  <2> SUFFICES ASSUME NEW k \in Keys
               PROVE  Cardinality(GroupOf(k)) > 0
    BY <1>5, Zenon
  <2>1. IsFiniteSet(GroupOf(k))
    BY <1>4, RowsFinite, Zenon
  <2>2. Cardinality(GroupOf(k)) # 0 /\ Cardinality(GroupOf(k)) \in Nat
    BY <1>4, <2>1, FS_EmptySet, FS_CardinalityType
  <2> QED
    BY <2>2
<1>7. ASSUME NEW id \in ids, c[id] > 0
      PROVE  id \in Keys
  <2>1. InGroup(Matching, id) # {}
    <3> SUFFICES ASSUME InGroup(Matching, id) = {}
                 PROVE  FALSE
      OBVIOUS
    <3>1. c[id] = Cardinality({})
      BY <1>2, Zenon
    <3>2. c[id] = 0
      BY <3>1, FS_EmptySet
    <3> QED
      BY <1>7, <3>2
  <2>2. PICK r \in Matching : Cell(r, "k") = id
    BY <2>1, Zenon DEF InGroup
  <2>3. id # Null
    BY NullAssumption, DictLenAssumption
  <2> QED
    BY <2>2, <2>3, Zenon DEF Keys
<1> HIDE DEF c, ids
<1>8. LiveIds(p) = Keys
  <2>1. LiveIds(p) = {id \in ids : c[id] > 0}
    BY <1>1, Zenon DEF LiveIds, c
  <2> QED
    BY <1>4, <1>6, <1>7, <2>1
<1>9. "count_star" \in Range(query.groupAggs)
  <2>1. DOMAIN query.groupAggs = 1..1 /\ query.groupAggs[1] = "count_star" /\ 1 \in 1..1
    OBVIOUS
  <2> QED
    BY <2>1, Zenon DEF Range
<1>10. \A k \in Keys : HistRank(p)[k] = KeyCount[k]
  <2> SUFFICES ASSUME NEW k \in Keys
               PROVE  HistRank(p)[k] = KeyCount[k]
    BY Zenon
  <2>1. KeyCount[k] = IF query.byCount THEN Cardinality(GroupOf(k)) ELSE 0
    BY <1>9, Zenon DEF KeyCount
  <2>2. HistRank(p)[k] = IF query.byCount THEN c[k] ELSE 0
    BY <1>1, <1>4, Zenon DEF HistRank, c
  <2> QED
    BY <1>5, <2>1, <2>2, Zenon
<1> QED
  BY <1>5, <1>8, <1>10, Zenon DEF HistKeys, c

(* The ids of a histogram of the matching rows are the keys, in the order of GroupBefore. *)
LEMMA HistIdsSorted ==
  ASSUME AnswerableTable(table), AnswerableQuery(query), UsesHistogram(query), ~WithSums(query),
         NEW p, IsCounts(p.counts), CountsOf(p.counts, Matching)
  PROVE  /\ HistIds(p, query) = Sorted(Keys, GroupBefore) /\ HistKeys(p)
         /\ query.groupAggs = <<"count_star">>
<1>1. query.byCount \in BOOLEAN
  BY Zenon DEF AnswerableQuery
<1>2. HistIds(p, query) = ByHist(p, LiveIds(p)) /\ query.groupAggs = <<"count_star">>
  BY <1>1, HistIdsAre, Zenon
<1>3. HistKeys(p)
  BY <1>2, HistKeysAre, Zenon
<1>4. LiveIds(p) = Keys /\ \A k \in Keys : HistRank(p)[k] = KeyCount[k]
  BY <1>3, Zenon DEF HistKeys
<1>5. IsFiniteSet(Keys) /\ RanksOrder(GroupRank, Keys, KeyCount, KeyPlace) /\ Lists(Sorted(Keys, GroupBefore), Keys, GroupRank)
  BY KeyRanks, Zenon
<1>6. /\ Orders(GroupRank, Keys)
      /\ \A a, b \in Keys : <<a, b>> \in GroupRank <=> KeyCount[a] > KeyCount[b] \/ (KeyCount[a] = KeyCount[b] /\ KeyPlace[a] < KeyPlace[b])
  BY <1>5, Zenon DEF RanksOrder
<1>7. \A k \in Keys : KeyPlace[k] = k
  BY Zenon DEF KeyPlace
<1>8. \A a, b \in Keys : <<a, b>> \in GroupRank <=> HistBefore(p, a, b)
  <2> SUFFICES ASSUME NEW a \in Keys, NEW b \in Keys
               PROVE  <<a, b>> \in GroupRank <=> HistBefore(p, a, b)
    BY Zenon
  <2>1. HistRank(p)[a] = KeyCount[a] /\ HistRank(p)[b] = KeyCount[b] /\ KeyPlace[a] = a /\ KeyPlace[b] = b
    BY <1>4, <1>7, Zenon
  <2>2. <<a, b>> \in GroupRank <=> KeyCount[a] > KeyCount[b] \/ (KeyCount[a] = KeyCount[b] /\ KeyPlace[a] < KeyPlace[b])
    BY <1>6, Zenon
  <2>3. HistBefore(p, a, b) <=> KeyCount[a] > KeyCount[b] \/ (KeyCount[a] = KeyCount[b] /\ KeyPlace[a] < KeyPlace[b])
    BY <2>1, Zenon DEF HistBefore
  <2> QED
    BY <2>2, <2>3, Zenon
<1>9. Lists(ByHist(p, Keys), Keys, GroupRank)
  BY <1>5, <1>6, <1>8, SortedByHist, Zenon
<1>10. ByHist(p, Keys) = Sorted(Keys, GroupBefore)
  BY <1>5, <1>6, <1>9, ListedOnce, Zenon
<1> QED
  BY <1>2, <1>3, <1>4, <1>10, Zenon

(* Their records are what GroupsExact asks for. *)
LEMMA HistRight ==
  ASSUME AnswerableTable(table), AnswerableQuery(query), UsesHistogram(query), ~WithSums(query),
         NEW p, IsCounts(p.counts), CountsOf(p.counts, Matching)
  PROVE  RightGroups(HistRecords(p, query))
<1> DEFINE s == Sorted(Keys, GroupBefore)
           n == Cardinality(Keys)
           v == Window(s, query.limit, query.offset)
           m == WindowLen(n, query.limit, query.offset)
           off == query.offset
           w == HistRecords(p, query)
           q == query.groupAggs
<1>1. HistIds(p, query) = s /\ HistKeys(p) /\ q = <<"count_star">>
  BY HistIdsSorted, Zenon
<1>2. n \in Nat /\ s \in [1..n -> Keys]
  <2>1. IsFiniteSet(Keys) /\ Lists(s, Keys, GroupRank)
    BY KeyRanks, Zenon
  <2>2. n \in Nat
    BY <2>1, FS_CardinalityType
  <2> QED
    BY <2>1, <2>2, Zenon DEF Lists
<1>3. query.limit \in Nat /\ query.offset \in Nat
  BY TakeIs, Zenon
<1>4. WindowOf(v, s, n, query.limit, query.offset)
  <2> HIDE DEF s, n
  <2> QED
    BY <1>2, <1>3, WindowIs, Zenon
<1>5. v = [j \in 1..m |-> s[off + j]] /\ \A j \in 1..m : off + j \in 1..n
  BY <1>4, Zenon DEF WindowOf
<1>6. DOMAIN q = 1..1 /\ q[1] = "count_star" /\ \A i \in 1..1 : q[i] = "count_star"
  <2> HIDE DEF q
  <2> QED
    BY <1>1
<1>7. ~(query.byCount /\ query.limit > 0 /\ WithSums(query))
  BY Zenon
<1>8. w = [j \in DOMAIN v |-> [key |-> v[j], aggs |-> [i \in DOMAIN q |-> [count |-> p.counts[v[j]], sum |-> 0, min |-> 0, max |-> 0]]]]
  BY <1>1, <1>7, Zenon DEF HistRecords
<1> HIDE DEF s, n, v, m, off, w, q
<1>9. DOMAIN v = 1..m /\ \A j \in 1..m : v[j] \in Keys
  BY <1>2, <1>5
<1>10. /\ DOMAIN w = 1..m
       /\ \A j \in 1..m : w[j].key = v[j]
       /\ \A j \in 1..m : \A i \in 1..1 : w[j].aggs[i] = [count |-> p.counts[v[j]], sum |-> 0, min |-> 0, max |-> 0]
  BY <1>6, <1>8, <1>9
<1>11. [j \in DOMAIN w |-> w[j].key] = v
  <2>1. v = [j \in 1..m |-> v[j]]
    BY <1>5, <1>9
  <2> QED
    BY <1>10, <2>1
<1>12. ASSUME NEW j \in 1..m, NEW i \in DOMAIN q
       PROVE  Right(q[i], 0, w[j].aggs[i], GroupOf(v[j]))
  <2>1. i \in 1..1 /\ q[i] = "count_star" /\ v[j] \in Keys
    BY <1>6, <1>9, <1>12, Zenon
  <2>2. p.counts[v[j]] = Cardinality(GroupOf(v[j]))
    BY <1>1, <2>1, Zenon DEF HistKeys
  <2>3. w[j].aggs[i].count = p.counts[v[j]]
    <3>1. w[j].aggs[i] = [count |-> p.counts[v[j]], sum |-> 0, min |-> 0, max |-> 0]
      BY <1>10, <2>1, Zenon
    <3> QED
      BY <3>1
  <2>4. Said("count_star", w[j].aggs[i]) = w[j].aggs[i].count
    BY DEF Said, Counting
  <2>5. Answer("count_star", 0, GroupOf(v[j])) = Cardinality(GroupOf(v[j]))
    BY DEF Answer
  <2>6. Right("count_star", 0, w[j].aggs[i], GroupOf(v[j]))
    BY <2>2, <2>3, <2>4, <2>5 DEF Right
  <2> QED
    BY <2>1, <2>6, Zenon
<1>13. \A j \in DOMAIN v, i \in DOMAIN q : Right(q[i], 0, w[j].aggs[i], GroupOf(v[j]))
  BY <1>9, <1>12, Zenon
<1>14. RightGroups(w)
  BY <1>11, <1>13, Zenon DEF RightGroups, v, s, q
<1> QED
  BY <1>14 DEF w

\* What is copied is as long as group_output_count says.
CopiedLen(p) ==
    LET m == GroupCount(p, query)
    IN  m \in Nat /\ \E w \in [1..m -> {CopyGroups(p, query)[j] : j \in 1..m}] : w = CopyGroups(p, query)

(* It is, for both kinds of groups. *)
LEMMA CopyCounted ==
  ASSUME AnswerableQuery(query), NEW p, IsGroups(p.groups), IsCounts(p.counts),
         ~(WithSums(query) /\ query.byCount /\ query.limit > 0)
  PROVE  CopiedLen(p)
<1> DEFINE w == CopyGroups(p, query)
           m == GroupCount(p, query)
<1>1. query.limit \in Nat /\ query.offset \in Nat /\ query.byCount \in BOOLEAN
  <2>1. query.limit \in Nat /\ query.offset \in Nat
    BY TakeIs, Zenon
  <2> QED
    BY <2>1, Zenon DEF AnswerableQuery
<1>2. ASSUME NEW f, m \in Nat, w = [j \in 1..m |-> f[j]]
      PROVE  CopiedLen(p)
  <2> HIDE DEF w, m
  <2>1. w \in [1..m -> {w[j] : j \in 1..m}]
    BY <1>2
  <2> QED
    BY <1>2, <2>1, Zenon DEF CopiedLen, w, m
<1>3. CASE ~UsesHistogram(query)
  <2> DEFINE n == Len(p.groups)
             u == Copied(p)
  <2>1. w = Window(u, query.limit, query.offset) /\ WindowOf(Window(u, query.limit, query.offset), u, n, query.limit, query.offset)
    BY <1>3, CopyTableIs, Zenon DEF CopyGroups
  <2>2. m = WindowLen(n, query.limit, query.offset)
    BY <1>3, Zenon DEF GroupCount, OutputCount, WindowLen
  <2> HIDE DEF n, u, w, m
  <2>3. m \in Nat /\ w = [j \in 1..m |-> u[query.offset + j]]
    BY <2>1, <2>2, Zenon DEF WindowOf
  <2>4. w = [j \in 1..m |-> w[j]]
    BY <2>3
  <2> QED
    BY <1>2, <2>3, <2>4, Zenon DEF w, m
<1>4. CASE UsesHistogram(query)
  <2> DEFINE L == LiveIds(p)
             n == Cardinality(L)
             s == ByHist(p, L)
             v == Window(s, query.limit, query.offset)
  <2>1. HistIds(p, query) = s
    BY <1>1, HistIdsAre, Zenon
  <2>2. n \in Nat
    <3>1. L \in SUBSET (0..(DictLen - 1))
      <4> DEFINE c == p.counts
                 ids == 0..(DictLen - 1)
      <4>1. c = [id \in ids |-> c[id]]
        BY Zenon DEF IsCounts
      <4> HIDE DEF c, ids
      <4>2. DOMAIN c = ids
        BY <4>1
      <4> QED
        BY <4>2 DEF LiveIds, c, ids
    <3>2. 0 \in Int /\ DictLen - 1 \in Int
      BY DictLenAssumption
    <3>3. IsFiniteSet(0..(DictLen - 1))
      BY <3>2, FS_Interval, Zenon
    <3> QED
      BY <3>1, <3>3, FS_Subset, FS_CardinalityType
  <2>3. s = [i \in 1..n |-> s[i]]
    <3>1. s = [i \in 1..n |-> CHOOSE x \in L : Cardinality({y \in L : HistBefore(p, y, x)}) = i - 1]
      BY Zenon DEF ByHist, Sorted
    <3> HIDE DEF s, n, L
    <3> QED
      BY <3>1
  <2>4. WindowOf(v, s, n, query.limit, query.offset)
    <3> HIDE DEF s, n, L
    <3>1. s \in [1..n -> {s[i] : i \in 1..n}]
      BY <2>3
    <3> QED
      BY <1>1, <2>2, <3>1, WindowIs, Zenon
  <2>5. m = WindowLen(n, query.limit, query.offset)
    BY <1>4, Zenon DEF GroupCount, OutputCount, WindowLen, LiveIds
  <2>6. DOMAIN w = DOMAIN v /\ w = [j \in DOMAIN v |-> w[j]]
    <3> DEFINE Rec(id, kind) ==
                 IF kind = "sum" /\ (query.byCount /\ query.limit > 0 /\ WithSums(query))
                 THEN [count |-> p.counts[id], sum |-> p.sums[id], min |-> p.sums[id], max |-> p.sums[id]]
                 ELSE [count |-> p.counts[id], sum |-> 0, min |-> 0, max |-> 0]
               F(j) == [key |-> v[j], aggs |-> [i \in DOMAIN query.groupAggs |-> Rec(v[j], query.groupAggs[i])]]
    <3>1. w = [j \in DOMAIN v |-> F(j)]
      BY <1>4, <2>1, Zenon DEF CopyGroups, HistRecords
    <3> HIDE DEF F, w, v
    <3> QED
      BY <3>1
  <2> HIDE DEF v, s, n, L, w, m
  <2>7. m \in Nat /\ v = [j \in 1..m |-> s[query.offset + j]]
    BY <2>4, <2>5, Zenon DEF WindowOf
  <2>8. DOMAIN v = 1..m
    BY <2>7
  <2>9. w = [j \in 1..m |-> w[j]]
    BY <2>6, <2>8, Zenon
  <2> QED
    BY <1>2, <2>7, <2>9, Zenon DEF w, m
<1> QED
  BY <1>3, <1>4

\* What readGroups gives: all that is copied.
ReadAll(p) == ReadGroups(p, query).readable /\ ReadGroups(p, query).groups = CopyGroups(p, query)
(* It reads all of it. *)
LEMMA ReadsAll ==
  ASSUME AnswerableQuery(query), query.group, NEW p, CopiedLen(p)
  PROVE  ReadAll(p)
<1> DEFINE w == CopyGroups(p, query)
           m == GroupCount(p, query)
<1>1. m \in Nat /\ \E f \in [1..m -> {w[j] : j \in 1..m}] : f = w
  BY Zenon DEF CopiedLen
<1>g. query.group = TRUE
  BY Zenon DEF AnswerableQuery
<1>2. CASE m = 0
  <2>1. ReadGroups(p, query) = [readable |-> TRUE, groups |-> <<>>]
    BY <1>2, Zenon DEF ReadGroups
  <2> HIDE DEF w, m
  <2>2. w = <<>>
    BY <1>1, <1>2
  <2> QED
    BY <2>1, <2>2 DEF ReadAll, w
<1>3. CASE m # 0
  <2>1. ReadGroups(p, query) = [readable |-> m <= Len(w), groups |-> SubSeq(w, 1, Smaller(m, Len(w)))]
    BY <1>3, <1>g, Zenon DEF ReadGroups
  <2> HIDE DEF w, m
  <2>2. w \in Seq({w[j] : j \in 1..m}) /\ Len(w) = m
    BY <1>1, SequenceOf, Zenon
  <2>3. Smaller(m, Len(w)) = m
    BY <1>1, <2>2 DEF Smaller
  <2>4. SubSeq(w, 1, m) = w
    BY <1>1, <2>2
  <2>5. m <= Len(w)
    BY <1>1, <2>2
  <2>6. (m <= Len(w)) = TRUE
    <3>1. m \in Int /\ Len(w) \in Int
      BY <1>1, <2>2
    <3> QED
      BY <2>5, <3>1
  <2>7. ReadGroups(p, query) = [readable |-> TRUE, groups |-> w]
    BY <2>1, <2>3, <2>4, <2>6, Zenon
  <2>8. ReadGroups(p, query).readable /\ ReadGroups(p, query).groups = w
    BY <2>7
  <2> QED
    BY <2>8, Zenon DEF ReadAll, w
<1> QED
  BY <1>2, <1>3

\* The plan an answer's groups are read of.
Source == IF path = "local" THEN plan ELSE Reduced
ReadOf(p) == result.groups = ReadGroups(p, query).groups /\ result.readable = ReadGroups(p, query).readable
(* It has a table and a histogram. *)
LEMMA GroupsRead ==
  ASSUME Answerable, Kept, Done
  PROVE  ReadOf(Source) /\ IsGroups(Source.groups) /\ IsCounts(Source.counts)
<1>1. path \in {"workers", "local"}
  BY Zenon DEF Kept
<1>2. CASE path = "workers"
  <2>1. ReducerOf(Reduced, Matching) /\ result = Answered(Reduced, ReducerRows(Reduced, query))
    BY <1>2, WorkersAnswer, Zenon
  <2>2. ReadOf(Reduced)
    BY <2>1 DEF Answered, ReadResult, ReadOf
  <2>3. Source = Reduced
    BY <1>2 DEF Source
  <2> QED
    BY <2>1, <2>2, <2>3, Zenon DEF ReducerOf, MergedGroups
<1>3. CASE path = "local"
  <2>1. result = Answered(plan, LocalRows(plan, query))
    BY <1>3, LocalAnswer, Zenon
  <2>2. PICK k \in 0..Len(table) : PlanOf(plan, Seen(k))
    BY <1>3, LocalAnswer, Zenon
  <2>3. ReadOf(plan)
    BY <2>1 DEF Answered, ReadResult, ReadOf
  <2>4. Source = plan
    BY <1>3 DEF Source
  <2> QED
    BY <2>2, <2>3, <2>4, Zenon DEF PlanOf, PlanGroups
<1> QED
  BY <1>1, <1>2, <1>3, Zenon

(* GroupsReadable, for any tables and queries that can be answered. *)
THEOREM AnswerReadable ==
  ASSUME Answerable
  PROVE  Spec => []GroupsReadable
<1>1. Init => Kept
  BY InitKept
<1>2. Kept /\ [Next]_vars => Kept'
  BY NextKept
<1>3. Kept => GroupsReadable
  <2> SUFFICES ASSUME Kept, Done, ~(WithSums(query) /\ query.byCount /\ query.limit > 0)
               PROVE  result.readable /\ (query.group => Len(result.groups) = Len(CopyGroups(Source, query)))
    BY Zenon DEF GroupsReadable, Source
  <2>1. AnswerableQuery(query)
    BY Zenon DEF Kept, Answerable
  <2>2. ReadOf(Source) /\ IsGroups(Source.groups) /\ IsCounts(Source.counts)
    BY GroupsRead, Zenon
  <2>3. CASE query.group
    <3>1. CopiedLen(Source)
      BY <2>1, <2>2, CopyCounted, Zenon
    <3>2. ReadAll(Source)
      BY <2>1, <2>3, <3>1, ReadsAll, Zenon
    <3> QED
      BY <2>2, <3>2, Zenon DEF ReadAll, ReadOf
  <2>4. CASE ~query.group
    <3>1. ReadGroups(Source, query) = [readable |-> TRUE, groups |-> <<>>]
      BY <2>4, Zenon DEF ReadGroups
    <3>2. ReadGroups(Source, query).readable
      BY <3>1
    <3> QED
      BY <2>2, <2>4, <3>2, Zenon DEF ReadOf
  <2> QED
    BY <2>3, <2>4
<1> QED
  BY <1>1, <1>2, <1>3, PTL DEF Spec

(* The groups of an answer GroupsExact is about. *)
LEMMA AnswerGroupsAre ==
  ASSUME Answerable, Kept, Done, query.group, ~WithSums(query),
         path = "local" \/ UsesHistogram(query) \/ query.offset = 0, path = "workers" \/ query.sql \/ query.limit = 0
  PROVE  RightGroups(result.groups)
<1>1. path \in {"workers", "local"} /\ AnswerableTable(table) /\ AnswerableQuery(query)
  BY Zenon DEF Kept, Answerable
<1>2. ReadOf(Source) /\ IsGroups(Source.groups) /\ IsCounts(Source.counts)
  BY GroupsRead, Zenon
<1>3. CopiedLen(Source)
  BY <1>1, <1>2, CopyCounted, Zenon
<1>4. ReadAll(Source)
  BY <1>1, <1>3, ReadsAll, Zenon
<1>5. result.groups = CopyGroups(Source, query)
  BY <1>2, <1>4, Zenon DEF ReadAll, ReadOf
<1>6. /\ UsesHistogram(query) => CountsOf(Source.counts, Matching)
      /\ ~UsesHistogram(query) => GroupsOf(Source.groups, Matching)
  <2>1. CASE path = "workers"
    <3>1. MergedGroups(Reduced, Matching)
      BY <2>1, WorkersAnswer, Zenon DEF ReducerOf
    <3>2. Source = Reduced
      BY <2>1 DEF Source
    <3>3. ~UsesHistogram(query) => query.offset = 0
      <4>1. path # "local"
        BY <2>1
      <4> QED
        BY <4>1, Zenon
    <3> QED
      BY <3>1, <3>2, <3>3, Zenon DEF MergedGroups
  <2>2. CASE path = "local"
    <3>1. ~(~query.sql /\ query.limit > 0)
      <4>1. query.limit \in Nat
        BY <1>1, TakeIs, Zenon
      <4>2. query.sql \/ query.limit = 0
        BY <2>2
      <4> QED
        BY <4>1, <4>2
    <3>2. PlanOf(plan, Matching)
      BY <2>2, <3>1, LocalAnswer, Zenon
    <3>3. Source = plan
      BY <2>2 DEF Source
    <3> QED
      BY <3>2, <3>3, Zenon DEF PlanOf, PlanGroups
  <2> QED
    BY <1>1, <2>1, <2>2, Zenon
<1>7. CASE UsesHistogram(query)
  <2>1. RightGroups(HistRecords(Source, query))
    BY <1>1, <1>2, <1>6, <1>7, HistRight, Zenon
  <2> QED
    BY <1>5, <1>7, <2>1, Zenon DEF CopyGroups
<1>8. CASE ~UsesHistogram(query)
  <2>1. RightGroups(CopyGroupTable(Source, query, query.limit))
    BY <1>1, <1>6, <1>8, TableRight, Zenon
  <2> QED
    BY <1>5, <1>8, <2>1, Zenon DEF CopyGroups
<1> QED
  BY <1>7, <1>8

(* GroupsExact, for a table of groups as for a histogram. *)
THEOREM AnswerGroups ==
  ASSUME Answerable
  PROVE  Spec => []GroupsExact
<1>1. Init => Kept
  BY InitKept
<1>2. Kept /\ [Next]_vars => Kept'
  BY NextKept
<1>3. Kept => GroupsExact
  BY AnswerGroupsAre, Zenon DEF GroupsExact, RightGroups
<1> QED
  BY <1>1, <1>2, <1>3, PTL DEF Spec

(* AnswerExact: whatever path a query takes, however its chunks are spread over the workers  *)
(* and in whatever order they finish, its answer is that of a row by row reading of the      *)
(* table.  For any tables and queries that can be answered.                                  *)
THEOREM AnswerExactHolds ==
  ASSUME Answerable
  PROVE  Spec => []AnswerExact
<1>1. Spec => []RowsExact
  BY AnswerRows
<1>2. Spec => []AggregatesExact
  BY AnswerAggregates
<1>3. Spec => []GroupsExact
  BY AnswerGroups
<1>4. Spec => []GroupsReadable
  BY AnswerReadable
<1>5. Spec => []ProjectionAligned
  BY AnswerProjection
<1>6. RowsExact /\ AggregatesExact /\ GroupsExact /\ GroupsReadable /\ ProjectionAligned => AnswerExact
  BY Zenon DEF AnswerExact
<1> QED
  BY <1>1, <1>2, <1>3, <1>4, <1>5, <1>6, PTL
=============================================================================
