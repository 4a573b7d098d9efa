------------------------- MODULE ArenaBudget_proofs -------------------------
(* Proofs about ArenaBudget, for any number of threads, any sizes and any  *)
(* release policy: the budget of a query stays below its cap and is exact, *)
(* and so is, when the caps leave room, the total of retained bytes.       *)
EXTENDS ArenaBudget, FiniteSetTheorems, TLAPS

(* A target of growth lies above what is reserved.                         *)
LEMMA TargetGrows ==
  ASSUME NEW t \in Threads, reserved \in [Threads -> Nat],
         NEW n \in Needs, n > reserved[t], NEW m \in Targets(t, n)
  PROVE  m - reserved[t] \in Nat
BY ArenaAssumption, SMT DEF Targets

LEMMA MonusNat == \A a, b \in Nat : Monus(a, b) \in Nat
BY SMT DEF Monus

LEMMA LeastNat == \A a, b \in Nat : Least(a, b) \in Nat /\ Least(a, b) <= b
BY SMT DEF Least

LEMMA GreatestNat == \A a, b \in Nat : Greatest(a, b) \in Nat
BY SMT DEF Greatest

(* Steps of a scan touch neither total.                                    *)
LEMMA ScanInd ==
  ASSUME BudgetInv, NEW t \in Threads, ScanStep(t)
  PROVE  BudgetInv'
<1>1. CASE Fits(t)
  BY <1>1, SMT DEF BudgetInv, Fits, localVars, historyVars
<1>2. CASE Flush(t)
  BY <1>2, SMT DEF BudgetInv, Flush, localVars, historyVars
<1>3. CASE Finish(t)
  BY <1>3, SMT DEF BudgetInv, Finish, Goto, Places, localVars, historyVars
<1>4. CASE Outgrows(t)
  <2>1. PICK n \in Needs : \E m \in Targets(t, n) :
          /\ n > reserved[t]
          /\ IF m > MaxBytes
               THEN Goto(t, "end") /\ UNCHANGED <<grow, need>>
               ELSE /\ Goto(t, "reserve")
                    /\ grow' = [grow EXCEPT ![t] = m - reserved[t]]
    BY <1>4, Zenon DEF Outgrows
  <2>2. PICK m \in Targets(t, n) :
          /\ n > reserved[t]
          /\ IF m > MaxBytes
               THEN Goto(t, "end") /\ UNCHANGED <<grow, need>>
               ELSE /\ Goto(t, "reserve")
                    /\ grow' = [grow EXCEPT ![t] = m - reserved[t]]
    BY <2>1
  <2>3. m - reserved[t] \in Nat
    BY <2>2, TargetGrows DEF BudgetInv
  <2> QED
    BY <1>4, <2>2, <2>3, SMT DEF BudgetInv, Outgrows, Goto, Places, arenaVars, historyVars
<1> QED
  BY <1>1, <1>2, <1>3, <1>4 DEF ScanStep

(* Steps on the totals: only Reserve leads to a swap, and it has compared. *)
LEMMA BudgetStepInd ==
  ASSUME BudgetInv, NEW t \in Threads, BudgetStep(t)
  PROVE  BudgetInv'
<1>1. CASE Reserve(t)
  BY ArenaAssumption, <1>1, SMT DEF BudgetInv, Reserve, Goto, Places, arenaVars, historyVars
<1>2. CASE Swap(t)
  BY <1>2, SMT DEF BudgetInv, Swap, Goto, Places, arenaVars, localVars
<1>3. CASE AddLive(t)
  BY <1>3, SMT DEF BudgetInv, AddLive, Goto, Places, localVars, historyVars
<1>4. CASE EndQuery(t)
  <2>1. Kept(t) \in Nat
    BY ArenaAssumption, LeastNat, GreatestNat, Zenon DEF Kept, BudgetInv
  <2>2. Least(Kept(t), BaseBytes) \in Nat
    BY ArenaAssumption, <2>1, LeastNat
  <2> QED
    BY <1>4, <2>1, <2>2, SMT DEF BudgetInv, EndQuery, Goto, Places, historyVars
<1>5. CASE LoadRetained(t)
  BY <1>5, SMT DEF BudgetInv, LoadRetained, Goto, Places, arenaVars, historyVars
<1>6. CASE Adjust(t)
  <2>1. Others(t) \in Nat
    BY MonusNat DEF Others, BudgetInv
  <2>2. Accepted(t) \in Nat
    BY ArenaAssumption, <2>1, MonusNat, LeastNat DEF Accepted, BudgetInv
  <2>3. Greatest(Accepted(t), BaseBytes) \in Nat
    BY ArenaAssumption, <2>2, GreatestNat
  <2> QED
    BY <1>6, <2>1, <2>2, <2>3, SMT DEF BudgetInv, Adjust, Goto, Places, localVars, historyVars
<1> QED
  BY <1>1, <1>2, <1>3, <1>4, <1>5, <1>6 DEF BudgetStep

(* The initial state: a pool retains the base of each of its threads.      *)
LEMMA InitInd == Init => BudgetInv
<1>1. Cardinality(Threads) \in Nat
  BY ArenaAssumption, FS_CardinalityType
<1>2. BaseBytes * Cardinality(Threads) \in Nat
  BY ArenaAssumption, <1>1, SMT
<1> QED
  BY ArenaAssumption, <1>2, SMT DEF Init, BudgetInv, Places

(* A new budget starts below its cap, and nobody is about to swap.         *)
LEMMA StartInd == BudgetInv /\ Start => BudgetInv'
<1> SUFFICES ASSUME BudgetInv, Start PROVE BudgetInv'
  OBVIOUS
<1>1. used' \in 0 .. GlobalCap
  BY SMT DEF BudgetInv, Start, Least
<1> QED
  BY <1>1, SMT DEF BudgetInv, Start, Places, localVars

(* The step, for all of Next.                                              *)
LEMMA BudgetNext == BudgetInv /\ [Next]_vars => BudgetInv'
<1> SUFFICES ASSUME BudgetInv, [Next]_vars PROVE BudgetInv'
  OBVIOUS
<1>1. CASE Start
  BY <1>1, StartInd
<1>2. ASSUME NEW t \in Threads, ScanStep(t) PROVE BudgetInv'
  BY <1>2, ScanInd
<1>3. ASSUME NEW t \in Threads, BudgetStep(t) PROVE BudgetInv'
  BY <1>3, BudgetStepInd
<1>4. CASE UNCHANGED vars
  BY <1>4 DEF vars, arenaVars, localVars, historyVars, BudgetInv
<1> QED
  BY <1>1, <1>2, <1>3, <1>4 DEF Next

-----------------------------------------------------------------------------
(* SUMS OVER THE THREADS                                                   *)


(* The units of one thread, and those of the others.                       *)
Own(f, t)  == {t} \X (1 .. f[t])
Rest(f, t) == UNION {Own(f, u) : u \in Threads \ {t}}

LEMMA CountUpTo == \A n \in Nat : IsFiniteSet(1 .. n) /\ Cardinality(1 .. n) = n
<1> SUFFICES ASSUME NEW n \in Nat PROVE IsFiniteSet(1 .. n) /\ Cardinality(1 .. n) = n
  OBVIOUS
<1>1. /\ IsFiniteSet(1 .. n)
      /\ Cardinality(1 .. n) = IF 1 > n THEN 0 ELSE n - 1 + 1
  BY FS_Interval
<1> QED
  BY <1>1

LEMMA OwnCount ==
  ASSUME NEW f, NEW t, f[t] \in Nat
  PROVE  IsFiniteSet(Own(f, t)) /\ Cardinality(Own(f, t)) = f[t]
<1>1. IsFiniteSet({t}) /\ Cardinality({t}) = 1
  BY FS_Singleton
<1>2. IsFiniteSet(1 .. f[t]) /\ Cardinality(1 .. f[t]) = f[t]
  BY CountUpTo
<1>3. IsFiniteSet(Own(f, t)) /\ Cardinality(Own(f, t)) = Cardinality({t}) * Cardinality(1 .. f[t])
  BY <1>1, <1>2, FS_Product DEF Own
<1> QED
  BY <1>1, <1>2, <1>3

LEMMA RestFinite ==
  ASSUME NEW f \in [Threads -> Nat], NEW t
  PROVE  IsFiniteSet(Rest(f, t))
<1> DEFINE others == Threads \ {t}
           parts == {Own(f, u) : u \in others}
           own == [u \in others |-> Own(f, u)]
<1>1. IsFiniteSet(others)
  BY ArenaAssumption, FS_RemoveElement
<1>2. own \in Surjection(others, parts)
  BY DEF Surjection
<1>3. IsFiniteSet(parts)
  BY <1>1, <1>2, FS_Surjection
<1>4. \A s \in parts : IsFiniteSet(s)
  BY OwnCount
<1> QED
  BY <1>3, <1>4, FS_UNION DEF Rest

(* The sum is one term and the rest, and the rest does not depend on it.   *)
LEMMA SumSplit ==
  ASSUME NEW f \in [Threads -> Nat], NEW t \in Threads
  PROVE  /\ IsFiniteSet(Units(f)) /\ SumOver(f) \in Nat
         /\ Cardinality(Rest(f, t)) \in Nat
         /\ SumOver(f) = f[t] + Cardinality(Rest(f, t))
<1>1. Units(f) = Own(f, t) \cup Rest(f, t)
  BY Zenon DEF Units, Own, Rest
<1>2. Own(f, t) \cap Rest(f, t) = {}
  BY DEF Own, Rest
<1>3. IsFiniteSet(Own(f, t)) /\ Cardinality(Own(f, t)) = f[t]
  BY OwnCount
<1>4. IsFiniteSet(Rest(f, t)) /\ Cardinality(Rest(f, t)) \in Nat
  BY RestFinite, FS_CardinalityType
<1>5. /\ IsFiniteSet(Units(f))
      /\ Cardinality(Units(f)) = Cardinality(Own(f, t)) + Cardinality(Rest(f, t)) - Cardinality({})
  BY <1>1, <1>2, <1>3, <1>4, FS_Union, ZenonT(60)
<1> QED
  BY <1>3, <1>4, <1>5, FS_EmptySet DEF SumOver

LEMMA SumChange ==
  ASSUME NEW f \in [Threads -> Nat], NEW g \in [Threads -> Nat], NEW t \in Threads,
         \A u \in Threads \ {t} : g[u] = f[u]
  PROVE  SumOver(g) = SumOver(f) - f[t] + g[t]
<1>1. Rest(f, t) = Rest(g, t)
  BY DEF Rest, Own
<1> QED
  BY <1>1, SumSplit

(* A sum of equal terms.                                                   *)
LEMMA SumOfEqual ==
  ASSUME NEW n \in Nat
  PROVE  SumOver([t \in Threads |-> n]) = Cardinality(Threads) * n
<1>1. Units([t \in Threads |-> n]) = Threads \X (1 .. n)
  BY DEF Units
<1>2. IsFiniteSet(1 .. n) /\ Cardinality(1 .. n) = n
  BY CountUpTo
<1>3. Cardinality(Threads \X (1 .. n)) = Cardinality(Threads) * Cardinality(1 .. n)
  BY <1>2, ArenaAssumption, FS_Product
<1> QED
  BY <1>1, <1>2, <1>3 DEF SumOver

LEMMA SumOfZero == SumOver([t \in Threads |-> 0]) = 0
<1>1. Cardinality(Threads) \in Nat
  BY ArenaAssumption, FS_CardinalityType
<1>2. SumOver([t \in Threads |-> 0]) = Cardinality(Threads) * 0
  BY SumOfEqual
<1> QED
  BY <1>1, <1>2, SMT

(* What the others hold when none of them holds more than m.               *)
LEMMA SumOfOthers ==
  ASSUME NEW f \in [Threads -> Nat], NEW t \in Threads, NEW m \in Nat,
         \A u \in Threads : f[u] <= m
  PROVE  SumOver(f) - f[t] <= (Cardinality(Threads) - 1) * m
<1> DEFINE others == Threads \ {t}
           room == others \X (1 .. m)
<1>1. IsFiniteSet(others) /\ Cardinality(others) = Cardinality(Threads) - 1
  BY ArenaAssumption, FS_RemoveElement
<1>2. IsFiniteSet(1 .. m) /\ Cardinality(1 .. m) = m
  BY CountUpTo
<1>3. IsFiniteSet(room) /\ Cardinality(room) = (Cardinality(Threads) - 1) * m
  <2>1. IsFiniteSet(room) /\ Cardinality(room) = Cardinality(others) * Cardinality(1 .. m)
    <3> HIDE DEF others
    <3> QED
      BY <1>1, <1>2, FS_Product
  <2> HIDE DEF others, room
  <2> QED
    BY <1>1, <1>2, <2>1
<1>4. Rest(f, t) \in SUBSET room
  BY DEF Rest, Own
<1>5. Cardinality(Rest(f, t)) <= Cardinality(room)
  BY <1>3, <1>4, FS_Subset, Zenon
<1> QED
  BY <1>3, <1>5, SumSplit

-----------------------------------------------------------------------------
(* SIZES                                                                   *)

LEMMA SizesInit == Init => SizesInv
BY ArenaAssumption DEF Init, SizesInv

(* What a thread wants to keep is between its base and what it has.        *)
LEMMA KeptBetween ==
  ASSUME NEW t \in Threads, reserved[t] \in Nat, BaseBytes <= reserved[t]
  PROVE  Kept(t) \in Nat /\ BaseBytes <= Kept(t) /\ Kept(t) <= reserved[t]
BY ArenaAssumption, SMT DEF Kept, Least, Greatest

LEMMA AcceptedBetween ==
  ASSUME BudgetInv, NEW t \in Threads, BaseBytes <= desired[t], desired[t] <= reserved[t]
  PROVE  /\ Greatest(Accepted(t), BaseBytes) \in Nat
         /\ BaseBytes <= Greatest(Accepted(t), BaseBytes)
         /\ Greatest(Accepted(t), BaseBytes) <= reserved[t]
BY ArenaAssumption, SMT DEF Accepted, Others, Least, Greatest, Monus, BudgetInv

LEMMA SizesStep ==
  ASSUME BudgetInv, SizesInv, [Next]_vars
  PROVE  SizesInv'
<1>1. CASE Start
  BY <1>1, SMT DEF Start, SizesInv, BudgetInv, localVars
<1>2. ASSUME NEW t \in Threads, Fits(t) \/ Flush(t) \/ Finish(t)
      PROVE  SizesInv'
  BY <1>2, SMT DEF Fits, Flush, Finish, Goto, SizesInv, BudgetInv, localVars
<1>3. ASSUME NEW t \in Threads, Outgrows(t)
      PROVE  SizesInv'
  <2>1. PICK n \in Needs : \E m \in Targets(t, n) :
          /\ n > reserved[t]
          /\ IF m > MaxBytes
               THEN Goto(t, "end") /\ UNCHANGED <<grow, need>>
               ELSE /\ Goto(t, "reserve")
                    /\ grow' = [grow EXCEPT ![t] = m - reserved[t]]
    BY <1>3, Zenon DEF Outgrows
  <2>2. PICK m \in Targets(t, n) :
          IF m > MaxBytes
            THEN Goto(t, "end") /\ UNCHANGED <<grow, need>>
            ELSE /\ Goto(t, "reserve")
                 /\ grow' = [grow EXCEPT ![t] = m - reserved[t]]
    BY <2>1
  <2>3. m \in Int
    BY ArenaAssumption, SMT DEF Targets
  <2>4. UNCHANGED <<reserved, desired>> /\ pc[t] = "scan"
    BY <1>3, Zenon DEF Outgrows, arenaVars
  <2> QED
    BY <2>2, <2>3, <2>4, ArenaAssumption, SMT DEF Goto, SizesInv, BudgetInv
<1>4. ASSUME NEW t \in Threads, Reserve(t) \/ Swap(t) \/ AddLive(t) \/ LoadRetained(t)
      PROVE  SizesInv'
  BY <1>4, ArenaAssumption, SMT
     DEF Reserve, Swap, AddLive, LoadRetained, Goto, SizesInv, BudgetInv, arenaVars, localVars
<1>5. ASSUME NEW t \in Threads, EndQuery(t)
      PROVE  SizesInv'
  <2>1. Kept(t) \in Nat /\ BaseBytes <= Kept(t) /\ Kept(t) <= reserved[t]
    BY KeptBetween DEF SizesInv, BudgetInv
  <2>2. desired' = [desired EXCEPT ![t] = Kept(t)] \/ desired' = [desired EXCEPT ![t] = BaseBytes]
    <3>1. Least(Kept(t), BaseBytes) = BaseBytes
      BY <2>1, ArenaAssumption, SMT DEF Least
    <3> QED
      BY <1>5, <3>1, Zenon DEF EndQuery
  <2> QED
    BY <1>5, <2>1, <2>2, ArenaAssumption, SMT DEF EndQuery, Goto, SizesInv, BudgetInv
<1>6. ASSUME NEW t \in Threads, Adjust(t)
      PROVE  SizesInv'
  <2>1. /\ Greatest(Accepted(t), BaseBytes) \in Nat
        /\ BaseBytes <= Greatest(Accepted(t), BaseBytes)
        /\ Greatest(Accepted(t), BaseBytes) <= reserved[t]
    BY <1>6, AcceptedBetween DEF Adjust, SizesInv
  <2> QED
    BY <1>6, <2>1, ArenaAssumption, SMT DEF Adjust, Goto, SizesInv, BudgetInv, localVars
<1>7. CASE UNCHANGED vars
  BY <1>7 DEF vars, arenaVars, localVars, SizesInv
<1> QED
  BY <1>1, <1>2, <1>3, <1>4, <1>5, <1>6, <1>7 DEF Next, ScanStep, BudgetStep
-----------------------------------------------------------------------------
(* GRANTS                                                                  *)

LEMMA PlusZero == \A n \in Nat : n + 0 = n
BY SMT

LEMMA GrantsInit == Init => GrantsInv
BY SumOfZero, SMT DEF Init, GrantsInv, BudgetExact

(* Only a new query and a successful exchange touch the grants.            *)
LEMMA GrantsStep ==
  ASSUME BudgetInv, GrantsInv, [Next]_vars
  PROVE  GrantsInv'
<1>1. CASE Start
  <2>1. used' \in Nat
    BY <1>1, ArenaAssumption, SMT DEF Start, Least, BudgetInv
  <2>2. granted' = [t \in Threads |-> 0] /\ initial' = used'
    BY <1>1 DEF Start
  <2>3. SumOver(granted') = 0
    BY <2>2, SumOfZero
  <2>4. granted' \in [Threads -> Nat] /\ initial' = used'
    BY <2>2
  <2>5. used' + 0 = used'
    BY <2>1, PlusZero, Zenon
  <2>6. used' = initial' + SumOver(granted')
    BY <2>3, <2>4, <2>5, Zenon
  <2> QED
    BY <2>1, <2>4, <2>6 DEF GrantsInv, BudgetExact
<1>2. ASSUME NEW t \in Threads, Swap(t), used = seen[t]
      PROVE  GrantsInv'
  <2>1. /\ granted \in [Threads -> Nat] /\ grow[t] \in Nat /\ initial' = initial
        /\ granted' = [granted EXCEPT ![t] = @ + grow[t]] /\ used' = used + grow[t]
    BY <1>2 DEF Swap, GrantsInv, BudgetInv
  <2>2. granted' \in [Threads -> Nat] /\ granted'[t] = granted[t] + grow[t]
    BY <2>1, SMT
  <2>3. \A u \in Threads \ {t} : granted'[u] = granted[u]
    BY <2>1
  <2>4. SumOver(granted') = SumOver(granted) - granted[t] + granted'[t]
    BY <2>1, <2>2, <2>3, SumChange
  <2>5. SumOver(granted) \in Nat /\ granted[t] \in Nat
    BY <2>1, SumSplit
  <2> QED
    BY <2>1, <2>2, <2>4, <2>5, SMT DEF GrantsInv, BudgetExact
<1>3. CASE UNCHANGED <<used, initial, granted>>
  BY <1>3 DEF GrantsInv, BudgetExact
<1>4. ASSUME NEW t \in Threads, ScanStep(t) \/ BudgetStep(t)
      PROVE  (Swap(t) /\ used = seen[t]) \/ UNCHANGED <<used, initial, granted>>
  BY <1>4 DEF ScanStep, BudgetStep, Fits, Outgrows, Flush, Finish, Reserve, Swap, AddLive,
              EndQuery, LoadRetained, Adjust, historyVars
<1> QED
  BY <1>1, <1>2, <1>3, <1>4 DEF Next, vars, historyVars

-----------------------------------------------------------------------------
(* THE TOTAL                                                               *)

LEMMA BasesSum == Init => SumOver(reserved) = Cardinality(Threads) * BaseBytes
BY ArenaAssumption, SumOfEqual DEF Init

LEMMA TotalInit == Init => RetainedNotOver /\ RoomyInv
<1> SUFFICES ASSUME Init PROVE RetainedNotOver /\ RoomyInv
  OBVIOUS
<1>1. Cardinality(Threads) \in Nat
  BY ArenaAssumption, FS_CardinalityType
<1>2. SumOver(reserved) = Cardinality(Threads) * BaseBytes
  BY BasesSum
<1>3. retained = SumOver(reserved)
  BY <1>1, <1>2, ArenaAssumption, SMT DEF Init
<1>4. SumOver(reserved) \in Nat
  BY <1>1, <1>2, ArenaAssumption, SMT
<1>5. BasesFit => ArenasWithinCap
  BY <1>2, Zenon DEF BasesFit, ArenasWithinCap
<1> QED
  BY <1>3, <1>4, <1>5, SMT DEF RetainedNotOver, RoomyInv, Init

(* The parts of RoomyInv that a step must keep, when it leaves the arenas  *)
(* and what is coming to them alone.                                       *)
LEMMA TotalQuiet ==
  ASSUME RetainedNotOver, RoomyInv,
         UNCHANGED <<retained, reserved, used, Coming>>,
         (\E t \in Threads : pc'[t] # "idle") => (\E t \in Threads : pc[t] # "idle")
  PROVE  RetainedNotOver' /\ RoomyInv'
BY DEF RetainedNotOver, RoomyInv, ArenasWithinCap

LEMMA ComingType == BudgetInv => Coming \in [Threads -> Nat]
BY DEF BudgetInv, Coming

LEMMA TotalStart ==
  ASSUME BudgetInv, RetainedNotOver, RoomyInv, Start
  PROVE  RetainedNotOver' /\ RoomyInv'
<1>1. Coming' = [t \in Threads |-> 0]
  BY DEF Start, Coming
<1>2. SumOver(Coming') = 0
  BY <1>1, SumOfZero
<1>3. UNCHANGED <<retained, reserved>> /\ used' = Least(retained, GlobalCap)
  BY DEF Start
<1>4. Roomy /\ BasesFit => used' = SumOver(reserved)
  BY <1>3, Zenon DEF RoomyInv, ArenasWithinCap, Least
<1>5. retained \in Nat
  BY DEF BudgetInv
<1>6. Roomy /\ BasesFit => SumOver(reserved)' + SumOver(Coming') <= used'
  BY <1>2, <1>3, <1>4, <1>5, SMT DEF RoomyInv
<1> QED
  BY <1>3, <1>6, Zenon DEF RetainedNotOver, RoomyInv, ArenasWithinCap

(* What is granted is coming.                                              *)
LEMMA TotalSwap ==
  ASSUME BudgetInv, RetainedNotOver, RoomyInv, NEW t \in Threads, Swap(t), used = seen[t]
  PROVE  RetainedNotOver' /\ RoomyInv'
<1>1. /\ UNCHANGED <<retained, reserved, grow>> /\ pc[t] = "swap" /\ pc' = [pc EXCEPT ![t] = "add"]
      /\ used' = used + grow[t]
  BY DEF Swap, Goto, arenaVars, localVars
<1>2. Coming \in [Threads -> Nat] /\ Coming' \in [Threads -> Nat]
  BY <1>1, ComingType, SMT DEF Coming, BudgetInv
<1>3. Coming[t] = 0 /\ Coming'[t] = grow[t] /\ \A u \in Threads \ {t} : Coming'[u] = Coming[u]
  BY <1>1, SMT DEF Coming, BudgetInv
<1>4. SumOver(Coming') = SumOver(Coming) - Coming[t] + Coming'[t]
  BY <1>2, <1>3, SumChange
<1>5. SumOver(Coming) \in Nat /\ SumOver(reserved) \in Nat /\ grow[t] \in Nat /\ used \in Nat
  BY <1>2, SumSplit DEF BudgetInv
<1>6. Roomy /\ BasesFit => SumOver(reserved) + SumOver(Coming) <= used
  BY <1>1, Zenon DEF RoomyInv
<1>7. Roomy /\ BasesFit => SumOver(reserved) + SumOver(Coming') <= used'
  BY <1>1, <1>3, <1>4, <1>5, <1>6, SMT
<1> QED
  BY <1>1, <1>7, Zenon DEF RetainedNotOver, RoomyInv, ArenasWithinCap

(* ... and what was coming is in the arena and in the total.               *)
LEMMA TotalAdd ==
  ASSUME BudgetInv, RetainedNotOver, RoomyInv, NEW t \in Threads, AddLive(t)
  PROVE  RetainedNotOver' /\ RoomyInv'
<1>1. /\ UNCHANGED <<used, grow>> /\ pc[t] = "add" /\ pc' = [pc EXCEPT ![t] = "scan"]
      /\ retained' = retained + grow[t] /\ reserved' = [reserved EXCEPT ![t] = @ + grow[t]]
  BY DEF AddLive, Goto, localVars
<1>2. Coming \in [Threads -> Nat] /\ Coming' \in [Threads -> Nat]
  BY <1>1, ComingType, SMT DEF Coming, BudgetInv
<1>3. Coming[t] = grow[t] /\ Coming'[t] = 0 /\ \A u \in Threads \ {t} : Coming'[u] = Coming[u]
  BY <1>1, SMT DEF Coming, BudgetInv
<1>4. SumOver(Coming') = SumOver(Coming) - Coming[t] + Coming'[t]
  BY <1>2, <1>3, SumChange
<1>5. /\ reserved \in [Threads -> Nat] /\ reserved' \in [Threads -> Nat]
      /\ reserved'[t] = reserved[t] + grow[t] /\ \A u \in Threads \ {t} : reserved'[u] = reserved[u]
  BY <1>1, SMT DEF BudgetInv
<1>6. SumOver(reserved') = SumOver(reserved) - reserved[t] + reserved'[t]
  BY <1>5, SumChange
<1>7. SumOver(Coming) \in Nat /\ SumOver(reserved) \in Nat
  BY <1>2, <1>5, SumSplit
<1>8. Coming[t] <= SumOver(Coming)
  BY <1>2, SumSplit
<1>9. grow[t] \in Nat /\ reserved[t] \in Nat /\ used \in Nat /\ used <= GlobalCap /\ retained \in Nat
  BY DEF BudgetInv
<1>10. SumOver(reserved') = SumOver(reserved) + grow[t] /\ SumOver(Coming') = SumOver(Coming) - grow[t]
  BY <1>3, <1>4, <1>5, <1>6, <1>7, <1>9, SMT
<1>11. RetainedNotOver'
  BY <1>1, <1>7, <1>9, <1>10, SMT DEF RetainedNotOver
<1>12. Roomy => retained' = SumOver(reserved')
  BY <1>1, <1>10 DEF RoomyInv
<1>13. Roomy /\ BasesFit => SumOver(reserved) + SumOver(Coming) <= used
  BY <1>1, Zenon DEF RoomyInv
<1>14. Roomy /\ BasesFit => /\ SumOver(reserved') <= GlobalCap
                            /\ SumOver(reserved') + SumOver(Coming') <= used'
  BY <1>1, <1>3, <1>7, <1>8, <1>9, <1>10, <1>13, ArenaAssumption, SMT
<1> QED
  BY <1>11, <1>12, <1>14, Zenon DEF RoomyInv, ArenasWithinCap

(* The arithmetic of a hand-back: others is what the other arenas hold.    *)
LEMMA HandBack ==
  ASSUME NEW total \in Nat, NEW own \in Nat, NEW others \in Nat, NEW wanted \in Nat,
         BaseBytes <= wanted, wanted <= own,
         NEW rest, rest = Monus(total, own),
         NEW kept, kept = Least(wanted, Monus(RetainedCap, rest))
  PROVE  /\ total <= own + others => rest + kept <= Greatest(kept, BaseBytes) + others
         /\ total = own + others /\ others + BaseBytes <= RetainedCap =>
              rest + kept = Greatest(kept, BaseBytes) + others
BY ArenaAssumption, SMT DEF Monus, Least, Greatest

LEMMA TotalAdjust ==
  ASSUME BudgetInv, SizesInv, RetainedNotOver, RoomyInv,
         NEW t \in Threads, Adjust(t), retained = seen[t]
  PROVE  RetainedNotOver' /\ RoomyInv'
<1> DEFINE others == Cardinality(Rest(reserved, t))
           new == Greatest(Accepted(t), BaseBytes)
<1>1. /\ UNCHANGED <<used, grow>> /\ pc[t] = "adjust" /\ pc' = [pc EXCEPT ![t] = "idle"]
      /\ retained' = Others(t) + Accepted(t) /\ reserved' = [reserved EXCEPT ![t] = new]
  BY DEF Adjust, Goto, localVars
<1>2. new \in Nat /\ BaseBytes <= desired[t] /\ desired[t] <= reserved[t] /\ new <= reserved[t]
  BY <1>1, AcceptedBetween, SMT DEF SizesInv
<1>3. /\ reserved \in [Threads -> Nat] /\ reserved' \in [Threads -> Nat]
      /\ reserved'[t] = new /\ \A u \in Threads \ {t} : reserved'[u] = reserved[u]
  BY <1>1, <1>2, SMT DEF BudgetInv
<1>4. SumOver(reserved') = SumOver(reserved) - reserved[t] + new
  BY <1>3, SumChange
<1>5. others \in Nat /\ SumOver(reserved) \in Nat /\ SumOver(reserved) = reserved[t] + others
  BY <1>3, SumSplit
<1>6. /\ retained \in Nat /\ reserved[t] \in Nat /\ desired[t] \in Nat /\ used \in Nat
  BY DEF BudgetInv
<1>7. SumOver(reserved') = new + others
  BY <1>2, <1>4, <1>5, <1>6, SMT
<1>8. /\ retained <= reserved[t] + others => Others(t) + Accepted(t) <= new + others
      /\ retained = reserved[t] + others /\ others + BaseBytes <= RetainedCap =>
           Others(t) + Accepted(t) = new + others
  BY <1>2, <1>5, <1>6, HandBack DEF Others, Accepted
<1>9. RetainedNotOver'
  BY <1>1, <1>5, <1>7, <1>8 DEF RetainedNotOver
<1>10. Roomy => others + BaseBytes <= RetainedCap
  <2>1. SumOver(reserved) - reserved[t] <= (Cardinality(Threads) - 1) * MaxBytes
    <3>1. \A u \in Threads : reserved[u] <= MaxBytes
      BY DEF SizesInv
    <3> QED
      BY <1>3, <3>1, SumOfOthers, ArenaAssumption
  <2>2. (Cardinality(Threads) - 1) * MaxBytes \in Int
    <3>1. Cardinality(Threads) \in Nat
      BY ArenaAssumption, FS_CardinalityType
    <3> QED
      BY <3>1, ArenaAssumption, SMT
  <2> QED
    BY <1>5, <1>6, <2>1, <2>2, ArenaAssumption, SMT DEF Roomy
<1>11. Roomy => retained' = SumOver(reserved')
  BY <1>1, <1>5, <1>7, <1>8, <1>10 DEF RoomyInv
<1>12. Coming' = Coming
  BY <1>1, SMT DEF Coming, BudgetInv
<1>13. SumOver(Coming) \in Nat
  BY ComingType, SumSplit
<1>14. Roomy /\ BasesFit => /\ SumOver(reserved) <= GlobalCap
                            /\ SumOver(reserved) + SumOver(Coming) <= used
  BY <1>1, Zenon DEF RoomyInv, ArenasWithinCap
<1>15. Roomy /\ BasesFit => /\ SumOver(reserved') <= GlobalCap
                            /\ SumOver(reserved') + SumOver(Coming') <= used'
  BY <1>1, <1>2, <1>5, <1>6, <1>7, <1>12, <1>13, <1>14, ArenaAssumption, SMT
<1> QED
  BY <1>9, <1>11, <1>15, Zenon DEF RoomyInv, ArenasWithinCap

LEMMA TotalStep ==
  ASSUME BudgetInv, SizesInv, RetainedNotOver, RoomyInv, [Next]_vars
  PROVE  RetainedNotOver' /\ RoomyInv'
<1>1. CASE Start
  BY <1>1, TotalStart
<1>2. ASSUME NEW t \in Threads, ScanStep(t) \/ BudgetStep(t)
      PROVE  RetainedNotOver' /\ RoomyInv'
  <2>1. CASE Swap(t) /\ used = seen[t]
    BY <2>1, TotalSwap
  <2>2. CASE AddLive(t)
    BY <2>2, TotalAdd
  <2>3. CASE Adjust(t) /\ retained = seen[t]
    BY <2>3, TotalAdjust
  <2>4. CASE /\ ~AddLive(t)
             /\ ~(Swap(t) /\ used = seen[t])
             /\ ~(Adjust(t) /\ retained = seen[t])
    <3>1. UNCHANGED <<retained, reserved, used>> /\ pc[t] # "idle" /\ pc[t] # "add"
      BY <1>2, <2>4 DEF ScanStep, BudgetStep, Fits, Outgrows, Flush, Finish, Reserve, Swap,
                        EndQuery, LoadRetained, Adjust, arenaVars, Goto
    <3>2. /\ \E p \in Places \ {"add"} : pc' = [pc EXCEPT ![t] = p]
          /\ \A u \in Threads \ {t} : grow'[u] = grow[u]
      <4>1. pc' = pc \/ \E p \in Places \ {"add"} : pc' = [pc EXCEPT ![t] = p]
        BY <1>2, <2>4, Zenon
           DEF ScanStep, BudgetStep, Fits, Outgrows, Flush, Finish, Reserve, Swap,
               EndQuery, LoadRetained, Adjust, Goto, Places
      <4>2. pc' = pc => pc' = [pc EXCEPT ![t] = pc[t]]
        BY DEF BudgetInv
      <4>3. \A u \in Threads \ {t} : grow'[u] = grow[u]
        BY <1>2, <2>4
           DEF ScanStep, BudgetStep, Fits, Outgrows, Flush, Finish, Reserve, Swap,
               EndQuery, LoadRetained, Adjust, localVars, BudgetInv
      <4> QED
        BY <3>1, <4>1, <4>2, <4>3 DEF BudgetInv
    <3>3. Coming' = Coming
      BY <3>1, <3>2, SMT DEF Coming, BudgetInv
    <3> QED
      BY <3>1, <3>3, TotalQuiet
  <2> QED
    BY <2>1, <2>2, <2>3, <2>4
<1>3. CASE UNCHANGED vars
  BY <1>3, TotalQuiet DEF vars, arenaVars, localVars, Coming
<1> QED
  BY <1>1, <1>2, <1>3 DEF Next

-----------------------------------------------------------------------------
(* THEOREMS                                                                *)

(* The whole invariant: the budget, the sizes of the arenas, the grants of *)
(* the query and the total of retained bytes.                              *)
THEOREM ArenaInductive == Spec => []ArenaInv
<1>1. Init => ArenaInv
  BY InitInd, SizesInit, GrantsInit, TotalInit DEF ArenaInv
<1>2. ArenaInv /\ [Next]_vars => BudgetInv'
  BY BudgetNext DEF ArenaInv
<1>3. ArenaInv /\ [Next]_vars => ArenaInv'
  BY <1>2, SizesStep, GrantsStep, TotalStep DEF ArenaInv
<1> QED
  BY <1>1, <1>3, PTL DEF Spec

(* However many threads compete, the budget of a query stays below its cap: *)
(* a swap succeeds only on the value that was compared with the cap.       *)
THEOREM BudgetAlwaysCapped == Spec => []BudgetCapped
<1>1. ArenaInv => BudgetCapped
  BY SMT DEF ArenaInv, BudgetInv, BudgetCapped
<1> QED
  BY <1>1, ArenaInductive, PTL

(* No grant is lost or counted twice, whichever exchanges fail: the budget *)
(* is what was retained when the query began plus what it has granted.     *)
THEOREM BudgetAlwaysExact == Spec => []BudgetExact
<1>1. ArenaInv => BudgetExact
  BY DEF ArenaInv, GrantsInv
<1> QED
  BY <1>1, ArenaInductive, PTL

(* Under any caps and any policy, the total never counts bytes that no     *)
(* arena holds.                                                            *)
THEOREM RetainedNeverOver == Spec => []RetainedNotOver
<1>1. ArenaInv => RetainedNotOver
  BY DEF ArenaInv
<1> QED
  BY <1>1, ArenaInductive, PTL

(* When the retained cap leaves every thread its base, the total is what   *)
(* the arenas hold whenever the pool is at rest.  (A thread keeps its base *)
(* even when less was accepted; without the hypothesis the total drifts    *)
(* below what is held.)                                                    *)
THEOREM RetainedAlwaysExact ==
  ASSUME Roomy
  PROVE  Spec => []RetainedExact
<1>1. ArenaInv => RetainedExact
  BY Roomy DEF ArenaInv, RoomyInv, RetainedExact
<1> QED
  BY <1>1, ArenaInductive, PTL

(* ... and if the cap of a query is above what a new pool holds, what the  *)
(* arenas really hold stays below that cap, in all queries.                *)
THEOREM ArenasAlwaysWithinCap ==
  ASSUME Roomy, BasesFit
  PROVE  Spec => []ArenasWithinCap
<1>1. ArenaInv => ArenasWithinCap
  BY Roomy, BasesFit DEF ArenaInv, RoomyInv
<1> QED
  BY <1>1, ArenaInductive, PTL
=============================================================================
