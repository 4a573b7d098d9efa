-------------------------- MODULE ChunkQueue_proofs --------------------------
(***************************************************************************)
(* The safety of the chunk queue for every number of chunks and loops.     *)
(***************************************************************************)
EXTENDS ChunkQueue, FiniteSetTheorems, TLAPS

LEMMA ChunksFinite ==
  /\ IsFiniteSet(Chunks)
  /\ \A S \in SUBSET Chunks : IsFiniteSet(S) /\ Cardinality(S) \in Nat
<1>1. IsFiniteSet(Chunks)
  BY QueueAssumption, FS_Interval DEF Chunks
<1>2. QED
  BY <1>1, FS_Subset, FS_CardinalityType

LEMMA NoChunkIsNone == NoChunk \notin Chunks
<1>1. \A c \in Chunks : c \in Int
  BY QueueAssumption DEF Chunks
<1>2. QED
  BY <1>1, QueueAssumption

LEMMA CapBounds ==
  /\ PrefetchCap \in Nat
  /\ Cardinality(Loops) \in Nat
  /\ PrefetchCap >= 1
  /\ PrefetchCap > Cardinality(Loops)
<1>1. Cardinality(Loops) \in Nat
  BY QueueAssumption, FS_CardinalityType
<1>2. Cardinality(Loops) # 0
  BY QueueAssumption, FS_EmptySet
<1>3. QED
  BY <1>1, <1>2 DEF PrefetchCap

LEMMA StageToRange ==
  ASSUME TypeOK, NEW ld \in [Chunks -> LoadStates]
  PROVE  /\ StageTo(ld) \in build .. NChunks
         /\ Cardinality(Staged(ld)) \in Nat
         /\ StageTo(ld) > build =>
              StageTo(ld) - build <= PrefetchCap - Cardinality(Staged(ld))
<1>1. Cardinality(Staged(ld)) \in Nat
  BY ChunksFinite DEF Staged
<1>2. QED
  BY <1>1, CapBounds, QueueAssumption DEF StageTo, TypeOK

(* stage() never overfills the map.                                        *)
LEMMA StageBounded ==
  ASSUME TypeOK, NEW ld \in [Chunks -> LoadStates],
         Cardinality(Staged(ld)) <= PrefetchCap,
         \A c \in Chunks : c >= build => ld[c] = "none",
         Stage(ld)
  PROVE  Cardinality(Staged(load')) <= PrefetchCap
<1> DEFINE S == Staged(ld)
           N == build .. StageTo(ld) - 1
<1>1. /\ IsFiniteSet(S) /\ Cardinality(S) \in Nat
      /\ StageTo(ld) \in build .. NChunks
      /\ build \in Nat
  BY ChunksFinite, StageToRange, QueueAssumption DEF Staged, TypeOK
<1>2. IsFiniteSet(N) /\ Cardinality(N) = StageTo(ld) - build
  <2>1. /\ StageTo(ld) \in Int /\ build \in Int /\ build <= StageTo(ld)
        /\ StageTo(ld) - 1 \in Int
    BY <1>1, QueueAssumption
  <2>2. /\ IsFiniteSet(N)
        /\ Cardinality(N) = IF build > StageTo(ld) - 1 THEN 0
                            ELSE StageTo(ld) - 1 - build + 1
    BY <2>1, FS_Interval, Zenon
  <2>3. QED
    BY <2>1, <2>2
<1>3. Staged(load') \subseteq S \cup N
  BY <1>1, QueueAssumption DEF Stage, Staged
<1>4. /\ IsFiniteSet(S \cup N)
      /\ Cardinality(S \cup N) = Cardinality(S) + Cardinality(N) - Cardinality(S \cap N)
  BY <1>1, <1>2, FS_Union
<1>5. Cardinality(S \cap N) \in Nat
  BY ChunksFinite DEF Staged
<1>6. Cardinality(S \cup N) <= PrefetchCap
  BY <1>1, <1>2, <1>4, <1>5, StageToRange, CapBounds, QueueAssumption
<1>7. /\ Cardinality(Staged(load')) <= Cardinality(S \cup N)
      /\ Cardinality(Staged(load')) \in Nat
  BY <1>3, <1>4, FS_Subset, ChunksFinite DEF Staged
<1>8. QED
  BY <1>1, <1>2, <1>4, <1>5, <1>6, <1>7, CapBounds, QueueAssumption

(* Prefetching stays ahead of a loop that asks for a chunk: the entries    *)
(* that clog the map belong to the OTHER loops, fewer than the cap.        *)
LEMMA StageAhead ==
  ASSUME IndInv, NEW l \in Loops, loop[l] = "next", dispatch < NChunks
  PROVE  StageTo(load) > dispatch
<1> DEFINE Others == {m \in Loops \ {l} : loop[m] \in {"await", "dead"}}
           Held == {task[m] : m \in Others}
           f == [m \in Others |-> task[m]]
<1> SUFFICES ASSUME ~(StageTo(load) > dispatch) PROVE FALSE
  OBVIOUS
<1>1. /\ load \in [Chunks -> LoadStates] /\ build \in Nat /\ dispatch \in Nat
      /\ dispatch <= build
      /\ StageTo(load) \in build .. NChunks
  BY StageToRange, QueueAssumption DEF IndInv, TypeOK, Frontier
<1>2. StageTo(load) = build /\ build = dispatch
  BY <1>1, QueueAssumption
<1>3. Staged(load) \subseteq Held
  BY <1>1, <1>2, QueueAssumption
  DEF IndInv, Accounted, Frontier, Staged, Chunks, TypeOK
<1>4. /\ IsFiniteSet(Others) /\ Cardinality(Others) \in Nat
      /\ Cardinality(Others) <= Cardinality(Loops)
  BY QueueAssumption, FS_Subset, FS_CardinalityType
<1>5. f \in Surjection(Others, Held)
  BY DEF Surjection
<1>6. IsFiniteSet(Held) /\ Cardinality(Held) <= Cardinality(Others)
  BY <1>4, <1>5, FS_Surjection
<1>7. Cardinality(Staged(load)) <= Cardinality(Held) /\ Cardinality(Held) \in Nat
  BY <1>3, <1>6, FS_Subset, FS_CardinalityType
<1>8. PrefetchCap - Cardinality(Staged(load)) > 0
  BY <1>4, <1>6, <1>7, CapBounds, StageToRange, <1>1 DEF IndInv
<1>9. QED
  BY <1>1, <1>2, <1>8, CapBounds, StageToRange, QueueAssumption
  DEF StageTo, IndInv

-----------------------------------------------------------------------------
(* The inductive invariant, action by action.                              *)

LEMMA InitInd == Init => IndInv
<1> SUFFICES ASSUME Init PROVE IndInv
  OBVIOUS
<1>1. Staged(load) = {}
  BY DEF Init, Staged
<1>2. Cardinality(Staged(load)) = 0
  BY <1>1, FS_EmptySet
<1>3. TypeOK
  BY QueueAssumption DEF Init, TypeOK, LoadStates, LoopStates, Chunks
<1>4. Frontier /\ Accounted /\ Holding /\ Stopped /\ ClaimIsStaged
  BY QueueAssumption
  DEF Init, Frontier, Accounted, Holding, Stopped, ClaimIsStaged, Chunks, Staged
<1>5. PrefetchBounded /\ Disjoint
  BY <1>2, CapBounds DEF Init, PrefetchBounded, Disjoint
<1>6. QED
  BY <1>3, <1>4, <1>5 DEF IndInv

(* What Stage does to the map, shared by the three actions that stage.     *)
LEMMA StageEffect ==
  ASSUME TypeOK, NEW ld \in [Chunks -> LoadStates], Stage(ld)
  PROVE  /\ build' \in 0 .. NChunks
         /\ build <= build'
         /\ load' \in [Chunks -> LoadStates]
         /\ \A c \in Chunks : c >= build /\ c < build' => load'[c] = "loading"
         /\ \A c \in Chunks : c < build \/ c >= build' => load'[c] = ld[c]
<1>1. StageTo(ld) \in build .. NChunks
  BY StageToRange
<1>2. QED
  BY <1>1, QueueAssumption DEF Stage, TypeOK, LoadStates, Chunks

LEMMA ClaimInd ==
  ASSUME IndInv, NEW l \in Loops, Claim(l)
  PROVE  IndInv'
<1>1. /\ load \in [Chunks -> LoadStates] /\ TypeOK
      /\ \A c \in Chunks : c >= build => load[c] = "none"
      /\ build \in Nat /\ dispatch \in Nat /\ dispatch <= build
  BY QueueAssumption DEF IndInv, TypeOK, Frontier
<1>2. Cardinality(Staged(load')) <= PrefetchCap
  BY <1>1, StageBounded DEF IndInv, PrefetchBounded, Claim
<1>3. /\ build' \in 0 .. NChunks /\ build <= build'
      /\ load' \in [Chunks -> LoadStates]
      /\ \A c \in Chunks : c >= build /\ c < build' => load'[c] = "loading"
      /\ \A c \in Chunks : c < build \/ c >= build' => load'[c] = load[c]
  BY <1>1, StageEffect DEF Claim
<1>4. build' > dispatch /\ dispatch \in Chunks /\ dispatch' = dispatch + 1
  BY <1>1, StageAhead, QueueAssumption DEF Claim, Stage, Chunks
<1>5. dispatch \in Staged(load')
  BY <1>1, <1>3, <1>4 DEF IndInv, Frontier, Staged
<1>6. TypeOK'
  BY <1>1, <1>3, <1>4, QueueAssumption DEF TypeOK, Claim, LoopStates, Chunks
<1>7. Frontier'
  BY <1>1, <1>3, <1>4, QueueAssumption DEF IndInv, Frontier, Staged, Chunks, TypeOK
<1>8. Accounted'
  BY <1>1, <1>3, <1>4, QueueAssumption
  DEF IndInv, Accounted, Staged, Chunks, TypeOK, Claim
<1>9. Holding'
  BY <1>1, <1>3, <1>4, QueueAssumption DEF IndInv, Holding, Chunks, TypeOK, Claim
<1>10. Stopped'
  BY <1>1, <1>4, QueueAssumption DEF IndInv, Stopped, TypeOK, Claim
<1>11. ClaimIsStaged'
  BY <1>1, <1>3, <1>4, <1>5, QueueAssumption
  DEF IndInv, ClaimIsStaged, Staged, TypeOK, Claim, Chunks
<1>12. PrefetchBounded'
  BY <1>2 DEF PrefetchBounded, Staged
<1>13. Disjoint'
  BY <1>1, <1>4, QueueAssumption DEF IndInv, Disjoint, Holding, TypeOK, Claim, Chunks
<1>14. QED
  BY <1>6, <1>7, <1>8, <1>9, <1>10, <1>11, <1>12, <1>13 DEF IndInv

LEMMA ExhaustedInd ==
  ASSUME IndInv, NEW l \in Loops, Exhausted(l)
  PROVE  IndInv'
<1>1. /\ load \in [Chunks -> LoadStates] /\ TypeOK
      /\ build = NChunks /\ dispatch = NChunks /\ NChunks \in Nat
  BY QueueAssumption DEF IndInv, TypeOK, Frontier, Exhausted
<1>2. build' = NChunks /\ load' = load
  <2>1. build' = NChunks
    BY <1>1, StageEffect DEF Exhausted
  <2>2. \A c \in Chunks : load'[c] = load[c]
    BY <1>1, StageEffect DEF Exhausted, Chunks
  <2>3. load' \in [Chunks -> LoadStates]
    BY <1>1, StageEffect DEF Exhausted
  <2>4. QED
    BY <1>1, <2>1, <2>2, <2>3
<1>3. TypeOK' /\ Frontier' /\ Accounted' /\ Holding'
  BY <1>1, <1>2
  DEF IndInv, TypeOK, Frontier, Accounted, Holding, Exhausted, LoopStates, Staged
<1>4. Stopped' /\ ClaimIsStaged' /\ PrefetchBounded' /\ Disjoint'
  BY <1>1, <1>2
  DEF IndInv, TypeOK, Stopped, ClaimIsStaged, PrefetchBounded, Disjoint,
      Exhausted, Staged
<1>5. QED
  BY <1>3, <1>4 DEF IndInv

LEMMA LoadInd ==
  ASSUME IndInv, NEW c \in Chunks, Load(c)
  PROVE  IndInv'
<1>1. PICK s \in {"ready", "failed"} : load' = [load EXCEPT ![c] = s]
  BY DEF Load
<1>2. Staged(load') = Staged(load)
  BY <1>1 DEF Load, Staged, IndInv, TypeOK
<1>3. TypeOK' /\ Frontier' /\ Accounted' /\ Holding'
  BY <1>1, <1>2
  DEF IndInv, TypeOK, Frontier, Accounted, Holding, Load, LoadStates
<1>4. Stopped' /\ ClaimIsStaged' /\ PrefetchBounded' /\ Disjoint'
  BY <1>2
  DEF IndInv, Stopped, ClaimIsStaged, PrefetchBounded, Disjoint, Load
<1>5. QED
  BY <1>3, <1>4 DEF IndInv

LEMMA ReceiveInd ==
  ASSUME IndInv, NEW l \in Loops, Receive(l)
  PROVE  IndInv'
<1> DEFINE t  == task[l]
           ld == [load EXCEPT ![t] = "taken"]
<1>1. /\ load \in [Chunks -> LoadStates] /\ TypeOK
      /\ build \in Nat /\ dispatch \in Nat /\ dispatch <= build
      /\ t \in Chunks /\ t < dispatch
      /\ load[t] = "ready"
  BY QueueAssumption DEF IndInv, TypeOK, Frontier, Holding, Receive
<1>2. /\ ld \in [Chunks -> LoadStates]
      /\ ld[t] = "taken"
      /\ \A c \in Chunks : c # t => ld[c] = load[c]
      /\ \A c \in Chunks : c >= build => ld[c] = "none"
      /\ Staged(ld) = Staged(load) \ {t}
  BY <1>1, QueueAssumption DEF LoadStates, IndInv, Frontier, Staged, Chunks
<1>3. Cardinality(Staged(ld)) <= PrefetchCap
  <2>1. Cardinality(Staged(ld)) <= Cardinality(Staged(load))
    BY <1>2, ChunksFinite, FS_Subset DEF Staged
  <2>2. /\ Cardinality(Staged(load)) \in Nat
        /\ Cardinality(Staged(ld)) \in Nat
    BY ChunksFinite DEF Staged
  <2>3. Cardinality(Staged(load)) <= PrefetchCap
    BY DEF IndInv, PrefetchBounded
  <2>4. QED
    BY <2>1, <2>2, <2>3, CapBounds
<1>4. Stage(ld)
  BY DEF Receive
<1>5. Cardinality(Staged(load')) <= PrefetchCap
  BY <1>1, <1>2, <1>3, <1>4, StageBounded
<1>6. /\ build' \in 0 .. NChunks /\ build <= build'
      /\ load' \in [Chunks -> LoadStates]
      /\ \A c \in Chunks : c >= build /\ c < build' => load'[c] = "loading"
      /\ \A c \in Chunks : c < build \/ c >= build' => load'[c] = ld[c]
  BY <1>1, <1>2, <1>4, StageEffect
<1> HIDE DEF ld
<1>7. TypeOK'
  BY <1>1, <1>6 DEF TypeOK, Receive, LoopStates
<1>8. Frontier'
  <2>1. dispatch' = dispatch /\ dispatch' <= build'
    BY <1>1, <1>6, QueueAssumption DEF Receive
  <2>2. \A c \in Chunks : load'[c] = "none" <=> c >= build'
    BY <1>1, <1>2, <1>6, QueueAssumption DEF IndInv, Frontier, Chunks
  <2>3. \A c \in Chunks : c >= dispatch /\ c < build' => c \in Staged(load')
    BY <1>1, <1>2, <1>6, QueueAssumption DEF IndInv, Frontier, Staged, Chunks
  <2>4. QED
    BY <2>1, <2>2, <2>3 DEF Frontier
<1>9. Accounted'
  BY <1>1, <1>2, <1>6, QueueAssumption
  DEF IndInv, Accounted, Staged, Chunks, TypeOK, Receive
<1>10. Holding' /\ Stopped'
  BY <1>1 DEF IndInv, Holding, Stopped, TypeOK, Receive
<1>11. ClaimIsStaged'
  BY <1>1, <1>2, <1>6, QueueAssumption
  DEF IndInv, ClaimIsStaged, Disjoint, Holding, Staged, TypeOK, Receive, Chunks
<1>12. PrefetchBounded' /\ Disjoint'
  BY <1>5 DEF IndInv, PrefetchBounded, Disjoint, Staged, Receive
<1>13. QED
  BY <1>7, <1>8, <1>9, <1>10, <1>11, <1>12 DEF IndInv

LEMMA ReceiveErrorInd ==
  ASSUME IndInv, NEW l \in Loops, ReceiveError(l)
  PROVE  IndInv'
<1>1. TypeOK' /\ Frontier' /\ Accounted' /\ Holding'
  BY DEF IndInv, TypeOK, Frontier, Accounted, Holding, ReceiveError, Reject,
         LoopStates, Staged
<1>2. Stopped' /\ ClaimIsStaged' /\ PrefetchBounded' /\ Disjoint'
  BY DEF IndInv, TypeOK, Stopped, ClaimIsStaged, PrefetchBounded, Disjoint,
         ReceiveError, Reject, Staged
<1>3. QED
  BY <1>1, <1>2 DEF IndInv

LEMMA RunInd ==
  ASSUME IndInv, NEW l \in Loops, Run(l)
  PROVE  IndInv'
<1>1. TypeOK /\ task[l] \in Chunks /\ task[l] < dispatch /\ rows \in Nat
  BY DEF IndInv, Holding, Run, TypeOK
<1>2. rows' \in Nat /\ rows' >= rows
  BY <1>1, QueueAssumption DEF Run
<1>3. TypeOK'
  BY <1>1, <1>2 DEF TypeOK, Run, LoopStates
<1>4. Frontier' /\ Holding'
  BY <1>1 DEF IndInv, TypeOK, Frontier, Holding, Run, Staged
<1>5. Accounted'
  BY <1>1 DEF IndInv, TypeOK, Accounted, Run, Staged
<1>6. Stopped'
  BY <1>1, <1>2, QueueAssumption DEF IndInv, TypeOK, Stopped, Run
<1>7. ClaimIsStaged' /\ PrefetchBounded'
  BY <1>1 DEF IndInv, TypeOK, ClaimIsStaged, PrefetchBounded, Run, Staged
<1>8. Disjoint'
  <2>1. NoChunk \notin scanned /\ NoChunk # task[l]
    BY <1>1, NoChunkIsNone DEF TypeOK
  <2>2. /\ task' = [task EXCEPT ![l] = NoChunk]
        /\ scanned' = scanned \cup {task[l]}
        /\ task \in [Loops -> Chunks \cup {NoChunk}]
    BY <1>1 DEF Run, TypeOK
  <2>3. QED
    BY <2>1, <2>2 DEF IndInv, Disjoint
<1>9. QED
  BY <1>3, <1>4, <1>5, <1>6, <1>7, <1>8 DEF IndInv

LEMMA RunErrorInd ==
  ASSUME IndInv, NEW l \in Loops, RunError(l)
  PROVE  IndInv'
<1>1. TypeOK' /\ Frontier' /\ Accounted' /\ Holding'
  BY DEF IndInv, TypeOK, Frontier, Accounted, Holding, RunError, Reject,
         LoopStates, Staged
<1>2. Stopped' /\ ClaimIsStaged' /\ PrefetchBounded' /\ Disjoint'
  BY DEF IndInv, TypeOK, Stopped, ClaimIsStaged, PrefetchBounded, Disjoint,
         RunError, Reject, Staged
<1>3. QED
  BY <1>1, <1>2 DEF IndInv

LEMMA ResolveInd ==
  ASSUME IndInv, Resolve
  PROVE  IndInv'
<1>1. TypeOK' /\ Frontier' /\ Accounted' /\ Holding'
  BY DEF IndInv, TypeOK, Frontier, Accounted, Holding, Resolve, Staged
<1>2. Stopped' /\ ClaimIsStaged' /\ PrefetchBounded' /\ Disjoint'
  BY DEF IndInv, Stopped, ClaimIsStaged, PrefetchBounded, Disjoint, Resolve, Staged
<1>3. QED
  BY <1>1, <1>2 DEF IndInv

LEMMA NextInd == IndInv /\ [Next]_vars => IndInv'
<1> SUFFICES ASSUME IndInv, [Next]_vars PROVE IndInv'
  OBVIOUS
<1>1. ASSUME NEW l \in Loops, LoopStep(l) PROVE IndInv'
  BY <1>1, ClaimInd, ExhaustedInd, ReceiveInd, ReceiveErrorInd, RunInd, RunErrorInd
  DEF LoopStep
<1>2. ASSUME NEW c \in Chunks, Load(c) PROVE IndInv'
  BY <1>2, LoadInd
<1>3. CASE Resolve
  BY <1>3, ResolveInd
<1>4. CASE UNCHANGED vars
  <2>1. TypeOK' /\ Frontier' /\ Accounted' /\ Holding'
    BY <1>4 DEF vars, IndInv, TypeOK, Frontier, Accounted, Holding, Staged
  <2>2. Stopped' /\ ClaimIsStaged' /\ PrefetchBounded' /\ Disjoint'
    BY <1>4 DEF vars, IndInv, Stopped, ClaimIsStaged, PrefetchBounded, Disjoint, Staged
  <2>3. QED
    BY <2>1, <2>2 DEF IndInv
<1>5. QED
  BY <1>1, <1>2, <1>3, <1>4 DEF Next

LEMMA IndInvComplete == IndInv => CompleteWhenResolved
<1> SUFFICES ASSUME IndInv, outcome = "resolved",
                    ~(EarlyLimit > 0 /\ rows >= EarlyLimit)
             PROVE  scanned = Chunks
  BY DEF CompleteWhenResolved
<1>1. \A l \in Loops : task[l] = NoChunk
  BY DEF IndInv, Stopped, Holding
<1>2. dispatch = NChunks
  BY QueueAssumption DEF IndInv, Stopped
<1>3. \A c \in Chunks : c \in scanned
  BY <1>1, <1>2, QueueAssumption DEF IndInv, Holding, Chunks
<1>4. QED
  BY <1>3 DEF IndInv, TypeOK

-----------------------------------------------------------------------------
(* The invariant holds throughout: no interleaving of loops, reads and     *)
(* errors leads out of it.                                                 *)
THEOREM QueueInductive == Spec => []IndInv
<1>1. QED
  BY InitInd, NextInd, PTL DEF Spec

(* The non-null assertion staged.get(chunkId)! is never wrong, for any     *)
(* number of chunks and loops and whatever prefetches fail.                *)
THEOREM ClaimAlwaysStaged == Spec => []ClaimIsStaged
<1>1. IndInv => ClaimIsStaged
  BY DEF IndInv
<1>2. QED
  BY <1>1, QueueInductive, PTL

(* The prefetch buffer never exceeds its cap.                              *)
THEOREM PrefetchAlwaysBounded == Spec => []PrefetchBounded
<1>1. IndInv => PrefetchBounded
  BY DEF IndInv
<1>2. QED
  BY <1>1, QueueInductive, PTL

(* Workers scan disjoint chunks, each at most once.                        *)
THEOREM ScanDisjoint == Spec => []Disjoint
<1>1. IndInv => Disjoint
  BY DEF IndInv
<1>2. QED
  BY <1>1, QueueInductive, PTL

(* A scan reported as finished has covered the file or reached the limit.  *)
THEOREM ScanComplete == Spec => []CompleteWhenResolved
<1>1. QED
  BY IndInvComplete, QueueInductive, PTL

-----------------------------------------------------------------------------
(* The queue implements the abstract scan: each step is a claim, a finish, *)
(* a loss or the completion of the scan, or leaves it unchanged.           *)

LEMMA ScanInit == Init => Scan!Init
<1> SUFFICES ASSUME Init PROVE Scan!Init
  OBVIOUS
<1>1. dispatch .. NChunks - 1 = Chunks
  BY DEF Init, Chunks
<1>2. [l \in Loops |-> IF loop[l] = "dead" THEN NoChunk ELSE task[l]]
        = [l \in Loops |-> NoChunk]
  BY DEF Init
<1>3. ~(EarlyLimit > 0 /\ rows >= EarlyLimit)
  BY QueueAssumption DEF Init
<1>4. QED
  BY <1>1, <1>2, <1>3 DEF Scan!Init, Init

LEMMA ScanClaim ==
  ASSUME IndInv, NEW l \in Loops, Claim(l), NEW c \in Chunks, c = dispatch
  PROVE  Scan!Claim(l, c)
<1>1. /\ dispatch \in Chunks /\ dispatch \in Nat /\ dispatch' = dispatch + 1
      /\ loop[l] = "next" /\ task[l] = NoChunk
      /\ task \in [Loops -> Chunks \cup {NoChunk}] /\ loop \in [Loops -> LoopStates]
  BY QueueAssumption DEF IndInv, TypeOK, Holding, Claim, Chunks
<1>2. /\ dispatch \in dispatch .. NChunks - 1
      /\ dispatch' .. NChunks - 1 = (dispatch .. NChunks - 1) \ {dispatch}
  BY <1>1, QueueAssumption DEF Chunks
<1>3. [m \in Loops |-> IF loop'[m] = "dead" THEN NoChunk ELSE task'[m]]
        = [[m \in Loops |-> IF loop[m] = "dead" THEN NoChunk ELSE task[m]]
             EXCEPT ![l] = dispatch]
  BY <1>1 DEF Claim
<1>4. QED
  BY <1>1, <1>2, <1>3 DEF Scan!Claim, Claim

LEMMA ScanRun ==
  ASSUME IndInv, NEW l \in Loops, Run(l)
  PROVE  Scan!Finish(l)
<1>1. /\ loop[l] = "run" /\ task[l] \in Chunks /\ task[l] # NoChunk
      /\ task \in [Loops -> Chunks \cup {NoChunk}] /\ loop \in [Loops -> LoopStates]
      /\ rows \in Nat
  BY NoChunkIsNone DEF IndInv, TypeOK, Holding, Run
<1>2. [m \in Loops |-> IF loop'[m] = "dead" THEN NoChunk ELSE task'[m]]
        = [[m \in Loops |-> IF loop[m] = "dead" THEN NoChunk ELSE task[m]]
             EXCEPT ![l] = NoChunk]
  BY <1>1 DEF Run
<1>3. rows' \in Nat /\ rows' >= rows
  BY <1>1, QueueAssumption DEF Run
<1>4. /\ (EarlyLimit > 0 /\ rows' >= EarlyLimit) \in BOOLEAN
      /\ EarlyLimit > 0 /\ rows >= EarlyLimit => EarlyLimit > 0 /\ rows' >= EarlyLimit
  BY <1>1, <1>3, QueueAssumption
<1>5. QED
  BY <1>1, <1>2, <1>4 DEF Scan!Finish, Run

LEMMA ScanError ==
  ASSUME IndInv, NEW l \in Loops, ReceiveError(l) \/ RunError(l)
  PROVE  Scan!Lose(l) \/ Scan!LoseAndFail(l)
<1>1. /\ loop[l] \in {"await", "run"} /\ task[l] # NoChunk
      /\ loop \in [Loops -> LoopStates]
      /\ loop' = [loop EXCEPT ![l] = "dead"]
      /\ UNCHANGED <<dispatch, task, scanned, rows>>
  BY NoChunkIsNone DEF IndInv, TypeOK, Holding, ReceiveError, RunError
<1>2. [m \in Loops |-> IF loop'[m] = "dead" THEN NoChunk ELSE task'[m]]
        = [[m \in Loops |-> IF loop[m] = "dead" THEN NoChunk ELSE task[m]]
             EXCEPT ![l] = NoChunk]
  BY <1>1
<1>3. outcome' = IF outcome = "running" THEN "rejected" ELSE outcome
  BY DEF ReceiveError, RunError, Reject
<1>4. CASE outcome = "running"
  BY <1>1, <1>2, <1>3, <1>4 DEF Scan!LoseAndFail
<1>5. CASE outcome # "running"
  BY <1>1, <1>2, <1>3, <1>5 DEF Scan!Lose
<1>6. QED
  BY <1>4, <1>5

LEMMA ScanResolve ==
  ASSUME IndInv, Resolve
  PROVE  Scan!Complete
<1>1. CompleteWhenResolved'
  <2>1. IndInv'
    BY ResolveInd
  <2>2. QED
    BY <2>1, IndInvComplete, PTL
<1>2. scanned = Chunks \/ (EarlyLimit > 0 /\ rows >= EarlyLimit)
  BY <1>1 DEF CompleteWhenResolved, Resolve
<1>3. QED
  BY <1>2 DEF Scan!Complete, Resolve

LEMMA ScanStutter ==
  ASSUME IndInv,
         \/ \E l \in Loops : Exhausted(l) \/ Receive(l)
         \/ \E c \in Chunks : Load(c)
         \/ UNCHANGED vars
  PROVE  UNCHANGED Scan!vars
<1>1. /\ UNCHANGED <<dispatch, task, scanned, rows, outcome>>
      /\ loop \in [Loops -> LoopStates]
      /\ \A m \in Loops : loop'[m] = "dead" <=> loop[m] = "dead"
  BY DEF IndInv, TypeOK, Exhausted, Receive, Load, vars
<1>2. [m \in Loops |-> IF loop'[m] = "dead" THEN NoChunk ELSE task'[m]]
        = [m \in Loops |-> IF loop[m] = "dead" THEN NoChunk ELSE task[m]]
  BY <1>1
<1>3. QED
  BY <1>1, <1>2 DEF Scan!vars

(* Refinement: to its caller runChunkTasks is the abstract chunk scan.     *)
THEOREM QueueImplementsScan == Spec => ImplementsScan
<1>1. IndInv /\ [Next]_vars => [Scan!Next]_(Scan!vars)
  <2> SUFFICES ASSUME IndInv, [Next]_vars PROVE [Scan!Next]_(Scan!vars)
    OBVIOUS
  <2>1. ASSUME NEW l \in Loops, Claim(l) PROVE Scan!Next
    <3>1. dispatch \in Chunks
      BY <2>1, QueueAssumption DEF IndInv, TypeOK, Claim, Chunks
    <3>2. PICK c \in Chunks : c = dispatch
      BY <3>1
    <3>3. Scan!Claim(l, c)
      BY <2>1, <3>2, ScanClaim
    <3>4. QED
      BY <3>3 DEF Scan!Next
  <2>2. ASSUME NEW l \in Loops, Run(l) PROVE Scan!Next
    BY <2>2, ScanRun DEF Scan!Next
  <2>3. ASSUME NEW l \in Loops, ReceiveError(l) \/ RunError(l) PROVE Scan!Next
    BY <2>3, ScanError DEF Scan!Next
  <2>4. CASE Resolve
    BY <2>4, ScanResolve DEF Scan!Next
  <2>5. CASE \/ \E l \in Loops : Exhausted(l) \/ Receive(l)
             \/ \E c \in Chunks : Load(c)
             \/ UNCHANGED vars
    BY <2>5, ScanStutter
  <2>6. QED
    BY <2>1, <2>2, <2>3, <2>4, <2>5 DEF Next, LoopStep
<1>2. QED
  BY <1>1, ScanInit, QueueInductive, PTL DEF Spec, ImplementsScan, Scan!Spec
=============================================================================
