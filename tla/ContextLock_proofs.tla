------------------------- MODULE ContextLock_proofs -------------------------
(***************************************************************************)
(* The promise chain of withContextLock is a FIFO lock, for any number of  *)
(* calls.                                                                  *)
(***************************************************************************)
EXTENDS ContextLock, TLAPS

LEMMA InitInd == Init => IndInv
BY LockAssumption
DEF Init, IndInv, TypeOK, ChainTail, Linked, SettledMeansReleased,
    Fifo!Ordered, Fifo!InOrder

LEMMA AskInd ==
  ASSUME IndInv, NEW c \in Calls, Ask(c)
  PROVE  IndInv'
<1> USE LockAssumption
<1>1. /\ phase[c] = "idle"
      /\ \A d \in Calls : phase'[d] = IF d = c THEN "waiting" ELSE phase[d]
      /\ \A d \in Calls : prev'[d] = IF d = c THEN queryChain ELSE prev[d]
      /\ \A d \in Calls : ahead'[d] = IF d = c THEN {e \in Calls : phase[e] # "idle"}
                                              ELSE ahead[d]
      /\ queryChain' = c
      /\ UNCHANGED settled
      /\ \A d \in Calls : ahead[d] \subseteq Calls
  BY DEF Ask, IndInv, TypeOK
<1>2. TypeOK'
  BY DEF Ask, IndInv, TypeOK
<1>3. ChainTail'
  <2>1. {d \in Calls : phase'[d] # "idle"} = {d \in Calls : phase[d] # "idle"} \cup {c}
    BY <1>1
  <2>2. ahead'[c] = {d \in Calls : phase[d] # "idle"} /\ queryChain' = c
    BY <1>1
  <2>3. queryChain' # NoCall
    BY <1>1
  <2>4. QED
    BY <2>1, <2>2, <2>3 DEF ChainTail
<1>4. queryChain # NoCall => queryChain \in Calls /\ phase[queryChain] # "idle"
  BY DEF IndInv, TypeOK, ChainTail
<1>5. Linked'
  <2> SUFFICES ASSUME NEW d \in Calls, phase'[d] # "idle"
               PROVE  ahead'[d] = IF prev'[d] = NoCall THEN {}
                                  ELSE ahead'[prev'[d]] \cup {prev'[d]}
    BY DEF Linked
  <2>1. CASE d = c
    BY <1>1, <1>4, <2>1 DEF IndInv, ChainTail, TypeOK
  <2>2. CASE d # c
    <3>1. prev[d] = NoCall \/ (prev[d] \in Calls /\ prev[d] # c)
      BY <1>1, <2>2 DEF IndInv, TypeOK
    <3>2. phase[d] # "idle" /\ prev'[d] = prev[d] /\ ahead'[d] = ahead[d]
      BY <1>1, <2>2
    <3>3. ahead[d] = IF prev[d] = NoCall THEN {} ELSE ahead[prev[d]] \cup {prev[d]}
      BY <3>2 DEF IndInv, Linked
    <3>4. prev[d] # NoCall => ahead'[prev[d]] = ahead[prev[d]]
      BY <1>1, <3>1
    <3>5. QED
      BY <3>2, <3>3, <3>4
  <2>3. QED
    BY <2>1, <2>2
<1>6. SettledMeansReleased'
  BY <1>1 DEF IndInv, SettledMeansReleased, TypeOK
<1>7. (\A d \in Calls : phase[d] # "idle" => prev[d] = NoCall \/ phase[prev[d]] # "idle")'
  BY <1>1, <1>4 DEF IndInv, TypeOK
<1>8. Fifo!Ordered' /\ Fifo!InOrder'
  <2>1. \A d \in Calls : c \notin ahead[d]
    BY <1>1 DEF IndInv, Fifo!Ordered
  <2>2. (\A d \in Calls : phase[d] = "idle" => \A e \in Calls : d \notin ahead[e])'
    <3> SUFFICES ASSUME NEW d \in Calls, phase'[d] = "idle", NEW e \in Calls
                 PROVE  d \notin ahead'[e]
      OBVIOUS
    <3>1. phase[d] = "idle" /\ d # c
      BY <1>1
    <3>2. d \notin ahead[e]
      BY <3>1 DEF IndInv, Fifo!Ordered
    <3>3. QED
      BY <1>1, <3>1, <3>2
  <2>3. (\A d, e \in Calls : phase[d] # "idle" /\ phase[e] # "idle" /\ d # e =>
           d \in ahead[e] \/ e \in ahead[d])'
    <3> SUFFICES ASSUME NEW d \in Calls, NEW e \in Calls, d # e,
                        phase'[d] # "idle", phase'[e] # "idle"
                 PROVE  d \in ahead'[e] \/ e \in ahead'[d]
      OBVIOUS
    <3>1. CASE d = c \/ e = c
      BY <1>1, <3>1
    <3>2. CASE d # c /\ e # c
      <4>1. /\ phase[d] # "idle" /\ phase[e] # "idle"
            /\ ahead'[d] = ahead[d] /\ ahead'[e] = ahead[e]
        BY <1>1, <3>2
      <4>2. QED
        BY <4>1 DEF IndInv, Fifo!Ordered
    <3>3. QED
      BY <3>1, <3>2
  <2>4. Fifo!InOrder'
    <3> SUFFICES ASSUME NEW d \in Calls, NEW e \in Calls, e \in ahead'[d],
                        phase'[d] \in {"inside", "released"}
                 PROVE  phase'[e] = "released"
      BY DEF Fifo!InOrder
    <3>1. d # c /\ phase[d] \in {"inside", "released"} /\ e \in ahead[d]
      BY <1>1
    <3>2. phase[e] = "released"
      BY <3>1 DEF IndInv, Fifo!InOrder
    <3>3. QED
      BY <1>1, <3>2
  <2>5. QED
    BY <2>2, <2>3, <2>4 DEF Fifo!Ordered
<1>9. QED
  BY <1>2, <1>3, <1>5, <1>6, <1>7, <1>8 DEF IndInv

(* A resolved promise means that everyone who asked before has released.   *)
LEMMA ResolvedAhead ==
  ASSUME IndInv, NEW c \in Calls, phase[c] # "idle", Resolved(prev[c])
  PROVE  \A d \in ahead[c] : phase[d] = "released"
BY LockAssumption DEF IndInv, Linked, SettledMeansReleased, Resolved, TypeOK

LEMMA GrantInd ==
  ASSUME IndInv, NEW c \in Calls, Grant(c)
  PROVE  IndInv'
<1>1. \A d \in ahead[c] : phase[d] = "released"
  BY ResolvedAhead DEF Grant
<1>2. TypeOK' /\ ChainTail' /\ Linked' /\ SettledMeansReleased'
  BY DEF Grant, IndInv, TypeOK, ChainTail, Linked, SettledMeansReleased
<1>3. (\A d \in Calls : phase[d] # "idle" => prev[d] = NoCall \/ phase[prev[d]] # "idle")'
  BY DEF Grant, IndInv, TypeOK
<1>4. Fifo!Ordered' /\ Fifo!InOrder'
  BY <1>1 DEF Grant, IndInv, TypeOK, Fifo!Ordered, Fifo!InOrder
<1>5. QED
  BY <1>2, <1>3, <1>4 DEF IndInv

LEMMA ReleaseInd ==
  ASSUME IndInv, NEW c \in Calls, Release(c)
  PROVE  IndInv'
<1>1. TypeOK' /\ ChainTail' /\ Linked' /\ SettledMeansReleased'
  BY DEF Release, IndInv, TypeOK, ChainTail, Linked, SettledMeansReleased
<1>2. (\A d \in Calls : phase[d] # "idle" => prev[d] = NoCall \/ phase[prev[d]] # "idle")'
  BY DEF Release, IndInv, TypeOK
<1>3. Fifo!Ordered' /\ Fifo!InOrder'
  BY DEF Release, IndInv, TypeOK, Fifo!Ordered, Fifo!InOrder
<1>4. QED
  BY <1>1, <1>2, <1>3 DEF IndInv

LEMMA SettleInd ==
  ASSUME IndInv, NEW c \in Calls, Settle(c)
  PROVE  IndInv'
<1>1. \A d \in ahead[c] : phase[d] = "released"
  BY ResolvedAhead DEF Settle
<1>2. TypeOK' /\ ChainTail' /\ Linked' /\ SettledMeansReleased'
  BY <1>1 DEF Settle, IndInv, TypeOK, ChainTail, Linked, SettledMeansReleased
<1>3. (\A d \in Calls : phase[d] # "idle" => prev[d] = NoCall \/ phase[prev[d]] # "idle")'
  BY DEF Settle, IndInv, TypeOK
<1>4. Fifo!Ordered' /\ Fifo!InOrder'
  BY DEF Settle, IndInv, TypeOK, Fifo!Ordered, Fifo!InOrder
<1>5. QED
  BY <1>2, <1>3, <1>4 DEF IndInv

(* The chain invariant holds in every reachable state.                     *)
THEOREM LockInductive == Spec => []IndInv
<1>1. IndInv /\ [Next]_vars => IndInv'
  <2> SUFFICES ASSUME IndInv, [Next]_vars PROVE IndInv'
    OBVIOUS
  <2>1. ASSUME NEW c \in Calls, Ask(c) \/ Grant(c) \/ Release(c) \/ Settle(c)
        PROVE  IndInv'
    BY <2>1, AskInd, GrantInd, ReleaseInd, SettleInd
  <2>2. CASE UNCHANGED vars
    BY <2>2 DEF vars, IndInv, TypeOK, ChainTail, Linked, SettledMeansReleased,
                Fifo!Ordered, Fifo!InOrder
  <2>3. QED
    BY <2>1, <2>2 DEF Next
<1>2. QED
  BY <1>1, InitInd, PTL DEF Spec

(* At most one query of a file is inside withContextLock.                  *)
THEOREM LockExcludes == Spec => []OneInside
<1>1. IndInv => OneInside
  BY DEF IndInv, OneInside, Fifo!MutualExclusion, Fifo!Ordered, Fifo!InOrder
<1>2. QED
  BY <1>1, LockInductive, PTL

(* Refinement: the promise chain implements the FIFO lock.                 *)
THEOREM LockIsFifo == Spec => ImplementsFifoLock
<1>1. Init => Fifo!Init
  BY DEF Init, Fifo!Init
<1>2. IndInv /\ [Next]_vars => [Fifo!Next]_(Fifo!vars)
  <2> SUFFICES ASSUME IndInv, [Next]_vars PROVE [Fifo!Next]_(Fifo!vars)
    OBVIOUS
  <2>1. ASSUME NEW c \in Calls, Ask(c) PROVE Fifo!Next
    BY <2>1 DEF Ask, Fifo!Ask, Fifo!Next
  <2>2. ASSUME NEW c \in Calls, Grant(c) PROVE Fifo!Next
    <3>1. \A d \in ahead[c] : phase[d] = "released"
      BY <2>2, ResolvedAhead DEF Grant
    <3>2. QED
      BY <2>2, <3>1 DEF Grant, Fifo!Grant, Fifo!Next
  <2>3. ASSUME NEW c \in Calls, Release(c) PROVE Fifo!Next
    BY <2>3 DEF Release, Fifo!Release, Fifo!Next
  <2>4. ASSUME NEW c \in Calls, Settle(c) PROVE UNCHANGED Fifo!vars
    BY <2>4 DEF Settle, Fifo!vars
  <2>5. CASE UNCHANGED vars
    BY <2>5 DEF vars, Fifo!vars
  <2>6. QED
    BY <2>1, <2>2, <2>3, <2>4, <2>5 DEF Next
<1>3. QED
  BY <1>1, <1>2, LockInductive, PTL DEF Spec, ImplementsFifoLock, Fifo!Spec
=============================================================================
