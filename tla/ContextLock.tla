----------------------------- MODULE ContextLock -----------------------------
(***************************************************************************)
(* withContextLock (src/runtime/exec/chunks.ts): every query of a file     *)
(* appends itself to a chain of promises held in ctx.queryChain and runs   *)
(* when the promise it found there resolves.  The chain promise of a call  *)
(* is prev.then(() => gate): it resolves some microtasks after the call    *)
(* has opened its gate AND the previous promise has resolved.              *)
(***************************************************************************)
EXTENDS FiniteSets

CONSTANTS
  Calls,   (* the calls of withContextLock on one context                  *)
  NoCall   (* the undefined queryChain of a fresh context                  *)

ASSUME LockAssumption == NoCall \notin Calls

VARIABLES
  queryChain,  (* the call whose chain promise is in ctx.queryChain        *)
  prev,        (* the promise each call found there                        *)
  phase,       (* idle -> waiting -> inside -> released (its gate is open) *)
  settled,     (* calls whose chain promise has resolved                   *)
  failed,      (* calls whose function threw                               *)
  ahead        (* history: the calls that had asked before this one        *)

vars == <<queryChain, prev, phase, settled, failed, ahead>>

TypeOK ==
  /\ queryChain \in Calls \cup {NoCall}
  /\ prev \in [Calls -> Calls \cup {NoCall}]
  /\ phase \in [Calls -> {"idle", "waiting", "inside", "released"}]
  /\ settled \subseteq Calls
  /\ failed \subseteq Calls
  /\ ahead \in [Calls -> SUBSET Calls]

Resolved(p) == p = NoCall \/ p \in settled

Init ==
  /\ queryChain = NoCall
  /\ prev = [c \in Calls |-> NoCall]
  /\ phase = [c \in Calls |-> "idle"]
  /\ settled = {}
  /\ failed = {}
  /\ ahead = [c \in Calls |-> {}]

(* Seeded fault: a chain that exists is not replaced.                      *)
AskKeepsChain(c) ==
  /\ phase[c] = "idle"
  /\ prev' = [prev EXCEPT ![c] = queryChain]
  /\ queryChain' = IF queryChain = NoCall THEN c ELSE queryChain
  /\ phase' = [phase EXCEPT ![c] = "waiting"]
  /\ ahead' = [ahead EXCEPT ![c] = {d \in Calls : phase[d] # "idle"}]
  /\ UNCHANGED <<settled, failed>>

(* Up to `await prev`: read the chain, replace it by our own promise.      *)
Ask(c) ==
  /\ phase[c] = "idle"
  /\ prev' = [prev EXCEPT ![c] = queryChain]
  /\ queryChain' = c
  /\ phase' = [phase EXCEPT ![c] = "waiting"]
  /\ ahead' = [ahead EXCEPT ![c] = {d \in Calls : phase[d] # "idle"}]
  /\ UNCHANGED <<settled, failed>>

(* Seeded fault: fn is called without awaiting the previous promise.       *)
GrantAtOnce(c) ==
  /\ phase[c] = "waiting"
  /\ phase' = [phase EXCEPT ![c] = "inside"]
  /\ UNCHANGED <<queryChain, prev, settled, failed, ahead>>

(* The awaited promise has resolved: call fn.                              *)
Grant(c) ==
  /\ phase[c] = "waiting"
  /\ Resolved(prev[c])
  /\ phase' = [phase EXCEPT ![c] = "inside"]
  /\ UNCHANGED <<queryChain, prev, settled, failed, ahead>>

(* Seeded fault: the end of a call clears the chain.                       *)
ReleaseClearsChain(c) ==
  /\ phase[c] = "inside"
  /\ phase' = [phase EXCEPT ![c] = "released"]
  /\ failed' \in {failed, failed \cup {c}}
  /\ queryChain' = NoCall
  /\ UNCHANGED <<prev, settled, ahead>>

(* Seeded fault: the gate opens only when fn returns.                      *)
ReleaseOnReturn(c) ==
  /\ phase[c] = "inside" /\ c \notin failed
  /\ \/ phase' = [phase EXCEPT ![c] = "released"] /\ failed' = failed
     \/ failed' = failed \cup {c} /\ phase' = phase
  /\ UNCHANGED <<queryChain, prev, settled, ahead>>

(* fn returned or threw; the finally block opens the gate either way.      *)
Release(c) ==
  /\ phase[c] = "inside"
  /\ phase' = [phase EXCEPT ![c] = "released"]
  /\ failed' \in {failed, failed \cup {c}}
  /\ UNCHANGED <<queryChain, prev, settled, ahead>>

(* prev.then(() => gate) resolves.                                         *)
Settle(c) ==
  /\ phase[c] = "released"
  /\ c \notin settled
  /\ Resolved(prev[c])
  /\ settled' = settled \cup {c}
  /\ UNCHANGED <<queryChain, prev, phase, failed, ahead>>

Next == \E c \in Calls : Ask(c) \/ Grant(c) \/ Release(c) \/ Settle(c)

Spec == Init /\ [][Next]_vars

(* Microtasks run; a call that is inside returns or throws.  Nobody is     *)
(* obliged to ask.                                                         *)
Fairness ==
  \A c \in Calls : WF_vars(Grant(c)) /\ WF_vars(Release(c)) /\ WF_vars(Settle(c))

FairSpec == Spec /\ Fairness

-----------------------------------------------------------------------------
Fifo == INSTANCE FifoLock

(* One query of a file is in runChunkQuery at a time: no two calls are     *)
(* inside, although the chain field is overwritten by each newcomer.       *)
OneInside == Fifo!MutualExclusion

(* The chain of promises is a FIFO lock: a call is granted the lock only   *)
(* when all that asked earlier have released it.                           *)
ImplementsFifoLock == Fifo!Spec

(* A call that asks is let in, also after calls that threw.                *)
EveryoneServed ==
  \A c \in Calls : (phase[c] = "waiting") ~> (phase[c] = "released")

-----------------------------------------------------------------------------
(* The inductive invariant: the chain holds the last call that asked, each *)
(* call found the one that asked just before, and a resolved promise means *)
(* that its call and all before it have released.                          *)
ChainTail ==
  IF queryChain = NoCall
    THEN \A c \in Calls : phase[c] = "idle"
    ELSE {c \in Calls : phase[c] # "idle"} = ahead[queryChain] \cup {queryChain}

Linked ==
  \A c \in Calls : phase[c] # "idle" =>
    ahead[c] = IF prev[c] = NoCall THEN {} ELSE ahead[prev[c]] \cup {prev[c]}

SettledMeansReleased ==
  \A c \in settled :
    phase[c] = "released" /\ \A d \in ahead[c] : phase[d] = "released"

IndInv ==
  /\ TypeOK
  /\ ChainTail
  /\ Linked
  /\ SettledMeansReleased
  /\ \A c \in Calls : phase[c] # "idle" => prev[c] = NoCall \/ phase[prev[c]] # "idle"
  /\ Fifo!Ordered
  /\ Fifo!InOrder
=============================================================================
