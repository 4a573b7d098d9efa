------------------------------ MODULE FifoLock ------------------------------
(***************************************************************************)
(* What the per-file query lock promises: one call at a time is inside,    *)
(* and calls get in in the order in which they asked.                      *)
(***************************************************************************)
CONSTANT Calls   (* calls of withContextLock on one file's context         *)

VARIABLES
  phase,  (* idle -> waiting -> inside -> released                         *)
  ahead   (* the calls that had asked before this one                      *)

vars == <<phase, ahead>>

Phases == {"idle", "waiting", "inside", "released"}

TypeOK ==
  /\ phase \in [Calls -> Phases]
  /\ ahead \in [Calls -> SUBSET Calls]

Init ==
  /\ phase = [c \in Calls |-> "idle"]
  /\ ahead = [c \in Calls |-> {}]

Ask(c) ==
  /\ phase[c] = "idle"
  /\ phase' = [phase EXCEPT ![c] = "waiting"]
  /\ ahead' = [ahead EXCEPT ![c] = {d \in Calls : phase[d] # "idle"}]

Grant(c) ==
  /\ phase[c] = "waiting"
  /\ \A d \in ahead[c] : phase[d] = "released"
  /\ phase' = [phase EXCEPT ![c] = "inside"]
  /\ UNCHANGED ahead

Release(c) ==
  /\ phase[c] = "inside"
  /\ phase' = [phase EXCEPT ![c] = "released"]
  /\ UNCHANGED ahead

Next == \E c \in Calls : Ask(c) \/ Grant(c) \/ Release(c)

Spec == Init /\ [][Next]_vars

-----------------------------------------------------------------------------
(* Two calls are never inside together.                                    *)
MutualExclusion ==
  \A c, d \in Calls : phase[c] = "inside" /\ phase[d] = "inside" => c = d

(* A call that is inside, or has been, was preceded by all that asked      *)
(* before it: nobody overtakes.                                            *)
InOrder ==
  \A c, d \in Calls :
    phase[c] \in {"inside", "released"} /\ d \in ahead[c] => phase[d] = "released"

(* Of two calls that have asked, one asked before the other.               *)
Ordered ==
  /\ \A c \in Calls : phase[c] = "idle" => \A d \in Calls : c \notin ahead[d]
  /\ \A c, d \in Calls :
       phase[c] # "idle" /\ phase[d] # "idle" /\ c # d =>
         c \in ahead[d] \/ d \in ahead[c]

IndInv == TypeOK /\ Ordered /\ InOrder
=============================================================================
