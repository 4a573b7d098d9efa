---------------------------- MODULE MCNativePool ----------------------------
(* Instances of NativePool for TLC.                                        *)
EXTENDS NativePool, TLC

CONSTANTS a, b, c3

(* Two queries share a pool of two; the third needs one of three.          *)
WantSmall == (a :> 2) @@ (b :> 2) @@ (c3 :> 3)

Terminated ==
  /\ \A q \in Callers : call[q] \in {"ok", "error"}
  /\ \A t \in Threads : inbox[t] = <<>>
  /\ UNCHANGED vars

MCSpec == Init /\ [][Next \/ Terminated]_vars

FairMCSpec == MCSpec /\ Fairness
=============================================================================
