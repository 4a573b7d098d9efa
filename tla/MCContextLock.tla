--------------------------- MODULE MCContextLock ---------------------------
(* Instances of ContextLock for TLC.                                       *)
EXTENDS ContextLock

(* The context is quiet when every call has come and gone.                 *)
Terminated == settled = Calls /\ UNCHANGED vars

MCSpec == Init /\ [][Next \/ Terminated]_vars

FairMCSpec == MCSpec /\ Fairness
=============================================================================
