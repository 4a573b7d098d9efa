---------------------------- MODULE MCChunkQueue ----------------------------
(* Instances of ChunkQueue for TLC.                                        *)
EXTENDS ChunkQueue

(* The runs end when the call has settled and its loops have returned.     *)
Terminated ==
  /\ outcome # "running"
  /\ \A l \in Loops : loop[l] \in {"done", "dead"}
  /\ \A c \in Chunks : load[c] # "loading"
  /\ UNCHANGED vars

(* With Terminated as the only way to stop, a deadlock is an error.        *)
MCSpec == Init /\ [][Next \/ Terminated]_vars

FairMCSpec == MCSpec /\ Fairness
=============================================================================
