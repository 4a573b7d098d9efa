---------------------------- MODULE MCQueryExec ----------------------------
(* Instances of QueryExec for TLC.                                         *)
EXTENDS QueryExec, TLC

WorkerSymmetry == Permutations(Workers)

(* Quiet: every query that asked has returned and nothing is under way.    *)
Terminated ==
  /\ \A q \in Queries : step[q] = "done"
  /\ \A q \in Queries, x \in Loops : loop[q][x] \in {"off", "done", "dead"}
  /\ \A w \in Workers : inbox[w] = <<>> /\ outbox[w] = <<>> /\ pending[w] = {}
  /\ \A q \in Queries, m \in Paths, c \in Chunks : load[q][m][c] # "reading"
  /\ UNCHANGED vars

MCSpec == Init /\ [][Next \/ Terminated]_vars

FairMCSpec == MCSpec /\ Fairness
=============================================================================
