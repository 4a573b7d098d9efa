\* A query that may fall back, stop at a limit or take the local path, and one
\* with explicit workers; one fault of any kind but a crash.
SPECIFICATION FairMCSpec
CONSTANTS
  Queries = {q1, q2}
  Warmers = {}
  Workers = {w1, w2}
  Explicit = {q2}
  Approx = {q1}
  Limited = {q1}
  Pruned = {}
  NChunks = 2
  Faults = {"apply", "spawn", "plan", "exec", "read", "local", "reduce"}
  MaxFaults = 1
  Local = Local
  None = None
INVARIANTS ExecInv OwnPartials LocalCovers
PROPERTIES EveryQueryAnswered HandlesDrain
