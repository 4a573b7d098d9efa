\* A warm-up without the lock, and one failing plan or task or crash of a worker.
SPECIFICATION MCSpec
CONSTANTS
  Queries = {q1, q2}
  Warmers = {p}
  Workers = {w1, w2}
  Explicit = {q2}
  Approx = {}
  Limited = {}
  Pruned = {1}
  NChunks = 2
  Faults = {"exec", "crash", "plan"}
  MaxFaults = 1
  Local = Local
  None = None
SYMMETRY WorkerSymmetry
CHECK_DEADLOCK FALSE
INVARIANTS NoSilentFallback CleanSuccess OneTaskPerLoop
PROPERTIES  QueuesRespected
