\* One query and one warm-up, and no fault.
SPECIFICATION Spec
CONSTANTS
  Queries = {q}
  Warmers = {p}
  Workers = {w1, w2}
  Explicit = {q}
  Approx = {}
  Limited = {}
  Pruned = {}
  NChunks = 2
  Faults = {}
  MaxFaults = 0
  Local = Local
  None = None
CHECK_DEADLOCK FALSE
INVARIANT OwnPartials
