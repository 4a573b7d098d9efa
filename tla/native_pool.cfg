\* Three queries, one of which needs a larger pool; one fault of any kind.
SPECIFICATION FairMCSpec
CONSTANTS
  a = a
  b = b
  c3 = c3
  Callers = {a, b, c3}
  Want <- WantSmall
  MaxSize = 3
  NChunks = 3
  Batch = 2
  Width = 16
  Faults = {"prepare", "chunk", "die"}
  MaxFaults = 1
  None = None
INVARIANT OwnCompleteResult
PROPERTIES ImplementsScans EveryCallReturns
