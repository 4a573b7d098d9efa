\* Two workers, two chunks more than the prefetch cap of four, any failures.
SPECIFICATION FairMCSpec
CONSTANTS
  NChunks = 6
  Loops = {l1, l2}
  EarlyLimit = 0
  ChunkRows = {0}
  NoChunk = NoChunk
INVARIANTS IndInv ClaimIsStaged PrefetchBounded Disjoint CompleteWhenResolved
PROPERTIES ImplementsScan Settles
