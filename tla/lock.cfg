\* Four queries of one file, any of which may throw.
SPECIFICATION FairMCSpec
CONSTANTS
  Calls = {q1, q2, q3, q4}
  NoCall = NoCall
INVARIANTS IndInv OneInside
PROPERTIES ImplementsFifoLock EveryoneServed
