\* Two arenas of one to three units.  The retained cap leaves each thread its
\* base whatever the other holds, and is below what both may hold.
SPECIFICATION FairSpec
CONSTANTS
  Threads = {t1, t2}
  BaseBytes = 1
  GrowBytes = 1
  MaxBytes = 3
  GlobalCap = 5
  RetainedCap = 4
  Policy = "upto"
  KeepUpTo = 2
  Decay = 2
  Needs = {1, 2, 3, 4}
INVARIANTS ArenaInv BudgetCapped BudgetExact RetainedExact ArenasWithinCap
PROPERTY EveryRequestEnds
