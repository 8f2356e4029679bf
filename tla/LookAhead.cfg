CONSTANTS
  N = 3
  V = 2
  Lengths = {1, 4}
  Budget = 3
  LongThreshold = 1
  MaxBatch = 2
  Limit = 2
  Benches <- MCBenches
  MaxPreempt = 1
SPECIFICATION FairSpec
INVARIANTS
  OnePlace
  RunsOnce
  BudgetKept
  KvLocal
PROPERTIES
  FirstComeFirstServed
  Served
CHECK_DEADLOCK FALSE
