CONSTANTS
  Instance = {i1, i2}
  V = 1
  Req = {r1, r2, r3}
  Gpu = {g1, g2}
  Cpu = {c1}
  BlockSize = 1
  Prompts = {1}
  Limit = 3
  MaxBatch = 2
  Migration = TRUE
  None = None
SPECIFICATION FairSpec
INVARIANTS
  OnePlace
  BackedUnlessFull
PROPERTIES
  SwappedReturn
CHECK_DEADLOCK FALSE
