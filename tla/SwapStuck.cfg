CONSTANTS
  Instance = {i1}
  V = 2
  Req = {r1, r2, r3}
  Gpu = {g1, g2}
  Cpu = {c1, c2}
  BlockSize = 1
  Prompts = {1}
  Limit = 2
  MaxBatch = 2
  Migration = FALSE
  None = None
SPECIFICATION FairSpec
PROPERTIES
  StepsEnd
CHECK_DEADLOCK FALSE
