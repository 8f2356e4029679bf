CONSTANTS
  Instance = {i1}
  V = 2
  Req = {r1, r2, r3}
  Gpu = {g1, g2, g3}
  Cpu = {c1, c2}
  BlockSize = 2
  Prompts = {1, 2, 3}
  Limit = 3
  MaxBatch = 2
  Migration = FALSE
  None = None
SPECIFICATION Spec
INVARIANTS
  BlocksConserved
  LocationFollows
  ReturnSucceeds
PROPERTIES
  Pinned
  KeepsPromise
CHECK_DEADLOCK FALSE
