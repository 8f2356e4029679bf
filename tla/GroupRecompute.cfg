CONSTANTS
  Req = {r1, r2, r3}
  N = 1
  F = 2
  E = 1
  Quota = 1
  MaxLen = 2
  Mode = "recompute"
  AllowRestore = TRUE
SYMMETRY Requests
SPECIFICATION Spec
INVARIANTS
  TypeOK
  BlocksPartitioned
  CapacityConserved
  ExtendAccounted
  ExtendReclaimed
