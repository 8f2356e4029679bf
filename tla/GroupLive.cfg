CONSTANTS
  Req = {r1, r2}
  N = 2
  F = 2
  E = 1
  Quota = 1
  MaxLen = 2
  Mode = "livereshard"
  AllowRestore = FALSE
SYMMETRY Requests
SPECIFICATION Spec
INVARIANTS
  BlocksPartitioned
  ScheduledBacked
PROPERTIES
  InFlightKeepsBlocks
