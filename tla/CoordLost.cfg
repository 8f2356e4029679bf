CONSTANTS
  Group = {g1}
  Size = 2
  Req = {r1}
  LookAhead = FALSE
  DispatchAnywhere = TRUE
  MaxInstances = 2
SPECIFICATION Spec
INVARIANTS
  NothingLost
