CONSTANTS
  Group = {g1, g2}
  Size = 3
  Req = {r1, r2}
  LookAhead = TRUE
  DispatchAnywhere = TRUE
  MaxInstances = 3
SPECIFICATION FairSpec
INVARIANTS
  TypeOK
  OneOwner
  FollowersParked
PROPERTIES
  ChangesEnd
  RestoreFromBalloon
