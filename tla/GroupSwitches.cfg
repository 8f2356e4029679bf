CONSTANTS
  Req = {r1}
  N = 2
  F = 2
  E = 1
  Quota = 1
  MaxLen = 3
  Mode = "reshard"
  AllowRestore = TRUE
SPECIFICATION FairSpec
PROPERTIES
  SwitchesComplete
