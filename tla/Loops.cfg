CONSTANTS
  Size = 3
  Pp = 1
  Prompt = TRUE
SPECIFICATION FairSpec
INVARIANTS
  DriverAlone
  RanksFollow
PROPERTIES
  AllServed
  SwitchEnds
