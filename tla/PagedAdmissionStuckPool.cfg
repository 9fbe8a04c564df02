SPECIFICATION FairSpec
CONSTANTS
  s1 = s1
  s2 = s2
  s3 = s3
  Nobody = Nobody
  Sessions <- MCSessions
  Timeout <- MCMixed
  NumSlots = 1
  NumPages = 3
  MaxPages = 2
PROPERTIES
  IdleServerHasRoom
CHECK_DEADLOCK FALSE
