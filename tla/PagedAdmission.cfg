SPECIFICATION FairSpec
CONSTANTS
  s1 = s1
  s2 = s2
  s3 = s3
  Nobody = Nobody
  Sessions <- MCSessions
  Timeout <- MCMixed
  NumSlots = 1
  NumPages = 4
  MaxPages = 3
INVARIANTS
  PublishedCountExact
  OpenSessionUsable
  NoOrphanPages
PROPERTIES
  ClosedSessionReclaimed
CHECK_DEADLOCK FALSE
