SPECIFICATION FairSpec
CONSTANTS
  s1 = s1
  s2 = s2
  s3 = s3
  Host = Host
  e1 = e1
  e2 = e2
  Sessions = {s1, s2, s3}
  Editors = {e1, e2}
  Permits = 2
  Worlds <- MCWorlds
INVARIANTS
  RadioServesItsSessions
  EditsWaitForUsers
PROPERTIES
  ServedUnlessStranded
  ShutdownEnds
CHECK_DEADLOCK FALSE
