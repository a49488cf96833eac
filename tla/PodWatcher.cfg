SPECIFICATION FairSpec
CONSTANTS
  p1 = p1
  p2 = p2
  None = None
  Pods = {p1, p2}
  Timeouts = {1, 2}
  MaxQueue = 2
INVARIANTS
  TypeOK
  ListReflectsApi
  AtMostOneLateKill
PROPERTIES
  IsMonkey
  SettledClusterIsDisturbed
CHECK_DEADLOCK FALSE
