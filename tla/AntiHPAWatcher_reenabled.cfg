SPECIFICATION FairSpec
CONSTANTS
  Pods = {p1, p2}
  NoPod = NoPod
  MinReplicas = 1
PROPERTY
  ReEnabledRunsRegularly
CHECK_DEADLOCK FALSE
