SPECIFICATION TickSpec
CONSTANTS
  Pods = {"p1", "p2"}
  NoPod = ""
  MinReplicas = 1
  Usages = {0, 500, 1000, 2000}
  MaxContainers = 3
  None = None
INVARIANTS
  TypeOK
  AtMostOneLateDelete
  TreeIsSorted
  ChoosesLastHighest
PROPERTIES
  IsMonkey
  EnabledRunsRegularly
CHECK_DEADLOCK FALSE
