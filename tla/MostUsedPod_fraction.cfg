SPECIFICATION Spec
CONSTANTS
  Pods = {"p1", "p2"}
  Usages = {0, 500, 1000, 2000}
  MaxContainers = 2
  None = None
  NoPod = ""
INVARIANT ChoosesHighest
CHECK_DEADLOCK FALSE
