SPECIFICATION FairSpec
CONSTANTS
  c1 = c1
  c2 = c2
  d1 = d1
  d2 = d2
  m1 = m1
  m2 = m2
  m3 = m3
  None = None
  Cmcs = {c1}
  Deployments = {d1}
  Monkeys = {m1}
  MaxQueue = 1
  Desired <- DesiredOne

PROPERTY StopReturns
CHECK_DEADLOCK FALSE
