SPECIFICATION Spec
CONSTANTS
  c1 = c1
  c2 = c2
  d1 = d1
  d2 = d2
  m1 = m1
  m2 = m2
  m3 = m3
  None = None
  Cmcs = {c1, c2}
  Deployments = {d1}
  Monkeys = {m1, m2}
  MaxQueue = 1
  Desired <- DesiredShared
SYMMETRY MonkeySymmetry
INVARIANTS
  TypeOK
  MappedIffUntold
  MapIsFaithful
  SingleScaler
  ReturnedMeansHome
CHECK_DEADLOCK FALSE
