SPECIFICATION Spec
CONSTANTS
  n1 = n1
  n2 = n2
  w1 = w1
  w2 = w2
  w3 = w3
  None = None
  Namespaces = {n1, n2}
  Crds = {w1, w2, w3}
  MaxQueue = 1
  MaxActive = 3
  Labels <- FewLabels
SYMMETRY MapSymmetry
INVARIANTS
  TypeOK
  StoppedExactlyOnce
  SingleWatcher
  WatchedIsAllowed
  GaugeCovers
CHECK_DEADLOCK FALSE
