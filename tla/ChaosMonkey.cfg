SPECIFICATION ProcessSpec
CONSTANTS
  n1 = n1
  w1 = w1
  Http = Http
  Https = Https
  None = None
  Namespaces = {n1}
  Crds = {w1}
  MaxQueue = 1
  MaxActive = 1
  Labels = {"no label"}
INVARIANTS
  ExitMeansHome
  NoWalkAfterCancel
PROPERTIES
  CountCoversStable
  SignalExits
CHECK_DEADLOCK FALSE
