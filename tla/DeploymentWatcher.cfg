SPECIFICATION FairSpec
CONSTANT Configs <- ApartConfigs
INVARIANTS
  TypeOK
  ScaleWithinHull
  AtMostOneLateScale
  BailsOutOnFifth
PROPERTIES
  LateStopEnds
  IsMonkey
CHECK_DEADLOCK FALSE
