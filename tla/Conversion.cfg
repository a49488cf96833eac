SPECIFICATION Spec
CONSTANTS
  Objects = {x, y}
  Names = {"web", "db"}
  Texts <- MCTexts
  Durations <- MCDurations
  TenMinutes = "ten minutes"
  Zero = "nothing"
  ParseDuration <- MCParseDuration
  String <- MCString
  V1Specs <- MCV1Specs
  OldSpecs <- MCOldSpecs
  MaxVersion = 3
  None = None
INVARIANTS
  TypeOK
  ViewIsFaithful
PROPERTIES
  OldEditDoesJustThat
  ListIsAllOrNothing
  NothingHalfConverted
