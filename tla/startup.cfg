SPECIFICATION FairSpec

CONSTANTS
  Ids = {1, 2}
  Values <- MCValues
  Dates <- MCDates
  Shaped <- MCShaped
  TenLong <- MCTenLong
  After <- MCAfter
  None = None

INVARIANTS
  ServingMeansReady
  OnlyNewOrShapedFails

PROPERTIES
  StartupDecides
