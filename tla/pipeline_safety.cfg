SPECIFICATION LoopSpec

CONSTANTS
  None = None
  r1 = r1
  r2 = r2
  Slots = {r1, r2}
  Threads = 1
  Inputs <- AllInputs
  KeyIsSet = TRUE

INVARIANTS
  TypeOK
  KeyBeforeData
  NothingOutlivesRequest
  HolderNeedsNoThread
  LogJoinsAnswer
  RetryMeansBusy

PROPERTIES
  HealthNeverWaits
