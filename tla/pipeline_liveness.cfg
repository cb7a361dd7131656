SPECIFICATION FairSpec

CONSTANTS
  None = None
  r1 = r1
  r2 = r2
  r3 = r3
  Slots = {r1, r2, r3}
  Threads = 2
  Inputs <- Contending
  KeyIsSet = FALSE

PROPERTIES
  EveryRequestAnswered
