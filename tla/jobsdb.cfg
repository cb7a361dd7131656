SPECIFICATION FairSpec
CONSTANTS
  None = None
  r1 = r1
  r2 = r2
  Readers = {r1, r2}
  MaxEdition = 2
  Holding <- MCHolding
INVARIANTS
  TypeOK
  OneEdition
  NeverTorn
  NoLockAfterAnswer
PROPERTIES
  ToldTheCause
  ImplementsJobs
  EveryRequestEnds
  ScraperNotStarved
