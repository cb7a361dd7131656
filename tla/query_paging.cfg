SPECIFICATION Spec

CONSTANTS
  JobRows <- FewRows
  Queries <- Walks
  Terms <- NoTerms
  Letters <- TwoCases
  Lower <- LowerCase
  MaxJob = 3
  MaxRun = 2
  Null = Null
  Unset = Unset
  None = None

INVARIANTS
  WalkIsExact
  InsertsLoseNothing
  IdOrderIsAppendOnly
