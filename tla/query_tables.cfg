SPECIFICATION Spec

CONSTANTS
  JobRows <- ManyRows
  Queries <- NoQueries
  Terms <- ShortTerms
  Letters <- TwoCases
  Lower <- LowerCase
  MaxJob = 3
  MaxRun = 2
  Null = Null
  Unset = Unset
  None = None

INVARIANTS
  SearchIsLiteral
  RangesSplitDated
  SourcesOncePerSource
  StatsAgree
