SPECIFICATION Spec

CONSTANTS
  c1 = c1
  c2 = c2
  n1 = n1
  n2 = n2
  Clients = {c1, c2}
  Names = {n1, n2}
  MaxRequests = 1
  MaxTries = 2
  MaxCommits = 4
  MaxClock = 1
  None = None

SYMMETRY RetrySymmetry

INVARIANTS
  RetryHitsItsTarget
