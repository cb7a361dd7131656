SPECIFICATION Spec
CONSTANTS
  n1 = n1
  N1 = N1
  n2 = n2
  d1 = d1
  j1 = j1
  j2 = j2
  None = None
  Unset = Unset
  c1 = c1
  c2 = c2
  c3 = c3
  Clients = {c1}
  MaxId = 2
  Names = {n1, N1, n2}
  Fold <- MCFold
  Descs = {d1}
  Jobs = {j1}
  Requests <- NullNameRequests
INVARIANTS
  ConflictOnlyFromUnique
