SPECIFICATION Spec
CONSTANTS
  n1 = n1
  n2 = n2
  Node = {n1, n2}
  Placement <- MCPlacement
  Task = {t1, t2}
  Reader = {r1}
  Absent = Absent
  NoEntry = NoEntry
  NoTask = NoTask
  Config <- MCConfig
  MaxCasRetries = 2
  Ttl = 2
  MaxLag = 1
  DeleteRaces = FALSE
SYMMETRY Interchangeable
INVARIANT BoundedStaleness
PROPERTY IsAtomicDoc
