SPECIFICATION Spec
CONSTANTS
  b1 = b1
  b2 = b2
  Writer = {w1, w2}
  Block = {b1, b2}
  Offered <- MCOffered
  KeepGenerations = 2
  MaxCasRetries = 2
  MaxLag = 2
  MaxGen = 4
  LostReply = TRUE
SYMMETRY Tasks
INVARIANT NoStaleWin
INVARIANT NewestKept
PROPERTY IsAtomicManifest
