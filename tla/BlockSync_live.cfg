SPECIFICATION FairSpec
INVARIANT SharedOnce
CONSTANTS
  Node = {n1}
  Shared = shared
  Batch = {x1, x2}
  Block = {b1, b2, b3}
  NoBlock = NoBlock
  Seeding = FALSE
  Faults = {"put", "delete"}
PROPERTY EventuallyShared
PROPERTY EventuallyMirrored
