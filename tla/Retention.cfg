SPECIFICATION RFairSpec
CONSTANTS
  Node = {n1}
  Elsewhere = {m1}
  Shared = shared
  Batch = {x1}
  Block = {b1}
  NoBlock = NoBlock
  Seeding = TRUE
  Faults = {}
INVARIANT TombstoneHolds
PROPERTY EventuallyDropped
CHECK_DEADLOCK FALSE
