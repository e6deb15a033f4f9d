SPECIFICATION Spec
CONSTANTS
  Node = {n1}
  Shared = shared
  Batch = {x1, x2}
  Block = {b1, b2, b3}
  NoBlock = NoBlock
  Seeding = TRUE
  Faults = {"crash", "reply", "delete"}
SYMMETRY Interchangeable
INVARIANT AckedNeverLost
INVARIANT OwedStaysReadable
PROPERTY SharedKept
