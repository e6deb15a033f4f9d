SPECIFICATION FairSpec
CONSTANTS
  Batch = {x1, x2}
  Block = {b1, b2, b3}
  Compactor = {c1}
  NoBlock = NoBlock
  Reader = {}
  LostReply = TRUE
PROPERTY OrphansCollected
CHECK_DEADLOCK FALSE
