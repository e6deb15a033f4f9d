SPECIFICATION Spec
CONSTANTS
  Batch = {x1, x2}
  Block = {b1, b2, b3, b4}
  Compactor = {c1, c2}
  NoBlock = NoBlock
  Reader = {r1}
  LostReply = FALSE
SYMMETRY Interchangeable
INVARIANT NoDangling
INVARIANT ExactlyOnce
PROPERTY IsRowSet
