SPECIFICATION Spec
CONSTANTS
  Id = {u1, u2}
  Node = {n1}
  Call = {c1, c2}
  Idle = Idle
  NoSession = NoSession
  Sso = Sso
  Changed = Changed
  MaxPasswords = 3
  MaxSessions = 2
  MaxVersion = 3
SYMMETRY Interchangeable
CONSTRAINT FewerWithTwo
INVARIANT OldPasswordOut
INVARIANT RevokedForGood
CHECK_DEADLOCK FALSE
