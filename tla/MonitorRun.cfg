SPECIFICATION FairSpec
CONSTANTS
  Node = {n1, n2}
  Run = {r1, r2}
  Idle = Idle
  Gone = Gone
  MaxFaults = 2
INVARIANT BreachWasAlerted
PROPERTY NoRefire
PROPERTY EventuallyRuns
