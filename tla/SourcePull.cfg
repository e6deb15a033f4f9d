SPECIFICATION FairSpec
CONSTANTS
  u1 = u1
  u2 = u2
  f1 = f1
  f2 = f2
  Run = {u1, u2}
  File = {f1, f2}
  NoFile = NoFile
  MaxLen = 2
  MaxFaults = 1
  Slow = FALSE
INVARIANT OneRun
INVARIANT NothingSkipped
INVARIANT CrashResumesHere
INVARIANT SentOnce
PROPERTY EventuallySent
CHECK_DEADLOCK FALSE
