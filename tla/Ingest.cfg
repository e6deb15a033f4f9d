SPECIFICATION IngestSpec
CONSTANTS
  curl = curl
  hec = hec
  agent = agent
  corpus = corpus
  c1 = c1
  c2 = c2
  peer = peer
  ip = ip
  secret = secret
  e1 = e1
  e2 = e2
  sys = sys
  None = None
  Absent = None
  NotJson = NotJson
  NoRule = NoRule
  Shipper = {curl, hec, agent, corpus}
  Requests <- MCRequests
  AuthChanges <- MCAuthChanges
  Environments = {e1, e2, sys}
  Reserved = {sys}
  DefaultEnv = e1
  DefaultIndex <- MCDefaultIndex
  Today = 0
  DefaultSource = None
  MaxTries = 2
  Scenes <- MCScenes
  Json <- MCJson
  NameChar <- MCNameChar
  FirstChar <- MCNameChar
  Digit <- MCDigit
  MonthLike = {"Jan"}
  Month = {"Jan"}
  ClockTime = {"D15", "D25"}
  ThisYear = "Y"
  Date <- MCDate
  Scale = 10
  UnitLimit = 100
  Fractions = 16
  ExactInt = 4096
  DayMillis = 200
  Lower <- LettersOf
  MaxIndexPart = 4
  Row <- MCRow
  Blocking <- MCBlocking
  Partition <- MCPartition
  PartOf <- MCPartOf
  QueueCap = 1
  MaxRows = 2
  Slots = 1
  Closing = TRUE
  Sender = {c1, c2}
  Streams <- MCStreams
  Datagrams <- MCDatagrams
  Patches <- MCPatches
  Empty = Empty
  Defaults <- MCDefaults
  PortOverride = None
  Regex <- MCRegex
  Addresses <- MCAddresses
  MaxLine = 6
  MaxToken = 2
  SyslogDay = 0
  Chan = {1, 2, 3, 4, 5}
  MaxFaults = 1
  SyslogScenes <- MCSyslogScenes
INVARIANT ScopeHolds
INVARIANT AnswerHonest
INVARIANT RowsAsSaid
INVARIANT FramingExact
INVARIANT CleanShutdown
PROPERTY AcceptedKept
PROPERTY AcceptedLands
PROPERTY EventuallyAsSet
CHECK_DEADLOCK FALSE
