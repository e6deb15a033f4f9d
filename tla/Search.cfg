SPECIFICATION StoredSpec
CONSTANTS
  NoField = NoField
  None = None
  e1 = e1
  e2 = e2
  e3 = e3
  e4 = e4
  e5 = e5
  Batches <- MCBatches
  TicksPerDay = 2
  Today = 2
  MaxBlocks = 4
  MaxPartitions = 1
  ExactInt = 8
  MaxScan = 2
  MaxGroups = 10
  CachedQuery <- MCCachedQuery
  Queries <- MCQueries
  PlannedNode <- ParsedNode
  PlannedPatterns <- ParsedPatterns
  Eval <- EvalNode
  Meant <- TokensSay
  Pipelines <- MCPipelines
  Radix = 4
  Width = 5
  WordBits = 4
  BitsPerTerm = 2
  BloomK = 2
  MaxDepth = 2
  MaxElems = 3
  CodecAt <- MCCodecAt
  Json <- MCJson
  Message <- MCMessage
  Raw <- MCRaw
  Probes <- MCProbes
  Phrases <- MCPhrases
  CardinalityCap = 2
  SamplesKept = 2
  NameRank <- MCNameRank
  Discoveries <- MCDiscoveries
INVARIANT SearchExact
INVARIANT AggregateSound
INVARIANT PipelineExact
INVARIANT BlockExact
INVARIANT FieldsExact
