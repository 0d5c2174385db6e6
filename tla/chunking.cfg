SPECIFICATION Spec
CONSTANTS
  Jobs <- MCJobs
  MaxTokens = 4
  JunkTokens = 3
  Granularity = 1
  TextTokens = 4
  EdgeItems = 2
  Window = 1
  PollLimit = 2
  CallerLimit = 1
INVARIANTS
  TypeOK
  FallbackRecorded
  DocumentValid
  TextPlaced
  PackageReadable
  OverlongForAReason
  MediaStandAlone
PROPERTY EveryParseEnds
