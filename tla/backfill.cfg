SPECIFICATION FairSpec
CONSTANTS
  Run = {r1, r2}
  Retirer = {x1}
  Document = {d1}
  Chunk = {c1, c2}
  DocumentOf <- OneDocument
  Limit = {3}
  UploadLimit = 3
  BatchSize = 2
  None = None
  d1 = d1
  d2 = d2
  c1 = c1
  c2 = c2
  c3 = c3
INVARIANTS
  TypeOK
  CountsAreHonest
  FullRunLeavesNothing
PROPERTIES EveryCallEnds
  VectorsGoToActiveChunks
