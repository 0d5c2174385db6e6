SPECIFICATION Spec
CONSTANTS
  Run = {r1}
  Retirer = {}
  Document = {d1}
  Chunk = {c1, c2, c3}
  DocumentOf <- OneDocument
  Limit = {2}
  UploadLimit = 3
  BatchSize = 2
  None = None
  d1 = d1
  d2 = d2
  c1 = c1
  c2 = c2
  c3 = c3
INVARIANT
  SucceededMeansEmbedded
