SPECIFICATION Spec
CONSTANTS
  Threads = {t1, t2}
  t1 = t1
  t2 = t2
  a = a
  b = b
  n = n
  Col = {a, b, n}
  PK = {1, 2}
  Doc = {1, 2}
  Null = null
  NoRow = norow
  NoVec = novec
  BatchLimit = 2
  MaxPending = 3
  Mixes <- MCMixes
INVARIANTS
  TypeOK
  SchemaIsTable
  KeywordSearchFinds
  VectorsFollow
  MetadataFollows
PROPERTIES
  RowsSurvive
CHECK_DEADLOCK FALSE
