SPECIFICATION Spec
CONSTANTS
  Threads = {t1}
  Reconcilers = {}
  PK = {11, 12}
  IntegerKey = FALSE
  RowIds = {1, 2, 3}
  Doc = {a, b}
  NoDoc = none
  DuckStarts = {FALSE}
  ChromaStarts = {TRUE}
  BatchLimit = 4
  Cap = 4
  MaxPending = 4
INVARIANTS
  DrainedMeansInSync
