SPECIFICATION LiveSpec
CONSTANTS
  Threads = {t1, t2}
  Reconcilers = {}
  PK = {1, 2}
  IntegerKey = TRUE
  RowIds = {1, 2}
  Doc = {a, b}
  NoDoc = none
  DuckStarts = {FALSE}
  ChromaStarts = {TRUE, FALSE}
  BatchLimit = 2
  Cap = 2
  MaxPending = 4
INVARIANTS
  OffOnlyInOverflow
PROPERTIES
  BatchReturnsCurrent
  SettledRowsGetIndexed
