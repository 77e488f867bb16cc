SPECIFICATION Spec
CONSTANTS
  Threads = {t1}
  Reconcilers = {t1}
  PK = {1, 2}
  IntegerKey = TRUE
  RowIds = {1, 2}
  Doc = {a, b}
  NoDoc = none
  DuckStarts = {TRUE, FALSE}
  ChromaStarts = {TRUE, FALSE}
  BatchLimit = 3
  Cap = 2
  MaxPending = 4
INVARIANTS
  TypeOK
  JournalClosesGap
  MirrorClosesGap
PROPERTIES
  ReconcileAligns
