SPECIFICATION Spec
CONSTANTS
  PK = {1, 2}
  Values = {a, b}
  NoRow = NoRow
  Threads = {t1}
  Labels = {l1}
  Keep = {TRUE, FALSE}
  MaxEvents = 4
INVARIANTS
  TypeOK
  TableIsReplay
  CheckpointNamesState
PROPERTIES
  RollbackRestores
  ImplementsStore
