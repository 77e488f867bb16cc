SPECIFICATION Spec
CONSTANTS
  PK = {1, 2}
  Values = {a}
  NoRow = NoRow
  Threads = {t1}
  Labels = {l1}
  Keep = {TRUE}
  MaxEvents = 3
INVARIANTS
  CheckpointRestorable
