SPECIFICATION Spec
CONSTANTS
  PK = {1}
  Values = {a, b}
  NoRow = NoRow
  Threads = {t1, t2}
  Labels = {l1}
  Keep = {TRUE}
  MaxEvents = 4
INVARIANTS
  TableIsReplay
