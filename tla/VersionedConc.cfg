SPECIFICATION Spec
CONSTANTS
  PK = {1, 2}
  Values = {a, b}
  NoRow = NoRow
  Threads = {t1, t2}
  Labels = {l1}
  Keep = {TRUE, FALSE}
  MaxEvents = 3
SYMMETRY ThreadSymmetry
INVARIANTS
  ChainValid
  RowsAreLogged
  AsOfSound
PROPERTIES
  ChainNeverRewinds
