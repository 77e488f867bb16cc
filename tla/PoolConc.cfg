SPECIFICATION Spec
CONSTANTS
  Threads = {t1, t2}
  Inst = {db1, db2}
  Ops = {"open", "close", "search", "journal", "rebuild", "restore"}
  Systems = {1, 2, 3, 4, 5, 6, 7, 8, 9}
SYMMETRY ThreadSymmetry
INVARIANTS
  TypeOK
  SerialUseStrandsNobody
  CachedSystemWorks
  NoSystemLeaks
  ClientsAreHeld
  UnheldIsReleased
  InversionNeedsStale
CHECK_DEADLOCK FALSE
