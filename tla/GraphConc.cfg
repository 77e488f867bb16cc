SPECIFICATION LiveSpec
CONSTANTS
  Threads = {t1, t2}
  PK = {1, 2}
  Val = {1, 2}
  NoRow = norow
  u = u
  Own <- MCOwn
  NoNode = nonode
  Prop = {a, b}
  EdgeIds = {1, 2, 3}
  DefaultWeight = 35
  DecayStep = 15
  Floor = 5
  Hops = 2
  MaxCost = 130
  Mixes <- MCMixes
INVARIANTS
  TypeOK
  EdgesSound
  CacheCurrent
  SyncAligns
  DecayClears
  SearchReaches
PROPERTIES
  SearchFinds
  UpdatesMerge
  SettledRowsGetNodes
  ExpiredEdgesGo
CHECK_DEADLOCK FALSE
