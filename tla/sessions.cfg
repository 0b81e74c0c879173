SPECIFICATION Spec
CONSTANTS
  t1 = t1
  t2 = t2
  t3 = t3
  t4 = t4
  t5 = t5
  d1 = d1
  d2 = d2
  Times <- AllTimes
  Datas <- AllDatas
  Sizes <- AnySizes
  DefaultSize = 2
  SplitSize = 2
SYMMETRY SessionSymmetry
INVARIANTS
  TypeOK
  SkipMatches
  SessionSyncs
  NothingResent
CHECK_DEADLOCK FALSE
