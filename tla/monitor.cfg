SPECIFICATION FairSpec
CONSTANTS
  d = d
  f = f
  x = x
  top = top
  Files = {f, x}
  Dirs = {d}
  Top = top
  Parent <- OneDir
  Order <- ListOrder
  MaxSize = 1
  QueueMax = 3
  MaxOps = 4
  MaxStale = 2
  MayRestart = TRUE
  MayLose = TRUE
INVARIANTS
  TypeOK
  InSyncWhenQuiet
  RefusedForStale
PROPERTIES
  Served
CHECK_DEADLOCK FALSE
