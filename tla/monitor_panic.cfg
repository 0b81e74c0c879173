SPECIFICATION WatchedSpec
CONSTANTS
  d = d
  f = f
  x = x
  top = top
  Files = {f}
  Dirs = {d}
  Top = top
  Parent <- OneDir
  Order <- ListOrder
  MaxSize = 1
  QueueMax = 3
  MaxOps = 4
  MaxStale = 0
  MayRestart = FALSE
  MayLose = FALSE
INVARIANTS
  PanicsUnfollowed
CHECK_DEADLOCK FALSE
