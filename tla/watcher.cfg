SPECIFICATION Spec
CONSTANTS
  d = d
  f = f
  x = x
  top = top
  Files = {x}
  Dirs = {d}
  Top = top
  Parent <- OneDir
  Order <- ListOrder
  MaxSize = 1
  QueueMax = 4
  MaxOps = 7
  MaxStale = 1
  MayRestart = TRUE
  MayLose = FALSE
INVARIANTS
  EventsNamed
  InSyncWhenQuiet
CHECK_DEADLOCK FALSE
