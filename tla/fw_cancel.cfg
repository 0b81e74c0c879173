SPECIFICATION Spec
CONSTANTS
  w1 = w1
  Writers = {w1}
  Offsets <- TwoStreams
  LastSeq <- LastSeqUneven
  States = {"Diff", "Meta"}
  Transport = "local"
  MayFail = TRUE
  MayCancel = TRUE
INVARIANTS
  TypeOK
  InstalledWhole
CHECK_DEADLOCK FALSE
