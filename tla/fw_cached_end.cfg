SPECIFICATION Spec
CONSTANTS
  w1 = w1
  Writers = {w1}
  Offsets <- TwoStreams
  LastSeq <- LastSeqTwo
  States = {"Diff"}
  Transport = "http"
  MayFail = FALSE
  MayCancel = FALSE
INVARIANTS
  NoWriterFails
CHECK_DEADLOCK FALSE
