SPECIFICATION HttpFairSpec
CONSTANTS
  w1 = w1
  w2 = w2
  d1 = d1
  d2 = d2
  Writers = {w1, w2}
  DataSenders = {d1, d2}
  Offsets <- TwoStreams
  LastSeq <- LastSeqShort
  States = {"Diff"}
  Transport = "http"
  MayFail = FALSE
  MayCancel = FALSE
  MayTimeout = TRUE
INVARIANTS
  HttpTypeOK
  AckedTaken
  UnfinishedEntered
  StoppedAcked
PROPERTIES
  Spec
  AckedInstalled
CHECK_DEADLOCK FALSE
