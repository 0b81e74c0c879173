SPECIFICATION Spec
CONSTANTS
  w1 = w1
  w2 = w2
  Writers = {w1, w2}
  Offsets <- TwoStreams
  LastSeq <- LastSeqThreeTwo
  States = {"Diff"}
  Transport = "http"
  MayFail = TRUE
  MayCancel = FALSE
SYMMETRY WriterSymmetry
INVARIANTS
  InOrder
  InstalledWhole
  OneInstaller
PROPERTIES
  AtomicInstall
CHECK_DEADLOCK FALSE
