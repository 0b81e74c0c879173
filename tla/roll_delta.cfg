SPECIFICATION FairSpec
CONSTANTS
  Bytes = {0, 1}
  DefaultSize = 2
  SplitSize = 6
  CcIo = 2
  MaxSrc = 7
  MaxDst = 4
  MayFail = TRUE
INVARIANTS
  TypeOK
  Conserved
  Rebuildable
  MessagesInOrder
  NoKnownBlockSent
  SectionsCover
PROPERTIES
  Terminates
CHECK_DEADLOCK FALSE
