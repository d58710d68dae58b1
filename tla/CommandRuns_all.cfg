SPECIFICATION FairSpec
CONSTANTS
  MaxLines = 3
  MaxBeats = 1
  PipeSize = 1
  HardLimit = TRUE
  Cancels = TRUE
INVARIANT NoOrphanChild
INVARIANT ResultIsWhole
PROPERTY QuietAfterEnd
PROPERTY NeverStuck
PROPERTY RunSettles
