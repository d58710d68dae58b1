SPECIFICATION Spec
CONSTANTS
  MaxLines = 2
  MaxBeats = 0
  PipeSize = 2
  HardLimit = FALSE
  Cancels = FALSE
INVARIANT FooterCompletes
