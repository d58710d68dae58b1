\* Two submissions, a flush and the buttons, a load that overlaps one of them or fails, and a kill.
SPECIFICATION FairSpec
CONSTANTS
  k1 = k1
  k2 = k2
  f1 = f1
  Keys = {k1, k2}
  Flushers = {f1}
  MaxKills = 1
  SpoilOnce = TRUE
INVARIANT OneTaskPerSubmission
INVARIANT OnlyOverlapsAndMisreadsSpoil
PROPERTY SavedIsSubmitted
