\* A task is saved while a flush is under way.
SPECIFICATION Spec
CONSTANTS
  k1 = k1
  k2 = k2
  f1 = f1
  Keys = {k1, k2}
  Flushers = {f1}
  MaxKills = 0
  SpoilOnce = FALSE
INVARIANT SavedIsKeptWhenRead
