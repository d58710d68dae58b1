\* A draft is submitted again after the first submission had no answer in time.
SPECIFICATION Spec
CONSTANTS
  k1 = k1
  k2 = k2
  f1 = f1
  Keys = {k1, k2}
  Flushers = {f1}
  MaxKills = 0
  SpoilOnce = FALSE
INVARIANT OneTaskPerUnanswered
