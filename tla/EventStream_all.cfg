\* Two changes, two refreshes, a lost connection or a restart of the API, and
\* broadcasts that raise.
SPECIFICATION FairSpec
CONSTANTS
  t1 = t1
  r1 = r1
  r2 = r2
  Tasks = {t1}
  Refreshes = {r1, r2}
  MaxChanges = 2
  MaxBreaks = 1
INVARIANT Fresh
INVARIANT NothingIsIgnored
PROPERTY CatchesUp
