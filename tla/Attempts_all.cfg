SPECIFICATION Spec
CONSTANTS
  f1 = f1
  f2 = f2
  t1 = t1
  t2 = t2
  t3 = t3
  Folders = {f1, f2}
  Threads = {t1, t2, t3}
  Keys = {k1}
  Settings <- MCSettings
INVARIANT LineageIsRooted
INVARIANT SessionKeepsItsFolder
INVARIANT TimelinesAreWhole
INVARIANT PrimaryIsOne
PROPERTY RetainsAFolder
PROPERTY ContextHolds
