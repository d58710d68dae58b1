\* Four requests, two at a time, on two slugs, a kill or a loss of Hermes' store.
SPECIFICATION Spec
CONSTANTS
  s1 = s1
  s2 = s2
  w1 = w1
  w2 = w2
  Slugs = {s1, s2}
  Workers = {w1, w2}
  UniqueSlugs = FALSE
  MaxRequests = 4
  MaxTroubles = 1
SYMMETRY Symmetry
INVARIANT ManifestIsTruthful
INVARIANT OnlyOverlapsRegisterPartial
INVARIANT RegisteredOnce
INVARIANT Recoverable
CHECK_DEADLOCK FALSE
