\* Two clients and two threads, from one window into the next.
SPECIFICATION LimiterSpec
CONSTANTS
  Clients = {c1, c2}
  Threads = {t1, t2}
  MaxRequests = 2
  Window = 2
  MaxTime = 3
SYMMETRY Symmetry
INVARIANT WindowIsKept
CHECK_DEADLOCK FALSE
