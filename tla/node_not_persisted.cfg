SPECIFICATION Spec
CONSTANTS
  p1 = p1
  p2 = p2
  p3 = p3
  t1 = t1
  t2 = t2
  t3 = t3
  NoPath = NoPath
  Paths = {p1}
  Threads = {t1}
  MaxOverlaps = 0
  MaxFails = 1
  MaxTimeouts = 0
  MaxCrashes = 0
SYMMETRY NodeSymmetry
INVARIANT NotPersistedDisconnects
\* Every path is used once, so the node comes to rest.
CHECK_DEADLOCK FALSE
