SPECIFICATION FairSpec
CONSTANTS
  p1 = p1
  t1 = t1
  t2 = t2
  t3 = t3
  NoPath = NoPath
  Paths = {p1}
  Threads = {t1, t2, t3}
  MaxOverlaps = 0
  MaxFails = 2
  MaxTimeouts = 2
  MaxCrashes = 1
INVARIANTS
  TypeOK
  PublishedIsMounted
PROPERTIES
  ImplementsPublishedPath
  Converges
\* Every path is used once, so the node comes to rest.
CHECK_DEADLOCK FALSE
