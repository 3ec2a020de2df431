SPECIFICATION Spec
CONSTANTS
  p1 = p1
  p2 = p2
  p3 = p3
  t1 = t1
  t2 = t2
  t3 = t3
  NoPath = NoPath
  Paths = {p1, p2}
  Threads = {t1, t2, t3}
  MaxOverlaps = 1
  MaxFails = 1
  MaxTimeouts = 2
  MaxCrashes = 1
SYMMETRY NodeSymmetry
INVARIANTS
  TypeOK
  PublishedIsServed
  DetachOnlyUnused
  LastOneOutDisconnects
PROPERTY ImplementsPublishedPath
\* Every path is used once, so the node comes to rest.
CHECK_DEADLOCK FALSE
