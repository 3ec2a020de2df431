SPECIFICATION Spec
CONSTANTS
  v1 = v1
  Volumes = {v1}
  Prefixes <- NoPrefixes
  MaxFaults <- OneLost
  MaxTotal = 1
INVARIANT DoneByNow
\* The provisioner has nothing left to do once every volume is gone.
CHECK_DEADLOCK FALSE
