SPECIFICATION ListSpec
CONSTANTS
  v1 = v1
  v2 = v2
  Volumes = {v1, v2}
  Prefixes <- NoPrefixes
  MaxFaults <- OneRetry
  MaxTotal = 1
SYMMETRY VolumeSymmetry
INVARIANT LunIsZero
PROPERTIES
  OwnObjectsOnly
  ListedWasServed
  SteadyIsListed
\* The provisioner has nothing left to do once every volume is gone.
CHECK_DEADLOCK FALSE
