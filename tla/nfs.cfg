SPECIFICATION ListSpec
CONSTANTS
  v1 = v1
  v2 = v2
  Volumes = {v1, v2}
  MaxFaults <- OneOfEach
  MaxTotal = 2
INVARIANTS
  TypeOK
  BoundIsShared
  RefusedForItsForm
PROPERTIES
  ImplementsLifecycle
  Converges
  ListIsRight
\* The provisioner has nothing left to do once every volume is gone.
CHECK_DEADLOCK FALSE
