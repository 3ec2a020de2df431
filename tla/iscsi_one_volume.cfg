SPECIFICATION FairSpec
CONSTANTS
  v1 = v1
  Volumes = {v1}
  Prefixes <- NoPrefixes
  MaxFaults <- ManyFaults
  MaxTotal = 4
INVARIANTS
  TypeOK
  BoundIsServed
  GoneLeavesNothing
  RollbackLeavesNothing
  DoneAfterAbandons
  NeverRefused
  NeverHangs
PROPERTIES
  ImplementsLifecycle
  Converges
\* The provisioner has nothing left to do once every volume is gone.
CHECK_DEADLOCK FALSE
