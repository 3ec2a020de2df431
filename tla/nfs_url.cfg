SPECIFICATION RequestSpec
CONSTANTS
  GiB <- MCGiB
  Sizes <- MCSizes
  Drivers <- MCDrivers
  Capabilities <- MCCapabilities
  WrittenVolumes <- MCWritten
  SessionKeys = {"s1", "s2"}
  DiscoveryKeys = {"d1", "d2"}
  LunRange = 8
INVARIANT MountsFromAppliance
\* One volume is all there is.
CHECK_DEADLOCK FALSE
