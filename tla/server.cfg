SPECIFICATION FairSpec
CONSTANTS
  c1 = c1
  c2 = c2
  Calls = {c1, c2}
  MaxSignals = 2
  MaxKills = 1
  MaxFails = 1
INVARIANTS
  TypeOK
  ReadyIsServing
  FailsForAReason
  StopGoesOn
PROPERTIES
  StopCutsNoCall
  SignalStops
\* A server that nobody calls any more, and that nothing stops, waits for ever.
CHECK_DEADLOCK FALSE
