SPECIFICATION FairSpec
CONSTANTS
  MaxConns = 4
  MaxClimbs = 1
INVARIANTS
  PoolTypeOK
  SomeoneReleases
PROPERTIES
  EveryoneServed
  StopsOnSignal
CHECK_DEADLOCK FALSE
