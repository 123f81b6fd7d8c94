SPECIFICATION Spec
CONSTANTS
  BarTimeout = 2
  IdleTimeout = 3
  BarsOnly = 4
  SlowBase = 5
  SlowMax = 10
  FastAttempts = 2
  Farms = {f1, f2}
INVARIANTS
  SilenceIsLabelled
PROPERTIES
  SlowReconnectsPaced
  SilenceIsRepaired
