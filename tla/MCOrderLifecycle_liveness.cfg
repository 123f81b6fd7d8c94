SPECIFICATION FairSpec
CONSTANTS
  Decisions = {d1}
  Orders = {o1}
  Targets = {1}
  MaxPos = 1
  MaxAttempts = 1
  Faults = {"link", "snapshot", "expiry"}
  None = None
PROPERTIES
  EveryFillBooked
  EveryOrderResolved
