SPECIFICATION Spec
CONSTANTS
  Runs = {1, 2}
  Capacity = 2
  BatchMax = 2
  MaxTicks = 2
  Faults = {"io", "slow", "crash"}
CHECK_DEADLOCK FALSE
INVARIANTS ManifestIsLast FlushIsDurable WriterOwnsSession
PROPERTIES OutputsOnlyGrow ImplementsDurableLog EveryTickSettles
