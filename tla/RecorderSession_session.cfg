SPECIFICATION FairSpec
CONSTANTS
  HeartbeatTimeout = 1
  Grace = 1
  RequestTicks = 1
  CloseTicks = 2
  FinalizeTicks = 1
  ShortLimit = 1
  SessionLimit = 1
  MaxEvents = 1
  Faults = {"wedge", "storage", "publisher"}
CHECK_DEADLOCK FALSE
INVARIANTS
  ShortLogIsNotPublished
PROPERTIES
  OneSessionPerLog
  OnlyTheWedgedIsKilled
  WedgedIsKilled
