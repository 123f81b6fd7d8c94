SPECIFICATION FairSpec
CONSTANTS
  Callbacks = 3
  Commands = {c1}
  MaxQueue = 1
  MaxWrites = 1
  JournalFaults = {"error", "timeout", "writerDeath", "close"}
  BridgeFaults = {"raise", "cancelled", "close"}
  OverflowHalt = OverflowHalt
  None = None
CHECK_DEADLOCK FALSE
INVARIANTS
  AppliedInOrder
  RefusalIsFenced
  HaltLeavesATrace
PROPERTIES
  LossIsFenced
  NothingIsLeftWaiting
