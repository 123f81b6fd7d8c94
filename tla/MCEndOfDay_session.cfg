SPECIFICATION EodSpec
CONSTANTS
  Decisions = {s1, f1}
  FlattenIds = {f1}
  OtherLegs = 1
  Days = 2
  Orders = {o1, o2}
  Targets = {1}
  MaxPos = 1
  MaxAttempts = 1
  Faults = {"crash"}
  None = None
SYMMETRY Sym
INVARIANTS
  NoNormalCarry
  LateOrderIsRecorded
PROPERTIES
  CompletedIsFlat
