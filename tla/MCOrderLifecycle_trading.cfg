SPECIFICATION Spec
CONSTANTS
  Decisions = {d1, d2}
  Orders = {o1, o2}
  Targets <- ThroughZero
  MaxPos = 2
  MaxAttempts = 1
  Faults = {"crash", "stopNew"}
  None = None
SYMMETRY Sym
INVARIANTS
  OneUnterminatedIntent
  LiveOrdersAreOpen
  ExposureBounded
  TrustIsJustified
PROPERTIES
  NoFalseHalt
  ImplementsOrderService
