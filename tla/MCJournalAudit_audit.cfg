SPECIFICATION ASpec
CONSTANTS
  Decisions = {d1, d2}
  Orders = {o1, o2}
  Targets = {0, 1}
  MaxPos = 1
  MaxAttempts = 2
  Faults = {"crash", "journal", "witness"}
  None = None
SYMMETRY Sym
PROPERTIES
  AuditFindsNothing
