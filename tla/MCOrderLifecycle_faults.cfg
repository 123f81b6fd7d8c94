SPECIFICATION Spec
CONSTANTS
  Decisions = {d1}
  Orders = {o1, o2}
  Targets = {2}
  MaxPos = 2
  MaxAttempts = 2
  Faults = {"crash", "journal", "witness", "foreignOrder", "foreignPosition"}
  None = None
SYMMETRY Sym
INVARIANTS
  IInv
PROPERTIES
  HaltOutlivesProcess
  OnlyExplainedIsTrusted
