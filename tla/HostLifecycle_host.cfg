SPECIFICATION Spec
CONSTANTS
  Procs = {p1}
  MaxEvents = 8
  Faults = {"crash", "powerLoss", "journal", "witness", "fence", "halt"}
  None = None
CHECK_DEADLOCK FALSE
INVARIANTS
  SendsAreRemembered
  NothingIsLaundered
