SPECIFICATION Spec
CONSTANTS
  SessionOpen = 1
  SessionClose = 5
  BarGap = 2
  FarmNames = {"east", "west"}
  Runs = {task, script}
  MaxMarks = 2
  MaxSealed = 1
  MaxTouches = 2
CHECK_DEADLOCK FALSE
INVARIANTS
  VerdictIsExact
  AmendmentIsOfTheSealedLog
