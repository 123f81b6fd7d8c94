SPECIFICATION Spec
CONSTANTS
  Limits <- SmallLimits
  Prices = {1, 2}
  Mid = 1
  DayLength = 3
  Minute = 2
  Horizon = 6
CHECK_DEADLOCK FALSE
INVARIANTS DailyCapsHeld MinuteCapHeld DeadControlNeverStarts
