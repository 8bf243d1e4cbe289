CONSTANTS
  DayLength = 4
  MinimumInterval = 1
  DailyLimit = 2
  MaxConcurrency = 1
  Cooldown = 3
  MaxTime = 12
SPECIFICATION Spec
PROPERTIES BackoffHonoured
CHECK_DEADLOCK FALSE
