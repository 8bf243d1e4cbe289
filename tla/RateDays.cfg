CONSTANTS
  DayLength = 5
  MinimumInterval = 2
  DailyLimit = 2
  MaxConcurrency = 1
  Cooldown = 3
  MaxTime = 14
SPECIFICATION Spec
INVARIANTS TypeOK SlotFree QuotaPerDay
PROPERTIES BackoffWithinDay IntervalWithinDay
CHECK_DEADLOCK FALSE
