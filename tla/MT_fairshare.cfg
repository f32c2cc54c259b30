SPECIFICATION FairShareSpec
CONSTANTS
  NThreads = 3
  NSemas = 2
  MAX_CRITICAL_NESTING = 3
  ClockMod = 64
  MaxClock = 0
  SleepTicks = {}
  AppPriorities = {2, 5}
  Calls = {"Yield", "EndThread", "Wait"}
INVARIANT ServedWithinGap
INVARIANT BoundedWaiting
