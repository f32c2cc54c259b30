SPECIFICATION Spec
CONSTANTS
  NThreads = 3
  NSemas = 1
  MAX_CRITICAL_NESTING = 3
  ClockMod = 64
  MaxClock = 0
  SleepTicks = {}
  AppPriorities = {1}
  Calls = {"Wait", "Signal"}
INVARIANT MutualExclusion
