SPECIFICATION Spec
CONSTANTS
  NThreads = 2
  NSemas = 1
  MAX_CRITICAL_NESTING = 3
  ClockMod = 64
  MaxClock = 1
  SleepTicks = {1}
  AppPriorities = {1}
  Calls = {"KillThread", "Sleep"}
INVARIANT NoWildDispatch
