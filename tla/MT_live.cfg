SPECIFICATION FairSpec
CONSTANTS
  NThreads = 2
  NSemas = 1
  MAX_CRITICAL_NESTING = 3
  ClockMod = 64
  MaxClock = 2
  SleepTicks = {1, 2}
  AppPriorities = {2, 4}
  Calls = {"Sleep", "EndThread", "CtrlBreak", "Dos"}
INVARIANT DeadlockSound
INVARIANT QueueDiscipline
PROPERTY NoOversleep
PROPERTY NoStarvation
PROPERTY SleepersWake
PROPERTY CtrlBreakStops
