SPECIFICATION MailboxSpec
CONSTANTS
  NThreads = 3
  NSemas = 1
  MAX_CRITICAL_NESTING = 2
  ClockMod = 64
  MaxClock = 0
  SleepTicks = {}
  AppPriorities = {1}
  Calls = {"EndMT", "EndThread"}
  NMailboxes = 1
  MsgSizes = {1, 2}
  MailboxCalls = {"Send", "Receive", "CreateMailbox", "DestroyMailbox"}
INVARIANT OneSided
INVARIANT OneMessagePerCall
