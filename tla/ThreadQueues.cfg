SPECIFICATION Spec
CONSTANTS
  Threads = {1, 2, 3}
  Queues = {"ready", "sema"}
  SleepQ = "sleep"
  Times = {0, 1}
INVARIANT LinksRepresent
INVARIANT SleepSorted
INVARIANT WalkBetween
PROPERTY ImplementsFifo
