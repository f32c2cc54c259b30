SPECIFICATION Spec
CONSTANTS
  Onward = FALSE
INVARIANT ChainsIntact
INVARIANT EachRunsOnce
INVARIANT StrayExplained
PROPERTY InterruptsEnd
CHECK_DEADLOCK FALSE
