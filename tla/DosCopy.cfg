SPECIFICATION Spec
CONSTANTS
  Names = {f1, f2}
  f1 = f1
  f2 = f2
  MaxDirs = 1
  MaxDepth = 2
CHECK_DEADLOCK FALSE
INVARIANT BufferFreed
INVARIANT HandlesClosed
INVARIANT FileErrorsReported
