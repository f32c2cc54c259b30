SPECIFICATION Spec
CONSTANTS
  B = 8
  P = 4
  LowParas = 3
  ErrNoMemory = 1
  ModuleSize = 7
  RecordSize = 4
  Images <- MCImages
  ArenaTops = {9, 14, 40}
INVARIANT ImageInPlace
INVARIANT RelocatesOwnSegment
PROPERTY WritesStayInBlocks
PROPERTY Terminates
CHECK_DEADLOCK FALSE
