SPECIFICATION Spec
CONSTANTS
  Threshold = 1
  ElemSize = 2
  SomeRegions <- Ifs
  Arrays <- DownArrays
INVARIANTS RangesAlwaysWritten
CHECK_DEADLOCK FALSE
