SPECIFICATION Spec
CONSTANTS
  Threshold = 1
  ElemSize = 2
  SomeRegions <- Ifs
  Arrays <- OverlappingArrays
INVARIANTS RangesAreKnown
CHECK_DEADLOCK FALSE
