SPECIFICATION Spec
CONSTANTS
  Threshold = 1
  ElemSize = 2
  SomeRegions <- SmallRegions
  Arrays <- SmallArrays
INVARIANTS RangesAlwaysWritten RangesMayReach RangesCoverReads IntersectionsAreExact
CHECK_DEADLOCK FALSE
