CONSTANTS
  Shape <- SmallShape
  SizeOf <- SmallSizes
  MaxSize = 2
  Locations <- SmallLocations
  Calls <- SmallCalls
  PointsTo <- SmallPointsTo
  MaxAdds = 4
SPECIFICATION Spec
INVARIANTS
  SiblingsDisjoint
  ParentsCover
  LargerCovers
  FindCovers
  NoAssertionFails
CHECK_DEADLOCK FALSE
