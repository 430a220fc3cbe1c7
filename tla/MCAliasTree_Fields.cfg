CONSTANTS
  Shape <- SmallShape
  SizeOf <- SmallSizes
  MaxSize = 2
  Locations <- FieldLocations
  Calls <- NoCalls
  PointsTo <- SmallPointsTo
  MaxAdds = 4
SPECIFICATION Spec
INVARIANTS
  SiblingsDisjoint
CHECK_DEADLOCK FALSE
