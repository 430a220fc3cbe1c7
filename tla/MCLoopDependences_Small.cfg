SPECIFICATION Spec
CONSTANTS
  Programs <- SmallPrograms
  Horizon = 4
\* The analysis ends when every pair has been tested.
CHECK_DEADLOCK FALSE
INVARIANTS
  Independence
  DirectionsCover
  DistancesAreExact
  ConstraintsHold
  PeelAndSplitBreak
  KindsAreRecorded
  DistancesCover
