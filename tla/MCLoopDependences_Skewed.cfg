SPECIFICATION Spec
CONSTANTS
  Programs <- SkewedPrograms
  Horizon = 4
CHECK_DEADLOCK FALSE
INVARIANT CarriedAreRecorded
