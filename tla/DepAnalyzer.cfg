SPECIFICATION MCSpec
CONSTANTS
  SpsIds = {0}
  SpsValues <- AllSpsValues
  Slices <- AllSlices
  MaxRefFrames = 2
  MaxDeps = 2
  MaxFrames = 5
  MaxPocFrames = 4
INVARIANTS
  TypeOK
  ArraysSuffice
  DependenciesInWindow
  DpbIsSlidingWindow
  PeriodsInOrder
  PocReconstructed
  ReportedInDisplayOrder
CHECK_DEADLOCK FALSE
