SPECIFICATION MCSpec
CONSTANTS
  SpsIds = {0, 1}
  PpsIds = {0, 1}
  Contents = {a, b}
  Blank = blank
  Debug = FALSE
  TooLong <- Long
  MaxSets = 2
  MaxCalls = 4
SYMMETRY Symmetry
INVARIANTS
  TypeOK
  LatestSetsUsed
  ForwardedSetsUsed
  LatestSubsetUsed
  RecordShowsItsSets
  RecordWritten
CHECK_DEADLOCK FALSE
