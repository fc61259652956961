SPECIFICATION MCSpec
CONSTANTS
  Size = 3
  Width = 8
  MaxFields = 3
  Fields <- SomeFields
  HeaderBits <- HeaderLengths
  Bytes = {a, b}
  MaxData = 3
  Room = 5
INVARIANTS
  ReadsBack
  CutDetected
  MoreDataExact
  NothingLost
  DataRead
SYMMETRY Symmetry
CHECK_DEADLOCK FALSE
