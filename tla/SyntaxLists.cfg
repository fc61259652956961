SPECIFICATION Spec
CONSTANTS
  ArrayMax = 2
  ListMax = 3
  MaxElements = 80
  Streams <- MCLists
CHECK_DEADLOCK FALSE
INVARIANTS
  ReadAsWritten
