SPECIFICATION Spec
CONSTANTS
  ArrayMax = 2
  ListMax = 3
  MaxElements = 80
  Streams <- MCStreams
CHECK_DEADLOCK FALSE
INVARIANTS
  ReadAsWritten
  NothingLeftOver
  WrittenBack
  Settled
