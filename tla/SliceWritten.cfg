SPECIFICATION SliceSpec
CONSTANTS
  HeaderBits <- HeaderLengths
  Bytes = {a}
  MaxData = 1
  Room = 5
PROPERTIES
  DataWritten
CHECK_DEADLOCK FALSE
