SPECIFICATION Spec
CONSTANTS
  Pieces = 5
  BufSize = 9
  Files <- FileSet
  Junk <- JunkSet
INVARIANTS
  TypeOK
  CallsShowTheFile
  LosesOnlyTheEnd
PROPERTIES
  ImplementsFraming
  Termination
CHECK_DEADLOCK FALSE
