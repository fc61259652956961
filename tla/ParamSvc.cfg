SPECIFICATION SpecRead
CONSTANTS
  SpsIds = {0, 1}
  PpsIds = {0}
  Contents = {a, b}
  Blank = blank
  Debug = TRUE
INVARIANTS
  OwnedOnce
PROPERTIES
  ImplementsStore
