SPECIFICATION SpecWrite
CONSTANTS
  SpsIds = {0, 1}
  PpsIds = {0}
  Contents = {a, b}
  Blank = blank
  Debug = FALSE
INVARIANTS
  WrittenFromThose
