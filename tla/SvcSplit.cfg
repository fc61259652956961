SPECIFICATION Spec
CONSTANTS
  SpsIds = {0, 1}
  PpsIds = {0, 1, 2}
  PpsBufs = 2
  MaxUnits = 5
INVARIANTS
  LayersDecodable
  SavedOnce
  NoGarbageUsed
CHECK_DEADLOCK FALSE
