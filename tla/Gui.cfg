SPECIFICATION Spec
CONSTANTS
  Streams = {s}
  Videos = {v}
  Length <- Lengths32
  DropsWhileBusy = TRUE
  MaxCalls = 3
INVARIANTS NoTempLeft SavedInOrder
CHECK_DEADLOCK FALSE
