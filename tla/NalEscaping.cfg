SPECIFICATION Spec
CONSTANTS
  Alphabet = {0, 1, 3, 4}
  MaxLen = 6
  Rbsps <- Buffers
  Nals <- Buffers
  NalSizes <- NalSizeRange
  RbspSizes <- RbspSizeRange
INVARIANTS
  TypeOK
  NoStartCodeEmulation
  DocumentedSizeSuffices
  UnescapesAsDefined
  RoundTrip
CHECK_DEADLOCK FALSE
