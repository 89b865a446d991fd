SPECIFICATION NvramSpec
CONSTANTS
  SramSize = 2
  EepromSize = 1
  Bytes = {0, 1}
  AddressLimit = 4
  MaxFile = 4
  DiskFails = TRUE
  MaxStarts = 2
  NULL = NULL
INVARIANT NvramSound
PROPERTY ImplementsNonVolatile
