SPECIFICATION LiveSpec
CONSTANTS
  NULL = NULL
  CharSigned = TRUE
  AllOnes = 12
  Reader = {a, b}
  FifoSize = 4
  PipeLength = 4
  MaxFlushes = 1
  Numbers = 12
INVARIANTS StreamIntact CountedBytesArePresent
PROPERTY EveryByteArrives
