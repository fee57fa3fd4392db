SPECIFICATION MqSpec
CONSTANTS
  NULL = NULL
  d1 = d1
  d2 = d2
  Data <- Pointers
  Requested = 3
INVARIANTS Consistent NoEarlyMessageLost
PROPERTIES ImplementsMessageFifo
