SPECIFICATION Spec
CONSTANTS
  Bits = 3
  Address = 1
  Register <- Scrambled
  Client = {a, b}
  Wanted = {0, 7}
  Counts = {2}
INVARIANTS Owned FreeMeansIdle ReadsOwnRegisters
SYMMETRY Interchangeable
