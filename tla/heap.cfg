SPECIFICATION Spec
CONSTANTS
  Zone = 1
  Length = 54
  Hdr = 2
  Word = 128
  ListSize = 3
  NodeSize = 2
  TcbSize = 3
  StackSizes = {1, 4}
  Ids = 4
INVARIANTS HeapIsExact MallocIsNextFit
PROPERTY ImplementsTaskList
CHECK_DEADLOCK FALSE
