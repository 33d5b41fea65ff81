SPECIFICATION VmmSpec
CONSTANTS
  PageCount = 20
  Conventional <- MCFrames
  BitmapRegion = {1}
  KernelImage = {2}
  PageSize = 16
  MaxRun = 6
  UintRange = 64
  UlongRange = 512
  Proc = {"dafne", "app"}
  Server = "dafne"
  PT = 3
  Segments <- MCSegments
  HeapBase = 3
  StackTop = 9
  USER_STACK_PAGES = 1
  UNIT = 2
  Sizes = {1, 2, 3}
  SharedSizes = {2}
  MaxTasks = 2
  MaxHeapPages = 2
INVARIANT NoDoubleFree
CHECK_DEADLOCK FALSE
