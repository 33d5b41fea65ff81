SPECIFICATION MCSpec
CONSTANTS
  PageCount <- MCPageCount
  Conventional <- MCConventional
  BitmapRegion <- MCBitmapRegion
  KernelImage <- MCKernelImage
  PageSize = 16
  MaxRun = 6
  UintRange = 64
  UlongRange = 512
  HEAP_ALIGN_SIZE = 2
  HEADER = 2
  PAGE_SIZE = 8
  InitialPages = 2
  HEAP_EXPAND_PAGES = 1
  MaxPages = 4
  Sizes = {1, 3, 6, 9}
  Preempt = FALSE
  PIPE_BUF_SIZE = 2
  Byte = {0, 1}
  NoListener = NoListener
  Task = {t1, t2}
  MaxWrite = 3
  MaxRead = 2
  Data <- MCData
  Lengths <- MCLengths
  UINT = 8
INVARIANTS ExclusiveFrames UsedMemoryAccurate PagePanicMeansFull Tiles LiveBlocks ReaderNotForgotten
PROPERTY FifoSpec
CHECK_DEADLOCK FALSE
