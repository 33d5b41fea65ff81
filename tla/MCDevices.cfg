SPECIFICATION MCSpec
CONSTANTS
  Controllers = 2
  MaxPorts = 2
  Attached <- MCAttached
  MAX_SLOTS = 2
  CMD_RING_SZ = 4
  XFER_RING_SZ = 5
  MaxRetries = 0
  MaxReads = 2
  MaxEarly = 1
  MaxReports = 1
  Keys = {"a"}
  Images <- MCImages
  Paths <- MCPaths
  PIECE = 2
  CLUSTER = 2
  MAX_OPEN_FILES = 2
  MaxCount = 5
  Lba = {1, 2, 3}
  MaxSectors = 2
  MaxWrites = 2
  Firmwares <- MCFirmwares
  MAX_BATTERIES = 3
  MAX_EC_FIELDS = 2
  INT_RANGE = 256
  UINT_RANGE = 64
  MAX_ELEMENTS = 5
  PageCount = 20
  Conventional <- MCFrames
  BitmapRegion = {1}
  KernelImage = {2}
  PageSize = 16
  MaxRun = 6
  UintRange = 64
  UlongRange = 512
  Proc = {"dafne", "app"}
  Server = "dafne"
  PT = 3
  Segments <- MCSegments
  HeapBase = 3
  StackTop = 9
  USER_STACK_PAGES = 1
  UNIT = 2
  Sizes = {1, 2, 3}
  SharedSizes = {1, 2, 3}
  MaxTasks = 2
  MaxHeapPages = 2
  MAX_KEYEVENTS = 3
  Task = {t1, t2}
  NoTask = NoTask
  UsbKeys = {"u"}
  MaxKeys = 2
  MaxBytes = 1
  BYTE = 4
  NIBBLE = 4
  CHAR = 4
  g_fb_width = 3
  g_fb_height = 2
  MaxPackets = 2
INVARIANTS AnswersOwn ReadsTrue FilesRight SectorsRight  Isolation KeysInOrder MouseFollows
CHECK_DEADLOCK FALSE
