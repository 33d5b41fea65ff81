CONSTANTS
  HEAP_ALIGN_SIZE = 2
  HEADER = 2
  PAGE_SIZE = 8
  InitialPages = 2
  HEAP_EXPAND_PAGES = 1
  MaxPages = 2
  Sizes = {2, 6}
  Preempt = TRUE
SPECIFICATION Spec
INVARIANT AllocationsDisjoint
