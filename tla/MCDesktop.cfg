SPECIFICATION MCSpec
CONSTANTS
  App = {a, b, c}
  NoApp = NoApp
  WINDOW_MAX_COUNT = 3
  Cell = {0, 1, 2, 3}
  TITLE = 1
  HEIGHT = 1
  StartY = 1
  MaxInputs = 2
  MaxPaints = 2
  Trees <- MCTrees
  MAX_DIRTY_RECTS = 3
  TEXT_FIELD_MAX_LENGTH = 3
  SCROLL_SPEED = 1
  Texts = {0, 2}
  MaxEvents = 3
  MaxTime = 1
  MAX_CMD = 8
  MAX_ARGS = 3
  MAX_ARG_LENGTH = 6
  MAX_PARTS = 5
  MAX_PART_LENGTH = 6
  DIR_SIZE = 8
  Programs <- MCPrograms
  Lines <- MCLines
SYMMETRY AppSymmetry
INVARIANTS ScreenCurrent BuffersCurrent DirRight
CHECK_DEADLOCK FALSE
