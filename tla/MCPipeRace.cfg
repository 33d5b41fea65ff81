CONSTANTS
  PIPE_BUF_SIZE = 2
  Byte = {0}
  NoListener = NoListener
  Task = {t1, t2}
  MaxWrite = 1
  MaxRead = 1
  Data <- MCData
  Lengths <- MCLengths
  UINT = 8
SPECIFICATION SpecPreempt
INVARIANT CountExact
CHECK_DEADLOCK FALSE
