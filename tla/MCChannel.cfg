SPECIFICATION MCSpec
CONSTANTS
  c1 = c1 s1 = s1
  tc1 = tc1 ts1 = ts1 ts2 = ts2
  Proc = {c1, s1} NoProc = NoProc
  Task = {tc1, ts1, ts2} NoTask = NoTask
  OwnerOf <- MCOwnerOf
  Name = {dafne, dhcp} NoName = NoName
  MAX_SERVERS = 2
  MAX_PENDING = 2
  MAX_HANDLES = 2
  Serving = {s1}
  Connecting = {c1, s1}
  MaxChannels = 4
  MaxBytes = 4
  MaxLen = 2
  PIPE_BUF_SIZE = 2
  Byte <- MCByte
  NoListener = NoTask
SYMMETRY Symmetry
INVARIANTS InOrder QueuedOnce ReceiverNotForgotten PeerAlive
CHECK_DEADLOCK FALSE
