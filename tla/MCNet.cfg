SPECIFICATION MCSpec
CONSTANTS
  Task = {t1, t2}
  NoTask = NoTask
  UDP_MAX_SOCKETS = 2
  SOCKET_QUEUE_SIZE = 3
  Port = {53, 68, 69}
  Reserved = {53}
  MaxSockets = 3
  MaxDatagrams = 3
  Width = 3
  Lo = "lo"
  Eth = "eth"
  NoNic = "nonic"
  LoAddr = 2
  LoPrefix = 2
  ROUTING_TABLE_MAX_ENTREIS = 5
  ARP_TABLE_SIZE = 2
  MAX_PENDING_FRAMES = 2
  BUFFER_LEN = 3
  Addresses = {3, 4}
  Netmasks = {1, 2}
  Gateways = {6}
  Destinations = {3, 5, 7}
  MaxPackets = 3
  Client = "client"
  Server = "server"
  TCP_MAX_CONNECTIONS = 1
  TCP_BACKLOG_SIZE = 2
  TCP_BUFFER = 2
  SEQ_RANGE = 16
  InitialSeqs = {14}
  RandomIds = {99}
  MaxOpens = 2
  MaxBytes <- MCMaxBytes
  MaxIncoming = 2
  TX_DESC_COUNT = 3
  RX_DESC_COUNT = 3
  Memory = {b1, b2}
  MaxFrames = 5
SYMMETRY Symmetry
INVARIANTS PortsExclusive SocketReceiverNotForgotten PacketsInOrder PacketsConserved RouteBest StreamContiguous AckSent FramesInOrder
CHECK_DEADLOCK FALSE
