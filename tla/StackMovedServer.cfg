SPECIFICATION Spec
CONSTANTS
  SOCKETS = 2
  MEMORY = 4
  BufferSizes = {2}
  Ports = {p1}
  NoPort = NoPort
  Options = {}
  NoOption = NoOption
  Masks = {}
  NoMask = NoMask
  NoCall = NoCall
  Clients = {}
  Servers = {s1, s2}
  Handlers = {h1}
  UdpSockets = {}
  MoveWithHandlers = TRUE
INVARIANTS
  NoFault
CHECK_DEADLOCK FALSE
