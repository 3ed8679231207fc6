SPECIFICATION Spec
CONSTANTS
  SOCKETS = 3
  MEMORY = 6
  BufferSizes = {2, 3}
  Ports = {p1, p2}
  NoPort = NoPort
  Options = {}
  NoOption = NoOption
  Masks = {}
  NoMask = NoMask
  NoCall = NoCall
  Clients = {}
  Servers = {s1, s2}
  Handlers = {h1, h2}
  UdpSockets = {}
  MoveWithHandlers = FALSE
SYMMETRY ServerSymmetry
CONSTRAINT OneServerOfThree
INVARIANTS
  HandlersMatchServers
  AcceptFindsWaiting
  AcceptIsFair
PROPERTIES
  ConnectionsOutliveServer
