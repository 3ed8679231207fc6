SPECIFICATION Spec
CONSTANTS
  SOCKETS = 2
  MEMORY = 4
  BufferSizes = {2, 4}
  Ports = {p1}
  NoPort = NoPort
  Options = {o1}
  NoOption = NoOption
  Masks = {m1}
  NoMask = NoMask
  NoCall = NoCall
  Clients = {c1, c2}
  Servers = {s1}
  Handlers = {h1, h2}
  UdpSockets = {u1, u2}
  MoveWithHandlers = FALSE
SYMMETRY FullSymmetry
INVARIANTS
  OneOwnerPerSocket
  FreeSocketsAreReset
  PortsBalance
  ObjectsMatchChip
