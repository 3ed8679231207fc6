SPECIFICATION FairSpec
CONSTANTS
  Size = 2
  POINTERS = 4
  RECYCLER = "Network_Stack"
  MaxTransmitted = 4
  MaxArrived = 3
  MaxConnections = 2
INVARIANTS
  WireIsPrefix
  DeliveredAsArrived
  IsTransmittingIsTrue
PROPERTIES
  TransmissionEnds
CHECK_DEADLOCK FALSE
