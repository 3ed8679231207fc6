SPECIFICATION FairSpec
CONSTANTS
  Size = 4
  POINTERS = 8
  Endpoints = {e1, e2}
  DataSizes = {1, 2}
  NoEndpoint = NoEndpoint
  MaxTransmitted = 2
  MaxArrived = 2
  MaxSockets = 2
INVARIANTS
  DatagramsAreWhole
  ReceivedAsArrived
  IsTransmittingIsTrue
PROPERTIES
  TransmissionEnds
CHECK_DEADLOCK FALSE
