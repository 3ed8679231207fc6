SPECIFICATION Spec
CONSTANTS
  Size = 2
  POINTERS = 4
  RECYCLER = "Server"
  MaxTransmitted = 2
  MaxArrived = 1
  MaxConnections = 2
INVARIANTS
  IsTransmittingIsTrue
CHECK_DEADLOCK FALSE
