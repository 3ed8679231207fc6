SPECIFICATION BusesSpec
CONSTANTS
  BYTE = 3
  None = None
  SpiSockets = {2, 5}
  BufferOffsets = {767}
  Patterns <- SixBytes
  Junk = {255}
  MaxCalls = 2
  NoSpiCall = NoSpiCall
  Interrupts = {"CONFLICT", "UNREACH"}
  I2CDevices <- ThreeDevices
  LastAddress = 4
  BlockSizes = {1, 2}
  I2CBytes = {1, 2}
  MaxTransfers = 2
INVARIANTS
  ConfigurationStays
  BusIsFree
  TransfersAreAtomic
PROPERTIES
  ResultWasSeen
  CallReturns
  IsRegisterFile
CHECK_DEADLOCK FALSE
