SPECIFICATION SerialSpec
CONSTANTS
  SerialStreams = {s1, s2, s3}
  Transmitters = {t1, t2}
  Default_Transmitter = Default_Transmitter
  NULL = NULL
INVARIANT PutsReachTransmitter
