SPECIFICATION LibrarySpec
CONSTANTS
  N = 4
  SIZES = 8
  Values = {v1, v2}
  NoValue = NoValue
  Vectors = {first, second}
  Elements = {x}
  Default = Default
  CAPACITY = 3
  NONE = NONE
  RAW = RAW
  MOVED = MOVED
  BYTE_DIGITS = 4
  NIBBLE_BITS = 2
  Polynomials <- FourPolynomials
  Remainders <- FourRemainders
  MaxBytes = 2
  DIGITS = 8
  ROW_BYTES = 3
  MEMORY_OFFSET_NIBBLES = 2
  Glyphs <- ThreeGlyphs
  NoPrint = NoPrint
  Printables <- ManyPrintables
  Several <- FiveSequences
  SerialStreams = {s1, s2, s3}
  Transmitters = {t1, t2}
  Default_Transmitter = Default_Transmitter
  NULL = NULL
  Signals = {a, b}
  SAMPLES = 3
  MaxSamples = 6
  States = {A, B, C}
  initial_pseudostate = initial_pseudostate
  nullptr = nullptr
INVARIANTS
  CellsMatchSize
  AnswerStaysGood
  LifetimesHold
  CalculatorsDivide
  PrintsTheText
  BuffersAreOwn
  DebouncedAsSampled
  OneStateIsEntered
PROPERTIES
  IsFifo
  IsBoundedSequence
CHECK_DEADLOCK FALSE
