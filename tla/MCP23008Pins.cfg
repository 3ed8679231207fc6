SPECIFICATION Spec
CONSTANTS
  Devices = {d1, d2}
  mux = mux
  none = none
  Bits = {b1, b2}
  InputPins = {i1}
  OpenDrainPins = {o1, o2}
  PushPullPins = {p1}
SYMMETRY Symmetry
INVARIANTS
  OnlyTargetAnswers
  CachesMatch
  LinesFollowPins
PROPERTIES
  LinesDoNotGlitch
CHECK_DEADLOCK FALSE
