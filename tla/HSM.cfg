SPECIFICATION FairSpec
CONSTANTS
  States = {a, b, c, d}
  top = top
  null = null
  MAX_STATE_DEPTH = 4
INVARIANTS
  CallsNest
  ActiveStatesAreEntered
  CommonSuperstatesStay
PROPERTIES
  CallsReturn
