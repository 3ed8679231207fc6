SPECIFICATION Spec
CONSTANTS
  States = {a, b}
  top = top
  null = null
  MAX_STATE_DEPTH = 2
INVARIANTS
  IsInKnowsActiveStates
