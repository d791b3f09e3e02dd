CONSTANTS
  W = 1
  PERIOD = 2
  Sample = {0, 1}
  Silence = 0
  Masks = {{0}}
  Data <- MCData
SPECIFICATION Spec
INVARIANTS DacCurrent
