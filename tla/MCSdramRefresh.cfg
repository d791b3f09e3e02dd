CONSTANTS
  Nway = 1
  Addr <- MCAddr
  Data = {0}
  None = None
  Banks = {0, 1}
  POWER_UP = 1
  REFRESH_FIRST = 5
  REFRESH_CYCLES = 5
  REFRESH_WAIT = 7
  FORGETS = 60
SPECIFICATION FairSpec
INVARIANT RefreshedInTime
